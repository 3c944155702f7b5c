SPECIFICATION Spec
CONSTANTS
    HalfRange = 536870912
    h1 = h1
    h2 = h2
    Handlers <- MCHandlers
    Main = main
    TxnIds <- MCTxnIds
    TrimSpace <- MCTrimSpace
    Malformed = Malformed
    NoFile = NoFile
    TxnFiles <- MCRefundFiles
    SettlementUploads <- MCSettlementUploads
    TxnFixtures <- MCTxnFixtures
    SettlementFixtures <- MCSettlementFixtures
SYMMETRY Symmetry
INVARIANT NoNegativeAmounts
