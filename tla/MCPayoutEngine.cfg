SPECIFICATION FairEngineSpec
CONSTANTS
    HalfRange = 536870912
    Handlers = {h1}
    Readers = {r1}
    Main = main
    TxnIds <- MCTxnIds
    TrimSpace <- MCTrimSpace
    Malformed = Malformed
    NoFile = NoFile
    Absent = Absent
    FirstDay = 2
    LastDay = 3
    MonthStarts <- MCMonthStarts
    TxnFiles <- MCTxnFiles
    SettlementUploads <- MCSettlementUploads
    TxnFixtures <- MCTxnFixtures
    SettlementFixtures <- MCSettlementFixtures
    Queries <- MCQueries
INVARIANTS
    EngineTypeOK
    NoFalseAlarm
    UntouchedIsExact
    ReceivedStaysReceived
    NoAlarmBeforeDayIsOver
    NothingOutOfSight
    BooksBalance
PROPERTY QueriesAnswered
