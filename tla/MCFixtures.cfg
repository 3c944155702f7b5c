SPECIFICATION FixtureSpec
CONSTANTS
    HalfRange = 1500000000
    Malformed = Malformed
    TxnIds <- MCTxnIds
    TrimSpace <- MCTrimSpace
    Seeds <- MCSeeds
    Draws <- MCDraws
INVARIANTS
    RowsReadBack
    NoSampleFeeStandsOut
    SampleTellsItsStory
CHECK_DEADLOCK FALSE
