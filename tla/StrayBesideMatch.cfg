SPECIFICATION ForecastSpec
CONSTANTS
    HalfRange = 536870912
    Malformed = Malformed
    Inputs <- MCInputs
    MonthStarts <- MCMonthStarts
INVARIANT DefensiveBranchIsDead
CHECK_DEADLOCK FALSE
