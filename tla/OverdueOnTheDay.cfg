SPECIFICATION ForecastSpec
CONSTANTS
    HalfRange = 536870912
    Malformed = Malformed
    Inputs <- MCInputs
    MonthStarts <- MCMonthStarts
INVARIANT OverdueOnTheDay
CHECK_DEADLOCK FALSE
