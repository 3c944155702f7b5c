SPECIFICATION ForecastSpec
CONSTANTS
    HalfRange = 536870912
    Malformed = Malformed
    Inputs <- MCInputs
    MonthStarts <- MCMonthStarts
INVARIANTS
    LoopsComputeReconcile
    RowsAccountedFor
    ForecastComesTrue
    ForecastAddsUp
    CurrencyIsOfTheForecast
    AmountsReadable
CHECK_DEADLOCK FALSE
