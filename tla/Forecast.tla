------------------------------- MODULE Forecast -------------------------------
(***************************************************************************)
(* GET /queries/forecast after its snapshots: reconcile them (the loops of *)
(* ReconcileLoop), then put every pending transaction expected within the  *)
(* window into a bucket for its day and acquirer                           *)
(* (internal/forecast/forecast.go).  Entries are visited in any order.     *)
(* Sorting the days and acquirers for output is left out: the result is a  *)
(* function of them.                                                       *)
(***************************************************************************)
EXTENDS ReconcileLoop, Fees, Cashflow

ASSUME AmountsAssumption == \A call \in Inputs : \A t \in call.txns : t.AmountMinor \in Int64

VARIABLES
    stage,      \* "reconciling", "bucketing" or "returned"
    left,       \* reconciled entries not yet looked at
    netByAcq,   \* <<day, acquirer>> -> predicted net
    txnCount,   \* <<day, acquirer>> -> number of transactions
    dayTotal,   \* day -> predicted net of all acquirers
    currency,   \* of the first transaction counted; "" before
    grand       \* the grand total

buckets      == <<netByAcq, txnCount, dayTotal, currency>>
forecastVars == <<loopVars, stage, left, buckets, grand>>

ForecastInit ==
    /\ LoopInit
    /\ stage    = "reconciling"
    /\ left     = {}
    /\ netByAcq = NoKeys
    /\ txnCount = NoKeys
    /\ dayTotal = NoKeys
    /\ currency = ""
    /\ grand    = 0

\* A window of 1 to 14 days is served; the HTTP layer lets no other through,
\* and the function itself returns an empty forecast.
DaysAllowed == in.days \in 1 .. 14

ReconcileOn ==
    /\ stage = "reconciling"
    /\ LoopNext
    /\ UNCHANGED <<stage, left, buckets, grand>>

StartForecast ==
    /\ stage = "reconciling"
    /\ phase = "done"
    /\ stage' = IF DaysAllowed THEN "bucketing" ELSE "returned"
    /\ left' = IF DaysAllowed THEN reconciled ELSE {}
    /\ UNCHANGED <<loopVars, buckets, grand>>

\* Faulty variant of InWindow: money expected on the day itself is counted.
FromToday(t) == t.ExpectedSettleDate \in in.asOf .. in.asOf + in.days

InWindow(t) == t.ExpectedSettleDate \in in.asOf+1 .. in.asOf + in.days

Counts(e) == e.Status = "pending" /\ InWindow(e.Transaction)

\* What the acquirer is expected to pay; the whole amount if it has no fee rule.
PredictedNet(t) ==
    IF HasFeeRule(t.Acquirer)
    THEN Wrap(t.AmountMinor - ExpectedFee(t.Acquirer, t.AmountMinor))
    ELSE t.AmountMinor

\* Faulty variant of Plus64: the last amount replaces those before it.
Replace64(map, k, v) == With(map, k, v)

\* map[k] += v, starting from zero.
Plus64(map, k, v) == With(map, k, IF k \in DOMAIN map THEN Wrap(map[k] + v) ELSE v)

\* Faulty variant of FirstCurrency: the currency is noted before the window is
\* looked at.
FirstOfAll(e) ==
    currency' = IF currency = "" THEN e.Transaction.Currency ELSE currency

FirstCurrency(e) ==
    currency' = IF currency = "" /\ Counts(e) THEN e.Transaction.Currency ELSE currency

BucketEntry ==
    /\ stage = "bucketing"
    /\ \E e \in left :
          LET t   == e.Transaction
              key == <<t.ExpectedSettleDate, t.Acquirer>>
          IN
          /\ left' = left \ {e}
          /\ FirstCurrency(e)
          /\ \/ /\ Counts(e)
                /\ netByAcq' = Plus64(netByAcq, key, PredictedNet(t))
                /\ txnCount' = Plus64(txnCount, key, 1)
                /\ dayTotal' = Plus64(dayTotal, t.ExpectedSettleDate, PredictedNet(t))
             \/ /\ ~Counts(e)
                /\ UNCHANGED <<netByAcq, txnCount, dayTotal>>
    /\ UNCHANGED <<loopVars, stage, grand>>

ReturnForecast ==
    /\ stage = "bucketing"
    /\ left = {}
    /\ stage' = "returned"
    /\ grand' = Sum(dayTotal, DOMAIN dayTotal)
    /\ UNCHANGED <<loopVars, left, buckets>>

ForecastNext == ReconcileOn \/ StartForecast \/ BucketEntry \/ ReturnForecast

ForecastSpec == ForecastInit /\ [][ForecastNext]_forecastVars

-----------------------------------------------------------------------------
(***************************************************************************)
(* Properties.                                                             *)
(***************************************************************************)
Returned == stage = "returned" /\ DaysAllowed

Window == in.asOf+1 .. in.asOf + in.days

\* The transactions that, by their definition, the window should contain.
Upcoming ==
    {t \in in.txns : /\ UsedRow(t, in.rows) = NoRow
                     /\ t.ExpectedSettleDate \in Window}

\* The settlement row of a transaction that is paid in full, on its day and
\* with the fee expected of its acquirer.
PaidAsExpected(t) ==
    [TransactionID  |-> t.ID,
     Acquirer       |-> t.Acquirer,
     GrossMinor     |-> t.AmountMinor,
     NetMinor       |-> t.AmountMinor - ExpectedFee(t.Acquirer, t.AmountMinor),
     SettlementDate |-> BangkokInstant(t.ExpectedSettleDate)]

PaidRows == SeqExt!SetToSeq({PaidAsExpected(t) : t \in Upcoming})

\* The settlements once the forecast has come true.  An open transaction has no
\* row of its key, so saving its row replaces none.
RowsToCome == in.rows \o PaidRows

\* What the cash flow query reports for the days of the window, summed up.
CashOfWindow(rows) ==
    Sum([d \in Window |-> Total(ExpectedCashByAcquirer(rows, d))], Window)

\* The forecast for a day, with nothing for the acquirers it does not list.
Forecasted(day) ==
    [a \in Acquirers |->
        IF <<day, a>> \in DOMAIN netByAcq THEN netByAcq[<<day, a>>] ELSE 0]

\* The forecast comes true: if every transaction still open is paid on its day
\* with the expected fee, the cash flow query then reports, for each day of the
\* window and each acquirer, what it reports of the rows already stored (rows
\* dated ahead, of transactions settled early, of strays) plus exactly what was
\* forecast.  Nothing is in both and nothing in neither, whatever order the maps
\* were walked in; money of today and late money are not forecast
\* (forecast.go, Forecast; query/service.go, ExpectedCashByAcquirer).
ForecastComesTrue ==
    Returned =>
        /\ \A d \in Window, a \in Acquirers :
              ExpectedCashByAcquirer(RowsToCome, d)[a]
                = Wrap(ExpectedCashByAcquirer(in.rows, d)[a] + Forecasted(d)[a])
        /\ CashOfWindow(RowsToCome) = Wrap(CashOfWindow(in.rows) + grand)
        /\ DOMAIN dayTotal = {t.ExpectedSettleDate : t \in Upcoming}

\* The totals agree with their parts: days with transactions, days with
\* acquirers, and the transactions counted.
ForecastAddsUp ==
    Returned =>
        /\ \A d \in DOMAIN dayTotal : dayTotal[d] = Total(Forecasted(d))
        /\ Sum(txnCount, DOMAIN txnCount)
             = Sum([t \in Upcoming |-> 1], Upcoming)

\* The currency shown is that of a transaction in the forecast, and missing
\* only when the forecast is empty; among several it depends on the map order.
CurrencyIsOfTheForecast ==
    Returned => IF Upcoming = {} THEN currency = ""
                ELSE currency \in {t.Currency : t \in Upcoming}

\* An amount reads back as it is printed.
Readable(amount) ==
    /\ Converts(FormatMinorUnits(amount))
    /\ ParseMinorUnits(FormatMinorUnits(amount)) = amount

\* GlobalPay's fixed fee exceeds its payments of that day.
OwesGlobalPay(day) == <<day, Global>> \in DOMAIN netByAcq /\ netByAcq[<<day, Global>>] < 0

\* Every amount of the forecast, nets, day totals and grand total, reads back as
\* printed, except where GlobalPay's fixed fee exceeds its payments of a day:
\* that net, and with it the total of the day and the grand total, may be
\* negative (forecast.go:161, 166, 171).
AmountsReadable ==
    Returned =>
        /\ \A k \in DOMAIN netByAcq :
              Readable(netByAcq[k]) \/ (k[2] = Global /\ OwesGlobalPay(k[1]))
        /\ \A d \in DOMAIN dayTotal :
              Readable(dayTotal[d]) \/ (dayTotal[d] < 0 /\ OwesGlobalPay(d))
        /\ Readable(grand) \/ (grand < 0 /\ \E d \in DOMAIN dayTotal : OwesGlobalPay(d))

-----------------------------------------------------------------------------
(***************************************************************************)
(* The inductive invariant.                                                *)
(***************************************************************************)
\* The transactions counted so far.
Counted == {e.Transaction : e \in {x \in reconciled \ left : Counts(x)}}

DayOf(t)   == t.ExpectedSettleDate
BucketOf(t) == <<t.ExpectedSettleDate, t.Acquirer>>

Nets == [t \in in.txns |-> PredictedNet(t)]
Ones == [t \in in.txns |-> 1]

\* Of the transactions counted, those of a bucket, and those of a day.
InBucket(k) == {t \in Counted : BucketOf(t) = k}
OnDay(d)    == {t \in Counted : DayOf(t) = d}

\* Every bucket holds the sum over the transactions counted in it.
BucketsInv ==
    /\ DOMAIN netByAcq = {BucketOf(t) : t \in Counted}
    /\ DOMAIN txnCount = {BucketOf(t) : t \in Counted}
    /\ DOMAIN dayTotal = {DayOf(t) : t \in Counted}
    /\ \A k \in DOMAIN netByAcq : netByAcq[k] = Sum(Nets, InBucket(k))
    /\ \A k \in DOMAIN txnCount : /\ txnCount[k] \in Int
                                 /\ Wrap(txnCount[k]) = Sum(Ones, InBucket(k))
    /\ \A d \in DOMAIN dayTotal : dayTotal[d] = Sum(Nets, OnDay(d))

CurrencyInv ==
    IF currency = "" THEN \A t \in Counted : t.Currency = ""
    ELSE \E t \in Counted : t.Currency = currency

ForecastInv ==
    /\ LoopInv
    /\ stage \in {"reconciling", "bucketing", "returned"}
    /\ stage = "reconciling" => /\ left = {} /\ currency = ""
                                /\ netByAcq = NoKeys /\ txnCount = NoKeys /\ dayTotal = NoKeys
    /\ stage # "reconciling" /\ DaysAllowed =>
          /\ phase = "done" /\ left \subseteq reconciled
          /\ BucketsInv
          /\ CurrencyInv
    /\ Returned => left = {} /\ grand = Sum(dayTotal, DOMAIN dayTotal)
=============================================================================
