--------------------------------- MODULE Fees ---------------------------------
(***************************************************************************)
(* internal/anomaly/detect.go: the fee each acquirer is expected to take,  *)
(* and the settlements whose fee deviates from it.  Products and sums are  *)
(* int64.  The deviation is a float64; only whether it is finite and on    *)
(* which side of 10% it lies matters here.                                 *)
(***************************************************************************)
EXTENDS Schedule, Money

\* Half-up for amounts that are not negative.
pctMinor(grossMinor, basisPoints) ==
    Quo(Wrap(grossMinor * basisPoints + 5000), 10000)

\* Basis points of a PromptPay payment, by tier.
PromptRate(grossMinor) ==
    IF grossMinor < 500000 THEN 150
    ELSE IF grossMinor <= 2000000 THEN 180
    ELSE 220

\* ExpectedFee returns no error.
HasFeeRule(acquirer) == acquirer \in Acquirers

ExpectedFee(acquirer, grossMinor) ==
    IF acquirer = Thai THEN pctMinor(grossMinor, 250)
    ELSE IF acquirer = Global THEN Wrap(1000 + pctMinor(grossMinor, 200))
    ELSE pctMinor(grossMinor, PromptRate(grossMinor))

-----------------------------------------------------------------------------
ExpectedFeeOf(s) == ExpectedFee(s.Acquirer, s.GrossMinor)

\* The absolute difference between actual and expected fee.
Deviation(s) == Wrap(Abs(Wrap(s.FeeMinor - ExpectedFeeOf(s))))

\* One unit is rounding.  Where no fee is expected, a fee that is not positive
\* is let pass.
IsAnomaly(s) ==
    /\ HasFeeRule(s.Acquirer)
    /\ Deviation(s) > 1
    /\ ExpectedFeeOf(s) = 0 => s.FeeMinor > 0

\* The deviation of an anomaly is +Inf when no fee was expected.
IsInfinite(s) == ExpectedFeeOf(s) = 0

\* The 10% are reached.  An expected fee that wrapped below zero makes the ratio
\* negative.
Severity(s) ==
    IF IsInfinite(s) \/ (ExpectedFeeOf(s) > 0 /\ 10 * Deviation(s) >= ExpectedFeeOf(s))
    THEN "critical" ELSE "warning"

\* The anomalies among the rows of a sequence.
Detect(rows) ==
    {[Settlement |-> rows[i], Severity |-> Severity(rows[i])]
        : i \in {j \in DOMAIN rows : IsAnomaly(rows[j])}}
=============================================================================
