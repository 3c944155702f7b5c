------------------------------ MODULE MCForecast ------------------------------
(***************************************************************************)
(* Calls of Reconcile and Forecast on small inputs.  One family looks at   *)
(* the matching: up to three rows for up to two of three transactions, on  *)
(* the day before, on and after the expected day.  The other looks at the  *)
(* forecast: three transactions on days around the window, with amounts on *)
(* both sides of the fee tiers and of GlobalPay's fixed fee.               *)
(***************************************************************************)
EXTENDS Forecast, TLC

Txn(id, acquirer, amount, day) ==
    [ID |-> id, Acquirer |-> acquirer, AmountMinor |-> amount,
     Currency |-> "THB", ExpectedSettleDate |-> day]

InUSD(t) == [t EXCEPT !.Currency = "USD"]

\* Paid out on day 3, by an instant that is still the day before in UTC.
Row(id, acquirer, gross) ==
    [TransactionID |-> id, Acquirer |-> acquirer, GrossMinor |-> gross,
     NetMinor |-> gross - 2, SettlementDate |-> BangkokInstant(3)]

\* " t1" is a reference with a space in front, which the parsers keep.
RowPool == {Row("t1", Thai, 100), Row("t1", Thai, 90), Row("t1", Prompt, 100),
            Row("t2", Prompt, 100), Row(" t1", Thai, 100)}

FewTxns == {{}, {Txn("t1", Thai, 100, 2)}, {Txn("t1", Prompt, 100, 2)},
            {Txn("t1", Thai, 100, 2), Txn("t2", Thai, 100, 2)}}

Matching == [txns: FewTxns, rows: SeqExt!BoundedSeq(RowPool, 3), asOf: {1, 2, 3}, days: {1}]

\* At a tier's limit and beside it; GlobalPay below and above its fixed fee.
ThaiTxns   == {Txn("t1", Thai, 19, 2), Txn("t1", Thai, 2010, 3)}
GlobalTxns == {Txn("t2", Global, 98, 3), InUSD(Txn("t2", Global, 1020, 2))}
PromptTxns == {Txn("t3", Prompt, a, d) : a \in {499999, 500000, 2000000, 2000001}, d \in {3, 4}}

ThreeTxns == {{t, g, p} : t \in ThaiTxns, g \in GlobalTxns, p \in PromptTxns}

Forecasting == [txns: ThreeTxns, rows: SeqExt!BoundedSeq(RowPool, 1), asOf: {1, 2}, days: {0, 1, 2}]

MCInputs == Matching \cup Forecasting

MCMonthStarts == {}
=============================================================================
