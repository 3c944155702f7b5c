------------------------------ MODULE Reconcile ------------------------------
(***************************************************************************)
(* internal/reconcile/reconcile.go: matching transactions with settlement  *)
(* rows.  ts is a set of transactions, rows the sequence of settlements in *)
(* the order they are given (the order decides which of two rows with the  *)
(* same key is used), asOf a Bangkok day.  Discrepancies carry no details  *)
(* here, and the order of the results is left out: Go iterates over maps.  *)
(***************************************************************************)
EXTENDS Schedule, Sequences

NoRow == 0              \* the nil settlement of a transaction that has none

SameTxn(t, s) == s.TransactionID = t.ID
Matches(t, s) == SameTxn(t, s) /\ s.Acquirer = t.Acquirer

\* settlementIdx: the index of the row used for t, the first that matches.
UsedRow(t, rows) ==
    LET matching == {i \in DOMAIN rows : Matches(t, rows[i])}
    IN  IF matching = {} THEN NoRow
        ELSE CHOOSE i \in matching : \A j \in matching : i <= j

\* Faulty variant of Status: overdue on the expected day itself.
StatusOnTheDay(t, rows, asOf) ==
    IF UsedRow(t, rows) # NoRow THEN "settled"
    ELSE IF t.ExpectedSettleDate <= asOf THEN "overdue" ELSE "pending"

\* Money expected today may still arrive today.
Status(t, rows, asOf) ==
    IF UsedRow(t, rows) # NoRow THEN "settled"
    ELSE IF t.ExpectedSettleDate < asOf THEN "overdue" ELSE "pending"

\* Result.Reconciled: one entry per transaction.
Reconciled(ts, rows, asOf) ==
    {[Transaction |-> t, Status |-> Status(t, rows, asOf), Settlement |-> UsedRow(t, rows)]
        : t \in ts}

Discrepancy(id, acquirer, reason) ==
    [TransactionID |-> id, Acquirer |-> acquirer, Reason |-> reason]

\* Keys that occur more than once, each reported once.
Duplicates(rows) ==
    {Discrepancy(rows[i].TransactionID, rows[i].Acquirer, "duplicate_settlement")
        : i \in {j \in DOMAIN rows : \E k \in DOMAIN rows :
                    /\ k # j
                    /\ rows[k].TransactionID = rows[j].TransactionID
                    /\ rows[k].Acquirer = rows[j].Acquirer}}

AmountMismatches(ts, rows) ==
    {Discrepancy(t.ID, t.Acquirer, "amount_mismatch")
        : t \in {u \in ts : /\ UsedRow(u, rows) # NoRow
                            /\ rows[UsedRow(u, rows)].GrossMinor # u.AmountMinor}}

\* Rows of a transaction under other acquirers; they are looked at only when
\* no row matches exactly.
AcquirerMismatches(ts, rows) ==
    UNION {{Discrepancy(t.ID, rows[i].Acquirer, "acquirer_mismatch")
                : i \in {j \in DOMAIN rows : SameTxn(t, rows[j])}}
           : t \in {u \in ts : UsedRow(u, rows) = NoRow}}

\* Rows of transactions that are not in ts at all.
Unknown(ts, rows) ==
    {Discrepancy(rows[i].TransactionID, rows[i].Acquirer, "unknown_transaction")
        : i \in {j \in DOMAIN rows : \A t \in ts : ~SameTxn(t, rows[j])}}

Discrepancies(ts, rows) ==
    Duplicates(rows) \cup AmountMismatches(ts, rows)
        \cup AcquirerMismatches(ts, rows) \cup Unknown(ts, rows)
=============================================================================
