--------------------------- MODULE MCPayoutEngine ---------------------------
(***************************************************************************)
(* A small world for PayoutEngine: one upload goroutine (its uploads may   *)
(* follow each other while a query runs), one reader, and a clock that     *)
(* crosses the days on which the transactions are expected.                *)
(***************************************************************************)
EXTENDS PayoutEngine, TLC

MCTxnIds == {"t1", "t2"}

MCTrimSpace == [id \in MCTxnIds |-> id]

Text(amount) == FormatMinorUnits(amount)

Txn(id, acquirer, day) ==
    [ID |-> id, Acquirer |-> acquirer, amount |-> Text(100),
     Currency |-> "THB", TransactionDate |-> day]

Stl(ref, gross, fee, paid) ==
    [ref |-> ref, gross |-> Text(gross), fee |-> Text(fee), net |-> Text(gross - fee),
     paid |-> paid]

File(rows) == [framed |-> TRUE, rows |-> rows]

Upload(acquirer, rows) == [acquirer |-> acquirer, file |-> File(rows)]

\* t1 is expected on day 2 or, over the longest way PromptPay takes (Friday to
\* Wednesday), on day 3; t2 on day 2.
MCTxnFiles ==
    {File(<<Txn("t1", Thai, 1), Txn("t2", Global, 1)>>),
     File(<<Txn("t1", Prompt, -2)>>)}

\* A row and its correction in one file.  Paid on the last day of a month and,
\* by an instant that is still the day before in UTC, on the first of the next.
MCSettlementUploads ==
    {Upload(Thai, <<Stl("t1", 90, 2, 2), Stl("t1", 100, 2, 2)>>),
     Upload(Prompt, <<Stl("t1", 100, 3, 24 * 2 + 20)>>),
     Upload(Global, <<[Stl("t2", 90, 2, 2) EXCEPT !.net = Text(90)]>>)}

MCMonthStarts == {-28, 3, 34}

MCTxnFixtures == {NoFile}

MCSettlementFixtures == [a \in Acquirers |-> {NoFile}]

Query(kind, days, asOf) == [kind |-> kind, days |-> days, asOf |-> asOf]

\* With and without the parameters; windows and dates that are refused, and
\* some that are not looked at.
MCQueries ==
    {Query("unsettled", Absent, 3), Query("settled", 2, Absent),
     Query("overdue", Malformed, Absent), Query("forecast", 2, Absent),
     Query("cashflow", Absent, Absent), Query("fees", Absent, Absent),
     Query("fees", Absent, Malformed), Query("settled", 0, Absent),
     Query("forecast", 15, Absent), Query("anomalies", Malformed, Malformed)}

\* A payment so small that no fee is expected, and a fee taken from it.
MCTinyUploads == {Upload(Thai, <<Stl("t1", 10, 2, 2)>>)}

MCAnomalyQueries == {Query("anomalies", Absent, Absent)}
=============================================================================
