------------------------------- MODULE Cashflow -------------------------------
(***************************************************************************)
(* The sums of internal/query/service.go over one list of settlement rows: *)
(* the cash an acquirer pays out on a Bangkok day, and the fees it takes   *)
(* in a calendar month.  A month is known by its first day.                *)
(***************************************************************************)
EXTENDS Schedule, Money, Sequences

Fun == INSTANCE Functions

SeqExt == INSTANCE SequencesExt

CONSTANT MonthStarts    \* the first days of the months in question, and the
                        \* first day after the last of them

ASSUME MonthsAssumption == MonthStarts \subseteq Int

\* The month a day belongs to.
MonthOf(day) ==
    CHOOSE m \in MonthStarts : m <= day /\ \A n \in MonthStarts : n <= day => n <= m

\* The first day of the next month.
MonthEnd(month) ==
    CHOOSE n \in MonthStarts : n > month /\ \A m \in MonthStarts : m > month => n <= m

-----------------------------------------------------------------------------
Payday(row) == BangkokMidnight(row.SettlementDate)

\* A sum of int64: wrapping at every addition or once at the end is the same.
Sum(column, S) == Wrap(Fun!SumFunctionOnSet(column, S))

\* byAcq, read for the three acquirers: sums of a column over the chosen rows.
ByAcquirer(rows, chosen, column) ==
    [a \in Acquirers |->
        Sum([i \in DOMAIN rows |-> rows[i][column]], {i \in chosen : rows[i].Acquirer = a})]

\* Of the rows paid out on that day, the net amounts.
ExpectedCashByAcquirer(rows, day) ==
    ByAcquirer(rows, {i \in DOMAIN rows : Payday(rows[i]) = day}, "NetMinor")

\* Faulty variant of InMonth: the first day of the next month belongs to both.
UpToNextMonth(day, month) == day >= month /\ day <= MonthEnd(month)

InMonth(day, month) == day >= month /\ day < MonthEnd(month)

\* Of the rows paid out in that month, the fees.
FeesByAcquirer(rows, month) ==
    ByAcquirer(rows, {i \in DOMAIN rows : InMonth(Payday(rows[i]), month)}, "FeeMinor")

\* The total printed below the acquirers.
Total(byAcq) == Sum(byAcq, Acquirers)

\* Gross, fee and net of a row agree, in 64 bits.
Balances(row) == Wrap(row.GrossMinor - row.FeeMinor) = row.NetMinor
=============================================================================
