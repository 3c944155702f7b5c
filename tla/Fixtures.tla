------------------------------- MODULE Fixtures -------------------------------
(***************************************************************************)
(* cmd/gen-testdata: the program that writes the sample files.  It draws   *)
(* 300 transactions, then writes them and, for the settled ones, one       *)
(* settlement file per acquirer.                                           *)
(*                                                                         *)
(* Files are streams of rows; what is kept of a file is the row written    *)
(* last.  Amounts are float64 in the program: whole baht, and fees rounded *)
(* to two decimals.  Of a fee that lies exactly between two satang either  *)
(* may come out, because the rates have no exact float64 and the product   *)
(* may be fused with the sum.                                              *)
(***************************************************************************)
EXTENDS Parsers, Reconcile, Fees, FiniteSets, TLC

CONSTANTS Seeds,    \* seeds of the random source
          Draws     \* seed -> what its calls of Intn(49901) return, in order

txnsPerAcquirer    == 100
settledPerAcquirer == 70
pendingPerAcquirer == 20
overduePerAcquirer == 10
totalTxns          == txnsPerAcquirer * 3

\* Amounts are whole baht within these limits.
minBaht == 100
maxBaht == 50000

Drawn == 0 .. maxBaht-minBaht

ASSUME DrawsAssumption == Draws \in [Seeds -> [0 .. totalTxns-1 -> Drawn]]

\* The detector's product of the largest amount, at the highest rate, fits.
ASSUME RangeAssumption == 5000000 * 250 + 5000 < HalfRange

TxnID(i) == "TXN" \o ToString(i + 1)

\* The names differ, and have no spaces around them.
ASSUME TxnIDAssumption ==
    \A i \in 0 .. totalTxns-1 :
        /\ TxnID(i) # Blank /\ TrimSpace[TxnID(i)] = TxnID(i)
        /\ \A j \in 0 .. totalTxns-1 : TxnID(j) = TxnID(i) => j = i

\* 23 April 2026, a Thursday, as day 74 of a calendar that starts on Sunday,
\* 8 February.
today == 74

VARIABLES
    seed,       \* of this invocation
    perAcqPos,  \* transactions generated for each acquirer
    all,        \* the transactions generated
    file,       \* the file being written: "none" while generating, then those
                \* of FileOrder in turn; "failed" when the program has given up
    written,    \* the position of the transaction whose row is written last
    row         \* the row written last, NoText before the first of a file

fixtureVars == <<seed, perAcqPos, all, file, written, row>>

NoText == [nothing |-> TRUE]

-----------------------------------------------------------------------------
\* Generated in turn for the three acquirers.
RoundRobin(i) == <<Thai, Global, Prompt>>[(i % 3) + 1]

\* Faulty variant of DaysAgo: the old ones are not old.
RecentDaysAgo(pos) ==
    IF pos < pendingPerAcquirer + overduePerAcquirer THEN pos % 5
    ELSE (pos - pendingPerAcquirer - overduePerAcquirer) % 30

\* The age of the pos-th transaction of an acquirer: recent, old, any.
DaysAgo(pos) ==
    IF pos < pendingPerAcquirer THEN pos % 5
    ELSE IF pos < pendingPerAcquirer + overduePerAcquirer
         THEN 11 + ((pos - pendingPerAcquirer) % 19)
    ELSE (pos - pendingPerAcquirer - overduePerAcquirer) % 30

IsSettled(pos) == pos >= pendingPerAcquirer + overduePerAcquirer

\* The i-th transaction.  Its amount is in satang here.
Generated(i) ==
    LET pos == perAcqPos[RoundRobin(i)]
    IN  [ID       |-> TxnID(i),
         Acquirer |-> RoundRobin(i),
         Amount   |-> 100 * (Draws[seed][i] + minBaht),
         TxnDate  |-> today - DaysAgo(pos),
         Settled  |-> IsSettled(pos)]

-----------------------------------------------------------------------------
\* "%.2f" of an amount that is not negative.
TwoDecimals(satang) ==
    [sign |-> NoSign, whole |-> satang \div 100, points |-> 1,
     fracSign |-> NoSign, fracDigits |-> 2, frac |-> satang % 100]

\* round2 of basisPoints of an amount: the nearest satang, both of them when
\* the fee lies between two.
Rounded(satang, basisPoints) ==
    LET fee == satang * basisPoints
    IN  {n \in fee \div 10000 .. fee \div 10000 + 1 : Abs(10000 * n - fee) <= 5000}

\* Faulty variant of RateOf: the tier's limit pays the lower rate.
RateUpToLimit(t) ==
    IF t.Acquirer = Thai THEN 250
    ELSE IF t.Acquirer = Global THEN 200
    ELSE IF t.Amount <= 500000 THEN 150
    ELSE IF t.Amount <= 2000000 THEN 180
    ELSE 220

RateOf(t) ==
    IF t.Acquirer = Thai THEN 250
    ELSE IF t.Acquirer = Global THEN 200
    ELSE IF t.Amount < 500000 THEN 150
    ELSE IF t.Amount <= 2000000 THEN 180
    ELSE 220

FixedFee(t) == IF t.Acquirer = Global THEN 1000 ELSE 0

FeesOf(t) == {FixedFee(t) + n : n \in Rounded(t.Amount, RateOf(t))}

\* Faulty variant of NetsOf: rounded on its own, from the exact fee.
NetsRoundedAlone(t, fee) == {t.Amount - f : f \in FeesOf(t)}

\* A difference of two amounts in float64, times a hundred, is off by less than
\* one part in a thousand of a satang.
Parts      == 1000
floatError == 1

\* What round2(t.Amount - fee) can be: a whole number of satang nearest to the
\* difference as computed.
NetsOf(t, fee) ==
    LET exact == t.Amount - fee
    IN  {net \in exact-1 .. exact+1 :
            \E error \in -floatError .. floatError :
                2 * Abs(Parts * (net - exact) - error) <= Parts}

\* A date column: a day in CSV, an instant with its offset in JSON.
DateColumn(acquirer, day) == IF acquirer = Prompt THEN BangkokInstant(day) ELSE day

TransactionRow(t) ==
    [ID |-> t.ID, Acquirer |-> t.Acquirer, amount |-> TwoDecimals(t.Amount),
     Currency |-> "THB", TransactionDate |-> t.TxnDate]

SettlementRows(t) ==
    {[ref   |-> t.ID,
      gross |-> TwoDecimals(t.Amount),
      fee   |-> TwoDecimals(fn[1]),
      net   |-> TwoDecimals(fn[2]),
      paid  |-> DateColumn(t.Acquirer, ExpectedSettlementDate(t.Acquirer, t.TxnDate))]
        : fn \in UNION {{<<fee, net>> : net \in NetsOf(t, fee)} : fee \in FeesOf(t)}}

-----------------------------------------------------------------------------
FileOrder == <<"none", "transactions", Thai, Global, Prompt, "done">>

\* The settled transactions of an acquirer, by their positions: their order is
\* preserved.
settledByAcquirer(acquirer) ==
    {n \in DOMAIN all : all[n].Acquirer = acquirer /\ all[n].Settled}

\* The transactions the file has a row for, and those it has no row for yet.
Content == IF file = "transactions" THEN DOMAIN all ELSE settledByAcquirer(file)

Unwritten == {n \in Content : n > written}

Writing == file \in {"transactions"} \cup Acquirers

FixtureInit ==
    /\ seed \in Seeds
    /\ perAcqPos = [a \in Acquirers |-> 0]
    /\ all = <<>>
    /\ file = "none"
    /\ written = 0
    /\ row = NoText

GenerateTxn ==
    /\ file = "none"
    /\ Len(all) < totalTxns
    /\ all' = Append(all, Generated(Len(all)))
    /\ perAcqPos' = [perAcqPos EXCEPT ![RoundRobin(Len(all))] = @ + 1]
    /\ UNCHANGED <<seed, file, written, row>>

\* The loop over the current file, or over the transactions, is through.  The
\* rows of a CSV file that are still in the writer's buffer are flushed when its
\* function has returned already: whether or not that succeeds, the program goes
\* on with the next file.
OpenNextFile ==
    /\ \/ file = "none" /\ Len(all) = totalTxns
       \/ Writing /\ Unwritten = {}
    /\ \E n \in 1 .. Len(FileOrder) - 1 : file = FileOrder[n] /\ file' = FileOrder[n + 1]
    /\ written' = 0
    /\ row' = NoText
    /\ UNCHANGED <<seed, perAcqPos, all>>

\* The JSON file is composed row by row too, and then written at once.
WriteRow ==
    /\ Writing
    /\ \E n \in Unwritten :
          /\ \A m \in Unwritten : n <= m
          /\ written' = n
          /\ \/ file = "transactions" /\ row' = TransactionRow(all[n])
             \/ file # "transactions" /\ row' \in SettlementRows(all[n])
    /\ UNCHANGED <<seed, perAcqPos, all, file>>

CSVFiles == {"transactions", Thai, Global}

\* An error that is looked at ends the program: the directories or a CSV file
\* cannot be created, a row does not go through, or the JSON file cannot be
\* written at the end.  The files before stay.
WriteFails ==
    /\ \/ file = "none" /\ all = <<>>
       \/ file \in CSVFiles /\ Unwritten # {}
       \/ file = Prompt /\ Unwritten = {}
    /\ file' = "failed"
    /\ UNCHANGED <<seed, perAcqPos, all, written, row>>

FixtureNext == GenerateTxn \/ OpenNextFile \/ WriteRow \/ WriteFails

FixtureSpec == FixtureInit /\ [][FixtureNext]_fixtureVars

-----------------------------------------------------------------------------
(***************************************************************************)
(* Properties.                                                             *)
(***************************************************************************)
RowOf(t) == CHOOSE r \in SettlementRows(t) : TRUE

FileWith(r) == [framed |-> TRUE, rows |-> <<r>>]

\* What the program writes, the service accepts, and reads as the amounts and
\* days that were meant: gross, fee and net are rounded apart and still agree
\* to the satang.
RowsReadBack ==
    Writing /\ written > 0 =>
        LET t == all[written] IN
        \/ /\ file = "transactions"
           /\ LoadsTransactions(FileWith(row))
           /\ TransactionOf(row).AmountMinor = t.Amount
           /\ TransactionOf(row).TransactionDate = t.TxnDate
        \/ /\ file # "transactions"
           /\ ParsesSettlements(file, FileWith(row))
           /\ LET s == SettlementRecordOf(file, row)
              IN  /\ s.GrossMinor = t.Amount
                  /\ BangkokMidnight(s.SettlementDate)
                       = ExpectedSettlementDate(t.Acquirer, t.TxnDate)

\* No sample settlement is reported as a fee anomaly: the program's float
\* formulas and the detector's integer ones agree on every tier and at its
\* limits, up to the one satang of rounding the detector lets pass.
NoSampleFeeStandsOut ==
    file \in Acquirers /\ written > 0 => ~IsAnomaly(SettlementRecordOf(file, row))

\* A transaction as loaded from its file.
Reconcilable(t) ==
    LET read == TransactionOf(TransactionRow(t))
    IN  [ID                 |-> read.ID,
         Acquirer           |-> read.Acquirer,
         AmountMinor        |-> read.AmountMinor,
         TransactionDate    |-> read.TransactionDate,
         ExpectedSettleDate |-> ExpectedSettlementDate(read.Acquirer, read.TransactionDate)]

LoadedTxns == {Reconcilable(all[n]) : n \in DOMAIN all}

\* The settlements as loaded from the three files, each at the position of its
\* transaction: only among rows of the same key would their order matter.
LoadedRows ==
    [n \in {m \in DOMAIN all : all[m].Settled} |->
        SettlementRecordOf(all[n].Acquirer, RowOf(all[n]))]

\* What the service says of the sample on its reference day.
Sample == Reconciled(LoadedTxns, LoadedRows, today)

Of(a, status) == {e \in Sample : e.Transaction.Acquirer = a /\ e.Status = status}

JustGenerated == file = "transactions" /\ written = 0

\* The sample tells the story it was made for: of each acquirer's transactions
\* 70 are settled, the 10 old ones are overdue on the reference day, and
\* nothing is reported as a discrepancy.
SampleTellsItsStory ==
    JustGenerated =>
        /\ \A a \in Acquirers :
              /\ Cardinality(Of(a, "settled")) = settledPerAcquirer
              /\ Cardinality({e \in Of(a, "overdue") : e.Transaction.TransactionDate <= today - 11})
                   = overduePerAcquirer
        /\ Discrepancies(LoadedTxns, LoadedRows) = {}

\* main.go of gen-testdata says of the recent ones that they will appear as
\* PENDING at reconcile time.  Two to four days, by acquirer, suffice to be overdue.
RecentIsPending ==
    JustGenerated =>
        \A a \in Acquirers : Cardinality(Of(a, "pending")) = pendingPerAcquirer

-----------------------------------------------------------------------------
(***************************************************************************)
(* The inductive invariant.                                                *)
(***************************************************************************)
SampleIDs     == {TxnID(i) : i \in 0 .. totalTxns-1}
SampleAmounts == {100 * baht : baht \in minBaht .. maxBaht}

\* What the generator draws.
SampleTxn == [ID       : SampleIDs,
              Acquirer : Acquirers,
              Amount   : SampleAmounts,
              TxnDate  : Int,
              Settled  : BOOLEAN]

RowsFor(f, t) == IF f = "transactions" THEN {TransactionRow(t)} ELSE SettlementRows(t)

\* The n-th transaction is its acquirer's (n-1) \div 3-th; its age follows.
RoundsInv ==
    /\ \A j \in 0 .. 2 : perAcqPos[RoundRobin(j)] = (Len(all) + 2 - j) \div 3
    /\ \A n \in DOMAIN all :
          LET pos == (n - 1) \div 3 IN
          /\ all[n].ID = TxnID(n - 1)
          /\ all[n].Acquirer = RoundRobin(n - 1)
          /\ all[n].TxnDate = today - DaysAgo(pos)
          /\ all[n].Settled = IsSettled(pos)

\* The row written last is one of the transaction whose turn it was.
FixtureInv ==
    /\ seed \in Seeds
    /\ perAcqPos \in [Acquirers -> Nat]
    /\ all \in Seq(SampleTxn)
    /\ Len(all) <= totalTxns
    /\ file \notin {"none", "failed"} => Len(all) = totalTxns
    /\ RoundsInv
    /\ Writing => /\ written \in Content \cup {0}
                  /\ written > 0 => row \in RowsFor(file, all[written])
=============================================================================
