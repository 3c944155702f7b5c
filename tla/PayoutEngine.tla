---------------------------- MODULE PayoutEngine ----------------------------
(***************************************************************************)
(* The whole service: uploads (Ingestion) and, concurrently, the queries.  *)
(*                                                                         *)
(* A query holds no lock from end to end.  The ones that reconcile take    *)
(* one snapshot of the transactions and another of the settlements, each   *)
(* under the read lock; uploads, and midnight, may come between them.  The *)
(* cash flow, fee and anomaly queries take only the second.  What follows  *)
(* touches nothing shared and is part of the answer.                       *)
(***************************************************************************)
EXTENDS Ingestion, Reconcile, Fees, Cashflow, FiniteSets

CONSTANTS Readers,   \* goroutines serving queries
          Queries,   \* GET requests: [kind, days, asOf]
          Absent,    \* stands for a parameter that is not given
          FirstDay,  \* the clock runs over FirstDay .. LastDay
          LastDay

Kinds == {"unsettled", "settled", "overdue", "forecast", "cashflow", "fees", "anomalies"}

\* asOf is the date of a cash flow query, and the first day of the month of a
\* fee query.
ASSUME QueriesAssumption ==
    Queries \subseteq [kind: Kinds, days: Int \cup {Absent, Malformed},
                       asOf: Int \cup {Absent, Malformed}]

\* The months in question cover the months asked for, to their end.
ASSUME MonthsAskedAssumption ==
    \A q \in Queries : q.kind = "fees" /\ q.asOf \in Int =>
        \E n \in MonthStarts : n > q.asOf

ASSUME ClockAssumption ==
    /\ FirstDay \in Int /\ LastDay \in Int /\ FirstDay <= LastDay
    /\ \A d \in FirstDay .. LastDay :     \* the months cover the clock
          \E m \in MonthStarts : m <= d /\ \A n \in MonthStarts : n <= d => n <= m
    /\ \E n \in MonthStarts : n > LastDay

VARIABLES
    today,      \* the current Bangkok day
    query,      \* the query a reader serves, its date filled in
    reading,    \* what the reader does next; "idle" when it serves nothing
    snapTxns,   \* its snapshot of the transactions
    snapRows,   \* its snapshot of the settlements
    touched,    \* history: IDs whose record or settlement changed since its
                \* query arrived
    unsettled   \* history: transactions that were unsettled at some moment
                \* since then

queryVars  == <<query, reading, snapTxns, snapRows>>
history    == <<touched, unsettled>>
engineVars == <<vars, today, queryVars, history>>

NoQuery == [kind |-> "none", days |-> 0, asOf |-> FirstDay]

-----------------------------------------------------------------------------
(***************************************************************************)
(* Snapshots and answers.                                                  *)
(***************************************************************************)
ListTransactions == {txns[id] : id \in DOMAIN txns}

\* Go hands the map over in any order; a key occurs once, so no order matters.
ListSettlements == SeqExt!SetToSeq({settlements[k] : k \in DOMAIN settlements})

\* Faulty variant of After: the settlements are read first.
AfterSwapped == [arrival      |-> "settlements",
                 settlements  |-> "transactions",
                 transactions |-> "answer"]

\* Operands are evaluated from left to right:
\* Reconcile(ListTransactions(), ListSettlements(), asOf).
After == [arrival      |-> "transactions",
          transactions |-> "settlements",
          settlements  |-> "answer"]

\* The first thing a query reads.
FirstRead(kind) ==
    IF kind \in {"cashflow", "fees", "anomalies"} THEN "settlements" ELSE After.arrival

\* Faulty variant of DefaultDays: shorter than the slowest schedule.
ShortDefault == 4

DefaultDays == 7

\* The default of the date: tomorrow for the cash to come, the current month
\* for fees, today otherwise.
DefaultDate(kind) ==
    IF kind = "cashflow" THEN today + 1
    ELSE IF kind = "fees" THEN MonthOf(today)
    ELSE today

\* A parameter that a handler does not read is ignored, whatever it says.
ReadsDays(kind) == kind \in {"unsettled", "settled", "forecast"}
ReadsDate(kind) == kind # "anomalies"

\* Faulty variant of WithDefaults: only the number of days has a default.
WithDefaultDays(q) ==
    [q EXCEPT !.days = IF ReadsDays(q.kind) /\ q.days # Absent THEN q.days ELSE DefaultDays]

WithDefaults(q) ==
    [kind |-> q.kind,
     days |-> IF ReadsDays(q.kind) /\ q.days # Absent THEN q.days ELSE DefaultDays,
     asOf |-> IF ReadsDate(q.kind) /\ q.asOf # Absent THEN q.asOf ELSE DefaultDate(q.kind)]

\* The answer is not 400.
ValidQuery(q) ==
    /\ Malformed \notin {q.days, q.asOf}
    /\ q.kind \in {"unsettled", "settled"} => q.days > 0
    /\ q.kind = "forecast" => q.days \in 1 .. 14

\* query.UnsettledSince and SettledSince: from `days` days before asOf on.
InWindow(t, q) == t.TransactionDate >= q.asOf - q.days

\* forecast.Forecast: strictly after asOf, at most `days` days ahead.
InForecast(t, q) == t.ExpectedSettleDate \in q.asOf+1 .. q.asOf+q.days

Reports(entry, q) ==
    \/ q.kind = "unsettled" /\ entry.Status # "settled" /\ InWindow(entry.Transaction, q)
    \/ q.kind = "settled"   /\ entry.Status = "settled" /\ InWindow(entry.Transaction, q)
    \/ q.kind = "overdue"   /\ entry.Status = "overdue"
    \/ q.kind = "forecast"  /\ entry.Status = "pending" /\ InForecast(entry.Transaction, q)

\* The row an entry points at, <<>> when it is nil.
RowOf(t, rows) == IF UsedRow(t, rows) = NoRow THEN <<>> ELSE <<rows[UsedRow(t, rows)]>>

\* The entries the answer to q lists, from these snapshots.
AnswerFrom(ts, rows, q) == {e \in Reconciled(ts, rows, q.asOf) : Reports(e, q)}

AnswerOf(r) == AnswerFrom(snapTxns[r], snapRows[r], query[r])

\* The answer of GET /queries/anomalies: encoding/json refuses an infinite
\* deviation, and with it the whole report.
AnomalyReport(rows) ==
    IF \E i \in DOMAIN rows : IsAnomaly(rows[i]) /\ IsInfinite(rows[i])
    THEN {} ELSE Detect(rows)

-----------------------------------------------------------------------------
(***************************************************************************)
(* Queries.                                                                *)
(***************************************************************************)
UnsettledNow == {txns[id] : id \in {i \in DOMAIN txns : ~Settled(txns[i])}}

Forget(r) ==
    /\ snapTxns'  = [snapTxns EXCEPT ![r] = {}]
    /\ snapRows'  = [snapRows EXCEPT ![r] = <<>>]
    /\ touched'   = [touched EXCEPT ![r] = {}]

\* A query arrives and passes validation (one that does not is answered 400
\* and leaves no trace).
Arrive(r) ==
    /\ pc[Main] = "serving"
    /\ reading[r] = "idle"
    /\ \E q \in Queries :
          /\ ValidQuery(WithDefaults(q))
          /\ query' = [query EXCEPT ![r] = WithDefaults(q)]
          /\ reading' = [reading EXCEPT ![r] = FirstRead(q.kind)]
    /\ Forget(r)
    /\ unsettled' = [unsettled EXCEPT ![r] = UnsettledNow]
    /\ UNCHANGED <<vars, today>>

\* Faulty variant of ReadTransactions: the window is applied too early, to
\* every kind of query.
ReadRecentTransactions(r) ==
    /\ reading[r] = "transactions"
    /\ snapTxns' = [snapTxns EXCEPT ![r] =
                       {t \in ListTransactions :
                          t.TransactionDate > query[r].asOf - query[r].days}]
    /\ reading' = [reading EXCEPT ![r] = After.transactions]
    /\ UNCHANGED <<vars, today, query, snapRows, history>>

ReadTransactions(r) ==
    /\ reading[r] = "transactions"
    /\ snapTxns' = [snapTxns EXCEPT ![r] = ListTransactions]
    /\ reading' = [reading EXCEPT ![r] = After.transactions]
    /\ UNCHANGED <<vars, today, query, snapRows, history>>

\* Faulty variant of ReadSettlements: the query starts over when the ledger
\* has changed under it.
ReadSettlementsUndisturbed(r) ==
    /\ reading[r] = "settlements"
    /\ snapRows' = [snapRows EXCEPT ![r] = ListSettlements]
    /\ reading' = [reading EXCEPT ![r] =
                      IF touched[r] = {} THEN After.settlements
                      ELSE FirstRead(query[r].kind)]
    /\ touched' = [touched EXCEPT ![r] = {}]
    /\ UNCHANGED <<vars, today, query, snapTxns, unsettled>>

ReadSettlements(r) ==
    /\ reading[r] = "settlements"
    /\ snapRows' = [snapRows EXCEPT ![r] = ListSettlements]
    /\ reading' = [reading EXCEPT ![r] = After.settlements]
    /\ UNCHANGED <<vars, today, query, snapTxns, history>>

Answer(r) ==
    /\ reading[r] = "answer"
    /\ reading' = [reading EXCEPT ![r] = "idle"]
    /\ query'   = [query EXCEPT ![r] = NoQuery]
    /\ Forget(r)
    /\ unsettled' = [unsettled EXCEPT ![r] = {}]
    /\ UNCHANGED <<vars, today>>

-----------------------------------------------------------------------------
(***************************************************************************)
(* The service.                                                            *)
(***************************************************************************)
\* The settlement stored for t, if any.
Received(t) == IF Settled(t) THEN <<settlements[<<t.ID, t.Acquirer>>]>> ELSE <<>>

\* What the ledger says of a transaction.
View(id) == IF id \in DOMAIN txns THEN <<txns[id], Received(txns[id])>> ELSE <<>>

\* The readers' queries live on while the ledger changes.
Watch ==
    /\ touched' = [r \in Readers |->
                      IF reading[r] = "idle" THEN {}
                      ELSE touched[r] \cup {id \in TxnIds : View(id)' # View(id)}]
    /\ unsettled' = [r \in Readers |->
                      IF reading[r] = "idle" THEN {}
                      ELSE unsettled[r] \cup UnsettledNow']
    /\ UNCHANGED queryVars

EngineInit ==
    /\ Init
    /\ today     = FirstDay
    /\ query     = [r \in Readers |-> NoQuery]
    /\ reading   = [r \in Readers |-> "idle"]
    /\ snapTxns  = [r \in Readers |-> {}]
    /\ snapRows  = [r \in Readers |-> <<>>]
    /\ touched   = [r \in Readers |-> {}]
    /\ unsettled = [r \in Readers |-> {}]

\* The process ends, and its queries with it.
DropQueries ==
    /\ query'     = [r \in Readers |-> NoQuery]
    /\ reading'   = [r \in Readers |-> "idle"]
    /\ snapTxns'  = [r \in Readers |-> {}]
    /\ snapRows'  = [r \in Readers |-> <<>>]
    /\ touched'   = [r \in Readers |-> {}]
    /\ unsettled' = [r \in Readers |-> {}]

\* A step of an upload, of the fixture load, or the end of the process.
IngestionStep ==
    /\ Next
    /\ \/ pc'[Main] # "down" /\ Watch
       \/ pc'[Main] = "down" /\ DropQueries
    /\ UNCHANGED today

\* Midnight in Bangkok.
NextDay ==
    /\ today < LastDay
    /\ today' = today + 1
    /\ UNCHANGED <<vars, queryVars, history>>

\* A query that has arrived runs on.
ReaderRuns(r) == ReadTransactions(r) \/ ReadSettlements(r) \/ Answer(r)

EngineNext ==
    \/ IngestionStep
    \/ NextDay
    \/ \E r \in Readers : Arrive(r) \/ ReaderRuns(r)

EngineSpec == EngineInit /\ [][EngineNext]_engineVars

\* Readers are goroutines like the others, and a writer waiting for the lock
\* keeps no reader out for good.
FairEngineSpec == EngineSpec /\ \A r \in Readers : WF_engineVars(ReaderRuns(r))

-----------------------------------------------------------------------------
(***************************************************************************)
(* Properties.                                                             *)
(***************************************************************************)
\* Snapshots hold what the store can hold, a query that runs has its dates
\* filled in, and the clock stays in its range.
EngineTypeOK ==
    /\ TypeOK
    /\ today \in FirstDay .. LastDay
    /\ query \in [Readers -> [kind: Kinds \cup {"none"}, days: Int, asOf: Int]]
    /\ reading \in [Readers -> {"idle", "transactions", "settlements", "answer"}]
    /\ snapTxns \in [Readers -> SUBSET Transaction]
    /\ snapRows \in [Readers -> Seq(Settlement)]
    /\ touched \in [Readers -> SUBSET TxnIds]
    /\ unsettled \in [Readers -> SUBSET Transaction]

Answering(r) == reading[r] = "answer"

\* What an answer says: transaction, status, and the figures of the settlement.
Said(answer, rows) ==
    {[Transaction |-> e.Transaction, Status |-> e.Status,
      Settlement |-> RowOf(e.Transaction, rows)] : e \in answer}

\* A transaction reported pending or overdue really was without its settlement
\* at some moment while the query ran: the torn read (transactions first,
\* settlements second) never invents a missing payment.
NoFalseAlarm ==
    \A r \in Readers : Answering(r) =>
        \A e \in AnswerOf(r) : e.Status # "settled" => e.Transaction \in unsettled[r]

\* Of the transactions nothing touched while the query ran, the answer says
\* exactly what it would say of the store as it stands now, down to the figures
\* of the settlements: a correction that comes between the two reads of a query
\* (service.go:89) mixes with nothing but what it corrects.
UntouchedIsExact ==
    \A r \in Readers : Answering(r) =>
        LET Untouched(said) == {e \in said : e.Transaction.ID \notin touched[r]}
            now == AnswerFrom(ListTransactions, ListSettlements, query[r])
        IN  Untouched(Said(AnswerOf(r), snapRows[r])) = Untouched(Said(now, ListSettlements))

\* A payment reported as received is not withdrawn while the process lives,
\* not even between the snapshot and the answer.
ReceivedStaysReceived ==
    \A r \in Readers : Answering(r) =>
        \A e \in AnswerOf(r) : e.Status = "settled" => Settled(e.Transaction)

\* With an as_of that is not ahead of the calendar, nothing is called overdue
\* before its day is over, even if midnight passes while the query runs.
NoAlarmBeforeDayIsOver ==
    \A r \in Readers : Answering(r) /\ query[r].asOf <= today =>
        \A e \in AnswerOf(r) : e.Status = "overdue" =>
            e.Transaction.ExpectedSettleDate < today

\* Nothing open is out of sight: with the default window, a transaction of the
\* snapshot that is not settled is in the list of unsettled ones or so late that
\* it is in the list of overdue ones.  This rests on the schedules, none of
\* which takes longer than the window (handlers.go:189, schedule.go).
NothingOutOfSight ==
    \A r \in Readers : Answering(r) /\ query[r].kind = "unsettled" /\ query[r].days = DefaultDays =>
        LET all     == Reconciled(snapTxns[r], snapRows[r], query[r].asOf)
            overdue == AnswerFrom(snapTxns[r], snapRows[r], [query[r] EXCEPT !.kind = "overdue"])
        IN  \A e \in all : e.Status # "settled" => e \in AnswerOf(r) \cup overdue

\* The books balance: over the snapshot of a fee query, the fees of the month
\* and the cash of its days, as the cash flow query adds it up, make the gross
\* amounts of the rows paid out in that month.  No row is counted twice at
\* midnight of the first, none is lost, and gross, fee and net of every row
\* ever stored agree (query/service.go, the three parsers).
BooksBalance ==
    \A r \in Readers : Answering(r) /\ query[r].kind = "fees" =>
        LET rows  == snapRows[r]
            month == query[r].asOf
            days  == month .. MonthEnd(month) - 1
            paid  == {i \in DOMAIN rows : Payday(rows[i]) \in days}
        IN  Wrap(Total(FeesByAcquirer(rows, month))
                 + Sum([d \in days |-> Total(ExpectedCashByAcquirer(rows, d))], days))
              = Sum([i \in paid |-> rows[i].GrossMinor], paid)

\* What the comment of anomaly.Detect says of a fee where none is expected: it
\* is reported, as critical.  The report that contains it cannot be encoded.
FeesOutOfNothingReported ==
    \A r \in Readers : Answering(r) /\ query[r].kind = "anomalies" =>
        \A i \in DOMAIN snapRows[r] :
            LET s == snapRows[r][i] IN
            ExpectedFeeOf(s) = 0 /\ s.FeeMinor > 1 =>
                [Settlement |-> s, Severity |-> "critical"] \in AnomalyReport(snapRows[r])

\* Every query that arrives is answered, unless the process ends first.
QueriesAnswered == \A r \in Readers : reading[r] # "idle" ~> reading[r] = "idle"

-----------------------------------------------------------------------------
(***************************************************************************)
(* The inductive invariant behind the safety properties.                   *)
(***************************************************************************)
Reconciles(r) == query[r].kind \in {"unsettled", "settled", "overdue", "forecast"}

\* Snapshots are there from the moment they are read, and only for the queries
\* that need them.
SnapshotsInTime(r) ==
    /\ reading[r] = "transactions" => Reconciles(r)
    /\ reading[r] \in {"idle", "transactions"} \/ ~Reconciles(r) => snapTxns[r] = {}
    /\ reading[r] # "answer" => snapRows[r] = <<>>

\* What is unsettled now has been unsettled while the query ran.
OpenIsKnown(r) == reading[r] # "idle" => UnsettledNow \subseteq unsettled[r]

\* A transaction of the snapshot was unsettled while the query ran, or its
\* settlement is there to stay.
OpenOrSettled(r) == \A t \in snapTxns[r] : t \in unsettled[r] \/ Settled(t)

\* What the settlements say is missing was missing.
MissingWasOpen(r) ==
    reading[r] = "answer" =>
        \A t \in snapTxns[r] : UsedRow(t, snapRows[r]) = NoRow => t \in unsettled[r]

\* Settlements are not withdrawn.
RowsAreStored(r) == \A i \in DOMAIN snapRows[r] : Key(snapRows[r][i]) \in DOMAIN settlements

\* No snapshot has a transaction that is paid later than the schedules allow.
PaidWithinDays(r) ==
    \A t \in snapTxns[r] : t.ExpectedSettleDate \in t.TransactionDate+1 .. t.TransactionDate+5

\* Of an untouched ID the snapshot has the record of the store, or neither has one.
UntouchedStands(r) ==
    reading[r] \in {"settlements", "answer"} /\ Reconciles(r) =>
        /\ \A id \in DOMAIN txns \ touched[r] : txns[id] \in snapTxns[r]
        /\ \A t \in snapTxns[r] : t.ID \notin touched[r] =>
              t.ID \in DOMAIN txns /\ txns[t.ID] = t

\* Of an untouched transaction, the settlement stored is the one that was seen.
UntouchedSettled(r) ==
    reading[r] = "answer" =>
        \A t \in snapTxns[r] : t.ID \notin touched[r] =>
            RowOf(t, snapRows[r]) = Received(t)

ReaderInv(r) ==
    /\ SnapshotsInTime(r)
    /\ OpenIsKnown(r)
    /\ OpenOrSettled(r)
    /\ MissingWasOpen(r)
    /\ RowsAreStored(r)
    /\ PaidWithinDays(r)
    /\ UntouchedStands(r)
    /\ UntouchedSettled(r)

EngineInv ==
    /\ IInv
    /\ IsFiniteSet(DOMAIN settlements)
    /\ EngineTypeOK
    /\ \A r \in Readers : ReaderInv(r)

\* What Reconcile and Forecast take for granted of their arguments (ReconcileLoop,
\* InputsAssumption), and more: the lists come from maps, so no ID and no key
\* occurs twice in them.
OneTransactionPerID(r) ==
    IsFiniteSet(snapTxns[r]) /\ \A t, u \in snapTxns[r] : t.ID = u.ID => t = u

OneRowPerKey(r) ==
    \A i, j \in DOMAIN snapRows[r] : Key(snapRows[r][i]) = Key(snapRows[r][j]) => i = j

SnapshotsInv ==
    /\ IsFiniteSet(DOMAIN txns)
    /\ \A r \in Readers : OneTransactionPerID(r) /\ OneRowPerKey(r)

\* The month of a fee query has an end.
MonthGoesOn(r) == query[r].kind = "fees" => \E n \in MonthStarts : n > query[r].asOf

\* Gross, fee and net agree in every row that is stored or was seen.
BooksInv ==
    /\ \A k \in DOMAIN settlements : Balances(settlements[k])
    /\ \A r \in Readers : \A i \in DOMAIN snapRows[r] : Balances(snapRows[r][i])
    /\ \A r \in Readers : MonthGoesOn(r)
=============================================================================
