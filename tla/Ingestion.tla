------------------------------ MODULE Ingestion ------------------------------
(***************************************************************************)
(* How transactions and settlements enter the in-memory store: the store   *)
(* itself (internal/store/memory.go), the two upload handlers              *)
(* (internal/api/handlers.go) and the fixture load that precedes them      *)
(* (cmd/server/main.go).                                                   *)
(*                                                                         *)
(* Every upload runs in a goroutine of its own.  The store's RWMutex makes *)
(* one save one step; nothing makes a file one step: an upload saves its   *)
(* rows one by one, and the rows of two uploads interleave.  A client that *)
(* gives up and sends its file again merely adds a goroutine: the handlers *)
(* never look at the request's context, so the first one runs on.          *)
(***************************************************************************)
EXTENDS Parsers

CONSTANTS Handlers,           \* goroutines serving requests
          Main,               \* the main goroutine
          TxnFiles,           \* bodies of POST /ingest/transactions
          SettlementUploads,  \* POST /ingest/settlements/:acquirer
          TxnFixtures,        \* what transactions.csv may hold at a start
          SettlementFixtures, \* the same for each acquirer's settlement file
          NoFile              \* a fixture that cannot be opened

Procs == Handlers \cup {Main}

ASSUME MainAssumption == Main \notin Handlers

ASSUME FilesAssumption ==
    /\ TxnFiles \subseteq FileOf(TxnRow)
    /\ SettlementUploads \subseteq [acquirer: STRING, file: FileOf(SettlementRow)]
    /\ TxnFixtures \subseteq FileOf(TxnRow) \cup {NoFile}
    /\ SettlementFixtures \in [Acquirers -> SUBSET (FileOf(SettlementRow) \cup {NoFile})]

VARIABLES
    txns,         \* Store.txns
    settlements,  \* Store.settlements, keyed by <<TransactionID, Acquirer>>
    pc,           \* where each goroutine stands
    txnBatch,     \* the transactions a goroutine parsed from its file
    stlBatch,     \* the settlements a goroutine parsed from its file
    next,         \* the index of the next record it will save
    reply,        \* the last response of each handler
    toLoad        \* the fixtures main has still to load, in order

store == <<txns, settlements>>
batches == <<txnBatch, stlBatch>>
vars  == <<txns, settlements, pc, txnBatch, stlBatch, next, reply, toLoad>>

Transaction ==
    [ID: TxnIds, Acquirer: Acquirers, AmountMinor: Int64, Currency: STRING,
     TransactionDate: Int, ExpectedSettleDate: Int]

Settlement ==
    [TransactionID: TxnIds, Acquirer: Acquirers,
     GrossMinor: Int64, FeeMinor: Int64, NetMinor: Int64, SettlementDate: Int]

-----------------------------------------------------------------------------
(***************************************************************************)
(* The store.  Both saves replace what the key held before.                *)
(***************************************************************************)
EmptyMap == [k \in {} |-> k]

Put(map, key, value) ==
    [k \in DOMAIN map \cup {key} |-> IF k = key THEN value ELSE map[k]]

Key(s) == <<s.TransactionID, s.Acquirer>>

\* Faulty variant of SaveTransaction: the first version is kept.
KeepFirstTransaction(t) ==
    /\ txns' = IF t.ID \in DOMAIN txns THEN txns ELSE Put(txns, t.ID, t)
    /\ UNCHANGED settlements

SaveTransaction(t) == txns' = Put(txns, t.ID, t) /\ UNCHANGED settlements

\* Faulty variant of SaveSettlement: the first row is kept.
KeepFirstSettlement(s) ==
    /\ settlements' = IF Key(s) \in DOMAIN settlements THEN settlements
                      ELSE Put(settlements, Key(s), s)
    /\ UNCHANGED txns

\* Faulty variant of SaveSettlement: the row replaces those of other acquirers.
KeepOneAcquirer(s) ==
    LET others == [k \in {x \in DOMAIN settlements : x[1] # s.TransactionID} |-> settlements[k]]
    IN  settlements' = Put(others, Key(s), s) /\ UNCHANGED txns

SaveSettlement(s) == settlements' = Put(settlements, Key(s), s) /\ UNCHANGED txns

-----------------------------------------------------------------------------
(***************************************************************************)
(* Steps shared by the upload handlers and the fixture load.               *)
(***************************************************************************)
MoreTransactions(p) ==
    pc[p] = "saveTransactions" /\ next[p] <= Len(txnBatch[p])

MoreSettlements(p) ==
    pc[p] = "saveSettlements" /\ next[p] <= Len(stlBatch[p])

\* The acquirer of p's next transaction has no schedule.
AtUnknownAcquirer(p) ==
    MoreTransactions(p) /\ ~HasSchedule(txnBatch[p][next[p]].Acquirer)

\* Faulty variant of AtEnd: off by one.
AtLastRow(p) ==
    \/ pc[p] = "saveTransactions" /\ next[p] = Len(txnBatch[p])
    \/ pc[p] = "saveSettlements"  /\ next[p] = Len(stlBatch[p])

\* p has been through its whole batch.
AtEnd(p) ==
    \/ pc[p] = "saveTransactions" /\ next[p] > Len(txnBatch[p])
    \/ pc[p] = "saveSettlements"  /\ next[p] > Len(stlBatch[p])

WithExpectedDate(row) ==
    [ID                 |-> row.ID,
     Acquirer           |-> row.Acquirer,
     AmountMinor        |-> row.AmountMinor,
     Currency           |-> row.Currency,
     TransactionDate    |-> row.TransactionDate,
     ExpectedSettleDate |-> ExpectedSettlementDate(row.Acquirer, row.TransactionDate)]

\* One turn of the loop over a transaction file: schedule, then save.
SaveNextTransaction(p) ==
    /\ MoreTransactions(p)
    /\ ~AtUnknownAcquirer(p)
    /\ SaveTransaction(WithExpectedDate(txnBatch[p][next[p]]))
    /\ next' = [next EXCEPT ![p] = @ + 1]
    /\ UNCHANGED <<pc, batches, reply, toLoad>>

\* One turn of the loop over a settlement file.
SaveNextSettlement(p) ==
    /\ MoreSettlements(p)
    /\ SaveSettlement(stlBatch[p][next[p]])
    /\ next' = [next EXCEPT ![p] = @ + 1]
    /\ UNCHANGED <<pc, batches, reply, toLoad>>

\* p takes these records and will save them from the first.
Take(p, transactions, records) ==
    /\ txnBatch' = [txnBatch EXCEPT ![p] = transactions]
    /\ stlBatch' = [stlBatch EXCEPT ![p] = records]
    /\ next'     = [next EXCEPT ![p] = 1]

GoTo(p, label) == pc' = [pc EXCEPT ![p] = label]

-----------------------------------------------------------------------------
(***************************************************************************)
(* Uploads.                                                                *)
(***************************************************************************)
Reply(h, status) == reply' = [reply EXCEPT ![h] = status]

\* A new request reaches a free goroutine.
Arrives(h) == pc[Main] = "serving" /\ pc[h] = "idle"

\* The body is refused before anything is saved.
Refuse(h) ==
    /\ Take(h, <<>>, <<>>)
    /\ Reply(h, "bad_request")
    /\ UNCHANGED <<store, pc, toLoad>>

PostTransactions(h) ==
    /\ Arrives(h)
    /\ \E file \in TxnFiles :
          \/ /\ LoadsTransactions(file)
             /\ Take(h, LoadTransactionsCSV(file), <<>>)
             /\ GoTo(h, "saveTransactions")
             /\ Reply(h, "none")
             /\ UNCHANGED <<store, toLoad>>
          \/ /\ ~LoadsTransactions(file)
             /\ Refuse(h)

\* Faulty variant of KnownUpload: any acquirer in the path will do.
AnyUpload(u) == ParsesSettlements(u.acquirer, u.file)

\* The path names the acquirer, and with it the parser.
KnownUpload(u) == u.acquirer \in Acquirers /\ ParsesSettlements(u.acquirer, u.file)

PostSettlements(h) ==
    /\ Arrives(h)
    /\ \E u \in SettlementUploads :
          \/ /\ KnownUpload(u)
             /\ Take(h, <<>>, ParseSettlements(u.acquirer, u.file))
             /\ GoTo(h, "saveSettlements")
             /\ Reply(h, "none")
             /\ UNCHANGED <<store, toLoad>>
          \/ /\ ~KnownUpload(u)
             /\ Refuse(h)

\* Faulty variant of StopAtUnknownAcquirer: the refused row is counted.
StopPastUnknownAcquirer(h) ==
    /\ AtUnknownAcquirer(h)
    /\ next' = [next EXCEPT ![h] = @ + 1]
    /\ GoTo(h, "idle")
    /\ Reply(h, "bad_request")
    /\ UNCHANGED <<store, batches, toLoad>>

\* A transaction of an unknown acquirer stops the upload in the middle: the
\* rows before it have been saved.
StopAtUnknownAcquirer(h) ==
    /\ AtUnknownAcquirer(h)
    /\ GoTo(h, "idle")
    /\ Reply(h, "bad_request")
    /\ UNCHANGED <<store, batches, next, toLoad>>

FinishUpload(h) ==
    /\ AtEnd(h)
    /\ GoTo(h, "idle")
    /\ Reply(h, "ok")
    /\ UNCHANGED <<store, batches, next, toLoad>>

-----------------------------------------------------------------------------
(***************************************************************************)
(* The life of the process.  main loads the fixtures before it listens.    *)
(* When the process ends, by log.Fatal or from outside, the store and the  *)
(* requests in flight are lost.                                            *)
(***************************************************************************)
SettlementFixtureOrder == <<Thai, Global, Prompt>>

Init ==
    /\ txns        = EmptyMap
    /\ settlements = EmptyMap
    /\ pc          = [p \in Procs |-> IF p = Main THEN "down" ELSE "idle"]
    /\ txnBatch    = [p \in Procs |-> <<>>]
    /\ stlBatch    = [p \in Procs |-> <<>>]
    /\ next        = [p \in Procs |-> 1]
    /\ reply       = [h \in Handlers |-> "none"]
    /\ toLoad      = SettlementFixtureOrder

Exit ==
    /\ txns'        = EmptyMap
    /\ settlements' = EmptyMap
    /\ pc'          = [p \in Procs |-> IF p = Main THEN "down" ELSE "idle"]
    /\ txnBatch'    = [p \in Procs |-> <<>>]
    /\ stlBatch'    = [p \in Procs |-> <<>>]
    /\ next'        = [p \in Procs |-> 1]
    /\ reply'       = [h \in Handlers |-> "none"]
    /\ toLoad'      = SettlementFixtureOrder

Crash ==
    /\ pc[Main] # "down"
    /\ Exit

\* -seed "" skips the fixtures.
Start ==
    /\ pc[Main] = "down"
    /\ \E first \in {"openTransactions", "serving"} : GoTo(Main, first)
    /\ UNCHANGED <<store, batches, next, reply, toLoad>>

OpenTransactions ==
    /\ pc[Main] = "openTransactions"
    /\ \E file \in TxnFixtures :
          \/ /\ file = NoFile
             /\ GoTo(Main, "openSettlements")
             /\ UNCHANGED <<store, batches, next, reply, toLoad>>
          \/ /\ file # NoFile
             /\ LoadsTransactions(file)
             /\ Take(Main, LoadTransactionsCSV(file), <<>>)
             /\ GoTo(Main, "saveTransactions")
             /\ UNCHANGED <<store, reply, toLoad>>
          \/ /\ file # NoFile
             /\ ~LoadsTransactions(file)
             /\ Exit

\* Faulty variant of SkipFixture: the missing file is tried again.
RetryFixture == UNCHANGED vars

\* The next settlement file is left out.
SkipFixture ==
    /\ toLoad' = Tail(toLoad)
    /\ UNCHANGED <<store, pc, batches, next, reply>>

\* The next settlement file; a file that cannot be opened is skipped.
OpenSettlements ==
    /\ pc[Main] = "openSettlements"
    /\ toLoad # <<>>
    /\ \E file \in SettlementFixtures[Head(toLoad)] :
          \/ /\ file = NoFile
             /\ SkipFixture
          \/ /\ file # NoFile
             /\ ParsesSettlements(Head(toLoad), file)
             /\ Take(Main, <<>>, ParseSettlements(Head(toLoad), file))
             /\ GoTo(Main, "saveSettlements")
             /\ toLoad' = Tail(toLoad)
             /\ UNCHANGED <<store, reply>>
          \/ /\ file # NoFile
             /\ ~ParsesSettlements(Head(toLoad), file)
             /\ Exit

FixtureUnknownAcquirer ==
    /\ AtUnknownAcquirer(Main)
    /\ Exit

FixtureSaved ==
    /\ AtEnd(Main)
    /\ GoTo(Main, "openSettlements")
    /\ UNCHANGED <<store, batches, next, reply, toLoad>>

Listen ==
    /\ pc[Main] = "openSettlements"
    /\ toLoad = <<>>
    /\ GoTo(Main, "serving")
    /\ UNCHANGED <<store, batches, next, reply, toLoad>>

-----------------------------------------------------------------------------
\* A handler that has accepted a file runs on.
HandlerRuns(h) ==
    \/ SaveNextTransaction(h)
    \/ SaveNextSettlement(h)
    \/ StopAtUnknownAcquirer(h)
    \/ FinishUpload(h)

\* main, once started, loads the fixtures and listens.
MainRuns ==
    \/ OpenTransactions
    \/ OpenSettlements
    \/ SaveNextTransaction(Main)
    \/ SaveNextSettlement(Main)
    \/ FixtureUnknownAcquirer
    \/ FixtureSaved
    \/ Listen

Next ==
    \/ \E h \in Handlers : \/ PostTransactions(h)
                           \/ PostSettlements(h)
                           \/ HandlerRuns(h)
    \/ MainRuns
    \/ Start
    \/ Crash

\* The Go scheduler runs every goroutine that can run, and RWMutex lets no
\* writer starve.  Nobody promises requests, crashes or restarts.
Fairness == (\A h \in Handlers : WF_vars(HandlerRuns(h))) /\ WF_vars(MainRuns)

Spec == Init /\ [][Next]_vars

FairSpec == Spec /\ Fairness

-----------------------------------------------------------------------------
(***************************************************************************)
(* Properties.                                                             *)
(***************************************************************************)
MainLabels == {"down", "openTransactions", "openSettlements", "serving"}
SaveLabels == {"saveTransactions", "saveSettlements"}

\* A transaction as LoadTransactionsCSV returns it.
LoadedTransaction ==
    [ID: TxnIds, Acquirer: STRING, AmountMinor: Int64, Currency: STRING,
     TransactionDate: Int]

\* The maps of the store hold each record under its own key, and every
\* goroutine holds records its parser can have produced.
TypeOK ==
    /\ txns \in [DOMAIN txns -> Transaction]
    /\ \A id \in DOMAIN txns : txns[id].ID = id
    /\ settlements \in [DOMAIN settlements -> Settlement]
    /\ \A k \in DOMAIN settlements : Key(settlements[k]) = k
    /\ pc \in [Procs -> {"idle"} \cup MainLabels \cup SaveLabels]
    /\ pc[Main] # "idle" /\ \A h \in Handlers : pc[h] \notin MainLabels
    /\ txnBatch \in [Procs -> Seq(LoadedTransaction)]
    /\ stlBatch \in [Procs -> Seq(Settlement)]
    /\ next \in [Procs -> Nat \ {0}]
    /\ reply \in [Handlers -> {"none", "ok", "bad_request"}]
    /\ toLoad \in Seq(Acquirers)

\* No transaction waits for money on a day no money moves: the expected date
\* of every stored transaction is a working day after its own, within five
\* days, and a GlobalPay window for GlobalPay.  The handler computes the date
\* and the fixture load computes it again (handlers.go, main.go).
PayoutDaysAreReal ==
    \A id \in DOMAIN txns :
        LET t == txns[id] IN
        /\ t.ExpectedSettleDate \in t.TransactionDate+1 .. t.TransactionDate+5
        /\ ~IsWeekend(t.ExpectedSettleDate)
        /\ t.Acquirer = Global => Weekday(t.ExpectedSettleDate) \in PayWindows

\* An "ok" is a promise kept: while the process lives, every row of a file
\* answered with 200 has its key in the store, whatever other uploads do.
OkMeansStored ==
    \A h \in Handlers : reply[h] = "ok" =>
        /\ \A i \in DOMAIN txnBatch[h] : txnBatch[h][i].ID \in DOMAIN txns
        /\ \A i \in DOMAIN stlBatch[h] : Key(stlBatch[h][i]) \in DOMAIN settlements

\* A transaction upload refused for an unknown acquirer has kept the rows
\* before that acquirer, and names a row that really has no schedule
\* (handlers.go, the early return inside the loop).
RefusedMidwayKeepsPrefix ==
    \A h \in Handlers : reply[h] = "bad_request" =>
        /\ \A i \in 1 .. next[h]-1 : txnBatch[h][i].ID \in DOMAIN txns
        /\ txnBatch[h] # <<>> => ~HasSchedule(txnBatch[h][next[h]].Acquirer)

-----------------------------------------------------------------------------
\* The batches a settlement upload or fixture can bring in.
SettlementBatches ==
    {ParseSettlements(u.acquirer, u.file) : u \in {v \in SettlementUploads : KnownUpload(v)}}
    \cup UNION {{ParseSettlements(a, f) : f \in {g \in SettlementFixtures[a] \ {NoFile} :
                                                   ParsesSettlements(a, g)}} : a \in Acquirers}

TransactionBatches ==
    {LoadTransactionsCSV(f) : f \in {g \in TxnFiles \cup (TxnFixtures \ {NoFile}) :
                                       LoadsTransactions(g)}}

\* Row i of b is the last one with its key.
LastOfItsKey(b, i) == \A j \in DOMAIN b : j > i => Key(b[j]) # Key(b[i])

\* The loop over b gets to row i: no earlier acquirer, nor its own, is unknown.
Reached(b, i) == \A j \in 1 .. i : HasSchedule(b[j].Acquirer)

\* Row i of b is the last row with its ID that the loop gets to.
LastReachedOfItsID(b, i) ==
    /\ Reached(b, i)
    /\ \A j \in DOMAIN b : j > i /\ Reached(b, j) => b[j].ID # b[i].ID

IsFinalSettlement(s) ==
    \E b \in SettlementBatches : \E i \in DOMAIN b : s = b[i] /\ LastOfItsKey(b, i)

IsFinalTransaction(t) ==
    \E b \in TransactionBatches : \E i \in DOMAIN b :
        t = WithExpectedDate(b[i]) /\ LastReachedOfItsID(b, i)

\* Last row wins, also across uploads: once no settlement upload is running,
\* no row that its own file supersedes is left in the store, however the rows
\* of concurrent uploads and retries were interleaved (memory.go SaveSettlement).
LastSettlementRowWins ==
    (\A p \in Procs : pc[p] # "saveSettlements") =>
        \A k \in DOMAIN settlements : IsFinalSettlement(settlements[k])

\* The same for transactions, also when an upload stopped midway.
LastTransactionRowWins ==
    (\A p \in Procs : pc[p] # "saveTransactions") =>
        \A id \in DOMAIN txns : IsFinalTransaction(txns[id])

\* What behaviors.md says of a repeated (transaction, acquirer) in a file:
\* "first-row-wins at store layer".  SaveSettlement overwrites.
FirstSettlementRowWins ==
    (\A p \in Procs : pc[p] # "saveSettlements") =>
        \A k \in DOMAIN settlements : \E b \in SettlementBatches : \E i \in DOMAIN b :
            /\ settlements[k] = b[i]
            /\ \A j \in 1 .. i-1 : Key(b[j]) # k

\* What README.md and behaviors.md say of amounts: the parsers reject negative
\* ones.  They look for a minus sign in front only, not after the point.
NoNegativeAmounts == \A id \in DOMAIN txns : txns[id].AmountMinor >= 0

\* What README.md and behaviors.md say of currencies: the parser rejects rows
\* that are not in THB.  LoadTransactionsCSV copies the column unseen.
OnlyBaht == \A id \in DOMAIN txns : txns[id].Currency = "THB"

-----------------------------------------------------------------------------
(***************************************************************************)
(* The inductive invariant behind the safety properties.                   *)
(***************************************************************************)
\* What a goroutine holds came from one of the files.
BatchesAreFiles ==
    \A p \in Procs :
        /\ txnBatch[p] # <<>> => txnBatch[p] \in TransactionBatches
        /\ stlBatch[p] # <<>> => stlBatch[p] \in SettlementBatches

\* The rows a goroutine has been through are in the store under their keys,
\* and none of them has an unknown acquirer.
RowsBehindAreStored ==
    \A p \in Procs :
        /\ \A i \in DOMAIN txnBatch[p] : i < next[p] =>
              /\ txnBatch[p][i].ID \in DOMAIN txns
              /\ HasSchedule(txnBatch[p][i].Acquirer)
        /\ \A i \in DOMAIN stlBatch[p] : i < next[p] =>
              Key(stlBatch[p][i]) \in DOMAIN settlements

\* An idle handler has answered, and its answer fits where it stopped.
AnswersFit ==
    \A h \in Handlers :
        /\ reply[h] = "ok" => /\ pc[h] = "idle"
                              /\ next[h] > Len(txnBatch[h])
                              /\ next[h] > Len(stlBatch[h])
        /\ reply[h] = "bad_request" =>
              /\ pc[h] = "idle"
              /\ stlBatch[h] = <<>>
              /\ \/ txnBatch[h] = <<>> /\ next[h] = 1
                 \/ /\ next[h] \in DOMAIN txnBatch[h]
                    /\ ~HasSchedule(txnBatch[h][next[h]].Acquirer)

\* A goroutine saves one kind of record.
OneBatchEach ==
    \A p \in Procs : /\ pc[p] = "saveTransactions" => stlBatch[p] = <<>>
                     /\ pc[p] = "saveSettlements" => txnBatch[p] = <<>>

\* A stored settlement that its file supersedes is about to be overwritten:
\* some goroutine still has a row with its key before it.
SupersededSettlementsGo ==
    \A k \in DOMAIN settlements :
        \/ IsFinalSettlement(settlements[k])
        \/ \E p \in Procs : \E j \in DOMAIN stlBatch[p] :
              /\ pc[p] = "saveSettlements"
              /\ j >= next[p]
              /\ Key(stlBatch[p][j]) = k

SupersededTransactionsGo ==
    \A id \in DOMAIN txns :
        \/ IsFinalTransaction(txns[id])
        \/ \E p \in Procs : \E j \in DOMAIN txnBatch[p] :
              /\ pc[p] = "saveTransactions"
              /\ j >= next[p]
              /\ Reached(txnBatch[p], j)
              /\ txnBatch[p][j].ID = id

IInv ==
    /\ TypeOK
    /\ PayoutDaysAreReal
    /\ BatchesAreFiles
    /\ RowsBehindAreStored
    /\ AnswersFit
    /\ OneBatchEach
    /\ SupersededSettlementsGo
    /\ SupersededTransactionsGo

-----------------------------------------------------------------------------
Settled(t) == <<t.ID, t.Acquirer>> \in DOMAIN settlements

\* What the lifecycle sees of the store.
Ledger == [id \in DOMAIN txns |-> [acquirer |-> txns[id].Acquirer,
                                  settled  |-> Settled(txns[id])]]

Lifecycle == INSTANCE TransactionLifecycle WITH ledger <- Ledger

\* Each transaction goes through the lifecycle and no other way, whatever the
\* order in which its own row and its settlement are saved (memory.go,
\* SaveTransaction and SaveSettlement).
LifecycleSpec == Lifecycle!Spec

\* Every accepted upload is answered, unless the process ends first.
UploadsAnswered ==
    \A h \in Handlers : pc[h] # "idle" ~> pc[h] = "idle"

\* A started process ends up serving or gives up.
BootEnds == pc[Main] \notin {"down", "serving"} ~> pc[Main] \in {"down", "serving"}
=============================================================================
