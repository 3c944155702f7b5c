-------------------------- MODULE Ingestion_proofs --------------------------
(***************************************************************************)
(* Proofs about Ingestion, for any number of goroutines, files and         *)
(* fixtures.                                                               *)
(***************************************************************************)
EXTENDS Ingestion, Schedule_proofs, Fees_proofs

-----------------------------------------------------------------------------
(***************************************************************************)
(* What the helpers return.                                                *)
(***************************************************************************)

\* The transaction loader returns records of the right shape.
LEMMA LoadedRows ==
    ASSUME NEW file \in FileOf(TxnRow), LoadsTransactions(file)
    PROVE  LoadTransactionsCSV(file) \in Seq(LoadedTransaction)
<1>1. file.rows \in Seq(TxnRow)
  BY DEF FileOf
<1>2. ASSUME NEW i \in DOMAIN file.rows
      PROVE  TransactionOf(file.rows[i]) \in LoadedTransaction
  <2> DEFINE row == file.rows[i]
  <2>1. row \in TxnRow
    BY <1>1, <1>2
  <2>2. row.amount \in Decimal /\ row.TransactionDate \in Int
    BY <1>2, <2>1 DEF LoadsTransactions, Converts, TxnRow, Column
  <2>3. TrimSpace[row.ID] \in TxnIds
    BY <2>1, TrimAssumption DEF TxnRow
  <2>4. ParseMinorUnits(row.amount) \in Int64
    BY <1>2, <2>2, ParsedAmounts DEF LoadsTransactions
  <2> HIDE DEF row
  <2> QED BY <2>1, <2>2, <2>3, <2>4 DEF TxnRow, LoadedTransaction, TransactionOf, row
<1>3. LoadTransactionsCSV(file) = [i \in 1 .. Len(file.rows) |-> TransactionOf(file.rows[i])]
  BY <1>1 DEF LoadTransactionsCSV
<1> QED BY <1>1, <1>2, <1>3

\* A settlement parser returns records of the right shape.
LEMMA ParsedRows ==
    ASSUME NEW a \in Acquirers, NEW file \in FileOf(SettlementRow),
           ParsesSettlements(a, file)
    PROVE  ParseSettlements(a, file) \in Seq(Settlement)
<1> DEFINE rec(row) == SettlementRecordOf(a, row)
<1>1. file.rows \in Seq(SettlementRow)
  BY DEF FileOf
<1>2. ASSUME NEW i \in DOMAIN file.rows
      PROVE  rec(file.rows[i]) \in Settlement
  <2> DEFINE row == file.rows[i]
  <2>1. row \in SettlementRow
    BY <1>1, <1>2
  <2>2. /\ row.paid # Malformed
        /\ Converts(row.gross) /\ Converts(row.fee) /\ Converts(row.net)
    BY <1>2 DEF ParsesSettlements, AcceptsAmount
  <2>3. /\ row.ref \in TxnIds /\ row.gross \in Decimal /\ row.fee \in Decimal
        /\ row.net \in Decimal /\ row.paid \in Int
    BY <2>1, <2>2 DEF SettlementRow, Column, Converts
  <2>5. /\ ParseMinorUnits(row.gross) \in Int64 /\ ParseMinorUnits(row.fee) \in Int64
        /\ ParseMinorUnits(row.net) \in Int64
    BY <2>2, <2>3, ParsedAmounts
  <2>4. SettlementInstant(a, row) \in Int
    BY <2>3 DEF SettlementInstant, BangkokInstant
  <2> HIDE DEF row
  <2> QED BY <2>3, <2>4, <2>5 DEF SettlementRecordOf, Settlement, row
<1>3. ParseSettlements(a, file) = [i \in 1 .. Len(file.rows) |-> rec(file.rows[i])]
  BY <1>1 DEF ParseSettlements
<1> HIDE DEF rec
<1> QED BY <1>1, <1>2, <1>3

\* A saved transaction carries a real payout day.
LEMMA ExpectedDateSpec ==
    ASSUME NEW row \in LoadedTransaction, HasSchedule(row.Acquirer)
    PROVE  /\ WithExpectedDate(row) \in Transaction
           /\ WithExpectedDate(row).ID = row.ID
           /\ LET t == WithExpectedDate(row) IN
              /\ t.ExpectedSettleDate \in t.TransactionDate+1 .. t.TransactionDate+5
              /\ ~IsWeekend(t.ExpectedSettleDate)
              /\ t.Acquirer = Global => Weekday(t.ExpectedSettleDate) \in PayWindows
<1> DEFINE e == ExpectedSettlementDate(row.Acquirer, row.TransactionDate)
<1>1. row.Acquirer \in Acquirers /\ row.TransactionDate \in Int
  BY DEF HasSchedule, LoadedTransaction
<1>2. /\ e \in row.TransactionDate+1 .. row.TransactionDate+5
      /\ ~IsWeekend(e)
      /\ row.Acquirer = Global => Weekday(e) \in PayWindows
  BY <1>1, PayoutDaySpec
<1> HIDE DEF e
<1>3. e \in Int
  BY <1>1, <1>2
<1> QED BY <1>1, <1>2, <1>3 DEF WithExpectedDate, Transaction, LoadedTransaction, e

-----------------------------------------------------------------------------
(***************************************************************************)
(* Type correctness.                                                       *)
(***************************************************************************)
\* The fixtures for an acquirer are settlement files or missing.
LEMMA FixtureFiles ==
    ASSUME NEW a \in Acquirers, NEW f \in SettlementFixtures[a], f # NoFile
    PROVE  f \in FileOf(SettlementRow)
BY FilesAssumption

\* The state the process is left in when it ends is well typed.
LEMMA ExitTypes == Exit => TypeOK'
<1> SUFFICES ASSUME Exit PROVE TypeOK'
  OBVIOUS
<1> USE DEF Exit
<1>1. SettlementFixtureOrder \in Seq(Acquirers)
  BY DEF SettlementFixtureOrder, Acquirers
<1>2. /\ DOMAIN txns' = {} /\ txns' \in [DOMAIN txns' -> Transaction]
      /\ DOMAIN settlements' = {} /\ settlements' \in [DOMAIN settlements' -> Settlement]
  BY DEF EmptyMap
<1>3. Main \in Procs /\ \A h \in Handlers : h \in Procs /\ h # Main
  BY MainAssumption DEF Procs
<1>4. /\ pc' \in [Procs -> {"idle"} \cup MainLabels \cup SaveLabels]
      /\ pc'[Main] # "idle" /\ \A h \in Handlers : pc'[h] \notin MainLabels
  BY <1>3 DEF MainLabels
<1>5. /\ txnBatch' \in [Procs -> Seq(LoadedTransaction)]
      /\ stlBatch' \in [Procs -> Seq(Settlement)]
      /\ next' \in [Procs -> Nat \ {0}]
      /\ reply' \in [Handlers -> {"none", "ok", "bad_request"}]
  <2>1. <<>> \in Seq(LoadedTransaction) /\ <<>> \in Seq(Settlement)
    OBVIOUS
  <2> QED BY <2>1
<1>6. toLoad' \in Seq(Acquirers)
  BY <1>1
<1> HIDE DEF Exit
<1> QED BY <1>2, <1>4, <1>5, <1>6 DEF TypeOK

\* A goroutine takes a batch: the batches and the counter keep their types.
LEMMA TakeTypes ==
    ASSUME TypeOK, NEW p \in Procs, NEW b, NEW c, Take(p, b, c),
           b = <<>> \/ b \in Seq(LoadedTransaction),
           c = <<>> \/ c \in Seq(Settlement)
    PROVE  /\ txnBatch' \in [Procs -> Seq(LoadedTransaction)]
           /\ stlBatch' \in [Procs -> Seq(Settlement)]
           /\ next' \in [Procs -> Nat \ {0}]
<1>1. <<>> \in Seq(LoadedTransaction) /\ <<>> \in Seq(Settlement)
  OBVIOUS
<1>2. b \in Seq(LoadedTransaction) /\ c \in Seq(Settlement)
  BY <1>1
<1> QED BY <1>2 DEF Take, TypeOK

\* The type invariant is kept by every step.
LEMMA TypeStep == TypeOK /\ [Next]_vars => TypeOK'
<1> SUFFICES ASSUME TypeOK, [Next]_vars PROVE TypeOK'
  OBVIOUS
<1> USE DEF store, batches
<1>0. Main \in Procs /\ \A h \in Handlers : h \in Procs /\ h # Main
  BY MainAssumption DEF Procs
<1>1. ASSUME NEW p \in Procs, SaveNextTransaction(p) PROVE TypeOK'
  <2> DEFINE t == WithExpectedDate(txnBatch[p][next[p]])
  <2>1. txnBatch[p][next[p]] \in LoadedTransaction /\ HasSchedule(txnBatch[p][next[p]].Acquirer)
    BY <1>1 DEF SaveNextTransaction, MoreTransactions, AtUnknownAcquirer, TypeOK
  <2>2. t \in Transaction /\ t.ID \in TxnIds
    BY <2>1, ExpectedDateSpec DEF Transaction
  <2>3. txns' = Put(txns, t.ID, t) /\ UNCHANGED <<settlements, pc, txnBatch, stlBatch, reply, toLoad>>
    BY <1>1 DEF SaveNextTransaction, SaveTransaction
  <2>4. next' \in [Procs -> Nat \ {0}]
    BY <1>1 DEF SaveNextTransaction, TypeOK
  <2> HIDE DEF t
  <2>5. txns' \in [DOMAIN txns' -> Transaction] /\ \A id \in DOMAIN txns' : txns'[id].ID = id
    <3>1. txns \in [DOMAIN txns -> Transaction] /\ \A id \in DOMAIN txns : txns[id].ID = id
      BY DEF TypeOK
    <3>2. /\ txns' \in [DOMAIN txns' -> Transaction]
          /\ DOMAIN txns' = DOMAIN txns \cup {t.ID}
          /\ txns'[t.ID] = t
          /\ \A x \in DOMAIN txns : x # t.ID => txns'[x] = txns[x]
      BY <2>2, <2>3, <3>1 DEF Put
    <3> QED BY <3>1, <3>2
  <2> QED BY <2>3, <2>4, <2>5 DEF TypeOK
<1>2. ASSUME NEW p \in Procs, SaveNextSettlement(p) PROVE TypeOK'
  <2> DEFINE s == stlBatch[p][next[p]]
  <2>1. s \in Settlement
    BY <1>2 DEF SaveNextSettlement, MoreSettlements, TypeOK
  <2>2. settlements' = Put(settlements, Key(s), s) /\ UNCHANGED <<txns, pc, txnBatch, stlBatch, reply, toLoad>>
    BY <1>2 DEF SaveNextSettlement, SaveSettlement
  <2>3. next' \in [Procs -> Nat \ {0}]
    BY <1>2 DEF SaveNextSettlement, TypeOK
  <2> HIDE DEF s
  <2>4. settlements' \in [DOMAIN settlements' -> Settlement]
        /\ \A k \in DOMAIN settlements' : Key(settlements'[k]) = k
    <3>1. /\ settlements \in [DOMAIN settlements -> Settlement]
          /\ \A k \in DOMAIN settlements : Key(settlements[k]) = k
      BY DEF TypeOK
    <3>2. /\ settlements' \in [DOMAIN settlements' -> Settlement]
          /\ DOMAIN settlements' = DOMAIN settlements \cup {Key(s)}
          /\ settlements'[Key(s)] = s
          /\ \A x \in DOMAIN settlements : x # Key(s) => settlements'[x] = settlements[x]
      BY <2>1, <2>2, <3>1 DEF Put
    <3> QED BY <3>1, <3>2 DEF Key
  <2> QED BY <2>2, <2>3, <2>4 DEF TypeOK, Key
<1>3. ASSUME NEW h \in Handlers, Refuse(h) PROVE TypeOK'
  BY <1>0, <1>3, TakeTypes DEF Refuse, Reply, TypeOK
<1>4. ASSUME NEW h \in Handlers, PostTransactions(h) PROVE TypeOK'
  <2>1. PICK f \in TxnFiles :
          \/ /\ LoadsTransactions(f)
             /\ Take(h, LoadTransactionsCSV(f), <<>>)
             /\ GoTo(h, "saveTransactions")
             /\ Reply(h, "none")
             /\ UNCHANGED <<store, toLoad>>
          \/ Refuse(h)
    BY <1>4 DEF PostTransactions
  <2>2. CASE Refuse(h)
    BY <1>3, <2>2
  <2>3. CASE /\ LoadsTransactions(f)
             /\ Take(h, LoadTransactionsCSV(f), <<>>)
             /\ GoTo(h, "saveTransactions")
             /\ Reply(h, "none")
             /\ UNCHANGED <<store, toLoad>>
    <3>1. LoadTransactionsCSV(f) \in Seq(LoadedTransaction)
      BY <2>3, LoadedRows, FilesAssumption
    <3>2. /\ txnBatch' \in [Procs -> Seq(LoadedTransaction)]
          /\ stlBatch' \in [Procs -> Seq(Settlement)]
          /\ next' \in [Procs -> Nat \ {0}]
      BY <1>0, <2>3, <3>1, TakeTypes
    <3> QED BY <1>0, <2>3, <3>2 DEF GoTo, Reply, TypeOK, SaveLabels, MainLabels
  <2> QED BY <2>1, <2>2, <2>3
<1>5. ASSUME NEW h \in Handlers, PostSettlements(h) PROVE TypeOK'
  <2>1. PICK u \in SettlementUploads :
          \/ /\ KnownUpload(u)
             /\ Take(h, <<>>, ParseSettlements(u.acquirer, u.file))
             /\ GoTo(h, "saveSettlements")
             /\ Reply(h, "none")
             /\ UNCHANGED <<store, toLoad>>
          \/ Refuse(h)
    BY <1>5 DEF PostSettlements
  <2>2. CASE Refuse(h)
    BY <1>3, <2>2
  <2>3. CASE /\ KnownUpload(u)
             /\ Take(h, <<>>, ParseSettlements(u.acquirer, u.file))
             /\ GoTo(h, "saveSettlements")
             /\ Reply(h, "none")
             /\ UNCHANGED <<store, toLoad>>
    <3>1. ParseSettlements(u.acquirer, u.file) \in Seq(Settlement)
      BY <2>3, ParsedRows, FilesAssumption DEF KnownUpload
    <3>2. /\ txnBatch' \in [Procs -> Seq(LoadedTransaction)]
          /\ stlBatch' \in [Procs -> Seq(Settlement)]
          /\ next' \in [Procs -> Nat \ {0}]
      BY <1>0, <2>3, <3>1, TakeTypes
    <3> QED BY <1>0, <2>3, <3>2 DEF GoTo, Reply, TypeOK, SaveLabels, MainLabels
  <2> QED BY <2>1, <2>2, <2>3
<1>6. ASSUME NEW h \in Handlers, StopAtUnknownAcquirer(h) PROVE TypeOK'
  BY <1>0, <1>6 DEF StopAtUnknownAcquirer, GoTo, Reply, TypeOK, MainLabels
<1>7. ASSUME NEW h \in Handlers, FinishUpload(h) PROVE TypeOK'
  BY <1>0, <1>7 DEF FinishUpload, GoTo, Reply, TypeOK, MainLabels
<1>8. CASE OpenTransactions
  <2>1. PICK f \in TxnFixtures :
          \/ /\ GoTo(Main, "openSettlements")
             /\ UNCHANGED <<store, batches, next, reply, toLoad>>
          \/ /\ f # NoFile
             /\ LoadsTransactions(f)
             /\ Take(Main, LoadTransactionsCSV(f), <<>>)
             /\ GoTo(Main, "saveTransactions")
             /\ UNCHANGED <<store, reply, toLoad>>
          \/ Exit
    BY <1>8 DEF OpenTransactions
  <2>2. CASE /\ GoTo(Main, "openSettlements")
             /\ UNCHANGED <<store, batches, next, reply, toLoad>>
    BY <1>0, <2>2 DEF GoTo, TypeOK, MainLabels
  <2>3. CASE /\ f # NoFile
             /\ LoadsTransactions(f)
             /\ Take(Main, LoadTransactionsCSV(f), <<>>)
             /\ GoTo(Main, "saveTransactions")
             /\ UNCHANGED <<store, reply, toLoad>>
    <3>1. LoadTransactionsCSV(f) \in Seq(LoadedTransaction)
      BY <2>3, LoadedRows, FilesAssumption
    <3>2. /\ txnBatch' \in [Procs -> Seq(LoadedTransaction)]
          /\ stlBatch' \in [Procs -> Seq(Settlement)]
          /\ next' \in [Procs -> Nat \ {0}]
      BY <1>0, <2>3, <3>1, TakeTypes
    <3> QED BY <1>0, <2>3, <3>2 DEF GoTo, TypeOK, SaveLabels, MainLabels
  <2> QED BY <2>1, <2>2, <2>3, ExitTypes
<1>9. CASE OpenSettlements
  <2> DEFINE a == Head(toLoad)
  <2>1. a \in Acquirers /\ Tail(toLoad) \in Seq(Acquirers)
    BY <1>9 DEF OpenSettlements, TypeOK
  <2>2. PICK f \in SettlementFixtures[a] :
          \/ /\ toLoad' = Tail(toLoad)
             /\ UNCHANGED <<store, pc, batches, next, reply>>
          \/ /\ f # NoFile
             /\ ParsesSettlements(a, f)
             /\ Take(Main, <<>>, ParseSettlements(a, f))
             /\ GoTo(Main, "saveSettlements")
             /\ toLoad' = Tail(toLoad)
             /\ UNCHANGED <<store, reply>>
          \/ Exit
    BY <1>9 DEF OpenSettlements, SkipFixture
  <2>3. CASE /\ toLoad' = Tail(toLoad)
             /\ UNCHANGED <<store, pc, batches, next, reply>>
    BY <2>1, <2>3 DEF TypeOK
  <2>4. CASE /\ f # NoFile
             /\ ParsesSettlements(a, f)
             /\ Take(Main, <<>>, ParseSettlements(a, f))
             /\ GoTo(Main, "saveSettlements")
             /\ toLoad' = Tail(toLoad)
             /\ UNCHANGED <<store, reply>>
    <3> HIDE DEF a
    <3>1. ParseSettlements(a, f) \in Seq(Settlement)
      BY <2>1, <2>4, ParsedRows, FixtureFiles
    <3>2. /\ txnBatch' \in [Procs -> Seq(LoadedTransaction)]
          /\ stlBatch' \in [Procs -> Seq(Settlement)]
          /\ next' \in [Procs -> Nat \ {0}]
      BY <1>0, <2>4, <3>1, TakeTypes
    <3> QED BY <1>0, <2>1, <2>4, <3>2 DEF GoTo, TypeOK, SaveLabels, MainLabels
  <2> QED BY <2>2, <2>3, <2>4, ExitTypes
<1>10. CASE FixtureSaved \/ Listen \/ Start
  BY <1>0, <1>10 DEF FixtureSaved, Listen, Start, GoTo, TypeOK, MainLabels
<1>11. CASE UNCHANGED vars
  BY <1>11 DEF vars, TypeOK
<1> QED
  BY <1>0, <1>1, <1>2, <1>4, <1>5, <1>6, <1>7, <1>8, <1>9, <1>10, <1>11, ExitTypes
  DEF Next, HandlerRuns, MainRuns, FixtureUnknownAcquirer, Crash

\* So is the state before the first start.
LEMMA TypeInit == Init => TypeOK
<1> SUFFICES ASSUME Init PROVE TypeOK
  OBVIOUS
<1>1. SettlementFixtureOrder \in Seq(Acquirers)
  BY DEF SettlementFixtureOrder, Acquirers
<1>2. Main \in Procs /\ \A h \in Handlers : h \in Procs /\ h # Main
  BY MainAssumption DEF Procs
<1> QED BY <1>1, <1>2 DEF Init, EmptyMap, TypeOK, MainLabels

\* Type correctness of the ledger, the goroutines and the fixture load.
THEOREM TypeCorrect == Spec => []TypeOK
BY TypeInit, TypeStep, PTL DEF Spec

-----------------------------------------------------------------------------
(***************************************************************************)
(* The steps, by what they do to the store and the batches.                *)
(***************************************************************************)
\* p, which has no batch in hand, takes one, or refuses its file.
Takes(p) ==
    /\ pc[p] \notin SaveLabels
    /\ UNCHANGED store
    /\ \E b \in TransactionBatches \cup {<<>>}, c \in SettlementBatches \cup {<<>>} :
          /\ Take(p, b, c)
          /\ \/ /\ b = <<>> /\ c = <<>>
                /\ p \in Handlers
                /\ Reply(p, "bad_request")
                /\ UNCHANGED pc
             \/ /\ c = <<>> /\ GoTo(p, "saveTransactions")
                /\ \/ p = Main /\ UNCHANGED reply
                   \/ p \in Handlers /\ Reply(p, "none")
             \/ /\ b = <<>> /\ GoTo(p, "saveSettlements")
                /\ \/ p = Main /\ UNCHANGED reply
                   \/ p \in Handlers /\ Reply(p, "none")

\* p moves on without saving: it leaves its batch at the end, or at an
\* unknown acquirer.
Moves(p) ==
    /\ UNCHANGED <<store, batches, next>>
    /\ \E label \in {"idle"} \cup MainLabels : GoTo(p, label)
    /\ pc[p] \in SaveLabels => AtEnd(p) \/ AtUnknownAcquirer(p)
    /\ \/ p = Main /\ UNCHANGED reply
       \/ /\ p \in Handlers /\ AtEnd(p) /\ pc'[p] = "idle" /\ Reply(p, "ok")
       \/ /\ p \in Handlers /\ AtUnknownAcquirer(p) /\ pc'[p] = "idle"
          /\ Reply(p, "bad_request")

Rests == UNCHANGED <<store, batches, next, pc, reply>>

\* Every step is of one of these kinds.
LEMMA StepKinds ==
    ASSUME TypeOK, [Next]_vars
    PROVE  \/ \E p \in Procs : SaveNextTransaction(p)
           \/ \E p \in Procs : SaveNextSettlement(p)
           \/ \E p \in Procs : Takes(p)
           \/ \E p \in Procs : Moves(p)
           \/ Rests
           \/ Exit
<1> USE DEF store, batches
<1>0. Main \in Procs /\ \A h \in Handlers : h \in Procs
  BY DEF Procs
<1>1. ASSUME NEW h \in Handlers, PostTransactions(h) PROVE Takes(h)
  <2>1. PICK f \in TxnFiles :
          \/ /\ LoadsTransactions(f)
             /\ Take(h, LoadTransactionsCSV(f), <<>>)
             /\ GoTo(h, "saveTransactions")
             /\ Reply(h, "none")
             /\ UNCHANGED <<store, toLoad>>
          \/ Refuse(h)
    BY <1>1 DEF PostTransactions
  <2>2. pc[h] \notin SaveLabels
    BY <1>1 DEF PostTransactions, Arrives, SaveLabels
  <2>3. CASE Refuse(h)
    BY <2>2, <2>3 DEF Refuse, Takes
  <2>4. CASE LoadsTransactions(f) /\ ~Refuse(h)
    <3>1. LoadTransactionsCSV(f) \in TransactionBatches
      BY <2>4 DEF TransactionBatches
    <3> QED BY <2>1, <2>2, <2>4, <3>1 DEF Takes
  <2> QED BY <2>1, <2>3, <2>4
<1>2. ASSUME NEW h \in Handlers, PostSettlements(h) PROVE Takes(h)
  <2>1. PICK u \in SettlementUploads :
          \/ /\ KnownUpload(u)
             /\ Take(h, <<>>, ParseSettlements(u.acquirer, u.file))
             /\ GoTo(h, "saveSettlements")
             /\ Reply(h, "none")
             /\ UNCHANGED <<store, toLoad>>
          \/ Refuse(h)
    BY <1>2 DEF PostSettlements
  <2>2. pc[h] \notin SaveLabels
    BY <1>2 DEF PostSettlements, Arrives, SaveLabels
  <2>3. CASE Refuse(h)
    BY <2>2, <2>3 DEF Refuse, Takes
  <2>4. CASE KnownUpload(u) /\ ~Refuse(h)
    <3>1. ParseSettlements(u.acquirer, u.file) \in SettlementBatches
      BY <2>4 DEF SettlementBatches
    <3> QED BY <2>1, <2>2, <2>4, <3>1 DEF Takes
  <2> QED BY <2>1, <2>3, <2>4
<1>3. ASSUME OpenTransactions PROVE Takes(Main) \/ Moves(Main) \/ Exit
  <2>1. PICK f \in TxnFixtures :
          \/ /\ GoTo(Main, "openSettlements")
             /\ UNCHANGED <<store, batches, next, reply, toLoad>>
          \/ /\ f # NoFile
             /\ LoadsTransactions(f)
             /\ Take(Main, LoadTransactionsCSV(f), <<>>)
             /\ GoTo(Main, "saveTransactions")
             /\ UNCHANGED <<store, reply, toLoad>>
          \/ Exit
    BY <1>3 DEF OpenTransactions
  <2>2. pc[Main] \notin SaveLabels
    BY <1>3 DEF OpenTransactions, SaveLabels
  <2>3. CASE /\ GoTo(Main, "openSettlements")
             /\ UNCHANGED <<store, batches, next, reply, toLoad>>
    BY <2>2, <2>3 DEF Moves, MainLabels
  <2>4. CASE /\ f # NoFile
             /\ LoadsTransactions(f)
             /\ Take(Main, LoadTransactionsCSV(f), <<>>)
             /\ GoTo(Main, "saveTransactions")
             /\ UNCHANGED <<store, reply, toLoad>>
    <3>1. LoadTransactionsCSV(f) \in TransactionBatches
      BY <2>4 DEF TransactionBatches
    <3> QED BY <2>2, <2>4, <3>1 DEF Takes
  <2> QED BY <2>1, <2>3, <2>4
<1>4. ASSUME OpenSettlements PROVE Takes(Main) \/ Rests \/ Exit
  <2> DEFINE a == Head(toLoad)
  <2>1. a \in Acquirers
    BY <1>4 DEF OpenSettlements, TypeOK
  <2>2. PICK f \in SettlementFixtures[a] :
          \/ /\ toLoad' = Tail(toLoad)
             /\ UNCHANGED <<store, pc, batches, next, reply>>
          \/ /\ f # NoFile
             /\ ParsesSettlements(a, f)
             /\ Take(Main, <<>>, ParseSettlements(a, f))
             /\ GoTo(Main, "saveSettlements")
             /\ toLoad' = Tail(toLoad)
             /\ UNCHANGED <<store, reply>>
          \/ Exit
    BY <1>4 DEF OpenSettlements, SkipFixture
  <2>3. pc[Main] \notin SaveLabels
    BY <1>4 DEF OpenSettlements, SaveLabels
  <2>4. CASE UNCHANGED <<store, pc, batches, next, reply>>
    BY <2>4 DEF Rests
  <2>5. CASE /\ f # NoFile
             /\ ParsesSettlements(a, f)
             /\ Take(Main, <<>>, ParseSettlements(a, f))
             /\ GoTo(Main, "saveSettlements")
             /\ toLoad' = Tail(toLoad)
             /\ UNCHANGED <<store, reply>>
    <3> HIDE DEF a
    <3>1. ParseSettlements(a, f) \in SettlementBatches
      BY <2>1, <2>2, <2>5 DEF SettlementBatches
    <3> QED BY <2>3, <2>5, <3>1 DEF Takes
  <2> QED BY <2>2, <2>4, <2>5
<1>5. ASSUME NEW h \in Handlers, StopAtUnknownAcquirer(h) \/ FinishUpload(h) PROVE Moves(h)
  BY <1>0, <1>5 DEF StopAtUnknownAcquirer, FinishUpload, Moves, GoTo, TypeOK
<1>6. ASSUME FixtureSaved \/ Listen \/ Start PROVE Moves(Main)
  BY <1>6 DEF FixtureSaved, Listen, Start, Moves, GoTo, MainLabels, SaveLabels
<1>7. ASSUME UNCHANGED vars PROVE Rests
  BY <1>7 DEF vars, Rests
<1> QED
  BY <1>0, <1>1, <1>2, <1>3, <1>4, <1>5, <1>6, <1>7
  DEF Next, HandlerRuns, MainRuns, FixtureUnknownAcquirer, Crash

-----------------------------------------------------------------------------
(***************************************************************************)
(* What a save does, and what the batches hold.                            *)
(***************************************************************************)
\* Saving the next transaction of p schedules it and changes its ID and
\* nothing else.
LEMMA SaveTransactionSpec ==
    ASSUME TypeOK, NEW p \in Procs, SaveNextTransaction(p)
    PROVE  LET row == txnBatch[p][next[p]]
               t   == WithExpectedDate(row) IN
           /\ next[p] \in DOMAIN txnBatch[p]
           /\ row \in LoadedTransaction /\ HasSchedule(row.Acquirer)
           /\ t.ID = row.ID
           /\ DOMAIN txns' = DOMAIN txns \cup {row.ID}
           /\ txns'[row.ID] = t
           /\ \A id \in DOMAIN txns : id # row.ID => txns'[id] = txns[id]
           /\ next' = [next EXCEPT ![p] = @ + 1]
           /\ UNCHANGED <<settlements, pc, txnBatch, stlBatch, reply>>
<1> DEFINE row == txnBatch[p][next[p]]
           t   == WithExpectedDate(row)
<1>1. /\ next[p] \in DOMAIN txnBatch[p]
      /\ row \in LoadedTransaction /\ HasSchedule(row.Acquirer)
  BY DEF SaveNextTransaction, MoreTransactions, AtUnknownAcquirer, TypeOK
<1>2. t.ID = row.ID
  BY <1>1, ExpectedDateSpec
<1>3. /\ txns' = Put(txns, t.ID, t)
      /\ next' = [next EXCEPT ![p] = @ + 1]
      /\ UNCHANGED <<settlements, pc, txnBatch, stlBatch, reply>>
  BY DEF SaveNextTransaction, SaveTransaction, batches
<1> HIDE DEF t, row
<1>4. /\ DOMAIN txns' = DOMAIN txns \cup {row.ID}
      /\ txns'[row.ID] = t
      /\ \A id \in DOMAIN txns : id # row.ID => txns'[id] = txns[id]
  BY <1>2, <1>3 DEF Put
<1> QED BY <1>1, <1>2, <1>3, <1>4 DEF t, row

\* Saving the next settlement of p changes its key and nothing else.
LEMMA SaveSettlementSpec ==
    ASSUME TypeOK, NEW p \in Procs, SaveNextSettlement(p)
    PROVE  LET s == stlBatch[p][next[p]] IN
           /\ next[p] \in DOMAIN stlBatch[p]
           /\ s \in Settlement
           /\ DOMAIN settlements' = DOMAIN settlements \cup {Key(s)}
           /\ settlements'[Key(s)] = s
           /\ \A k \in DOMAIN settlements : k # Key(s) => settlements'[k] = settlements[k]
           /\ next' = [next EXCEPT ![p] = @ + 1]
           /\ UNCHANGED <<txns, pc, txnBatch, stlBatch, reply>>
<1> DEFINE s == stlBatch[p][next[p]]
<1>1. next[p] \in DOMAIN stlBatch[p] /\ s \in Settlement
  BY DEF SaveNextSettlement, MoreSettlements, TypeOK
<1>2. /\ settlements' = Put(settlements, Key(s), s)
      /\ next' = [next EXCEPT ![p] = @ + 1]
      /\ UNCHANGED <<txns, pc, txnBatch, stlBatch, reply>>
  BY DEF SaveNextSettlement, SaveSettlement, batches
<1> DEFINE k == Key(s)
<1> HIDE DEF s, k
<1>3. settlements' = Put(settlements, k, s)
  BY <1>2 DEF k
<1>4. /\ DOMAIN settlements' = DOMAIN settlements \cup {k}
      /\ settlements'[k] = s
      /\ \A x \in DOMAIN settlements : x # k => settlements'[x] = settlements[x]
  BY <1>3 DEF Put
<1> QED BY <1>1, <1>2, <1>4 DEF s, k

\* The transaction batches have the loader's type.
LEMMA TransactionBatchesSpec ==
    ASSUME NEW b \in TransactionBatches
    PROVE  b \in Seq(LoadedTransaction)
<1>1. PICK f \in TxnFiles \cup (TxnFixtures \ {NoFile}) :
         LoadsTransactions(f) /\ b = LoadTransactionsCSV(f)
  BY DEF TransactionBatches
<1> QED BY <1>1, LoadedRows, FilesAssumption

\* The settlement batches have the parsers' type.
LEMMA SettlementBatchesSpec ==
    ASSUME NEW c \in SettlementBatches
    PROVE  c \in Seq(Settlement)
<1>1. CASE \E u \in SettlementUploads : KnownUpload(u) /\ c = ParseSettlements(u.acquirer, u.file)
  <2>1. PICK u \in SettlementUploads :
           KnownUpload(u) /\ c = ParseSettlements(u.acquirer, u.file)
    BY <1>1
  <2> QED BY <2>1, ParsedRows, FilesAssumption DEF KnownUpload
<1>2. CASE \E a \in Acquirers : \E f \in SettlementFixtures[a] \ {NoFile} :
              ParsesSettlements(a, f) /\ c = ParseSettlements(a, f)
  <2>0. PICK a \in Acquirers : \E f \in SettlementFixtures[a] \ {NoFile} :
              ParsesSettlements(a, f) /\ c = ParseSettlements(a, f)
    BY <1>2
  <2>1. PICK f \in SettlementFixtures[a] \ {NoFile} :
           ParsesSettlements(a, f) /\ c = ParseSettlements(a, f)
    BY <2>0
  <2>2. f \in FileOf(SettlementRow)
    BY <2>1, FixtureFiles
  <2> QED BY <2>1, <2>2, ParsedRows
<1> QED BY <1>1, <1>2 DEF SettlementBatches

-----------------------------------------------------------------------------
(***************************************************************************)
(* The conjuncts of the invariant, one by one.                             *)
(***************************************************************************)
\* Only a save changes a stored date, and it saves a real payout day.
LEMMA DaysStep ==
    ASSUME TypeOK, PayoutDaysAreReal, [Next]_vars
    PROVE  PayoutDaysAreReal'
<1>1. ASSUME NEW p \in Procs, SaveNextTransaction(p) PROVE PayoutDaysAreReal'
  <2> DEFINE row == txnBatch[p][next[p]]
             t   == WithExpectedDate(row)
  <2>1. /\ DOMAIN txns' = DOMAIN txns \cup {row.ID}
        /\ txns'[row.ID] = t
        /\ \A id \in DOMAIN txns : id # row.ID => txns'[id] = txns[id]
    BY <1>1, SaveTransactionSpec
  <2>2. row \in LoadedTransaction /\ HasSchedule(row.Acquirer)
    BY <1>1, SaveTransactionSpec
  <2>3. /\ t.ExpectedSettleDate \in t.TransactionDate+1 .. t.TransactionDate+5
        /\ ~IsWeekend(t.ExpectedSettleDate)
        /\ t.Acquirer = Global => Weekday(t.ExpectedSettleDate) \in PayWindows
    BY <2>2, ExpectedDateSpec
  <2> HIDE DEF row, t
  <2> SUFFICES ASSUME NEW id \in DOMAIN txns'
               PROVE  /\ txns'[id].ExpectedSettleDate \in
                            txns'[id].TransactionDate+1 .. txns'[id].TransactionDate+5
                      /\ ~IsWeekend(txns'[id].ExpectedSettleDate)
                      /\ txns'[id].Acquirer = Global =>
                            Weekday(txns'[id].ExpectedSettleDate) \in PayWindows
    BY DEF PayoutDaysAreReal
  <2>4. CASE id = row.ID
    BY <2>1, <2>3, <2>4
  <2>5. CASE id # row.ID
    BY <2>1, <2>5 DEF PayoutDaysAreReal
  <2> QED BY <2>4, <2>5
<1>2. CASE UNCHANGED txns
  BY <1>2 DEF PayoutDaysAreReal
<1>3. CASE Exit
  BY <1>3 DEF Exit, EmptyMap, PayoutDaysAreReal
<1> QED
  BY <1>1, <1>2, <1>3, StepKinds
  DEF SaveNextSettlement, SaveSettlement, Takes, Moves, Rests, store

\* Batches come from files, one kind at a time.
LEMMA BatchesStep ==
    ASSUME TypeOK, BatchesAreFiles, OneBatchEach, [Next]_vars
    PROVE  BatchesAreFiles' /\ OneBatchEach'
<1>1. ASSUME NEW p \in Procs, Takes(p) PROVE BatchesAreFiles' /\ OneBatchEach'
  BY <1>1 DEF Takes, Take, GoTo, BatchesAreFiles, OneBatchEach, TypeOK, SaveLabels
<1>2. ASSUME NEW p \in Procs, Moves(p) PROVE BatchesAreFiles' /\ OneBatchEach'
  BY <1>2 DEF Moves, GoTo, batches, BatchesAreFiles, OneBatchEach, TypeOK, MainLabels
<1>3. CASE UNCHANGED <<pc, txnBatch, stlBatch>>
  BY <1>3 DEF BatchesAreFiles, OneBatchEach
<1>4. CASE Exit
  BY <1>4 DEF Exit, BatchesAreFiles, OneBatchEach
<1> QED
  BY <1>1, <1>2, <1>3, <1>4, StepKinds
  DEF SaveNextTransaction, SaveNextSettlement, Rests, batches

\* Rows behind the counter stay stored: saves only add keys, and a goroutine
\* only passes a row by saving it.
LEMMA RowsBehindStep ==
    ASSUME TypeOK, RowsBehindAreStored, OneBatchEach, [Next]_vars
    PROVE  RowsBehindAreStored'
<1>1. ASSUME NEW p \in Procs, SaveNextTransaction(p) PROVE RowsBehindAreStored'
  <2> DEFINE row == txnBatch[p][next[p]]
  <2>1. /\ HasSchedule(row.Acquirer)
        /\ DOMAIN txns' = DOMAIN txns \cup {row.ID}
        /\ next' = [next EXCEPT ![p] = @ + 1]
        /\ UNCHANGED <<settlements, txnBatch, stlBatch>>
    BY <1>1, SaveTransactionSpec
  <2>2. pc[p] = "saveTransactions" /\ stlBatch[p] = <<>>
    BY <1>1 DEF SaveNextTransaction, MoreTransactions, OneBatchEach
  <2>3. next \in [Procs -> Nat \ {0}]
    BY DEF TypeOK
  <2> SUFFICES ASSUME NEW q \in Procs
               PROVE  /\ \A i \in DOMAIN txnBatch[q] : i < next'[q] =>
                            /\ txnBatch[q][i].ID \in DOMAIN txns'
                            /\ HasSchedule(txnBatch[q][i].Acquirer)
                      /\ \A i \in DOMAIN stlBatch[q] : i < next'[q] =>
                            Key(stlBatch[q][i]) \in DOMAIN settlements
    BY <2>1 DEF RowsBehindAreStored
  <2>4. CASE q # p
    BY <2>1, <2>3, <2>4 DEF RowsBehindAreStored
  <2>5. CASE q = p
    <3>1. next'[p] = next[p] + 1 /\ next[p] \in Nat
      BY <2>1, <2>3
    <3>2. ASSUME NEW i \in DOMAIN txnBatch[p], i < next'[p]
          PROVE  /\ txnBatch[p][i].ID \in DOMAIN txns'
                 /\ HasSchedule(txnBatch[p][i].Acquirer)
      <4>1. i \in Nat
        BY DEF TypeOK
      <4>2. CASE i < next[p]
        BY <2>1, <4>2 DEF RowsBehindAreStored
      <4>3. CASE i = next[p]
        BY <2>1, <4>3
      <4> QED BY <3>1, <3>2, <4>1, <4>2, <4>3
    <3> QED BY <2>2, <2>5, <3>2
  <2> QED BY <2>4, <2>5
<1>2. ASSUME NEW p \in Procs, SaveNextSettlement(p) PROVE RowsBehindAreStored'
  <2> DEFINE s == stlBatch[p][next[p]]
             k0 == Key(s)
  <2>1. /\ DOMAIN settlements' = DOMAIN settlements \cup {k0}
        /\ next' = [next EXCEPT ![p] = @ + 1]
        /\ UNCHANGED <<txns, txnBatch, stlBatch>>
    BY <1>2, SaveSettlementSpec
  <2>2. pc[p] = "saveSettlements" /\ txnBatch[p] = <<>>
    BY <1>2 DEF SaveNextSettlement, MoreSettlements, OneBatchEach
  <2>3. next \in [Procs -> Nat \ {0}]
    BY DEF TypeOK
  <2> SUFFICES ASSUME NEW q \in Procs
               PROVE  /\ \A i \in DOMAIN txnBatch[q] : i < next'[q] =>
                            /\ txnBatch[q][i].ID \in DOMAIN txns
                            /\ HasSchedule(txnBatch[q][i].Acquirer)
                      /\ \A i \in DOMAIN stlBatch[q] : i < next'[q] =>
                            Key(stlBatch[q][i]) \in DOMAIN settlements'
    BY <2>1 DEF RowsBehindAreStored
  <2>4. CASE q # p
    BY <2>1, <2>3, <2>4 DEF RowsBehindAreStored
  <2>5. CASE q = p
    <3>1. next'[p] = next[p] + 1 /\ next[p] \in Nat
      BY <2>1, <2>3
    <3>2. ASSUME NEW i \in DOMAIN stlBatch[p], i < next'[p]
          PROVE  Key(stlBatch[p][i]) \in DOMAIN settlements'
      <4>1. i \in Nat
        BY DEF TypeOK
      <4>2. CASE i < next[p]
        BY <2>1, <4>2 DEF RowsBehindAreStored
      <4>3. CASE i = next[p]
        BY <2>1, <4>3
      <4> QED BY <3>1, <3>2, <4>1, <4>2, <4>3
    <3> QED BY <2>2, <2>5, <3>2
  <2> QED BY <2>4, <2>5
<1>3. ASSUME NEW p \in Procs, Takes(p) PROVE RowsBehindAreStored'
  <2>1. PICK b \in TransactionBatches \cup {<<>>}, c \in SettlementBatches \cup {<<>>} :
           Take(p, b, c)
    BY <1>3 DEF Takes
  <2>2. b \in Seq(LoadedTransaction) /\ c \in Seq(Settlement)
    <3>1. <<>> \in Seq(LoadedTransaction) /\ <<>> \in Seq(Settlement)
      OBVIOUS
    <3> QED BY <3>1, TransactionBatchesSpec, SettlementBatchesSpec
  <2>3. UNCHANGED <<txns, settlements>>
    BY <1>3 DEF Takes, store
  <2>4. /\ txnBatch' = [txnBatch EXCEPT ![p] = b]
        /\ stlBatch' = [stlBatch EXCEPT ![p] = c]
        /\ next' = [next EXCEPT ![p] = 1]
    BY <2>1 DEF Take
  <2>5. /\ next \in [Procs -> Nat \ {0}]
        /\ txnBatch \in [Procs -> Seq(LoadedTransaction)]
        /\ stlBatch \in [Procs -> Seq(Settlement)]
    BY DEF TypeOK
  <2>6. ASSUME NEW q \in Procs, q # p
        PROVE  txnBatch'[q] = txnBatch[q] /\ stlBatch'[q] = stlBatch[q] /\ next'[q] = next[q]
    BY <2>4, <2>5, <2>6
  <2>7. txnBatch'[p] = b /\ stlBatch'[p] = c /\ next'[p] = 1
    BY <2>4, <2>5
  <2>8. /\ \A i \in DOMAIN b : ~(i < 1)
        /\ \A i \in DOMAIN c : ~(i < 1)
    BY <2>2
  <2> QED BY <2>3, <2>6, <2>7, <2>8 DEF RowsBehindAreStored
<1>4. CASE UNCHANGED <<txns, settlements, txnBatch, stlBatch, next>>
  BY <1>4 DEF RowsBehindAreStored
<1>5. CASE Exit
  BY <1>5 DEF Exit, RowsBehindAreStored
<1> QED
  BY <1>1, <1>2, <1>3, <1>4, <1>5, StepKinds DEF Moves, Rests, store, batches

\* Answers fit: a handler answers where it stops, and a new file withdraws
\* the answer.
LEMMA AnswersStep ==
    ASSUME TypeOK, AnswersFit, OneBatchEach, [Next]_vars
    PROVE  AnswersFit'
<1>0. \A h \in Handlers : h \in Procs
  BY DEF Procs
<1>1. ASSUME NEW p \in Procs, SaveNextTransaction(p) \/ SaveNextSettlement(p)
      PROVE  AnswersFit'
  <2>1. pc[p] # "idle" /\ next' = [next EXCEPT ![p] = @ + 1]
        /\ UNCHANGED <<pc, txnBatch, stlBatch, reply>>
    BY <1>1 DEF SaveNextTransaction, SaveNextSettlement, MoreTransactions,
                MoreSettlements, batches
  <2>2. ASSUME NEW h \in Handlers, h # p PROVE next'[h] = next[h]
    BY <1>0, <2>1, <2>2 DEF TypeOK
  <2>3. \A h \in Handlers : reply[h] # "none" => h # p
    BY <2>1 DEF AnswersFit, TypeOK
  <2> QED BY <2>1, <2>2, <2>3 DEF AnswersFit
<1>2. ASSUME NEW p \in Procs, Takes(p) PROVE AnswersFit'
  <2>1. PICK b \in TransactionBatches \cup {<<>>}, c \in SettlementBatches \cup {<<>>} :
          /\ Take(p, b, c)
          /\ \/ /\ b = <<>> /\ c = <<>>
                /\ p \in Handlers
                /\ Reply(p, "bad_request")
                /\ UNCHANGED pc
             \/ /\ \E l \in SaveLabels : GoTo(p, l)
                /\ \/ p = Main /\ UNCHANGED reply
                   \/ p \in Handlers /\ Reply(p, "none")
    BY <1>2 DEF Takes, SaveLabels
  <2>2. ASSUME NEW h \in Handlers, h # p
        PROVE  /\ txnBatch'[h] = txnBatch[h] /\ stlBatch'[h] = stlBatch[h]
               /\ next'[h] = next[h] /\ pc'[h] = pc[h] /\ reply'[h] = reply[h]
    BY <1>0, <2>1, <2>2 DEF Take, GoTo, Reply, TypeOK
  <2>3. CASE p = Main
    BY <2>2, <2>3, MainAssumption DEF AnswersFit
  <2>4. CASE p \in Handlers /\ reply' = [reply EXCEPT ![p] = "none"]
    BY <2>2, <2>4 DEF AnswersFit, TypeOK
  <2>5. CASE /\ b = <<>> /\ c = <<>> /\ p \in Handlers
             /\ Reply(p, "bad_request") /\ UNCHANGED pc
    <3>1. pc[p] = "idle"
      BY <1>2, <2>5 DEF Takes, TypeOK
    <3>2. /\ txnBatch'[p] = <<>> /\ stlBatch'[p] = <<>> /\ next'[p] = 1
          /\ reply'[p] = "bad_request" /\ pc'[p] = "idle"
      BY <1>0, <2>1, <2>5, <3>1 DEF Take, Reply, TypeOK
    <3> QED BY <2>2, <3>2 DEF AnswersFit
  <2> QED BY <2>1, <2>3, <2>4, <2>5 DEF Reply, Procs
<1>3. ASSUME NEW p \in Procs, Moves(p) PROVE AnswersFit'
  <2>1. /\ UNCHANGED <<txnBatch, stlBatch, next>>
        /\ \A h \in Handlers : h # p => pc'[h] = pc[h] /\ reply'[h] = reply[h]
    BY <1>0, <1>3 DEF Moves, GoTo, Reply, batches, TypeOK
  <2>2. CASE p \notin Handlers
    BY <2>1, <2>2 DEF AnswersFit
  <2>3. CASE p \in Handlers /\ AtEnd(p) /\ pc'[p] = "idle" /\ Reply(p, "ok")
    <3>1. reply'[p] = "ok"
      BY <2>3 DEF Reply, TypeOK
    <3>2. next[p] > Len(txnBatch[p]) /\ next[p] > Len(stlBatch[p])
      <4>1. CASE pc[p] = "saveTransactions" /\ next[p] > Len(txnBatch[p])
        <5>1. stlBatch[p] = <<>> /\ next[p] \in Nat \ {0}
          BY <4>1 DEF OneBatchEach, TypeOK
        <5> QED BY <4>1, <5>1
      <4>2. CASE pc[p] = "saveSettlements" /\ next[p] > Len(stlBatch[p])
        <5>1. txnBatch[p] = <<>> /\ next[p] \in Nat \ {0}
          BY <4>2 DEF OneBatchEach, TypeOK
        <5> QED BY <4>2, <5>1
      <4> QED BY <2>3, <4>1, <4>2 DEF AtEnd
    <3> QED BY <2>1, <2>3, <3>1, <3>2 DEF AnswersFit
  <2>4. CASE p \in Handlers /\ AtUnknownAcquirer(p) /\ pc'[p] = "idle"
             /\ Reply(p, "bad_request")
    <3>1. reply'[p] = "bad_request"
      BY <2>4 DEF Reply, TypeOK
    <3>2. /\ next[p] \in DOMAIN txnBatch[p]
          /\ ~HasSchedule(txnBatch[p][next[p]].Acquirer)
          /\ stlBatch[p] = <<>>
      BY <2>4 DEF AtUnknownAcquirer, MoreTransactions, OneBatchEach, TypeOK
    <3> QED BY <2>1, <2>4, <3>1, <3>2 DEF AnswersFit
  <2> QED BY <1>3, <2>2, <2>3, <2>4, MainAssumption DEF Moves
<1>4. CASE Rests
  BY <1>4 DEF Rests, batches, AnswersFit
<1>5. CASE Exit
  BY <1>5 DEF Exit, AnswersFit
<1> QED
  BY <1>1, <1>2, <1>3, <1>4, <1>5, StepKinds

\* A superseded settlement is still to be overwritten: the row that overtakes
\* it is ahead of the goroutine that has just saved it.
LEMMA SupersededSettlementsStep ==
    ASSUME TypeOK, SupersededSettlementsGo, BatchesAreFiles, [Next]_vars
    PROVE  SupersededSettlementsGo'
<1> DEFINE Awaited(k) ==
      \E p \in Procs : \E j \in DOMAIN stlBatch[p] :
         /\ pc[p] = "saveSettlements"
         /\ j >= next[p]
         /\ Key(stlBatch[p][j]) = k
<1>0. /\ next \in [Procs -> Nat \ {0}]
      /\ stlBatch \in [Procs -> Seq(Settlement)]
      /\ pc \in [Procs -> {"idle"} \cup MainLabels \cup SaveLabels]
  BY DEF TypeOK
<1>1. ASSUME NEW p \in Procs, SaveNextSettlement(p) PROVE SupersededSettlementsGo'
  <2> DEFINE b == stlBatch[p]
             n == next[p]
             k0 == Key(b[n])
  <2>1. /\ n \in DOMAIN b
        /\ DOMAIN settlements' = DOMAIN settlements \cup {k0}
        /\ settlements'[k0] = b[n]
        /\ \A k \in DOMAIN settlements : k # k0 => settlements'[k] = settlements[k]
        /\ next' = [next EXCEPT ![p] = @ + 1]
        /\ UNCHANGED <<pc, stlBatch>>
    BY <1>1, SaveSettlementSpec
  <2>2. pc[p] = "saveSettlements"
    BY <1>1 DEF SaveNextSettlement, MoreSettlements
  <2>3. b \in SettlementBatches
    BY <2>1 DEF BatchesAreFiles
  <2>4. \A j \in DOMAIN b : j \in Nat
    BY <1>0
  <2>5. next'[p] = n + 1 /\ n \in Nat /\ \A q \in Procs : q # p => next'[q] = next[q]
    BY <1>0, <2>1
  <2> SUFFICES ASSUME NEW k \in DOMAIN settlements'
               PROVE  IsFinalSettlement(settlements'[k]) \/ Awaited(k)'
    BY DEF SupersededSettlementsGo, IsFinalSettlement, SettlementBatches
  <2>6. CASE k = k0
    <3>1. CASE LastOfItsKey(b, n)
      BY <2>1, <2>3, <2>6, <3>1 DEF IsFinalSettlement
    <3>2. CASE ~LastOfItsKey(b, n)
      <4>1. PICK j \in DOMAIN b : j > n /\ Key(b[j]) = k0
        BY <3>2 DEF LastOfItsKey
      <4>2. j >= next'[p]
        BY <2>4, <2>5, <4>1
      <4> QED BY <2>1, <2>2, <2>6, <4>1, <4>2
    <3> QED BY <3>1, <3>2
  <2>7. CASE k # k0
    <3>1. k \in DOMAIN settlements /\ settlements'[k] = settlements[k]
      BY <2>1, <2>7
    <3>2. CASE IsFinalSettlement(settlements[k])
      BY <3>1, <3>2
    <3>3. CASE Awaited(k)
      <4>1. PICK q \in Procs : \E j \in DOMAIN stlBatch[q] :
               pc[q] = "saveSettlements" /\ j >= next[q] /\ Key(stlBatch[q][j]) = k
        BY <3>3
      <4>2. PICK j \in DOMAIN stlBatch[q] :
               pc[q] = "saveSettlements" /\ j >= next[q] /\ Key(stlBatch[q][j]) = k
        BY <4>1
      <4>3. j >= next'[q]
        <5>1. CASE q # p
          BY <2>5, <4>2, <5>1
        <5>2. CASE q = p
          <6>1. j # n
            BY <2>7, <4>2, <5>2
          <6> QED BY <2>4, <2>5, <4>2, <5>2, <6>1
        <5> QED BY <5>1, <5>2
      <4> QED BY <2>1, <4>2, <4>3
    <3> QED BY <3>1, <3>2, <3>3 DEF SupersededSettlementsGo
  <2> QED BY <2>6, <2>7
<1>2. ASSUME NEW p \in Procs, Takes(p) \/ Moves(p) PROVE SupersededSettlementsGo'
  <2>1. /\ UNCHANGED settlements
        /\ \A q \in Procs : q # p => /\ pc'[q] = pc[q] /\ next'[q] = next[q]
                                     /\ stlBatch'[q] = stlBatch[q]
    BY <1>0, <1>2 DEF Takes, Take, Moves, GoTo, store, batches
  <2>2. ASSUME NEW j \in DOMAIN stlBatch[p] PROVE ~(pc[p] = "saveSettlements" /\ j >= next[p])
    BY <1>0, <1>2 DEF Takes, Moves, AtEnd, AtUnknownAcquirer, MoreTransactions, SaveLabels
  <2>3. \A k : Awaited(k) => Awaited(k)'
    BY <2>1, <2>2
  <2> HIDE DEF Awaited
  <2>4. \A k \in DOMAIN settlements : IsFinalSettlement(settlements[k]) \/ Awaited(k)
    BY DEF SupersededSettlementsGo, Awaited
  <2> QED BY <2>1, <2>3, <2>4 DEF SupersededSettlementsGo, Awaited, IsFinalSettlement, SettlementBatches
<1>3. ASSUME NEW p \in Procs, SaveNextTransaction(p) PROVE SupersededSettlementsGo'
  <2>1. /\ UNCHANGED <<settlements, pc, stlBatch>>
        /\ pc[p] = "saveTransactions"
        /\ \A q \in Procs : q # p => next'[q] = next[q]
    BY <1>0, <1>3 DEF SaveNextTransaction, MoreTransactions, SaveTransaction, batches
  <2> QED BY <2>1 DEF SupersededSettlementsGo, IsFinalSettlement, SettlementBatches
<1>4. CASE Rests
  BY <1>4 DEF Rests, store, batches, SupersededSettlementsGo, IsFinalSettlement, SettlementBatches
<1>5. CASE Exit
  BY <1>5 DEF Exit, EmptyMap, SupersededSettlementsGo
<1> QED
  BY <1>1, <1>2, <1>3, <1>4, <1>5, StepKinds

\* The same for transactions; an upload that stops midway stops before every
\* row it does not reach.
LEMMA SupersededTransactionsStep ==
    ASSUME TypeOK, SupersededTransactionsGo, BatchesAreFiles, RowsBehindAreStored,
           [Next]_vars
    PROVE  SupersededTransactionsGo'
<1> DEFINE Awaited(id) ==
      \E p \in Procs : \E j \in DOMAIN txnBatch[p] :
         /\ pc[p] = "saveTransactions"
         /\ j >= next[p]
         /\ Reached(txnBatch[p], j)
         /\ txnBatch[p][j].ID = id
<1>0. /\ next \in [Procs -> Nat \ {0}]
      /\ txnBatch \in [Procs -> Seq(LoadedTransaction)]
      /\ pc \in [Procs -> {"idle"} \cup MainLabels \cup SaveLabels]
  BY DEF TypeOK
<1>1. ASSUME NEW p \in Procs, SaveNextTransaction(p) PROVE SupersededTransactionsGo'
  <2> DEFINE b == txnBatch[p]
             n == next[p]
             id0 == b[n].ID
  <2>1. /\ n \in DOMAIN b
        /\ HasSchedule(b[n].Acquirer)
        /\ DOMAIN txns' = DOMAIN txns \cup {id0}
        /\ txns'[id0] = WithExpectedDate(b[n])
        /\ \A id \in DOMAIN txns : id # id0 => txns'[id] = txns[id]
        /\ next' = [next EXCEPT ![p] = @ + 1]
        /\ UNCHANGED <<pc, txnBatch>>
    BY <1>1, SaveTransactionSpec
  <2>2. pc[p] = "saveTransactions"
    BY <1>1 DEF SaveNextTransaction, MoreTransactions
  <2>3. b \in TransactionBatches
    BY <2>1 DEF BatchesAreFiles
  <2>4. \A j \in DOMAIN b : j \in Nat
    BY <1>0
  <2>5. next'[p] = n + 1 /\ n \in Nat /\ \A q \in Procs : q # p => next'[q] = next[q]
    BY <1>0, <2>1
  <2>6. Reached(b, n)
    <3> SUFFICES ASSUME NEW j \in 1 .. n PROVE HasSchedule(b[j].Acquirer)
      BY DEF Reached
    <3>1. j \in DOMAIN b
      BY <1>0, <2>1
    <3>2. CASE j < n
      BY <3>1, <3>2 DEF RowsBehindAreStored
    <3>3. CASE j = n
      BY <2>1, <3>3
    <3> QED BY <2>5, <3>2, <3>3
  <2> SUFFICES ASSUME NEW id \in DOMAIN txns'
               PROVE  IsFinalTransaction(txns'[id]) \/ Awaited(id)'
    BY DEF SupersededTransactionsGo, IsFinalTransaction, TransactionBatches
  <2>7. CASE id = id0
    <3>1. CASE LastReachedOfItsID(b, n)
      BY <2>1, <2>3, <2>7, <3>1 DEF IsFinalTransaction
    <3>2. CASE ~LastReachedOfItsID(b, n)
      <4>1. PICK j \in DOMAIN b : j > n /\ Reached(b, j) /\ b[j].ID = id0
        BY <2>6, <3>2 DEF LastReachedOfItsID
      <4>2. j >= next'[p]
        BY <2>4, <2>5, <4>1
      <4> QED BY <2>1, <2>2, <2>7, <4>1, <4>2
    <3> QED BY <3>1, <3>2
  <2>8. CASE id # id0
    <3>1. id \in DOMAIN txns /\ txns'[id] = txns[id]
      BY <2>1, <2>8
    <3>2. CASE IsFinalTransaction(txns[id])
      BY <3>1, <3>2
    <3>3. CASE Awaited(id)
      <4>1. PICK q \in Procs : \E j \in DOMAIN txnBatch[q] :
               /\ pc[q] = "saveTransactions" /\ j >= next[q]
               /\ Reached(txnBatch[q], j) /\ txnBatch[q][j].ID = id
        BY <3>3
      <4>2. PICK j \in DOMAIN txnBatch[q] :
               /\ pc[q] = "saveTransactions" /\ j >= next[q]
               /\ Reached(txnBatch[q], j) /\ txnBatch[q][j].ID = id
        BY <4>1
      <4>3. j >= next'[q]
        <5>1. CASE q # p
          BY <2>5, <4>2, <5>1
        <5>2. CASE q = p
          <6>1. j # n
            BY <2>8, <4>2, <5>2
          <6> QED BY <2>4, <2>5, <4>2, <5>2, <6>1
        <5> QED BY <5>1, <5>2
      <4> QED BY <2>1, <4>2, <4>3
    <3> QED BY <3>1, <3>2, <3>3 DEF SupersededTransactionsGo
  <2> QED BY <2>7, <2>8
<1>2. ASSUME NEW p \in Procs, Takes(p) \/ Moves(p) PROVE SupersededTransactionsGo'
  <2>1. /\ UNCHANGED txns
        /\ \A q \in Procs : q # p => /\ pc'[q] = pc[q] /\ next'[q] = next[q]
                                     /\ txnBatch'[q] = txnBatch[q]
    BY <1>0, <1>2 DEF Takes, Take, Moves, GoTo, store, batches
  <2>2. ASSUME NEW j \in DOMAIN txnBatch[p]
        PROVE  ~(pc[p] = "saveTransactions" /\ j >= next[p] /\ Reached(txnBatch[p], j))
    <3> SUFFICES ASSUME pc[p] = "saveTransactions", j >= next[p], Reached(txnBatch[p], j)
                 PROVE  FALSE
      OBVIOUS
    <3>1. j \in 1 .. Len(txnBatch[p]) /\ next[p] \in 1 .. j
      BY <1>0
    <3>2. HasSchedule(txnBatch[p][next[p]].Acquirer)
      BY <3>1 DEF Reached
    <3>3. AtEnd(p) \/ AtUnknownAcquirer(p)
      BY <1>2 DEF Takes, Moves, SaveLabels
    <3> QED BY <3>1, <3>2, <3>3 DEF AtEnd, AtUnknownAcquirer
  <2>3. \A id : Awaited(id) => Awaited(id)'
    BY <2>1, <2>2
  <2> HIDE DEF Awaited
  <2>4. \A id \in DOMAIN txns : IsFinalTransaction(txns[id]) \/ Awaited(id)
    BY DEF SupersededTransactionsGo, Awaited
  <2> QED BY <2>1, <2>3, <2>4
          DEF SupersededTransactionsGo, Awaited, IsFinalTransaction, TransactionBatches
<1>3. ASSUME NEW p \in Procs, SaveNextSettlement(p) PROVE SupersededTransactionsGo'
  <2>1. /\ UNCHANGED <<txns, pc, txnBatch>>
        /\ pc[p] = "saveSettlements"
        /\ \A q \in Procs : q # p => next'[q] = next[q]
    BY <1>0, <1>3 DEF SaveNextSettlement, MoreSettlements, SaveSettlement, batches
  <2> QED BY <2>1 DEF SupersededTransactionsGo, IsFinalTransaction, TransactionBatches
<1>4. CASE Rests
  BY <1>4 DEF Rests, store, batches, SupersededTransactionsGo, IsFinalTransaction, TransactionBatches
<1>5. CASE Exit
  BY <1>5 DEF Exit, EmptyMap, SupersededTransactionsGo
<1> QED
  BY <1>1, <1>2, <1>3, <1>4, <1>5, StepKinds

-----------------------------------------------------------------------------
(***************************************************************************)
(* The invariant, and what follows from it.                                *)
(***************************************************************************)
\* The invariant holds before the process first starts.
LEMMA InvariantInit == Init => IInv
<1> SUFFICES ASSUME Init PROVE IInv
  OBVIOUS
<1>1. TypeOK
  BY TypeInit
<1>2. DOMAIN txns = {} /\ DOMAIN settlements = {}
  BY DEF Init, EmptyMap
<1>3. PayoutDaysAreReal /\ SupersededSettlementsGo /\ SupersededTransactionsGo
  BY <1>2 DEF PayoutDaysAreReal, SupersededSettlementsGo, SupersededTransactionsGo
<1>4. BatchesAreFiles /\ RowsBehindAreStored /\ OneBatchEach
  BY DEF Init, BatchesAreFiles, RowsBehindAreStored, OneBatchEach
<1>5. AnswersFit
  BY DEF Init, AnswersFit
<1> QED BY <1>1, <1>3, <1>4, <1>5 DEF IInv

\* Every step keeps the invariant.
LEMMA InvariantStep == IInv /\ [Next]_vars => IInv'
<1> SUFFICES ASSUME IInv, [Next]_vars PROVE IInv'
  OBVIOUS
<1>1. TypeOK'
  BY TypeStep DEF IInv
<1>2. PayoutDaysAreReal'
  BY DaysStep DEF IInv
<1>3. BatchesAreFiles' /\ OneBatchEach' /\ RowsBehindAreStored' /\ AnswersFit'
  BY BatchesStep, RowsBehindStep, AnswersStep DEF IInv
<1>4. SupersededSettlementsGo' /\ SupersededTransactionsGo'
  BY SupersededSettlementsStep, SupersededTransactionsStep DEF IInv
<1> QED BY <1>1, <1>2, <1>3, <1>4 DEF IInv

\* IInv is an invariant of the specification.
THEOREM InvariantHolds == Spec => []IInv
BY InvariantInit, InvariantStep, PTL DEF Spec

\* No stored transaction waits for money on a day its acquirer does not pay.
THEOREM PayoutDaysCorrect == Spec => []PayoutDaysAreReal
<1>1. IInv => PayoutDaysAreReal
  BY DEF IInv
<1> QED BY <1>1, InvariantHolds, PTL

\* An upload answered with 200 is in the store, row by row, however other
\* uploads interleave with it.
THEOREM AnswersKept == Spec => []OkMeansStored
<1>1. IInv => OkMeansStored
  <2> SUFFICES ASSUME IInv, NEW h \in Handlers, reply[h] = "ok"
               PROVE  /\ \A i \in DOMAIN txnBatch[h] : txnBatch[h][i].ID \in DOMAIN txns
                      /\ \A i \in DOMAIN stlBatch[h] :
                            Key(stlBatch[h][i]) \in DOMAIN settlements
    BY DEF OkMeansStored
  <2>1. h \in Procs /\ next[h] \in Nat /\ txnBatch[h] \in Seq(LoadedTransaction)
        /\ stlBatch[h] \in Seq(Settlement)
    BY DEF Procs, IInv, TypeOK
  <2>2. next[h] > Len(txnBatch[h]) /\ next[h] > Len(stlBatch[h])
    BY DEF IInv, AnswersFit
  <2>3. /\ \A i \in DOMAIN txnBatch[h] : i < next[h]
        /\ \A i \in DOMAIN stlBatch[h] : i < next[h]
    BY <2>1, <2>2
  <2> QED BY <2>1, <2>3 DEF IInv, RowsBehindAreStored
<1> QED BY <1>1, InvariantHolds, PTL

\* A refused transaction upload has kept exactly the rows before the one that
\* names an acquirer without a schedule.
THEOREM RefusalsExact == Spec => []RefusedMidwayKeepsPrefix
<1>1. IInv => RefusedMidwayKeepsPrefix
  <2> SUFFICES ASSUME IInv, NEW h \in Handlers, reply[h] = "bad_request"
               PROVE  /\ \A i \in 1 .. next[h]-1 : txnBatch[h][i].ID \in DOMAIN txns
                      /\ txnBatch[h] # <<>> => ~HasSchedule(txnBatch[h][next[h]].Acquirer)
    BY DEF RefusedMidwayKeepsPrefix
  <2>1. h \in Procs /\ txnBatch[h] \in Seq(LoadedTransaction)
    BY DEF Procs, IInv, TypeOK
  <2>2. \/ txnBatch[h] = <<>> /\ next[h] = 1
        \/ /\ next[h] \in DOMAIN txnBatch[h]
           /\ ~HasSchedule(txnBatch[h][next[h]].Acquirer)
    BY DEF IInv, AnswersFit
  <2>3. \A i \in 1 .. next[h]-1 : i \in DOMAIN txnBatch[h] /\ i < next[h]
    BY <2>1, <2>2
  <2> QED BY <2>1, <2>2, <2>3 DEF IInv, RowsBehindAreStored
<1> QED BY <1>1, InvariantHolds, PTL

\* Once no settlement upload runs, no stored settlement is one its own file
\* supersedes.
THEOREM SettlementsConverge == Spec => []LastSettlementRowWins
<1>1. IInv => LastSettlementRowWins
  BY DEF IInv, LastSettlementRowWins, SupersededSettlementsGo
<1> QED BY <1>1, InvariantHolds, PTL

\* Once no transaction upload runs, no stored transaction is one its own file
\* supersedes.
THEOREM TransactionsConverge == Spec => []LastTransactionRowWins
<1>1. IInv => LastTransactionRowWins
  BY DEF IInv, LastTransactionRowWins, SupersededTransactionsGo
<1> QED BY <1>1, InvariantHolds, PTL

-----------------------------------------------------------------------------
(***************************************************************************)
(* The store implements the lifecycle of its transactions.                 *)
(***************************************************************************)
\* The empty store is the empty ledger.
LEMMA LifecycleInit == Init => Lifecycle!Init
BY DEF Init, EmptyMap, Ledger, Lifecycle!Init, Lifecycle!Empty

\* Every step of the service is a step of the lifecycle, or leaves it alone.
LEMMA LifecycleStep == TypeOK /\ [Next]_vars => [Lifecycle!Next]_Ledger
<1> SUFFICES ASSUME TypeOK, [Next]_vars PROVE [Lifecycle!Next]_Ledger
  OBVIOUS
<1>0. txns \in [DOMAIN txns -> Transaction]
  BY DEF TypeOK
<1>1. ASSUME NEW p \in Procs, SaveNextTransaction(p) PROVE [Lifecycle!Next]_Ledger
  <2> DEFINE row == txnBatch[p][next[p]]
             t == WithExpectedDate(row)
             id0 == row.ID
             e0 == [acquirer |-> t.Acquirer, settled |-> Settled(t)]
  <2>1. /\ row \in LoadedTransaction /\ HasSchedule(row.Acquirer)
        /\ DOMAIN txns' = DOMAIN txns \cup {id0}
        /\ txns'[id0] = t
        /\ \A id \in DOMAIN txns : id # id0 => txns'[id] = txns[id]
        /\ settlements' = settlements
    BY <1>1, SaveTransactionSpec
  <2>2. id0 \in TxnIds /\ e0 \in Lifecycle!Entry /\ t.ID = id0
    <3>1. t \in Transaction /\ t.ID = id0
      BY <2>1, ExpectedDateSpec
    <3> HIDE DEF t
    <3> QED BY <2>1, <3>1 DEF Transaction, LoadedTransaction, Lifecycle!Entry, Settled
  <2> HIDE DEF id0, t, row
  <2>3. Ledger' = [id \in DOMAIN Ledger \cup {id0} |-> IF id = id0 THEN e0 ELSE Ledger[id]]
    BY <2>1 DEF Ledger, Settled
  <2> HIDE DEF e0
  <2>4. Lifecycle!Put(id0, e0)
    BY <2>3 DEF Lifecycle!Put
  <2>5. CASE id0 \notin DOMAIN Ledger
    BY <2>2, <2>4, <2>5 DEF Lifecycle!Next, Lifecycle!Enter
  <2>6. CASE id0 \in DOMAIN Ledger /\ e0.acquirer # Ledger[id0].acquirer
    BY <2>2, <2>4, <2>6 DEF Lifecycle!Next, Lifecycle!Reroute
  <2>7. CASE id0 \in DOMAIN Ledger /\ e0.acquirer = Ledger[id0].acquirer
    <3>1. id0 \in DOMAIN txns /\ txns[id0].Acquirer = t.Acquirer /\ txns[id0].ID = id0
      BY <2>7 DEF Ledger, e0, TypeOK
    <3>2. Ledger[id0] = e0
      BY <2>2, <3>1 DEF Ledger, Settled, e0
    <3> QED BY <2>3, <2>7, <3>2 DEF Ledger
  <2> QED BY <2>5, <2>6, <2>7
<1>2. ASSUME NEW p \in Procs, SaveNextSettlement(p) PROVE [Lifecycle!Next]_Ledger
  <2> DEFINE s == stlBatch[p][next[p]]
             id0 == s.TransactionID
             e0 == [acquirer |-> Ledger[id0].acquirer, settled |-> TRUE]
  <2>1. /\ s \in Settlement
        /\ DOMAIN settlements' = DOMAIN settlements \cup {<<id0, s.Acquirer>>}
        /\ txns' = txns
    BY <1>2, SaveSettlementSpec DEF Key
  <2>2. id0 \in TxnIds
    BY <2>1 DEF Settlement
  <2> DEFINE a0 == s.Acquirer
  <2> HIDE DEF s, id0, a0, e0
  <2>a. ASSUME NEW id \in DOMAIN txns
        PROVE  Settled(txns[id])' <=> \/ Settled(txns[id])
                                      \/ id = id0 /\ txns[id].Acquirer = a0
    <3>1. txns[id].ID = id
      BY DEF TypeOK
    <3>2. DOMAIN settlements' = DOMAIN settlements \cup {<<id0, a0>>} /\ txns' = txns
      BY <2>1 DEF a0
    <3> QED BY <3>1, <3>2 DEF Settled
  <2>3. CASE /\ id0 \in DOMAIN txns
             /\ txns[id0].Acquirer = a0
             /\ ~Settled(txns[id0])
    <3>1. id0 \in DOMAIN Ledger /\ ~Ledger[id0].settled
      BY <2>3 DEF Ledger
    <3>2. Ledger' = [id \in DOMAIN Ledger \cup {id0} |-> IF id = id0 THEN e0 ELSE Ledger[id]]
      <4>1. ASSUME NEW id \in DOMAIN txns, id = id0
            PROVE  Settled(txns[id])' = TRUE
        BY <2>3, <2>a, <4>1 DEF Settled
      <4>2. ASSUME NEW id \in DOMAIN txns, id # id0
            PROVE  Settled(txns[id])' = Settled(txns[id])
        BY <2>a, <4>2 DEF Settled
      <4>3. /\ DOMAIN Ledger' = DOMAIN Ledger \cup {id0}
            /\ \A id \in DOMAIN Ledger : id = id0 => Ledger'[id] = e0
        BY <2>1, <2>3, <4>1 DEF Ledger, e0
      <4>4. \A id \in DOMAIN Ledger : id # id0 => Ledger'[id] = Ledger[id]
        BY <2>1, <4>2 DEF Ledger
      <4>5. Ledger' = [id \in DOMAIN Ledger' |-> Ledger'[id]]
        BY DEF Ledger
      <4> QED BY <3>1, <4>3, <4>4, <4>5
    <3> QED BY <2>2, <3>1, <3>2 DEF Lifecycle!Next, Lifecycle!Settle, Lifecycle!Put, e0
  <2>4. CASE ~(/\ id0 \in DOMAIN txns
               /\ txns[id0].Acquirer = a0
               /\ ~Settled(txns[id0]))
    <3>1. ASSUME NEW id \in DOMAIN txns
          PROVE  Settled(txns[id])' = Settled(txns[id])
      BY <2>4, <2>a DEF Settled
    <3> QED BY <2>1, <3>1 DEF Ledger
  <2> QED BY <2>3, <2>4
<1>3. CASE UNCHANGED store
  BY <1>3 DEF store, Ledger, Settled
<1>4. CASE Exit
  BY <1>4 DEF Exit, EmptyMap, Ledger, Lifecycle!Next, Lifecycle!Lose, Lifecycle!Empty
<1> QED BY <1>1, <1>2, <1>3, <1>4, StepKinds DEF Takes, Moves, Rests

\* The store, seen as a ledger of settled and unsettled transactions,
\* implements the lifecycle specification.
THEOREM LifecycleImplemented == Spec => LifecycleSpec
<1>1. Spec => []TypeOK
  BY TypeCorrect
<1> QED
  BY <1>1, LifecycleInit, LifecycleStep, PTL DEF Spec, LifecycleSpec, Lifecycle!Spec
=============================================================================
