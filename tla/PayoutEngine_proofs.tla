------------------------ MODULE PayoutEngine_proofs ------------------------
(***************************************************************************)
(* Proofs about the queries, for any number of goroutines, files, queries  *)
(* and days.                                                               *)
(***************************************************************************)
EXTENDS PayoutEngine, Ingestion_proofs, Ledger_proofs

-----------------------------------------------------------------------------
(***************************************************************************)
(* Lists of the store.                                                     *)
(***************************************************************************)
\* The list of transactions is the map, without its keys.
LEMMA ListedTransactions ==
    ASSUME TypeOK
    PROVE  /\ ListTransactions \subseteq Transaction
           /\ \A t \in ListTransactions : t.ID \in DOMAIN txns /\ txns[t.ID] = t
           /\ \A id \in DOMAIN txns : txns[id] \in ListTransactions
           /\ DOMAIN txns \subseteq TxnIds
BY DEF TypeOK, ListTransactions, Transaction

\* The list of settlements has every key of the map and no other.
LEMMA ListedSettlements ==
    ASSUME TypeOK, IsFiniteSet(DOMAIN settlements)
    PROVE  /\ ListSettlements \in Seq(Settlement)
           /\ \A i \in DOMAIN ListSettlements : Key(ListSettlements[i]) \in DOMAIN settlements
           /\ \A k \in DOMAIN settlements :
                 \E i \in DOMAIN ListSettlements : Key(ListSettlements[i]) = k
<1> DEFINE S == {settlements[k] : k \in DOMAIN settlements}
<1>1. /\ S \subseteq Settlement
      /\ \A s \in S : Key(s) \in DOMAIN settlements
      /\ \A k \in DOMAIN settlements : settlements[k] \in S /\ Key(settlements[k]) = k
  BY DEF TypeOK
<1>2. settlements \in Surjection(DOMAIN settlements, S)
  BY DEF Surjection, TypeOK
<1>3. IsFiniteSet(S)
  BY <1>2, FS_Surjection
<1> DEFINE rows == SeqExt!SetToSeq(S)
<1>4. ListSettlements = rows
  BY DEF ListSettlements
<1>5. rows \in Seq(S) /\ \A x \in S : \E i \in DOMAIN rows : rows[i] = x
  BY <1>3, Listing
<1> HIDE DEF rows, S
<1>6. rows \in Seq(Settlement) BY <1>1, <1>5
<1>7. \A i \in DOMAIN rows : rows[i] \in S BY <1>5
<1>q. QED BY <1>1, <1>4, <1>5, <1>6, <1>7

\* A row matches a transaction when it has its key.
LEMMA MatchIsKey ==
    ASSUME NEW t, NEW s
    PROVE  Matches(t, s) <=> Key(s) = <<t.ID, t.Acquirer>>
BY DEF Matches, SameTxn, Key

\* Every listed settlement is stored.
LEMMA ListedAreStored ==
    ASSUME IsFiniteSet(DOMAIN settlements), NEW i \in DOMAIN ListSettlements
    PROVE  \E k \in DOMAIN settlements : ListSettlements[i] = settlements[k]
<1> DEFINE S == {settlements[k] : k \in DOMAIN settlements}
<1>1. IsFiniteSet(S)
  <2> DEFINE f == [k \in DOMAIN settlements |-> settlements[k]]
  <2>1. f \in Surjection(DOMAIN settlements, S)
    BY DEF Surjection
  <2> HIDE DEF f, S
  <2>q. QED BY <2>1, FS_Surjection
<1>2. SeqExt!SetToSeq(S) \in Seq(S)
  BY <1>1, Listing
<1>3. ListSettlements \in Seq(S)
  BY <1>2 DEF ListSettlements
<1> HIDE DEF S
<1>4. ListSettlements[i] \in S
  BY <1>3
<1>q. QED BY <1>4 DEF S

\* Against the list of settlements, a transaction has a row when it is settled,
\* and the row is the one stored.
LEMMA ListedMeansSettled ==
    ASSUME TypeOK, IsFiniteSet(DOMAIN settlements), NEW t
    PROVE  /\ UsedRow(t, ListSettlements) # NoRow <=> Settled(t)
           /\ RowOf(t, ListSettlements) = Received(t)
<1> DEFINE rows == ListSettlements
<1>1. rows \in Seq(Settlement) BY ListedSettlements
<1>2. UsedRow(t, rows) # NoRow <=> \E i \in DOMAIN rows : Key(rows[i]) = <<t.ID, t.Acquirer>>
  BY <1>1, UsedRowSpec, MatchIsKey
<1>3. UsedRow(t, rows) # NoRow <=> Settled(t)
  BY <1>2, ListedSettlements DEF Settled
<1>4. ASSUME UsedRow(t, rows) # NoRow
      PROVE  rows[UsedRow(t, rows)] = settlements[<<t.ID, t.Acquirer>>]
  <2> DEFINE i == UsedRow(t, rows)
  <2>1. i \in DOMAIN rows /\ Key(rows[i]) = <<t.ID, t.Acquirer>>
    BY <1>1, <1>4, UsedRowSpec, MatchIsKey
  <2> HIDE DEF i
  <2>2. PICK k \in DOMAIN settlements : rows[i] = settlements[k]
    BY <2>1, ListedAreStored
  <2>3. Key(rows[i]) = k
    BY <2>2 DEF TypeOK
  <2>q. QED BY <2>1, <2>2, <2>3 DEF i
<1>q. QED BY <1>3, <1>4 DEF RowOf, Received

-----------------------------------------------------------------------------
(***************************************************************************)
(* Steps of uploads, of the fixture load and of the process.               *)
(***************************************************************************)
\* Unless the process ends, no settlement is withdrawn.
LEMMA LedgerGrows ==
    ASSUME TypeOK, IsFiniteSet(DOMAIN settlements), [Next]_vars
    PROVE  /\ IsFiniteSet(DOMAIN settlements')
           /\ pc'[Main] # "down" => DOMAIN settlements \subseteq DOMAIN settlements'
<1>1. ASSUME NEW p \in Procs, SaveNextSettlement(p)
      PROVE  /\ IsFiniteSet(DOMAIN settlements')
             /\ DOMAIN settlements \subseteq DOMAIN settlements'
  <2>1. PICK k : DOMAIN settlements' = DOMAIN settlements \cup {k}
    BY <1>1, SaveSettlementSpec
  <2>q. QED BY <2>1, FS_AddElement
<1>2. CASE Exit
  <2>1. DOMAIN settlements' = {} BY <1>2 DEF Exit, EmptyMap
  <2>2. pc'[Main] = "down" BY <1>2 DEF Exit, Procs
  <2>q. QED BY <2>1, <2>2, FS_EmptySet
<1>3. CASE UNCHANGED settlements BY <1>3
<1>q. QED
  BY <1>1, <1>2, <1>3, StepKinds
  DEF SaveNextTransaction, SaveTransaction, Takes, Moves, Rests, store

\* A view that stays the same is of the same record with the same settlement.
LEMMA SameView ==
    ASSUME NEW id, View(id)' = View(id)
    PROVE  /\ id \in DOMAIN txns' <=> id \in DOMAIN txns
           /\ id \in DOMAIN txns => /\ txns'[id] = txns[id]
                                    /\ Received(txns[id])' = Received(txns[id])
<1>1. CASE id \in DOMAIN txns /\ id \in DOMAIN txns'
  <2>1. /\ txns'[id] = txns[id]
        /\ Received(txns[id])' = Received(txns[id])
    BY <1>1 DEF View
  <2>q. QED BY <1>1, <2>1
<1>2. CASE id \in DOMAIN txns /\ id \notin DOMAIN txns'
  BY <1>2 DEF View
<1>3. CASE id \notin DOMAIN txns /\ id \in DOMAIN txns'
  BY <1>3 DEF View
<1>4. CASE id \notin DOMAIN txns /\ id \notin DOMAIN txns'
  BY <1>4
<1>q. QED BY <1>1, <1>2, <1>3, <1>4

\* The queries of a process that ends are gone, and so are their snapshots.
LEMMA DroppedQueries ==
    ASSUME DropQueries, NEW r \in Readers
    PROVE  ReaderInv(r)'
<1>1. /\ reading'[r] = "idle" /\ snapTxns'[r] = {} /\ snapRows'[r] = <<>>
  BY DEF DropQueries
<1>q. QED
  BY <1>1 DEF ReaderInv, SnapshotsInTime, OpenIsKnown, OpenOrSettled, MissingWasOpen,
              RowsAreStored, PaidWithinDays, UntouchedStands, UntouchedSettled

\* A query that runs while the ledger changes keeps its invariant.
LEMMA WatchedQueries ==
    ASSUME EngineTypeOK, NEW r \in Readers, ReaderInv(r), Watch,
           DOMAIN settlements \subseteq DOMAIN settlements', TypeOK'
    PROVE  ReaderInv(r)'
<1>1. /\ query' = query /\ reading' = reading
      /\ snapTxns' = snapTxns /\ snapRows' = snapRows
  BY DEF Watch, queryVars
<1>2. CASE reading[r] = "idle"
  <2>1. snapTxns[r] = {} /\ snapRows[r] = <<>>
    BY <1>2 DEF ReaderInv, SnapshotsInTime
  <2>q. QED
    BY <1>1, <1>2, <2>1
    DEF ReaderInv, SnapshotsInTime, OpenIsKnown, OpenOrSettled, MissingWasOpen,
        RowsAreStored, PaidWithinDays, UntouchedStands, UntouchedSettled
<1>3. CASE reading[r] # "idle"
  <2>1. /\ touched[r] \subseteq touched'[r]
        /\ \A id \in TxnIds : View(id)' # View(id) => id \in touched'[r]
        /\ unsettled'[r] = unsettled[r] \cup UnsettledNow'
    BY <1>3 DEF Watch
  <2>2. \A t : Settled(t) => Settled(t)'
    BY DEF Settled
  <2>3. SnapshotsInTime(r)'
    BY <1>1 DEF ReaderInv, SnapshotsInTime, Reconciles
  <2>4. OpenIsKnown(r)'
    BY <2>1 DEF OpenIsKnown
  <2>5. OpenOrSettled(r)'
    BY <1>1, <2>1, <2>2 DEF ReaderInv, OpenOrSettled
  <2>6. MissingWasOpen(r)'
    BY <1>1, <2>1 DEF ReaderInv, MissingWasOpen
  <2>7. RowsAreStored(r)'
    BY <1>1 DEF ReaderInv, RowsAreStored
  <2>8. PaidWithinDays(r)'
    BY <1>1 DEF ReaderInv, PaidWithinDays
  <2>9. \A id \in TxnIds : id \notin touched'[r] =>
           /\ id \notin touched[r]
           /\ id \in DOMAIN txns' <=> id \in DOMAIN txns
           /\ id \in DOMAIN txns => /\ txns'[id] = txns[id]
                                    /\ Received(txns[id])' = Received(txns[id])
    BY <2>1, SameView
  <2>10. DOMAIN txns' \subseteq TxnIds
    BY DEF TypeOK, Transaction
  <2>11. \A t \in snapTxns[r] : t.ID \in TxnIds
    BY DEF EngineTypeOK, Transaction
  <2>12. UntouchedStands(r)'
    <3> SUFFICES ASSUME reading[r] \in {"settlements", "answer"}, Reconciles(r)
                 PROVE  /\ \A id \in DOMAIN txns' \ touched'[r] : txns'[id] \in snapTxns[r]
                        /\ \A t \in snapTxns[r] : t.ID \notin touched'[r] =>
                              t.ID \in DOMAIN txns' /\ txns'[t.ID] = t
      BY <1>1 DEF UntouchedStands, Reconciles
    <3>1. UntouchedStands(r) BY DEF ReaderInv
    <3>2. \A id \in DOMAIN txns' \ touched'[r] : txns'[id] \in snapTxns[r]
      BY <2>9, <2>10, <3>1 DEF UntouchedStands
    <3>3. \A t \in snapTxns[r] : t.ID \notin touched'[r] =>
              t.ID \in DOMAIN txns' /\ txns'[t.ID] = t
      BY <2>9, <2>11, <3>1 DEF UntouchedStands
    <3>q. QED BY <3>2, <3>3
  <2>13. UntouchedSettled(r)'
    <3> SUFFICES ASSUME reading[r] = "answer", NEW t \in snapTxns[r],
                        t.ID \notin touched'[r]
                 PROVE  RowOf(t, snapRows[r]) = Received(t)'
      BY <1>1 DEF UntouchedSettled
    <3>1. UntouchedStands(r) /\ UntouchedSettled(r) /\ SnapshotsInTime(r) BY DEF ReaderInv
    <3>2. Reconciles(r) BY <3>1 DEF SnapshotsInTime
    <3>3. t.ID \in TxnIds /\ t.ID \notin touched[r] BY <2>9, <2>11
    <3>4. t.ID \in DOMAIN txns /\ txns[t.ID] = t BY <3>1, <3>2, <3>3 DEF UntouchedStands
    <3>5. Received(t)' = Received(t)
      <4>1. txns'[t.ID] = txns[t.ID] /\ Received(txns[t.ID])' = Received(txns[t.ID])
        BY <2>9, <3>3, <3>4
      <4>2. Received(txns[t.ID])' = Received(t)'
        BY <3>4, <4>1 DEF Received, Settled
      <4>q. QED BY <3>4, <4>1, <4>2
    <3>q. QED BY <3>1, <3>3, <3>5 DEF UntouchedSettled
  <2>q. QED BY <2>3, <2>4, <2>5, <2>6, <2>7, <2>8, <2>12, <2>13 DEF ReaderInv
<1>q. QED BY <1>2, <1>3

\* The types survive a step of the ledger.
LEMMA IngestionTypes ==
    ASSUME EngineTypeOK, IngestionStep, TypeOK'
    PROVE  EngineTypeOK'
<1>0. today' = today BY DEF IngestionStep
<1>1. CASE Watch
  <2>1. UnsettledNow' \subseteq Transaction
    BY DEF UnsettledNow, TypeOK
  <2>2. touched' \in [Readers -> SUBSET TxnIds]
    BY <1>1 DEF Watch, EngineTypeOK
  <2>3. unsettled' \in [Readers -> SUBSET Transaction]
    BY <1>1, <2>1 DEF Watch, EngineTypeOK
  <2>q. QED BY <1>0, <1>1, <2>2, <2>3 DEF Watch, queryVars, EngineTypeOK
<1>2. CASE DropQueries
  <2>1. NoQuery \in [kind: Kinds \cup {"none"}, days: Int, asOf: Int]
    BY ClockAssumption DEF NoQuery
  <2>2. <<>> \in Seq(Settlement) OBVIOUS
  <2>q. QED BY <1>0, <1>2, <2>1, <2>2 DEF DropQueries, EngineTypeOK
<1>q. QED BY <1>1, <1>2 DEF IngestionStep

LEMMA IngestionKeeps ==
    ASSUME EngineInv, IngestionStep
    PROVE  EngineInv'
<1>0. TypeOK BY DEF EngineInv, IInv
<1>1. IInv' BY InvariantStep DEF EngineInv, IngestionStep
<1>2. TypeOK' BY <1>1 DEF IInv
<1>3. /\ IsFiniteSet(DOMAIN settlements')
      /\ pc'[Main] # "down" => DOMAIN settlements \subseteq DOMAIN settlements'
  BY <1>0, LedgerGrows DEF EngineInv, IngestionStep
<1>4. EngineTypeOK' BY <1>2, IngestionTypes DEF EngineInv
<1>5. ASSUME NEW r \in Readers PROVE ReaderInv(r)'
  <2>1. CASE pc'[Main] # "down" /\ Watch
    BY <1>2, <1>3, <2>1, WatchedQueries DEF EngineInv
  <2>2. CASE DropQueries BY <2>2, DroppedQueries
  <2>q. QED BY <2>1, <2>2 DEF IngestionStep
<1>q. QED BY <1>1, <1>3, <1>4, <1>5 DEF EngineInv

-----------------------------------------------------------------------------
(***************************************************************************)
(* Steps of the queries.                                                   *)
(***************************************************************************)
\* While the ledger and its own query stay, a reader's invariant does.
LEMMA UndisturbedQueries ==
    ASSUME NEW q \in Readers, ReaderInv(q), txns' = txns, settlements' = settlements,
           query'[q] = query[q], reading'[q] = reading[q],
           snapTxns'[q] = snapTxns[q], snapRows'[q] = snapRows[q],
           touched'[q] = touched[q], unsettled'[q] = unsettled[q]
    PROVE  ReaderInv(q)'
BY DEF ReaderInv, SnapshotsInTime, OpenIsKnown, OpenOrSettled, MissingWasOpen,
       RowsAreStored, PaidWithinDays, UntouchedStands, UntouchedSettled,
       UnsettledNow, Settled, Received, Reconciles

\* The ledger's invariant stays with the ledger.
LEMMA LedgerStays ==
    ASSUME EngineInv, UNCHANGED vars
    PROVE  IInv' /\ TypeOK' /\ IsFiniteSet(DOMAIN settlements')
<1>1. IInv' BY InvariantStep DEF EngineInv
<1>2. settlements' = settlements BY DEF vars
<1>q. QED BY <1>1, <1>2 DEF IInv, EngineInv

\* Filling in the defaults leaves a query with a date.
LEMMA DefaultsFilledIn ==
    ASSUME EngineTypeOK, NEW q \in Queries, ValidQuery(WithDefaults(q))
    PROVE  WithDefaults(q) \in [kind: Kinds \cup {"none"}, days: Int, asOf: Int]
<1>1. /\ q \in [kind: Kinds, days: Int \cup {Absent, Malformed}, asOf: Int \cup {Absent, Malformed}]
      /\ Malformed \notin {WithDefaults(q).days, WithDefaults(q).asOf}
  BY QueriesAssumption DEF ValidQuery
<1>2. today \in Int /\ today \in FirstDay .. LastDay
  BY ClockAssumption DEF EngineTypeOK
<1>3. MonthOf(today) \in Int
  BY <1>2, ClockAssumption, MonthsAssumption DEF MonthOf
<1>4. \A k : DefaultDate(k) \in Int
  BY <1>2, <1>3 DEF DefaultDate
<1>5. DefaultDays \in Int BY DEF DefaultDays
<1>q. QED BY <1>1, <1>4, <1>5 DEF WithDefaults

LEMMA ArriveKeeps ==
    ASSUME EngineInv, NEW r \in Readers, Arrive(r)
    PROVE  EngineInv'
<1>0. TypeOK /\ EngineTypeOK BY DEF EngineInv, IInv
<1>1. IInv' /\ TypeOK' /\ IsFiniteSet(DOMAIN settlements')
  BY LedgerStays DEF Arrive
<1>2. PICK q \in Queries :
        /\ ValidQuery(WithDefaults(q))
        /\ query' = [query EXCEPT ![r] = WithDefaults(q)]
        /\ reading' = [reading EXCEPT ![r] = FirstRead(q.kind)]
  BY DEF Arrive
<1>3. /\ snapTxns'  = [snapTxns EXCEPT ![r] = {}]
      /\ snapRows'  = [snapRows EXCEPT ![r] = <<>>]
      /\ touched'   = [touched EXCEPT ![r] = {}]
      /\ unsettled' = [unsettled EXCEPT ![r] = UnsettledNow]
      /\ txns' = txns /\ settlements' = settlements /\ today' = today
  BY DEF Arrive, Forget, vars
<1>4. WithDefaults(q) \in [kind: Kinds \cup {"none"}, days: Int, asOf: Int]
  BY <1>0, <1>2, DefaultsFilledIn
<1>5. FirstRead(q.kind) \in {"transactions", "settlements"}
  BY DEF FirstRead, After
<1>6. EngineTypeOK'
  <2>1. UnsettledNow \subseteq Transaction BY <1>0 DEF UnsettledNow, TypeOK
  <2>2. <<>> \in Seq(Settlement) OBVIOUS
  <2>3. query' \in [Readers -> [kind: Kinds \cup {"none"}, days: Int, asOf: Int]]
    BY <1>0, <1>2, <1>4 DEF EngineTypeOK
  <2>4. reading' \in [Readers -> {"idle", "transactions", "settlements", "answer"}]
    BY <1>0, <1>2, <1>5 DEF EngineTypeOK
  <2>q. QED BY <1>0, <1>1, <1>3, <2>1, <2>2, <2>3, <2>4 DEF EngineTypeOK
<1>7. ReaderInv(r)'
  <2>1. /\ reading'[r] = FirstRead(q.kind) /\ query'[r].kind = q.kind
        /\ snapTxns'[r] = {} /\ snapRows'[r] = <<>>
        /\ touched'[r] = {} /\ unsettled'[r] = UnsettledNow
    BY <1>0, <1>2, <1>3 DEF EngineTypeOK, WithDefaults
  <2>2. reading'[r] = "transactions" => Reconciles(r)'
    BY <1>2, <2>1, QueriesAssumption DEF FirstRead, Reconciles, Kinds
  <2>3. reading'[r] = "settlements" => ~Reconciles(r)'
    BY <2>1 DEF FirstRead, After, Reconciles
  <2>4. OpenIsKnown(r)' BY <1>3, <2>1 DEF OpenIsKnown, UnsettledNow, Settled
  <2>q. QED
    BY <1>5, <2>1, <2>2, <2>3, <2>4
    DEF ReaderInv, SnapshotsInTime, OpenOrSettled, MissingWasOpen, RowsAreStored,
        PaidWithinDays, UntouchedStands, UntouchedSettled
<1>8. ASSUME NEW p \in Readers, p # r PROVE ReaderInv(p)'
  BY <1>0, <1>2, <1>3, <1>8, UndisturbedQueries DEF EngineTypeOK, EngineInv
<1>q. QED BY <1>1, <1>6, <1>7, <1>8 DEF EngineInv

LEMMA ReadTransactionsKeeps ==
    ASSUME EngineInv, NEW r \in Readers, ReadTransactions(r)
    PROVE  EngineInv'
<1>0. TypeOK /\ EngineTypeOK /\ PayoutDaysAreReal BY DEF EngineInv, IInv
<1>1. IInv' /\ TypeOK' /\ IsFiniteSet(DOMAIN settlements')
  BY LedgerStays DEF ReadTransactions
<1>2. /\ reading[r] = "transactions"
      /\ snapTxns' = [snapTxns EXCEPT ![r] = ListTransactions]
      /\ reading' = [reading EXCEPT ![r] = "settlements"]
      /\ UNCHANGED <<txns, settlements, today, query, snapRows, touched, unsettled>>
  BY DEF ReadTransactions, After, vars, history
<1>3. /\ ListTransactions \subseteq Transaction
      /\ \A t \in ListTransactions : t.ID \in DOMAIN txns /\ txns[t.ID] = t
      /\ \A id \in DOMAIN txns : txns[id] \in ListTransactions
  BY <1>0, ListedTransactions
<1>4. EngineTypeOK' BY <1>0, <1>1, <1>2, <1>3 DEF EngineTypeOK
<1>5. ReaderInv(r)'
  <2>0. ReaderInv(r) BY DEF EngineInv
  <2>1. reading'[r] = "settlements" /\ snapTxns'[r] = ListTransactions
    BY <1>0, <1>2 DEF EngineTypeOK
  <2>2. Reconciles(r) /\ snapRows[r] = <<>>
    BY <1>2, <2>0 DEF ReaderInv, SnapshotsInTime
  <2>3. SnapshotsInTime(r)' BY <1>2, <2>1, <2>2 DEF SnapshotsInTime, Reconciles
  <2>4. OpenIsKnown(r)'
    BY <1>2, <2>0 DEF ReaderInv, OpenIsKnown, UnsettledNow, Settled
  <2>5. OpenOrSettled(r)'
    <3> SUFFICES ASSUME NEW t \in ListTransactions, ~Settled(t)
                 PROVE  t \in unsettled[r]
      BY <1>2, <2>1 DEF OpenOrSettled, Settled
    <3>1. t \in UnsettledNow BY <1>3 DEF UnsettledNow
    <3>q. QED BY <1>2, <2>0, <3>1 DEF ReaderInv, OpenIsKnown
  <2>6. MissingWasOpen(r)' /\ UntouchedSettled(r)'
    BY <2>1 DEF MissingWasOpen, UntouchedSettled
  <2>7. RowsAreStored(r)' BY <1>2, <2>2 DEF RowsAreStored
  <2>8. PaidWithinDays(r)'
    BY <1>0, <1>3, <2>1 DEF PaidWithinDays, PayoutDaysAreReal
  <2>9. UntouchedStands(r)'
    BY <1>2, <1>3, <2>1 DEF UntouchedStands
  <2>q. QED BY <2>3, <2>4, <2>5, <2>6, <2>7, <2>8, <2>9 DEF ReaderInv
<1>6. ASSUME NEW p \in Readers, p # r PROVE ReaderInv(p)'
  BY <1>0, <1>2, <1>6, UndisturbedQueries DEF EngineTypeOK, EngineInv
<1>q. QED BY <1>1, <1>4, <1>5, <1>6 DEF EngineInv

LEMMA ReadSettlementsKeeps ==
    ASSUME EngineInv, NEW r \in Readers, ReadSettlements(r)
    PROVE  EngineInv'
<1>0. TypeOK /\ EngineTypeOK /\ IsFiniteSet(DOMAIN settlements) BY DEF EngineInv, IInv
<1>1. IInv' /\ TypeOK' /\ IsFiniteSet(DOMAIN settlements')
  BY LedgerStays DEF ReadSettlements
<1>2. /\ reading[r] = "settlements"
      /\ snapRows' = [snapRows EXCEPT ![r] = ListSettlements]
      /\ reading' = [reading EXCEPT ![r] = "answer"]
      /\ UNCHANGED <<txns, settlements, today, query, snapTxns, touched, unsettled>>
  BY DEF ReadSettlements, After, vars, history
<1>3. /\ ListSettlements \in Seq(Settlement)
      /\ \A i \in DOMAIN ListSettlements : Key(ListSettlements[i]) \in DOMAIN settlements
      /\ \A t : UsedRow(t, ListSettlements) # NoRow <=> Settled(t)
      /\ \A t : RowOf(t, ListSettlements) = Received(t)
  BY <1>0, ListedSettlements, ListedMeansSettled
<1>4. EngineTypeOK' BY <1>0, <1>1, <1>2, <1>3 DEF EngineTypeOK
<1>5. ReaderInv(r)'
  <2>0. ReaderInv(r) BY DEF EngineInv
  <2>1. reading'[r] = "answer" /\ snapRows'[r] = ListSettlements
    BY <1>0, <1>2 DEF EngineTypeOK
  <2>2. SnapshotsInTime(r)' BY <1>2, <2>0, <2>1 DEF ReaderInv, SnapshotsInTime, Reconciles
  <2>3. OpenIsKnown(r)'
    BY <1>2, <2>0, <2>1 DEF ReaderInv, OpenIsKnown, UnsettledNow, Settled
  <2>4. OpenOrSettled(r)' BY <1>2, <2>0 DEF ReaderInv, OpenOrSettled, Settled
  <2>5. MissingWasOpen(r)'
    <3> SUFFICES ASSUME NEW t \in snapTxns[r], UsedRow(t, ListSettlements) = NoRow
                 PROVE  t \in unsettled[r]
      BY <1>2, <2>1 DEF MissingWasOpen
    <3>q. QED BY <1>3, <2>0 DEF ReaderInv, OpenOrSettled
  <2>6. RowsAreStored(r)' BY <1>2, <1>3, <2>1 DEF RowsAreStored
  <2>7. PaidWithinDays(r)' BY <1>2, <2>0 DEF ReaderInv, PaidWithinDays
  <2>8. UntouchedStands(r)' BY <1>2, <2>0 DEF ReaderInv, UntouchedStands, Reconciles
  <2>9. UntouchedSettled(r)'
    <3> SUFFICES ASSUME NEW t \in snapTxns[r]
                 PROVE  RowOf(t, ListSettlements) = Received(t)
      BY <1>2, <2>1 DEF UntouchedSettled, Received, Settled
    <3>q. QED BY <1>3
  <2>q. QED BY <2>2, <2>3, <2>4, <2>5, <2>6, <2>7, <2>8, <2>9 DEF ReaderInv
<1>6. ASSUME NEW p \in Readers, p # r PROVE ReaderInv(p)'
  BY <1>0, <1>2, <1>6, UndisturbedQueries DEF EngineTypeOK, EngineInv
<1>q. QED BY <1>1, <1>4, <1>5, <1>6 DEF EngineInv

LEMMA AnswerKeeps ==
    ASSUME EngineInv, NEW r \in Readers, Answer(r)
    PROVE  EngineInv'
<1>0. EngineTypeOK BY DEF EngineInv
<1>1. IInv' /\ TypeOK' /\ IsFiniteSet(DOMAIN settlements')
  BY LedgerStays DEF Answer
<1>2. /\ reading' = [reading EXCEPT ![r] = "idle"]
      /\ query' = [query EXCEPT ![r] = NoQuery]
      /\ snapTxns'  = [snapTxns EXCEPT ![r] = {}]
      /\ snapRows'  = [snapRows EXCEPT ![r] = <<>>]
      /\ touched'   = [touched EXCEPT ![r] = {}]
      /\ unsettled' = [unsettled EXCEPT ![r] = {}]
      /\ txns' = txns /\ settlements' = settlements /\ today' = today
  BY DEF Answer, Forget, vars
<1>3. EngineTypeOK'
  <2>1. NoQuery \in [kind: Kinds \cup {"none"}, days: Int, asOf: Int]
    BY ClockAssumption DEF NoQuery
  <2>2. <<>> \in Seq(Settlement) OBVIOUS
  <2>q. QED BY <1>0, <1>1, <1>2, <2>1, <2>2 DEF EngineTypeOK
<1>4. ReaderInv(r)'
  <2>1. /\ reading'[r] = "idle" /\ snapTxns'[r] = {} /\ snapRows'[r] = <<>>
    BY <1>0, <1>2 DEF EngineTypeOK
  <2>q. QED
    BY <2>1 DEF ReaderInv, SnapshotsInTime, OpenIsKnown, OpenOrSettled, MissingWasOpen,
                RowsAreStored, PaidWithinDays, UntouchedStands, UntouchedSettled
<1>5. ASSUME NEW p \in Readers, p # r PROVE ReaderInv(p)'
  BY <1>0, <1>2, <1>5, UndisturbedQueries DEF EngineTypeOK, EngineInv
<1>q. QED BY <1>1, <1>3, <1>4, <1>5 DEF EngineInv

LEMMA MidnightKeeps ==
    ASSUME EngineInv, NextDay \/ UNCHANGED engineVars
    PROVE  EngineInv'
<1>1. /\ vars' = vars /\ queryVars' = queryVars /\ history' = history
      /\ today' = today \/ (today < LastDay /\ today' = today + 1)
  BY DEF NextDay, engineVars
<1>2. IInv' /\ TypeOK' /\ IsFiniteSet(DOMAIN settlements')
  BY <1>1, LedgerStays
<1>3. today' \in FirstDay .. LastDay
  BY <1>1, ClockAssumption DEF EngineInv, EngineTypeOK
<1>4. EngineTypeOK'
  BY <1>1, <1>2, <1>3 DEF EngineInv, EngineTypeOK, queryVars, history
<1>5. ASSUME NEW p \in Readers PROVE ReaderInv(p)'
  BY <1>1, UndisturbedQueries DEF EngineInv, vars, queryVars, history
<1>q. QED BY <1>2, <1>4, <1>5 DEF EngineInv

-----------------------------------------------------------------------------
(***************************************************************************)
(* The theorems.                                                           *)
(***************************************************************************)
LEMMA EngineInitial == EngineInit => EngineInv
<1> SUFFICES ASSUME EngineInit PROVE EngineInv
  OBVIOUS
<1>1. IInv BY InvariantInit DEF EngineInit
<1>2. IsFiniteSet(DOMAIN settlements)
  BY FS_EmptySet DEF EngineInit, Init, EmptyMap
<1>3. EngineTypeOK
  <2>1. NoQuery \in [kind: Kinds \cup {"none"}, days: Int, asOf: Int]
    BY ClockAssumption DEF NoQuery
  <2>2. <<>> \in Seq(Settlement) OBVIOUS
  <2>q. QED BY <1>1, <2>1, <2>2, ClockAssumption DEF EngineInit, EngineTypeOK, IInv
<1>4. ASSUME NEW r \in Readers PROVE ReaderInv(r)
  BY DEF EngineInit, ReaderInv, SnapshotsInTime, OpenIsKnown, OpenOrSettled, MissingWasOpen,
         RowsAreStored, PaidWithinDays, UntouchedStands, UntouchedSettled
<1>q. QED BY <1>1, <1>2, <1>3, <1>4 DEF EngineInv

\* The invariant of the whole service (handlers.go, query/service.go, memory.go).
THEOREM EngineInvariant == EngineSpec => []EngineInv
<1>1. EngineInv /\ [EngineNext]_engineVars => EngineInv'
  <2> SUFFICES ASSUME EngineInv, [EngineNext]_engineVars PROVE EngineInv'
    OBVIOUS
  <2>1. CASE IngestionStep BY <2>1, IngestionKeeps
  <2>2. CASE NextDay \/ UNCHANGED engineVars BY <2>2, MidnightKeeps
  <2>3. ASSUME NEW r \in Readers, Arrive(r) PROVE EngineInv'
    BY <2>3, ArriveKeeps
  <2>4. ASSUME NEW r \in Readers, ReaderRuns(r) PROVE EngineInv'
    BY <2>4, ReadTransactionsKeeps, ReadSettlementsKeeps, AnswerKeeps DEF ReaderRuns
  <2>q. QED BY <2>1, <2>2, <2>3, <2>4 DEF EngineNext
<1>q. QED BY <1>1, EngineInitial, PTL DEF EngineSpec

\* The service and its queries keep their types.
THEOREM EngineTypes == EngineSpec => []EngineTypeOK
<1>1. EngineInv => EngineTypeOK BY DEF EngineInv
<1>q. QED BY <1>1, EngineInvariant, PTL

\* No query invents a missing payment (query/service.go:89, 187, 229).
THEOREM NoPaymentInventedMissing == EngineSpec => []NoFalseAlarm
<1>1. ASSUME EngineInv PROVE NoFalseAlarm
  <2> SUFFICES ASSUME NEW r \in Readers, reading[r] = "answer",
                      NEW e \in AnswerOf(r), e.Status # "settled"
               PROVE  e.Transaction \in unsettled[r]
    BY DEF NoFalseAlarm, Answering
  <2>1. PICK t \in snapTxns[r] :
           e = [Transaction |-> t,
                Status      |-> Status(t, snapRows[r], query[r].asOf),
                Settlement  |-> UsedRow(t, snapRows[r])]
    BY DEF AnswerOf, AnswerFrom, Reconciled
  <2>2. UsedRow(t, snapRows[r]) = NoRow BY <2>1 DEF Status
  <2>q. QED BY <1>1, <2>1, <2>2 DEF EngineInv, ReaderInv, MissingWasOpen
<1>q. QED BY <1>1, EngineInvariant, PTL

\* A payment reported as received stays received (memory.go, SaveSettlement).
THEOREM ReceivedForGood == EngineSpec => []ReceivedStaysReceived
<1>1. ASSUME EngineInv PROVE ReceivedStaysReceived
  <2> SUFFICES ASSUME NEW r \in Readers, reading[r] = "answer",
                      NEW e \in AnswerOf(r), e.Status = "settled"
               PROVE  Settled(e.Transaction)
    BY DEF ReceivedStaysReceived, Answering
  <2>1. PICK t \in snapTxns[r] :
           e = [Transaction |-> t,
                Status      |-> Status(t, snapRows[r], query[r].asOf),
                Settlement  |-> UsedRow(t, snapRows[r])]
    BY DEF AnswerOf, AnswerFrom, Reconciled
  <2>2. UsedRow(t, snapRows[r]) # NoRow BY <2>1 DEF Status
  <2>3. snapRows[r] \in Seq(Settlement) BY <1>1 DEF EngineInv, EngineTypeOK
  <2>4. PICK i \in DOMAIN snapRows[r] : Key(snapRows[r][i]) = <<t.ID, t.Acquirer>>
    BY <2>2, <2>3, UsedRowSpec, MatchIsKey
  <2>q. QED BY <1>1, <2>1, <2>4 DEF EngineInv, ReaderInv, RowsAreStored, Settled
<1>q. QED BY <1>1, EngineInvariant, PTL

\* Nothing is called overdue before its day is over (reconcile.go, the strict
\* comparison of days).
THEOREM AlarmsOnlyAfterTheDay == EngineSpec => []NoAlarmBeforeDayIsOver
<1>1. ASSUME EngineInv PROVE NoAlarmBeforeDayIsOver
  <2> SUFFICES ASSUME NEW r \in Readers, query[r].asOf <= today,
                      NEW e \in AnswerOf(r), e.Status = "overdue"
               PROVE  e.Transaction.ExpectedSettleDate < today
    BY DEF NoAlarmBeforeDayIsOver, Answering
  <2>1. PICK t \in snapTxns[r] :
           e = [Transaction |-> t,
                Status      |-> Status(t, snapRows[r], query[r].asOf),
                Settlement  |-> UsedRow(t, snapRows[r])]
    BY DEF AnswerOf, AnswerFrom, Reconciled
  <2>2. t.ExpectedSettleDate < query[r].asOf BY <2>1 DEF Status
  <2>3. t.ExpectedSettleDate \in Int /\ query[r].asOf \in Int /\ today \in Int
    BY <1>1, ClockAssumption DEF EngineInv, EngineTypeOK, Transaction
  <2>q. QED BY <2>1, <2>2, <2>3
<1>q. QED BY <1>1, EngineInvariant, PTL

\* With the default window, an open transaction is listed as unsettled or as
\* overdue: the window of seven days is longer than any schedule.
THEOREM EverythingInSight == EngineSpec => []NothingOutOfSight
<1>1. ASSUME EngineInv PROVE NothingOutOfSight
  <2> SUFFICES ASSUME NEW r \in Readers, query[r].kind = "unsettled",
                      query[r].days = DefaultDays,
                      NEW e \in Reconciled(snapTxns[r], snapRows[r], query[r].asOf),
                      e.Status # "settled"
               PROVE  \/ e \in AnswerOf(r)
                      \/ e \in AnswerFrom(snapTxns[r], snapRows[r],
                                          [query[r] EXCEPT !.kind = "overdue"])
    BY DEF NothingOutOfSight, Answering
  <2>1. PICK t \in snapTxns[r] :
           e = [Transaction |-> t,
                Status      |-> Status(t, snapRows[r], query[r].asOf),
                Settlement  |-> UsedRow(t, snapRows[r])]
    BY DEF Reconciled
  <2> DEFINE asOf == query[r].asOf
  <2>2. /\ t.TransactionDate \in Int /\ asOf \in Int
        /\ t.ExpectedSettleDate \in t.TransactionDate+1 .. t.TransactionDate+5
        /\ query[r] \in [kind: Kinds \cup {"none"}, days: Int, asOf: Int]
    BY <1>1 DEF EngineInv, EngineTypeOK, Transaction, ReaderInv, PaidWithinDays
  <2>3. CASE t.ExpectedSettleDate < asOf
    <3>1. e.Status = "overdue" BY <2>1, <2>3 DEF Status
    <3> DEFINE o == [query[r] EXCEPT !.kind = "overdue"]
    <3>2. o.asOf = asOf /\ o.kind = "overdue" BY <2>2
    <3> HIDE DEF o
    <3>3. e \in AnswerFrom(snapTxns[r], snapRows[r], o)
      BY <3>1, <3>2 DEF AnswerFrom, Reports
    <3>q. QED BY <3>3 DEF o
  <2>4. CASE ~(t.ExpectedSettleDate < asOf)
    <3>1. t.TransactionDate >= asOf - 7 BY <2>2, <2>4
    <3>2. InWindow(e.Transaction, query[r]) BY <2>1, <3>1 DEF InWindow, DefaultDays
    <3>q. QED BY <3>2 DEF AnswerOf, AnswerFrom, Reports
  <2>q. QED BY <2>3, <2>4
<1>q. QED BY <1>1, EngineInvariant, PTL

\* Two snapshots that agree on whether t is settled give t the same status, and
\* entries of t that are both reported or both left out.
LEMMA SameReport ==
    ASSUME NEW rows, NEW other, NEW q, NEW t,
           UsedRow(t, rows) # NoRow <=> UsedRow(t, other) # NoRow
    PROVE  /\ Status(t, rows, q.asOf) = Status(t, other, q.asOf)
           /\ Reports([Transaction |-> t, Status |-> Status(t, rows, q.asOf),
                       Settlement |-> UsedRow(t, rows)], q)
              <=> Reports([Transaction |-> t, Status |-> Status(t, other, q.asOf),
                           Settlement |-> UsedRow(t, other)], q)
<1>1. Status(t, rows, q.asOf) = Status(t, other, q.asOf) BY DEF Status
<1>q. QED BY <1>1 DEF Reports

\* What an answer says, transaction by transaction.
LEMMA WhatIsSaid ==
    ASSUME NEW ts, NEW rows, NEW q, NEW x
    PROVE  x \in Said(AnswerFrom(ts, rows, q), rows) <=>
              \E t \in ts :
                 /\ x = [Transaction |-> t, Status |-> Status(t, rows, q.asOf),
                         Settlement |-> RowOf(t, rows)]
                 /\ Reports([Transaction |-> t, Status |-> Status(t, rows, q.asOf),
                             Settlement |-> UsedRow(t, rows)], q)
<1> DEFINE entry(t) == [Transaction |-> t, Status |-> Status(t, rows, q.asOf),
                        Settlement |-> UsedRow(t, rows)]
<1>1. AnswerFrom(ts, rows, q) = {e \in {entry(t) : t \in ts} : Reports(e, q)}
  BY DEF AnswerFrom, Reconciled
<1>2. \A t \in ts : entry(t).Transaction = t /\ entry(t).Status = Status(t, rows, q.asOf)
  OBVIOUS
<1> HIDE DEF entry
<1>3. x \in Said(AnswerFrom(ts, rows, q), rows) <=>
        \E t \in ts : /\ Reports(entry(t), q)
                      /\ x = [Transaction |-> entry(t).Transaction, Status |-> entry(t).Status,
                              Settlement |-> RowOf(entry(t).Transaction, rows)]
  BY <1>1 DEF Said
<1>q. QED BY <1>2, <1>3 DEF entry

\* Of what nothing touched, a query says what it would say of the store as it
\* stands when it answers (query/service.go:89, 187, 229).
THEOREM UntouchedToldExactly == EngineSpec => []UntouchedIsExact
<1>1. ASSUME EngineInv PROVE UntouchedIsExact
  <2> SUFFICES ASSUME NEW r \in Readers, reading[r] = "answer", NEW x,
                      x.Transaction.ID \notin touched[r]
               PROVE  x \in Said(AnswerOf(r), snapRows[r]) <=>
                      x \in Said(AnswerFrom(ListTransactions, ListSettlements, query[r]),
                                ListSettlements)
    BY DEF UntouchedIsExact, Answering
  <2> DEFINE entry(t, rows) == [Transaction |-> t, Status |-> Status(t, rows, query[r].asOf),
                                Settlement |-> UsedRow(t, rows)]
             told(t, rows)  == /\ x = [Transaction |-> t,
                                       Status |-> Status(t, rows, query[r].asOf),
                                       Settlement |-> RowOf(t, rows)]
                               /\ Reports(entry(t, rows), query[r])
  <2>1. /\ x \in Said(AnswerOf(r), snapRows[r]) <=> \E t \in snapTxns[r] : told(t, snapRows[r])
        /\ x \in Said(AnswerFrom(ListTransactions, ListSettlements, query[r]), ListSettlements)
             <=> \E t \in ListTransactions : told(t, ListSettlements)
    BY WhatIsSaid DEF AnswerOf
  <2>2. /\ TypeOK /\ IsFiniteSet(DOMAIN settlements) /\ ReaderInv(r)
        /\ snapRows[r] \in Seq(Settlement)
    BY <1>1 DEF EngineInv, IInv, EngineTypeOK
  <2>3. CASE ~Reconciles(r)
    <3>1. \A t, rows : ~Reports(entry(t, rows), query[r])
      BY <2>3 DEF Reports, Reconciles
    <3>q. QED BY <2>1, <3>1
  <2>4. CASE Reconciles(r)
    <3>1. ASSUME NEW t, t.ID \notin touched[r]
          PROVE  t \in snapTxns[r] <=> t \in ListTransactions
      BY <2>2, <2>4, <3>1, ListedTransactions DEF ReaderInv, UntouchedStands
    <3>2. ASSUME NEW t \in snapTxns[r], t.ID \notin touched[r]
          PROVE  told(t, snapRows[r]) <=> told(t, ListSettlements)
      <4>1. RowOf(t, snapRows[r]) = Received(t)
        BY <2>2, <3>2 DEF ReaderInv, UntouchedSettled
      <4>2. RowOf(t, ListSettlements) = Received(t)
        BY <2>2, ListedMeansSettled
      <4>3. UsedRow(t, snapRows[r]) # NoRow <=> UsedRow(t, ListSettlements) # NoRow
        <5>1. \A other : RowOf(t, other) = <<>> <=> UsedRow(t, other) = NoRow
          BY DEF RowOf
        <5>q. QED BY <4>1, <4>2, <5>1
      <4>q. QED BY <4>1, <4>2, <4>3, SameReport
    <3>3. \A t, rows : told(t, rows) => t.ID \notin touched[r]
      OBVIOUS
    <3> HIDE DEF told
    <3>q. QED BY <2>1, <3>1, <3>2, <3>3
  <2>q. QED BY <2>3, <2>4
<1>q. QED BY <1>1, EngineInvariant, PTL

-----------------------------------------------------------------------------
(***************************************************************************)
(* The books.                                                              *)
(***************************************************************************)
\* Whatever a file brings in has been checked row by row.
LEMMA BatchesBalance ==
    ASSUME NEW c \in SettlementBatches, NEW i \in DOMAIN c
    PROVE  Balances(c[i])
<1>1. PICK a, f : ParsesSettlements(a, f) /\ c = ParseSettlements(a, f)
  BY DEF SettlementBatches, KnownUpload
<1>2. i \in DOMAIN f.rows /\ c[i] = SettlementRecordOf(a, f.rows[i])
  BY <1>1 DEF ParseSettlements
<1>3. AmountsAgree(f.rows[i])
  BY <1>1, <1>2 DEF ParsesSettlements
<1>q. QED BY <1>2, <1>3 DEF AmountsAgree, SettlementRecordOf, Balances

\* The month of a query that arrives has an end, given or the current one's.
LEMMA AskedMonthEnds ==
    ASSUME EngineTypeOK, NEW q \in Queries, ValidQuery(WithDefaults(q)), q.kind = "fees"
    PROVE  \E n \in MonthStarts : n > WithDefaults(q).asOf
<1>1. /\ q.asOf \in Int \cup {Absent, Malformed}
      /\ WithDefaults(q).asOf # Malformed
      /\ WithDefaults(q).asOf = IF q.asOf = Absent THEN MonthOf(today) ELSE q.asOf
  BY QueriesAssumption DEF ValidQuery, WithDefaults, ReadsDate, DefaultDate
<1>2. CASE q.asOf = Absent
  <2>1. today \in FirstDay .. LastDay
    BY DEF EngineTypeOK
  <2>2. MonthOf(today) \in MonthStarts /\ MonthOf(today) <= today
    BY <2>1, ClockAssumption, MonthsAssumption DEF MonthOf
  <2>3. PICK n \in MonthStarts : n > LastDay
    BY ClockAssumption
  <2>4. n > MonthOf(today)
    <3>1. n \in Int /\ MonthOf(today) \in Int
      BY <2>2, MonthsAssumption
    <3>2. LastDay \in Int /\ FirstDay \in Int
      BY ClockAssumption
    <3>q. QED BY <2>1, <2>2, <2>3, <3>1, <3>2
  <2>q. QED BY <1>1, <1>2, <2>4
<1>3. CASE q.asOf # Absent
  <2>1. q.asOf \in Int /\ WithDefaults(q).asOf = q.asOf
    BY <1>1, <1>3
  <2>q. QED BY <2>1, MonthsAskedAssumption
<1>q. QED BY <1>2, <1>3

\* The books stay when neither the store nor what the readers hold changes.
LEMMA BooksStay ==
    ASSUME BooksInv, UNCHANGED <<settlements, query, snapRows>>
    PROVE  BooksInv'
BY DEF BooksInv, MonthGoesOn

LEMMA LedgerStepKeepsBooks ==
    ASSUME EngineInv, BooksInv, IngestionStep
    PROVE  BooksInv'
<1>0. TypeOK /\ BatchesAreFiles
  BY DEF EngineInv, IInv
<1>1. \A k \in DOMAIN settlements' : Balances(settlements'[k])
  <2>1. ASSUME NEW p \in Procs, SaveNextSettlement(p)
        PROVE  \A k \in DOMAIN settlements' : Balances(settlements'[k])
    <3> DEFINE s == stlBatch[p][next[p]]
    <3>1. /\ next[p] \in DOMAIN stlBatch[p]
          /\ DOMAIN settlements' = DOMAIN settlements \cup {Key(s)}
          /\ settlements'[Key(s)] = s
          /\ \A k \in DOMAIN settlements : k # Key(s) => settlements'[k] = settlements[k]
      BY <1>0, <2>1, SaveSettlementSpec
    <3>2. stlBatch[p] \in SettlementBatches
      BY <1>0, <3>1 DEF BatchesAreFiles
    <3>3. Balances(s)
      BY <3>1, <3>2, BatchesBalance
    <3> HIDE DEF s
    <3>q. QED BY <3>1, <3>3 DEF BooksInv
  <2>2. CASE Exit
    BY <2>2 DEF Exit, EmptyMap
  <2>3. CASE UNCHANGED settlements
    BY <2>3 DEF BooksInv
  <2>q. QED
    BY <1>0, <2>1, <2>2, <2>3, StepKinds
    DEF IngestionStep, SaveNextTransaction, SaveTransaction, Takes, Moves, Rests, store
<1>2. CASE Watch
  BY <1>1, <1>2 DEF Watch, queryVars, BooksInv, MonthGoesOn
<1>3. CASE DropQueries
  BY <1>1, <1>3 DEF DropQueries, NoQuery, BooksInv, MonthGoesOn
<1>q. QED BY <1>2, <1>3 DEF IngestionStep

LEMMA ArriveKeepsBooks ==
    ASSUME EngineInv, BooksInv, NEW r \in Readers, Arrive(r)
    PROVE  BooksInv'
<1>0. EngineTypeOK
  BY DEF EngineInv
<1>1. PICK q \in Queries :
        /\ ValidQuery(WithDefaults(q))
        /\ query' = [query EXCEPT ![r] = WithDefaults(q)]
  BY DEF Arrive
<1>2. snapRows' = [snapRows EXCEPT ![r] = <<>>] /\ settlements' = settlements
  BY DEF Arrive, Forget, vars
<1>3. MonthGoesOn(r)'
  <2>1. query'[r] = WithDefaults(q) /\ WithDefaults(q).kind = q.kind
    BY <1>0, <1>1 DEF EngineTypeOK, WithDefaults
  <2>2. q.kind = "fees" => \E n \in MonthStarts : n > WithDefaults(q).asOf
    BY <1>0, <1>1, AskedMonthEnds
  <2>q. QED BY <2>1, <2>2 DEF MonthGoesOn
<1>4. \A p \in Readers : p # r => query'[p] = query[p] /\ snapRows'[p] = snapRows[p]
  BY <1>0, <1>1, <1>2 DEF EngineTypeOK
<1>5. snapRows'[r] = <<>>
  BY <1>0, <1>2 DEF EngineTypeOK
<1>q. QED BY <1>2, <1>3, <1>4, <1>5 DEF BooksInv, MonthGoesOn

LEMMA ReadKeepsBooks ==
    ASSUME EngineInv, BooksInv, NEW r \in Readers, ReadSettlements(r)
    PROVE  BooksInv'
<1>0. EngineTypeOK /\ IsFiniteSet(DOMAIN settlements)
  BY DEF EngineInv
<1>1. /\ snapRows' = [snapRows EXCEPT ![r] = ListSettlements]
      /\ UNCHANGED <<settlements, query>>
  BY DEF ReadSettlements, vars
<1>2. \A i \in DOMAIN ListSettlements : Balances(ListSettlements[i])
  BY <1>0, ListedAreStored DEF BooksInv
<1>3. snapRows'[r] = ListSettlements /\ \A p \in Readers : p # r => snapRows'[p] = snapRows[p]
  BY <1>0, <1>1 DEF EngineTypeOK
<1>q. QED BY <1>1, <1>2, <1>3 DEF BooksInv, MonthGoesOn

LEMMA AnswerKeepsBooks ==
    ASSUME EngineInv, BooksInv, NEW r \in Readers, Answer(r)
    PROVE  BooksInv'
<1>0. EngineTypeOK
  BY DEF EngineInv
<1>1. /\ snapRows' = [snapRows EXCEPT ![r] = <<>>]
      /\ query' = [query EXCEPT ![r] = NoQuery]
      /\ settlements' = settlements
  BY DEF Answer, Forget, vars
<1>2. \A p \in Readers : p # r => query'[p] = query[p] /\ snapRows'[p] = snapRows[p]
  BY <1>0, <1>1 DEF EngineTypeOK
<1>3. query'[r] = NoQuery /\ snapRows'[r] = <<>>
  BY <1>0, <1>1 DEF EngineTypeOK
<1>q. QED BY <1>1, <1>2, <1>3 DEF BooksInv, MonthGoesOn, NoQuery

\* Every row a query sees has been checked by its parser, and every month asked
\* for has an end (the parsers, handlers.go).
THEOREM BooksInvariant == EngineSpec => []BooksInv
<1>1. EngineInit => BooksInv
  BY DEF EngineInit, Init, EmptyMap, BooksInv, MonthGoesOn, NoQuery
<1>2. EngineInv /\ BooksInv /\ [EngineNext]_engineVars => BooksInv'
  <2> SUFFICES ASSUME EngineInv, BooksInv, [EngineNext]_engineVars PROVE BooksInv'
    OBVIOUS
  <2>1. CASE IngestionStep
    BY <2>1, LedgerStepKeepsBooks
  <2>2. CASE NextDay \/ UNCHANGED engineVars
    BY <2>2, BooksStay DEF NextDay, engineVars, vars, queryVars
  <2>3. ASSUME NEW r \in Readers, Arrive(r) PROVE BooksInv'
    BY <2>3, ArriveKeepsBooks
  <2>4. ASSUME NEW r \in Readers, ReadTransactions(r) PROVE BooksInv'
    BY <2>4, BooksStay DEF ReadTransactions, vars
  <2>5. ASSUME NEW r \in Readers, ReadSettlements(r) \/ Answer(r) PROVE BooksInv'
    BY <2>5, ReadKeepsBooks, AnswerKeepsBooks
  <2>q. QED BY <2>1, <2>2, <2>3, <2>4, <2>5 DEF EngineNext, ReaderRuns
<1>q. QED BY <1>1, <1>2, EngineInvariant, PTL DEF EngineSpec

\* The fees of a month and the cash of its days add up to the gross amounts of
\* the rows paid out in it, for any ledger (query/service.go, the parsers).
THEOREM BooksAlwaysBalance == EngineSpec => []BooksBalance
<1>1. ASSUME EngineInv, BooksInv PROVE BooksBalance
  <2> SUFFICES ASSUME NEW r \in Readers, Answering(r), query[r].kind = "fees"
               PROVE  LET rows  == snapRows[r]
                          month == query[r].asOf
                          days  == month .. MonthEnd(month) - 1
                          paid  == {i \in DOMAIN rows : Payday(rows[i]) \in days}
                      IN  Wrap(Total(FeesByAcquirer(rows, month))
                               + Sum([d \in days |-> Total(ExpectedCashByAcquirer(rows, d))], days))
                            = Sum([i \in paid |-> rows[i].GrossMinor], paid)
    BY DEF BooksBalance
  <2> DEFINE rows  == snapRows[r]
             month == query[r].asOf
  <2>1. rows \in Seq(Settlement) /\ month \in Int
    BY <1>1 DEF EngineInv, EngineTypeOK
  <2>2. MonthEnd(month) \in Int
    BY <1>1, <2>1, MonthEnds DEF BooksInv, MonthGoesOn
  <2>3. \A i \in DOMAIN rows : Balances(rows[i])
    BY <1>1 DEF BooksInv
  <2> HIDE DEF rows, month
  <2>4. IsFiniteSet(DOMAIN rows)
    <3>1. DOMAIN rows = 1 .. Len(rows) /\ Len(rows) \in Nat
      BY <2>1
    <3>q. QED BY <3>1, FS_Interval
  <2>5. \A i \in DOMAIN rows :
           /\ rows[i].Acquirer \in Acquirers /\ rows[i].SettlementDate \in Int
           /\ rows[i].GrossMinor \in Int /\ rows[i].FeeMinor \in Int
           /\ rows[i].NetMinor \in Int
    <3>1. Int64 \subseteq Int
      BY HalfRangeAssumption DEF Int64
    <3>2. \A s \in Settlement :
             /\ s.Acquirer \in Acquirers /\ s.SettlementDate \in Int
             /\ s.GrossMinor \in Int64 /\ s.FeeMinor \in Int64 /\ s.NetMinor \in Int64
      BY DEF Settlement
    <3>3. \A i \in DOMAIN rows : rows[i] \in Settlement
      BY <2>1
    <3>q. QED BY <3>1, <3>2, <3>3
  <2>6. LET days  == month .. MonthEnd(month) - 1
            paid  == {i \in DOMAIN rows : Payday(rows[i]) \in days}
        IN  Wrap(Total(FeesByAcquirer(rows, month))
                 + Sum([d \in days |-> Total(ExpectedCashByAcquirer(rows, d))], days))
              = Sum([i \in paid |-> rows[i].GrossMinor], paid)
    BY <2>1, <2>2, <2>3, <2>4, <2>5, MonthBalances, Zenon
  <2>q. QED BY <2>6 DEF rows, month
<1>q. QED BY <1>1, EngineInvariant, BooksInvariant, PTL

-----------------------------------------------------------------------------
(***************************************************************************)
(* What the queries hand to Reconcile and Forecast.                        *)
(***************************************************************************)
\* Whatever happens to the ledger, it has finitely many transactions.
LEMMA TransactionsStayFinite ==
    ASSUME TypeOK, IsFiniteSet(DOMAIN txns), [Next]_vars
    PROVE  IsFiniteSet(DOMAIN txns')
<1>1. ASSUME NEW p \in Procs, SaveNextTransaction(p) PROVE IsFiniteSet(DOMAIN txns')
  <2>1. PICK id : DOMAIN txns' = DOMAIN txns \cup {id}
    BY <1>1, SaveTransactionSpec
  <2>q. QED BY <2>1, FS_AddElement
<1>2. CASE Exit
  BY <1>2, FS_EmptySet DEF Exit, EmptyMap
<1>3. CASE UNCHANGED txns
  BY <1>3
<1>q. QED
  BY <1>1, <1>2, <1>3, StepKinds
  DEF SaveNextSettlement, SaveSettlement, Takes, Moves, Rests, store

\* A list of the store's transactions is finite and has one per ID.
LEMMA ListedOncePerID ==
    ASSUME TypeOK, IsFiniteSet(DOMAIN txns)
    PROVE  /\ IsFiniteSet(ListTransactions)
           /\ \A t, u \in ListTransactions : t.ID = u.ID => t = u
<1>1. txns \in Surjection(DOMAIN txns, ListTransactions)
  BY DEF Surjection, ListTransactions, TypeOK
<1>2. IsFiniteSet(ListTransactions)
  BY <1>1, FS_Surjection
<1>q. QED BY <1>2, ListedTransactions

\* A list of the store's settlements has one row per key.
LEMMA ListedOncePerKey ==
    ASSUME TypeOK, IsFiniteSet(DOMAIN settlements),
           NEW i \in DOMAIN ListSettlements, NEW j \in DOMAIN ListSettlements,
           Key(ListSettlements[i]) = Key(ListSettlements[j])
    PROVE  i = j
<1> DEFINE S    == {settlements[k] : k \in DOMAIN settlements}
           rows == SeqExt!SetToSeq(S)
<1>1. settlements \in Surjection(DOMAIN settlements, S)
  BY DEF Surjection, TypeOK
<1>2. IsFiniteSet(S)
  BY <1>1, FS_Surjection
<1>3. ListSettlements = rows
  BY DEF ListSettlements
<1>4. \A a, b \in DOMAIN rows : rows[a] = rows[b] => a = b
  BY <1>2, Listing
<1> HIDE DEF rows
<1>5. /\ \E k \in DOMAIN settlements : rows[i] = settlements[k]
      /\ \E k \in DOMAIN settlements : rows[j] = settlements[k]
  BY <1>3, ListedAreStored
<1>6. rows[i] = rows[j]
  BY <1>3, <1>5 DEF TypeOK
<1>q. QED BY <1>3, <1>4, <1>6

LEMMA LedgerStepKeepsSnapshots ==
    ASSUME EngineInv, SnapshotsInv, IngestionStep
    PROVE  SnapshotsInv'
<1>1. IsFiniteSet(DOMAIN txns')
  BY TransactionsStayFinite DEF EngineInv, IInv, SnapshotsInv, IngestionStep
<1>2. CASE Watch
  BY <1>1, <1>2 DEF Watch, queryVars, SnapshotsInv, OneTransactionPerID, OneRowPerKey
<1>3. CASE DropQueries
  BY <1>1, <1>3, FS_EmptySet DEF DropQueries, SnapshotsInv, OneTransactionPerID, OneRowPerKey
<1>q. QED BY <1>2, <1>3 DEF IngestionStep

\* A query that begins or ends has no snapshots.
LEMMA ForgetKeepsSnapshots ==
    ASSUME EngineTypeOK, SnapshotsInv, NEW r \in Readers, Forget(r), UNCHANGED txns
    PROVE  SnapshotsInv'
<1>1. /\ snapTxns'[r] = {} /\ snapRows'[r] = <<>>
      /\ \A p \in Readers : p # r => snapTxns'[p] = snapTxns[p] /\ snapRows'[p] = snapRows[p]
  BY DEF Forget, EngineTypeOK
<1>2. OneTransactionPerID(r)' /\ OneRowPerKey(r)'
  BY <1>1, FS_EmptySet DEF OneTransactionPerID, OneRowPerKey
<1>3. ASSUME NEW p \in Readers, p # r PROVE OneTransactionPerID(p)' /\ OneRowPerKey(p)'
  BY <1>1, <1>3 DEF SnapshotsInv, OneTransactionPerID, OneRowPerKey
<1>q. QED BY <1>2, <1>3 DEF SnapshotsInv

LEMMA ReadKeepsSnapshots ==
    ASSUME EngineInv, SnapshotsInv, NEW r \in Readers,
           ReadTransactions(r) \/ ReadSettlements(r)
    PROVE  SnapshotsInv'
<1>0. EngineTypeOK /\ TypeOK /\ IsFiniteSet(DOMAIN settlements) /\ txns' = txns
  BY DEF EngineInv, IInv, ReadTransactions, ReadSettlements, vars
<1>1. CASE ReadTransactions(r)
  <2>1. /\ snapTxns'[r] = ListTransactions /\ snapRows' = snapRows
        /\ \A p \in Readers : p # r => snapTxns'[p] = snapTxns[p]
    BY <1>0, <1>1 DEF ReadTransactions, EngineTypeOK
  <2>q. QED
    BY <1>0, <2>1, ListedOncePerID DEF SnapshotsInv, OneTransactionPerID, OneRowPerKey
<1>2. CASE ReadSettlements(r)
  <2>1. /\ snapRows'[r] = ListSettlements /\ snapTxns' = snapTxns
        /\ \A p \in Readers : p # r => snapRows'[p] = snapRows[p]
    BY <1>0, <1>2 DEF ReadSettlements, EngineTypeOK
  <2>2. OneRowPerKey(r)'
    BY <1>0, <2>1, ListedOncePerKey DEF OneRowPerKey
  <2>q. QED
    BY <1>0, <2>1, <2>2 DEF SnapshotsInv, OneTransactionPerID, OneRowPerKey
<1>q. QED BY <1>1, <1>2

\* The lists a query takes are of maps: one transaction per ID, one row per key
\* (memory.go ListTransactions, ListSettlements).
THEOREM SnapshotsOfMaps == EngineSpec => []SnapshotsInv
<1>1. EngineInit => SnapshotsInv
  BY FS_EmptySet DEF EngineInit, Init, EmptyMap, SnapshotsInv, OneTransactionPerID, OneRowPerKey
<1>2. EngineInv /\ SnapshotsInv /\ [EngineNext]_engineVars => SnapshotsInv'
  <2> SUFFICES ASSUME EngineInv, SnapshotsInv, [EngineNext]_engineVars PROVE SnapshotsInv'
    OBVIOUS
  <2>1. CASE IngestionStep
    BY <2>1, LedgerStepKeepsSnapshots
  <2>2. CASE NextDay \/ UNCHANGED engineVars
    BY <2>2
    DEF NextDay, engineVars, vars, queryVars, SnapshotsInv, OneTransactionPerID, OneRowPerKey
  <2>3. ASSUME NEW r \in Readers, Arrive(r) \/ Answer(r) PROVE SnapshotsInv'
    BY <2>3, ForgetKeepsSnapshots DEF Arrive, Answer, vars, EngineInv
  <2>4. ASSUME NEW r \in Readers, ReadTransactions(r) \/ ReadSettlements(r) PROVE SnapshotsInv'
    BY <2>4, ReadKeepsSnapshots
  <2>q. QED BY <2>1, <2>2, <2>3, <2>4 DEF EngineNext, ReaderRuns
<1>q. QED BY <1>1, <1>2, EngineInvariant, PTL DEF EngineSpec
=============================================================================
