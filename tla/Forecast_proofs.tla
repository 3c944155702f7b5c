--------------------------- MODULE Forecast_proofs ---------------------------
(***************************************************************************)
(* Proofs about reconciliation and the forecast, for any ledger and any    *)
(* order in which Go walks its maps: the loops compute what module         *)
(* Reconcile defines, no row goes unnoticed, and the forecast is the cash  *)
(* flow of the days to come.                                               *)
(***************************************************************************)
EXTENDS Forecast, Ledger_proofs, Schedule_proofs

-----------------------------------------------------------------------------
(***************************************************************************)
(* The index.                                                              *)
(***************************************************************************)
\* What the inputs are.
LEMMA InputsRead ==
    ASSUME in \in Inputs
    PROVE  /\ in.txns \subseteq TransactionRead /\ IsFiniteSet(in.txns)
           /\ \A t, u \in in.txns : t.ID = u.ID => t = u
           /\ in.rows \in Seq(SettlementRead)
           /\ Len(in.rows) \in Nat /\ DOMAIN in.rows = 1 .. Len(in.rows)
           /\ in.asOf \in Int /\ in.days \in Int
BY InputsAssumption

\* The map with one entry more, or another one.
LEMMA WithSpec ==
    ASSUME NEW map, NEW k, NEW v
    PROVE  /\ DOMAIN With(map, k, v) = DOMAIN map \cup {k}
           /\ With(map, k, v)[k] = v
           /\ \A x \in DOMAIN map : x # k => With(map, k, v)[x] = map[x]
BY DEF With

LEMMA IndexRowKeeps ==
    ASSUME LoopInv, IndexRow
    PROVE  LoopInv'
<1>k. PICK k : k = RowKey(in.rows[i])
  OBVIOUS
<1>0. /\ in \in Inputs /\ IndexInv /\ MatchInv /\ UnknownInv
      /\ Len(in.rows) \in Nat /\ phase = "index" /\ i \in 1 .. Len(in.rows)
  BY InputsRead DEF LoopInv, IndexRow, IndexInv
<1>1. /\ in' = in /\ i' = i + 1
      /\ UNCHANGED <<phase, todo, consumed, keysLeft, reconciled, discrepancies>>
      /\ dupCount' = With(dupCount, k, IF k \in DOMAIN dupCount THEN dupCount[k] + 1 ELSE 1)
      /\ settlementIdx' = KeepFirst(settlementIdx, k, i)
  BY <1>k DEF IndexRow
<1>2. IndexedKeys' = IndexedKeys \cup {k}
  BY <1>0, <1>1, <1>k DEF IndexedKeys
<1>3. /\ IndexedRows(k)' = IndexedRows(k) \cup {i}
      /\ \A x : x # k => IndexedRows(x)' = IndexedRows(x)
      /\ \A x : IndexedRows(x) \subseteq 1 .. i-1
  <2>1. \A x : IndexedRows(x)' = {j \in 1 .. i : RowKey(in.rows[j]) = x}
    BY <1>0, <1>1 DEF IndexedRows
  <2>2. 1 .. i = (1 .. i-1) \cup {i}
    BY <1>0
  <2>3. \A x : IndexedRows(x) = {j \in 1 .. i-1 : RowKey(in.rows[j]) = x}
    BY DEF IndexedRows
  <2>5. i \notin 1 .. i-1
    BY <1>0
  <2>6. IndexedRows(k)' = IndexedRows(k) \cup {i}
    <3>1. IndexedRows(k)' = {j \in 1 .. i : RowKey(in.rows[j]) = k}
      BY <2>1
    <3>2. IndexedRows(k) = {j \in 1 .. i-1 : RowKey(in.rows[j]) = k}
      BY <2>3
    <3>q. QED BY <2>2, <1>k, <3>1, <3>2
  <2>7. ASSUME NEW x, x # k PROVE IndexedRows(x)' = IndexedRows(x)
    BY <2>1, <2>2, <2>3, <1>k, <2>7
  <2>8. \A x : IndexedRows(x) \subseteq 1 .. i-1
    BY <2>3
  <2>q. QED BY <2>6, <2>7, <2>8
<1>4. \A x : x \in IndexedKeys <=> IndexedRows(x) # {}
  BY DEF IndexedKeys, IndexedRows
<1>5. DOMAIN settlementIdx = IndexedKeys /\ DOMAIN dupCount = IndexedKeys
  BY <1>0 DEF IndexInv
<1>6. /\ DOMAIN settlementIdx' = IndexedKeys \cup {k}
      /\ DOMAIN dupCount' = IndexedKeys \cup {k}
      /\ \A x \in IndexedKeys : settlementIdx'[x] = settlementIdx[x]
      /\ \A x \in IndexedKeys : x # k => dupCount'[x] = dupCount[x]
      /\ dupCount'[k] = IF k \in IndexedKeys THEN dupCount[k] + 1 ELSE 1
      /\ k \notin IndexedKeys => settlementIdx'[k] = i
  <2> DEFINE n == IF k \in DOMAIN dupCount THEN dupCount[k] + 1 ELSE 1
  <2>1. /\ DOMAIN dupCount' = IndexedKeys \cup {k} /\ dupCount'[k] = n
        /\ \A x \in IndexedKeys : x # k => dupCount'[x] = dupCount[x]
    <3>1. dupCount' = With(dupCount, k, n)
      BY <1>1
    <3> HIDE DEF n
    <3>2. /\ DOMAIN With(dupCount, k, n) = DOMAIN dupCount \cup {k}
          /\ With(dupCount, k, n)[k] = n
          /\ \A x \in DOMAIN dupCount : x # k => With(dupCount, k, n)[x] = dupCount[x]
      BY DEF With
    <3>q. QED BY <1>5, <3>1, <3>2, Zenon
  <2>2. /\ DOMAIN settlementIdx' = IndexedKeys \cup {k}
        /\ \A x \in IndexedKeys : settlementIdx'[x] = settlementIdx[x]
        /\ k \notin IndexedKeys => settlementIdx'[k] = i
    <3>1. CASE k \in IndexedKeys
      <4>1. settlementIdx' = settlementIdx
        BY <1>1, <1>5, <3>1 DEF KeepFirst
      <4>2. IndexedKeys \cup {k} = IndexedKeys
        BY <3>1
      <4>q. QED BY <1>5, <3>1, <4>1, <4>2, Zenon
    <3>2. CASE k \notin IndexedKeys
      <4>1. settlementIdx' = With(settlementIdx, k, i)
        BY <1>1, <1>5, <3>2 DEF KeepFirst
      <4>2. /\ DOMAIN With(settlementIdx, k, i) = DOMAIN settlementIdx \cup {k}
            /\ With(settlementIdx, k, i)[k] = i
            /\ \A x \in DOMAIN settlementIdx : x # k => With(settlementIdx, k, i)[x] = settlementIdx[x]
        BY DEF With
      <4>q. QED BY <1>5, <3>2, <4>1, <4>2, Zenon
    <3>q. QED BY <3>1, <3>2
  <2>q. QED BY <1>5, <2>1, <2>2
<1> DEFINE Good(x) == /\ settlementIdx'[x] \in IndexedRows(x)'
                      /\ \A j \in IndexedRows(x)' : settlementIdx'[x] <= j
                      /\ dupCount'[x] \in Nat \ {0}
                      /\ dupCount'[x] > 1 <=> \E j, l \in IndexedRows(x)' : j # l
<1>7. \A x \in IndexedKeys' : Good(x)
  <2>1. ASSUME NEW x \in IndexedKeys, x # k PROVE Good(x)
    BY <1>0, <1>3, <1>6, <2>1 DEF IndexInv
  <2>2. CASE k \in IndexedKeys
    <3>1. /\ settlementIdx[k] \in IndexedRows(k)
          /\ \A j \in IndexedRows(k) : settlementIdx[k] <= j
          /\ dupCount[k] \in Nat \ {0}
      BY <1>0, <2>2 DEF IndexInv
    <3>2. settlementIdx'[k] = settlementIdx[k] /\ dupCount'[k] = dupCount[k] + 1
      BY <1>6, <2>2
    <3>3. settlementIdx[k] \in IndexedRows(k)' /\ i \in IndexedRows(k)' /\ settlementIdx[k] # i
          /\ settlementIdx[k] <= i
      BY <1>0, <1>3, <3>1
    <3>4. \A j \in IndexedRows(k)' : settlementIdx[k] <= j
      BY <1>3, <3>1, <3>3
    <3>5. dupCount'[k] \in Nat \ {0} /\ dupCount'[k] > 1
      BY <3>1, <3>2
    <3>6. \E j, l \in IndexedRows(k)' : j # l
      BY <3>3
    <3>7. Good(k)
      BY <3>2, <3>3, <3>4, <3>5, <3>6
    <3> HIDE DEF Good
    <3>q. QED BY <1>2, <2>1, <3>7
  <2>3. CASE k \notin IndexedKeys
    <3>1. settlementIdx'[k] = i /\ dupCount'[k] = 1
      BY <1>6, <2>3
    <3>2. IndexedRows(k)' = {i}
      BY <1>3, <1>4, <2>3
    <3>3. \A j \in IndexedRows(k)' : i <= j
      BY <1>0, <3>2
    <3>4. /\ settlementIdx'[k] \in IndexedRows(k)'
          /\ dupCount'[k] \in Nat \ {0} /\ ~(dupCount'[k] > 1)
      BY <3>1, <3>2
    <3>5. ~ \E j, l \in IndexedRows(k)' : j # l
      BY <3>2
    <3>6. Good(k)
      BY <3>1, <3>3, <3>4, <3>5
    <3> HIDE DEF Good
    <3>q. QED BY <1>2, <2>1, <3>6
  <2>q. QED BY <2>2, <2>3
<1>8. IndexInv'
  <2>1. i' \in 1 .. Len(in'.rows) + 1
    BY <1>0, <1>1
  <2>2. DOMAIN settlementIdx' = IndexedKeys' /\ DOMAIN dupCount' = IndexedKeys'
    BY <1>2, <1>6, Zenon
  <2>q. QED BY <1>7, <2>1, <2>2 DEF IndexInv
<1>9. MatchInv' /\ UnknownInv'
  BY <1>0, <1>1 DEF MatchInv, UnknownInv
<1>q. QED BY <1>0, <1>1, <1>8, <1>9 DEF LoopInv

\* When every row is indexed, the index finds the row used for a transaction.
LEMMA IndexFindsUsedRow ==
    ASSUME LoopInv, phase # "index", NEW t
    PROVE  /\ TxnKey(t) \in DOMAIN settlementIdx <=> UsedRow(t, in.rows) # NoRow
           /\ UsedRow(t, in.rows) # NoRow => settlementIdx[TxnKey(t)] = UsedRow(t, in.rows)
<1> DEFINE k == TxnKey(t)
           r == UsedRow(t, in.rows)
<1>1. /\ in.rows \in Seq(SettlementRead) /\ Len(in.rows) \in Nat
      /\ DOMAIN in.rows = 1 .. Len(in.rows)
      /\ i = Len(in.rows) + 1 /\ IndexInv
  BY InputsRead DEF LoopInv, MatchInv
<1>2. \A s : Matches(t, s) <=> RowKey(s) = k
  BY DEF Matches, SameTxn, RowKey, TxnKey
<1>3. i - 1 = Len(in.rows)
  BY <1>1
<1>4. \A j : j \in IndexedRows(k) <=> j \in DOMAIN in.rows /\ Matches(t, in.rows[j])
  BY <1>1, <1>2, <1>3 DEF IndexedRows
<1>5. k \in IndexedKeys <=> \E j \in DOMAIN in.rows : Matches(t, in.rows[j])
  BY <1>1, <1>2, <1>3 DEF IndexedKeys
<1>6. /\ r # NoRow <=> \E j \in DOMAIN in.rows : Matches(t, in.rows[j])
      /\ r # NoRow => /\ r \in DOMAIN in.rows
                      /\ Matches(t, in.rows[r])
                      /\ \A j \in DOMAIN in.rows : Matches(t, in.rows[j]) => r <= j
  BY <1>1, UsedRowSpec
<1>7. DOMAIN settlementIdx = IndexedKeys
  BY <1>1 DEF IndexInv
<1>8. ASSUME r # NoRow
      PROVE  settlementIdx[k] = r
  <2> DEFINE s == settlementIdx[k]
  <2>1. s \in IndexedRows(k) /\ \A j \in IndexedRows(k) : s <= j
    BY <1>1, <1>5, <1>6, <1>8 DEF IndexInv
  <2>2. r \in IndexedRows(k) /\ s \in DOMAIN in.rows /\ Matches(t, in.rows[s])
    BY <1>4, <1>6, <1>8, <2>1
  <2> HIDE DEF r, s
  <2>3. s <= r /\ r <= s /\ r \in Int /\ s \in Int
    BY <1>1, <1>6, <1>8, <2>1, <2>2
  <2>4. s = r
    BY <2>3
  <2>q. QED BY <2>4 DEF s
<1> HIDE DEF k, r
<1>9. k \in DOMAIN settlementIdx <=> r # NoRow
  BY <1>5, <1>6, <1>7, Zenon
<1>q. QED BY <1>8, <1>9 DEF k, r

\* The keys counted more than once are those of the rows that share theirs.
LEMMA RepeatedAreDuplicates ==
    ASSUME LoopInv, i = Len(in.rows) + 1
    PROVE  {Discrepancy(k[1], k[2], "duplicate_settlement") : k \in Repeated}
             = Duplicates(in.rows)
<1> DEFINE shared == {j \in DOMAIN in.rows : \E l \in DOMAIN in.rows :
                        /\ l # j
                        /\ in.rows[l].TransactionID = in.rows[j].TransactionID
                        /\ in.rows[l].Acquirer = in.rows[j].Acquirer}
           flag(k) == Discrepancy(k[1], k[2], "duplicate_settlement")
<1>1. /\ DOMAIN in.rows = 1 .. i-1 /\ IndexInv
  BY InputsRead DEF LoopInv
<1>2. \A j, l : RowKey(in.rows[l]) = RowKey(in.rows[j]) <=>
                   /\ in.rows[l].TransactionID = in.rows[j].TransactionID
                   /\ in.rows[l].Acquirer = in.rows[j].Acquirer
  BY DEF RowKey
<1>3. \A k : k \in Repeated <=> k \in IndexedKeys /\ \E j, l \in IndexedRows(k) : j # l
  BY <1>1 DEF Repeated, IndexInv
<1>4. \A j \in DOMAIN in.rows : j \in shared <=> RowKey(in.rows[j]) \in Repeated
  <2> SUFFICES ASSUME NEW j \in DOMAIN in.rows
               PROVE  j \in shared <=> RowKey(in.rows[j]) \in Repeated
    OBVIOUS
  <2>1. j \in shared <=> \E l \in DOMAIN in.rows : l # j /\ RowKey(in.rows[l]) = RowKey(in.rows[j])
    BY <1>2
  <2>2. RowKey(in.rows[j]) \in IndexedKeys
    BY <1>1 DEF IndexedKeys
  <2>3. \A l : l \in IndexedRows(RowKey(in.rows[j])) <=>
              l \in DOMAIN in.rows /\ RowKey(in.rows[l]) = RowKey(in.rows[j])
    BY <1>1 DEF IndexedRows
  <2> HIDE DEF shared
  <2>q. QED BY <1>3, <2>1, <2>2, <2>3
<1>5. \A k \in Repeated : \E j \in DOMAIN in.rows : k = RowKey(in.rows[j])
  BY <1>1, <1>3 DEF IndexedKeys
<1>6. \A j : flag(RowKey(in.rows[j]))
          = Discrepancy(in.rows[j].TransactionID, in.rows[j].Acquirer, "duplicate_settlement")
  BY DEF RowKey
<1>7. Duplicates(in.rows) = {flag(RowKey(in.rows[j])) : j \in shared}
  BY <1>6 DEF Duplicates
<1>8. shared \subseteq DOMAIN in.rows
  OBVIOUS
<1> HIDE DEF shared, flag
<1>9. {flag(k) : k \in Repeated} = {flag(RowKey(in.rows[j])) : j \in shared}
  BY <1>4, <1>5, <1>8
<1>q. QED BY <1>7, <1>9 DEF flag

LEMMA FlagDuplicatesKeeps ==
    ASSUME LoopInv, FlagDuplicates
    PROVE  LoopInv'
<1>1. /\ in \in Inputs /\ IndexInv /\ MatchInv /\ phase = "index"
      /\ i = Len(in.rows) + 1
  BY InputsRead DEF LoopInv, FlagDuplicates, IndexInv
<1>2. /\ phase' = "match" /\ discrepancies' = Duplicates(in.rows)
      /\ UNCHANGED <<in, i, settlementIdx, dupCount, todo, consumed, keysLeft, reconciled>>
  BY <1>1, RepeatedAreDuplicates DEF FlagDuplicates
<1>3. IndexInv'
  BY <1>1, <1>2 DEF IndexInv, IndexedKeys, IndexedRows
<1>4. todo = in.txns /\ consumed = {} /\ reconciled = {}
  BY <1>1 DEF MatchInv
<1>5. Handled' = {}
  BY <1>2, <1>4 DEF Handled
<1>6. /\ Consumed({})' = {} /\ Reconciled({}, in.rows, in.asOf) = {}
      /\ AmountMismatches({}, in.rows) = {} /\ AcquirerMismatches({}, in.rows) = {}
  BY DEF Consumed, Reconciled, AmountMismatches, AcquirerMismatches
<1>7. MatchInv'
  BY <1>1, <1>2, <1>4, <1>5, <1>6, Zenon DEF MatchInv
<1>8. UnknownInv'
  BY <1>2 DEF UnknownInv
<1>q. QED BY <1>1, <1>2, <1>3, <1>7, <1>8 DEF LoopInv

-----------------------------------------------------------------------------
(***************************************************************************)
(* The matching, one transaction at a time.                                *)
(***************************************************************************)
\* What a transaction with a row adds to the result.
LEMMA OneSettled ==
    ASSUME NEW ts, NEW t, UsedRow(t, in.rows) # NoRow
    PROVE  LET r == UsedRow(t, in.rows) IN
           /\ Reconciled(ts \cup {t}, in.rows, in.asOf)
                = Reconciled(ts, in.rows, in.asOf) \cup {Entry(t, "settled", r)}
           /\ AmountMismatches(ts \cup {t}, in.rows)
                = AmountMismatches(ts, in.rows) \cup
                    {Discrepancy(t.ID, t.Acquirer, "amount_mismatch") :
                        row \in {x \in {r} : in.rows[x].GrossMinor # t.AmountMinor}}
           /\ AcquirerMismatches(ts \cup {t}, in.rows) = AcquirerMismatches(ts, in.rows)
           /\ Consumed(ts \cup {t}) = Consumed(ts) \cup {TxnKey(t)}
<1> DEFINE r == UsedRow(t, in.rows)
           entry(u) == [Transaction |-> u, Status |-> Status(u, in.rows, in.asOf),
                        Settlement |-> UsedRow(u, in.rows)]
           flag(u) == Discrepancy(u.ID, u.Acquirer, "amount_mismatch")
           strays(u) == {Discrepancy(u.ID, in.rows[j].Acquirer, "acquirer_mismatch") :
                            j \in {l \in DOMAIN in.rows : SameTxn(u, in.rows[l])}}
<1>1. Reconciled(ts \cup {t}, in.rows, in.asOf)
        = Reconciled(ts, in.rows, in.asOf) \cup {Entry(t, "settled", r)}
  <2>1. \A us : Reconciled(us, in.rows, in.asOf) = {entry(u) : u \in us}
    BY DEF Reconciled
  <2>2. entry(t) = Entry(t, "settled", r)
    BY DEF Status, Entry
  <2> HIDE DEF entry
  <2>3. {entry(u) : u \in ts \cup {t}} = {entry(u) : u \in ts} \cup {entry(t)}
    OBVIOUS
  <2>q. QED BY <2>1, <2>2, <2>3, Zenon
<1>2. AmountMismatches(ts \cup {t}, in.rows)
        = AmountMismatches(ts, in.rows) \cup
            {flag(t) : row \in {x \in {r} : in.rows[x].GrossMinor # t.AmountMinor}}
  <2> DEFINE off(u) == /\ UsedRow(u, in.rows) # NoRow
                       /\ in.rows[UsedRow(u, in.rows)].GrossMinor # u.AmountMinor
  <2>1. \A us : AmountMismatches(us, in.rows) = {flag(u) : u \in {v \in us : off(v)}}
    BY DEF AmountMismatches
  <2>2. off(t) <=> in.rows[r].GrossMinor # t.AmountMinor
    OBVIOUS
  <2> HIDE DEF off, flag, r
  <2>3. {flag(u) : u \in {v \in ts \cup {t} : off(v)}}
          = {flag(u) : u \in {v \in ts : off(v)}} \cup
              {flag(t) : row \in {x \in {r} : in.rows[x].GrossMinor # t.AmountMinor}}
    BY <2>2
  <2>q. QED BY <2>1, <2>3, Zenon
<1>3. AcquirerMismatches(ts \cup {t}, in.rows) = AcquirerMismatches(ts, in.rows)
  <2>1. {u \in ts \cup {t} : UsedRow(u, in.rows) = NoRow} = {u \in ts : UsedRow(u, in.rows) = NoRow}
    OBVIOUS
  <2>2. \A us : AcquirerMismatches(us, in.rows)
                 = UNION {strays(u) : u \in {v \in us : UsedRow(v, in.rows) = NoRow}}
    BY DEF AcquirerMismatches
  <2> HIDE DEF strays
  <2>q. QED BY <2>1, <2>2, Zenon
<1>4. Consumed(ts \cup {t}) = Consumed(ts) \cup {TxnKey(t)}
  <2>1. {u \in ts \cup {t} : UsedRow(u, in.rows) # NoRow}
          = {u \in ts : UsedRow(u, in.rows) # NoRow} \cup {t}
    OBVIOUS
  <2>2. {TxnKey(u) : u \in {v \in ts \cup {t} : UsedRow(v, in.rows) # NoRow}}
          = {TxnKey(u) : u \in {v \in ts : UsedRow(v, in.rows) # NoRow}} \cup {TxnKey(t)}
    BY <2>1
  <2>3. \A s : (\E u \in ts \cup {t} : UsedRow(u, in.rows) = NoRow /\ SameTxn(u, s))
               <=> (\E u \in ts : UsedRow(u, in.rows) = NoRow /\ SameTxn(u, s))
    OBVIOUS
  <2>q. QED BY <2>2, <2>3 DEF Consumed
<1>q. QED BY <1>1, <1>2, <1>3, <1>4

\* What a transaction without a row adds: it stays open, and the rows it has
\* under other acquirers are flagged and consumed.
LEMMA OneOpen ==
    ASSUME NEW ts, NEW t, UsedRow(t, in.rows) = NoRow
    PROVE  LET strays == {j \in DOMAIN in.rows : SameTxn(t, in.rows[j])} IN
           /\ Reconciled(ts \cup {t}, in.rows, in.asOf)
                = Reconciled(ts, in.rows, in.asOf) \cup
                    {Entry(t, IF t.ExpectedSettleDate < in.asOf THEN "overdue" ELSE "pending", NoRow)}
           /\ AmountMismatches(ts \cup {t}, in.rows) = AmountMismatches(ts, in.rows)
           /\ AcquirerMismatches(ts \cup {t}, in.rows)
                = AcquirerMismatches(ts, in.rows) \cup
                    {Discrepancy(t.ID, in.rows[j].Acquirer, "acquirer_mismatch") : j \in strays}
           /\ Consumed(ts \cup {t}) = Consumed(ts) \cup {RowKey(in.rows[j]) : j \in strays}
<1> DEFINE entry(u) == [Transaction |-> u, Status |-> Status(u, in.rows, in.asOf),
                        Settlement |-> UsedRow(u, in.rows)]
           flags(u) == {Discrepancy(u.ID, in.rows[j].Acquirer, "acquirer_mismatch") :
                            j \in {l \in DOMAIN in.rows : SameTxn(u, in.rows[l])}}
           open(us) == {u \in us : UsedRow(u, in.rows) = NoRow}
<1>1. Reconciled(ts \cup {t}, in.rows, in.asOf)
        = Reconciled(ts, in.rows, in.asOf) \cup
            {Entry(t, IF t.ExpectedSettleDate < in.asOf THEN "overdue" ELSE "pending", NoRow)}
  <2>1. \A us : Reconciled(us, in.rows, in.asOf) = {entry(u) : u \in us}
    BY DEF Reconciled
  <2>2. entry(t) = Entry(t, IF t.ExpectedSettleDate < in.asOf THEN "overdue" ELSE "pending", NoRow)
    BY DEF Status, Entry
  <2> HIDE DEF entry
  <2>3. {entry(u) : u \in ts \cup {t}} = {entry(u) : u \in ts} \cup {entry(t)}
    OBVIOUS
  <2>q. QED BY <2>1, <2>2, <2>3, Zenon
<1>2. AmountMismatches(ts \cup {t}, in.rows) = AmountMismatches(ts, in.rows)
  <2>1. {u \in ts \cup {t} : /\ UsedRow(u, in.rows) # NoRow
                             /\ in.rows[UsedRow(u, in.rows)].GrossMinor # u.AmountMinor}
          = {u \in ts : /\ UsedRow(u, in.rows) # NoRow
                        /\ in.rows[UsedRow(u, in.rows)].GrossMinor # u.AmountMinor}
    OBVIOUS
  <2>q. QED BY <2>1, Zenon DEF AmountMismatches
<1>3. AcquirerMismatches(ts \cup {t}, in.rows) = AcquirerMismatches(ts, in.rows) \cup flags(t)
  <2>1. \A us : AcquirerMismatches(us, in.rows) = UNION {flags(u) : u \in open(us)}
    BY DEF AcquirerMismatches
  <2>2. open(ts \cup {t}) = open(ts) \cup {t}
    OBVIOUS
  <2>3. \A us, x : x \in AcquirerMismatches(us, in.rows) <=> \E u \in open(us) : x \in flags(u)
    BY <2>1
  <2> HIDE DEF open, flags
  <2>4. \A x : (\E u \in open(ts \cup {t}) : x \in flags(u))
               <=> (\E u \in open(ts) : x \in flags(u)) \/ x \in flags(t)
    BY <2>2
  <2>5. \A x : x \in AcquirerMismatches(ts \cup {t}, in.rows)
               <=> x \in AcquirerMismatches(ts, in.rows) \cup flags(t)
    BY <2>3, <2>4
  <2>q. QED BY <2>5, Zenon
<1>4. Consumed(ts \cup {t})
        = Consumed(ts) \cup {RowKey(in.rows[j]) : j \in {l \in DOMAIN in.rows : SameTxn(t, in.rows[l])}}
  <2> DEFINE rows(us) == {l \in DOMAIN in.rows :
                            \E u \in us : UsedRow(u, in.rows) = NoRow /\ SameTxn(u, in.rows[l])}
             keys(us) == {TxnKey(u) : u \in {v \in us : UsedRow(v, in.rows) # NoRow}}
             own == {l \in DOMAIN in.rows : SameTxn(t, in.rows[l])}
  <2>1. {v \in ts \cup {t} : UsedRow(v, in.rows) # NoRow} = {v \in ts : UsedRow(v, in.rows) # NoRow}
    OBVIOUS
  <2>2. keys(ts \cup {t}) = keys(ts)
    BY <2>1, Zenon
  <2>3. rows(ts \cup {t}) = rows(ts) \cup own
    OBVIOUS
  <2>4. \A us : Consumed(us) = keys(us) \cup {RowKey(in.rows[j]) : j \in rows(us)}
    BY DEF Consumed
  <2> HIDE DEF rows, keys, own
  <2>5. Consumed(ts \cup {t}) = keys(ts) \cup {RowKey(in.rows[j]) : j \in rows(ts) \cup own}
    BY <2>2, <2>3, <2>4, Zenon
  <2>6. Consumed(ts \cup {t}) = Consumed(ts) \cup {RowKey(in.rows[j]) : j \in own}
    BY <2>4, <2>5
  <2>q. QED BY <2>6 DEF own
<1>q. QED BY <1>1, <1>2, <1>3, <1>4

\* Without a row of its own, all rows of a transaction are strays.
LEMMA StraysWithoutMatch ==
    ASSUME LoopInv, NEW t, UsedRow(t, in.rows) = NoRow
    PROVE  {j \in DOMAIN in.rows : /\ in.rows[j].TransactionID = t.ID
                                   /\ in.rows[j].Acquirer # t.Acquirer}
             = {j \in DOMAIN in.rows : SameTxn(t, in.rows[j])}
<1>1. \A j \in DOMAIN in.rows : ~Matches(t, in.rows[j])
  BY InputsRead, UsedRowSpec DEF LoopInv
<1>q. QED BY <1>1 DEF Matches, SameTxn

LEMMA MatchTransactionKeeps ==
    ASSUME LoopInv, MatchTransaction
    PROVE  LoopInv'
<1>t. PICK t \in todo : (MatchExactly(t) \/ MatchNothing(t)) /\ todo' = todo \ {t}
  BY DEF MatchTransaction
<1>h. PICK h : h = Handled
  OBVIOUS
<1>1. /\ in \in Inputs /\ IndexInv /\ MatchInv /\ UnknownInv /\ phase = "match"
      /\ UNCHANGED <<in, phase, i, settlementIdx, dupCount, keysLeft>>
  BY DEF LoopInv, MatchTransaction
<1>2. /\ todo \subseteq in.txns /\ i = Len(in.rows) + 1
      /\ consumed = Consumed(h)
      /\ reconciled = Reconciled(h, in.rows, in.asOf)
      /\ discrepancies = Duplicates(in.rows) \cup AmountMismatches(h, in.rows)
                            \cup AcquirerMismatches(h, in.rows)
  BY <1>1, <1>h DEF MatchInv
<1>3. Handled' = h \cup {t} /\ todo' \subseteq in.txns
  BY <1>1, <1>2, <1>t, <1>h DEF Handled
<1>4. IndexInv'
  BY <1>1 DEF IndexInv, IndexedKeys, IndexedRows
<1>5. /\ TxnKey(t) \in DOMAIN settlementIdx <=> UsedRow(t, in.rows) # NoRow
      /\ UsedRow(t, in.rows) # NoRow => settlementIdx[TxnKey(t)] = UsedRow(t, in.rows)
  BY <1>1, IndexFindsUsedRow
<1>6. /\ consumed' = Consumed(h \cup {t})
      /\ reconciled' = Reconciled(h \cup {t}, in.rows, in.asOf)
      /\ discrepancies' = Duplicates(in.rows) \cup AmountMismatches(h \cup {t}, in.rows)
                            \cup AcquirerMismatches(h \cup {t}, in.rows)
  <2>1. CASE MatchExactly(t)
    <3> DEFINE flags == {Discrepancy(t.ID, t.Acquirer, "amount_mismatch") :
                  row \in {x \in {UsedRow(t, in.rows)} : in.rows[x].GrossMinor # t.AmountMinor}}
    <3>1. UsedRow(t, in.rows) # NoRow /\ settlementIdx[TxnKey(t)] = UsedRow(t, in.rows)
      BY <1>5, <2>1 DEF MatchExactly
    <3>2. /\ consumed' = consumed \cup {TxnKey(t)}
          /\ discrepancies' = discrepancies \cup flags
          /\ reconciled' = reconciled \cup {Entry(t, "settled", UsedRow(t, in.rows))}
      BY <2>1, <3>1, Zenon DEF MatchExactly
    <3>3. /\ Reconciled(h \cup {t}, in.rows, in.asOf)
               = Reconciled(h, in.rows, in.asOf) \cup {Entry(t, "settled", UsedRow(t, in.rows))}
          /\ AmountMismatches(h \cup {t}, in.rows) = AmountMismatches(h, in.rows) \cup flags
          /\ AcquirerMismatches(h \cup {t}, in.rows) = AcquirerMismatches(h, in.rows)
          /\ Consumed(h \cup {t}) = Consumed(h) \cup {TxnKey(t)}
      BY <3>1, OneSettled, Zenon
    <3> HIDE DEF flags
    <3>4. discrepancies' = Duplicates(in.rows) \cup AmountMismatches(h \cup {t}, in.rows)
                              \cup AcquirerMismatches(h \cup {t}, in.rows)
      BY <1>2, <3>2, <3>3
    <3>q. QED BY <1>2, <3>2, <3>3, <3>4, Zenon
  <2>2. CASE MatchNothing(t)
    <3> DEFINE others == {j \in DOMAIN in.rows : /\ in.rows[j].TransactionID = t.ID
                                                 /\ in.rows[j].Acquirer # t.Acquirer}
               rows == {j \in DOMAIN in.rows : SameTxn(t, in.rows[j])}
               status == IF t.ExpectedSettleDate < in.asOf THEN "overdue" ELSE "pending"
               flags == {Discrepancy(t.ID, in.rows[j].Acquirer, "acquirer_mismatch") : j \in rows}
    <3>1. UsedRow(t, in.rows) = NoRow
      BY <1>5, <2>2 DEF MatchNothing
    <3>2. others = rows
      BY <3>1, StraysWithoutMatch
    <3>3. /\ consumed' = consumed \cup {RowKey(in.rows[j]) : j \in others}
          /\ discrepancies' = discrepancies \cup
                {Discrepancy(t.ID, in.rows[j].Acquirer, "acquirer_mismatch") : j \in others}
          /\ reconciled' = reconciled \cup {Entry(t, status, NoRow)}
      BY <2>2, Zenon DEF MatchNothing
    <3>4. /\ Reconciled(h \cup {t}, in.rows, in.asOf)
               = Reconciled(h, in.rows, in.asOf) \cup {Entry(t, status, NoRow)}
          /\ AmountMismatches(h \cup {t}, in.rows) = AmountMismatches(h, in.rows)
          /\ AcquirerMismatches(h \cup {t}, in.rows) = AcquirerMismatches(h, in.rows) \cup flags
          /\ Consumed(h \cup {t}) = Consumed(h) \cup {RowKey(in.rows[j]) : j \in rows}
      BY <3>1, OneOpen, Zenon
    <3>5. discrepancies' = discrepancies \cup flags
      BY <3>2, <3>3, Zenon
    <3> HIDE DEF others, rows, flags, status
    <3>6. discrepancies' = Duplicates(in.rows) \cup AmountMismatches(h \cup {t}, in.rows)
                              \cup AcquirerMismatches(h \cup {t}, in.rows)
      BY <1>2, <3>4, <3>5
    <3>q. QED BY <1>2, <3>2, <3>3, <3>4, <3>6, Zenon
  <2>q. QED BY <1>t, <2>1, <2>2
<1>7. Consumed(h \cup {t})' = Consumed(h \cup {t})
  BY <1>1 DEF Consumed
<1>8. MatchInv'
  <2>1. consumed' = Consumed(Handled)'
    BY <1>3, <1>6, <1>7, Zenon
  <2>2. /\ reconciled' = Reconciled(Handled, in.rows, in.asOf)'
        /\ discrepancies' = (Duplicates(in.rows) \cup AmountMismatches(Handled, in.rows)
                                \cup AcquirerMismatches(Handled, in.rows))'
    BY <1>1, <1>3, <1>6, Zenon
  <2>q. QED BY <1>1, <1>2, <1>3, <2>1, <2>2, Zenon DEF MatchInv
<1>9. UnknownInv'
  BY <1>1 DEF UnknownInv
<1>q. QED BY <1>1, <1>4, <1>8, <1>9 DEF LoopInv

LEMMA AllMatchedKeeps ==
    ASSUME LoopInv, AllMatched
    PROVE  LoopInv'
<1>1. /\ in \in Inputs /\ IndexInv /\ MatchInv /\ phase = "match" /\ todo = {}
      /\ phase' = "unknown" /\ keysLeft' = IndexedKeys
      /\ UNCHANGED <<in, i, settlementIdx, dupCount, todo, consumed, reconciled, discrepancies>>
  BY DEF LoopInv, IndexInv, AllMatched
<1>2. Handled = in.txns /\ Handled' = Handled
  BY <1>1 DEF Handled
<1>3. IndexInv' /\ IndexedKeys' = IndexedKeys
  BY <1>1 DEF IndexInv, IndexedKeys, IndexedRows
<1>4. MatchInv'
  <2>1. consumed' = Consumed(Handled)'
    BY <1>1, <1>2 DEF MatchInv, Consumed
  <2>2. reconciled' = Reconciled(Handled, in.rows, in.asOf)'
    BY <1>1, <1>2, Zenon DEF MatchInv
  <2>3. todo' \subseteq in'.txns /\ i' = Len(in'.rows) + 1
    BY <1>1 DEF MatchInv
  <2>q. QED BY <1>1, <2>1, <2>2, <2>3 DEF MatchInv
<1>5. UnknownInv'
  <2>1. discrepancies = Duplicates(in.rows) \cup AmountMismatches(in.txns, in.rows)
                            \cup AcquirerMismatches(in.txns, in.rows)
    BY <1>1, <1>2, Zenon DEF MatchInv
  <2>3. phase' # "done"
    BY <1>1
  <2>5. (IndexedKeys \ keysLeft)' = {}
    BY <1>1, <1>3
  <2>6. {Discrepancy(k[1], k[2], "unknown_transaction") :
            k \in {x \in IndexedKeys \ keysLeft : ~KnownTxn(x[1])}}' = {}
    BY <2>5
  <2>7. discrepancies' = (Duplicates(in.rows) \cup AmountMismatches(in.txns, in.rows)
                            \cup AcquirerMismatches(in.txns, in.rows))' \cup {}
    BY <1>1, <2>1, Zenon
  <2>8. todo' = {} /\ keysLeft' \subseteq IndexedKeys'
    BY <1>1, <1>3
  <2>q. QED BY <2>3, <2>6, <2>7, <2>8, Zenon DEF UnknownInv
<1>q. QED BY <1>1, <1>3, <1>4, <1>5 DEF LoopInv

\* What was consumed belongs to a known transaction: that a key was consumed
\* never decides whether the last loop passes it over.
LEMMA ConsumedIsKnown ==
    ASSUME NEW k \in Consumed(in.txns)
    PROVE  KnownTxn(k[1])
BY DEF Consumed, KnownTxn, TxnKey, RowKey, SameTxn

LEMMA FlagUnknownKeeps ==
    ASSUME LoopInv, FlagUnknown
    PROVE  LoopInv'
<1>k. PICK k \in keysLeft :
          /\ keysLeft' = keysLeft \ {k}
          /\ \/ PassesOver(k) /\ discrepancies' = discrepancies
             \/ /\ ~PassesOver(k)
                /\ discrepancies' = discrepancies \cup
                      {Discrepancy(k[1], k[2], "unknown_transaction")}
  BY DEF FlagUnknown
<1> DEFINE flag(x) == Discrepancy(x[1], x[2], "unknown_transaction")
           known == Duplicates(in.rows) \cup AmountMismatches(in.txns, in.rows)
                      \cup AcquirerMismatches(in.txns, in.rows)
           strange(keys) == {x \in IndexedKeys \ keys : ~KnownTxn(x[1])}
<1>1. /\ in \in Inputs /\ IndexInv /\ MatchInv /\ UnknownInv /\ phase = "unknown"
      /\ UNCHANGED <<in, phase, i, settlementIdx, dupCount, todo, consumed, reconciled>>
  BY DEF LoopInv, FlagUnknown
<1>2. /\ todo = {} /\ keysLeft \subseteq IndexedKeys
      /\ discrepancies = known \cup {flag(x) : x \in strange(keysLeft)}
  BY <1>1 DEF UnknownInv
<1>3. PassesOver(k) <=> KnownTxn(k[1])
  <2>1. Handled = in.txns
    BY <1>2 DEF Handled
  <2>2. consumed = Consumed(in.txns)
    BY <1>1, <2>1 DEF MatchInv
  <2>q. QED BY <2>2, ConsumedIsKnown DEF PassesOver
<1>4. discrepancies' = known \cup {flag(x) : x \in strange(keysLeft \ {k})}
  <2>1. IndexedKeys \ (keysLeft \ {k}) = (IndexedKeys \ keysLeft) \cup {k}
    BY <1>2
  <2>2. CASE KnownTxn(k[1])
    <3>1. strange(keysLeft \ {k}) = strange(keysLeft)
      BY <2>1, <2>2
    <3>q. QED BY <1>k, <1>2, <1>3, <2>2, <3>1, Zenon
  <2>3. CASE ~KnownTxn(k[1])
    <3>1. strange(keysLeft \ {k}) = strange(keysLeft) \cup {k}
      BY <2>1, <2>3
    <3>2. discrepancies' = discrepancies \cup {flag(k)}
      BY <1>k, <1>3, <2>3
    <3> HIDE DEF strange, flag, known
    <3>3. {flag(x) : x \in strange(keysLeft) \cup {k}}
            = {flag(x) : x \in strange(keysLeft)} \cup {flag(k)}
      OBVIOUS
    <3>q. QED BY <1>2, <3>1, <3>2, <3>3
  <2>q. QED BY <2>2, <2>3
<1>5. IndexInv' /\ IndexedKeys' = IndexedKeys /\ Handled' = Handled
  BY <1>1 DEF IndexInv, IndexedKeys, IndexedRows, Handled
<1>6. MatchInv'
  <2>1. consumed' = Consumed(Handled)'
    BY <1>1, <1>5 DEF MatchInv, Consumed
  <2>2. reconciled' = Reconciled(Handled, in.rows, in.asOf)'
    BY <1>1, <1>5, Zenon DEF MatchInv
  <2>3. todo' \subseteq in'.txns /\ i' = Len(in'.rows) + 1
    BY <1>1 DEF MatchInv
  <2>q. QED BY <1>1, <2>1, <2>2, <2>3 DEF MatchInv
<1>7. UnknownInv'
  <2>1. \A x : KnownTxn(x)' <=> KnownTxn(x)
    BY <1>1 DEF KnownTxn
  <2>2. {x \in IndexedKeys \ keysLeft : ~KnownTxn(x[1])}' = strange(keysLeft \ {k})
    BY <1>k, <1>5, <2>1
  <2>3. discrepancies' = known' \cup
          {Discrepancy(x[1], x[2], "unknown_transaction") :
              x \in {y \in IndexedKeys \ keysLeft : ~KnownTxn(y[1])}}'
    <3>1. known' = known
      BY <1>1, Zenon
    <3> HIDE DEF known, strange
    <3>q. QED BY <1>4, <2>2, <3>1, Zenon
  <2>4. todo' = {} /\ keysLeft' \subseteq IndexedKeys' /\ phase' = "unknown"
    BY <1>k, <1>1, <1>2, <1>5
  <2>q. QED BY <2>3, <2>4 DEF UnknownInv
<1>q. QED BY <1>1, <1>5, <1>6, <1>7 DEF LoopInv

LEMMA ReturnKeeps ==
    ASSUME LoopInv, Return
    PROVE  LoopInv'
<1>1. /\ in \in Inputs /\ IndexInv /\ MatchInv /\ UnknownInv /\ phase = "unknown"
      /\ keysLeft = {} /\ phase' = "done"
      /\ UNCHANGED <<in, i, settlementIdx, dupCount, todo, consumed, keysLeft,
                     reconciled, discrepancies>>
  BY DEF LoopInv, Return
<1>2. /\ IndexInv' /\ IndexedKeys' = IndexedKeys /\ Handled' = Handled
      /\ Consumed(Handled)' = Consumed(Handled)
      /\ \A x : KnownTxn(x)' <=> KnownTxn(x)
  BY <1>1 DEF IndexInv, IndexedKeys, IndexedRows, Handled, Consumed, KnownTxn
<1>3. MatchInv'
  <2>1. reconciled' = Reconciled(Handled, in.rows, in.asOf)'
    BY <1>1, <1>2, Zenon DEF MatchInv
  <2>q. QED BY <1>1, <1>2, <2>1 DEF MatchInv
<1>4. UnknownInv'
  <2>1. {x \in IndexedKeys \ keysLeft : ~KnownTxn(x[1])}'
          = {x \in IndexedKeys \ keysLeft : ~KnownTxn(x[1])}
    BY <1>1, <1>2
  <2>q. QED BY <1>1, <1>2, <2>1, Zenon DEF UnknownInv
<1>q. QED BY <1>1, <1>2, <1>3, <1>4 DEF LoopInv

LEMMA LoopInitially ==
    ASSUME LoopInit
    PROVE  LoopInv
<1>1. /\ in \in Inputs /\ phase = "index" /\ i = 1
      /\ settlementIdx = NoKeys /\ dupCount = NoKeys
      /\ Len(in.rows) \in Nat
      /\ todo = in.txns
      /\ consumed = {} /\ reconciled = {} /\ discrepancies = {}
  BY InputsRead DEF LoopInit
<1>2. IndexInv
  <2>1. i \in 1 .. Len(in.rows) + 1
    BY <1>1
  <2>2. IndexedKeys = {}
    BY <1>1 DEF IndexedKeys
  <2>3. DOMAIN settlementIdx = {} /\ DOMAIN dupCount = {}
    BY <1>1 DEF NoKeys
  <2>q. QED BY <2>1, <2>2, <2>3 DEF IndexInv
<1>q. QED BY <1>1, <1>2 DEF LoopInv, MatchInv, UnknownInv

LEMMA LoopKeeps ==
    ASSUME LoopInv, [LoopNext]_loopVars
    PROVE  LoopInv'
<1>1. CASE UNCHANGED loopVars
  <2>1. UNCHANGED <<in, phase, i, settlementIdx, dupCount, todo, consumed, keysLeft,
                    reconciled, discrepancies>>
    BY <1>1 DEF loopVars
  <2>2. /\ IndexedKeys' = IndexedKeys /\ Handled' = Handled
        /\ Consumed(Handled)' = Consumed(Handled)
        /\ \A x : KnownTxn(x)' <=> KnownTxn(x)
        /\ \A x : IndexedRows(x)' = IndexedRows(x)
    BY <2>1 DEF IndexedKeys, IndexedRows, Handled, Consumed, KnownTxn
  <2>3. IndexInv'
    BY <2>1, <2>2 DEF LoopInv, IndexInv
  <2>4. MatchInv'
    <3>1. /\ Reconciled(Handled, in.rows, in.asOf)' = Reconciled(Handled, in.rows, in.asOf)
          /\ Duplicates(in.rows)' = Duplicates(in.rows)
          /\ AmountMismatches(Handled, in.rows)' = AmountMismatches(Handled, in.rows)
          /\ AcquirerMismatches(Handled, in.rows)' = AcquirerMismatches(Handled, in.rows)
      BY <2>1, <2>2, Zenon
    <3>q. QED BY <2>1, <2>2, <3>1 DEF LoopInv, MatchInv
  <2>5. UnknownInv'
    <3>1. {x \in IndexedKeys \ keysLeft : ~KnownTxn(x[1])}'
            = {x \in IndexedKeys \ keysLeft : ~KnownTxn(x[1])}
      BY <2>1, <2>2
    <3>q. QED BY <2>1, <2>2, <3>1, Zenon DEF LoopInv, UnknownInv
  <2>q. QED BY <2>1, <2>3, <2>4, <2>5 DEF LoopInv
<1>q. QED
  BY <1>1, IndexRowKeeps, FlagDuplicatesKeeps, MatchTransactionKeeps, AllMatchedKeeps,
     FlagUnknownKeeps, ReturnKeeps DEF LoopNext

-----------------------------------------------------------------------------
(***************************************************************************)
(* What the loops have computed when they return.                          *)
(***************************************************************************)
LEMMA LoopsDone ==
    ASSUME LoopInv, phase = "done"
    PROVE  /\ reconciled = Reconciled(in.txns, in.rows, in.asOf)
           /\ discrepancies = Discrepancies(in.txns, in.rows)
<1> DEFINE flag(x) == Discrepancy(x[1], x[2], "unknown_transaction")
           strange == {k \in IndexedKeys : ~KnownTxn(k[1])}
           rows == {j \in DOMAIN in.rows : \A t \in in.txns : ~SameTxn(t, in.rows[j])}
<1>1. /\ DOMAIN in.rows = 1 .. i-1 /\ todo = {} /\ keysLeft = {}
      /\ MatchInv /\ UnknownInv
  <2>1. /\ MatchInv /\ UnknownInv /\ Len(in.rows) \in Nat
        /\ DOMAIN in.rows = 1 .. Len(in.rows)
    BY InputsRead DEF LoopInv
  <2>q. QED BY <2>1 DEF MatchInv, UnknownInv
<1>2. Handled = in.txns
  BY <1>1 DEF Handled
<1>3. reconciled = Reconciled(in.txns, in.rows, in.asOf)
  BY <1>1, <1>2, Zenon DEF MatchInv
<1>4. \A j \in DOMAIN in.rows : j \in rows <=> RowKey(in.rows[j]) \in strange
  BY <1>1 DEF IndexedKeys, KnownTxn, SameTxn, RowKey
<1>5. \A k \in strange : \E j \in DOMAIN in.rows : k = RowKey(in.rows[j])
  BY <1>1 DEF IndexedKeys
<1>6. Unknown(in.txns, in.rows) = {flag(RowKey(in.rows[j])) : j \in rows}
  BY DEF Unknown, RowKey
<1>7. discrepancies = Duplicates(in.rows) \cup AmountMismatches(in.txns, in.rows)
                        \cup AcquirerMismatches(in.txns, in.rows) \cup {flag(k) : k \in strange}
  <2>1. IndexedKeys \ keysLeft = IndexedKeys
    BY <1>1
  <2>q. QED BY <1>1, <2>1, Zenon DEF UnknownInv
<1>8. rows \subseteq DOMAIN in.rows
  OBVIOUS
<1> HIDE DEF rows, strange, flag
<1>9. {flag(k) : k \in strange} = {flag(RowKey(in.rows[j])) : j \in rows}
  BY <1>4, <1>5, <1>8
<1>q. QED BY <1>3, <1>6, <1>7, <1>9, Zenon DEF Discrepancies

\* Row by row: settled, a repeat, a stray, of no transaction, or beside a match.
LEMMA LoopsNoticeRows ==
    ASSUME LoopInv
    PROVE  RowsAccountedFor
<1> SUFFICES ASSUME phase = "done", NEW j \in DOMAIN in.rows, NEW s, s = in.rows[j]
             PROVE  \/ \E e \in reconciled : e.Settlement = j
                    \/ \E d \in discrepancies : d.TransactionID = s.TransactionID
                                                /\ d.Acquirer = s.Acquirer
                                                /\ d.Reason # "amount_mismatch"
                    \/ \E e \in reconciled : /\ e.Status = "settled"
                                             /\ e.Transaction.ID = s.TransactionID
                                             /\ e.Transaction.Acquirer # s.Acquirer
  BY DEF RowsAccountedFor
<1>1. /\ reconciled = Reconciled(in.txns, in.rows, in.asOf)
      /\ discrepancies = Discrepancies(in.txns, in.rows)
  BY LoopsDone
<1>2. in.rows \in Seq(SettlementRead)
  BY InputsRead DEF LoopInv
<1> DEFINE entry(t) == [Transaction |-> t, Status |-> Status(t, in.rows, in.asOf),
                        Settlement |-> UsedRow(t, in.rows)]
<1>3. \A t \in in.txns : entry(t) \in reconciled
  BY <1>1 DEF Reconciled
<1>4. \A reason : /\ Discrepancy(s.TransactionID, s.Acquirer, reason).TransactionID = s.TransactionID
                  /\ Discrepancy(s.TransactionID, s.Acquirer, reason).Acquirer = s.Acquirer
                  /\ Discrepancy(s.TransactionID, s.Acquirer, reason).Reason = reason
  BY DEF Discrepancy
<1>5. CASE \A t \in in.txns : ~SameTxn(t, s)
  <2>1. Discrepancy(s.TransactionID, s.Acquirer, "unknown_transaction") \in Unknown(in.txns, in.rows)
    BY <1>5 DEF Unknown
  <2>2. Discrepancy(s.TransactionID, s.Acquirer, "unknown_transaction") \in discrepancies
    BY <1>1, <2>1 DEF Discrepancies
  <2>q. QED BY <1>4, <2>2
<1>6. ASSUME NEW t \in in.txns, SameTxn(t, s)
      PROVE  \/ \E e \in reconciled : e.Settlement = j
             \/ \E d \in discrepancies : d.TransactionID = s.TransactionID
                                         /\ d.Acquirer = s.Acquirer
                                         /\ d.Reason # "amount_mismatch"
             \/ \E e \in reconciled : /\ e.Status = "settled"
                                      /\ e.Transaction.ID = s.TransactionID
                                      /\ e.Transaction.Acquirer # s.Acquirer
  <2> DEFINE r == UsedRow(t, in.rows)
  <2>1. /\ r # NoRow <=> \E l \in DOMAIN in.rows : Matches(t, in.rows[l])
        /\ r # NoRow => r \in DOMAIN in.rows /\ Matches(t, in.rows[r])
    BY <1>2, UsedRowSpec
  <2>2. entry(t) \in reconciled /\ entry(t).Settlement = r /\ entry(t).Transaction = t
    BY <1>3
  <2>3. CASE r = NoRow
    <3>1. Discrepancy(t.ID, s.Acquirer, "acquirer_mismatch") \in AcquirerMismatches(in.txns, in.rows)
      <4> DEFINE flags(u) == {Discrepancy(u.ID, in.rows[l].Acquirer, "acquirer_mismatch") :
                                 l \in {m \in DOMAIN in.rows : SameTxn(u, in.rows[m])}}
      <4>1. AcquirerMismatches(in.txns, in.rows)
              = UNION {flags(u) : u \in {v \in in.txns : UsedRow(v, in.rows) = NoRow}}
        BY DEF AcquirerMismatches
      <4>2. Discrepancy(t.ID, s.Acquirer, "acquirer_mismatch") \in flags(t)
        BY <1>6
      <4> HIDE DEF flags
      <4>3. t \in {v \in in.txns : UsedRow(v, in.rows) = NoRow}
        BY <2>3
      <4>q. QED BY <4>1, <4>2, <4>3
    <3>2. Discrepancy(s.TransactionID, s.Acquirer, "acquirer_mismatch") \in discrepancies
      BY <1>1, <1>6, <3>1 DEF Discrepancies, SameTxn
    <3>q. QED BY <1>4, <3>2
  <2>4. CASE r # NoRow /\ s.Acquirer # t.Acquirer
    <3>1. entry(t).Status = "settled"
      BY <2>4 DEF Status
    <3>2. t.ID = s.TransactionID
      BY <1>6 DEF SameTxn
    <3> HIDE DEF entry
    <3>q. QED BY <2>2, <2>4, <3>1, <3>2
  <2>5. CASE r # NoRow /\ s.Acquirer = t.Acquirer /\ r # j
    <3>1. /\ r \in DOMAIN in.rows
          /\ in.rows[r].TransactionID = s.TransactionID /\ in.rows[r].Acquirer = s.Acquirer
      BY <1>6, <2>1, <2>5 DEF Matches, SameTxn
    <3> HIDE DEF r
    <3>2. Discrepancy(s.TransactionID, s.Acquirer, "duplicate_settlement") \in Duplicates(in.rows)
      BY <2>5, <3>1 DEF Duplicates
    <3>3. Discrepancy(s.TransactionID, s.Acquirer, "duplicate_settlement") \in discrepancies
      BY <1>1, <3>2 DEF Discrepancies
    <3>q. QED BY <1>4, <3>3
  <2>6. CASE r = j
    BY <2>2, <2>6
  <2> HIDE DEF r, entry
  <2>q. QED BY <2>3, <2>4, <2>5, <2>6
<1>q. QED BY <1>5, <1>6

\* The loops of one call keep their invariant (reconcile.go, Reconcile).
THEOREM LoopsInvariant == LoopSpec => []LoopInv
<1>q. QED BY LoopInitially, LoopKeeps, PTL DEF LoopSpec

\* A forecast runs the loops of one reconciliation and adds nothing to them
\* (forecast.go, Forecast; handlers.go, the forecast query).
THEOREM ForecastReconciles == ForecastSpec => LoopSpec
<1>1. ForecastInit => LoopInit
  BY DEF ForecastInit
<1>2. [ForecastNext]_forecastVars => [LoopNext]_loopVars
  BY DEF ForecastNext, forecastVars, ReconcileOn, StartForecast, BucketEntry, ReturnForecast
<1>q. QED BY <1>1, <1>2, PTL DEF ForecastSpec, LoopSpec

\* The index, the loops and the order they visit the maps in compute the
\* result that module Reconcile defines, for any ledger (reconcile.go, Reconcile).
THEOREM LoopsAlwaysComputeReconcile == ForecastSpec => []LoopsComputeReconcile
<1>1. LoopInv => LoopsComputeReconcile
  BY LoopsDone DEF LoopsComputeReconcile
<1>q. QED BY <1>1, LoopsInvariant, ForecastReconciles, PTL

\* No row of any ledger goes unnoticed, but for the rows beside an exact match
\* (reconcile.go, Reconcile).
THEOREM RowsAlwaysAccountedFor == ForecastSpec => []RowsAccountedFor
<1>q. QED BY LoopsNoticeRows, LoopsInvariant, ForecastReconciles, PTL

-----------------------------------------------------------------------------
(***************************************************************************)
(* The buckets.                                                            *)
(***************************************************************************)
LEMMA Int64IsInt == Int64 \subseteq Int /\ 0 \in Int64
BY HalfRangeAssumption DEF Int64

\* Up to wrapping, each entry of a map is the sum of f over the elements of C
\* that its key names; or is exactly that.
SumsUp(map, name, f, C) ==
    /\ DOMAIN map = {name[u] : u \in C}
    /\ \A k \in DOMAIN map : /\ map[k] \in Int
                             /\ Wrap(map[k]) = Sum(f, {u \in C : name[u] = k})

AllInt64(map) == \A k \in DOMAIN map : map[k] \in Int64

Exactly(map, name, f, C) ==
    /\ DOMAIN map = {name[u] : u \in C}
    /\ \A k \in DOMAIN map : map[k] = Sum(f, {u \in C : name[u] = k})

\* What is within 64 bits is exact.
LEMMA ExactSums ==
    ASSUME NEW C, IsFiniteSet(C), NEW f, \A u \in C : f[u] \in Int, NEW name, NEW map
    PROVE  Exactly(map, name, f, C) <=> SumsUp(map, name, f, C) /\ AllInt64(map)
<1>1. ASSUME NEW k
      PROVE  /\ Sum(f, {u \in C : name[u] = k}) \in Int64
             /\ Sum(f, {u \in C : name[u] = k}) \in Int
             /\ Wrap(Sum(f, {u \in C : name[u] = k})) = Sum(f, {u \in C : name[u] = k})
  <2> DEFINE S == {u \in C : name[u] = k}
  <2>1. IsFiniteSet(S) /\ \A u \in S : f[u] \in Int
    BY FS_Subset
  <2> HIDE DEF S
  <2>2. Sum(f, S) \in Int64 /\ Sum(f, S) \in Int
    BY <2>1, SumType
  <2>3. Wrap(Sum(f, S)) = Sum(f, S)
    BY <2>2, WrapExact
  <2>q. QED BY <2>2, <2>3 DEF S
<1>2. ASSUME Exactly(map, name, f, C)
      PROVE  SumsUp(map, name, f, C) /\ AllInt64(map)
  <2> SUFFICES ASSUME NEW k \in DOMAIN map
               PROVE  /\ map[k] \in Int /\ map[k] \in Int64
                      /\ Wrap(map[k]) = Sum(f, {u \in C : name[u] = k})
    BY <1>2 DEF Exactly, SumsUp, AllInt64
  <2>1. map[k] = Sum(f, {u \in C : name[u] = k})
    BY <1>2, Zenon DEF Exactly
  <2>q. QED BY <1>1, <2>1, Zenon
<1>3. ASSUME SumsUp(map, name, f, C), AllInt64(map)
      PROVE  Exactly(map, name, f, C)
  <2>1. \A k \in DOMAIN map : Wrap(map[k]) = map[k]
    BY <1>3, WrapExact DEF AllInt64
  <2>q. QED BY <1>3, <2>1, Zenon DEF SumsUp, Exactly
<1>q. QED BY <1>2, <1>3

\* A map of running sums takes in one more term: each entry stays the sum over
\* the elements named by its key.
LEMMA PlusSum ==
    ASSUME NEW C, IsFiniteSet(C), NEW t, t \notin C,
           NEW name, NEW f, \A u \in C \cup {t} : f[u] \in Int,
           NEW map, SumsUp(map, name, f, C)
    PROVE  /\ SumsUp(Plus64(map, name[t], f[t]), name, f, C \cup {t})
           /\ f[t] \in Int64 /\ AllInt64(map) => AllInt64(Plus64(map, name[t], f[t]))
<1>new. PICK new : new = Plus64(map, name[t], f[t])
  OBVIOUS
<1>map. /\ DOMAIN map = {name[u] : u \in C}
        /\ \A k \in DOMAIN map : /\ map[k] \in Int
                                 /\ Wrap(map[k]) = Sum(f, {u \in C : name[u] = k})
  BY DEF SumsUp
<1>k. PICK k : k = name[t]
  OBVIOUS
<1> DEFINE v == IF k \in DOMAIN map THEN Wrap(map[k] + f[t]) ELSE f[t]
           own == {u \in C : name[u] = k}
<1>1. new = With(map, k, v)
  BY <1>k, <1>new DEF Plus64
<1>2. /\ DOMAIN new = DOMAIN map \cup {k} /\ new[k] = v
      /\ \A x \in DOMAIN map : x # k => new[x] = map[x]
  <2> HIDE DEF v
  <2>q. QED BY <1>1 DEF With
<1>3. {name[u] : u \in C \cup {t}} = {name[u] : u \in C} \cup {k}
  BY <1>k
<1>4. IsFiniteSet(own) /\ t \notin own /\ \A u \in own \cup {t} : f[u] \in Int
  BY FS_Subset
<1>5. Sum(f, own \cup {t}) = Wrap(Plain(f, own) + f[t]) /\ Plain(f, own) \in Int
  <2> HIDE DEF own
  <2>1. Plain(f, own \cup {t}) = Plain(f, own) + f[t] /\ Plain(f, own) \in Int
    BY <1>4, PlainAdd, PlainType
  <2>q. QED BY <2>1 DEF Sum, Plain
<1>6. {u \in C \cup {t} : name[u] = k} = own \cup {t}
  BY <1>k
<1>7. v \in Int /\ Wrap(v) = Sum(f, own \cup {t})
  <2>1. CASE k \in DOMAIN map
    <3>1. Wrap(map[k]) = Wrap(Plain(f, own)) /\ map[k] \in Int
      BY <1>map, <2>1 DEF Sum, Plain
    <3>2. f[t] \in Int /\ Plain(f, own) \in Int
      BY <1>4, <1>5
    <3> HIDE DEF own
    <3>3. Wrap(map[k] + f[t]) = Wrap(Wrap(map[k]) + f[t])
      BY <3>1, <3>2, WrapPlus
    <3>4. Wrap(Plain(f, own) + f[t]) = Wrap(Wrap(Plain(f, own)) + f[t])
      BY <3>2, WrapPlus
    <3>5. map[k] + f[t] \in Int
      BY <3>1, <3>2
    <3>6. v = Wrap(map[k] + f[t])
      BY <2>1
    <3> HIDE DEF v
    <3>7. Wrap(v) = v /\ v \in Int
      BY <3>5, <3>6, WrapTwice
    <3>q. QED BY <1>5, <3>1, <3>3, <3>4, <3>6, <3>7, Zenon
  <2>2. CASE k \notin DOMAIN map
    <3>1. own = {}
      BY <1>map, <2>2
    <3>2. Plain(f, own) = 0
      BY <3>1, PlainFirst, FS_EmptySet
    <3>3. v = f[t] /\ f[t] \in Int
      BY <1>4, <2>2
    <3> HIDE DEF own, v
    <3>4. Plain(f, own) + f[t] = f[t]
      BY <3>2, <3>3
    <3>q. QED BY <1>5, <3>3, <3>4
  <2>q. QED BY <2>1, <2>2
<1>8. \A x \in DOMAIN map : x # k => {u \in C \cup {t} : name[u] = x} = {u \in C : name[u] = x}
  BY <1>k
<1>9. \A x \in DOMAIN new : /\ new[x] \in Int
                            /\ Wrap(new[x]) = Sum(f, {u \in C \cup {t} : name[u] = x})
  <2> SUFFICES ASSUME NEW x \in DOMAIN new
               PROVE  /\ new[x] \in Int
                      /\ Wrap(new[x]) = Sum(f, {u \in C \cup {t} : name[u] = x})
    OBVIOUS
  <2> HIDE DEF v, own
  <2>1. CASE x = k
    BY <1>2, <1>6, <1>7, <2>1, Zenon
  <2>2. CASE x # k
    <3>1. x \in DOMAIN map /\ new[x] = map[x]
      BY <1>2, <2>2
    <3>2. {u \in C \cup {t} : name[u] = x} = {u \in C : name[u] = x}
      BY <1>8, <2>2, <3>1
    <3>q. QED BY <1>map, <3>1, <3>2, Zenon
  <2>q. QED BY <2>1, <2>2
<1>10. ASSUME f[t] \in Int64, \A x \in DOMAIN map : map[x] \in Int64
       PROVE  \A x \in DOMAIN new : new[x] \in Int64
  <2>1. v \in Int64
    <3>1. k \in DOMAIN map => map[k] + f[t] \in Int
      <4>1. (k \in DOMAIN map => map[k] \in Int) /\ f[t] \in Int
        BY <1>map, <1>4
      <4> HIDE DEF own
      <4>q. QED BY <4>1
    <3>2. k \in DOMAIN map => Wrap(map[k] + f[t]) \in Int64
      BY <3>1, WrapRange, Zenon
    <3>q. QED BY <1>10, <3>2
  <2> HIDE DEF v
  <2>q. QED BY <1>2, <1>10, <2>1
<1>11. SumsUp(new, name, f, C \cup {t})
  BY <1>2, <1>3, <1>9, <1>map, Zenon DEF SumsUp
<1>q. QED BY <1>new, <1>10, <1>11, Zenon DEF AllInt64

\* What is predicted for a transaction is of 64 bits, like everything computed.
LEMMA FeesAreInt ==
    ASSUME NEW a, NEW g \in Int64
    PROVE  ExpectedFee(a, g) \in Int
<1>1. \A bp \in Int : pctMinor(g, bp) \in Int
  <2> SUFFICES ASSUME NEW bp \in Int PROVE pctMinor(g, bp) \in Int
    OBVIOUS
  <2>1. PICK w \in Int : w = g * bp + 5000
    BY Int64IsInt
  <2>2. Wrap(g * bp + 5000) \in Int
    BY <2>1, WrapTwice
  <2>3. \A x \in Int : Quo(x, 10000) \in Int
    BY DEF Quo
  <2>q. QED BY <2>2, <2>3 DEF pctMinor
<1>2. PromptRate(g) \in Int
  BY DEF PromptRate
<1>3. Wrap(1000 + pctMinor(g, 200)) \in Int
  <2>1. PICK w \in Int : w = 1000 + pctMinor(g, 200)
    BY <1>1
  <2>q. QED BY <2>1, WrapTwice
<1>q. QED BY <1>1, <1>2, <1>3 DEF ExpectedFee

LEMMA NetsAreInt64 ==
    ASSUME in \in Inputs
    PROVE  \A t \in in.txns : /\ t.Acquirer \in Acquirers /\ t.AmountMinor \in Int64
                             /\ t.ExpectedSettleDate \in Int
                             /\ PredictedNet(t) \in Int64 /\ PredictedNet(t) \in Int
                             /\ PredictedNet(t) = Wrap(t.AmountMinor
                                                       - ExpectedFee(t.Acquirer, t.AmountMinor))
<1> SUFFICES ASSUME NEW t \in in.txns
             PROVE  /\ t.Acquirer \in Acquirers /\ t.AmountMinor \in Int64
                    /\ t.ExpectedSettleDate \in Int
                    /\ PredictedNet(t) \in Int64 /\ PredictedNet(t) \in Int
                    /\ PredictedNet(t) = Wrap(t.AmountMinor
                                              - ExpectedFee(t.Acquirer, t.AmountMinor))
  OBVIOUS
<1>1. \A u \in TransactionRead : u.Acquirer \in Acquirers /\ u.ExpectedSettleDate \in Int
  BY DEF TransactionRead
<1>2. t.Acquirer \in Acquirers /\ t.ExpectedSettleDate \in Int /\ t.AmountMinor \in Int64
  BY <1>1, InputsRead, AmountsAssumption
<1>3. t.AmountMinor - ExpectedFee(t.Acquirer, t.AmountMinor) \in Int
  <2>1. ExpectedFee(t.Acquirer, t.AmountMinor) \in Int
    BY <1>2, FeesAreInt
  <2>2. t.AmountMinor \in Int
    BY <1>2, Int64IsInt
  <2>q. QED BY <2>1, <2>2
<1>4. PredictedNet(t) = Wrap(t.AmountMinor - ExpectedFee(t.Acquirer, t.AmountMinor))
  BY <1>2 DEF PredictedNet, HasFeeRule
<1>q. QED BY <1>2, <1>3, <1>4, WrapRange, Int64IsInt

\* There is one entry for each transaction, and it counts exactly when the
\* window should contain the transaction.
LEMMA EntriesSpec ==
    ASSUME LoopInv, phase = "done"
    PROVE  /\ \A e \in reconciled : /\ e.Transaction \in in.txns
                                    /\ Counts(e) <=> e.Transaction \in Upcoming
           /\ \A d, e \in reconciled : d.Transaction = e.Transaction => d = e
           /\ \A t \in in.txns : \E e \in reconciled : e.Transaction = t
           /\ IsFiniteSet(in.txns) /\ Upcoming \subseteq in.txns
<1> DEFINE entry(t) == [Transaction |-> t, Status |-> Status(t, in.rows, in.asOf),
                        Settlement |-> UsedRow(t, in.rows)]
<1>1. in \in Inputs /\ reconciled = {entry(t) : t \in in.txns}
  BY LoopsDone DEF LoopInv, Reconciled
<1>2. \A t : entry(t).Transaction = t /\ entry(t).Status = Status(t, in.rows, in.asOf)
  OBVIOUS
<1>3. ASSUME NEW t \in in.txns PROVE Counts(entry(t)) <=> t \in Upcoming
  <2>1. t.ExpectedSettleDate \in Int /\ in.asOf \in Int /\ in.days \in Int
    BY <1>1, InputsRead, NetsAreInt64
  <2>2. Counts(entry(t)) <=> /\ UsedRow(t, in.rows) = NoRow
                             /\ ~(t.ExpectedSettleDate < in.asOf)
                             /\ t.ExpectedSettleDate \in in.asOf+1 .. in.asOf + in.days
    BY <1>2 DEF Counts, InWindow, Status
  <2>q. QED BY <2>1, <2>2 DEF Upcoming, Window
<1>4. IsFiniteSet(in.txns) /\ Upcoming \subseteq in.txns
  BY <1>1, InputsRead DEF Upcoming
<1> HIDE DEF entry
<1>q. QED BY <1>1, <1>2, <1>3, <1>4

\* The entry taken is of a transaction not counted before; it is counted when
\* it counts.
LEMMA CountedGrows ==
    ASSUME LoopInv, phase = "done", left \subseteq reconciled,
           NEW e \in left, left' = left \ {e}, UNCHANGED loopVars
    PROVE  /\ Counted \subseteq in.txns /\ IsFiniteSet(Counted)
           /\ e.Transaction \in in.txns /\ e.Transaction \notin Counted
           /\ Counted' = IF Counts(e) THEN Counted \cup {e.Transaction} ELSE Counted
<1>1. /\ \A d \in reconciled : d.Transaction \in in.txns
      /\ \A d, c \in reconciled : d.Transaction = c.Transaction => d = c
      /\ IsFiniteSet(in.txns) /\ e \in reconciled
  BY EntriesSpec
<1>2. Counted = {x.Transaction : x \in {y \in reconciled \ left : Counts(y)}}
  BY DEF Counted
<1>3. Counted' = {x.Transaction : x \in {y \in reconciled \ (left \ {e}) : Counts(y)}}
  <2>1. in' = in /\ reconciled' = reconciled
    BY DEF loopVars
  <2>2. \A y : Counts(y)' <=> Counts(y)
    BY <2>1 DEF Counts, InWindow
  <2>3. Counted' = {x.Transaction : x \in {y \in reconciled' \ left' : Counts(y)'}}
    BY DEF Counted
  <2>q. QED BY <2>1, <2>2, <2>3
<1>4. Counted \subseteq in.txns /\ IsFiniteSet(Counted)
  <2>1. Counted \subseteq in.txns
    BY <1>1, <1>2
  <2>q. QED BY <1>1, <2>1, FS_Subset
<1>5. e.Transaction \in in.txns /\ e.Transaction \notin Counted
  BY <1>1, <1>2
<1>6. reconciled \ (left \ {e}) = (reconciled \ left) \cup {e}
  BY <1>1
<1>7. CASE Counts(e)
  <2>1. {y \in reconciled \ (left \ {e}) : Counts(y)} = {y \in reconciled \ left : Counts(y)} \cup {e}
    BY <1>6, <1>7
  <2>2. Counted' = Counted \cup {e.Transaction}
    BY <1>2, <1>3, <2>1
  <2>q. QED BY <1>4, <1>5, <1>7, <2>2
<1>8. CASE ~Counts(e)
  <2>1. {y \in reconciled \ (left \ {e}) : Counts(y)} = {y \in reconciled \ left : Counts(y)}
    BY <1>6, <1>8
  <2>q. QED BY <1>2, <1>3, <1>4, <1>5, <1>8, <2>1
<1>q. QED BY <1>7, <1>8

LEMMA BucketsTake ==
    ASSUME in \in Inputs, Counted \subseteq in.txns, IsFiniteSet(Counted), BucketsInv,
           NEW t \in in.txns, t \notin Counted, Counted' = Counted \cup {t},
           in' = in,
           netByAcq' = Plus64(netByAcq, BucketOf(t), PredictedNet(t)),
           txnCount' = Plus64(txnCount, BucketOf(t), 1),
           dayTotal' = Plus64(dayTotal, DayOf(t), PredictedNet(t))
    PROVE  BucketsInv'
<1>c. PICK C : C = Counted
  OBVIOUS
<1>f. PICK f, g : f = Nets /\ g = Ones
  OBVIOUS
<1>n. PICK byKey, byDay : byKey = [u \in in.txns |-> BucketOf(u)] /\ byDay = [u \in in.txns |-> DayOf(u)]
  OBVIOUS
<1>1. /\ \A u \in in.txns : f[u] = PredictedNet(u) /\ f[u] \in Int64 /\ f[u] \in Int
      /\ \A u \in in.txns : g[u] = 1
  BY <1>f, NetsAreInt64 DEF Nets, Ones
<1>2. Nets' = f /\ Ones' = g
  BY <1>f DEF Nets, Ones, PredictedNet
<1>3. \A u \in in.txns : byKey[u] = BucketOf(u) /\ byDay[u] = DayOf(u)
  BY <1>n
<1>4. C \in SUBSET in.txns /\ IsFiniteSet(C) /\ t \notin C /\ C \cup {t} \subseteq in.txns
  BY <1>c
<1>5. ASSUME NEW S \in SUBSET in.txns
      PROVE  /\ {byKey[u] : u \in S} = {BucketOf(u) : u \in S}
             /\ {byDay[u] : u \in S} = {DayOf(u) : u \in S}
             /\ \A k : {u \in S : byKey[u] = k} = {u \in S : BucketOf(u) = k}
             /\ \A k : {u \in S : byDay[u] = k} = {u \in S : DayOf(u) = k}
  BY <1>3
<1>6. /\ \A k : InBucket(k) = {u \in C : byKey[u] = k}
      /\ \A d : OnDay(d) = {u \in C : byDay[u] = d}
      /\ \A k : InBucket(k)' = {u \in C \cup {t} : byKey[u] = k}
      /\ \A d : OnDay(d)' = {u \in C \cup {t} : byDay[u] = d}
  <2>1. /\ \A k : InBucket(k) = {u \in C : BucketOf(u) = k}
        /\ \A d : OnDay(d) = {u \in C : DayOf(u) = d}
    BY <1>c DEF InBucket, OnDay
  <2>2. /\ \A k : InBucket(k)' = {u \in C \cup {t} : BucketOf(u) = k}
        /\ \A d : OnDay(d)' = {u \in C \cup {t} : DayOf(u) = d}
    BY <1>c DEF InBucket, OnDay
  <2>3. /\ \A k : {u \in C : byKey[u] = k} = {u \in C : BucketOf(u) = k}
        /\ \A d : {u \in C : byDay[u] = d} = {u \in C : DayOf(u) = d}
    BY <1>4, <1>5, Zenon
  <2>4. C \cup {t} \in SUBSET in.txns
    BY <1>4
  <2>5. /\ \A k : {u \in C \cup {t} : byKey[u] = k} = {u \in C \cup {t} : BucketOf(u) = k}
        /\ \A d : {u \in C \cup {t} : byDay[u] = d} = {u \in C \cup {t} : DayOf(u) = d}
    BY <1>5, <2>4, Zenon
  <2>q. QED BY <2>1, <2>2, <2>3, <2>5, Zenon
<1>7. /\ Exactly(netByAcq, byKey, f, C) /\ SumsUp(txnCount, byKey, g, C)
      /\ Exactly(dayTotal, byDay, f, C)
  <2>1. /\ DOMAIN netByAcq = {byKey[u] : u \in C}
        /\ DOMAIN txnCount = {byKey[u] : u \in C}
        /\ DOMAIN dayTotal = {byDay[u] : u \in C}
    BY <1>c, <1>4, <1>5, Zenon DEF BucketsInv
  <2>2. /\ \A k \in DOMAIN netByAcq : netByAcq[k] = Sum(f, {u \in C : byKey[u] = k})
        /\ \A k \in DOMAIN txnCount : /\ txnCount[k] \in Int
                                      /\ Wrap(txnCount[k]) = Sum(g, {u \in C : byKey[u] = k})
        /\ \A d \in DOMAIN dayTotal : dayTotal[d] = Sum(f, {u \in C : byDay[u] = d})
    BY <1>f, <1>6, Zenon DEF BucketsInv
  <2>q. QED BY <2>1, <2>2, Zenon DEF Exactly, SumsUp
<1>8. /\ \A u \in C : f[u] \in Int
      /\ \A u \in C \cup {t} : f[u] \in Int
      /\ f[t] \in Int64
      /\ \A u \in C \cup {t} : g[u] \in Int
      /\ IsFiniteSet(C \cup {t})
  BY <1>1, <1>4, FS_AddElement
<1>9. /\ netByAcq' = Plus64(netByAcq, byKey[t], f[t])
      /\ txnCount' = Plus64(txnCount, byKey[t], g[t])
      /\ dayTotal' = Plus64(dayTotal, byDay[t], f[t])
  BY <1>1, <1>3, Zenon
<1>10. Exactly(netByAcq', byKey, f, C \cup {t})
  <2>1. SumsUp(netByAcq, byKey, f, C) /\ AllInt64(netByAcq)
    BY <1>4, <1>7, <1>8, ExactSums
  <2>2. /\ SumsUp(Plus64(netByAcq, byKey[t], f[t]), byKey, f, C \cup {t})
        /\ f[t] \in Int64 /\ AllInt64(netByAcq) => AllInt64(Plus64(netByAcq, byKey[t], f[t]))
    BY <1>4, <1>8, <2>1, PlusSum
  <2>3. SumsUp(netByAcq', byKey, f, C \cup {t}) /\ AllInt64(netByAcq')
    BY <1>8, <1>9, <2>1, <2>2, Zenon
  <2>q. QED BY <1>8, <2>3, ExactSums
<1>11. Exactly(dayTotal', byDay, f, C \cup {t})
  <2>1. SumsUp(dayTotal, byDay, f, C) /\ AllInt64(dayTotal)
    BY <1>4, <1>7, <1>8, ExactSums
  <2>2. /\ SumsUp(Plus64(dayTotal, byDay[t], f[t]), byDay, f, C \cup {t})
        /\ f[t] \in Int64 /\ AllInt64(dayTotal) => AllInt64(Plus64(dayTotal, byDay[t], f[t]))
    BY <1>4, <1>8, <2>1, PlusSum
  <2>3. SumsUp(dayTotal', byDay, f, C \cup {t}) /\ AllInt64(dayTotal')
    BY <1>8, <1>9, <2>1, <2>2, Zenon
  <2>q. QED BY <1>8, <2>3, ExactSums
<1>12. SumsUp(txnCount', byKey, g, C \cup {t})
  <2>1. SumsUp(Plus64(txnCount, byKey[t], g[t]), byKey, g, C \cup {t})
    BY <1>4, <1>7, <1>8, PlusSum
  <2>q. QED BY <1>9, <2>1, Zenon
<1>13. /\ {BucketOf(u) : u \in Counted}' = {byKey[u] : u \in C \cup {t}}
       /\ {DayOf(u) : u \in Counted}' = {byDay[u] : u \in C \cup {t}}
  BY <1>c, <1>4, <1>5, Zenon
<1>14. /\ DOMAIN netByAcq' = {byKey[u] : u \in C \cup {t}}
       /\ \A k \in DOMAIN netByAcq' : netByAcq'[k] = Sum(f, {u \in C \cup {t} : byKey[u] = k})
  BY <1>10, Zenon DEF Exactly
<1>15. /\ DOMAIN dayTotal' = {byDay[u] : u \in C \cup {t}}
       /\ \A k \in DOMAIN dayTotal' : dayTotal'[k] = Sum(f, {u \in C \cup {t} : byDay[u] = k})
  BY <1>11, Zenon DEF Exactly
<1>16. /\ DOMAIN txnCount' = {byKey[u] : u \in C \cup {t}}
       /\ \A k \in DOMAIN txnCount' :
             /\ txnCount'[k] \in Int
             /\ Wrap(txnCount'[k]) = Sum(g, {u \in C \cup {t} : byKey[u] = k})
  BY <1>12, Zenon DEF SumsUp
<1>q. QED BY <1>2, <1>6, <1>13, <1>14, <1>15, <1>16, Zenon DEF BucketsInv

LEMMA BucketEntryKeeps ==
    ASSUME ForecastInv, BucketEntry
    PROVE  ForecastInv'
<1>1. /\ LoopInv /\ stage = "bucketing" /\ stage' = "bucketing"
      /\ UNCHANGED <<loopVars, stage, grand>>
  BY DEF ForecastInv, BucketEntry
<1>2. UNCHANGED loopVars /\ in' = in /\ reconciled' = reconciled /\ phase' = phase
  BY <1>1 DEF loopVars
<1>3. LoopInv'
  BY <1>1, <1>2, LoopKeeps
<1>4. ASSUME DaysAllowed
      PROVE  phase' = "done" /\ left' \subseteq reconciled' /\ BucketsInv' /\ CurrencyInv'
  <2>1. phase = "done" /\ left \subseteq reconciled /\ BucketsInv /\ CurrencyInv
    BY <1>1, <1>4 DEF ForecastInv
  <2>e. PICK e \in left :
           /\ left' = left \ {e}
           /\ FirstCurrency(e)
           /\ \/ /\ Counts(e)
                 /\ netByAcq' = Plus64(netByAcq, BucketOf(e.Transaction), PredictedNet(e.Transaction))
                 /\ txnCount' = Plus64(txnCount, BucketOf(e.Transaction), 1)
                 /\ dayTotal' = Plus64(dayTotal, DayOf(e.Transaction), PredictedNet(e.Transaction))
              \/ /\ ~Counts(e)
                 /\ UNCHANGED <<netByAcq, txnCount, dayTotal>>
    BY Zenon DEF BucketEntry, BucketOf, DayOf
  <2>t. PICK t : t = e.Transaction
    OBVIOUS
  <2>2. /\ Counted \subseteq in.txns /\ IsFiniteSet(Counted)
        /\ t \in in.txns /\ t \notin Counted
        /\ Counted' = IF Counts(e) THEN Counted \cup {t} ELSE Counted
    BY <1>1, <1>2, <2>1, <2>e, <2>t, CountedGrows
  <2>3. in \in Inputs
    BY <1>1 DEF LoopInv
  <2>4. BucketsInv'
    <3>1. CASE Counts(e)
      BY <1>2, <2>1, <2>2, <2>3, <2>e, <2>t, <3>1, BucketsTake, Zenon
    <3>2. CASE ~Counts(e)
      <4>1. /\ Counted' = Counted /\ Nets' = Nets /\ Ones' = Ones
            /\ UNCHANGED <<netByAcq, txnCount, dayTotal>>
        BY <1>2, <2>2, <2>e, <3>2 DEF Nets, Ones, PredictedNet
      <4>2. /\ \A k : InBucket(k)' = InBucket(k)
            /\ \A d : OnDay(d)' = OnDay(d)
        BY <4>1 DEF InBucket, OnDay
      <4>q. QED BY <2>1, <4>1, <4>2 DEF BucketsInv
    <3>q. QED BY <3>1, <3>2
  <2>5. CurrencyInv'
    <3>1. currency' = IF currency = "" /\ Counts(e) THEN t.Currency ELSE currency
      BY <2>e, <2>t DEF FirstCurrency
    <3>q. QED BY <2>1, <2>2, <3>1 DEF CurrencyInv
  <2>6. left' \subseteq reconciled' /\ phase' = "done"
    BY <1>2, <2>1, <2>e
  <2>q. QED BY <2>4, <2>5, <2>6
<1>5. DaysAllowed' <=> DaysAllowed
  BY <1>2 DEF DaysAllowed
<1>q. QED BY <1>1, <1>3, <1>4, <1>5 DEF ForecastInv, Returned

\* What the forecast knows stays as long as nothing it is about changes.
LEMMA BucketsStay ==
    ASSUME UNCHANGED <<in, reconciled, left, netByAcq, txnCount, dayTotal, currency>>
    PROVE  /\ Counted' = Counted
           /\ BucketsInv => BucketsInv'
           /\ CurrencyInv => CurrencyInv'
<1>1. \A y : Counts(y)' <=> Counts(y)
  BY DEF Counts, InWindow
<1>2. Counted' = Counted
  BY <1>1 DEF Counted
<1>3. Nets' = Nets /\ Ones' = Ones
  BY DEF Nets, Ones, PredictedNet
<1>4. /\ \A k : InBucket(k)' = InBucket(k)
      /\ \A d : OnDay(d)' = OnDay(d)
  BY <1>2 DEF InBucket, OnDay
<1>5. BucketsInv => BucketsInv'
  BY <1>2, <1>3, <1>4 DEF BucketsInv
<1>q. QED BY <1>2, <1>5 DEF CurrencyInv

LEMMA ForecastInitially ==
    ASSUME ForecastInit
    PROVE  ForecastInv
BY LoopInitially DEF ForecastInit, ForecastInv, Returned

LEMMA ForecastKeeps ==
    ASSUME ForecastInv, [ForecastNext]_forecastVars
    PROVE  ForecastInv'
<1>1. CASE ReconcileOn
  BY <1>1, LoopKeeps DEF ForecastInv, ReconcileOn, buckets, Returned
<1>2. CASE StartForecast
  <2>1. /\ UNCHANGED loopVars /\ in' = in /\ reconciled' = reconciled /\ phase' = phase
        /\ phase = "done" /\ LoopInv
        /\ currency' = "" /\ netByAcq' = NoKeys /\ txnCount' = NoKeys /\ dayTotal' = NoKeys
        /\ stage' = IF DaysAllowed THEN "bucketing" ELSE "returned"
        /\ left' = IF DaysAllowed THEN reconciled ELSE {}
    BY <1>2 DEF StartForecast, loopVars, buckets, ForecastInv
  <2>2. LoopInv'
    BY <2>1, LoopKeeps
  <2>3. DaysAllowed' <=> DaysAllowed
    BY <2>1 DEF DaysAllowed
  <2>4. ASSUME DaysAllowed PROVE BucketsInv' /\ CurrencyInv'
    <3>1. reconciled' \ left' = {}
      BY <2>1, <2>4
    <3>2. Counted' = {}
      BY <3>1 DEF Counted
    <3>3. DOMAIN netByAcq' = {} /\ DOMAIN txnCount' = {} /\ DOMAIN dayTotal' = {}
      BY <2>1 DEF NoKeys
    <3>q. QED BY <2>1, <3>2, <3>3 DEF BucketsInv, CurrencyInv
  <2>q. QED BY <2>1, <2>2, <2>3, <2>4 DEF ForecastInv, Returned
<1>3. CASE BucketEntry
  BY <1>3, BucketEntryKeeps
<1>4. CASE ReturnForecast
  <2>1. /\ UNCHANGED loopVars /\ in' = in /\ reconciled' = reconciled /\ phase' = phase
        /\ LoopInv /\ stage = "bucketing" /\ stage' = "returned" /\ left = {} /\ left' = {}
        /\ UNCHANGED <<netByAcq, txnCount, dayTotal, currency>>
        /\ grand' = Sum(dayTotal, DOMAIN dayTotal)
    BY <1>4 DEF ReturnForecast, loopVars, buckets, ForecastInv
  <2>2. LoopInv'
    BY <2>1, LoopKeeps
  <2>3. DaysAllowed' <=> DaysAllowed
    BY <2>1 DEF DaysAllowed
  <2>4. grand' = Sum(dayTotal', DOMAIN dayTotal')
    BY <2>1, Zenon
  <2>5. ASSUME DaysAllowed
        PROVE  phase' = "done" /\ left' \subseteq reconciled' /\ BucketsInv' /\ CurrencyInv'
    BY <2>1, <2>5, BucketsStay DEF ForecastInv
  <2>q. QED BY <2>1, <2>2, <2>3, <2>4, <2>5 DEF ForecastInv, Returned
<1>5. CASE UNCHANGED forecastVars
  <2>1. /\ UNCHANGED loopVars /\ in' = in /\ reconciled' = reconciled /\ phase' = phase
        /\ LoopInv /\ UNCHANGED <<stage, left, netByAcq, txnCount, dayTotal, currency, grand>>
    BY <1>5 DEF forecastVars, loopVars, buckets, ForecastInv
  <2>2. LoopInv'
    BY <2>1, LoopKeeps
  <2>3. DaysAllowed' <=> DaysAllowed
    BY <2>1 DEF DaysAllowed
  <2>4. ASSUME stage # "reconciling", DaysAllowed
        PROVE  phase' = "done" /\ left' \subseteq reconciled' /\ BucketsInv' /\ CurrencyInv'
    BY <2>1, <2>4, BucketsStay DEF ForecastInv
  <2>5. Returned => grand' = Sum(dayTotal', DOMAIN dayTotal')
    BY <2>1, Zenon DEF ForecastInv
  <2>q. QED BY <2>1, <2>2, <2>3, <2>4, <2>5 DEF ForecastInv, Returned
<1>q. QED BY <1>1, <1>2, <1>3, <1>4, <1>5 DEF ForecastNext

\* The buckets hold the sums over the transactions counted so far, in whatever
\* order the entries are visited (forecast.go, Forecast).
THEOREM ForecastInvariant == ForecastSpec => []ForecastInv
<1>q. QED BY ForecastInitially, ForecastKeeps, PTL DEF ForecastSpec

-----------------------------------------------------------------------------
(***************************************************************************)
(* The forecast that is returned.                                          *)
(***************************************************************************)
LEMMA AtReturn ==
    ASSUME ForecastInv, Returned
    PROVE  /\ in \in Inputs /\ IsFiniteSet(in.txns) /\ Upcoming \subseteq in.txns
           /\ IsFiniteSet(Upcoming)
           /\ Counted = Upcoming /\ BucketsInv /\ CurrencyInv
           /\ grand = Sum(dayTotal, DOMAIN dayTotal)
<1>1. /\ LoopInv /\ phase = "done" /\ left = {} /\ BucketsInv /\ CurrencyInv
      /\ grand = Sum(dayTotal, DOMAIN dayTotal)
  BY DEF ForecastInv, Returned
<1>2. /\ \A e \in reconciled : /\ e.Transaction \in in.txns
                               /\ Counts(e) <=> e.Transaction \in Upcoming
      /\ \A t \in in.txns : \E e \in reconciled : e.Transaction = t
      /\ IsFiniteSet(in.txns) /\ Upcoming \subseteq in.txns
  BY <1>1, EntriesSpec
<1>3. Counted = {e.Transaction : e \in {x \in reconciled : Counts(x)}}
  <2>1. reconciled \ left = reconciled
    BY <1>1
  <2>q. QED BY <2>1, Zenon DEF Counted
<1>4. Counted = Upcoming
  BY <1>2, <1>3
<1>q. QED BY <1>1, <1>2, <1>4, FS_Subset DEF LoopInv

\* What a set of the transactions is predicted to bring.
LEMMA NetsSpec ==
    ASSUME ForecastInv, Returned
    PROVE  /\ \A t \in Upcoming : /\ Nets[t] = PredictedNet(t) /\ Nets[t] \in Int
                                  /\ Ones[t] = 1
           /\ Sum(Nets, {}) = 0
<1>1. in \in Inputs /\ Upcoming \subseteq in.txns
  BY AtReturn
<1>2. \A t \in Upcoming : Nets[t] = PredictedNet(t) /\ Nets[t] \in Int /\ Ones[t] = 1
  BY <1>1, NetsAreInt64 DEF Nets, Ones
<1>3. Plain(Nets, {}) = 0
  BY PlainFirst, FS_EmptySet
<1>4. Sum(Nets, {}) = Wrap(0)
  BY <1>3 DEF Sum, Plain
<1>5. Wrap(0) = 0
  BY WrapExact, Int64IsInt
<1>q. QED BY <1>2, <1>4, <1>5

\* The forecast for a day and an acquirer is the sum over its transactions.
LEMMA ForecastedSum ==
    ASSUME ForecastInv, Returned, NEW d, NEW a \in Acquirers
    PROVE  Forecasted(d)[a] = Sum(Nets, {t \in Upcoming : BucketOf(t) = <<d, a>>})
<1>k. PICK k : k = <<d, a>>
  OBVIOUS
<1>1. Counted = Upcoming /\ BucketsInv /\ Sum(Nets, {}) = 0
  BY AtReturn, NetsSpec
<1>2. InBucket(k) = {t \in Upcoming : BucketOf(t) = k}
  BY <1>1 DEF InBucket
<1>3. Forecasted(d)[a] = IF k \in DOMAIN netByAcq THEN netByAcq[k] ELSE 0
  BY <1>k DEF Forecasted
<1>4. CASE k \in DOMAIN netByAcq
  BY <1>k, <1>1, <1>2, <1>3, <1>4, Zenon DEF BucketsInv
<1>5. CASE k \notin DOMAIN netByAcq
  <2>1. {t \in Upcoming : BucketOf(t) = k} = {}
    BY <1>1, <1>5 DEF BucketsInv
  <2>q. QED BY <1>k, <1>1, <1>3, <1>5, <2>1, Zenon
<1>q. QED BY <1>4, <1>5

\* The forecast for a day, of all acquirers together.
LEMMA ForecastedTotal ==
    ASSUME ForecastInv, Returned, NEW d
    PROVE  Total(Forecasted(d)) = Sum(Nets, {t \in Upcoming : DayOf(t) = d})
<1>S. PICK S : S = {t \in Upcoming : DayOf(t) = d}
  OBVIOUS
<1>p. PICK part : part = [a \in Acquirers |-> {t \in Upcoming : BucketOf(t) = <<d, a>>}]
  OBVIOUS
<1>f. PICK f, g : f = Nets /\ g = Forecasted(d)
  OBVIOUS
<1>1. /\ IsFiniteSet(Upcoming) /\ \A t \in Upcoming : f[t] \in Int
      /\ \A t \in Upcoming : t.Acquirer \in Acquirers
  BY <1>f, AtReturn, NetsSpec, NetsAreInt64
<1>2. \A a \in Acquirers : part[a] = {t \in Upcoming : BucketOf(t) = <<d, a>>}
  BY <1>p
<1>3. \A t, a : BucketOf(t) = <<d, a>> <=> DayOf(t) = d /\ t.Acquirer = a
  BY DEF BucketOf, DayOf
<1>4. Parts(part, Acquirers, S)
  <2>1. \A t : t \in S <=> \E a \in Acquirers : t \in part[a]
    <3>1. \A t, a : a \in Acquirers => (t \in part[a] <=> t \in Upcoming /\ DayOf(t) = d /\ t.Acquirer = a)
      BY <1>2, <1>3
    <3>2. \A t : t \in S <=> t \in Upcoming /\ DayOf(t) = d
      BY <1>S
    <3>q. QED BY <1>1, <3>1, <3>2
  <2>2. \A b, c \in Acquirers : b # c => part[b] \cap part[c] = {}
    BY <1>2, <1>3
  <2>q. QED BY <2>1, <2>2 DEF Parts
<1>5. IsFiniteSet(S) /\ \A t \in S : f[t] \in Int
  BY <1>S, <1>1, FS_Subset
<1>6. \A a \in Acquirers : g[a] = Sum(f, part[a])
  <2> SUFFICES ASSUME NEW a \in Acquirers PROVE g[a] = Sum(f, part[a])
    OBVIOUS
  <2>1. Forecasted(d)[a] = Sum(Nets, {t \in Upcoming : BucketOf(t) = <<d, a>>})
    BY ForecastedSum
  <2>q. QED BY <1>f, <1>2, <2>1, Zenon
<1>7. Sum(g, Acquirers) = Sum(f, S)
  BY <1>4, <1>5, <1>6, FiniteAcquirers, SumParts
<1>q. QED BY <1>S, <1>f, <1>7, Zenon DEF Total

LEMMA ForecastAdds ==
    ASSUME ForecastInv
    PROVE  ForecastAddsUp
<1> SUFFICES ASSUME Returned
             PROVE  /\ \A d \in DOMAIN dayTotal : dayTotal[d] = Total(Forecasted(d))
                    /\ Sum(txnCount, DOMAIN txnCount)
                         = Sum([t \in Upcoming |-> 1], Upcoming)
  BY DEF ForecastAddsUp
<1>1. IsFiniteSet(Upcoming) /\ Counted = Upcoming /\ BucketsInv
  BY AtReturn
<1>2. ASSUME NEW d \in DOMAIN dayTotal PROVE dayTotal[d] = Total(Forecasted(d))
  <2>1. dayTotal[d] = Sum(Nets, OnDay(d))
    BY <1>1 DEF BucketsInv
  <2>2. OnDay(d) = {t \in Upcoming : DayOf(t) = d}
    BY <1>1, Zenon DEF OnDay
  <2>q. QED BY <2>1, <2>2, ForecastedTotal, Zenon
<1>3. Sum(txnCount, DOMAIN txnCount) = Sum([t \in Upcoming |-> 1], Upcoming)
  <2>f. PICK f, one, counts, D, S :
           /\ f = Ones /\ one = [t \in Upcoming |-> 1] /\ counts = txnCount
           /\ D = DOMAIN txnCount /\ S = Upcoming
    OBVIOUS
  <2>p. PICK part : part = [k \in D |-> {t \in S : BucketOf(t) = k}]
    OBVIOUS
  <2>g. PICK g : g = [k \in D |-> Sum(f, part[k])]
    OBVIOUS
  <2>1. D = {BucketOf(t) : t \in S}
    BY <1>1, <2>f, Zenon DEF BucketsInv
  <2>2. \A k \in D : part[k] = {t \in S : BucketOf(t) = k}
    BY <2>p
  <2>3. \A k \in D : g[k] = Sum(f, part[k])
    BY <2>g
  <2>4. /\ IsFiniteSet(S) /\ \A t \in S : f[t] \in Int /\ f[t] = 1 /\ one[t] = 1
    BY <1>1, <2>f, NetsSpec
  <2>5. IsFiniteSet(D)
    <3>1. PICK h : h = [t \in S |-> BucketOf(t)]
      OBVIOUS
    <3>2. h \in Surjection(S, D)
      BY <2>1, <3>1 DEF Surjection
    <3>q. QED BY <2>4, <3>2, FS_Surjection
  <2>6. Parts(part, D, S)
    <3>1. \A t : t \in S <=> \E k \in D : t \in part[k]
      BY <2>1, <2>2
    <3>2. \A k, l \in D : k # l => part[k] \cap part[l] = {}
      BY <2>2
    <3>q. QED BY <3>1, <3>2 DEF Parts
  <2>7. Sum(g, D) = Sum(f, S)
    BY <2>3, <2>4, <2>5, <2>6, SumParts
  <2>8. \A k \in D : counts[k] \in Int /\ g[k] \in Int /\ Wrap(counts[k]) = Wrap(g[k])
    <3> SUFFICES ASSUME NEW k \in D
                 PROVE  counts[k] \in Int /\ g[k] \in Int /\ Wrap(counts[k]) = Wrap(g[k])
      OBVIOUS
    <3>1. InBucket(k) = part[k]
      <4>1. InBucket(k) = {t \in S : BucketOf(t) = k}
        BY <1>1, <2>f, Zenon DEF InBucket
      <4>q. QED BY <2>2, <4>1, Zenon
    <3>2. counts[k] \in Int /\ Wrap(counts[k]) = g[k]
      BY <1>1, <2>f, <2>3, <3>1, Zenon DEF BucketsInv
    <3>q. QED BY <3>2, WrapTwice
  <2>9. Sum(counts, D) = Sum(g, D)
    BY <2>5, <2>8, SumSame
  <2>10. Sum(one, S) = Sum(f, S)
    <3>1. \A t \in S : f[t] \in Int /\ one[t] \in Int /\ Wrap(one[t]) = Wrap(f[t])
      BY <2>4
    <3>q. QED BY <2>4, <3>1, SumSame
  <2>q. QED BY <2>f, <2>7, <2>9, <2>10, Zenon
<1>q. QED BY <1>2, <1>3

\* The totals of any forecast agree with their parts (forecast.go, Forecast).
THEOREM ForecastAlwaysAddsUp == ForecastSpec => []ForecastAddsUp
<1>q. QED BY ForecastAdds, ForecastInvariant, PTL

\* The currency shown is that of a transaction in the forecast, whichever the
\* map order makes it (forecast.go, Forecast).
THEOREM CurrencyAlwaysOfTheForecast == ForecastSpec => []CurrencyIsOfTheForecast
<1>1. ForecastInv => CurrencyIsOfTheForecast
  BY AtReturn DEF CurrencyIsOfTheForecast, CurrencyInv
<1>q. QED BY <1>1, ForecastInvariant, PTL

-----------------------------------------------------------------------------
(***************************************************************************)
(* The forecast comes true.                                                *)
(***************************************************************************)
\* What a transaction brings when it is paid with the expected fee.
PaidNet(t) == t.AmountMinor - ExpectedFee(t.Acquirer, t.AmountMinor)

\* The row of a transaction that is paid as expected.
LEMMA PaidSpec ==
    ASSUME ForecastInv, Returned, NEW t \in Upcoming
    PROVE  /\ PaidAsExpected(t).TransactionID = t.ID
           /\ PaidAsExpected(t).Acquirer = t.Acquirer
           /\ PaidAsExpected(t).NetMinor = PaidNet(t)
           /\ PaidNet(t) \in Int /\ Wrap(PaidNet(t)) = PredictedNet(t)
           /\ Payday(PaidAsExpected(t)) = DayOf(t)
<1>1. /\ t.AmountMinor \in Int64 /\ t.ExpectedSettleDate \in Int
      /\ PredictedNet(t) = Wrap(PaidNet(t))
  BY AtReturn, NetsAreInt64 DEF PaidNet
<1>2. PaidNet(t) \in Int
  <2>1. ExpectedFee(t.Acquirer, t.AmountMinor) \in Int
    BY <1>1, FeesAreInt
  <2>2. t.AmountMinor \in Int
    BY <1>1, Int64IsInt
  <2>q. QED BY <2>1, <2>2 DEF PaidNet
<1>3. BangkokMidnight(BangkokInstant(t.ExpectedSettleDate)) = t.ExpectedSettleDate
  BY <1>1, BangkokDayRoundTrip DEF BangkokInstant
<1>4. /\ PaidAsExpected(t).TransactionID = t.ID
      /\ PaidAsExpected(t).Acquirer = t.Acquirer
      /\ PaidAsExpected(t).NetMinor = PaidNet(t)
      /\ PaidAsExpected(t).SettlementDate = BangkokInstant(t.ExpectedSettleDate)
  BY DEF PaidAsExpected, PaidNet
<1>q. QED BY <1>1, <1>2, <1>3, <1>4 DEF Payday, DayOf

\* Every transaction of the window has its own row among those paid, and there
\* are no others.
LEMMA PaidPositions ==
    ASSUME ForecastInv, Returned
    PROVE  \E pos : /\ \A t \in Upcoming : /\ pos[t] \in DOMAIN PaidRows
                                          /\ PaidRows[pos[t]] = PaidAsExpected(t)
                    /\ \A t, u \in Upcoming : pos[t] = pos[u] => t = u
                    /\ \A j \in DOMAIN PaidRows : \E t \in Upcoming : pos[t] = j
<1>P. PICK P : P = {PaidAsExpected(t) : t \in Upcoming}
  OBVIOUS
<1>1. IsFiniteSet(P)
  <2>1. PICK h : h = [t \in Upcoming |-> PaidAsExpected(t)]
    OBVIOUS
  <2>2. h \in Surjection(Upcoming, P)
    BY <1>P, <2>1 DEF Surjection
  <2>q. QED BY <2>2, AtReturn, FS_Surjection
<1>r. PICK rows : rows = PaidRows
  OBVIOUS
<1>2. rows = SeqExt!SetToSeq(P)
  BY <1>P, <1>r, Zenon DEF PaidRows
<1>3. /\ rows \in Seq(P)
      /\ \A x \in P : \E j \in DOMAIN rows : rows[j] = x
      /\ \A j, l \in DOMAIN rows : rows[j] = rows[l] => j = l
  BY <1>1, <1>2, Listing, Zenon
<1>4. \A t \in Upcoming : \E j \in DOMAIN rows : rows[j] = PaidAsExpected(t)
  BY <1>P, <1>3
<1>p. PICK pos : pos = [t \in Upcoming |-> CHOOSE j \in DOMAIN rows : rows[j] = PaidAsExpected(t)]
  OBVIOUS
<1>5. \A t \in Upcoming : pos[t] \in DOMAIN rows /\ rows[pos[t]] = PaidAsExpected(t)
  <2> SUFFICES ASSUME NEW t \in Upcoming
               PROVE  pos[t] \in DOMAIN rows /\ rows[pos[t]] = PaidAsExpected(t)
    OBVIOUS
  <2>1. pos[t] = CHOOSE j \in DOMAIN rows : rows[j] = PaidAsExpected(t)
    BY <1>p
  <2>q. QED BY <1>4, <2>1, Zenon
<1>6. \A t, u \in Upcoming : PaidAsExpected(t) = PaidAsExpected(u) => t = u
  BY AtReturn, PaidSpec, InputsRead
<1>7. \A t, u \in Upcoming : pos[t] = pos[u] => t = u
  BY <1>5, <1>6
<1>8. \A j \in DOMAIN rows : \E t \in Upcoming : pos[t] = j
  <2> SUFFICES ASSUME NEW j \in DOMAIN rows PROVE \E t \in Upcoming : pos[t] = j
    OBVIOUS
  <2>1. rows[j] \in P
    BY <1>3
  <2>2. PICK t \in Upcoming : rows[j] = PaidAsExpected(t)
    BY <1>P, <2>1
  <2>q. QED BY <1>3, <1>5, <2>2
<1>q. QED BY <1>r, <1>5, <1>7, <1>8

\* The cash of a day and an acquirer is what was forecast for them.
LEMMA CashIsForecast ==
    ASSUME ForecastInv, Returned, NEW d, NEW a \in Acquirers
    PROVE  ExpectedCashByAcquirer(PaidRows, d)[a] = Forecasted(d)[a]
<1>pos. PICK pos : /\ \A t \in Upcoming : /\ pos[t] \in DOMAIN PaidRows
                                         /\ PaidRows[pos[t]] = PaidAsExpected(t)
                   /\ \A t, u \in Upcoming : pos[t] = pos[u] => t = u
                   /\ \A j \in DOMAIN PaidRows : \E t \in Upcoming : pos[t] = j
  BY PaidPositions
<1>r. PICK rows, f, nets : rows = PaidRows /\ f = [t \in Upcoming |-> PaidNet(t)] /\ nets = Nets
  OBVIOUS
<1>c. PICK column : column = [j \in DOMAIN rows |-> rows[j]["NetMinor"]]
  OBVIOUS
<1>B. PICK B, T : /\ B = {t \in Upcoming : BucketOf(t) = <<d, a>>}
                  /\ T = {j \in {l \in DOMAIN rows : Payday(rows[l]) = d} : rows[j].Acquirer = a}
  OBVIOUS
<1>1. ExpectedCashByAcquirer(PaidRows, d)[a] = Sum(column, T)
  BY <1>r, <1>c, <1>B, Zenon DEF ExpectedCashByAcquirer, ByAcquirer
<1>2. Forecasted(d)[a] = Sum(nets, B)
  BY <1>r, <1>B, ForecastedSum, Zenon
<1>3. B \subseteq Upcoming /\ IsFiniteSet(B)
  BY <1>B, AtReturn, FS_Subset
<1>4. \A t \in B : f[t] \in Int /\ column[pos[t]] = f[t]
  <2> SUFFICES ASSUME NEW t \in B PROVE f[t] \in Int /\ column[pos[t]] = f[t]
    OBVIOUS
  <2>1. t \in Upcoming
    BY <1>3
  <2>2. pos[t] \in DOMAIN rows /\ rows[pos[t]] = PaidAsExpected(t)
    BY <1>pos, <1>r, <2>1
  <2>3. column[pos[t]] = rows[pos[t]].NetMinor
    BY <1>c, <2>2
  <2>4. f[t] = PaidNet(t)
    BY <1>r, <2>1
  <2>5. PaidNet(t) \in Int /\ PaidAsExpected(t).NetMinor = PaidNet(t)
    BY <2>1, PaidSpec
  <2>q. QED BY <2>2, <2>3, <2>4, <2>5
<1>5. T = {pos[t] : t \in B}
  <2>1. ASSUME NEW t \in Upcoming
        PROVE  pos[t] \in T <=> t \in B
    <3>1. pos[t] \in DOMAIN rows /\ rows[pos[t]] = PaidAsExpected(t)
      BY <1>pos, <1>r
    <3>2. Payday(rows[pos[t]]) = DayOf(t) /\ rows[pos[t]].Acquirer = t.Acquirer
      BY <3>1, PaidSpec
    <3>3. pos[t] \in T <=> DayOf(t) = d /\ t.Acquirer = a
      BY <1>B, <3>1, <3>2
    <3>4. t \in B <=> DayOf(t) = d /\ t.Acquirer = a
      BY <1>B DEF BucketOf, DayOf
    <3>q. QED BY <3>3, <3>4
  <2>2. \A j \in T : \E t \in Upcoming : pos[t] = j
    BY <1>pos, <1>r, <1>B
  <2>q. QED BY <1>3, <2>1, <2>2
<1>6. \A t, u \in B : pos[t] = pos[u] => t = u
  BY <1>pos, <1>3
<1>7. Plain(column, {pos[t] : t \in B}) = Plain(f, B)
  <2>1. Renamed(pos, f, column, B)
    BY <1>4, <1>6, Zenon DEF Renamed
  <2>q. QED BY <1>3, <2>1, PlainRenamed
<1>8. Sum(column, T) = Sum(f, B)
  BY <1>5, <1>7, Zenon DEF Sum, Plain
<1>9. Sum(f, B) = Sum(nets, B)
  <2>1. \A t \in B : nets[t] \in Int /\ f[t] \in Int /\ Wrap(f[t]) = Wrap(nets[t])
    <3> SUFFICES ASSUME NEW t \in B
                 PROVE  nets[t] \in Int /\ f[t] \in Int /\ Wrap(f[t]) = Wrap(nets[t])
      OBVIOUS
    <3>1. t \in Upcoming
      BY <1>3
    <3>2. nets[t] = PredictedNet(t) /\ nets[t] \in Int
      BY <1>r, <3>1, NetsSpec
    <3>3. f[t] = PaidNet(t) /\ PaidNet(t) \in Int /\ Wrap(PaidNet(t)) = PredictedNet(t)
      BY <1>r, <3>1, PaidSpec
    <3>q. QED BY <3>2, <3>3, WrapTwice
  <2>q. QED BY <1>3, <2>1, SumSame
<1>q. QED BY <1>1, <1>2, <1>8, <1>9

\* So is the cash of the window.
LEMMA WindowIsForecast ==
    ASSUME ForecastInv, Returned
    PROVE  /\ grand = CashOfWindow(PaidRows)
           /\ DOMAIN dayTotal = {t.ExpectedSettleDate : t \in Upcoming}
           /\ IsFiniteSet(Window)
<1>1. ASSUME NEW d PROVE Forecasted(d) = ExpectedCashByAcquirer(PaidRows, d)
  <2>c. PICK f, g : f = Forecasted(d) /\ g = ExpectedCashByAcquirer(PaidRows, d)
    OBVIOUS
  <2>1. \A a \in Acquirers : f[a] = g[a]
    BY <2>c, CashIsForecast
  <2>2. f = [a \in Acquirers |-> f[a]] /\ g = [a \in Acquirers |-> g[a]]
    BY <2>c DEF Forecasted, ExpectedCashByAcquirer, ByAcquirer
  <2>3. f = g
    BY <2>1, <2>2
  <2>q. QED BY <2>c, <2>3
<1>2. /\ in \in Inputs /\ IsFiniteSet(Upcoming) /\ Counted = Upcoming /\ BucketsInv
      /\ grand = Sum(dayTotal, DOMAIN dayTotal)
  BY AtReturn
<1>3. DOMAIN dayTotal = {t.ExpectedSettleDate : t \in Upcoming}
  BY <1>2 DEF BucketsInv, DayOf
<1>f. PICK f, S, W, totals, D, days :
         /\ f = Nets /\ S = Upcoming /\ W = Window /\ D = DOMAIN dayTotal /\ days = dayTotal
         /\ totals = [d \in W |-> Total(ExpectedCashByAcquirer(PaidRows, d))]
  OBVIOUS
<1>p. PICK part, partD : /\ part = [d \in W |-> {t \in S : DayOf(t) = d}]
                         /\ partD = [d \in D |-> {t \in S : DayOf(t) = d}]
  OBVIOUS
<1>4. /\ IsFiniteSet(S) /\ \A t \in S : f[t] \in Int
      /\ IsFiniteSet(W) /\ D \subseteq W /\ \A t \in S : DayOf(t) \in D
  <2>1. \A t \in Upcoming : t.ExpectedSettleDate \in Window
    BY DEF Upcoming
  <2>2. IsFiniteSet(Window)
    BY <1>2, InputsRead, FS_Interval DEF Window
  <2>3. \A t \in Upcoming : Nets[t] \in Int
    BY NetsSpec
  <2>4. D \subseteq W /\ \A t \in S : DayOf(t) \in D
    BY <1>3, <1>f, <2>1 DEF DayOf
  <2>q. QED BY <1>2, <1>f, <2>2, <2>3, <2>4
<1>5. /\ \A d \in W : part[d] = {t \in S : DayOf(t) = d}
      /\ \A d \in D : partD[d] = {t \in S : DayOf(t) = d}
  BY <1>p
<1>6. Parts(part, W, S) /\ Parts(partD, D, S)
  <2>1. /\ \A t : t \in S <=> \E d \in W : t \in part[d]
        /\ \A c, d \in W : c # d => part[c] \cap part[d] = {}
    BY <1>4, <1>5
  <2>2. /\ \A t : t \in S <=> \E d \in D : t \in partD[d]
        /\ \A c, d \in D : c # d => partD[c] \cap partD[d] = {}
    BY <1>4, <1>5
  <2>q. QED BY <2>1, <2>2 DEF Parts
<1>7. \A d \in W : totals[d] = Sum(f, part[d])
  <2> SUFFICES ASSUME NEW d \in W PROVE totals[d] = Sum(f, part[d])
    OBVIOUS
  <2>1. totals[d] = Total(ExpectedCashByAcquirer(PaidRows, d))
    BY <1>f
  <2>2. totals[d] = Total(Forecasted(d))
    BY <1>1, <2>1
  <2>3. Total(Forecasted(d)) = Sum(Nets, {t \in Upcoming : DayOf(t) = d})
    BY ForecastedTotal
  <2>q. QED BY <1>f, <1>5, <2>2, <2>3, Zenon
<1>8. \A d \in D : days[d] = Sum(f, partD[d])
  <2> SUFFICES ASSUME NEW d \in D PROVE days[d] = Sum(f, partD[d])
    OBVIOUS
  <2>1. days[d] = Sum(Nets, OnDay(d))
    BY <1>2, <1>f, Zenon DEF BucketsInv
  <2>2. OnDay(d) = {t \in S : DayOf(t) = d}
    BY <1>2, <1>f, Zenon DEF OnDay
  <2>q. QED BY <1>f, <1>5, <2>1, <2>2, Zenon
<1>9. Sum(totals, W) = Sum(f, S)
  BY <1>4, <1>6, <1>7, SumParts
<1>10. Sum(days, D) = Sum(f, S)
  <2>1. IsFiniteSet(D)
    BY <1>4, FS_Subset
  <2>q. QED BY <1>4, <1>6, <1>8, <2>1, SumParts
<1>11. grand = CashOfWindow(PaidRows)
  BY <1>2, <1>f, <1>9, <1>10, Zenon DEF CashOfWindow
<1>q. QED BY <1>3, <1>4, <1>11, <1>f

\* The rows stored and the rows to come are rows with a net.
LEMMA RowsWithNet ==
    ASSUME ForecastInv, Returned
    PROVE  \E R : /\ in.rows \in Seq(R) /\ PaidRows \in Seq(R)
                 /\ \A s \in R : s.NetMinor \in Int
<1>P. PICK P, R : /\ P = {PaidAsExpected(t) : t \in Upcoming}
                  /\ R = SettlementRead \cup P
  OBVIOUS
<1>1. IsFiniteSet(P)
  <2>1. PICK h : h = [t \in Upcoming |-> PaidAsExpected(t)]
    OBVIOUS
  <2>2. h \in Surjection(Upcoming, P)
    BY <1>P, <2>1 DEF Surjection
  <2>q. QED BY <2>2, AtReturn, FS_Surjection
<1>2. PaidRows \in Seq(P)
  BY <1>P, <1>1, Listing, Zenon DEF PaidRows
<1>3. in.rows \in Seq(SettlementRead)
  BY AtReturn, InputsRead
<1>4. \A s \in R : s.NetMinor \in Int
  <2>1. \A s \in SettlementRead : s.NetMinor \in Int
    BY DEF SettlementRead
  <2>2. \A s \in P : s.NetMinor \in Int
    BY <1>P, PaidSpec
  <2>q. QED BY <1>P, <2>1, <2>2
<1>5. in.rows \in Seq(R) /\ PaidRows \in Seq(R)
  <2>1. SettlementRead \subseteq R /\ P \subseteq R
    BY <1>P
  <2> HIDE DEF PaidRows
  <2>q. QED BY <1>2, <1>3, <2>1
<1>q. QED BY <1>4, <1>5

LEMMA ForecastIsCash ==
    ASSUME ForecastInv
    PROVE  ForecastComesTrue
<1> SUFFICES ASSUME Returned
             PROVE  /\ \A d \in Window, a \in Acquirers :
                          ExpectedCashByAcquirer(RowsToCome, d)[a]
                            = Wrap(ExpectedCashByAcquirer(in.rows, d)[a] + Forecasted(d)[a])
                    /\ CashOfWindow(RowsToCome) = Wrap(CashOfWindow(in.rows) + grand)
                    /\ DOMAIN dayTotal = {t.ExpectedSettleDate : t \in Upcoming}
  BY DEF ForecastComesTrue
<1>R. PICK R : /\ in.rows \in Seq(R) /\ PaidRows \in Seq(R)
               /\ \A s \in R : s.NetMinor \in Int
  BY RowsWithNet
<1>r. PICK old, new, all : old = in.rows /\ new = PaidRows /\ all = RowsToCome
  OBVIOUS
<1>1. ASSUME NEW d, NEW a \in Acquirers
      PROVE  /\ ExpectedCashByAcquirer(old, d)[a] \in Int
             /\ ExpectedCashByAcquirer(new, d)[a] \in Int
             /\ ExpectedCashByAcquirer(all, d)[a]
                  = Wrap(ExpectedCashByAcquirer(old, d)[a] + ExpectedCashByAcquirer(new, d)[a])
  <2>1. old \in Seq(R) /\ new \in Seq(R) /\ all = old \o new
    BY <1>R, <1>r, Zenon DEF RowsToCome
  <2>q. QED BY <1>R, <2>1, CashOfBoth
<1>2. ASSUME NEW d, NEW a \in Acquirers
      PROVE  ExpectedCashByAcquirer(RowsToCome, d)[a]
               = Wrap(ExpectedCashByAcquirer(in.rows, d)[a] + Forecasted(d)[a])
  BY <1>1, <1>r, CashIsForecast, Zenon
<1>3. ASSUME NEW d
      PROVE  /\ Total(ExpectedCashByAcquirer(old, d)) \in Int
             /\ Total(ExpectedCashByAcquirer(new, d)) \in Int
             /\ Total(ExpectedCashByAcquirer(all, d)) \in Int
             /\ Total(ExpectedCashByAcquirer(all, d))
                  = Wrap(Total(ExpectedCashByAcquirer(old, d))
                         + Total(ExpectedCashByAcquirer(new, d)))
  <2>f. PICK f, g, h : /\ f = ExpectedCashByAcquirer(old, d)
                       /\ g = ExpectedCashByAcquirer(new, d)
                       /\ h = ExpectedCashByAcquirer(all, d)
    OBVIOUS
  <2>1. \A a \in Acquirers : f[a] \in Int /\ g[a] \in Int /\ h[a] = Wrap(f[a] + g[a])
    BY <1>1, <2>f
  <2>2. \A a \in Acquirers : /\ f[a] \in Int /\ g[a] \in Int /\ h[a] \in Int
                             /\ Wrap(h[a]) = Wrap(f[a] + g[a])
    <3> SUFFICES ASSUME NEW a \in Acquirers
                 PROVE  /\ f[a] \in Int /\ g[a] \in Int /\ h[a] \in Int
                        /\ Wrap(h[a]) = Wrap(f[a] + g[a])
      OBVIOUS
    <3>1. PICK x \in Int : x = f[a] + g[a]
      BY <2>1
    <3>2. Wrap(Wrap(x)) = Wrap(x) /\ Wrap(x) \in Int
      BY WrapTwice
    <3>q. QED BY <2>1, <3>1, <3>2
  <2>3. Sum(h, Acquirers) = Wrap(Sum(f, Acquirers) + Sum(g, Acquirers))
    BY <2>2, FiniteAcquirers, SumPlus
  <2>4. Sum(f, Acquirers) \in Int /\ Sum(g, Acquirers) \in Int /\ Sum(h, Acquirers) \in Int
    BY <2>2, FiniteAcquirers, SumType
  <2>q. QED BY <2>f, <2>3, <2>4, Zenon DEF Total
<1>4. CashOfWindow(all) = Wrap(CashOfWindow(old) + CashOfWindow(new))
  <2>f. PICK f, g, h, W : /\ f = [d \in Window |-> Total(ExpectedCashByAcquirer(old, d))]
                          /\ g = [d \in Window |-> Total(ExpectedCashByAcquirer(new, d))]
                          /\ h = [d \in Window |-> Total(ExpectedCashByAcquirer(all, d))]
                          /\ W = Window
    OBVIOUS
  <2>1. ASSUME NEW d \in W
        PROVE  /\ f[d] \in Int /\ g[d] \in Int /\ h[d] \in Int
               /\ Wrap(h[d]) = Wrap(f[d] + g[d])
    <3>1. /\ f[d] = Total(ExpectedCashByAcquirer(old, d))
          /\ g[d] = Total(ExpectedCashByAcquirer(new, d))
          /\ h[d] = Total(ExpectedCashByAcquirer(all, d))
      BY <2>f
    <3>2. f[d] \in Int /\ g[d] \in Int /\ h[d] \in Int /\ h[d] = Wrap(f[d] + g[d])
      BY <1>3, <3>1, Zenon
    <3>3. PICK x \in Int : x = f[d] + g[d]
      BY <3>2
    <3>q. QED BY <3>2, <3>3, WrapTwice
  <2>2. IsFiniteSet(W)
    BY <2>f, WindowIsForecast
  <2>3. Sum(h, W) = Wrap(Sum(f, W) + Sum(g, W))
    BY <2>1, <2>2, SumPlus
  <2>q. QED BY <2>f, <2>3, Zenon DEF CashOfWindow
<1>q. QED BY <1>2, <1>4, <1>r, WindowIsForecast, Zenon

\* If every transaction still open is paid on its day with the expected fee,
\* the cash flow query reports of each day and acquirer what it reports of the
\* rows already stored plus what was forecast, for any ledger and any order of
\* the maps (forecast.go, Forecast; query/service.go, ExpectedCashByAcquirer).
THEOREM ForecastAlwaysComesTrue == ForecastSpec => []ForecastComesTrue
<1>q. QED BY ForecastIsCash, ForecastInvariant, PTL

-----------------------------------------------------------------------------
(***************************************************************************)
(* The forecast can be read.                                               *)
(***************************************************************************)
\* No payment is negative, every fee computes within 64 bits, and so do the sum
\* of all payments and that of all fees.
PaymentsFit ==
    \A call \in Inputs :
        /\ \A t \in call.txns : t.AmountMinor \in Nat /\ Fits(t.AmountMinor, 250)
        /\ Plain([t \in call.txns |-> t.AmountMinor], call.txns) < HalfRange
        /\ Plain([t \in call.txns |-> ExpectedFee(t.Acquirer, t.AmountMinor)], call.txns)
             < HalfRange

\* An acquirer that takes no more than the payment owes the rest.
LEMMA NetWithinPayment ==
    ASSUME PaymentsFit, in \in Inputs, NEW t \in in.txns, t.Acquirer # Global
    PROVE  PredictedNet(t) \in 0 .. t.AmountMinor
<1>1. /\ t.AmountMinor \in Nat /\ Fits(t.AmountMinor, 250) /\ t.Acquirer \in {Thai, Prompt}
      /\ t.AmountMinor \in Int64
      /\ PredictedNet(t) = Wrap(t.AmountMinor - ExpectedFee(t.Acquirer, t.AmountMinor))
  BY NetsAreInt64 DEF PaymentsFit, Acquirers
<1>2. ExpectedFee(t.Acquirer, t.AmountMinor) \in 0 .. t.AmountMinor
  BY <1>1, FeeWithinPayment
<1>3. PICK n : n = t.AmountMinor - ExpectedFee(t.Acquirer, t.AmountMinor)
  OBVIOUS
<1>4. n \in 0 .. t.AmountMinor
  BY <1>1, <1>2, <1>3
<1>5. n \in Int64
  BY <1>1, <1>4, HalfRangeAssumption DEF Int64
<1>6. Wrap(n) = n
  BY <1>5, WrapExact
<1>q. QED BY <1>1, <1>3, <1>4, <1>6

\* No acquirer is expected to pay for a payment.
LEMMA FeesNotNegative ==
    ASSUME PaymentsFit, in \in Inputs, NEW t \in in.txns
    PROVE  ExpectedFee(t.Acquirer, t.AmountMinor) \in Nat
<1>1. t.AmountMinor \in Nat /\ Fits(t.AmountMinor, 250) /\ t.Acquirer \in {Thai, Global, Prompt}
  BY NetsAreInt64 DEF PaymentsFit, Acquirers
<1>2. CASE t.Acquirer # Global
  <2>1. ExpectedFee(t.Acquirer, t.AmountMinor) \in 0 .. t.AmountMinor
    BY <1>1, <1>2, FeeWithinPayment
  <2>q. QED BY <1>1, <2>1
<1>3. CASE t.Acquirer = Global
  <2>g. PICK g \in Nat : g = t.AmountMinor
    BY <1>1
  <2>1. Fits(g, 200) /\ HalfRange > 2000
    BY <1>1, <2>g, HalfRangeAssumption, SMT DEF Fits
  <2>2. ExpectedFee(Global, g) \in Nat
    BY <2>1, GlobalFee, SMT
  <2>q. QED BY <1>3, <2>g, <2>2, Zenon
<1>q. QED BY <1>2, <1>3

\* The nets of any part of the window add up without wrapping.
LEMMA NetsExact ==
    ASSUME PaymentsFit, ForecastInv, Returned, NEW B, B \subseteq Upcoming
    PROVE  /\ IsFiniteSet(B) /\ \A t \in B : Nets[t] \in Int
           /\ Plain(Nets, B) \in Int64 /\ Sum(Nets, B) = Plain(Nets, B)
<1>i. in \in Inputs /\ IsFiniteSet(in.txns) /\ B \subseteq in.txns
  BY AtReturn
<1>f. PICK f, g, h, S : /\ f = Nets /\ S = in.txns
                        /\ g = [t \in in.txns |-> t.AmountMinor]
                        /\ h = [t \in in.txns |-> ExpectedFee(t.Acquirer, t.AmountMinor)]
  OBVIOUS
<1>1. /\ \A t \in S : g[t] \in Nat /\ h[t] \in Nat
      /\ Plain(g, S) < HalfRange /\ Plain(h, S) < HalfRange
  BY <1>i, <1>f, FeesNotNegative, Zenon DEF PaymentsFit
<1>2. IsFiniteSet(S) /\ B \subseteq S /\ IsFiniteSet(B)
  BY <1>i, <1>f, FS_Subset
<1>3. Plain(g, S) \in Nat /\ Plain(h, S) \in Nat
  BY <1>1, <1>2, PlainNat
<1>4. ASSUME NEW t \in S
      PROVE  f[t] \in Int /\ g[t] = f[t] + h[t]
  <2>1. /\ f[t] = PredictedNet(t) /\ PredictedNet(t) \in Int
        /\ PredictedNet(t) = Wrap(g[t] - h[t])
    BY <1>i, <1>f, NetsAreInt64 DEF Nets
  <2>2. g[t] \in 0 .. Plain(g, S) /\ h[t] \in 0 .. Plain(h, S)
    <3>1. IsFiniteSet({t}) /\ {t} \in SUBSET S /\ t \notin {} /\ IsFiniteSet({})
      BY FS_Singleton, FS_EmptySet
    <3>2. \A x \in {t} : g[x] \in 0 .. g[x] /\ h[x] \in 0 .. h[x]
      BY <1>1
    <3>3. Plain(g, {t}) \in 0 .. Plain(g, S) /\ Plain(h, {t}) \in 0 .. Plain(h, S)
      BY <1>1, <1>2, <3>1, <3>2, PlainWithin
    <3>4. Plain(g, {} \cup {t}) = Plain(g, {}) + g[t] /\ Plain(h, {} \cup {t}) = Plain(h, {}) + h[t]
      <4>1. \A x \in {} \cup {t} : g[x] \in Int /\ h[x] \in Int
        BY <1>1
      <4>q. QED BY <3>1, <4>1, PlainAdd
    <3>5. Plain(g, {}) = 0 /\ Plain(h, {}) = 0 /\ {} \cup {t} = {t}
      BY FS_EmptySet, PlainFirst
    <3>6. Plain(g, {t}) = 0 + g[t] /\ Plain(h, {t}) = 0 + h[t]
      BY <3>4, <3>5, Zenon
    <3>q. QED BY <1>1, <3>3, <3>6
  <2>3. g[t] - h[t] \in Int64
    BY <1>1, <1>3, <2>2, HalfRangeAssumption DEF Int64
  <2>4. Wrap(g[t] - h[t]) = g[t] - h[t]
    BY <2>3, WrapExact
  <2>q. QED BY <1>1, <2>1, <2>4
<1>5. Plain(g, B) = Plain(f, B) + Plain(h, B)
  <2>1. \A t \in B : f[t] \in Int /\ h[t] \in Int /\ g[t] = f[t] + h[t]
    BY <1>1, <1>2, <1>4
  <2>q. QED BY <1>2, <2>1, PlainPlus
<1>6. Plain(g, B) \in 0 .. Plain(g, S) /\ Plain(h, B) \in 0 .. Plain(h, S)
  <2>1. \A t \in B : g[t] \in 0 .. g[t] /\ h[t] \in 0 .. h[t]
    BY <1>1, <1>2
  <2>q. QED BY <1>1, <1>2, <2>1, PlainWithin
<1>7. Plain(f, B) \in Int
  BY <1>2, <1>4, PlainType
<1>8. Plain(f, B) \in Int64
  BY <1>1, <1>3, <1>5, <1>6, <1>7, HalfRangeAssumption DEF Int64
<1>9. Sum(f, B) = Plain(f, B)
  BY <1>8, WrapExact DEF Sum, Plain
<1>q. QED BY <1>2, <1>4, <1>8, <1>9, <1>f

\* Without GlobalPay's transactions the nets of any part of the window do not
\* add up to less than nothing.
LEMMA OthersNotNegative ==
    ASSUME PaymentsFit, ForecastInv, Returned, NEW B, B \subseteq Upcoming,
           \A t \in B : t.Acquirer # Global
    PROVE  Plain(Nets, B) \in Nat
<1>1. in \in Inputs /\ B \subseteq in.txns /\ IsFiniteSet(B)
  BY AtReturn, NetsExact
<1>2. \A t \in B : Nets[t] \in Nat
  <2> SUFFICES ASSUME NEW t \in B PROVE Nets[t] \in Nat
    OBVIOUS
  <2>1. Nets[t] = PredictedNet(t)
    BY NetsSpec
  <2>2. t.AmountMinor \in Nat /\ PredictedNet(t) \in 0 .. t.AmountMinor
    BY <1>1, NetWithinPayment DEF PaymentsFit
  <2>q. QED BY <2>1, <2>2
<1>3. PICK f : f = Nets
  OBVIOUS
<1>4. Plain(f, B) \in Nat
  BY <1>1, <1>2, <1>3, PlainNat
<1>q. QED BY <1>3, <1>4

\* What is not negative can be read.
LEMMA NatReadable ==
    ASSUME NEW n \in Int64, n >= 0
    PROVE  Readable(n)
<1>1. n \in Nat /\ n < HalfRange
  BY HalfRangeAssumption DEF Int64
<1>q. QED BY <1>1, AmountsReadBack DEF Readable

\* The buckets and the day totals add up without wrapping.
LEMMA BucketsExact ==
    ASSUME PaymentsFit, ForecastInv, Returned
    PROVE  /\ DOMAIN netByAcq = {BucketOf(t) : t \in Upcoming}
           /\ DOMAIN dayTotal = {DayOf(t) : t \in Upcoming}
           /\ \A k \in DOMAIN netByAcq :
                 /\ netByAcq[k] \in Int64
                 /\ netByAcq[k] = Plain(Nets, {t \in Upcoming : BucketOf(t) = k})
           /\ \A d \in DOMAIN dayTotal :
                 /\ dayTotal[d] \in Int64
                 /\ dayTotal[d] = Plain(Nets, {t \in Upcoming : DayOf(t) = d})
<1>1. Counted = Upcoming /\ BucketsInv
  BY AtReturn
<1>2. ASSUME NEW k \in DOMAIN netByAcq
      PROVE  /\ netByAcq[k] \in Int64
             /\ netByAcq[k] = Plain(Nets, {t \in Upcoming : BucketOf(t) = k})
  <2>1. netByAcq[k] = Sum(Nets, InBucket(k))
    BY <1>1, Zenon DEF BucketsInv
  <2>2. InBucket(k) = {t \in Upcoming : BucketOf(t) = k}
    BY <1>1, Zenon DEF InBucket
  <2>B. PICK B : B = {t \in Upcoming : BucketOf(t) = k}
    OBVIOUS
  <2>3. B \subseteq Upcoming
    BY <2>B
  <2>4. Plain(Nets, B) \in Int64 /\ Sum(Nets, B) = Plain(Nets, B)
    BY <2>3, NetsExact
  <2>q. QED BY <2>1, <2>2, <2>4, <2>B, Zenon
<1>3. ASSUME NEW d \in DOMAIN dayTotal
      PROVE  /\ dayTotal[d] \in Int64
             /\ dayTotal[d] = Plain(Nets, {t \in Upcoming : DayOf(t) = d})
  <2>1. dayTotal[d] = Sum(Nets, OnDay(d))
    BY <1>1, Zenon DEF BucketsInv
  <2>2. OnDay(d) = {t \in Upcoming : DayOf(t) = d}
    BY <1>1, Zenon DEF OnDay
  <2>B. PICK B : B = {t \in Upcoming : DayOf(t) = d}
    OBVIOUS
  <2>3. B \subseteq Upcoming
    BY <2>B
  <2>4. Plain(Nets, B) \in Int64 /\ Sum(Nets, B) = Plain(Nets, B)
    BY <2>3, NetsExact
  <2>q. QED BY <2>1, <2>2, <2>4, <2>B, Zenon
<1>4. /\ DOMAIN netByAcq = {BucketOf(t) : t \in Upcoming}
      /\ DOMAIN dayTotal = {DayOf(t) : t \in Upcoming}
  BY <1>1, Zenon DEF BucketsInv
<1>q. QED BY <1>2, <1>3, <1>4

\* A day whose transactions bring less than nothing is one on which GlobalPay's
\* do.
LEMMA DayOwesGlobalPay ==
    ASSUME PaymentsFit, ForecastInv, Returned, NEW d \in DOMAIN dayTotal, dayTotal[d] < 0
    PROVE  OwesGlobalPay(d)
<1>k. PICK k : k = <<d, Global>>
  OBVIOUS
<1>f. PICK f, B, A, O : /\ f = Nets
                        /\ B = {t \in Upcoming : DayOf(t) = d}
                        /\ A = {t \in Upcoming : BucketOf(t) = k}
                        /\ O = B \ A
  OBVIOUS
<1>1. dayTotal[d] = Plain(f, B)
  BY <1>f, BucketsExact, Zenon
<1>2. A \subseteq Upcoming /\ B \subseteq Upcoming /\ O \subseteq Upcoming
  BY <1>f
<1>3. A \cup O = B /\ A \cap O = {}
  BY <1>f, <1>k DEF BucketOf, DayOf
<1>4. \A t \in O : t.Acquirer # Global
  BY <1>f, <1>k DEF BucketOf, DayOf
<1>5. /\ IsFiniteSet(A) /\ IsFiniteSet(O) /\ \A t \in A \cup O : f[t] \in Int
      /\ Plain(f, A) \in Int64
  <2>1. IsFiniteSet(A) /\ Plain(f, A) \in Int64 /\ \A t \in A : f[t] \in Int
    BY <1>2, <1>f, NetsExact
  <2>2. IsFiniteSet(O) /\ \A t \in O : f[t] \in Int
    BY <1>2, <1>f, NetsExact
  <2>q. QED BY <2>1, <2>2
<1>6. Plain(f, A \cup O) = Plain(f, A) + Plain(f, O)
  BY <1>3, <1>5, PlainUnion
<1>7. Plain(f, O) \in Nat
  BY <1>2, <1>4, <1>f, OthersNotNegative
<1>8. Plain(f, A) < 0
  <2>1. Plain(f, A) \in Int
    BY <1>5, Int64IsInt
  <2>2. dayTotal[d] = Plain(f, A) + Plain(f, O)
    BY <1>1, <1>3, <1>6, Zenon
  <2>q. QED BY <1>7, <2>1, <2>2
<1>9. A # {}
  <2>1. Plain(f, {}) = 0
    BY FS_EmptySet, PlainFirst
  <2>q. QED BY <1>8, <2>1
<1>10. k \in DOMAIN netByAcq
  <2>1. PICK t \in Upcoming : BucketOf(t) = k
    BY <1>9, <1>f
  <2>q. QED BY <2>1, BucketsExact
<1>11. netByAcq[k] = Plain(f, A)
  BY <1>10, <1>f, BucketsExact, Zenon
<1>q. QED BY <1>8, <1>10, <1>11, <1>k DEF OwesGlobalPay

LEMMA ForecastReads ==
    ASSUME PaymentsFit, ForecastInv
    PROVE  AmountsReadable
<1> SUFFICES ASSUME Returned
             PROVE  /\ \A k \in DOMAIN netByAcq :
                          Readable(netByAcq[k]) \/ (k[2] = Global /\ OwesGlobalPay(k[1]))
                    /\ \A d \in DOMAIN dayTotal :
                          Readable(dayTotal[d]) \/ (dayTotal[d] < 0 /\ OwesGlobalPay(d))
                    /\ Readable(grand) \/ (grand < 0 /\ \E d \in DOMAIN dayTotal : OwesGlobalPay(d))
  BY DEF AmountsReadable
<1>1. ASSUME NEW k \in DOMAIN netByAcq
      PROVE  Readable(netByAcq[k]) \/ (k[2] = Global /\ OwesGlobalPay(k[1]))
  <2>B. PICK B, f, n : /\ B = {t \in Upcoming : BucketOf(t) = k} /\ f = Nets
                       /\ n = netByAcq[k]
    OBVIOUS
  <2>1. n \in Int64 /\ n = Plain(f, B) /\ n \in Int
    BY <2>B, BucketsExact, Int64IsInt
  <2>2. CASE n >= 0
    BY <2>1, <2>2, <2>B, NatReadable
  <2>3. CASE n < 0
    <3>1. PICK u \in Upcoming : k = BucketOf(u)
      BY BucketsExact
    <3>2. k = <<k[1], k[2]>>
      BY <3>1 DEF BucketOf
    <3>3. ASSUME k[2] # Global PROVE FALSE
      <4>1. B \subseteq Upcoming /\ \A t \in B : t.Acquirer # Global
        BY <2>B, <3>3 DEF BucketOf
      <4>2. Plain(f, B) \in Nat
        BY <2>B, <4>1, OthersNotNegative
      <4>q. QED BY <2>1, <2>3, <4>2
    <3>4. k[2] = Global /\ k = <<k[1], Global>>
      BY <3>2, <3>3
    <3>5. <<k[1], Global>> \in DOMAIN netByAcq /\ netByAcq[<<k[1], Global>>] < 0
      BY <2>3, <2>B, <3>4, Zenon
    <3>q. QED BY <3>4, <3>5 DEF OwesGlobalPay
  <2>q. QED BY <2>1, <2>2, <2>3
<1>2. ASSUME NEW d \in DOMAIN dayTotal
      PROVE  Readable(dayTotal[d]) \/ (dayTotal[d] < 0 /\ OwesGlobalPay(d))
  <2>1. dayTotal[d] \in Int64 /\ dayTotal[d] \in Int
    BY BucketsExact, Int64IsInt
  <2>2. CASE dayTotal[d] >= 0
    BY <2>1, <2>2, NatReadable
  <2>3. CASE dayTotal[d] < 0
    BY <2>3, DayOwesGlobalPay
  <2>q. QED BY <2>1, <2>2, <2>3
<1>3. Readable(grand) \/ (grand < 0 /\ \E d \in DOMAIN dayTotal : OwesGlobalPay(d))
  <2>f. PICK f, S, D, days, part :
           /\ f = Nets /\ S = Upcoming /\ D = DOMAIN dayTotal /\ days = dayTotal
           /\ part = [d \in D |-> {t \in S : DayOf(t) = d}]
    OBVIOUS
  <2>1. /\ IsFiniteSet(S) /\ \A t \in S : f[t] \in Int
        /\ Plain(f, S) \in Int64
    BY <2>f, NetsExact
  <2>2. D = {DayOf(t) : t \in S}
    BY <2>f, BucketsExact
  <2>3. IsFiniteSet(D)
    <3>1. PICK h : h = [t \in S |-> DayOf(t)]
      OBVIOUS
    <3>2. h \in Surjection(S, D)
      BY <2>2, <3>1 DEF Surjection
    <3>q. QED BY <2>1, <3>2, FS_Surjection
  <2>4. \A d \in D : part[d] = {t \in S : DayOf(t) = d}
    BY <2>f
  <2>5. Parts(part, D, S)
    <3>1. \A t : t \in S <=> \E d \in D : t \in part[d]
      BY <2>2, <2>4
    <3>2. \A c, d \in D : c # d => part[c] \cap part[d] = {}
      BY <2>4
    <3>q. QED BY <3>1, <3>2 DEF Parts
  <2>6. \A d \in D : days[d] = Plain(f, part[d])
    <3> SUFFICES ASSUME NEW d \in D PROVE days[d] = Plain(f, part[d])
      OBVIOUS
    <3>1. days[d] = Plain(f, {t \in S : DayOf(t) = d})
      BY <2>f, BucketsExact, Zenon
    <3>q. QED BY <2>4, <3>1, Zenon
  <2>7. Plain(days, D) = Plain(f, S)
    BY <2>1, <2>3, <2>5, <2>6, PlainParts
  <2>8. grand = Wrap(Plain(days, D))
    <3>1. grand = Sum(dayTotal, DOMAIN dayTotal)
      BY AtReturn
    <3>q. QED BY <2>f, <3>1, Zenon DEF Sum, Plain
  <2>9. grand \in Int64 /\ grand \in Int /\ grand = Plain(days, D)
    BY <2>1, <2>7, <2>8, WrapExact, Int64IsInt
  <2>10. CASE grand >= 0
    BY <2>9, <2>10, NatReadable
  <2>11. CASE grand < 0
    <3>1. \E d \in D : days[d] < 0
      <4>1. \A d \in D : days[d] \in Int
        BY <2>f, BucketsExact, Int64IsInt
      <4> SUFFICES ASSUME \A d \in D : ~(days[d] < 0) PROVE FALSE
        OBVIOUS
      <4>2. \A d \in D : days[d] \in Nat
        BY <4>1
      <4>3. Plain(days, D) \in Nat
        BY <2>3, <4>2, PlainNat
      <4>q. QED BY <2>9, <2>11, <4>3
    <3>2. PICK d \in D : days[d] < 0
      BY <3>1
    <3>3. OwesGlobalPay(d)
      BY <2>f, <3>2, DayOwesGlobalPay
    <3>q. QED BY <2>11, <2>f, <3>3
  <2>q. QED BY <2>9, <2>10, <2>11
<1>q. QED BY <1>1, <1>2, <1>3

\* Every net, day total and grand total of a forecast reads back as printed, or
\* it is below zero and so are GlobalPay's payments of that day, of some day,
\* less its fees; as long as the payments, the fees and their sums fit
\* (forecast.go, Forecast; money.go, FormatMinorUnits).
THEOREM ForecastAlwaysReads ==
    ASSUME PaymentsFit
    PROVE  ForecastSpec => []AmountsReadable
<1>1. ForecastInv => AmountsReadable
  BY ForecastReads
<1>q. QED BY <1>1, ForecastInvariant, PTL
=============================================================================
