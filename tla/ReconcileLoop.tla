---------------------------- MODULE ReconcileLoop ----------------------------
(***************************************************************************)
(* reconcile.Reconcile as the code computes it: an index over the rows,    *)
(* a loop over the transactions that marks the rows it consumes, and a     *)
(* loop over the index for the rows nobody consumed.  The input slices     *)
(* come from Go maps and the last loop ranges over one, so transactions    *)
(* and index keys are taken in any order.  Module Reconcile defines what   *)
(* the result should be.                                                   *)
(***************************************************************************)
EXTENDS Reconcile, FiniteSets

CONSTANTS Inputs        \* calls: [txns, rows, asOf, days]

\* What is read of a transaction and of a settlement (its net and its date by
\* the cash flow query only).
TransactionRead == [ID: STRING, Acquirer: Acquirers, AmountMinor: Int, Currency: STRING,
                    ExpectedSettleDate: Int]
SettlementRead  == [TransactionID: STRING, Acquirer: Acquirers, GrossMinor: Int,
                    NetMinor: Int, SettlementDate: Int]

\* The store keeps one transaction per ID, and only of acquirers with a schedule.
ASSUME InputsAssumption ==
    \A call \in Inputs :
        /\ call.txns \subseteq TransactionRead /\ IsFiniteSet(call.txns)
        /\ \A t, u \in call.txns : t.ID = u.ID => t = u
        /\ call.rows \in Seq(SettlementRead)
        /\ call.asOf \in Int /\ call.days \in Int

VARIABLES
    in,             \* the arguments
    phase,          \* the loop being run
    i,              \* the next row to index
    settlementIdx,  \* <<TransactionID, Acquirer>> -> index of the first row
    dupCount,       \* <<TransactionID, Acquirer>> -> number of rows
    todo,           \* the transactions not yet matched
    consumed,       \* keys of the rows matched, exactly or by ID alone
    keysLeft,       \* index keys the last loop has still to visit
    reconciled,
    discrepancies

loopVars == <<in, phase, i, settlementIdx, dupCount, todo, consumed, keysLeft,
              reconciled, discrepancies>>

RowKey(s) == <<s.TransactionID, s.Acquirer>>
TxnKey(t) == <<t.ID, t.Acquirer>>

NoKeys == [k \in {} |-> 0]

With(map, k, v) == [x \in DOMAIN map \cup {k} |-> IF x = k THEN v ELSE map[x]]

\* Faulty variant of KeepFirst: the last row of a key is kept.
KeepLast(map, k, v) == With(map, k, v)

KeepFirst(map, k, v) == IF k \in DOMAIN map THEN map ELSE With(map, k, v)

LoopInit ==
    /\ in \in Inputs
    /\ phase = "index"
    /\ i = 1
    /\ settlementIdx = NoKeys
    /\ dupCount = NoKeys
    /\ todo = in.txns
    /\ consumed = {}
    /\ keysLeft = {}
    /\ reconciled = {}
    /\ discrepancies = {}

\* The first row of a key is kept, every row is counted.
IndexRow ==
    /\ phase = "index"
    /\ i <= Len(in.rows)
    /\ LET k == RowKey(in.rows[i]) IN
       /\ dupCount' = With(dupCount, k, IF k \in DOMAIN dupCount THEN dupCount[k] + 1 ELSE 1)
       /\ settlementIdx' = KeepFirst(settlementIdx, k, i)
    /\ i' = i + 1
    /\ UNCHANGED <<in, phase, todo, consumed, keysLeft, reconciled, discrepancies>>

\* Faulty variant of Repeated: off by one.
RepeatedTwice == {k \in DOMAIN dupCount : dupCount[k] > 2}

Repeated == {k \in DOMAIN dupCount : dupCount[k] > 1}

FlagDuplicates ==
    /\ phase = "index"
    /\ i > Len(in.rows)
    /\ phase' = "match"
    /\ discrepancies' = {Discrepancy(k[1], k[2], "duplicate_settlement") : k \in Repeated}
    /\ UNCHANGED <<in, i, settlementIdx, dupCount, todo, consumed, keysLeft, reconciled>>

Entry(t, status, row) == [Transaction |-> t, Status |-> status, Settlement |-> row]

\* The exact match settles t, whatever its amount.
MatchExactly(t) ==
    LET k == TxnKey(t) IN
    /\ k \in DOMAIN settlementIdx
    /\ consumed' = consumed \cup {k}
    /\ discrepancies' = discrepancies \cup
          {Discrepancy(t.ID, t.Acquirer, "amount_mismatch") :
              row \in {r \in {settlementIdx[k]} : in.rows[r].GrossMinor # t.AmountMinor}}
    /\ reconciled' = reconciled \cup {Entry(t, "settled", settlementIdx[k])}

\* Rows of t under other acquirers are flagged; t stays open.
MatchNothing(t) ==
    LET strays == {j \in DOMAIN in.rows : /\ in.rows[j].TransactionID = t.ID
                                          /\ in.rows[j].Acquirer # t.Acquirer}
        status == IF t.ExpectedSettleDate < in.asOf THEN "overdue" ELSE "pending"
    IN
    /\ TxnKey(t) \notin DOMAIN settlementIdx
    /\ consumed' = consumed \cup {RowKey(in.rows[j]) : j \in strays}
    /\ discrepancies' = discrepancies \cup
          {Discrepancy(t.ID, in.rows[j].Acquirer, "acquirer_mismatch") : j \in strays}
    /\ reconciled' = reconciled \cup {Entry(t, status, NoRow)}

MatchTransaction ==
    /\ phase = "match"
    /\ \E t \in todo : /\ MatchExactly(t) \/ MatchNothing(t)
                       /\ todo' = todo \ {t}
    /\ UNCHANGED <<in, phase, i, settlementIdx, dupCount, keysLeft>>

AllMatched ==
    /\ phase = "match"
    /\ todo = {}
    /\ phase' = "unknown"
    /\ keysLeft' = DOMAIN settlementIdx
    /\ UNCHANGED <<in, i, settlementIdx, dupCount, todo, consumed, reconciled, discrepancies>>

KnownTxn(id) == \E t \in in.txns : t.ID = id

\* A key the last loop passes over: consumed, or else of a known transaction.
PassesOver(k) == k \in consumed \/ KnownTxn(k[1])

FlagUnknown ==
    /\ phase = "unknown"
    /\ \E k \in keysLeft :
          /\ keysLeft' = keysLeft \ {k}
          /\ \/ /\ PassesOver(k)
                /\ UNCHANGED discrepancies
             \/ /\ ~PassesOver(k)
                /\ discrepancies' = discrepancies \cup
                      {Discrepancy(k[1], k[2], "unknown_transaction")}
    /\ UNCHANGED <<in, phase, i, settlementIdx, dupCount, todo, consumed, reconciled>>

Return ==
    /\ phase = "unknown"
    /\ keysLeft = {}
    /\ phase' = "done"
    /\ UNCHANGED <<in, i, settlementIdx, dupCount, todo, consumed, keysLeft,
                   reconciled, discrepancies>>

LoopNext == \/ IndexRow \/ FlagDuplicates \/ MatchTransaction
            \/ AllMatched \/ FlagUnknown \/ Return

LoopSpec == LoopInit /\ [][LoopNext]_loopVars

-----------------------------------------------------------------------------
\* Whatever order the maps are walked in, the loops compute the same result,
\* and it is the one module Reconcile defines (reconcile.go, Reconcile).
LoopsComputeReconcile ==
    phase = "done" =>
        /\ reconciled = Reconciled(in.txns, in.rows, in.asOf)
        /\ discrepancies = Discrepancies(in.txns, in.rows)

\* No row goes unnoticed: it settles a transaction, repeats a key that is
\* flagged, or is flagged itself; except beside an exact match, where a row
\* of the same transaction under another acquirer is passed over in silence.
RowsAccountedFor ==
    phase = "done" =>
        \A j \in DOMAIN in.rows :
            LET s == in.rows[j] IN
            \/ \E e \in reconciled : e.Settlement = j
            \/ \E d \in discrepancies : d.TransactionID = s.TransactionID
                                        /\ d.Acquirer = s.Acquirer
                                        /\ d.Reason # "amount_mismatch"
            \/ \E e \in reconciled : /\ e.Status = "settled"
                                     /\ e.Transaction.ID = s.TransactionID
                                     /\ e.Transaction.Acquirer # s.Acquirer

\* The comment of the defensive branch (reconcile.go, last loop): a key that
\* was not consumed and whose transaction is known "shouldn't happen".
DefensiveBranchIsDead ==
    phase = "unknown" => \A k \in keysLeft : k \in consumed \/ ~KnownTxn(k[1])

\* What README.md and TEST_CASES.md say of a missing settlement: overdue when
\* the expected date is on or before as_of.  The code waits for the day to end.
OverdueOnTheDay ==
    phase = "done" =>
        \A e \in reconciled :
            e.Settlement = NoRow /\ e.Transaction.ExpectedSettleDate <= in.asOf
                => e.Status = "overdue"

-----------------------------------------------------------------------------
(***************************************************************************)
(* The inductive invariant: what the loops know at every turn.             *)
(***************************************************************************)
\* The rows of a key among those indexed, and the keys of these.
IndexedRows(k) == {j \in 1 .. i-1 : RowKey(in.rows[j]) = k}
IndexedKeys    == {RowKey(in.rows[j]) : j \in 1 .. i-1}

\* The index knows the first row of every key, the count whether it is the only one.
IndexInv ==
    /\ i \in 1 .. Len(in.rows) + 1
    /\ DOMAIN settlementIdx = IndexedKeys /\ DOMAIN dupCount = IndexedKeys
    /\ \A k \in IndexedKeys :
          /\ settlementIdx[k] \in IndexedRows(k)
          /\ \A j \in IndexedRows(k) : settlementIdx[k] <= j
          /\ dupCount[k] \in Nat \ {0}
          /\ dupCount[k] > 1 <=> \E j, l \in IndexedRows(k) : j # l

\* The keys that the transactions of ts consume.
Consumed(ts) ==
    {TxnKey(t) : t \in {u \in ts : UsedRow(u, in.rows) # NoRow}}
    \cup {RowKey(in.rows[j]) : j \in {l \in DOMAIN in.rows :
              \E t \in ts : UsedRow(t, in.rows) = NoRow /\ SameTxn(t, in.rows[l])}}

Handled == in.txns \ todo

\* The transactions handled so far have got what module Reconcile gives them.
MatchInv ==
    /\ todo \subseteq in.txns
    /\ phase = "index" => /\ todo = in.txns
                          /\ consumed = {} /\ reconciled = {} /\ discrepancies = {}
    /\ phase # "index" => /\ i = Len(in.rows) + 1
                          /\ consumed = Consumed(Handled)
                          /\ reconciled = Reconciled(Handled, in.rows, in.asOf)
    /\ phase = "match" =>
          discrepancies = Duplicates(in.rows) \cup AmountMismatches(Handled, in.rows)
                              \cup AcquirerMismatches(Handled, in.rows)

\* So have the keys of no known transaction that the last loop has visited.
UnknownInv ==
    phase \in {"unknown", "done"} =>
        /\ todo = {}
        /\ keysLeft \subseteq IndexedKeys
        /\ phase = "done" => keysLeft = {}
        /\ discrepancies =
              Duplicates(in.rows) \cup AmountMismatches(in.txns, in.rows)
                \cup AcquirerMismatches(in.txns, in.rows)
                \cup {Discrepancy(k[1], k[2], "unknown_transaction") :
                          k \in {x \in IndexedKeys \ keysLeft : ~KnownTxn(x[1])}}

LoopInv ==
    /\ in \in Inputs
    /\ phase \in {"index", "match", "unknown", "done"}
    /\ IndexInv
    /\ MatchInv
    /\ UnknownInv
=============================================================================
