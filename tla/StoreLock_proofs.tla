-------------------------- MODULE StoreLock_proofs --------------------------
(***************************************************************************)
(* The lock of the store excludes what it must, and under it the store     *)
(* acts atomically, for any number of goroutines, maps and records.        *)
(***************************************************************************)
EXTENDS StoreLock, TLAPS

LEMMA LockInitial == LockInit => LockInv
BY DEF LockInit, LockInv, LockTypeOK, Exclusion, CopiesAreCurrent, NoEntries, Procs

\* A step of a save keeps the invariant.
LEMMA SaveKeeps ==
    ASSUME LockInv, NEW w \in Writers,
           CallSave(w) \/ Announce(w) \/ Write(w) \/ Unlock(w)
    PROVE  LockInv'
<1> USE StoreAssumption DEF Procs
<1>1. CASE CallSave(w)
  <2>1. LockTypeOK' BY <1>1 DEF LockInv, LockTypeOK, CallSave
  <2>2. Exclusion' BY <1>1 DEF LockInv, LockTypeOK, Exclusion, CallSave
  <2>3. CopiesAreCurrent' BY <1>1 DEF LockInv, LockTypeOK, CopiesAreCurrent, CallSave
  <2>q. QED BY <2>1, <2>2, <2>3 DEF LockInv
<1>2. CASE Announce(w)
  <2>1. LockTypeOK' BY <1>2 DEF LockInv, LockTypeOK, Announce
  <2>2. Exclusion' BY <1>2 DEF LockInv, LockTypeOK, Exclusion, Announce
  <2>3. CopiesAreCurrent' BY <1>2 DEF LockInv, LockTypeOK, CopiesAreCurrent, Announce
  <2>q. QED BY <2>1, <2>2, <2>3 DEF LockInv
<1>3. CASE Write(w)
  <2>1. LockTypeOK' BY <1>3 DEF LockInv, LockTypeOK, Write
  <2>2. Exclusion' BY <1>3 DEF LockInv, LockTypeOK, Exclusion, Write
  <2>3. \A r \in Readers : pc[r] # "copy" /\ pc'[r] = pc[r]
    BY <1>3 DEF LockInv, LockTypeOK, Exclusion, Write
  <2>4. CopiesAreCurrent' BY <1>3, <2>3 DEF LockInv, CopiesAreCurrent, Write
  <2>q. QED BY <2>1, <2>2, <2>4 DEF LockInv
<1>4. CASE Unlock(w)
  <2>1. /\ pc[w] = "unlock" /\ pending = {w} /\ holding = {}
        /\ pending' = {} /\ holding' = Waiting
    BY <1>4 DEF LockInv, Exclusion, Unlock
  <2>2. \A v \in Writers : pc'[v] = IF v = w THEN "idle" ELSE pc[v]
    BY <1>4 DEF Unlock, Waiting
  <2>3. \A r \in Readers : pc'[r] = IF pc[r] = "wait" THEN "copy" ELSE pc[r]
    BY <1>4 DEF Unlock, Waiting
  <2>4. LockTypeOK'
    <3>1. pc' \in [Procs -> {"idle", "lock", "drain", "unlock",
                             "rlock", "wait", "copy", "return"}]
      BY <1>4 DEF LockInv, LockTypeOK, Unlock
    <3>2. /\ \A v \in Writers : pc'[v] \in {"idle", "lock", "drain", "unlock"}
          /\ \A r \in Readers : pc'[r] \in {"idle", "rlock", "wait", "copy", "return"}
      BY <2>2, <2>3 DEF LockInv, LockTypeOK
    <3>3. /\ entry' \in [Writers -> (Keys \X Values) \cup {NoEntry}]
          /\ \A v \in Writers : pc'[v] # "idle" => entry'[v] \in Keys \X Values
      BY <1>4, <2>2 DEF LockInv, LockTypeOK, Unlock
    <3>4. \A r \in Readers : pc'[r] # "idle" => table'[r] \in Tables
      BY <1>4, <2>3 DEF LockInv, LockTypeOK, Unlock
    <3>q. QED BY <1>4, <2>1, <3>1, <3>2, <3>3, <3>4 DEF LockInv, LockTypeOK, Unlock, Waiting
  <2>5. Exclusion'
    <3>1. \A r \in Readers : pc'[r] = "copy" <=> r \in holding'
      BY <2>1, <2>3 DEF LockInv, Exclusion, Waiting
    <3>2. \A v \in Writers : pc'[v] \notin {"drain", "unlock"}
      <4> SUFFICES ASSUME NEW v \in Writers, v # w
                   PROVE  pc[v] \notin {"drain", "unlock"}
        BY <2>2
      <4>1. pending # {v} BY <2>1
      <4>q. QED BY <4>1 DEF LockInv, Exclusion
    <3>q. QED BY <2>1, <3>1, <3>2 DEF Exclusion
  <2>6. CopiesAreCurrent' BY <1>4, <2>1, <2>3 DEF LockInv, Exclusion, CopiesAreCurrent, Unlock, NoEntries
  <2>q. QED BY <2>4, <2>5, <2>6 DEF LockInv
<1>q. QED BY <1>1, <1>2, <1>3, <1>4

\* A step of a list keeps the invariant.
LEMMA ListKeeps ==
    ASSUME LockInv, NEW r \in Readers, CallList(r) \/ ReaderRuns(r)
    PROVE  LockInv'
<1> USE StoreAssumption DEF Procs
<1>1. CASE CallList(r)
  <2>1. LockTypeOK' BY <1>1 DEF LockInv, LockTypeOK, CallList
  <2>2. Exclusion' BY <1>1 DEF LockInv, LockTypeOK, Exclusion, CallList
  <2>3. CopiesAreCurrent' BY <1>1 DEF LockInv, LockTypeOK, CopiesAreCurrent, CallList
  <2>q. QED BY <2>1, <2>2, <2>3 DEF LockInv
<1>2. CASE RLock(r)
  <2>1. LockTypeOK' BY <1>2 DEF LockInv, LockTypeOK, RLock
  <2>2. Exclusion'
    <3>1. CASE pending = {} BY <1>2, <3>1 DEF LockInv, LockTypeOK, Exclusion, RLock
    <3>2. CASE pending # {} BY <1>2, <3>2 DEF LockInv, LockTypeOK, Exclusion, RLock
    <3>q. QED BY <3>1, <3>2
  <2>3. CopiesAreCurrent'
    BY <1>2 DEF LockInv, LockTypeOK, CopiesAreCurrent, RLock, NoEntries
  <2>q. QED BY <2>1, <2>2, <2>3 DEF LockInv
<1>3. CASE CopyEntry(r)
  <2> PICK k \in Uncopied(r) : out' = [out EXCEPT ![r][k] = map[k]]
    BY <1>3 DEF CopyEntry
  <2>1. k \in table[r] /\ k \in Keys /\ map[k] # NoEntry
    BY <1>3 DEF CopyEntry, Uncopied, LockInv, LockTypeOK, Keys
  <2>2. LockTypeOK' BY <1>3, <2>1 DEF LockInv, LockTypeOK, CopyEntry
  <2>3. Exclusion' BY <1>3 DEF LockInv, Exclusion, CopyEntry
  <2>4. CopiesAreCurrent'
    BY <1>3, <2>1 DEF LockInv, LockTypeOK, CopiesAreCurrent, CopyEntry
  <2>q. QED BY <2>2, <2>3, <2>4 DEF LockInv
<1>4. CASE FinishList(r)
  <2>1. LockTypeOK' BY <1>4 DEF LockInv, LockTypeOK, FinishList
  <2>2. Exclusion' BY <1>4 DEF LockInv, LockTypeOK, Exclusion, FinishList
  <2>3. CopiesAreCurrent' BY <1>4 DEF LockInv, LockTypeOK, CopiesAreCurrent, FinishList
  <2>q. QED BY <2>1, <2>2, <2>3 DEF LockInv
<1>5. CASE ReturnList(r)
  <2>1. LockTypeOK' BY <1>5 DEF LockInv, LockTypeOK, ReturnList, NoEntries
  <2>2. Exclusion' BY <1>5 DEF LockInv, LockTypeOK, Exclusion, ReturnList
  <2>3. CopiesAreCurrent' BY <1>5 DEF LockInv, LockTypeOK, CopiesAreCurrent, ReturnList
  <2>q. QED BY <2>1, <2>2, <2>3 DEF LockInv
<1>q. QED BY <1>1, <1>2, <1>3, <1>4, <1>5 DEF ReaderRuns

\* The lock excludes: nobody copies while somebody writes, and what has been
\* copied so far is the map as it stands (memory.go, RLock and Lock).
THEOREM LockExcludes == LockSpec => []LockInv
<1>1. LockInv /\ [LockNext]_lockVars => LockInv'
  <2> SUFFICES ASSUME LockInv, [LockNext]_lockVars PROVE LockInv'
    OBVIOUS
  <2>1. CASE UNCHANGED lockVars
    BY <2>1 DEF LockInv, LockTypeOK, Exclusion, CopiesAreCurrent, lockVars
  <2>2. CASE LockNext BY <2>2, SaveKeeps, ListKeeps DEF LockNext, WriterRuns
  <2>q. QED BY <2>1, <2>2
<1>q. QED BY <1>1, LockInitial, PTL DEF LockSpec

-----------------------------------------------------------------------------
Phases == [p \in Procs |-> PhaseOf(pc[p])]

\* At the end of the loop the copy is complete.
LEMMA CopyIsComplete ==
    ASSUME LockInv, NEW r \in Readers, FinishList(r)
    PROVE  out[r] = [k \in Keys |-> IF k \in table[r] THEN map[k] ELSE NoEntry]
<1>1. out[r] \in [Keys -> Values \cup {NoEntry}] BY DEF LockInv, LockTypeOK
<1>2. ASSUME NEW k \in Keys
      PROVE  out[r][k] = IF k \in table[r] THEN map[k] ELSE NoEntry
  BY DEF LockInv, CopiesAreCurrent, FinishList, Uncopied
<1>q. QED BY <1>1, <1>2

\* Each step of a save is one of the atomic store, or none.
LEMMA SavesAreAtomic ==
    ASSUME LockInv, NEW w \in Writers,
           CallSave(w) \/ Announce(w) \/ Write(w) \/ Unlock(w)
    PROVE  [Atomic!Next]_(Atomic!storeVars)
<1> USE StoreAssumption DEF LockInv, LockTypeOK, PhaseOf
<1>1. Atomic!Procs = Procs BY DEF Atomic!Procs, Procs
<1>2. w \in Procs /\ pc \in [Procs -> {"idle", "lock", "drain", "unlock",
                                       "rlock", "wait", "copy", "return"}]
  BY DEF Procs
<1>3. CASE CallSave(w)
  <2>1. Phases[w] = "idle" /\ Phases' = [Phases EXCEPT ![w] = "called"]
    BY <1>2, <1>3 DEF CallSave, Phases
  <2>2. Atomic!CallSave(w)
    BY <1>3, <2>1 DEF CallSave, Atomic!CallSave, Atomic!Keys, Keys, Phases
  <2>q. QED BY <2>2 DEF Atomic!Next
<1>4. CASE Announce(w)
  <2>1. Phases' = Phases BY <1>2, <1>4 DEF Announce, Phases
  <2>q. QED BY <1>4, <2>1 DEF Announce, Atomic!storeVars, Phases
<1>5. CASE Write(w)
  <2>1. Phases[w] = "called" /\ Phases' = [Phases EXCEPT ![w] = "done"]
    BY <1>2, <1>5 DEF Write, Phases
  <2>2. Atomic!Save(w)
    BY <1>5, <2>1 DEF Write, Atomic!Save, Atomic!Put, Phases
  <2>q. QED BY <2>2 DEF Atomic!Next
<1>6. CASE Unlock(w)
  <2>1. Phases[w] = "done" /\ Phases' = [Phases EXCEPT ![w] = "idle"]
    BY <1>2, <1>6 DEF Unlock, Phases, Waiting
  <2>2. Atomic!ReturnFromSave(w)
    BY <1>6, <2>1 DEF Unlock, Atomic!ReturnFromSave, Phases
  <2>q. QED BY <2>2 DEF Atomic!Next
<1>q. QED BY <1>3, <1>4, <1>5, <1>6

\* Each step of a list is one of the atomic store, or none.
LEMMA ListsAreAtomic ==
    ASSUME LockInv, NEW r \in Readers, CallList(r) \/ ReaderRuns(r)
    PROVE  [Atomic!Next]_(Atomic!storeVars)
<1> USE StoreAssumption DEF LockInv, LockTypeOK, PhaseOf
<1>2. r \in Procs /\ pc \in [Procs -> {"idle", "lock", "drain", "unlock",
                                       "rlock", "wait", "copy", "return"}]
  BY DEF Procs
<1>3. CASE CallList(r)
  <2>1. Phases[r] = "idle" /\ Phases' = [Phases EXCEPT ![r] = "called"]
    BY <1>2, <1>3 DEF CallList, Phases
  <2>2. Atomic!CallList(r)
    BY <1>3, <2>1 DEF CallList, Atomic!CallList, Phases
  <2>q. QED BY <2>2 DEF Atomic!Next
<1>4. CASE RLock(r) \/ CopyEntry(r)
  <2>1. Phases' = Phases BY <1>2, <1>4 DEF RLock, CopyEntry, Phases
  <2>q. QED BY <1>4, <2>1 DEF RLock, CopyEntry, Atomic!storeVars, Phases
<1>5. CASE FinishList(r)
  <2>1. Phases[r] = "called" /\ Phases' = [Phases EXCEPT ![r] = "done"]
    BY <1>2, <1>5 DEF FinishList, Phases
  <2>2. out[r] = Atomic!Part(map, table[r])
    BY <1>5, CopyIsComplete DEF Atomic!Part, Atomic!Keys, Keys
  <2>3. Atomic!List(r)
    BY <1>5, <2>1, <2>2 DEF FinishList, Atomic!List, Phases
  <2>q. QED BY <2>3 DEF Atomic!Next
<1>6. CASE ReturnList(r)
  <2>1. Phases[r] = "done" /\ Phases' = [Phases EXCEPT ![r] = "idle"]
    BY <1>2, <1>6 DEF ReturnList, Phases
  <2>2. Atomic!NoEntries = NoEntries
    BY DEF Atomic!NoEntries, NoEntries, Atomic!Keys, Keys
  <2>3. Atomic!ReturnFromList(r)
    BY <1>6, <2>1, <2>2 DEF ReturnList, Atomic!ReturnFromList, Phases
  <2>q. QED BY <2>3 DEF Atomic!Next
<1>q. QED BY <1>3, <1>4, <1>5, <1>6 DEF ReaderRuns

\* The store acts atomically: a list is the store at one moment between its call
\* and its return, a save takes effect at one moment (memory.go).
THEOREM StoreIsAtomic == LockSpec => ActsAtomically
<1>1. LockInit => Atomic!Init
  BY DEF LockInit, Atomic!Init, Atomic!Procs, Procs, Atomic!NoEntries, NoEntries,
         Atomic!Keys, Keys, PhaseOf
<1>2. LockInv /\ [LockNext]_lockVars => [Atomic!Next]_(Atomic!storeVars)
  <2> SUFFICES ASSUME LockInv, [LockNext]_lockVars
               PROVE  [Atomic!Next]_(Atomic!storeVars)
    OBVIOUS
  <2>1. CASE UNCHANGED lockVars BY <2>1 DEF lockVars, Atomic!storeVars
  <2>2. CASE LockNext
    BY <2>2, SavesAreAtomic, ListsAreAtomic DEF LockNext, WriterRuns
  <2>q. QED BY <2>1, <2>2
<1>q. QED BY <1>1, <1>2, LockExcludes, PTL DEF LockSpec, ActsAtomically, Atomic!Spec
=============================================================================
