------------------------------ MODULE StoreLock ------------------------------
(***************************************************************************)
(* internal/store/memory.go under its sync.RWMutex: a save waits for the   *)
(* lock, writes and unlocks; a list waits for the read lock and copies the *)
(* map entry by entry, in any order.                                       *)
(*                                                                         *)
(* The mutex, which is Go's: a writer announces itself, keeps out readers  *)
(* that come later, and waits for those before it; when it unlocks, the    *)
(* readers it kept out go first.                                           *)
(***************************************************************************)
CONSTANTS Writers,    \* goroutines that save
          Readers,    \* goroutines that list
          Tables,     \* the maps of the store, each a set of keys
          Values,     \* versions of a record
          NoEntry     \* what a map holds for a key that is not there; also
                      \* stands for "no call"

ASSUME StoreAssumption ==
    /\ Writers \cap Readers = {}
    /\ NoEntry \notin Values

Keys  == UNION Tables
Procs == Writers \cup Readers

VARIABLES
    map,       \* Store.txns and Store.settlements
    pc,        \* where each goroutine stands
    entry,     \* of a save: the key and the value
    table,     \* of a list: the map asked for
    out,       \* of a list: what it has copied
    answer,    \* of a list: the result
    pending,   \* the writers that have announced themselves, one at most
    holding    \* the readers that hold the lock

lockVars == <<map, pc, entry, table, out, answer, pending, holding>>

NoEntries == [k \in Keys |-> NoEntry]

LockInit ==
    /\ map     = NoEntries
    /\ pc      = [p \in Procs |-> "idle"]
    /\ entry   = [w \in Writers |-> NoEntry]
    /\ table   = [r \in Readers |-> NoEntry]
    /\ out     = [r \in Readers |-> NoEntries]
    /\ answer  = [r \in Readers |-> NoEntries]
    /\ pending = {}
    /\ holding = {}

-----------------------------------------------------------------------------
\* SaveTransaction, SaveSettlement.
CallSave(w) ==
    /\ pc[w] = "idle"
    /\ pc' = [pc EXCEPT ![w] = "lock"]
    /\ \E e \in Keys \X Values : entry' = [entry EXCEPT ![w] = e]
    /\ UNCHANGED <<map, table, out, answer, pending, holding>>

\* Lock: the announcement.
Announce(w) ==
    /\ pc[w] = "lock"
    /\ pending = {}
    /\ pending' = {w}
    /\ pc' = [pc EXCEPT ![w] = "drain"]
    /\ UNCHANGED <<map, entry, table, out, answer, holding>>

\* Faulty variant of Write: under the read lock, like the lists.
WriteAmongReaders(w) ==
    /\ pc[w] = "drain"
    /\ map' = [map EXCEPT ![entry[w][1]] = entry[w][2]]
    /\ pc' = [pc EXCEPT ![w] = "unlock"]
    /\ UNCHANGED <<entry, table, out, answer, pending, holding>>

\* The readers before it are gone: the lock is held.
Write(w) ==
    /\ pc[w] = "drain"
    /\ holding = {}
    /\ map' = [map EXCEPT ![entry[w][1]] = entry[w][2]]
    /\ pc' = [pc EXCEPT ![w] = "unlock"]
    /\ UNCHANGED <<entry, table, out, answer, pending, holding>>

Waiting == {r \in Readers : pc[r] = "wait"}

\* The deferred Unlock lets the waiting readers in, and the save returns.
Unlock(w) ==
    /\ pc[w] = "unlock"
    /\ pending' = {}
    /\ holding' = holding \cup Waiting
    /\ pc' = [p \in Procs |-> IF p = w THEN "idle"
                              ELSE IF p \in Waiting THEN "copy" ELSE pc[p]]
    /\ entry' = [entry EXCEPT ![w] = NoEntry]
    /\ UNCHANGED <<map, table, out, answer>>

-----------------------------------------------------------------------------
\* ListTransactions, ListSettlements.
CallList(r) ==
    /\ pc[r] = "idle"
    /\ pc' = [pc EXCEPT ![r] = "rlock"]
    /\ \E T \in Tables : table' = [table EXCEPT ![r] = T]
    /\ UNCHANGED <<map, entry, out, answer, pending, holding>>

RLock(r) ==
    /\ pc[r] = "rlock"
    /\ \/ /\ pending = {}
          /\ holding' = holding \cup {r}
          /\ pc' = [pc EXCEPT ![r] = "copy"]
       \/ /\ pending # {}
          /\ holding' = holding
          /\ pc' = [pc EXCEPT ![r] = "wait"]
    /\ UNCHANGED <<map, entry, table, out, answer, pending>>

\* Entries of the map that are not copied yet.
Uncopied(r) == {k \in table[r] : map[k] # NoEntry /\ out[r][k] = NoEntry}

CopyEntry(r) ==
    /\ pc[r] = "copy"
    /\ \E k \in Uncopied(r) : out' = [out EXCEPT ![r][k] = map[k]]
    /\ UNCHANGED <<map, pc, entry, table, answer, pending, holding>>

\* Faulty variant of FinishList: no RUnlock.
FinishLocked(r) ==
    /\ pc[r] = "copy"
    /\ Uncopied(r) = {}
    /\ answer' = [answer EXCEPT ![r] = out[r]]
    /\ pc' = [pc EXCEPT ![r] = "return"]
    /\ UNCHANGED <<map, entry, table, out, pending, holding>>

\* The loop is through; the deferred RUnlock.
FinishList(r) ==
    /\ pc[r] = "copy"
    /\ Uncopied(r) = {}
    /\ answer' = [answer EXCEPT ![r] = out[r]]
    /\ holding' = holding \ {r}
    /\ pc' = [pc EXCEPT ![r] = "return"]
    /\ UNCHANGED <<map, entry, table, out, pending>>

ReturnList(r) ==
    /\ pc[r] = "return"
    /\ pc' = [pc EXCEPT ![r] = "idle"]
    /\ table'  = [table EXCEPT ![r] = NoEntry]
    /\ out'    = [out EXCEPT ![r] = NoEntries]
    /\ answer' = [answer EXCEPT ![r] = NoEntries]
    /\ UNCHANGED <<map, entry, pending, holding>>

-----------------------------------------------------------------------------
WriterRuns(w) == Write(w) \/ Unlock(w)
ReaderRuns(r) == RLock(r) \/ CopyEntry(r) \/ FinishList(r) \/ ReturnList(r)

LockNext ==
    \/ \E w \in Writers : CallSave(w) \/ Announce(w) \/ WriterRuns(w)
    \/ \E r \in Readers : CallList(r) \/ ReaderRuns(r)

LockSpec == LockInit /\ [][LockNext]_lockVars

\* A goroutine that can run does.  The announcement goes through a sync.Mutex,
\* which hands itself over to a writer that has waited for long.
FairLockSpec ==
    /\ LockSpec
    /\ \A w \in Writers : SF_lockVars(Announce(w)) /\ WF_lockVars(WriterRuns(w))
    /\ \A r \in Readers : WF_lockVars(ReaderRuns(r))

-----------------------------------------------------------------------------
(***************************************************************************)
(* Properties.                                                             *)
(***************************************************************************)
\* The records of the store are what was saved, and each goroutine stands where
\* its kind of call can take it.
LockTypeOK ==
    /\ map \in [Keys -> Values \cup {NoEntry}]
    /\ pc \in [Procs -> {"idle", "lock", "drain", "unlock",
                         "rlock", "wait", "copy", "return"}]
    /\ \A w \in Writers : pc[w] \in {"idle", "lock", "drain", "unlock"}
    /\ \A r \in Readers : pc[r] \in {"idle", "rlock", "wait", "copy", "return"}
    /\ entry \in [Writers -> (Keys \X Values) \cup {NoEntry}]
    /\ \A w \in Writers : pc[w] # "idle" => entry[w] \in Keys \X Values
    /\ table \in [Readers -> Tables \cup {NoEntry}]
    /\ \A r \in Readers : pc[r] # "idle" => table[r] \in Tables
    /\ out \in [Readers -> [Keys -> Values \cup {NoEntry}]]
    /\ answer \in [Readers -> [Keys -> Values \cup {NoEntry}]]
    /\ pending \subseteq Writers
    /\ holding \subseteq Readers

\* Whoever copies holds the lock, and whoever has drained the readers is the
\* only writer and alone.
Exclusion ==
    /\ \A r \in Readers : pc[r] = "copy" <=> r \in holding
    /\ \A w \in Writers : pc[w] \in {"drain", "unlock"} <=> pending = {w}
    /\ \A w \in Writers : pc[w] = "unlock" => holding = {}

\* What a list has copied is the store as it stands, and it has copied nothing
\* before it is let in.
CopiesAreCurrent ==
    \A r \in Readers :
        /\ pc[r] \in {"idle", "rlock", "wait"} => out[r] = NoEntries
        /\ pc[r] = "copy" => \A k \in Keys : out[r][k] # NoEntry =>
                                k \in table[r] /\ out[r][k] = map[k]

LockInv == LockTypeOK /\ Exclusion /\ CopiesAreCurrent

\* How far the caller sees a call.
PhaseOf(label) ==
    IF label = "idle" THEN "idle"
    ELSE IF label \in {"unlock", "return"} THEN "done" ELSE "called"

Atomic == INSTANCE AtomicStore WITH phase <- [p \in Procs |-> PhaseOf(pc[p])]

\* Every save and every list is one step to the rest of the program: a list
\* copied entry by entry while others save is the store of one single moment
\* between call and return.
ActsAtomically == Atomic!Spec

\* Nobody waits for ever: no lock stays held, readers do not keep a writer out,
\* nor writers a reader.
CallsReturn == \A p \in Procs : pc[p] # "idle" ~> pc[p] = "idle"
=============================================================================
