----------------------------- MODULE AtomicStore -----------------------------
(***************************************************************************)
(* What internal/store promises its callers, and what the other modules of *)
(* this project take for granted: between its call and its return, every   *)
(* save and every list takes effect in one step.                           *)
(***************************************************************************)
CONSTANTS Writers,    \* goroutines that save
          Readers,    \* goroutines that list
          Tables,     \* the maps of the store, each a set of keys
          Values,     \* versions of a record
          NoEntry     \* what a map holds for a key that is not there; also
                      \* stands for "no call"

Keys  == UNION Tables
Procs == Writers \cup Readers

VARIABLES
    map,      \* what the store holds
    phase,    \* "idle", "called", or "done" when only the return is left
    entry,    \* of a save: the key and the value
    table,    \* of a list: the map asked for
    answer    \* of a list: the result

storeVars == <<map, phase, entry, table, answer>>

NoEntries == [k \in Keys |-> NoEntry]

Put(m, key, value) == [m EXCEPT ![key] = value]

\* One of the maps, alone.
Part(m, T) == [k \in Keys |-> IF k \in T THEN m[k] ELSE NoEntry]

Init ==
    /\ map    = NoEntries
    /\ phase  = [p \in Procs |-> "idle"]
    /\ entry  = [w \in Writers |-> NoEntry]
    /\ table  = [r \in Readers |-> NoEntry]
    /\ answer = [r \in Readers |-> NoEntries]

CallSave(w) ==
    /\ phase[w] = "idle"
    /\ phase' = [phase EXCEPT ![w] = "called"]
    /\ \E e \in Keys \X Values : entry' = [entry EXCEPT ![w] = e]
    /\ UNCHANGED <<map, table, answer>>

Save(w) ==
    /\ phase[w] = "called"
    /\ map' = Put(map, entry[w][1], entry[w][2])
    /\ phase' = [phase EXCEPT ![w] = "done"]
    /\ UNCHANGED <<entry, table, answer>>

CallList(r) ==
    /\ phase[r] = "idle"
    /\ phase' = [phase EXCEPT ![r] = "called"]
    /\ \E T \in Tables : table' = [table EXCEPT ![r] = T]
    /\ UNCHANGED <<map, entry, answer>>

List(r) ==
    /\ phase[r] = "called"
    /\ answer' = [answer EXCEPT ![r] = Part(map, table[r])]
    /\ phase' = [phase EXCEPT ![r] = "done"]
    /\ UNCHANGED <<map, entry, table>>

ReturnFromSave(w) ==
    /\ phase[w] = "done"
    /\ phase' = [phase EXCEPT ![w] = "idle"]
    /\ entry' = [entry EXCEPT ![w] = NoEntry]
    /\ UNCHANGED <<map, table, answer>>

ReturnFromList(r) ==
    /\ phase[r] = "done"
    /\ phase'  = [phase EXCEPT ![r] = "idle"]
    /\ table'  = [table EXCEPT ![r] = NoEntry]
    /\ answer' = [answer EXCEPT ![r] = NoEntries]
    /\ UNCHANGED <<map, entry>>

Next ==
    \/ \E w \in Writers : CallSave(w) \/ Save(w) \/ ReturnFromSave(w)
    \/ \E r \in Readers : CallList(r) \/ List(r) \/ ReturnFromList(r)

Spec == Init /\ [][Next]_storeVars
=============================================================================
