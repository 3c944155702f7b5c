------------------------ MODULE TransactionLifecycle ------------------------
(***************************************************************************)
(* What the ledger promises about each transaction, whatever order files   *)
(* and their rows arrive in.  A transaction enters once, it may be settled *)
(* then or later, and it stays settled for good: only a correction that    *)
(* moves it to another acquirer, or the loss of the whole in-memory ledger *)
(* when the process ends, takes that back.  One transaction changes at a   *)
(* time.                                                                   *)
(***************************************************************************)
CONSTANTS TxnIds, Acquirers

VARIABLE ledger         \* known transactions: ID -> [acquirer, settled]

Entry == [acquirer: Acquirers, settled: BOOLEAN]

Empty == [id \in {} |-> Entry]

Init == ledger = Empty

Put(id, entry) ==
    ledger' = [x \in DOMAIN ledger \cup {id} |-> IF x = id THEN entry ELSE ledger[x]]

\* A transaction becomes known; its settlement may already be there.
Enter(id) ==
    /\ id \notin DOMAIN ledger
    /\ \E entry \in Entry : Put(id, entry)

\* The settlement arrives.
Settle(id) ==
    /\ id \in DOMAIN ledger
    /\ ~ledger[id].settled
    /\ Put(id, [acquirer |-> ledger[id].acquirer, settled |-> TRUE])

\* The transaction is uploaded again under another acquirer.
Reroute(id) ==
    /\ id \in DOMAIN ledger
    /\ \E entry \in Entry : /\ entry.acquirer # ledger[id].acquirer
                            /\ Put(id, entry)

\* The process ends.
Lose == ledger' = Empty

Next ==
    \/ \E id \in TxnIds : Enter(id) \/ Settle(id) \/ Reroute(id)
    \/ Lose

Spec == Init /\ [][Next]_ledger
=============================================================================
