------------------------------ MODULE MCFixtures ------------------------------
(***************************************************************************)
(* Full-size runs of the fixture generator, 300 transactions each, for     *)
(* made-up random sources whose draws include the limits of the PromptPay  *)
(* fee tiers and the smallest and the largest amount.                      *)
(***************************************************************************)
EXTENDS Fixtures

MCSeeds == {1, 7, 42}

Scattered(s, i) == (617 * i * i + 7919 * i + 9973 * s) % 49901

\* Every tenth PromptPay transaction is worth 5,000, 20,000, 50,000 or 100 baht.
MCDraws ==
    [s \in MCSeeds |-> [i \in 0 .. totalTxns-1 |->
        IF i % 30 = 2 THEN 4900
        ELSE IF i % 30 = 5 THEN 19900
        ELSE IF i % 30 = 8 THEN 49900
        ELSE IF i % 30 = 11 THEN 0
        ELSE Scattered(s, i)]]

MCTxnIds == {"TXN" \o ToString(i + 1) : i \in 0 .. totalTxns-1}

MCTrimSpace == [id \in MCTxnIds |-> id]
=============================================================================
