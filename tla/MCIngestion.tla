---------------------------- MODULE MCIngestion ----------------------------
(***************************************************************************)
(* A small world for Ingestion: two transactions, files whose rows repeat  *)
(* a key, contradict another file, name an unknown acquirer or do not      *)
(* parse.                                                                  *)
(***************************************************************************)
EXTENDS Ingestion, TLC

CONSTANTS h1, h2

MCHandlers == {h1, h2}
Symmetry   == Permutations(MCHandlers)

MCTxnIds == {"t1", "t2", " t1", Blank}

MCTrimSpace == [id \in MCTxnIds |-> IF id = " t1" THEN "t1" ELSE id]

Text(amount) == FormatMinorUnits(amount)

Txn(id, acquirer, amount, day) ==
    [ID |-> id, Acquirer |-> acquirer, amount |-> Text(amount),
     Currency |-> "THB", TransactionDate |-> day]

InUSD(t) == [t EXCEPT !.Currency = "USD"]

Negated(t) == [t EXCEPT !.amount.sign = Minus]

Stl(ref, gross, fee, net) ==
    [ref |-> ref, gross |-> Text(gross), fee |-> Text(fee), net |-> Text(net), paid |-> 3]

File(rows) == [framed |-> TRUE, rows |-> rows]

Upload(acquirer, rows) == [acquirer |-> acquirer, file |-> File(rows)]

\* A row repeated with a correction; a transaction moved to another acquirer
\* before a row of an unknown one, its ID padded; a refund.
MCTxnFiles ==
    {File(<<Txn("t1", Thai, 100, 4), InUSD(Txn("t2", Global, 100, 2)), Txn("t1", Thai, 90, 5)>>),
     File(<<Txn(" t1", Prompt, 100, 4), Txn("t2", "OtherPay", 100, 4)>>),
     File(<<Negated(Txn("t2", Thai, 500, 4))>>)}

\* The same key twice in a file; a second file for the same key; a settlement
\* under the other acquirer, and one whose padded reference names no transaction;
\* a file whose amounts disagree; one without rows; an unknown path.
MCSettlementUploads ==
    {Upload(Thai, <<Stl("t1", 100, 3, 97), Stl("t1", 90, 2, 88)>>),
     Upload(Thai, <<Stl("t1", 80, 2, 78)>>),
     Upload(Prompt, <<Stl("t1", 100, 2, 98), Stl(" t1", 100, 2, 98)>>),
     Upload(Prompt, <<Stl("t1", 100, 2, 99)>>),
     Upload(Thai, <<>>),
     Upload("OtherPay", <<Stl("t1", 100, 2, 98)>>)}

MCTxnFixtures ==
    {NoFile,
     File(<<Txn("t1", Thai, 70, 4)>>),
     File(<<Txn("t2", Global, 50, 2), Txn("t1", "OtherPay", 100, 4)>>),
     [framed |-> FALSE, rows |-> <<>>]}

MCSettlementFixtures ==
    (Thai   :> {NoFile, File(<<Stl("t1", 70, 2, 68)>>)}) @@
    (Global :> {NoFile}) @@
    (Prompt :> {NoFile, File(<<Stl(Blank, 10, 1, 9)>>)})

\* A refund of five satang, as FormatMinorUnits prints it.
MCRefundFiles == {File(<<Txn("t1", Thai, -5, 4)>>)}
=============================================================================
