----------------------------- MODULE MCStoreLock -----------------------------
(***************************************************************************)
(* Two writers and two readers, a map of two keys; the second value        *)
(* replaces the first.                                                     *)
(***************************************************************************)
EXTENDS StoreLock

MCTables == {{"t1", "t2"}}
=============================================================================
