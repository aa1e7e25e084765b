---------------------------- MODULE MCPendingSet ----------------------------
(***************************************************************************)
(* Small instances of the pending set on its own.                          *)
(***************************************************************************)
EXTENDS PendingSet, TLC

Symmetry == Permutations(Requests) \cup Permutations(Phones)
=============================================================================
