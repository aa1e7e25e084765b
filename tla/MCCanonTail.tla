---------------------------- MODULE MCCanonTail -----------------------------
(***************************************************************************)
(* Small instances of CanonTail.                                           *)
(***************************************************************************)
EXTENDS CanonTail
=============================================================================
