------------------------------ MODULE MCBroker ------------------------------
(***************************************************************************)
(* Small instances of Broker.  alice submits; validateApprover knows her   *)
(* by her user name, written "alice" here like her peer identity, and by   *)
(* her uid; ops may approve.                                               *)
(***************************************************************************)
EXTENDS Broker

MCUsers == {"alice"}
MCActors == {"alice", "ops"}
MCNames == [u \in MCUsers |-> {"alice"}]
\* Sizes: all lines small, or some beyond the 2 MiB of the scanner.
Small == {FALSE}
Large == BOOLEAN
=============================================================================
