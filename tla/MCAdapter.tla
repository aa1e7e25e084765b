----------------------------- MODULE MCAdapter ------------------------------
(***************************************************************************)
(* Small instances of Adapter: every request goes to p1, or to p1 and then *)
(* to p2, which is of a country that is not allowed.                       *)
(***************************************************************************)
EXTENDS Adapter, TLC

CONSTANTS p1, p2

OnePhone == [r \in Requests |-> <<p1>>]
TwoPhones == [r \in Requests |-> <<p1, p2>>]

\* SendErrors: sends never fail, fail before Twilio took them, or at any point.
Never == {}
Rejected == {"calling"}
Anytime == {"calling", "accepted"}

Symmetry == Permutations(Requests)
=============================================================================
