-------------------------- MODULE RequestLifecycle --------------------------
(***************************************************************************)
(* What the broker promises, with no log, no memory and no crashes in      *)
(* sight: every request moves forward through the state machine of         *)
(* STATE_MACHINE.md, its command is launched at most once and only while   *)
(* it is executing, and after an outage nothing is left executing.         *)
(***************************************************************************)
EXTENDS Naturals

CONSTANT Requests

VARIABLES status,    \* request id -> status
          launches,  \* request id -> how often its command was launched
          serving    \* is the broker answering?

vars == <<status, launches, serving>>

\* The transitions one event makes.  Nothing revokes a request yet, but the
\* projection accepts the event.
Legal ==
  {<<"absent", "pending">>,
   <<"pending", "approved">>, <<"pending", "denied">>,
   <<"pending", "expired">>, <<"pending", "revoked">>,
   <<"approved", "executing">>, <<"approved", "revoked">>,
   <<"executing", "executed">>, <<"executing", "failed">>}

\* The statuses that can follow s, s included: Legal's reflexive, transitive
\* closure, written out.
Reach(s) ==
  CASE s = "absent"    -> {"absent", "pending", "approved", "denied", "expired",
                           "revoked", "executing", "executed", "failed"}
    [] s = "pending"   -> {"pending", "approved", "denied", "expired", "revoked",
                           "executing", "executed", "failed"}
    [] s = "approved"  -> {"approved", "revoked", "executing", "executed", "failed"}
    [] s = "executing" -> {"executing", "executed", "failed"}
    [] OTHER           -> {s}

Init ==
  /\ status = [r \in Requests |-> "absent"]
  /\ launches = [r \in Requests |-> 0]
  /\ serving = FALSE

\* While it serves, the broker moves one request by one transition.
Move(r) ==
  /\ serving
  /\ \E s \in Reach(status[r]) :
        /\ <<status[r], s>> \in Legal
        /\ status' = [status EXCEPT ![r] = s]
  /\ UNCHANGED <<launches, serving>>

Launch(r) ==
  /\ serving
  /\ status[r] = "executing"
  /\ launches[r] = 0
  /\ launches' = [launches EXCEPT ![r] = 1]
  /\ UNCHANGED <<status, serving>>

Stop ==
  /\ serving' = FALSE
  /\ UNCHANGED <<status, launches>>

\* While it is down, decisions that were written but not answered come to
\* light and interrupted executions are closed: always forward.
Settle ==
  /\ ~serving
  /\ status' \in [Requests -> UNION {Reach(status[r]) : r \in Requests}]
  /\ \A r \in Requests : status'[r] \in Reach(status[r])
  /\ UNCHANGED <<launches, serving>>

Resume ==
  /\ \A r \in Requests : status[r] # "executing"
  /\ serving' = TRUE
  /\ UNCHANGED <<status, launches>>

Next ==
  \/ \E r \in Requests : Move(r) \/ Launch(r)
  \/ Stop \/ Settle \/ Resume

Spec == Init /\ [][Next]_vars
=============================================================================
