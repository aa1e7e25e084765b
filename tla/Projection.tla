----------------------------- MODULE Projection -----------------------------
(***************************************************************************)
(* The request projection (src/internal/projection): the status of every   *)
(* request as a function of the canonical event log.  Only operators; the  *)
(* broker owns the variable that holds a projection.                       *)
(*                                                                         *)
(* An event is a record with at least the fields                           *)
(*   type     one of EventTypes                                            *)
(*   req      the request id                                               *)
(*   by       event.Actor: the requester, the approver or the broker       *)
(*   expires  Request.ExpiresAt for request_created, 0 otherwise           *)
(* Argv, environment, digest, summary and captured output are carried by   *)
(* the code unread; they are left out.                                     *)
(***************************************************************************)
EXTENDS Naturals, Sequences

CONSTANTS Requests,   \* request ids (randomID("req"), never drawn twice)
          NoOne       \* "no actor": the nil Approver of a snapshot

EventTypes == {"request_created", "request_approved", "request_denied",
               "request_expired", "request_revoked", "execution_started",
               "execution_succeeded", "execution_failed",
               "recovery_marked_failed"}

\* "absent" stands for the map having no entry for the id.
Statuses == {"absent", "pending", "approved", "denied", "expired",
             "executing", "executed", "failed", "revoked"}

\* core.Status.Terminal
Terminal(s) == s \in {"denied", "expired", "executed", "failed", "revoked"}

New == [r \in Requests |-> [status |-> "absent", owner |-> NoOne,
                            expires |-> 0, approver |-> NoOne]]

\* The statuses from which Apply accepts an event of type t ...
From(t) ==
  CASE t = "request_created"   -> {"absent"}
    [] t = "request_approved"  -> {"pending"}
    [] t = "request_denied"    -> {"pending"}
    [] t = "request_expired"   -> {"pending"}
    [] t = "request_revoked"   -> {"pending", "approved"}
    [] t = "execution_started" -> {"approved"}
    [] OTHER                   -> {"executing"}

\* Mutant of To: a failed execution gets core.StatusError, which is a status
\* of responses and not of requests.
ToError(t) ==
  CASE t = "request_created"     -> "pending"
    [] t = "request_approved"    -> "approved"
    [] t = "request_denied"      -> "denied"
    [] t = "request_expired"     -> "expired"
    [] t = "request_revoked"     -> "revoked"
    [] t = "execution_started"   -> "executing"
    [] t = "execution_succeeded" -> "executed"
    [] OTHER                     -> "error"

\* ... and the status it then sets.
To(t) ==
  CASE t = "request_created"     -> "pending"
    [] t = "request_approved"    -> "approved"
    [] t = "request_denied"      -> "denied"
    [] t = "request_expired"     -> "expired"
    [] t = "request_revoked"     -> "revoked"
    [] t = "execution_started"   -> "executing"
    [] t = "execution_succeeded" -> "executed"
    [] OTHER                     -> "failed"

\* Apply returns an error, and changes nothing, exactly when ~CanApply.
CanApply(p, e) == p[e.req].status \in From(e.type)

Apply(p, e) ==
  LET snap    == p[e.req]
      created == e.type = "request_created"
      decided == e.type \in {"request_approved", "request_denied"}
  IN [p EXCEPT ![e.req] =
        [status   |-> To(e.type),
         owner    |-> IF created THEN e.by ELSE snap.owner,
         expires  |-> IF created THEN e.expires ELSE snap.expires,
         approver |-> IF decided THEN e.by ELSE snap.approver]]

(***************************************************************************)
(* Rebuild as one function of a history: the projection and whether every  *)
(* event was accepted.  The broker's start-up takes the same steps one by  *)
(* one; this definition is the reference its result is compared with.      *)
(***************************************************************************)
Rebuild(h) ==
  LET after[i \in 0..Len(h)] ==
        IF i = 0 THEN [ok |-> TRUE, proj |-> New]
        ELSE LET q == after[i-1]
             IN IF q.ok /\ CanApply(q.proj, h[i])
                THEN [ok |-> TRUE, proj |-> Apply(q.proj, h[i])]
                ELSE [ok |-> FALSE, proj |-> q.proj]
  IN after[Len(h)]
=============================================================================
