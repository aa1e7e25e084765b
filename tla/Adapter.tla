------------------------------ MODULE Adapter -------------------------------
(***************************************************************************)
(* The Twilio adapter (src/cmd/request-sudo-twilio-adapter and             *)
(* src/internal/twilioadapter): a tailer goroutine that sends one Verify   *)
(* SMS per new request and recipient, and webhook goroutines that turn     *)
(* replies into broker decisions.  Both share the pending set, whose       *)
(* mutex is released between their steps.                                  *)
(*                                                                         *)
(* The broker is reduced to which requests are decided and to the order of *)
(* its request_created lines (modules Broker and RequestLifecycle have the *)
(* rest).  Twilio and the operators are external: of Twilio's Verify only  *)
(* what the adapter relies on is kept.  A phone has at most one session,   *)
(* with one code; sending makes a session, or repeats the code of the live *)
(* one; a check succeeds for the session's code and ends the session.      *)
(***************************************************************************)
EXTENDS PendingSet

CONSTANTS Recipients,    \* request -> its recipients, without repetition
          Allowed,       \* phones of an allowed country
          Webhooks,      \* how many replies are handled at once
          NoRequest,     \* "no request at hand"
          SendErrors,    \* how far a send that returns an error may have got
          MaxRestarts    \* bound on restarts of the adapter

ASSUME AdapterAssumption ==
  /\ Recipients \in [Requests -> Seq(Phones)]
  /\ Allowed \subseteq Phones
  /\ {PendingTTL, MaxNow, MaxBack, MaxAhead, MaxLost, MaxRows, MaxRestarts} \subseteq Nat
  /\ SendErrors \subseteq {"calling", "accepted"}
  /\ NoRequest \notin Requests

VARIABLES created,    \* the request_created lines of the canon, in order
          status,     \* request -> is it pending, or decided in any way?
          up,         \* does the adapter run?
          tail,       \* request_created lines the tailer has read
          job,        \* the handlePending call in progress: see NoJob
          hook,       \* webhook -> the HandleInboundReply call in progress
          session,    \* Twilio: phone -> code of its live session, or 0
          codes,      \* Twilio: number of codes drawn so far
          sms,        \* history: the texts sent, with the request they were for
          approvals,  \* history: the approvals by SMS, with the code that was checked
          failed,     \* history: sends and broker calls that returned an error
          stolen,     \* history: slots released by a reply to another request
          restarts    \* number of restarts so far

brokerVars == <<created, status>>
twilioVars == <<session, codes, sms>>
vars == <<items, audit, now, back, ahead, lost, created, status, up, tail, job,
          hook, session, codes, sms, approvals, failed, stolen, restarts>>

\* job.sending: "no": looking at the next recipient.  "calling": the slot is
\* claimed and SendVerificationSMS called.  "accepted": Twilio took the send.
\* job.since: history: when the slot was claimed.
NoJob == [req |-> NoRequest, todo |-> << >>, sending |-> "no", since |-> 0]

\* hook.step: where HandleInboundReply is: before CheckVerification, before the
\* broker call, before Release.
NoHook == [step |-> "idle", phone |-> Free, req |-> NoRequest,
           intent |-> "unknown", code |-> 0]

Init ==
  /\ PendingInit
  /\ created = << >>
  /\ status = [r \in Requests |-> "absent"]
  /\ up = FALSE
  /\ tail = 0
  /\ job = NoJob
  /\ hook = [w \in Webhooks |-> NoHook]
  /\ session = [p \in Phones |-> 0]
  /\ codes = 0
  /\ sms = {}
  /\ approvals = {}
  /\ failed = {}
  /\ stolen = {}
  /\ restarts = 0

-----------------------------------------------------------------------------
(* The broker and Twilio, as the adapter sees them *)

Submit(r) ==
  /\ status[r] = "absent"
  /\ status' = [status EXCEPT ![r] = "pending"]
  /\ created' = Append(created, r)
  /\ UNCHANGED <<pendingVars, up, tail, job, hook, twilioVars, approvals, failed, stolen, restarts>>

\* request-sudoctl decides, or the request expires.
DecidedElsewhere(r) ==
  /\ status[r] = "pending"
  /\ status' = [status EXCEPT ![r] = "decided"]
  /\ UNCHANGED <<pendingVars, created, up, tail, job, hook, twilioVars, approvals, failed, stolen, restarts>>

\* Twilio accepts a send: an SMS with the code of the phone's session.
TwilioAccepts ==
  /\ job.sending = "calling"
  /\ LET p == Head(job.todo)
     IN \E code \in {codes + 1} \cup ({session[p]} \ {0}) :
          /\ session' = [session EXCEPT ![p] = code]
          /\ codes' = IF code > codes THEN code ELSE codes
          /\ sms' = sms \cup {[phone |-> p, code |-> code, req |-> job.req, since |-> job.since]}
  /\ job' = [job EXCEPT !.sending = "accepted"]
  /\ UNCHANGED <<pendingVars, brokerVars, up, tail, hook, approvals, failed, stolen, restarts>>

\* Sessions end after ten minutes or too many wrong codes.
SessionEnds(p) ==
  /\ session[p] # 0
  /\ session' = [session EXCEPT ![p] = 0]
  /\ UNCHANGED <<pendingVars, brokerVars, up, tail, job, hook, codes, sms, approvals, failed, stolen, restarts>>

-----------------------------------------------------------------------------
(* The tailer goroutine: scanOnce, handleLine, handlePending *)

NextJob(todo) == IF todo = << >> THEN NoJob ELSE [job EXCEPT !.todo = todo, !.sending = "no", !.since = 0]

\* The next request_created line.  Ids are unique, so the seen map, which is
\* empty after a restart, never suppresses one.
TailLine ==
  /\ up
  /\ job = NoJob
  /\ tail < Len(created)
  /\ tail' = tail + 1
  /\ LET r == created[tail + 1]
     IN job' = IF Recipients[r] = << >> THEN NoJob
               ELSE [NoJob EXCEPT !.req = r, !.todo = Recipients[r]]
  /\ UNCHANGED <<pendingVars, brokerVars, up, hook, twilioVars, approvals, failed, stolen, restarts>>

\* Mutant of SkipRecipient: a busy phone is waited for.
SkipRecipientWaits ==
  /\ up
  /\ job # NoJob /\ job.sending = "no"
  /\ Head(job.todo) \notin Allowed
  /\ job' = NextJob(Tail(job.todo))
  /\ UNCHANGED <<pendingVars, brokerVars, up, tail, hook, twilioVars, approvals, failed, stolen, restarts>>

\* unsupported_region or routing_blocked_same_phone.
SkipRecipient ==
  /\ up
  /\ job # NoJob /\ job.sending = "no"
  /\ Head(job.todo) \notin Allowed \/ Busy(Head(job.todo))
  /\ job' = NextJob(Tail(job.todo))
  /\ UNCHANGED <<pendingVars, brokerVars, up, tail, hook, twilioVars, approvals, failed, stolen, restarts>>

\* Claim the slot, then call Twilio.
ClaimSlot ==
  /\ up
  /\ job # NoJob /\ job.sending = "no"
  /\ Head(job.todo) \in Allowed
  /\ OpenPending(Head(job.todo), job.req)
  /\ job' = [job EXCEPT !.sending = "calling", !.since = now]
  /\ UNCHANGED <<clockVars, brokerVars, up, tail, hook, twilioVars, approvals, failed, stolen, restarts>>

SendSucceeds ==
  /\ up
  /\ job.sending = "accepted"
  /\ job' = NextJob(Tail(job.todo))
  /\ UNCHANGED <<pendingVars, brokerVars, up, tail, hook, twilioVars, approvals, failed, stolen, restarts>>

\* An error answer, a timeout, or a body that does not decode: the slot is
\* released, whether or not Twilio took the send.
SendFails ==
  /\ up
  /\ job.sending \in SendErrors
  /\ Release(Head(job.todo))
  /\ failed' = failed \cup {<<job.req, Head(job.todo)>>}
  /\ job' = NextJob(Tail(job.todo))
  /\ UNCHANGED <<clockVars, brokerVars, up, tail, hook, twilioVars, approvals, stolen, restarts>>

Tailer == TailLine \/ SkipRecipient \/ ClaimSlot \/ SendSucceeds \/ SendFails

-----------------------------------------------------------------------------
(* The webhook goroutines: HandleInboundReply *)

Goto(w, step) == hook' = [hook EXCEPT ![w] = IF step = "idle" THEN NoHook
                                              ELSE [@ EXCEPT !.step = step]]

\* Mutant of Receive: an approval goes to the broker without a check.
ReceiveUnchecked(w, p, intent, code) ==
  /\ up
  /\ hook[w].step = "idle"
  /\ Held(p)
  /\ Resolve(p)
  /\ hook' = IF Busy(p)
             THEN [hook EXCEPT ![w] = [step |-> "call", phone |-> p,
                     req |-> items[p].req, intent |-> intent, code |-> code]]
             ELSE hook
  /\ UNCHANGED <<clockVars, brokerVars, up, tail, job, twilioVars, approvals, failed, stolen, restarts>>

\* A signed reply that parses, from a phone with a slot.  (All others change
\* nothing.)  Its digits are those of some text to the phone, or 0, a wrong code.
Receive(w, p, intent, code) ==
  /\ up
  /\ hook[w].step = "idle"
  /\ Held(p)
  /\ Resolve(p)
  /\ hook' = IF Busy(p)
             THEN [hook EXCEPT ![w] =
                     [step |-> IF intent = "approve" THEN "check" ELSE "call",
                      phone |-> p, req |-> items[p].req, intent |-> intent, code |-> code]]
             ELSE hook
  /\ UNCHANGED <<clockVars, brokerVars, up, tail, job, twilioVars, approvals, failed, stolen, restarts>>

\* CheckVerification answers Approved.
RightCode(w) == hook[w].code # 0 /\ hook[w].code = session[hook[w].phone]

\* A right code ends the session even if the answer is lost; a rejection or an
\* error ends the handler and leaves the slot.
Check(w) ==
  /\ hook[w].step = "check"
  /\ \/ /\ RightCode(w)
        /\ session' = [session EXCEPT ![hook[w].phone] = 0]
        /\ Goto(w, "call") \/ Goto(w, "idle")
     \/ UNCHANGED session /\ Goto(w, "idle")
  /\ UNCHANGED <<pendingVars, brokerVars, up, tail, job, codes, sms, approvals, failed, stolen, restarts>>

\* Mutant of Call: the slot is released also when the broker did not answer.
CallThenRelease(w) ==
  /\ hook[w].step = "call"
  /\ \/ /\ status' = IF status[hook[w].req] # "pending" THEN status
                     ELSE [status EXCEPT ![hook[w].req] = "decided"]
     \/ UNCHANGED status
  /\ Goto(w, "release")
  /\ UNCHANGED <<pendingVars, created, up, tail, job, twilioVars, approvals, failed, stolen, restarts>>

\* The broker call.  Without an answer the handler ends; any answer leads to
\* Release: a decision, "no longer pending", but also an error of the broker (its
\* append failed) or a rejection, which leave the request as it was.
Call(w) ==
  /\ hook[w].step = "call"
  /\ LET r == hook[w].req
         approve == hook[w].intent = "approve"
     IN \/ /\ status' = IF status[r] # "pending" THEN status
                        ELSE [status EXCEPT ![r] = "decided"]
           /\ approvals' = IF status[r] # "pending" \/ ~approve THEN approvals
                           ELSE approvals \cup {[req |-> r, phone |-> hook[w].phone,
                                                 code |-> hook[w].code]}
           /\ Goto(w, "release") \/ Goto(w, "idle")
           /\ UNCHANGED failed
        \/ UNCHANGED <<status, approvals, failed>> /\ Goto(w, "idle")
        \/ /\ UNCHANGED <<status, approvals>>
           /\ Goto(w, "release")
           /\ failed' = failed \cup {<<r, hook[w].phone>>}
  /\ UNCHANGED <<pendingVars, created, up, tail, job, twilioVars, stolen, restarts>>

FreeSlot(w) ==
  /\ hook[w].step = "release"
  /\ LET p == hook[w].phone
     IN /\ Release(p)
        /\ stolen' = IF Held(p) /\ items[p].req # hook[w].req
                     THEN stolen \cup {<<items[p].req, p>>} ELSE stolen
  /\ Goto(w, "idle")
  /\ UNCHANGED <<clockVars, brokerVars, up, tail, job, twilioVars, approvals, failed, restarts>>

-----------------------------------------------------------------------------
(* The process *)

\* main: replay the audit log; the tailer starts from the beginning of the canon.
Start ==
  /\ ~up
  /\ up' = TRUE
  /\ ReplayFromAudit
  /\ tail' = 0
  /\ UNCHANGED <<clockVars, brokerVars, job, hook, twilioVars, approvals, failed, stolen, restarts>>

\* Every goroutine is gone; items keeps its last value only for comparison.
Die ==
  /\ up
  /\ restarts < MaxRestarts
  /\ restarts' = restarts + 1
  /\ up' = FALSE
  /\ job' = NoJob
  /\ hook' = [w \in Webhooks |-> NoHook]
  /\ UNCHANGED <<clockVars, brokerVars, tail, twilioVars, approvals, failed, stolen>>

\* Killed, or stopped by a signal (Shutdown waits two seconds at most).
Crash == Die /\ UNCHANGED <<items, audit, lost>>
Shutdown == Die /\ ExpireDue

Clocks ==
  /\ Tick \/ SetBack \/ SetAhead
  /\ UNCHANGED <<brokerVars, up, tail, job, hook, twilioVars, approvals, failed, stolen, restarts>>

Replies(p) == {0} \cup {m.code : m \in {x \in sms : x.phone = p}}

Next ==
  \/ \E r \in Requests : Submit(r) \/ DecidedElsewhere(r)
  \/ TwilioAccepts
  \/ \E p \in Phones : SessionEnds(p)
  \/ TailLine \/ SkipRecipient \/ ClaimSlot \/ SendSucceeds \/ SendFails
  \/ \E w \in Webhooks, p \in Phones, intent \in {"approve", "deny"} :
        \E code \in Replies(p) : Receive(w, p, intent, code)
  \/ \E w \in Webhooks : Check(w) \/ Call(w) \/ FreeSlot(w)
  \/ Start \/ Crash \/ Shutdown \/ Clocks

Spec == Init /\ [][Next]_vars

\* The tailer polls every 200 ms and a send times out after 15 s.  Nothing is
\* assumed of operators, of Twilio, or of a restart.
FairSpec == Spec /\ WF_vars(Tailer)

-----------------------------------------------------------------------------
(* Properties *)

\* The type invariant of the adapter's variables.
TypeOK ==
  /\ items \in [Phones -> Slots]
  /\ \A i \in DOMAIN audit : audit[i] \in
        [type: {"opened", "released", "expired"}, req: Requests, phone: Phones, ts: Int]
  /\ now \in 0..MaxNow /\ back \in 0..MaxBack /\ ahead \in 0..MaxAhead /\ lost \in 0..MaxLost
  /\ \A i \in DOMAIN created : created[i] \in Requests
  /\ status \in [Requests -> {"absent", "pending", "decided"}]
  /\ tail \in 0..Len(created)
  /\ job.sending # "no" => job.req \in Requests /\ Head(job.todo) \in Phones
  /\ \A w \in Webhooks : hook[w].step # "idle" =>
        hook[w].phone \in Phones /\ hook[w].req \in Requests
  /\ session \in [Phones -> 0..codes]

\* A Verify code approves at most one request, whatever is replied, however
\* often, and with two replies handled at once (HandleInboundReply goes through
\* CheckVerification, which consumes the code).
CodeApprovesOnce ==
  \A a, b \in approvals : a.code = b.code /\ a.phone = b.phone => a = b

\* At most one pending Verify per phone (twilio-setup.md, "Race-freedom
\* guarantee"): no two texts that are within the slot's lifetime ask the same
\* phone about two undecided requests, at least while no call returns an error.
OnePendingVerify ==
  failed = {} => \A a, b \in sms :
     /\ a.phone = b.phone
     /\ status[a.req] = "pending" /\ status[b.req] = "pending"
     /\ now - a.since < PendingTTL /\ now - b.since < PendingTTL
     => a.req = b.req

\* A text about an undecided request can be answered: its request holds the
\* phone's slot, with any number of requests for the phone and also after a
\* restart, until the slot's lifetime is over.  It loses the slot only to a send
\* for it that failed, to a broker that answered its reply with an error, to the
\* Release of a handler of another request (see OnePendingVerify), or to a restart
\* that finds rows missing or the wall clock set.
TextIsAnswerable ==
  \A m \in sms :
     /\ up /\ status[m.req] = "pending" /\ now - m.since < PendingTTL
     /\ <<m.req, m.phone>> \notin failed \cup stolen
     /\ restarts = 0 \/ (lost = 0 /\ back = 0 /\ ahead = 0)
     => Held(m.phone) /\ items[m.phone].req = m.req

\* README.md: "an operator's reply unambiguously resolves to a single request":
\* an approval by SMS is for a request that the code was sent for.
ApprovalBoundToSms ==
  \A a \in approvals :
     \E m \in sms : m.phone = a.phone /\ m.code = a.code /\ m.req = a.req

\* The tailer gets to every request and through its recipients: a busy phone or
\* a failed send holds nobody else up (handlePending).
EveryRequestHandled ==
  \A i \in 1..Cardinality(Requests) :
     Len(created) >= i ~> ~up \/ (tail >= i /\ job.req # created[i])
=============================================================================
