---------------------------- MODULE AdapterProofs ----------------------------
(***************************************************************************)
(* Proofs about Adapter, for every set of requests, phones and webhooks    *)
(* and every value of the bounds.  A Verify code is a token: it is in the  *)
(* phone's live session, or with the one webhook handler that checked it,  *)
(* or spent on an approval, and never in two of these places.              *)
(***************************************************************************)
EXTENDS Adapter, PendingSetProofs

USE AdapterAssumption

\* The tailer is at a recipient only if it has one left (handlePending).
JobInv ==
  /\ created \in Seq(Requests) /\ tail \in Nat /\ now \in Nat
  /\ job \in [req: Requests \cup {NoRequest}, todo: Seq(Phones),
              sending: {"no", "calling", "accepted"}, since: Nat]
  /\ job # NoJob => job.todo # << >>

\* The types the tokens need.  (That of a handler's request depends on what
\* Replayed computes, and is left to AdapterTypes.)
TokenTypes ==
  /\ codes \in Nat
  /\ session \in [Phones -> 0..codes]
  /\ \A m \in sms : m.code \in 0..codes
  /\ hook = [w \in Webhooks |-> hook[w]]
  /\ \A w \in Webhooks :
       /\ hook[w] \in [step: {"idle", "check", "call", "release"},
                       phone: Phones \cup {Free}, req: {hook[w].req},
                       intent: {"approve", "deny", "unknown"}, code: 0..codes]
       /\ hook[w].step # "idle" => hook[w].phone \in Phones
  /\ \A a \in approvals : a.phone \in Phones /\ a.code \in 1..codes

\* Handler w holds a code that CheckVerification took from its session.
Holds(w, p, c) ==
  /\ hook[w].step = "call" /\ hook[w].intent = "approve"
  /\ hook[w].phone = p /\ hook[w].code = c

Spent(p, c) == \E a \in approvals : a.phone = p /\ a.code = c

\* Where the code c of phone p can be.
OnePlace(p, c) ==
  /\ session[p] = c => ~Spent(p, c) /\ \A w \in Webhooks : ~Holds(w, p, c)
  /\ \A w \in Webhooks : Holds(w, p, c) => ~Spent(p, c)
  /\ \A v, w \in Webhooks : Holds(v, p, c) /\ Holds(w, p, c) => v = w

TokenInv ==
  /\ TokenTypes
  /\ \A w \in Webhooks, p \in Phones : ~Holds(w, p, 0)
  /\ \A p \in Phones, c \in 1..codes : OnePlace(p, c)
  /\ CodeApprovesOnce

-----------------------------------------------------------------------------
(* The tailer's work *)

\* Going on to the next recipient.
LEMMA NextJobType ==
  ASSUME JobInv, job # NoJob
  PROVE  /\ Head(job.todo) \in Phones
         /\ NextJob(Tail(job.todo)) \in [req: Requests \cup {NoRequest}, todo: Seq(Phones),
                                         sending: {"no", "calling", "accepted"}, since: Nat]
         /\ NextJob(Tail(job.todo)) # NoJob => NextJob(Tail(job.todo)).todo # << >>
<1>1. job.todo \in Seq(Phones) /\ job.todo # << >>
  BY DEF JobInv
<1>2. Head(job.todo) \in Phones /\ Tail(job.todo) \in Seq(Phones)
  BY <1>1
<1>3. CASE Tail(job.todo) = << >>
  <2>1. NextJob(Tail(job.todo)) = NoJob
    BY <1>3 DEF NextJob
  <2>2. NoJob \in [req: Requests \cup {NoRequest}, todo: Seq(Phones),
                   sending: {"no", "calling", "accepted"}, since: Nat]
    BY EmptySeq DEF NoJob
  <2> QED BY <1>2, <2>1, <2>2
<1>4. CASE Tail(job.todo) # << >>
  <2>1. NextJob(Tail(job.todo)) = [job EXCEPT !.todo = Tail(job.todo), !.sending = "no", !.since = 0]
    BY <1>4 DEF NextJob
  <2>2. NextJob(Tail(job.todo)) =
          [req |-> job.req, todo |-> Tail(job.todo), sending |-> "no", since |-> 0]
    BY <2>1 DEF JobInv
  <2>3. job.req \in Requests \cup {NoRequest}
    BY DEF JobInv
  <2> DEFINE tl == Tail(job.todo)
  <2>4. [req |-> job.req, todo |-> tl, sending |-> "no", since |-> 0]
          \in [req: Requests \cup {NoRequest}, todo: Seq(Phones),
               sending: {"no", "calling", "accepted"}, since: Nat]
    <3> HIDE DEF tl
    <3>1. tl \in Seq(Phones)
      BY <1>2 DEF tl
    <3> QED BY <2>3, <3>1
  <2>5. NextJob(Tail(job.todo)).todo # << >>
    BY <1>4, <2>2
  <2> QED BY <1>2, <2>2, <2>4, <2>5
<1> QED BY <1>3, <1>4

\* Every step keeps the tailer's state well formed.
LEMMA StepJob ==
  ASSUME JobInv, [Next]_vars
  PROVE  JobInv'
<1>0. now' \in Nat
  <2>1. now' = now \/ now' = now + 1
    BY DEF Next, vars, pendingVars, Submit, DecidedElsewhere, TwilioAccepts, SessionEnds,
           TailLine, SkipRecipient, ClaimSlot, SendSucceeds, SendFails, Receive, Check, Call,
           FreeSlot, Start, Crash, Shutdown, Die, Clocks, clockVars, Tick, SetBack, SetAhead
  <2> QED BY <2>1 DEF JobInv
<1>1. NoJob.sending = "no"
  BY DEF NoJob
<1>2. CASE UNCHANGED <<created, tail, job>>
  BY <1>0, <1>2 DEF JobInv, NoJob
<1>3. ASSUME NEW r \in Requests, Submit(r) PROVE JobInv'
  BY <1>0, <1>3, AppendProperties DEF Submit, JobInv, NoJob
<1>4. CASE job' = NoJob /\ created' = created /\ tail' \in Nat
  BY <1>0, <1>4 DEF JobInv, NoJob
<1>5. CASE TailLine
  <2>1. /\ tail < Len(created) /\ tail' = tail + 1 /\ created' = created
        /\ LET r == created[tail + 1]
           IN job' = IF Recipients[r] = << >> THEN NoJob
                     ELSE [NoJob EXCEPT !.req = r, !.todo = Recipients[r]]
    BY <1>5 DEF TailLine, brokerVars
  <2>2. created \in Seq(Requests) /\ tail \in Nat
    BY DEF JobInv
  <2>3. tail + 1 \in 1..Len(created)
    BY <2>1, <2>2, LenProperties
  <2>4. PICK r \in Requests : r = created[tail + 1]
    BY <2>2, <2>3, ElementOfSeq
  <2>5. Recipients[r] \in Seq(Phones)
    OBVIOUS
  <2>6. CASE Recipients[r] = << >>
    BY <1>4, <2>1, <2>2, <2>4, <2>6
  <2>7. CASE Recipients[r] # << >>
    <3>1. job' = [NoJob EXCEPT !.req = r, !.todo = Recipients[r]]
      BY <2>1, <2>4, <2>7
    <3>2. job' = [req |-> r, todo |-> Recipients[r], sending |-> "no", since |-> 0]
      BY <3>1 DEF NoJob
    <3>3. job'.todo # << >> /\ job' \in [req: Requests \cup {NoRequest}, todo: Seq(Phones),
                                        sending: {"no", "calling", "accepted"}, since: Nat]
      BY <2>5, <2>7, <3>2
    <3>4. created' \in Seq(Requests) /\ tail' \in Nat
      BY <2>1, <2>2
    <3> QED BY <1>0, <3>3, <3>4 DEF JobInv
  <2> QED BY <2>6, <2>7
<1>6. CASE /\ job # NoJob /\ job' = NextJob(Tail(job.todo)) /\ UNCHANGED <<created, tail>>
  BY <1>0, <1>6, NextJobType DEF JobInv, NoJob
<1>7. CASE /\ job # NoJob /\ UNCHANGED <<created, tail>>
           /\ \E s \in {"calling", "accepted"}, t \in Nat :
                 job' = [job EXCEPT !.sending = s, !.since = t]
  <2>1. PICK s \in {"calling", "accepted"}, t \in Nat :
          job' = [job EXCEPT !.sending = s, !.since = t]
    BY <1>7
  <2>2. job' = [req |-> job.req, todo |-> job.todo, sending |-> s, since |-> t]
    BY <2>1 DEF JobInv
  <2> QED BY <1>0, <1>7, <2>2 DEF JobInv
<1>8. CASE SkipRecipient \/ SendSucceeds \/ SendFails
  <2>1. job # NoJob /\ job' = NextJob(Tail(job.todo)) /\ UNCHANGED <<created, tail>>
    BY <1>1, <1>8 DEF SkipRecipient, SendSucceeds, SendFails, brokerVars
  <2> QED BY <1>6, <2>1
<1>9. CASE ClaimSlot \/ TwilioAccepts
  <2>1. /\ job # NoJob /\ UNCHANGED <<created, tail>>
        /\ \/ job' = [job EXCEPT !.sending = "calling", !.since = now]
           \/ job' = [job EXCEPT !.sending = "accepted"]
    BY <1>1, <1>9 DEF ClaimSlot, TwilioAccepts, brokerVars
  <2>2. now \in Nat /\ job.since \in Nat
        /\ [job EXCEPT !.sending = "accepted"]
             = [job EXCEPT !.sending = "accepted", !.since = job.since]
    BY DEF JobInv
  <2> QED BY <1>7, <2>1, <2>2
<1>10. CASE Start
  BY <1>0, <1>10 DEF Start, brokerVars, JobInv, NoJob
<1>11. CASE Crash \/ Shutdown
  <2>1. Die /\ tail \in Nat
    BY <1>11 DEF Crash, Shutdown, JobInv
  <2> QED BY <1>4, <2>1 DEF Die, brokerVars
<1> QED
  BY <1>2, <1>3, <1>5, <1>8, <1>9, <1>10, <1>11
     DEF Next, vars, brokerVars, DecidedElsewhere, SessionEnds, Receive, Check, Call, FreeSlot, Clocks

-----------------------------------------------------------------------------
(* The codes *)

\* The handlers: w moves to step, which is not "idle", and keeps what it read.
LEMMA GotoFacts ==
  ASSUME TokenTypes, NEW w \in Webhooks,
         NEW step \in {"idle", "check", "call", "release"}, Goto(w, step)
  PROVE  /\ hook' = [v \in Webhooks |-> hook'[v]]
         /\ \A v \in Webhooks : v # w => hook'[v] = hook[v]
         /\ step = "idle" => hook'[w] = NoHook
         /\ step # "idle" =>
              /\ hook'[w].step = step /\ hook'[w].phone = hook[w].phone
              /\ hook'[w].req = hook[w].req
              /\ hook'[w].intent = hook[w].intent /\ hook'[w].code = hook[w].code
              /\ hook'[w] \in [step: {"idle", "check", "call", "release"},
                               phone: Phones \cup {Free}, req: {hook'[w].req},
                               intent: {"approve", "deny", "unknown"}, code: 0..codes]
<1>1. /\ hook = [v \in Webhooks |-> hook[v]]
      /\ hook[w] \in [step: {"idle", "check", "call", "release"},
                      phone: Phones \cup {Free}, req: {hook[w].req},
                      intent: {"approve", "deny", "unknown"}, code: 0..codes]
  BY DEF TokenTypes
<1> DEFINE new == IF step = "idle" THEN NoHook ELSE [hook[w] EXCEPT !.step = step]
<1>2. hook' = [hook EXCEPT ![w] = new]
  BY DEF Goto
<1> HIDE DEF new
<1>3. /\ hook'[w] = new /\ \A v \in Webhooks : v # w => hook'[v] = hook[v]
      /\ hook' = [v \in Webhooks |-> hook'[v]]
  BY <1>1, <1>2
<1>4. CASE step = "idle"
  BY <1>3, <1>4 DEF new
<1>5. CASE step # "idle"
  <2>1. hook'[w] = [hook[w] EXCEPT !.step = step]
    BY <1>3, <1>5 DEF new
  <2> QED BY <1>1, <1>3, <1>5, <2>1
<1> QED BY <1>4, <1>5

\* A handler that is done, or not begun, is well typed and holds nothing.
LEMMA NoHookFacts ==
  ASSUME codes \in Nat
  PROVE  /\ NoHook.step = "idle"
         /\ NoHook \in [step: {"idle", "check", "call", "release"},
                        phone: Phones \cup {Free}, req: {NoHook.req},
                        intent: {"approve", "deny", "unknown"}, code: 0..codes]
BY DEF NoHook

\* A step after which no handler holds a code it did not hold before, no session
\* has a code it did not have before, and nothing is approved.
LEMMA NothingGained ==
  ASSUME TokenInv, TokenTypes', codes' = codes, approvals' = approvals,
         \A p \in Phones : session'[p] \in {session[p], 0},
         \A w \in Webhooks : \/ hook'[w] = hook[w]
                             \/ hook'[w].step # "call" \/ hook'[w].intent # "approve"
  PROVE  TokenInv'
<1>1. \A w \in Webhooks, p \in Phones, c \in 0..codes : Holds(w, p, c)' => Holds(w, p, c)
  BY DEF Holds
<1>2. \A p \in Phones, c \in 1..codes : Spent(p, c)' <=> Spent(p, c)
  BY DEF Spent
<1>3. codes \in Nat /\ 0 \in 0..codes /\ \A c \in 1..codes : c \in 0..codes /\ c # 0
  BY DEF TokenInv, TokenTypes
<1>4. \A w \in Webhooks, p \in Phones : ~Holds(w, p, 0)'
  BY <1>1, <1>3 DEF TokenInv
<1>5. ASSUME NEW p \in Phones, NEW c \in 1..codes PROVE OnePlace(p, c)'
  <2>1. OnePlace(p, c)
    BY DEF TokenInv
  <2>2. session'[p] = c => session[p] = c
    BY <1>3
  <2> QED BY <1>1, <1>2, <1>3, <2>1, <2>2 DEF OnePlace
<1>6. CodeApprovesOnce'
  BY DEF TokenInv, CodeApprovesOnce
<1> QED BY <1>4, <1>5, <1>6 DEF TokenInv

\* SendVerificationSMS: the session keeps its code, or gets one never used before.
LEMMA AcceptTokens ==
  ASSUME JobInv, TokenInv, TwilioAccepts
  PROVE  TokenInv'
<1> DEFINE p == Head(job.todo)
<1>1. /\ codes \in Nat /\ session \in [Phones -> 0..codes]
      /\ TokenTypes /\ CodeApprovesOnce /\ UNCHANGED <<hook, approvals>>
  BY DEF TokenInv, TokenTypes, TwilioAccepts
<1>2. p \in Phones
  <2>1. job # NoJob
    BY DEF TwilioAccepts, NoJob
  <2> QED BY <2>1, NextJobType
<1>3. PICK code \in {codes + 1} \cup ({session[p]} \ {0}) :
         /\ session' = [session EXCEPT ![p] = code]
         /\ codes' = IF code > codes THEN code ELSE codes
         /\ sms' = sms \cup {[phone |-> p, code |-> code, req |-> job.req, since |-> job.since]}
  BY DEF TwilioAccepts
<1> HIDE DEF p
<1>4. /\ codes' \in Nat /\ codes <= codes' /\ code \in 1..codes' /\ code \in 0..codes'
      /\ code = session[p] \/ code = codes + 1
      /\ codes' \in {codes, codes + 1}
  <2>1. session[p] \in 0..codes
    BY <1>1, <1>2
  <2> QED BY <1>1, <1>3, <2>1
<1>5. TokenTypes'
  <2>1. \A x \in 0..codes : x \in 0..codes'
    BY <1>1, <1>4
  <2>2. session' \in [Phones -> 0..codes']
    <3>1. session \in [Phones -> 0..codes'] /\ code \in 0..codes'
      BY <1>1, <1>4, <2>1
    <3> QED BY <1>3, <3>1
  <2>3. \A m \in sms' : m.code \in 0..codes'
    BY <1>1, <1>3, <1>4, <2>1 DEF TokenTypes
  <2>4. \A a \in approvals : a.phone \in Phones /\ a.code \in 1..codes'
    <3>1. \A x \in 1..codes : x \in 1..codes'
      BY <1>1, <1>4
    <3> QED BY <1>1, <3>1 DEF TokenTypes
  <2>5. ASSUME NEW w \in Webhooks
        PROVE  hook[w] \in [step: {"idle", "check", "call", "release"},
                            phone: Phones \cup {Free}, req: {hook[w].req},
                            intent: {"approve", "deny", "unknown"}, code: 0..codes']
    <3>1. hook[w] \in [step: {"idle", "check", "call", "release"},
                       phone: Phones \cup {Free}, req: {hook[w].req},
                       intent: {"approve", "deny", "unknown"}, code: 0..codes]
      BY <1>1 DEF TokenTypes
    <3> QED BY <2>1, <3>1
  <2> QED BY <1>1, <1>4, <2>2, <2>3, <2>4, <2>5 DEF TokenTypes
<1>6. \A w \in Webhooks, q \in Phones, c \in Nat : Holds(w, q, c)' <=> Holds(w, q, c)
  BY <1>1 DEF Holds
<1>7. \A q \in Phones, c \in Nat : Spent(q, c)' <=> Spent(q, c)
  BY <1>1 DEF Spent
<1>8. ASSUME NEW q \in Phones PROVE ~Spent(q, codes + 1) /\ \A w \in Webhooks : ~Holds(w, q, codes + 1)
  BY <1>1 DEF TokenTypes, Spent, Holds
<1>9. ASSUME NEW q \in Phones, NEW c \in 1..codes' PROVE OnePlace(q, c)'
  <2>1. c \in Nat
    BY <1>4
  <2>2. CASE c \in 1..codes
    <3>1. OnePlace(q, c)
      BY <2>2 DEF TokenInv
    <3>2. session'[q] = c => session[q] = c
      BY <1>1, <1>2, <1>3, <1>4, <2>2
    <3> QED BY <1>6, <1>7, <2>1, <3>1, <3>2 DEF OnePlace
  <2>3. CASE c \notin 1..codes
    <3>1. c = codes + 1
      BY <1>1, <1>4, <2>1, <2>3
    <3>2. ~Spent(q, c) /\ \A w \in Webhooks : ~Holds(w, q, c)
      BY <1>8, <3>1
    <3> QED BY <1>6, <1>7, <2>1, <3>2 DEF OnePlace
  <2> QED BY <2>2, <2>3
<1>10. \A w \in Webhooks, q \in Phones : ~Holds(w, q, 0)'
  BY <1>6 DEF TokenInv
<1> QED BY <1>1, <1>5, <1>9, <1>10 DEF TokenInv, CodeApprovesOnce

\* A reply comes in: its handler is at the check, or is about to deny.
LEMMA ReceiveTokens ==
  ASSUME TokenInv, NEW w \in Webhooks, NEW p \in Phones, NEW intent \in {"approve", "deny"},
         NEW code \in Replies(p), Receive(w, p, intent, code)
  PROVE  TokenInv'
<1>1. TokenTypes /\ codes \in Nat /\ UNCHANGED <<session, codes, sms, approvals>>
  BY DEF TokenInv, TokenTypes, Receive, twilioVars
<1>2. code \in 0..codes
  BY <1>1 DEF Replies, TokenTypes
<1> DEFINE new == [step |-> IF intent = "approve" THEN "check" ELSE "call",
                   phone |-> p, req |-> items[p].req, intent |-> intent, code |-> code]
<1>3. hook' = hook \/ hook' = [hook EXCEPT ![w] = new]
  BY DEF Receive
<1>4. /\ new.phone = p /\ (new.step # "call" \/ new.intent # "approve")
      /\ new \in [step: {"idle", "check", "call", "release"},
                  phone: Phones \cup {Free}, req: {new.req},
                  intent: {"approve", "deny", "unknown"}, code: 0..codes]
  BY <1>2
<1> HIDE DEF new
<1>5. CASE hook' = hook
  <2>1. TokenTypes'
    BY <1>1, <1>5 DEF TokenTypes
  <2>2. \A q \in Phones : session'[q] \in {session[q], 0}
    BY <1>1
  <2> QED BY <1>1, <1>5, <2>1, <2>2, NothingGained
<1>6. CASE hook' = [hook EXCEPT ![w] = new]
  <2>1. /\ hook'[w] = new /\ \A v \in Webhooks : v # w => hook'[v] = hook[v]
        /\ hook' = [v \in Webhooks |-> hook'[v]]
    BY <1>1, <1>6 DEF TokenTypes
  <2>2. ASSUME NEW v \in Webhooks
        PROVE  /\ hook'[v] \in [step: {"idle", "check", "call", "release"},
                                phone: Phones \cup {Free}, req: {hook'[v].req},
                                intent: {"approve", "deny", "unknown"}, code: 0..codes]
               /\ hook'[v].step # "idle" => hook'[v].phone \in Phones
    <3>1. CASE v = w
      BY <1>4, <2>1, <3>1
    <3>2. CASE v # w
      BY <1>1, <2>1, <3>2 DEF TokenTypes
    <3> QED BY <3>1, <3>2
  <2>3. TokenTypes'
    BY <1>1, <2>1, <2>2 DEF TokenTypes
  <2>4. \A q \in Phones : session'[q] \in {session[q], 0}
    BY <1>1
  <2>5. \A v \in Webhooks : \/ hook'[v] = hook[v]
                            \/ hook'[v].step # "call" \/ hook'[v].intent # "approve"
    BY <1>4, <2>1
  <2> QED BY <1>1, <2>3, <2>4, <2>5, NothingGained
<1> QED BY <1>3, <1>5, <1>6

\* A handler moves on and the rest of the types stay.
LEMMA GotoTypes ==
  ASSUME TokenTypes, NEW w \in Webhooks, hook[w].step # "idle",
         NEW step \in {"idle", "check", "call", "release"}, Goto(w, step),
         UNCHANGED <<codes, sms>>, session' \in [Phones -> 0..codes],
         \A a \in approvals' : a.phone \in Phones /\ a.code \in 1..codes
  PROVE  TokenTypes'
<1>1. codes \in Nat /\ hook[w].phone \in Phones
  BY DEF TokenTypes
<1>2. ASSUME NEW v \in Webhooks
      PROVE  /\ hook'[v] \in [step: {"idle", "check", "call", "release"},
                              phone: Phones \cup {Free}, req: {hook'[v].req},
                              intent: {"approve", "deny", "unknown"}, code: 0..codes]
             /\ hook'[v].step # "idle" => hook'[v].phone \in Phones
  <2>1. CASE v # w
    <3>1. hook'[v] = hook[v]
      BY <2>1, GotoFacts
    <3> QED BY <3>1 DEF TokenTypes
  <2>2. CASE v = w /\ step = "idle"
    <3>1. hook'[v] = NoHook
      BY <2>2, GotoFacts
    <3> QED BY <1>1, <3>1, NoHookFacts
  <2>3. CASE v = w /\ step # "idle"
    BY <1>1, <2>3, GotoFacts
  <2> QED BY <2>1, <2>2, <2>3
<1>3. hook' = [v \in Webhooks |-> hook'[v]]
  BY GotoFacts
<1> QED BY <1>1, <1>2, <1>3 DEF TokenTypes

\* A handler ends, or is left with nothing but the Release: nothing is gained.
LEMMA GotoGains ==
  ASSUME TokenInv, NEW w \in Webhooks, hook[w].step # "idle",
         NEW step \in {"idle", "release"}, Goto(w, step),
         UNCHANGED <<codes, sms, approvals>>, session' \in [Phones -> 0..codes],
         \A p \in Phones : session'[p] \in {session[p], 0}
  PROVE  TokenInv'
<1>1. TokenTypes /\ \A a \in approvals : a.phone \in Phones /\ a.code \in 1..codes
  BY DEF TokenInv, TokenTypes
<1>2. TokenTypes'
  BY <1>1, GotoTypes
<1>3. \A v \in Webhooks : hook'[v] = hook[v] \/ hook'[v].step # "call"
  BY <1>1, GotoFacts, NoHookFacts DEF TokenTypes
<1> QED BY <1>2, <1>3, NothingGained

\* CheckVerification moves the code from the session to the handler, or loses it.
LEMMA CheckTokens ==
  ASSUME TokenInv, NEW w \in Webhooks, Check(w)
  PROVE  TokenInv'
<1> DEFINE p == hook[w].phone
           c == hook[w].code
<1>1. /\ hook[w].step = "check" /\ UNCHANGED <<codes, sms, approvals>>
      /\ TokenTypes /\ codes \in Nat /\ session \in [Phones -> 0..codes]
      /\ p \in Phones /\ c \in 0..codes /\ CodeApprovesOnce
      /\ \A a \in approvals' : a.phone \in Phones /\ a.code \in 1..codes
  BY DEF TokenInv, TokenTypes, Check
<1>2. CASE UNCHANGED session /\ Goto(w, "idle")
  BY <1>1, <1>2, GotoGains
<1>3. ASSUME RightCode(w), session' = [session EXCEPT ![p] = 0]
      PROVE  /\ c \in 1..codes /\ session[p] = c /\ session'[p] = 0
             /\ session' \in [Phones -> 0..codes]
             /\ \A q \in Phones : session'[q] \in {session[q], 0}
  BY <1>1, <1>3 DEF RightCode
<1>4. CASE RightCode(w) /\ session' = [session EXCEPT ![p] = 0] /\ Goto(w, "idle")
  BY <1>1, <1>3, <1>4, GotoGains
<1>5. CASE RightCode(w) /\ session' = [session EXCEPT ![p] = 0] /\ Goto(w, "call")
  <2>1. /\ c \in 1..codes /\ session[p] = c /\ session'[p] = 0
        /\ session' \in [Phones -> 0..codes]
        /\ \A q \in Phones : session'[q] \in {session[q], 0}
    BY <1>3, <1>5
  <2>2. TokenTypes'
    BY <1>1, <1>5, <2>1, GotoTypes
  <2>3. /\ \A v \in Webhooks : v # w => hook'[v] = hook[v]
        /\ hook'[w].phone = p /\ hook'[w].code = c
    BY <1>1, <1>5, GotoFacts
  <2>4. ~Spent(p, c) /\ \A v \in Webhooks : ~Holds(v, p, c)
    BY <1>1, <2>1 DEF TokenInv, OnePlace
  <2>5. \A v \in Webhooks, q \in Phones, d \in 0..codes :
           Holds(v, q, d)' => Holds(v, q, d) \/ (v = w /\ q = p /\ d = c)
    BY <2>3 DEF Holds
  <2>6. \A q \in Phones, d \in 1..codes : Spent(q, d)' <=> Spent(q, d)
    BY <1>1 DEF Spent
  <2>7. \A d \in 1..codes : d \in 0..codes /\ d # 0
    BY <1>1
  <2>8. ASSUME NEW v \in Webhooks, NEW q \in Phones PROVE ~Holds(v, q, 0)'
    <3>1. 0 \in 0..codes /\ c # 0
      BY <1>1, <2>1
    <3> QED BY <2>5, <3>1 DEF TokenInv
  <2>9. ASSUME NEW q \in Phones, NEW d \in 1..codes PROVE OnePlace(q, d)'
    <3>1. OnePlace(q, d) /\ (session'[q] = d => session[q] = d)
      BY <2>1, <2>7 DEF TokenInv
    <3>2. CASE q = p /\ d = c
      <4>1. session'[q] # d /\ ~Spent(q, d)'
        BY <2>1, <2>4, <2>6, <2>7, <3>2
      <4>2. \A v \in Webhooks : Holds(v, q, d)' => v = w
        BY <2>4, <2>5, <2>7, <3>2
      <4> QED BY <4>1, <4>2 DEF OnePlace
    <3>3. CASE ~(q = p /\ d = c)
      <4>1. \A v \in Webhooks : Holds(v, q, d)' => Holds(v, q, d)
        BY <2>5, <2>7, <3>3
      <4> QED BY <2>6, <3>1, <4>1 DEF OnePlace
    <3> QED BY <3>2, <3>3
  <2> QED BY <1>1, <2>2, <2>8, <2>9 DEF TokenInv, CodeApprovesOnce
<1> QED BY <1>2, <1>4, <1>5 DEF Check

\* The broker call spends the code the handler holds, if it approves at all.
LEMMA CallTokens ==
  ASSUME TokenInv, NEW w \in Webhooks, Call(w)
  PROVE  TokenInv'
<1> DEFINE p == hook[w].phone
           c == hook[w].code
           new == [req |-> hook[w].req, phone |-> p, code |-> c]
<1>1. /\ hook[w].step = "call" /\ UNCHANGED <<codes, sms, session>>
      /\ TokenTypes /\ codes \in Nat /\ session \in [Phones -> 0..codes]
      /\ p \in Phones /\ c \in 0..codes /\ CodeApprovesOnce
      /\ \A a \in approvals : a.phone \in Phones /\ a.code \in 1..codes
      /\ \A q \in Phones : session'[q] \in {session[q], 0}
  BY DEF TokenInv, TokenTypes, Call, twilioVars
<1>2. PICK step \in {"idle", "release"} :
         /\ Goto(w, step)
         /\ \/ approvals' = approvals
            \/ hook[w].intent = "approve" /\ approvals' = approvals \cup {new}
  BY DEF Call
<1>3. CASE approvals' = approvals
  BY <1>1, <1>2, <1>3, GotoGains
<1>4. CASE hook[w].intent = "approve" /\ approvals' = approvals \cup {new}
  <2>1. Holds(w, p, c)
    BY <1>1, <1>4 DEF Holds
  <2>2. c \in 1..codes
    <3>1. c # 0
      BY <1>1, <2>1 DEF TokenInv
    <3> QED BY <1>1, <3>1
  <2>3. OnePlace(p, c)
    BY <1>1, <2>2 DEF TokenInv
  <2>4. /\ ~Spent(p, c) /\ session[p] # c
        /\ \A v \in Webhooks : Holds(v, p, c) => v = w
    BY <2>1, <2>3 DEF OnePlace
  <2>5. new.phone = p /\ new.code = c
    OBVIOUS
  <2> HIDE DEF new
  <2>6. TokenTypes'
    <3>1. \A a \in approvals' : a.phone \in Phones /\ a.code \in 1..codes
      BY <1>1, <1>4, <2>2, <2>5
    <3> QED BY <1>1, <1>2, <3>1, GotoTypes
  <2>7. \A v \in Webhooks : (hook'[v] = hook[v] /\ v # w) \/ hook'[v].step # "call"
    BY <1>1, <1>2, GotoFacts, NoHookFacts
  <2>8. \A v \in Webhooks, q \in Phones, d \in 0..codes :
           Holds(v, q, d)' => Holds(v, q, d) /\ v # w
    BY <2>7 DEF Holds
  <2>9. \A q \in Phones, d \in 1..codes :
           Spent(q, d)' => Spent(q, d) \/ (q = p /\ d = c)
    BY <1>4, <2>5 DEF Spent
  <2>10. 0 \in 0..codes /\ \A d \in 1..codes : d \in 0..codes
    BY <1>1
  <2>11. \A v \in Webhooks, q \in Phones : ~Holds(v, q, 0)'
    BY <2>8, <2>10 DEF TokenInv
  <2>12. ASSUME NEW q \in Phones, NEW d \in 1..codes PROVE OnePlace(q, d)'
    <3>1. OnePlace(q, d)
      BY DEF TokenInv
    <3>2. CASE q = p /\ d = c
      <4>1. \A v \in Webhooks : ~Holds(v, q, d)'
        BY <2>4, <2>8, <2>10, <3>2
      <4>2. session'[q] # d
        BY <1>1, <2>4, <3>2
      <4> QED BY <4>1, <4>2 DEF OnePlace
    <3>3. CASE ~(q = p /\ d = c)
      <4>1. Spent(q, d)' => Spent(q, d)
        BY <2>9, <3>3
      <4>2. \A v \in Webhooks : Holds(v, q, d)' => Holds(v, q, d)
        BY <2>8, <2>10
      <4> QED BY <1>1, <3>1, <4>1, <4>2 DEF OnePlace
    <3> QED BY <3>2, <3>3
  <2>13. CodeApprovesOnce'
    <3> SUFFICES ASSUME NEW a \in approvals', NEW b \in approvals',
                        a.code = b.code, a.phone = b.phone
                 PROVE  a = b
      BY DEF CodeApprovesOnce
    <3>1. a \in approvals \/ a = new
      BY <1>4
    <3>2. b \in approvals \/ b = new
      BY <1>4
    <3> QED BY <1>1, <2>4, <2>5, <3>1, <3>2 DEF CodeApprovesOnce, Spent
  <2> QED BY <1>1, <2>6, <2>11, <2>12, <2>13 DEF TokenInv
<1> QED BY <1>2, <1>3, <1>4

\* Every step keeps every code in one place.
LEMMA StepTokens ==
  ASSUME JobInv, TokenInv, [Next]_vars
  PROVE  TokenInv'
<1>1. TokenTypes /\ codes \in Nat /\ session \in [Phones -> 0..codes] /\ 0 \in 0..codes
  BY DEF TokenInv, TokenTypes
<1>2. CASE UNCHANGED <<session, codes, sms, hook, approvals>>
  BY <1>2 DEF TokenInv, TokenTypes, OnePlace, Holds, Spent, CodeApprovesOnce
<1>3. CASE TwilioAccepts
  BY <1>3, AcceptTokens
<1>4. ASSUME NEW p \in Phones, SessionEnds(p) PROVE TokenInv'
  <2>1. session' = [session EXCEPT ![p] = 0] /\ UNCHANGED <<codes, sms, hook, approvals>>
    BY <1>4 DEF SessionEnds
  <2>2. /\ session' \in [Phones -> 0..codes]
        /\ \A q \in Phones : session'[q] \in {session[q], 0}
    BY <1>1, <2>1
  <2>3. TokenTypes'
    BY <1>1, <2>1, <2>2 DEF TokenTypes
  <2> QED BY <2>1, <2>2, <2>3, NothingGained
<1>5. ASSUME NEW w \in Webhooks, NEW p \in Phones, NEW intent \in {"approve", "deny"},
             NEW code \in Replies(p), Receive(w, p, intent, code)
      PROVE  TokenInv'
  BY <1>5, ReceiveTokens
<1>6. ASSUME NEW w \in Webhooks, Check(w) \/ Call(w) \/ FreeSlot(w) PROVE TokenInv'
  <2>1. CASE FreeSlot(w)
    <3>1. /\ hook[w].step = "release" /\ Goto(w, "idle")
          /\ UNCHANGED <<codes, sms, session, approvals>>
      BY <2>1 DEF FreeSlot, twilioVars
    <3>2. \A q \in Phones : session'[q] \in {session[q], 0}
      BY <3>1
    <3> QED BY <1>1, <3>1, <3>2, GotoGains
  <2> QED BY <1>6, <2>1, CheckTokens, CallTokens
<1>7. CASE Crash \/ Shutdown
  <2>1. /\ hook' = [w \in Webhooks |-> NoHook]
        /\ UNCHANGED <<codes, sms, session, approvals>>
    BY <1>7 DEF Crash, Shutdown, Die, twilioVars
  <2>2. \A w \in Webhooks : hook'[w] = NoHook /\ hook'[w].step = "idle"
    BY <1>1, <2>1, NoHookFacts
  <2>3. TokenTypes'
    <3>1. hook' = [w \in Webhooks |-> hook'[w]]
      BY <2>1
    <3> QED BY <1>1, <2>1, <2>2, <3>1, NoHookFacts DEF TokenTypes
  <2>4. \A q \in Phones : session'[q] \in {session[q], 0}
    BY <2>1
  <2> QED BY <2>1, <2>2, <2>3, <2>4, NothingGained
<1> QED
  BY <1>2, <1>3, <1>4, <1>5, <1>6, <1>7
     DEF Next, vars, twilioVars, Submit, DecidedElsewhere, TailLine, SkipRecipient,
         ClaimSlot, SendSucceeds, SendFails, Start, Clocks

LEMMA AdapterInitial == Init => JobInv /\ TokenInv
<1> SUFFICES ASSUME Init PROVE JobInv /\ TokenInv
  OBVIOUS
<1>1. JobInv
  BY EmptySeq DEF Init, PendingInit, JobInv, NoJob
<1>2. TokenTypes
  BY NoHookFacts DEF Init, TokenTypes
<1>3. \A w \in Webhooks : hook[w].step = "idle"
  BY NoHookFacts DEF Init
<1> QED BY <1>1, <1>2, <1>3 DEF Init, TokenInv, OnePlace, Holds, Spent, CodeApprovesOnce

\* A Verify code approves at most one request, whatever is replied, however
\* often and with any number of replies handled at once, across lost answers and
\* restarts (HandleInboundReply, CheckVerification).
THEOREM CodeSpentOnce == Spec => []CodeApprovesOnce
<1>1. JobInv /\ TokenInv /\ [Next]_vars => JobInv' /\ TokenInv'
  BY StepJob, StepTokens
<1>2. TokenInv => CodeApprovesOnce
  BY DEF TokenInv
<1> QED BY AdapterInitial, <1>1, <1>2, PTL DEF Spec

-----------------------------------------------------------------------------
(***************************************************************************)
(* The types.  That the pending set stays a map of slots, whatever rows    *)
(* are missing and in whatever order a restart finds them, is what makes   *)
(* the requests of the handlers requests.                                  *)
(***************************************************************************)
Decisions == {"absent", "pending", "decided"}

AdapterTypes ==
  /\ PendingTypes /\ now <= MaxNow /\ back <= MaxBack /\ ahead <= MaxAhead /\ lost <= MaxLost
  /\ status \in [Requests -> Decisions]
  /\ tail <= Len(created)
  /\ job # NoJob => job.req \in Requests
  /\ \A w \in Webhooks : hook[w].step # "idle" => hook[w].req \in Requests

LEMMA StepPendingTypes ==
  ASSUME JobInv, TokenTypes, AdapterTypes, [Next]_vars
  PROVE  PendingTypes' /\ now' <= MaxNow /\ back' <= MaxBack /\ ahead' <= MaxAhead /\ lost' <= MaxLost
<1>1. PendingTypes /\ now <= MaxNow /\ back <= MaxBack /\ ahead <= MaxAhead /\ lost <= MaxLost
  BY DEF AdapterTypes
<1>2. ASSUME Kept, UNCHANGED clockVars
      PROVE  PendingTypes' /\ now' <= MaxNow /\ back' <= MaxBack /\ ahead' <= MaxAhead /\ lost' <= MaxLost
  BY <1>1, <1>2 DEF Kept, PendingTypes, clockVars
<1>3. CASE UNCHANGED pendingVars
  BY <1>1, <1>3 DEF pendingVars, PendingTypes
<1>4. CASE ClaimSlot
  <2>1. Head(job.todo) \in Phones /\ job.req \in Requests
    BY <1>4, NextJobType DEF ClaimSlot, AdapterTypes
  <2> QED BY <1>1, <1>2, <1>4, <2>1, OpenKeeps DEF ClaimSlot
<1>5. CASE SendFails
  <2>1. job # NoJob
    BY <1>5 DEF SendFails, NoJob
  <2>2. Head(job.todo) \in Phones
    BY <2>1, NextJobType
  <2> QED BY <1>1, <1>2, <1>5, <2>2, ReleaseKeeps DEF SendFails
<1>6. ASSUME NEW w \in Webhooks, NEW p \in Phones, NEW intent, NEW code,
             Receive(w, p, intent, code)
      PROVE  PendingTypes' /\ now' <= MaxNow /\ back' <= MaxBack /\ ahead' <= MaxAhead /\ lost' <= MaxLost
  BY <1>1, <1>2, <1>6, ResolveKeeps DEF Receive
<1>7. ASSUME NEW w \in Webhooks, FreeSlot(w)
      PROVE  PendingTypes' /\ now' <= MaxNow /\ back' <= MaxBack /\ ahead' <= MaxAhead /\ lost' <= MaxLost
  <2>1. hook[w].phone \in Phones
    BY <1>7 DEF FreeSlot, TokenTypes
  <2> QED BY <1>1, <1>2, <1>7, <2>1, ReleaseKeeps DEF FreeSlot
<1>8. CASE Start
  BY <1>1, <1>2, <1>8, ReplayKeeps DEF Start
<1>9. CASE Shutdown
  BY <1>1, <1>2, <1>9, ExpireKeeps DEF Shutdown, Die
<1>10. CASE Crash
  <2>1. UNCHANGED pendingVars
    BY <1>10 DEF Crash, Die, pendingVars, clockVars
  <2> QED BY <1>3, <2>1
<1>11. CASE Clocks
  <2>1. UNCHANGED <<items, audit, lost>>
    BY <1>11 DEF Clocks, Tick, SetBack, SetAhead
  <2>2. \/ now < MaxNow /\ now' = now + 1 /\ UNCHANGED <<back, ahead>>
        \/ back < MaxBack /\ back' = back + 1 /\ UNCHANGED <<now, ahead>>
        \/ ahead < MaxAhead /\ ahead' = ahead + 1 /\ UNCHANGED <<now, back>>
    BY <1>11 DEF Clocks, Tick, SetBack, SetAhead
  <2>3. now \in Nat /\ back \in Nat /\ ahead \in Nat
    BY <1>1 DEF PendingTypes
  <2>4. now' \in Nat /\ back' \in Nat /\ ahead' \in Nat /\ now' <= MaxNow /\ back' <= MaxBack /\ ahead' <= MaxAhead
    <3>1. /\ MaxNow \in Nat /\ MaxBack \in Nat /\ MaxAhead \in Nat
          /\ now <= MaxNow /\ back <= MaxBack /\ ahead <= MaxAhead
      BY <1>1, AdapterAssumption
    <3> QED BY <2>2, <2>3, <3>1
  <2> QED BY <1>1, <2>1, <2>4 DEF PendingTypes
<1> QED
  BY <1>3, <1>4, <1>5, <1>6, <1>7, <1>8, <1>9, <1>10, <1>11
     DEF Next, vars, pendingVars, Submit, DecidedElsewhere, TwilioAccepts, SessionEnds,
         TailLine, SkipRecipient, SendSucceeds, Check, Call

LEMMA StepStatus ==
  ASSUME AdapterTypes, [Next]_vars
  PROVE  status' \in [Requests -> Decisions]
<1>1. status \in [Requests -> Decisions]
  BY DEF AdapterTypes
<1>2. ASSUME NEW r, NEW s \in Decisions, status' = [status EXCEPT ![r] = s]
      PROVE  status' \in [Requests -> Decisions]
  BY <1>1, <1>2
<1>3. ASSUME NEW w \in Webhooks, Call(w) PROVE status' \in [Requests -> Decisions]
  <2>1. \/ status' = status
        \/ status' = [status EXCEPT ![hook[w].req] = "decided"]
    BY <1>3 DEF Call
  <2> QED BY <1>1, <1>2, <2>1 DEF Decisions
<1>4. ASSUME NEW r \in Requests, Submit(r) \/ DecidedElsewhere(r)
      PROVE  status' \in [Requests -> Decisions]
  BY <1>2, <1>4 DEF Submit, DecidedElsewhere, Decisions
<1> QED
  BY <1>1, <1>3, <1>4
     DEF Next, vars, brokerVars, TwilioAccepts, SessionEnds, TailLine, SkipRecipient, ClaimSlot,
         SendSucceeds, SendFails, Receive, Check, FreeSlot, Start, Crash, Shutdown, Die, Clocks

LEMMA StepTail ==
  ASSUME JobInv, AdapterTypes, [Next]_vars
  PROVE  tail' <= Len(created') /\ (job' # NoJob => job'.req \in Requests)
<1>1. /\ created \in Seq(Requests) /\ Len(created) \in Nat /\ tail \in Nat
      /\ tail <= Len(created) /\ (job # NoJob => job.req \in Requests)
  BY LenProperties DEF JobInv, AdapterTypes
<1>2. CASE UNCHANGED <<created, tail, job>>
  BY <1>1, <1>2 DEF NoJob
<1>3. ASSUME NEW r \in Requests, Submit(r)
      PROVE  tail' <= Len(created') /\ (job' # NoJob => job'.req \in Requests)
  <2>1. created' = Append(created, r) /\ UNCHANGED <<tail, job>>
    BY <1>3 DEF Submit
  <2>2. Len(created') = Len(created) + 1
    BY <1>1, <2>1
  <2> QED BY <1>1, <2>1, <2>2 DEF NoJob
<1>4. CASE TailLine
  <2>1. /\ tail < Len(created) /\ tail' = tail + 1 /\ created' = created
        /\ job' = NoJob \/ job'.req = created[tail + 1]
    BY <1>4 DEF TailLine, brokerVars
  <2>2. created[tail + 1] \in Requests
    BY <1>1, <2>1, ElementOfSeq
  <2>3. tail' <= Len(created')
    BY <1>1, <2>1
  <2>4. job' # NoJob => job'.req \in Requests
    BY <2>1, <2>2
  <2> QED BY <2>3, <2>4
<1>5. CASE SkipRecipient \/ SendSucceeds \/ SendFails
  <2>1. UNCHANGED <<created, tail>> /\ job # NoJob /\ job' = NextJob(Tail(job.todo))
    BY <1>5 DEF SkipRecipient, SendSucceeds, SendFails, brokerVars, NoJob
  <2>2. job' = NoJob \/ job'.req = job.req
    BY <2>1 DEF NextJob, JobInv
  <2> QED BY <1>1, <2>1, <2>2 DEF NoJob
<1>6. CASE ClaimSlot \/ TwilioAccepts
  <2>1. /\ UNCHANGED <<created, tail>> /\ job # NoJob
        /\ \/ job' = [job EXCEPT !.sending = "calling", !.since = now]
           \/ job' = [job EXCEPT !.sending = "accepted"]
    BY <1>6 DEF ClaimSlot, TwilioAccepts, brokerVars, NoJob
  <2>2. job'.req = job.req
    BY <2>1 DEF JobInv
  <2> QED BY <1>1, <2>1, <2>2
<1>7. CASE Start
  <2>1. tail' = 0 /\ UNCHANGED <<created, job>>
    BY <1>7 DEF Start, brokerVars
  <2> QED BY <1>1, <2>1 DEF NoJob
<1>8. CASE Crash \/ Shutdown
  <2>1. job' = NoJob /\ UNCHANGED <<created, tail>>
    BY <1>8 DEF Crash, Shutdown, Die, brokerVars
  <2> QED BY <1>1, <2>1 DEF NoJob
<1> QED
  BY <1>2, <1>3, <1>4, <1>5, <1>6, <1>7, <1>8
     DEF Next, vars, brokerVars, DecidedElsewhere, SessionEnds, Receive, Check, Call, FreeSlot, Clocks

LEMMA StepHooks ==
  ASSUME TokenTypes, AdapterTypes, [Next]_vars
  PROVE  \A v \in Webhooks : hook'[v].step # "idle" => hook'[v].req \in Requests
<1>1. \A v \in Webhooks : hook[v].step # "idle" => hook[v].req \in Requests
  BY DEF AdapterTypes
<1>2. NoHook.step = "idle"
  BY DEF NoHook
<1>3. ASSUME NEW w \in Webhooks, hook[w].step # "idle",
             NEW step \in {"idle", "call", "release"}, Goto(w, step)
      PROVE  \A v \in Webhooks : hook'[v].step # "idle" => hook'[v].req \in Requests
  BY <1>1, <1>2, <1>3, GotoFacts
<1>4. ASSUME NEW w \in Webhooks, Check(w) \/ Call(w) \/ FreeSlot(w)
      PROVE  \A v \in Webhooks : hook'[v].step # "idle" => hook'[v].req \in Requests
  <2>1. hook[w].step # "idle" /\ (Goto(w, "call") \/ Goto(w, "release") \/ Goto(w, "idle"))
    BY <1>4 DEF Check, Call, FreeSlot
  <2> QED BY <1>3, <2>1
<1>5. ASSUME NEW w \in Webhooks, NEW p \in Phones, NEW intent, NEW code,
             Receive(w, p, intent, code)
      PROVE  \A v \in Webhooks : hook'[v].step # "idle" => hook'[v].req \in Requests
  <2>1. items[p].req \in Requests
    BY <1>5, RowType DEF Receive, AdapterTypes
  <2>2. \/ hook' = hook
        \/ hook' = [hook EXCEPT ![w] =
                     [step |-> IF intent = "approve" THEN "check" ELSE "call",
                      phone |-> p, req |-> items[p].req, intent |-> intent, code |-> code]]
    BY <1>5 DEF Receive
  <2>3. hook = [v \in Webhooks |-> hook[v]]
    BY DEF TokenTypes
  <2> QED BY <1>1, <2>1, <2>2, <2>3
<1>6. CASE Crash \/ Shutdown
  BY <1>2, <1>6 DEF Crash, Shutdown, Die
<1>7. CASE hook' = hook
  BY <1>1, <1>7
<1> QED
  BY <1>4, <1>5, <1>6, <1>7
     DEF Next, vars, Submit, DecidedElsewhere, TwilioAccepts, SessionEnds, TailLine,
         SkipRecipient, ClaimSlot, SendSucceeds, SendFails, Start, Clocks

\* What the other theorems start from.
AdapterInv == JobInv /\ TokenInv /\ AdapterTypes

LEMMA AdapterInvInitial == Init => AdapterInv
<1> SUFFICES ASSUME Init PROVE AdapterTypes
  BY AdapterInitial DEF AdapterInv
<1>1. PendingTypes
  BY PendingInitial DEF Init, PendingInv
<1> QED BY <1>1 DEF Init, PendingInit, AdapterTypes, NoJob, NoHook, Decisions

LEMMA AdapterInvStep == AdapterInv /\ [Next]_vars => AdapterInv'
<1> SUFFICES ASSUME JobInv, TokenInv, AdapterTypes, [Next]_vars PROVE AdapterInv'
  BY DEF AdapterInv
<1>1. JobInv' /\ TokenInv' /\ TokenTypes
  BY StepJob, StepTokens DEF TokenInv
<1>2. AdapterTypes'
  BY <1>1, StepPendingTypes, StepStatus, StepTail, StepHooks DEF AdapterTypes
<1> QED BY <1>1, <1>2 DEF AdapterInv

\* The adapter's variables keep their types, and its counters their bounds,
\* through lost rows, clocks set back, restarts and replies handled at once.
THEOREM AdapterTypeCorrect == Spec => []TypeOK
<1>1. AdapterInv => TypeOK
  <2> SUFFICES ASSUME JobInv, TokenTypes, AdapterTypes PROVE TypeOK
    BY DEF AdapterInv, TokenInv
  <2>1. /\ items \in [Phones -> Slots]
        /\ now \in 0..MaxNow /\ back \in 0..MaxBack /\ ahead \in 0..MaxAhead /\ lost \in 0..MaxLost
        /\ status \in [Requests -> {"absent", "pending", "decided"}]
    BY DEF AdapterTypes, PendingTypes, Maps, Decisions
  <2>2. \A i \in DOMAIN audit : audit[i] \in
          [type: {"opened", "released", "expired"}, req: Requests, phone: Phones, ts: Int]
    <3>1. audit \in Seq(Rows)
      BY DEF AdapterTypes, PendingTypes
    <3>2. DOMAIN audit = 1..Len(audit)
      BY <3>1, LenProperties
    <3>3. \A i \in DOMAIN audit : audit[i] \in Rows
      BY <3>1, <3>2, ElementOfSeq
    <3> QED BY <3>3 DEF Rows
  <2>3. /\ \A i \in DOMAIN created : created[i] \in Requests
        /\ tail \in 0..Len(created)
    BY LenProperties, ElementOfSeq DEF JobInv, AdapterTypes
  <2>4. job.sending # "no" => job.req \in Requests /\ Head(job.todo) \in Phones
    BY NextJobType DEF AdapterTypes, NoJob
  <2>5. \A w \in Webhooks : hook[w].step # "idle" =>
           hook[w].phone \in Phones /\ hook[w].req \in Requests
    BY DEF TokenTypes, AdapterTypes
  <2> QED BY <2>1, <2>2, <2>3, <2>4, <2>5 DEF TypeOK, TokenTypes
<1> QED BY AdapterInvInitial, AdapterInvStep, <1>1, PTL DEF Spec

-----------------------------------------------------------------------------
(***************************************************************************)
(* The pending set inside the adapter.  Every step of the adapter is, for  *)
(* the set, a call, a restart, a step of the clock or nothing: what was    *)
(* proved of the set alone holds in it.                                    *)
(***************************************************************************)
LEMMA StepSet ==
  ASSUME AdapterInv, [Next]_vars
  PROVE  [SetNext]_pendingVars
<1>1. JobInv /\ TokenTypes /\ AdapterTypes
  BY DEF AdapterInv, TokenInv
<1>2. CASE ClaimSlot
  <2>1. Head(job.todo) \in Phones /\ job.req \in Requests
    BY <1>1, <1>2, NextJobType DEF ClaimSlot, AdapterTypes
  <2> QED BY <1>2, <2>1 DEF ClaimSlot, SetNext, Calls
<1>3. CASE SendFails
  <2>1. job # NoJob
    BY <1>3 DEF SendFails, NoJob
  <2>2. Head(job.todo) \in Phones
    BY <1>1, <2>1, NextJobType
  <2> QED BY <1>3, <2>2 DEF SendFails, SetNext, Calls
<1>4. ASSUME NEW w \in Webhooks, NEW p \in Phones, NEW intent, NEW code,
             Receive(w, p, intent, code)
      PROVE  SetNext
  BY <1>4 DEF Receive, SetNext, Calls
<1>5. ASSUME NEW w \in Webhooks, FreeSlot(w)
      PROVE  SetNext
  <2>1. hook[w].phone \in Phones
    BY <1>1, <1>5 DEF FreeSlot, TokenTypes
  <2> QED BY <1>5, <2>1 DEF FreeSlot, SetNext, Calls
<1>6. CASE Start \/ Shutdown \/ Clocks
  BY <1>6 DEF Start, Shutdown, Die, Clocks, SetNext, Calls, RestartOrClock
<1>7. CASE Crash
  BY <1>7 DEF Crash, Die, pendingVars, clockVars
<1> QED
  BY <1>2, <1>3, <1>4, <1>5, <1>6, <1>7
     DEF Next, vars, pendingVars, Submit, DecidedElsewhere, TwilioAccepts, SessionEnds,
         TailLine, SkipRecipient, SendSucceeds, Check, Call

\* The adapter uses the pending set as its specification says: the tailer, the
\* webhooks, a restart and a shutdown make only its calls.
THEOREM AdapterUsesSet == Spec => SetSpec
<1>1. Init => PendingInit
  BY DEF Init
<1>2. AdapterInv /\ [Next]_vars => [SetNext]_pendingVars
  BY StepSet
<1> QED BY AdapterInvInitial, AdapterInvStep, <1>1, <1>2, PTL DEF Spec, SetSpec

\* With the tailer and the webhooks at work, and killed at any moment, a restart
\* still rebuilds the holder of every phone, provided no row was lost and the
\* wall clock was never set back (emit, ReplayFromAudit).
THEOREM RestartRebuildsSlots == Spec => []AuditTellsSlots
BY AdapterUsesSet, AuditRebuildsSlots, PTL

\* No step of the adapter hands a slot that is within its lifetime to another
\* request, whatever replies are handled meanwhile (OpenPending, ErrPhoneBusy).
THEOREM SlotKeptInAdapter == Spec => NotTakenOver
BY AdapterUsesSet, SlotNotTakenOver, PTL

-----------------------------------------------------------------------------
(***************************************************************************)
(* TextIsAnswerable.  While a text about an undecided request is out, the  *)
(* slot of its phone is lost in four ways only: it grows old; the send or  *)
(* the broker call for the text fails; the handler of a reply to another   *)
(* request releases it; or a restart rebuilds the set from an audit log    *)
(* that misses rows, or by a clock that was set.                           *)
(***************************************************************************)
Quiet == lost = 0 /\ back = 0 /\ ahead = 0

\* What a restart needs; before the first one nothing is rebuilt.
Calm == restarts = 0 \/ Quiet

Over(t) == now - t >= PendingTTL

Known(r) == r \in Requests /\ status[r] # "absent"

Settled(r, p) == status[r] # "pending" \/ <<r, p>> \in failed \cup stolen

\* r holds the slot of p, and has not held it since before t.
Bound(r, p, t) == Held(p) /\ items[p].req = r /\ items[p].opened >= t

Answerable(r, p, t) == Settled(r, p) \/ Over(t) \/ Bound(r, p, t)

\* Requests are known to the broker: in the canon and the job, in the texts, in
\* the slots and in the handlers.
CreatedKnown == \A i \in 1..Len(created) : Known(created[i])

JobKnown == job # NoJob => Known(job.req)

SmsKnown == \A m \in sms : Known(m.req) /\ m.phone \in Phones /\ m.since \in Nat

SlotsKnown == \A p \in Phones : Held(p) => Known(items[p].req)

\* A handler is about to release only once its own request is settled.
HookKnown(w) == hook[w].step # "idle" =>
  /\ Known(hook[w].req)
  /\ hook[w].step = "release" => Settled(hook[w].req, hook[w].phone)

\* While the tailer sends, nobody else can have claimed the slot.
JobOwns == job.sending # "no" /\ Held(Head(job.todo)) => items[Head(job.todo)].req = job.req

\* Every text, and the one that is on its way, can be answered.
TextsBound ==
  /\ \A m \in sms : Answerable(m.req, m.phone, m.since)
  /\ job.sending # "no" => Answerable(job.req, Head(job.todo), job.since)

\* A process that is down does nothing; before the first start there is nothing,
\* and before the first restart no slot was rebuilt from the audit log.
Fresh ==
  /\ restarts \in Nat
  /\ ~up => job = NoJob /\ \A w \in Webhooks : hook[w].step = "idle"
  /\ ~up /\ restarts = 0 => items = NoSlots /\ audit = << >>
  /\ restarts = 0 => \A p \in Phones : Held(p) => ~items[p].parsed

AnswerInv ==
  /\ Fresh /\ CreatedKnown /\ JobKnown /\ SmsKnown
  /\ Calm => SlotsKnown /\ JobOwns /\ (\A w \in Webhooks : HookKnown(w)) /\ TextsBound

\* r is known after the step.
KnownNext(r) == r \in Requests /\ status'[r] # "absent"

\* A request stays known, and what is settled stays settled.
LEMMA StaysSettled ==
  ASSUME AdapterInv, [Next]_vars, NEW r, Known(r)
  PROVE  /\ KnownNext(r)
         /\ \A p : Settled(r, p) => Settled(r, p)'
<1>1. r \in Requests /\ status \in [Requests -> Decisions] /\ status[r] # "absent"
  BY DEF Known, AdapterInv, AdapterTypes
<1>2. failed \subseteq failed' /\ stolen \subseteq stolen'
  BY DEF Next, vars, pendingVars, Submit, DecidedElsewhere, TwilioAccepts, SessionEnds,
         TailLine, SkipRecipient, ClaimSlot, SendSucceeds, SendFails, Receive, Check, Call,
         FreeSlot, Start, Crash, Shutdown, Die, Clocks
<1> DEFINE Moved == status'[r] # "absent" /\ (status[r] # "pending" => status'[r] # "pending")
<1>3. ASSUME status' = status PROVE Moved
  BY <1>1, <1>3
<1>4. ASSUME NEW q \in Requests, Submit(q) \/ DecidedElsewhere(q) PROVE Moved
  BY <1>1, <1>4 DEF Submit, DecidedElsewhere
<1>5. ASSUME NEW w \in Webhooks, Call(w) PROVE Moved
  <2>1. \/ status' = status
        \/ status' = [status EXCEPT ![hook[w].req] = "decided"]
    BY <1>5 DEF Call
  <2> QED BY <1>1, <2>1
<1>6. Moved
  BY <1>1, <1>3, <1>4, <1>5
     DEF Next, vars, brokerVars, TwilioAccepts, SessionEnds, TailLine, SkipRecipient, ClaimSlot,
         SendSucceeds, SendFails, Receive, Check, FreeSlot, Start, Crash, Shutdown, Die, Clocks
<1> QED BY <1>1, <1>2, <1>6 DEF KnownNext, Settled

\* Restarts are counted.
LEMMA RestartCounted ==
  ASSUME restarts \in Nat, [Next]_vars
  PROVE  /\ restarts' \in Nat
         /\ restarts' = 0 => restarts = 0 /\ ~Crash /\ ~Shutdown
<1>1. restarts' = restarts \/ restarts' = restarts + 1
  BY DEF Next, vars, Submit, DecidedElsewhere, TwilioAccepts, SessionEnds, TailLine,
         SkipRecipient, ClaimSlot, SendSucceeds, SendFails, Receive, Check, Call, FreeSlot,
         Start, Crash, Shutdown, Die, Clocks
<1>2. Crash \/ Shutdown => restarts' = restarts + 1
  BY DEF Crash, Shutdown, Die
<1> QED BY <1>1, <1>2

\* Excepted cases stay excepted, time does not go back, and a slot's age is the
\* time since it was opened.
LEMMA CalmBefore ==
  ASSUME AdapterInv, PendingInv, Fresh, [Next]_vars, Calm'
  PROVE  /\ Calm /\ items \in Maps /\ audit \in Seq(Rows)
         /\ now \in Nat /\ now' \in Nat /\ now <= now'
         /\ \/ restarts = 0 /\ restarts' = 0
            \/ lost' = 0 /\ Quiet /\ Tells(items, audit) /\ Dated(items, Replayed(audit))
         /\ \A p \in Phones : Held(p) => Age(items[p]) = now - items[p].opened
<1>1. PendingTypes /\ PendingTypes' /\ lost <= lost'
  BY StepSet, PendingStep DEF PendingInv
<1>2. /\ back' \in {back, back + 1} /\ now' \in {now, now + 1} /\ ahead' \in {ahead, ahead + 1}
  BY StepSet DEF SetNext, Calls, RestartOrClock, Tick, SetBack, SetAhead, pendingVars, clockVars
<1>3. /\ lost \in Nat /\ back \in Nat /\ ahead \in Nat /\ now \in Nat /\ lost' \in Nat
      /\ items \in Maps /\ audit \in Seq(Rows)
  BY <1>1 DEF PendingTypes
<1>4. now' \in Nat /\ now <= now' /\ (Quiet' => Quiet /\ lost' = 0)
  <2>1. now' \in Nat /\ now <= now'
    BY <1>2, <1>3
  <2>2. ASSUME Quiet' PROVE Quiet /\ lost' = 0
    <3>1. lost' = 0 /\ back' = 0 /\ ahead' = 0
      BY <2>2 DEF Quiet
    <3>2. lost = 0
      BY <1>1, <1>3, <3>1
    <3>3. back = 0 /\ ahead = 0
      BY <1>2, <1>3, <3>1
    <3> QED BY <3>1, <3>2, <3>3 DEF Quiet
  <2> QED BY <2>1, <2>2
<1>5. restarts' = 0 => restarts = 0
  BY RestartCounted DEF Fresh
<1>6. CASE restarts' = 0
  <2>1. \A p \in Phones : Held(p) => Age(items[p]) = now - items[p].opened
    BY <1>5, <1>6 DEF Fresh, Age
  <2> QED BY <1>3, <1>4, <1>5, <1>6, <2>1 DEF Calm
<1>7. CASE restarts' # 0
  <2>1. Quiet /\ lost' = 0
    BY <1>4, <1>7 DEF Calm
  <2>2. Tells(items, audit) /\ Dated(items, Replayed(audit))
    BY <2>1 DEF PendingInv, Quiet, Tells
  <2>3. Wall = now
    BY <1>3, <2>1 DEF Quiet, Wall
  <2>4. \A p \in Phones : Held(p) => Age(items[p]) = now - items[p].opened
    BY <2>3 DEF Age
  <2> QED BY <1>3, <1>4, <2>1, <2>2, <2>4 DEF Calm
<1> QED BY <1>6, <1>7

(***************************************************************************)
(* What a step can do to a slot.                                           *)
(***************************************************************************)
Stays(p) ==
  \/ items'[p] = items[p]
  \/ /\ Held(p) /\ items'[p] # Free
     /\ items'[p].req = items[p].req /\ items'[p].opened = items[p].opened

Overdue(p) == Held(p) /\ now - items[p].opened >= PendingTTL

Claimed(p) ==
  /\ ClaimSlot /\ p = Head(job.todo) /\ (Held(p) => Overdue(p))
  /\ items'[p] = [req |-> job.req, opened |-> now, parsed |-> FALSE]

Freed(p) ==
  /\ items'[p] = Free
  /\ \/ SendFails /\ p = Head(job.todo)
     \/ \E w \in Webhooks : FreeSlot(w) /\ p = hook[w].phone

LEMMA SlotStep ==
  ASSUME AdapterInv, PendingInv, Fresh, [Next]_vars, Calm', NEW p \in Phones
  PROVE  Stays(p) \/ Claimed(p) \/ Freed(p) \/ (Overdue(p) /\ items'[p] = Free)
<1>1. /\ items \in Maps /\ audit \in Seq(Rows) /\ now \in Nat
  BY CalmBefore
<1>2. \A q \in Phones : Held(q) /\ ~Busy(q) => Overdue(q)
  <2> SUFFICES ASSUME NEW q \in Phones, Held(q), ~Busy(q) PROVE Overdue(q)
    OBVIOUS
  <2>1. items[q].opened \in Int
    BY <1>1 DEF Held, Maps, Slots, Entries
  <2>2. ~(Age(items[q]) < PendingTTL) /\ Age(items[q]) = now - items[q].opened
    BY CalmBefore DEF Busy
  <2> QED BY <1>1, <2>1, <2>2, AdapterAssumption DEF Overdue
<1>3. CASE items' = items
  BY <1>3 DEF Stays
<1>4. CASE ClaimSlot
  BY <1>1, <1>2, <1>4 DEF ClaimSlot, OpenPending, Maps, Stays, Claimed
<1>5. CASE SendFails
  BY <1>1, <1>5 DEF SendFails, Release, Maps, Stays, Freed
<1>6. ASSUME NEW w \in Webhooks, NEW q \in Phones, NEW intent, NEW code,
             Receive(w, q, intent, code)
      PROVE  Stays(p) \/ (Overdue(p) /\ items'[p] = Free)
  BY <1>1, <1>2, <1>6 DEF Receive, Resolve, Maps, Stays
<1>7. ASSUME NEW w \in Webhooks, FreeSlot(w)
      PROVE  Stays(p) \/ Freed(p)
  BY <1>1, <1>7 DEF FreeSlot, Release, Maps, Stays, Freed
<1>8. CASE Start
  <2>1. CASE restarts = 0
    <3>1. items = NoSlots /\ audit = << >>
      BY <1>8, <2>1 DEF Start, Fresh
    <3>2. items' = NoSlots
      BY <1>8, <3>1, ReplayedEmpty DEF Start, ReplayFromAudit, NoSlots
    <3> QED BY <3>1, <3>2 DEF Stays
  <2>2. CASE restarts # 0
    <3>1. lost = 0 /\ lost' = 0 /\ Tells(items, audit) /\ Dated(items, Replayed(audit))
      BY <2>2, CalmBefore DEF Quiet
    <3>2. items' = Replayed(audit)
      BY <1>8, <3>1 DEF Start, ReplayFromAudit
    <3>3. SameSlot(items[p], items'[p]) /\ (items[p] # Free => items'[p].opened = items[p].opened)
      BY <3>1, <3>2 DEF Tells, Same, Dated
    <3> QED BY <3>3 DEF SameSlot, Stays, Held
  <2> QED BY <2>1, <2>2
<1>9. CASE Shutdown
  BY <1>2, <1>9 DEF Shutdown, ExpireDue, Stays
<1> QED
  BY <1>3, <1>4, <1>5, <1>6, <1>7, <1>8, <1>9
     DEF Next, vars, pendingVars, Submit, DecidedElsewhere, TwilioAccepts, SessionEnds,
         TailLine, SkipRecipient, SendSucceeds, Check, Call, Crash, Clocks, Tick, SetBack, SetAhead

\* A slot is lost by its request only when it is overdue or the request settled.
LEMMA BoundKept ==
  ASSUME AdapterInv, PendingInv, AnswerInv, [Next]_vars, Calm',
         NEW p \in Phones, NEW r, NEW t \in Nat, Bound(r, p, t)
  PROVE  Bound(r, p, t)' \/ Over(t)' \/ Settled(r, p)'
<1>0. Fresh
  BY DEF AnswerInv
<1>1. /\ Calm /\ items \in Maps /\ now \in Nat /\ now' \in Nat /\ now <= now'
  BY <1>0, CalmBefore
<1>2. /\ Held(p) /\ items[p].req = r /\ items[p].opened >= t /\ items[p].opened \in Int
  <2>1. items[p].opened \in Int
    BY <1>1 DEF Bound, Held, Maps, Slots, Entries
  <2> QED BY <2>1 DEF Bound
<1>3. CASE Stays(p)
  BY <1>2, <1>3 DEF Stays, Bound, Held
<1>4. CASE Overdue(p)
  BY <1>1, <1>2, <1>4, AdapterAssumption DEF Overdue, Over
<1>5. CASE SendFails /\ p = Head(job.todo)
  <2>1. job.sending # "no" /\ <<job.req, p>> \in failed'
    BY <1>5, AdapterAssumption DEF SendFails
  <2>2. r = job.req
    BY <1>1, <1>2, <1>5, <2>1 DEF AnswerInv, JobOwns
  <2> QED BY <2>1, <2>2 DEF Settled
<1>6. ASSUME NEW w \in Webhooks, FreeSlot(w), p = hook[w].phone
      PROVE  Settled(r, p)'
  <2>1. hook[w].step = "release" /\ UNCHANGED <<status, failed>> /\ stolen \subseteq stolen'
    BY <1>6 DEF FreeSlot, brokerVars
  <2>2. CASE r = hook[w].req
    <3>1. Settled(r, p)
      BY <1>1, <1>6, <2>1, <2>2 DEF AnswerInv, HookKnown
    <3> QED BY <2>1, <3>1 DEF Settled
  <2>3. CASE r # hook[w].req
    <3>1. <<r, p>> \in stolen'
      BY <1>2, <1>6, <2>3 DEF FreeSlot
    <3> QED BY <3>1 DEF Settled
  <2> QED BY <2>2, <2>3
<1>7. Claimed(p) => Overdue(p)
  BY <1>2 DEF Claimed
<1>8. CASE Freed(p)
  BY <1>5, <1>6, <1>8 DEF Freed
<1> QED BY <1>0, <1>3, <1>4, <1>7, <1>8, SlotStep

\* So a text stays answerable.
LEMMA AnswerableKept ==
  ASSUME AdapterInv, PendingInv, AnswerInv, [Next]_vars, Calm',
         NEW p \in Phones, NEW r, NEW t \in Nat, Known(r), Answerable(r, p, t)
  PROVE  Answerable(r, p, t)'
<1>1. now \in Nat /\ now' \in Nat /\ now <= now'
  BY CalmBefore DEF AnswerInv
<1>2. Over(t) => Over(t)'
  BY <1>1, AdapterAssumption DEF Over
<1> QED BY <1>2, BoundKept, StaysSettled DEF Answerable

\* Where the tailer is.
LEMMA JobAt ==
  ASSUME AdapterInv, AnswerInv, job # NoJob
  PROVE  Head(job.todo) \in Phones /\ Known(job.req) /\ job.since \in Nat
BY NextJobType DEF AnswerInv, JobKnown, AdapterInv, JobInv

\* A slot that was rebuilt from the audit log is one after a restart.
LEMMA SlotUnparsed ==
  ASSUME AdapterInv, [Next]_vars, ~Start, NEW p \in Phones
  PROVE  items'[p] = items[p] \/ items'[p] = Free \/ ~items'[p].parsed
<1>1. items \in [Phones -> Slots]
  BY DEF AdapterInv, AdapterTypes, PendingTypes, Maps
<1>2. CASE ClaimSlot
  BY <1>1, <1>2 DEF ClaimSlot, OpenPending
<1>3. ASSUME NEW q, Release(q) \/ Resolve(q)
      PROVE  items'[p] = items[p] \/ items'[p] = Free
  BY <1>1, <1>3 DEF Release, Resolve
<1>4. CASE Shutdown
  BY <1>4 DEF Shutdown, ExpireDue
<1>5. CASE SendFails
  BY <1>3, <1>5 DEF SendFails
<1>6. ASSUME NEW w \in Webhooks, NEW q \in Phones, NEW intent, NEW code,
             Receive(w, q, intent, code) \/ FreeSlot(w)
      PROVE  items'[p] = items[p] \/ items'[p] = Free
  BY <1>3, <1>6 DEF Receive, FreeSlot
<1>7. CASE items' = items
  BY <1>7
<1> QED
  BY <1>2, <1>4, <1>5, <1>6, <1>7
     DEF Next, vars, pendingVars, Submit, DecidedElsewhere, TwilioAccepts, SessionEnds,
         TailLine, SkipRecipient, SendSucceeds, Check, Call, Crash, Clocks, Tick, SetBack, SetAhead

LEMMA StepFresh ==
  ASSUME AdapterInv, Fresh, [Next]_vars
  PROVE  Fresh'
<1>1. /\ restarts' \in Nat
      /\ restarts' = 0 => restarts = 0 /\ ~Crash /\ ~Shutdown
  BY RestartCounted DEF Fresh
<1>2. NoJob.sending = "no" /\ NoHook.step = "idle"
  BY DEF NoJob, NoHook
<1>3. ASSUME restarts' = 0, NEW p \in Phones, items'[p] # Free
      PROVE  ~items'[p].parsed
  <2>1. CASE Start
    <3>1. audit = << >>
      BY <1>1, <1>3, <2>1 DEF Fresh, Start
    <3>2. items' = NoSlots
      BY <2>1, <3>1, ReplayedEmpty DEF Start, ReplayFromAudit, NoSlots
    <3> QED BY <1>3, <3>2 DEF NoSlots
  <2>2. CASE ~Start
    BY <1>1, <1>3, <2>2, SlotUnparsed DEF Fresh, Held
  <2> QED BY <2>1, <2>2
<1>4. CASE Crash \/ Shutdown
  <2>1. job' = NoJob /\ \A w \in Webhooks : hook'[w].step = "idle"
    BY <1>2, <1>4 DEF Crash, Shutdown, Die
  <2> QED BY <1>1, <1>3, <1>4, <2>1 DEF Fresh, Held, NoJob
<1>5. CASE up'
  BY <1>1, <1>3, <1>5 DEF Fresh, Held
<1>6. CASE ~up' /\ ~Crash /\ ~Shutdown
  <2>1. ~up /\ ~Start
    BY <1>6 DEF Next, vars, Submit, DecidedElsewhere, TwilioAccepts, SessionEnds, TailLine,
                SkipRecipient, ClaimSlot, SendSucceeds, SendFails, Receive, Check, Call, FreeSlot,
                Start, Clocks
  <2>2. job = NoJob /\ job.sending = "no" /\ \A w \in Webhooks : hook[w].step = "idle"
    BY <1>2, <2>1 DEF Fresh
  <2>3. UNCHANGED <<job, hook, items, audit>>
    BY <1>6, <2>1, <2>2
       DEF Next, vars, pendingVars, Submit, DecidedElsewhere, TwilioAccepts, SessionEnds, TailLine,
           SkipRecipient, ClaimSlot, SendSucceeds, SendFails, Receive, Check, Call, FreeSlot,
           Clocks, Tick, SetBack, SetAhead
  <2> QED BY <1>1, <1>3, <2>1, <2>2, <2>3 DEF Fresh, Held, NoSlots, NoJob
<1> QED BY <1>4, <1>5, <1>6

LEMMA StepCreatedKnown ==
  ASSUME AdapterInv, AnswerInv, [Next]_vars
  PROVE  CreatedKnown'
<1>1. created \in Seq(Requests) /\ \A i \in 1..Len(created) : KnownNext(created[i])
  BY StaysSettled DEF AdapterInv, JobInv, AnswerInv, CreatedKnown
<1> SUFFICES \A i \in 1..Len(created') : KnownNext(created'[i])
  BY DEF CreatedKnown, Known, KnownNext
<1>2. CASE created' = created
  BY <1>1, <1>2
<1>3. ASSUME NEW r \in Requests, Submit(r), NEW i \in 1..Len(created')
      PROVE  KnownNext(created'[i])
  <2>1. created' = Append(created, r) /\ KnownNext(r)
    BY <1>3 DEF Submit, KnownNext, AdapterInv, AdapterTypes
  <2>2. CASE i \in 1..Len(created)
    <3>1. created'[i] = created[i]
      BY <1>1, <2>1, <2>2
    <3> QED BY <1>1, <2>2, <3>1
  <2>3. CASE i \notin 1..Len(created)
    <3>1. created'[i] = r
      BY <1>1, <2>1, <2>3
    <3> QED BY <2>1, <3>1
  <2> QED BY <2>2, <2>3
<1> QED
  BY <1>2, <1>3
     DEF Next, vars, brokerVars, DecidedElsewhere, TwilioAccepts, SessionEnds, TailLine,
         SkipRecipient, ClaimSlot, SendSucceeds, SendFails, Receive, Check, Call, FreeSlot,
         Start, Crash, Shutdown, Die, Clocks

LEMMA StepJobKnown ==
  ASSUME AdapterInv, AnswerInv, [Next]_vars
  PROVE  JobKnown'
<1>1. job # NoJob => KnownNext(job.req)
  BY JobAt, StaysSettled
<1>2. job' # NoJob => KnownNext(job'.req)
  <2>1. CASE job' = job \/ job' = NoJob
    BY <1>1, <2>1
  <2>2. CASE ClaimSlot \/ TwilioAccepts
    <3>1. /\ job # NoJob
          /\ \/ job' = [job EXCEPT !.sending = "calling", !.since = now]
             \/ job' = [job EXCEPT !.sending = "accepted"]
      BY <2>2 DEF ClaimSlot, TwilioAccepts, NoJob
    <3>2. job'.req = job.req
      BY <3>1 DEF AdapterInv, JobInv
    <3> QED BY <1>1, <3>1, <3>2
  <2>3. CASE SkipRecipient \/ SendSucceeds \/ SendFails
    <3>1. job # NoJob /\ job' = NextJob(Tail(job.todo))
      BY <2>3 DEF SkipRecipient, SendSucceeds, SendFails, NoJob
    <3>2. job' = NoJob \/ job'.req = job.req
      BY <3>1 DEF NextJob, AdapterInv, JobInv
    <3> QED BY <1>1, <3>1, <3>2
  <2>4. CASE TailLine
    <3>1. /\ created \in Seq(Requests) /\ tail \in Nat /\ tail < Len(created)
          /\ \/ job' = NoJob
             \/ job' = [NoJob EXCEPT !.req = created[tail + 1],
                                     !.todo = Recipients[created[tail + 1]]]
      BY <2>4 DEF TailLine, AdapterInv, JobInv
    <3>2. tail + 1 \in 1..Len(created)
      BY <3>1
    <3>3. PICK r \in Requests : r = created[tail + 1] /\ Known(r)
      BY <3>1, <3>2, ElementOfSeq DEF AnswerInv, CreatedKnown
    <3>4. KnownNext(r)
      BY <3>3, StaysSettled
    <3>5. job' = NoJob \/ job'.req = r
      BY <3>1, <3>3 DEF NoJob
    <3> QED BY <3>4, <3>5
  <2> QED
    BY <2>1, <2>2, <2>3, <2>4
       DEF Next, vars, Submit, DecidedElsewhere, SessionEnds, Receive, Check, Call, FreeSlot,
           Start, Crash, Shutdown, Die, Clocks
<1> QED BY <1>2 DEF JobKnown, Known, KnownNext, NoJob

LEMMA StepSmsKnown ==
  ASSUME AdapterInv, AnswerInv, [Next]_vars
  PROVE  SmsKnown'
<1> DEFINE Ok(m) == KnownNext(m.req) /\ m.phone \in Phones /\ m.since \in Nat
<1>1. \A m \in sms : Ok(m)
  BY StaysSettled DEF AnswerInv, SmsKnown
<1> SUFFICES \A m \in sms' : Ok(m)
  BY DEF SmsKnown, Known, KnownNext
<1>2. CASE sms' = sms
  BY <1>1, <1>2
<1>3. CASE TwilioAccepts
  <2>1. job # NoJob
    BY <1>3 DEF TwilioAccepts, NoJob
  <2>2. PICK m : /\ sms' = sms \cup {m} /\ m.phone = Head(job.todo)
                 /\ m.req = job.req /\ m.since = job.since
    <3>1. PICK c : sms' = sms \cup {[phone |-> Head(job.todo), code |-> c, req |-> job.req,
                                     since |-> job.since]}
      BY <1>3 DEF TwilioAccepts
    <3> QED BY <3>1
  <2>3. KnownNext(job.req) /\ Head(job.todo) \in Phones /\ job.since \in Nat
    BY <2>1, JobAt, StaysSettled
  <2>4. Ok(m)
    BY <2>2, <2>3
  <2> HIDE DEF Ok
  <2> QED BY <1>1, <2>2, <2>4
<1> HIDE DEF Ok
<1> QED
  BY <1>2, <1>3
     DEF Next, vars, twilioVars, Submit, DecidedElsewhere, SessionEnds, TailLine, SkipRecipient,
         ClaimSlot, SendSucceeds, SendFails, Receive, Check, Call, FreeSlot, Start, Crash,
         Shutdown, Die, Clocks

LEMMA StepSlotsKnown ==
  ASSUME AdapterInv, PendingInv, AnswerInv, [Next]_vars, Calm'
  PROVE  SlotsKnown'
<1> SUFFICES ASSUME NEW p \in Phones, items'[p] # Free
             PROVE  KnownNext(items'[p].req)
  BY DEF SlotsKnown, Held, Known, KnownNext
<1>1. Fresh /\ \A q \in Phones : Held(q) => Known(items[q].req)
  BY CalmBefore DEF AnswerInv, SlotsKnown
<1>2. CASE Stays(p)
  <2>1. Held(p) /\ items'[p].req = items[p].req
    BY <1>2 DEF Stays, Held
  <2>2. Known(items[p].req)
    BY <1>1, <2>1
  <2>3. KnownNext(items[p].req)
    BY <2>2, StaysSettled
  <2> QED BY <2>1, <2>3
<1>3. CASE Claimed(p)
  <2>1. job # NoJob /\ p = Head(job.todo) /\ items'[p].req = job.req
    BY <1>3 DEF Claimed, ClaimSlot
  <2> QED BY <2>1, JobAt, StaysSettled
<1> QED BY <1>1, <1>2, <1>3, SlotStep DEF Freed

\* The tailer claims the slot it sends for, and nobody else claims any.
LEMMA StepJobOwns ==
  ASSUME AdapterInv, PendingInv, AnswerInv, [Next]_vars, Calm'
  PROVE  JobOwns'
<1>1. NoJob.sending = "no" /\ Fresh /\ Calm
  BY CalmBefore DEF NoJob, AnswerInv
<1> SUFFICES ASSUME job'.sending # "no", items'[Head(job'.todo)] # Free
             PROVE  items'[Head(job'.todo)].req = job'.req
  BY DEF JobOwns, Held
<1>2. CASE ClaimSlot
  <2>1. job' = [job EXCEPT !.sending = "calling", !.since = now] /\ job # NoJob
    BY <1>2 DEF ClaimSlot
  <2>2. job'.req = job.req /\ job'.todo = job.todo /\ Head(job.todo) \in Phones
    BY <2>1, NextJobType DEF AdapterInv, JobInv
  <2>3. items'[Head(job.todo)].req = job.req
    BY <1>2, <2>2 DEF ClaimSlot, OpenPending, AdapterInv, AdapterTypes, PendingTypes, Maps
  <2> QED BY <2>2, <2>3
<1>3. ASSUME ~ClaimSlot, job'.req = job.req, job'.todo = job.todo, job.sending # "no"
      PROVE  items'[Head(job'.todo)].req = job'.req
  <2>1. Head(job.todo) \in Phones
    BY <1>1, <1>3, NextJobType DEF AdapterInv
  <2>2. Stays(Head(job.todo))
    BY <1>1, <1>3, <2>1, SlotStep DEF Claimed, Freed
  <2>3. Held(Head(job.todo)) /\ items'[Head(job.todo)].req = items[Head(job.todo)].req
    BY <1>3, <2>2 DEF Stays, Held
  <2> QED BY <1>1, <1>3, <2>3 DEF AnswerInv, JobOwns
<1>4. CASE TwilioAccepts
  <2>1. /\ job' = [job EXCEPT !.sending = "accepted"] /\ job.sending = "calling"
    BY <1>4 DEF TwilioAccepts
  <2>2. job'.req = job.req /\ job'.todo = job.todo /\ ~ClaimSlot
    BY <2>1 DEF AdapterInv, JobInv, ClaimSlot
  <2> QED BY <1>3, <2>1, <2>2
<1>5. CASE TailLine \/ SkipRecipient \/ SendSucceeds \/ SendFails
  <2>1. job'.sending = "no"
    <3>1. CASE TailLine
      BY <1>1, <3>1 DEF TailLine, NoJob
    <3>2. CASE SkipRecipient \/ SendSucceeds \/ SendFails
      <4>1. job' = NextJob(Tail(job.todo))
        BY <3>2 DEF SkipRecipient, SendSucceeds, SendFails
      <4>2. job' = NoJob \/ job' = [job EXCEPT !.todo = Tail(job.todo), !.sending = "no", !.since = 0]
        BY <4>1 DEF NextJob
      <4> QED BY <1>1, <4>2 DEF AdapterInv, JobInv
    <3> QED BY <1>5, <3>1, <3>2
  <2> QED BY <2>1
<1>6. CASE job' = NoJob
  BY <1>1, <1>6
<1>7. CASE job' = job /\ ~ClaimSlot
  BY <1>3, <1>7
<1> QED
  BY <1>2, <1>4, <1>5, <1>6, <1>7
     DEF Next, vars, Submit, DecidedElsewhere, SessionEnds, Receive, Check, Call, FreeSlot,
         Start, Crash, Shutdown, Die, Clocks

\* The handlers.
LEMMA HookGoal ==
  ASSUME NEW w \in Webhooks, NEW r, NEW p, hook'[w].req = r, hook'[w].phone = p,
         KnownNext(r), hook'[w].step = "release" => Settled(r, p)'
  PROVE  HookKnown(w)'
BY DEF HookKnown, Known, KnownNext, Settled

\* One that does not move.
LEMMA HookStays ==
  ASSUME AdapterInv, PendingInv, AnswerInv, [Next]_vars, Calm',
         NEW w \in Webhooks, hook'[w] = hook[w], hook[w].step # "idle"
  PROVE  HookKnown(w)'
<1>1. Calm
  BY CalmBefore DEF AnswerInv
<1>2. PICK r, p : r = hook[w].req /\ p = hook[w].phone
  OBVIOUS
<1>3. Known(r) /\ (hook[w].step = "release" => Settled(r, p))
  BY <1>1, <1>2 DEF AnswerInv, HookKnown
<1>4. KnownNext(r) /\ (hook'[w].step = "release" => Settled(r, p)')
  BY <1>3, StaysSettled
<1> QED BY <1>2, <1>4, HookGoal

\* One that goes on to the broker call or to Release.
LEMMA HookMoves ==
  ASSUME AdapterInv, PendingInv, AnswerInv, [Next]_vars, Calm',
         NEW w \in Webhooks, hook'[w].step # "idle", Check(w) \/ Call(w)
  PROVE  HookKnown(w)'
<1>1. Calm /\ TokenTypes /\ status \in [Requests -> Decisions]
  BY CalmBefore DEF AnswerInv, AdapterInv, TokenInv, AdapterTypes
<1>2. PICK r, p : r = hook[w].req /\ p = hook[w].phone
  OBVIOUS
<1>3. hook[w].step # "idle" /\ NoHook.step = "idle"
  BY DEF Check, Call, NoHook
<1>4. Known(r) /\ KnownNext(r)
  <2>1. Known(r)
    BY <1>1, <1>2, <1>3 DEF AnswerInv, HookKnown
  <2> QED BY <2>1, StaysSettled
<1>5. \/ Goto(w, "call")
      \/ Goto(w, "release") /\ (status'[r] # "pending" \/ <<r, p>> \in failed')
  <2>1. ~Goto(w, "idle")
    BY <1>1, <1>3, GotoFacts
  <2>2. CASE Check(w)
    BY <2>1, <2>2 DEF Check
  <2>3. CASE Call(w)
    BY <1>1, <1>2, <1>4, <2>1, <2>3 DEF Call, Known
  <2> QED BY <2>2, <2>3
<1>6. /\ hook'[w].req = r /\ hook'[w].phone = p
      /\ hook'[w].step = "release" => Settled(r, p)'
  BY <1>1, <1>2, <1>5, GotoFacts DEF Settled
<1> QED BY <1>4, <1>6, HookGoal

\* One that has just found its slot.
LEMMA HookBegins ==
  ASSUME AdapterInv, PendingInv, AnswerInv, [Next]_vars, Calm',
         NEW w \in Webhooks, NEW p \in Phones, NEW intent \in {"approve", "deny"}, NEW code,
         Receive(w, p, intent, code), hook' # hook
  PROVE  HookKnown(w)'
<1>1. Calm
  BY CalmBefore DEF AnswerInv
<1>2. Held(p) /\ Busy(p)
  BY DEF Receive
<1>3. hook = [v \in Webhooks |-> hook[v]]
  BY DEF AdapterInv, TokenInv, TokenTypes
<1>4. PICK r : r = items[p].req
  OBVIOUS
<1>5. hook'[w].req = r /\ hook'[w].phone = p /\ hook'[w].step # "release"
  <2>1. hook' = [hook EXCEPT ![w] =
                     [step |-> IF intent = "approve" THEN "check" ELSE "call",
                      phone |-> p, req |-> items[p].req, intent |-> intent, code |-> code]]
    BY <1>2 DEF Receive
  <2>2. hook'[w] = [step |-> IF intent = "approve" THEN "check" ELSE "call",
                    phone |-> p, req |-> items[p].req, intent |-> intent, code |-> code]
    BY <1>3, <2>1
  <2> QED BY <1>4, <2>2
<1>6. KnownNext(r)
  <2>1. Known(r)
    BY <1>1, <1>2, <1>4 DEF AnswerInv, SlotsKnown
  <2> QED BY <2>1, StaysSettled
<1> QED BY <1>5, <1>6, HookGoal

LEMMA StepHooksKnown ==
  ASSUME AdapterInv, PendingInv, AnswerInv, [Next]_vars, Calm', NEW w \in Webhooks
  PROVE  HookKnown(w)'
<1> SUFFICES ASSUME hook'[w].step # "idle" PROVE HookKnown(w)'
  BY DEF HookKnown
<1>1. TokenTypes /\ NoHook.step = "idle"
  BY DEF AdapterInv, TokenInv, NoHook
<1>2. CASE hook'[w] = hook[w]
  BY <1>2, HookStays
<1>3. ASSUME NEW v \in Webhooks, Check(v) \/ Call(v) \/ FreeSlot(v) PROVE HookKnown(w)'
  <2>1. hook[v].step # "idle" /\ (Goto(v, "call") \/ Goto(v, "release") \/ Goto(v, "idle"))
    BY <1>3 DEF Check, Call, FreeSlot
  <2>2. CASE w = v
    <3>1. ~FreeSlot(v)
      BY <1>1, <2>2, GotoFacts DEF FreeSlot
    <3> QED BY <1>3, <2>2, <3>1, HookMoves
  <2>3. CASE w # v
    <3>1. hook'[w] = hook[w]
      BY <1>1, <2>1, <2>3, GotoFacts
    <3> QED BY <1>2, <3>1
  <2> QED BY <2>2, <2>3
<1>4. ASSUME NEW v \in Webhooks, NEW p \in Phones, NEW intent \in {"approve", "deny"},
             NEW code, Receive(v, p, intent, code)
      PROVE  HookKnown(w)'
  <2>1. CASE hook' # hook /\ w = v
    BY <1>4, <2>1, HookBegins
  <2>2. CASE hook' = hook \/ w # v
    <3>1. hook'[w] = hook[w]
      BY <1>4, <2>2 DEF Receive
    <3> QED BY <1>2, <3>1
  <2> QED BY <2>1, <2>2
<1>5. ASSUME Crash \/ Shutdown PROVE FALSE
  BY <1>1, <1>5 DEF Crash, Shutdown, Die
<1>6. hook' = hook => HookKnown(w)'
  BY <1>2
<1> QED
  BY <1>3, <1>4, <1>5, <1>6
     DEF Next, vars, Submit, DecidedElsewhere, TwilioAccepts, SessionEnds, TailLine,
         SkipRecipient, ClaimSlot, SendSucceeds, SendFails, Start, Clocks

LEMMA StepTexts ==
  ASSUME AdapterInv, PendingInv, AnswerInv, [Next]_vars, Calm'
  PROVE  TextsBound'
<1>1. Calm /\ TextsBound
  BY CalmBefore DEF AnswerInv
<1>2. ASSUME NEW m \in sms PROVE Answerable(m.req, m.phone, m.since)'
  <2>1. Answerable(m.req, m.phone, m.since) /\ Known(m.req) /\ m.phone \in Phones /\ m.since \in Nat
    BY <1>1 DEF TextsBound, AnswerInv, SmsKnown
  <2> QED BY <2>1, AnswerableKept
<1>3. PICK r, p, t : r = job.req /\ p = Head(job.todo) /\ t = job.since
  OBVIOUS
<1>4. job.sending # "no" => Answerable(r, p, t)'
  <2> SUFFICES ASSUME job.sending # "no" PROVE Answerable(r, p, t)'
    OBVIOUS
  <2>1. job # NoJob
    BY DEF NoJob
  <2>2. Answerable(r, p, t) /\ Known(r) /\ p \in Phones /\ t \in Nat
    BY <1>1, <1>3, <2>1, JobAt DEF TextsBound
  <2> QED BY <2>2, AnswerableKept
<1>5. ASSUME NEW m \in sms' PROVE Answerable(m.req, m.phone, m.since)'
  <2>1. CASE m \in sms
    BY <1>2, <2>1
  <2>2. CASE m \notin sms
    <3>1. TwilioAccepts
      BY <2>2 DEF Next, vars, twilioVars, Submit, DecidedElsewhere, SessionEnds, TailLine,
                  SkipRecipient, ClaimSlot, SendSucceeds, SendFails, Receive, Check, Call,
                  FreeSlot, Start, Crash, Shutdown, Die, Clocks
    <3>2. /\ job.sending # "no" /\ m.req = r /\ m.phone = p /\ m.since = t
      BY <1>3, <2>2, <3>1 DEF TwilioAccepts
    <3> QED BY <1>4, <3>2
  <2> QED BY <2>1, <2>2
<1>6. ASSUME job'.sending # "no" PROVE Answerable(job.req, Head(job.todo), job.since)'
  <2>1. NoJob.sending = "no"
    BY DEF NoJob
  <2>2. CASE job' = job
    <3>1. job'.req = r /\ Head(job'.todo) = p /\ job'.since = t /\ job.sending # "no"
      BY <1>3, <1>6, <2>2
    <3> QED BY <1>4, <3>1 DEF Answerable, Settled, Over, Bound, Held
  <2>3. CASE TwilioAccepts
    <3>1. job' = [job EXCEPT !.sending = "accepted"] /\ job.sending # "no"
      BY <2>3 DEF TwilioAccepts
    <3>2. job'.req = r /\ Head(job'.todo) = p /\ job'.since = t
      BY <1>3, <3>1 DEF AdapterInv, JobInv
    <3> QED BY <1>4, <3>1, <3>2 DEF Answerable, Settled, Over, Bound, Held
  <2>4. CASE ClaimSlot
    <3>1. job' = [job EXCEPT !.sending = "calling", !.since = now] /\ job # NoJob
      BY <2>4 DEF ClaimSlot
    <3>2. job'.req = r /\ Head(job'.todo) = p /\ job'.since = now /\ p \in Phones /\ now \in Nat
      BY <1>3, <3>1, NextJobType DEF AdapterInv, JobInv
    <3>3. items'[p] = [req |-> r, opened |-> now, parsed |-> FALSE] /\ items \in Maps
      BY <1>3, <2>4, <3>2, CalmBefore DEF ClaimSlot, OpenPending, Maps, AnswerInv
    <3>4. items'[p] \in Entries
      <4>1. r \in Requests
        BY <1>3, <3>1, JobAt DEF Known
      <4> QED BY <3>2, <3>3, <4>1 DEF Entries
    <3>5. items'[p] # Free /\ items'[p].req = r /\ items'[p].opened = now
      <4>1. items'[p] # Free
        BY <3>4, PendingAssumption, Zenon
      <4>2. items'[p].req = r /\ items'[p].opened = now
        BY <3>3
      <4> QED BY <4>1, <4>2
    <3>6. Bound(job.req, Head(job.todo), job.since)'
      BY <3>2, <3>5 DEF Bound, Held
    <3> QED BY <3>6 DEF Answerable
  <2>5. CASE TailLine \/ SkipRecipient \/ SendSucceeds \/ SendFails
    <3>1. job'.sending = "no"
      <4>1. CASE TailLine
        BY <2>1, <4>1 DEF TailLine, NoJob
      <4>2. CASE SkipRecipient \/ SendSucceeds \/ SendFails
        <5>1. job' = NextJob(Tail(job.todo))
          BY <4>2 DEF SkipRecipient, SendSucceeds, SendFails
        <5>2. job' = NoJob \/ job' = [job EXCEPT !.todo = Tail(job.todo), !.sending = "no", !.since = 0]
          BY <5>1 DEF NextJob
        <5> QED BY <2>1, <5>2 DEF AdapterInv, JobInv
      <4> QED BY <2>5, <4>1, <4>2
    <3> QED BY <1>6, <3>1
  <2>6. CASE job' = NoJob
    BY <1>6, <2>1, <2>6
  <2> QED
    BY <2>2, <2>3, <2>4, <2>5, <2>6
       DEF Next, vars, Submit, DecidedElsewhere, SessionEnds, Receive, Check, Call, FreeSlot,
           Start, Crash, Shutdown, Die, Clocks
<1> QED BY <1>5, <1>6 DEF TextsBound

\* A text about an undecided request can be answered until its slot's lifetime is
\* over, for any number of requests, phones and replies at once, with sends and
\* calls failing at any point, slots changing hands, and across restarts.  What
\* can take the slot away before is what TextIsAnswerable lists and nothing else
\* (OpenPending, Release, ReplayFromAudit).
THEOREM TextsAreAnswerable == Spec => []TextIsAnswerable
<1> DEFINE Inv == AdapterInv /\ PendingInv /\ AnswerInv
<1>1. Init => Inv
  <2> SUFFICES ASSUME Init PROVE AnswerInv
    BY AdapterInvInitial, PendingInitial DEF Init
  <2>1. items = NoSlots /\ audit = << >> /\ \A p \in Phones : ~Held(p)
    BY DEF Init, PendingInit, Held, NoSlots
  <2>2. \A w \in Webhooks : hook[w].step = "idle"
    BY NoHookFacts DEF Init
  <2>3. created = << >> /\ job = NoJob /\ sms = {} /\ job.sending = "no" /\ restarts = 0
    BY DEF Init, NoJob
  <2> QED BY <2>1, <2>2, <2>3 DEF AnswerInv, Fresh, CreatedKnown, JobKnown, SmsKnown, SlotsKnown,
                                  JobOwns, HookKnown, TextsBound
<1>2. Inv /\ [Next]_vars => Inv'
  <2> SUFFICES ASSUME AdapterInv, PendingInv, AnswerInv, [Next]_vars PROVE Inv'
    OBVIOUS
  <2>1. AdapterInv' /\ PendingInv'
    BY AdapterInvStep, StepSet, PendingStep
  <2>2. AnswerInv'
    BY StepFresh, StepCreatedKnown, StepJobKnown, StepSmsKnown, StepSlotsKnown, StepJobOwns,
       StepHooksKnown, StepTexts DEF AnswerInv
  <2> QED BY <2>1, <2>2
<1>3. Inv => TextIsAnswerable
  <2> SUFFICES ASSUME AdapterInv, PendingInv, AnswerInv, NEW m \in sms,
                      status[m.req] = "pending", now - m.since < PendingTTL,
                      <<m.req, m.phone>> \notin failed \cup stolen,
                      restarts = 0 \/ (lost = 0 /\ back = 0 /\ ahead = 0)
               PROVE  Held(m.phone) /\ items[m.phone].req = m.req
    BY DEF TextIsAnswerable
  <2>1. Answerable(m.req, m.phone, m.since) /\ ~Settled(m.req, m.phone)
    BY DEF AnswerInv, Calm, Quiet, TextsBound, Settled
  <2>2. ~Over(m.since)
    <3>1. m.since \in Nat /\ now \in Nat
      BY DEF AnswerInv, SmsKnown, AdapterInv, JobInv
    <3> QED BY <3>1, AdapterAssumption DEF Over
  <2> QED BY <2>1, <2>2 DEF Answerable, Bound
<1> HIDE DEF Inv
<1> QED BY <1>1, <1>2, <1>3, PTL DEF Spec
=============================================================================
