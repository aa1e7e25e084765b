------------------------------ MODULE LogProofs -----------------------------
(***************************************************************************)
(* More about Broker: what the daemon can tell from its log.  The theorems *)
(* rest on the invariant of BrokerProofs and hold for every value of the   *)
(* constants, with or without power loss.                                  *)
(***************************************************************************)
EXTENDS BrokerProofs

USE ConstantsAssumption DEF Statuses, EventTypes

-----------------------------------------------------------------------------
(* The steps that record an event, in one form *)

\* The line that Append builds for an event.
NewLine(t, r, a, exp, big, o) ==
  [type |-> t, req |-> r, by |-> a, expires |-> exp,
   checked |-> IF t = "request_approved" THEN now ELSE 0,
   id |-> hashes + 1, prev |-> lastHash, ok |-> o # "torn", big |-> big]

\* What Append can do to the file: nothing, add a line, or spoil the last one.
Added(line) ==
  /\ eol
  /\ Len(canon') = Len(canon) + 1
  /\ \A i \in 1..Len(canon) : canon'[i] = canon[i]
  /\ canon'[Len(canon) + 1] = line

Glued ==
  /\ ~eol
  /\ Len(canon) > 0 /\ Len(canon') = Len(canon)
  /\ \A i \in 1..Len(canon) : i < Len(canon) => canon'[i] = canon[i]
  /\ canon'[Len(canon)] = [canon[Len(canon)] EXCEPT !.ok = FALSE]

\* Append of a line, whatever its outcome.
Appended(line, o) ==
  /\ \/ o = "unwritten" /\ canon' = canon
     \/ o # "unwritten" /\ (Added(line) \/ Glued)
  /\ hashes' \in {hashes, hashes + 1} /\ (canon' # canon => hashes' = hashes + 1)
  /\ IF o = "nil"
     THEN /\ synced' = Len(canon') /\ hashes' = hashes + 1 /\ lastHash' = hashes + 1
          /\ accepted' = accepted \cup {hashes + 1} /\ interrupted' = interrupted
     ELSE /\ UNCHANGED <<synced, lastHash, accepted>>
          /\ interrupted' > 0

\* Apply, after an append that succeeded.
Applied(t, r, a, exp, o) ==
  /\ \A q \in Requests : q # r \/ o # "nil" => proj'[q] = proj[q]
  /\ o = "nil" =>
       /\ proj'[r].status = To(t)
       /\ proj'[r].owner = IF t = "request_created" THEN a ELSE proj[r].owner
       /\ proj'[r].expires = IF t = "request_created" THEN exp ELSE proj[r].expires

\* The same, by the projection's own operation.
Projected(t, r, a, exp, o) ==
  proj' = IF o = "nil" THEN Apply(proj, Event(t, r, a, exp)) ELSE proj

\* How the Execute handlers move when an event of type t is recorded for r.
Moved(t, r, o) ==
  \A q \in Requests :
     \/ exec'[q] = exec[q] /\ ~(q = r /\ o = "nil" /\ t = "execution_started")
     \/ /\ q = r /\ exec'[q] = "started"
        /\ o = "nil" /\ t = "execution_started"
     \/ /\ q = r /\ exec'[q] = "idle"
        /\ t \in {"execution_succeeded", "execution_failed"}

\* A step of a handler or of recovery.
RecordStep(t, r, a, exp, big, o) ==
  /\ phase \in {"recovering", "up"}
  /\ phase' = phase \/ (phase' = "down" /\ o # "nil")
  /\ proj[r].status \in From(t)
  /\ t = "request_approved" => ValidApprover(a, proj[r].owner) /\ now < proj[r].expires
  /\ Appended(NewLine(t, r, a, exp, big, o), o)
  /\ Applied(t, r, a, exp, o) /\ Projected(t, r, a, exp, o)
  /\ Moved(t, r, o)
  /\ UNCHANGED <<scratch, pos, chain, launches, now, crashes>>

\* Record in terms of the file and of the projection.
LEMMA RecordCases ==
  ASSUME TypeOK, TailInv,
         NEW t \in EventTypes, NEW r \in Requests, NEW a \in Identities,
         NEW exp \in Nat, NEW big \in BOOLEAN, NEW o \in Outcomes,
         proj[r].status \in From(t),
         Record(Event(t, r, a, exp), big, o)
  PROVE  /\ Appended(NewLine(t, r, a, exp, big, o), o)
         /\ Applied(t, r, a, exp, o)
<1> DEFINE e == Event(t, r, a, exp)
           line == NewLine(t, r, a, exp, big, o)
<1>1. /\ e.type = t /\ e.req = r /\ e.by = a /\ e.expires = exp
      /\ e.checked = IF t = "request_approved" THEN now ELSE 0
  BY DEF Event
<1>2. /\ LogAppend(e, big, o)
      /\ proj' = IF o = "nil" /\ CanApply(proj, e) THEN Apply(proj, e) ELSE proj
  BY DEF Record
<1>3. line = [type |-> e.type, req |-> e.req, by |-> e.by,
              expires |-> e.expires, checked |-> e.checked,
              id |-> hashes + 1, prev |-> lastHash,
              ok |-> o # "torn", big |-> big]
  BY <1>1 DEF NewLine
<1>4. line \in Lines
  BY DEF NewLine, Lines, TypeOK
<1> HIDE DEF e, line
<1>5. /\ interrupted' = IF o = "nil" THEN interrupted ELSE interrupted + 1
      /\ IF o = "unwritten"
         THEN UNCHANGED <<canon, eol, hashes>>
         ELSE canon' = Written(line) /\ hashes' = hashes + 1
      /\ IF o = "nil"
         THEN synced' = Len(Written(line)) /\ lastHash' = hashes + 1
              /\ accepted' = accepted \cup {hashes + 1}
         ELSE UNCHANGED <<synced, lastHash, accepted>>
  BY <1>2, <1>3 DEF LogAppend
<1>6. ASSUME o # "unwritten" PROVE Added(line) \/ Glued
  <2>1. canon' = Written(line) /\ Len(canon) \in Nat
    BY <1>5, <1>6, LenProperties DEF TypeOK
  <2>2. CASE eol
    BY <1>4, <2>1, <2>2, AppendProperties DEF Written, Added, TypeOK
  <2>3. CASE ~eol
    <3> DEFINE n == Len(canon)
               new == [canon[n] EXCEPT !.ok = FALSE]
    <3>1. n \in 1..Len(canon) /\ n > 0
      BY <2>1, <2>3 DEF TailInv, TypeOK
    <3>2. canon[n] \in Lines
      BY <3>1, ElementOfSeq DEF TypeOK
    <3>3. new \in Lines
      BY <3>2 DEF Lines
    <3>4. canon' = [canon EXCEPT ![n] = new]
      BY <2>1, <2>3 DEF Written
    <3>5. /\ Len([canon EXCEPT ![n] = new]) = n
          /\ \A i \in 1..n : [canon EXCEPT ![n] = new][i] = IF i = n THEN new ELSE canon[i]
      <4>1. canon \in Seq(Lines)
        BY DEF TypeOK
      <4> HIDE DEF new
      <4> QED BY <3>1, <3>3, <4>1, ExceptSeq
    <3> QED BY <2>3, <3>1, <3>4, <3>5 DEF Glued
  <2> QED BY <2>2, <2>3
<1>7. Appended(line, o)
  <2>1. interrupted \in Nat /\ hashes \in Nat
    BY DEF TypeOK
  <2> QED BY <1>5, <1>6, <2>1 DEF Appended
<1>8. Applied(t, r, a, exp, o)
  <2>1. CanApply(proj, e) /\ proj \in [Requests -> Snapshots]
    BY <1>1 DEF CanApply, TypeOK
  <2>2. o = "nil" => proj' = Apply(proj, e)
    BY <1>2, <2>1
  <2>3. /\ \A q \in Requests : q # r => Apply(proj, e)[q] = proj[q]
        /\ Apply(proj, e)[r].status = To(t)
        /\ Apply(proj, e)[r].owner = IF t = "request_created" THEN a ELSE proj[r].owner
        /\ Apply(proj, e)[r].expires = IF t = "request_created" THEN exp ELSE proj[r].expires
    BY <1>1, <2>1 DEF Apply
  <2> QED BY <1>2, <2>2, <2>3 DEF Applied
<1> QED BY <1>7, <1>8 DEF line

\* The handlers' guards, and what they leave alone, make Record such a step.
LEMMA RecordIsStep ==
  ASSUME IInv,
         NEW t \in EventTypes, NEW r \in Requests, NEW a \in Identities,
         NEW exp \in Nat, NEW big \in BOOLEAN, NEW o \in Outcomes,
         Record(Event(t, r, a, exp), big, o), proj[r].status \in From(t),
         t = "request_approved" => ValidApprover(a, proj[r].owner) /\ now < proj[r].expires,
         Moved(t, r, o),
         phase \in {"recovering", "up"}, phase' = phase \/ (phase' = "down" /\ o # "nil"),
         UNCHANGED <<scratch, pos, chain, launches, now, crashes>>
  PROVE  RecordStep(t, r, a, exp, big, o)
<1>1. TypeOK /\ TailInv
  BY DEF IInv
<1>2. Appended(NewLine(t, r, a, exp, big, o), o) /\ Applied(t, r, a, exp, o)
  BY <1>1, RecordCases
<1>3. Projected(t, r, a, exp, o)
  BY DEF Projected, Record, CanApply, Event
<1> QED BY <1>2, <1>3 DEF RecordStep

Recorded(r, o) ==
  \E t \in EventTypes, a \in Identities, exp \in Nat, big \in BOOLEAN :
     RecordStep(t, r, a, exp, big, o)

\* Every handler of the two sockets, and recovery, is such a step.
LEMMA HandlerSteps ==
  ASSUME IInv, NEW r \in Requests, NEW o \in Outcomes, Handler(r, o) \/ Recover(r, o)
  PROVE  Recorded(r, o)
<1>1. /\ TypeOK /\ TailInv /\ ExecInv /\ now \in Nat /\ now + TTL \in Nat /\ 0 \in Nat
      /\ Daemon \in Identities /\ Sizes \subseteq BOOLEAN /\ FALSE \in BOOLEAN
      /\ exec \in [Requests -> ExecStates] /\ proj[r].expires \in Nat
  BY DEF IInv, TypeOK, Identities, Snapshots
<1>3. ASSUME Up PROVE /\ phase \in {"recovering", "up"} /\ phase' = phase
                      /\ UNCHANGED <<scratch, pos, chain, launches, now, crashes>>
  BY <1>3 DEF Up
<1>4. ASSUME Up, UNCHANGED exec, Expire(r, o) PROVE Recorded(r, o)
  <2>0. PICK t \in EventTypes : t = "request_expired"
    OBVIOUS
  <2>1. /\ Record(Event(t, r, Daemon, 0), FALSE, o)
        /\ proj[r].status \in From(t) /\ t # "request_approved" /\ t # "execution_started"
    BY <1>4, <2>0 DEF Expire, Overdue, From
  <2>2. Moved(t, r, o)
    BY <1>4, <2>1 DEF Moved
  <2>3. RecordStep(t, r, Daemon, 0, FALSE, o)
    BY <1>1, <1>3, <1>4, <2>1, <2>2, RecordIsStep
  <2> QED BY <1>1, <2>3 DEF Recorded
<1>5. ASSUME NEW user \in Users, NEW big \in Sizes, Submit(r, user, big, o) PROVE Recorded(r, o)
  <2>0. PICK t \in EventTypes : t = "request_created"
    OBVIOUS
  <2>1. /\ Up /\ UNCHANGED exec
        /\ Record(Event(t, r, user, now + TTL), big, o)
        /\ proj[r].status \in From(t) /\ t # "request_approved" /\ t # "execution_started"
    BY <1>5, <2>0 DEF Submit, From
  <2>2. user \in Identities /\ big \in BOOLEAN /\ Moved(t, r, o)
    BY <1>1, <2>1 DEF Identities, Moved
  <2>3. RecordStep(t, r, user, now + TTL, big, o)
    BY <1>1, <1>3, <2>1, <2>2, RecordIsStep
  <2> QED BY <1>1, <2>2, <2>3 DEF Recorded
<1>6. CASE Status(r, o)
  BY <1>4, <1>6 DEF Status
<1>7. ASSUME NEW a \in Actors \cup {NoOne}, NEW t \in {"request_approved", "request_denied"},
             NEW big \in Sizes, Review(r, a, t, big, o)
      PROVE  Recorded(r, o)
  <2>1. CASE Expire(r, o)
    BY <1>4, <1>7, <2>1 DEF Review
  <2>2. CASE ~Expire(r, o)
    <3>1. /\ Up /\ UNCHANGED exec /\ Record(Event(t, r, a, 0), big, o)
          /\ proj[r].status = "pending" /\ ~Overdue(r) /\ ValidApprover(a, proj[r].owner)
      BY <1>7, <2>2 DEF Review
    <3>2. /\ a \in Identities /\ t \in EventTypes /\ big \in BOOLEAN
          /\ now < proj[r].expires
      BY <1>1, <3>1 DEF Identities, Overdue
    <3>3. proj[r].status \in From(t) /\ Moved(t, r, o)
      BY <3>1 DEF From, Moved
    <3>4. RecordStep(t, r, a, 0, big, o)
      BY <1>1, <1>3, <3>1, <3>2, <3>3, RecordIsStep
    <3> QED BY <1>1, <3>2, <3>4 DEF Recorded
  <2> QED BY <2>1, <2>2
<1>8. CASE ExecuteBegin(r, o)
  <2>1. CASE Expire(r, o) /\ UNCHANGED exec
    BY <1>4, <1>8, <2>1 DEF ExecuteBegin
  <2>2. CASE ~(Expire(r, o) /\ UNCHANGED exec)
    <3>0. PICK t \in EventTypes : t = "execution_started"
      OBVIOUS
    <3>1. /\ Up /\ proj[r].status \in From(t) /\ t # "request_approved"
          /\ Record(Event(t, r, Daemon, 0), FALSE, o)
          /\ exec' = IF o = "nil" THEN [exec EXCEPT ![r] = "started"] ELSE exec
      BY <1>8, <2>2, <3>0 DEF ExecuteBegin, From
    <3>2. Moved(t, r, o)
      BY <1>1, <3>0, <3>1 DEF Moved
    <3>3. RecordStep(t, r, Daemon, 0, FALSE, o)
      BY <1>1, <1>3, <3>1, <3>2, RecordIsStep
    <3> QED BY <1>1, <3>3 DEF Recorded
  <2> QED BY <2>1, <2>2
<1>9. ASSUME NEW t \in {"execution_succeeded", "execution_failed"}, NEW big \in Sizes,
             ExecuteEnd(r, t, big, o)
      PROVE  Recorded(r, o)
  <2>1. /\ Up /\ Record(Event(t, r, Daemon, 0), big, o) /\ exec[r] # "idle"
        /\ exec' = [exec EXCEPT ![r] = "idle"]
    BY <1>9 DEF ExecuteEnd
  <2>2. t \in EventTypes /\ big \in BOOLEAN /\ t # "request_approved"
    BY <1>1
  <2>3. proj[r].status \in From(t)
    BY <1>1, <2>1 DEF ExecInv, From
  <2>4. Moved(t, r, o)
    BY <1>1, <2>1 DEF Moved
  <2>5. RecordStep(t, r, Daemon, 0, big, o)
    BY <1>1, <1>3, <2>1, <2>2, <2>3, <2>4, RecordIsStep
  <2> QED BY <1>1, <2>2, <2>5 DEF Recorded
<1>10. CASE Recover(r, o)
  <2>0. PICK t \in EventTypes : t = "recovery_marked_failed"
    OBVIOUS
  <2>1. /\ phase \in {"recovering", "up"} /\ Record(Event(t, r, Daemon, 0), FALSE, o)
        /\ phase' = phase \/ (phase' = "down" /\ o # "nil")
        /\ proj[r].status \in From(t) /\ t # "request_approved"
        /\ UNCHANGED <<scratch, pos, chain, launches, now, crashes>>
    BY <1>10, <2>0 DEF Recover, From
  <2>2. Moved(t, r, o)
    BY <1>10, <2>0 DEF Recover, Moved
  <2>3. RecordStep(t, r, Daemon, 0, FALSE, o)
    BY <1>1, <2>1, <2>2, RecordIsStep
  <2> QED BY <1>1, <2>3 DEF Recorded
<1>11. ASSUME NEW a \in Actors \cup {NoOne}, NEW big \in Sizes,
              Approve(r, a, big, o) \/ Deny(r, a, big, o)
       PROVE  Recorded(r, o)
  BY <1>7, <1>11 DEF Approve, Deny
<1> QED BY <1>5, <1>6, <1>8, <1>9, <1>10, <1>11 DEF Handler

-----------------------------------------------------------------------------
(* Files: c and d stand for the file before and after a step *)

\* The first n lines of c and d carry the same events (they may differ in
\* whether they still decode).
SameEvents(c, d, n) ==
  \A i \in 1..n : /\ d[i].type = c[i].type /\ d[i].req = c[i].req
                  /\ d[i].by = c[i].by /\ d[i].expires = c[i].expires /\ d[i].checked = c[i].checked
                  /\ d[i].id = c[i].id /\ d[i].prev = c[i].prev

\* Append keeps the events of the file, and either adds its line or spoils the
\* last one; an append that succeeds over an unterminated tail garbles the log.
LEMMA AppendedFacts ==
  ASSUME TypeOK, TypeOK', NEW line, NEW o \in Outcomes, Appended(line, o)
  PROVE  /\ Len(canon) \in Nat /\ Len(canon') \in Nat
         /\ SameEvents(canon, canon', Len(canon))
         /\ \A i \in 1..Len(canon) : canon'[i].ok => canon[i].ok
         /\ synced \in 0..Len(canon) /\ synced <= synced'
         /\ \/ Len(canon') = Len(canon)
            \/ Len(canon') = Len(canon) + 1 /\ canon'[Len(canon) + 1] = line
         /\ o = "nil" => Garbled' \/ Added(line)
<1>1. /\ Len(canon) \in Nat /\ Len(canon') \in Nat
      /\ synced \in 0..Len(canon) /\ synced' \in 0..Len(canon')
  BY LenProperties DEF TypeOK
<1>2. \A i \in 1..Len(canon) : canon[i] \in Lines
  BY ElementOfSeq DEF TypeOK
<1>3. CASE o = "unwritten" /\ canon' = canon
  BY <1>1, <1>3 DEF SameEvents, Appended
<1>4. CASE Added(line)
  BY <1>1, <1>4 DEF Added, SameEvents, Appended
<1>5. CASE Glued
  <2> DEFINE n == Len(canon)
  <2>1. /\ n \in 1..Len(canon) /\ Len(canon') = n
        /\ \A i \in 1..n : i < n => canon'[i] = canon[i]
        /\ canon'[n] = [canon[n] EXCEPT !.ok = FALSE]
    BY <1>1, <1>5 DEF Glued
  <2>2. /\ canon'[n].type = canon[n].type /\ canon'[n].req = canon[n].req
        /\ canon'[n].by = canon[n].by /\ canon'[n].expires = canon[n].expires
        /\ canon'[n].checked = canon[n].checked
        /\ canon'[n].id = canon[n].id /\ canon'[n].prev = canon[n].prev
        /\ ~canon'[n].ok
    BY <1>2, <2>1 DEF Lines
  <2>3. \A i \in 1..n : i < n \/ i = n
    BY <1>1
  <2>4. SameEvents(canon, canon', n) /\ \A i \in 1..n : canon'[i].ok => canon[i].ok
    BY <2>1, <2>2, <2>3 DEF SameEvents
  <2>5. synced <= synced' /\ (o = "nil" => synced' = Len(canon'))
    BY <1>1, <2>1 DEF Appended
  <2>6. o = "nil" => n \in 1..synced'
    BY <2>1, <2>5
  <2>7. o = "nil" => Garbled'
    BY <2>2, <2>6 DEF Garbled
  <2> QED BY <1>1, <2>1, <2>4, <2>5, <2>7
<1> QED BY <1>3, <1>4, <1>5 DEF Appended

\* A crash leaves a prefix of the file, with all that an fsync covered.
LEMMA CrashKeeps ==
  ASSUME IInv, IInv', Crash
  PROVE  /\ Len(canon) \in Nat /\ Len(canon') \in Nat /\ Len(canon') <= Len(canon)
         /\ SameEvents(canon, canon', Len(canon'))
         /\ \A i \in 1..Len(canon') : canon'[i] = canon[i]
         /\ synced' = synced /\ synced \in 0..Len(canon')
         /\ UNCHANGED <<lastHash, hashes, accepted, interrupted, launches, proj>>
         /\ phase' = "down" /\ scratch' = New /\ pos' = 0 /\ chain' = 0
         /\ exec' = [r \in Requests |-> "idle"]
<1>1. LogTypeOK /\ LogTypeOK' /\ TailInv
  BY DEF IInv, TypeOK, LogTypeOK
<1>2. /\ LogCrash /\ phase' = "down" /\ scratch' = New /\ pos' = 0 /\ chain' = 0
      /\ exec' = [r \in Requests |-> "idle"] /\ UNCHANGED <<proj, launches>>
  BY DEF Crash, EndOfReplay
<1>3. synced' = synced /\ \A i \in 1..Len(canon') : canon'[i] = canon[i]
  BY <1>1, <1>2, CrashFacts
<1>4. Len(canon) \in Nat /\ Len(canon') \in Nat /\ synced \in 0..Len(canon')
  BY <1>1, <1>3, LenProperties DEF LogTypeOK
<1>5. PICK n \in (IF PowerLoss THEN synced ELSE Len(canon))..Len(canon) :
         /\ canon' = SubSeq(canon, 1, n)
         /\ UNCHANGED <<lastHash, hashes, accepted, interrupted>>
  BY <1>2 DEF LogCrash
<1>6. Len(canon') <= Len(canon)
  <2>1. n \in Nat /\ n <= Len(canon) /\ canon \in Seq(Lines)
    BY <1>1, <1>4 DEF LogTypeOK
  <2> QED BY <1>4, <1>5, <2>1, SubSeqProperties
<1> QED BY <1>2, <1>3, <1>4, <1>5, <1>6 DEF SameEvents

\* The steps by what they do to the file.
LEMMA FileSteps ==
  ASSUME IInv, [Next]_vars
  PROVE  \/ \E r \in Requests, o \in Outcomes : Recorded(r, o)
         \/ Crash
         \/ UNCHANGED <<canon, eol, synced, hashes, interrupted>>
<1>1. ASSUME NEW r \in Requests, NEW o \in Outcomes, Handler(r, o) \/ Recover(r, o)
      PROVE  Recorded(r, o)
  BY <1>1, HandlerSteps
<1> QED BY <1>1 DEF Next, vars, logVars, Launch, Start, ReplayLine, Refuse, Adopt, Serve, Clock

-----------------------------------------------------------------------------
(***************************************************************************)
(* The invariant behind LaunchAuthorised.  Unless a line under an fsync is *)
(* garbled, every approval in the file follows a creation it is valid for, *)
(* and the projection, the one served and the one being replayed, shows    *)
(* only requests and approvals that have a line.                           *)
(***************************************************************************)
LineIs(c, i, t, r) == c[i].type = t /\ c[i].req = r

\* Line i creates the request that line j approves, checked in time, for another.
Backs(c, i, j) ==
  /\ i < j
  /\ LineIs(c, i, "request_created", c[j].req)
  /\ ValidApprover(c[j].by, c[i].by)
  /\ c[j].checked < c[i].expires

ApprovalsBacked(c) ==
  \A j \in 1..Len(c) : c[j].type = "request_approved" =>
     \E i \in 1..Len(c) : Backs(c, i, j)

\* The first n lines have what projection p knows of a request's creation and
\* approval.
Shown(c, p, n) ==
  \A r \in Requests :
     /\ p[r].status # "absent" =>
          \E i \in 1..n : /\ LineIs(c, i, "request_created", r)
                          /\ c[i].by = p[r].owner
                          /\ c[i].expires = p[r].expires
     /\ p[r].status = "approved" => \E j \in 1..n : LineIs(c, j, "request_approved", r)

\* The first n lines authorise a launch of r.
Authorised(c, r, n) ==
  \E i, j, k \in 1..n :
     /\ LineIs(c, j, "request_approved", r) /\ Backs(c, i, j)
     /\ j < k /\ LineIs(c, k, "execution_started", r)

AuthInv ==
  \/ Garbled
  \/ /\ ApprovalsBacked(canon)
     /\ Shown(canon, scratch, pos)
     /\ phase \in {"recovering", "up"} => Shown(canon, proj, Len(canon))
     /\ \A r \in Requests : launches[r] > 0 \/ exec[r] # "idle" => Authorised(canon, r, synced)

\* What a file shows it still shows when it has grown.
LEMMA ShownStays ==
  ASSUME NEW c, NEW d, NEW p, NEW n \in Nat, NEW m \in Nat, n <= m,
         SameEvents(c, d, n), Shown(c, p, n)
  PROVE  Shown(d, p, m)
<1>1. \A i \in 1..n : i \in 1..m
  OBVIOUS
<1>2. ASSUME NEW r \in Requests, p[r].status # "absent"
      PROVE  \E i \in 1..m : /\ LineIs(d, i, "request_created", r)
                             /\ d[i].by = p[r].owner
                             /\ d[i].expires = p[r].expires
  <2>1. PICK i \in 1..n : /\ LineIs(c, i, "request_created", r)
                          /\ c[i].by = p[r].owner
                          /\ c[i].expires = p[r].expires
    BY <1>2 DEF Shown
  <2> QED BY <1>1, <2>1 DEF SameEvents, LineIs
<1>3. ASSUME NEW r \in Requests, p[r].status = "approved"
      PROVE  \E j \in 1..m : LineIs(d, j, "request_approved", r)
  <2>1. PICK j \in 1..n : LineIs(c, j, "request_approved", r)
    BY <1>3 DEF Shown
  <2> QED BY <1>1, <2>1 DEF SameEvents, LineIs
<1> QED BY <1>2, <1>3 DEF Shown

\* And the lines that authorise a launch stay in it.
LEMMA AuthorisedStays ==
  ASSUME NEW c, NEW d, NEW r, NEW n \in Nat, NEW m \in Nat, n <= m,
         SameEvents(c, d, n), Authorised(c, r, n)
  PROVE  Authorised(d, r, m)
<1>1. PICK i \in 1..n, j \in 1..n, k \in 1..n :
         /\ LineIs(c, j, "request_approved", r) /\ Backs(c, i, j)
         /\ j < k /\ LineIs(c, k, "execution_started", r)
  BY DEF Authorised
<1>2. i \in 1..m /\ j \in 1..m /\ k \in 1..m
  OBVIOUS
<1>3. /\ LineIs(d, j, "request_approved", r) /\ Backs(d, i, j)
      /\ LineIs(d, k, "execution_started", r)
  BY <1>1 DEF SameEvents, LineIs, Backs
<1> QED BY <1>1, <1>2, <1>3 DEF Authorised

\* A garbled log stays garbled: no append repairs a line, no crash loses it.
LEMMA GarbledStays ==
  ASSUME IInv, IInv', Garbled, [Next]_vars
  PROVE  Garbled'
<1>1. PICK i \in 1..synced : ~canon[i].ok
  BY DEF Garbled
<1>2. TypeOK /\ TypeOK'
  BY DEF IInv
<1>2a. /\ synced \in Nat /\ synced' \in Nat /\ synced <= Len(canon) /\ Len(canon) \in Nat
  BY <1>2, LenProperties DEF TypeOK
<1>3. ASSUME NEW r \in Requests, NEW o \in Outcomes, Recorded(r, o) PROVE Garbled'
  <2>1. PICK t \in EventTypes, a \in Identities, exp \in Nat, big \in BOOLEAN :
           Appended(NewLine(t, r, a, exp, big, o), o)
    BY <1>3 DEF Recorded, RecordStep
  <2>2. /\ synced <= synced'
        /\ \A k \in 1..Len(canon) : canon'[k].ok => canon[k].ok
    BY <1>2, <2>1, AppendedFacts
  <2>3. i \in 1..synced' /\ i \in 1..Len(canon)
    BY <1>2a, <2>2
  <2> QED BY <1>1, <2>2, <2>3 DEF Garbled
<1>4. CASE Crash
  <2>1. /\ synced' = synced /\ synced <= Len(canon') /\ Len(canon') \in Nat
        /\ \A k \in 1..Len(canon') : canon'[k] = canon[k]
    BY <1>4, CrashKeeps
  <2>2. i \in 1..synced' /\ i \in 1..Len(canon')
    BY <1>2a, <2>1
  <2> QED BY <1>1, <2>1, <2>2 DEF Garbled
<1>5. CASE UNCHANGED <<canon, eol, synced, hashes, interrupted>>
  BY <1>1, <1>5 DEF Garbled
<1> QED BY <1>3, <1>4, <1>5, FileSteps

\* What the events t can be that lead to a status, and from where.
LEMMA Transitions ==
  ASSUME NEW t \in EventTypes
  PROVE  /\ To(t) # "absent"
         /\ To(t) = "approved" <=> t = "request_approved"
         /\ To(t) = "executing" <=> t = "execution_started"
         /\ "absent" \in From(t) <=> t = "request_created"
         /\ t = "execution_started" => From(t) = {"approved"}
         /\ t = "request_approved" => From(t) = {"pending"}
BY DEF To, From

\* A step that records an event keeps the invariant.
LEMMA RecordAuth ==
  ASSUME IInv, IInv', AuthInv, ~Garbled, ~Garbled',
         NEW t \in EventTypes, NEW r \in Requests, NEW a \in Identities,
         NEW exp \in Nat, NEW big \in BOOLEAN, NEW o \in Outcomes,
         RecordStep(t, r, a, exp, big, o)
  PROVE  AuthInv'
<1> DEFINE line == NewLine(t, r, a, exp, big, o)
           n == Len(canon)
<1>1. /\ phase \in {"recovering", "up"}
      /\ phase' \in {"recovering", "up"} \/ o # "nil"
      /\ proj[r].status \in From(t)
      /\ t = "request_approved" => ValidApprover(a, proj[r].owner) /\ now < proj[r].expires
      /\ Appended(line, o) /\ Applied(t, r, a, exp, o) /\ Moved(t, r, o)
      /\ UNCHANGED <<scratch, pos, launches>>
  BY DEF RecordStep
<1>2. /\ TypeOK /\ TypeOK' /\ ReplayInv
      /\ ApprovalsBacked(canon) /\ Shown(canon, scratch, pos) /\ Shown(canon, proj, n)
      /\ \A q \in Requests : launches[q] > 0 \/ exec[q] # "idle" => Authorised(canon, q, synced)
  BY <1>1 DEF IInv, AuthInv
<1>3. /\ line.type = t /\ line.req = r /\ line.by = a /\ line.expires = exp
      /\ t = "request_approved" => line.checked = now
  BY DEF NewLine
<1> HIDE DEF line
<1>4. /\ n \in Nat /\ Len(canon') \in Nat
      /\ SameEvents(canon, canon', n)
      /\ synced \in 0..n /\ synced <= synced'
      /\ \/ Len(canon') = n
         \/ Len(canon') = n + 1 /\ canon'[n + 1] = line
      /\ o = "nil" => Added(line)
  BY <1>1, <1>2, AppendedFacts
<1>5. /\ n <= Len(canon') /\ pos \in Nat /\ pos <= n /\ synced' \in Nat /\ synced \in Nat
      /\ pos <= Len(canon')
  <2>1. synced' \in 0..Len(canon') /\ pos \in Nat
    BY <1>2 DEF TypeOK
  <2>2. pos <= n
    BY <1>2 DEF ReplayInv
  <2> QED BY <1>4, <2>1, <2>2
<1>6. o = "nil" => /\ Len(canon') = n + 1 /\ canon'[n + 1] = line
                   /\ synced' = n + 1 /\ n + 1 \in 1..Len(canon')
  BY <1>1, <1>4 DEF Added, Appended
<1>7. SameEvents(canon, canon', pos) /\ SameEvents(canon, canon', synced)
  BY <1>4, <1>5 DEF SameEvents
<1>8. ApprovalsBacked(canon')
  <2> SUFFICES ASSUME NEW j \in 1..Len(canon'), canon'[j].type = "request_approved"
               PROVE  \E i \in 1..Len(canon') : Backs(canon', i, j)
    BY DEF ApprovalsBacked
  <2>1. CASE j <= n
    <3>1. j \in 1..n /\ canon[j].type = "request_approved"
      BY <1>4, <2>1 DEF SameEvents
    <3>2. PICK i \in 1..n : Backs(canon, i, j)
      BY <1>2, <3>1 DEF ApprovalsBacked
    <3>3. i \in 1..Len(canon') /\ Backs(canon', i, j)
      BY <1>4, <1>5, <3>1, <3>2 DEF SameEvents, Backs, LineIs
    <3> QED BY <3>3
  <2>2. CASE j > n
    <3>1. j = n + 1 /\ canon'[j] = line /\ t = "request_approved"
      BY <1>3, <1>4, <2>2
    <3>2. proj[r].status # "absent" /\ ValidApprover(a, proj[r].owner) /\ now < proj[r].expires
      BY <1>1, <3>1, Transitions
    <3>3. PICK i \in 1..n : /\ LineIs(canon, i, "request_created", r)
                            /\ canon[i].by = proj[r].owner
                            /\ canon[i].expires = proj[r].expires
      BY <1>2, <3>2 DEF Shown
    <3>4. i \in 1..Len(canon') /\ i < j
      BY <1>4, <1>5, <3>1
    <3>5. /\ canon'[i].type = "request_created" /\ canon'[i].req = r
          /\ canon'[i].by = proj[r].owner /\ canon'[i].expires = proj[r].expires
      BY <1>4, <3>3 DEF SameEvents, LineIs
    <3>6. Backs(canon', i, j)
      BY <1>3, <3>1, <3>2, <3>4, <3>5 DEF Backs, LineIs
    <3> QED BY <3>4, <3>6
  <2> QED BY <1>4, <2>1, <2>2
<1>9. Shown(canon', scratch', pos')
  BY <1>1, <1>2, <1>5, <1>7, ShownStays
<1>10. ASSUME phase' \in {"recovering", "up"} PROVE Shown(canon', proj', Len(canon'))
  <2>1. Shown(canon', proj, Len(canon'))
    BY <1>2, <1>4, <1>5, ShownStays
  <2>2. ASSUME NEW q \in Requests, proj'[q] = proj[q]
        PROVE  /\ proj'[q].status # "absent" =>
                    \E i \in 1..Len(canon') : /\ LineIs(canon', i, "request_created", q)
                                              /\ canon'[i].by = proj'[q].owner
                                              /\ canon'[i].expires = proj'[q].expires
               /\ proj'[q].status = "approved" =>
                    \E j \in 1..Len(canon') : LineIs(canon', j, "request_approved", q)
    BY <2>1, <2>2 DEF Shown
  <2>3. ASSUME o = "nil"
        PROVE  \E i \in 1..Len(canon') : /\ LineIs(canon', i, "request_created", r)
                                         /\ canon'[i].by = proj'[r].owner
                                         /\ canon'[i].expires = proj'[r].expires
    <3>1. CASE t = "request_created"
      <4>1. proj'[r].owner = a /\ proj'[r].expires = exp
        BY <1>1, <2>3, <3>1 DEF Applied
      <4> QED BY <1>3, <1>6, <2>3, <3>1, <4>1 DEF LineIs
    <3>2. CASE t # "request_created"
      <4>1. proj'[r].owner = proj[r].owner /\ proj'[r].expires = proj[r].expires
        BY <1>1, <2>3, <3>2 DEF Applied
      <4>2. proj[r].status # "absent"
        BY <1>1, <3>2, Transitions
      <4> QED BY <2>1, <4>1, <4>2 DEF Shown
    <3> QED BY <3>1, <3>2
  <2>4. ASSUME o = "nil", proj'[r].status = "approved"
        PROVE  \E j \in 1..Len(canon') : LineIs(canon', j, "request_approved", r)
    <3>1. t = "request_approved"
      BY <1>1, <2>4, Transitions DEF Applied
    <3> QED BY <1>3, <1>6, <2>4, <3>1 DEF LineIs
  <2>5. \A q \in Requests : proj'[q] = proj[q] \/ (q = r /\ o = "nil")
    BY <1>1 DEF Applied
  <2> QED BY <2>2, <2>3, <2>4, <2>5 DEF Shown
<1>11. ASSUME NEW q \in Requests, launches'[q] > 0 \/ exec'[q] # "idle"
       PROVE  Authorised(canon', q, synced')
  <2>1. CASE launches[q] > 0 \/ exec[q] # "idle"
    <3>1. Authorised(canon, q, synced)
      BY <1>2, <2>1
    <3> QED BY <1>4, <1>5, <1>7, <3>1, AuthorisedStays
  <2>2. CASE ~(launches[q] > 0 \/ exec[q] # "idle")
    <3>1. q = r /\ o = "nil" /\ t = "execution_started"
      BY <1>1, <1>11, <2>2 DEF Moved
    <3>2. proj[r].status = "approved"
      BY <1>1, <3>1, Transitions
    <3>3. PICK j \in 1..n : LineIs(canon, j, "request_approved", r)
      BY <1>2, <3>2 DEF Shown
    <3>4. PICK i \in 1..n : Backs(canon, i, j)
      BY <1>2, <3>3 DEF ApprovalsBacked, LineIs
    <3>5. LineIs(canon', j, "request_approved", r) /\ Backs(canon', i, j)
      BY <1>4, <3>3, <3>4 DEF SameEvents, LineIs, Backs
    <3>6. LineIs(canon', n + 1, "execution_started", r) /\ j < n + 1
      BY <1>3, <1>4, <1>6, <3>1 DEF LineIs
    <3>7. i \in 1..synced' /\ j \in 1..synced' /\ n + 1 \in 1..synced'
      BY <1>4, <1>6, <3>1
    <3> QED BY <3>1, <3>5, <3>6, <3>7 DEF Authorised
  <2> QED BY <2>1, <2>2
<1> QED BY <1>8, <1>9, <1>10, <1>11 DEF AuthInv

\* Every other step of the daemon keeps it too.
LEMMA StepAuth ==
  ASSUME IInv, IInv', AuthInv, [Next]_vars
  PROVE  AuthInv'
<1>1. CASE Garbled
  BY <1>1, GarbledStays DEF AuthInv
<1>2. CASE Garbled'
  BY <1>2 DEF AuthInv
<1> SUFFICES ASSUME ~Garbled, ~Garbled' PROVE AuthInv'
  BY <1>1, <1>2
<1>3. /\ TypeOK /\ TypeOK' /\ ReplayInv /\ ReplayInv' /\ ExecInv
      /\ ApprovalsBacked(canon) /\ Shown(canon, scratch, pos)
      /\ phase \in {"recovering", "up"} => Shown(canon, proj, Len(canon))
      /\ \A q \in Requests : launches[q] > 0 \/ exec[q] # "idle" => Authorised(canon, q, synced)
  BY DEF IInv, AuthInv
<1>4. ASSUME NEW c, NEW n PROVE Shown(c, New, n)
  BY DEF Shown, New
<1>5. ASSUME NEW r \in Requests, NEW o \in Outcomes, Handler(r, o) \/ Recover(r, o)
      PROVE  AuthInv'
  <2>1. Recorded(r, o)
    BY <1>5, HandlerSteps
  <2> QED BY <2>1, RecordAuth DEF Recorded
<1>6. ASSUME NEW r \in Requests, Launch(r) PROVE AuthInv'
  <2>1. /\ UNCHANGED <<canon, synced, phase, proj, scratch, pos>> /\ exec[r] # "idle"
        /\ \A q \in Requests \ {r} : launches'[q] = launches[q] /\ exec'[q] = exec[q]
    BY <1>3, <1>6 DEF Launch, logVars, TypeOK
  <2>2. ASSUME NEW q \in Requests, launches'[q] > 0 \/ exec'[q] # "idle"
        PROVE  Authorised(canon', q, synced')
    BY <1>3, <2>1, <2>2
  <2> QED BY <1>3, <2>1, <2>2 DEF AuthInv
<1>7. CASE UNCHANGED <<canon, synced, proj, scratch, pos, launches, exec>>
           /\ (phase' \in {"recovering", "up"} => phase \in {"recovering", "up"})
  BY <1>3, <1>7 DEF AuthInv
<1>8. CASE ReplayLine
  <2> DEFINE line == canon[pos + 1]
  <2>1. /\ phase' = "replaying" /\ pos < Len(canon)
        /\ CanApply(scratch, line) /\ scratch' = Apply(scratch, line) /\ pos' = pos + 1
        /\ UNCHANGED <<canon, synced, proj, launches, exec>>
    BY <1>8 DEF ReplayLine, logVars
  <2>2. pos \in Nat /\ Len(canon) \in Nat /\ pos + 1 \in 1..Len(canon) /\ line \in Lines
    <3>1. canon \in Seq(Lines) /\ pos \in Nat
      BY <1>3 DEF TypeOK
    <3>2. Len(canon) \in Nat
      BY <3>1, LenProperties
    <3>3. pos + 1 \in 1..Len(canon)
      BY <2>1, <3>1, <3>2
    <3> QED BY <3>1, <3>2, <3>3, ElementOfSeq
  <2>3. /\ line.req \in Requests /\ line.type \in EventTypes
        /\ scratch \in [Requests -> Snapshots] /\ scratch[line.req].status \in From(line.type)
    BY <1>3, <2>1, <2>2 DEF Lines, TypeOK, CanApply
  <2>4. LineIs(canon, pos + 1, line.type, line.req) /\ pos + 1 \in 1..(pos + 1)
    BY <2>2 DEF LineIs
  <2>4a. canon[pos + 1].by = line.by /\ canon[pos + 1].expires = line.expires
    OBVIOUS
  <2> HIDE DEF line
  <2>5. /\ \A q \in Requests \ {line.req} : scratch'[q] = scratch[q]
        /\ scratch'[line.req].status = To(line.type)
        /\ scratch'[line.req].owner =
             IF line.type = "request_created" THEN line.by ELSE scratch[line.req].owner
        /\ scratch'[line.req].expires =
             IF line.type = "request_created" THEN line.expires ELSE scratch[line.req].expires
    BY <2>1, <2>3 DEF Apply
  <2>6. Shown(canon, scratch, pos + 1)
    <3>1. SameEvents(canon, canon, pos)
      BY DEF SameEvents
    <3> QED BY <1>3, <2>2, <3>1, ShownStays
  <2>7. \E i \in 1..(pos + 1) : /\ LineIs(canon, i, "request_created", line.req)
                                /\ canon[i].by = scratch'[line.req].owner
                                /\ canon[i].expires = scratch'[line.req].expires
    <3>1. CASE line.type = "request_created"
      BY <2>4, <2>4a, <2>5, <3>1
    <3>2. CASE line.type # "request_created"
      <4>1. scratch[line.req].status # "absent"
        BY <2>3, <3>2, Transitions
      <4> QED BY <2>3, <2>5, <2>6, <3>2, <4>1 DEF Shown
    <3> QED BY <3>1, <3>2
  <2>8. scratch'[line.req].status = "approved" =>
           \E j \in 1..(pos + 1) : LineIs(canon, j, "request_approved", line.req)
    BY <2>3, <2>4, <2>5, Transitions
  <2>9. Shown(canon, scratch', pos + 1)
    <3>1. ASSUME NEW q \in Requests
          PROVE  /\ scratch'[q].status # "absent" =>
                      \E i \in 1..(pos + 1) : /\ LineIs(canon, i, "request_created", q)
                                              /\ canon[i].by = scratch'[q].owner
                                              /\ canon[i].expires = scratch'[q].expires
                 /\ scratch'[q].status = "approved" =>
                      \E j \in 1..(pos + 1) : LineIs(canon, j, "request_approved", q)
      <4>1. CASE q = line.req
        BY <2>7, <2>8, <4>1
      <4>2. CASE q # line.req
        <5>1. scratch'[q] = scratch[q]
          BY <2>5, <4>2
        <5> QED BY <2>6, <5>1 DEF Shown
      <4> QED BY <4>1, <4>2
    <3> QED BY <3>1 DEF Shown
  <2> QED BY <1>3, <2>1, <2>9 DEF AuthInv
<1>9. CASE Refuse
  BY <1>3, <1>4, <1>9 DEF Refuse, EndOfReplay, logVars, AuthInv
<1>10. CASE Adopt
  BY <1>3, <1>4, <1>10 DEF Adopt, EndOfReplay, AuthInv
<1>11. CASE Crash
  <2>1. /\ Len(canon) \in Nat /\ Len(canon') \in Nat /\ Len(canon') <= Len(canon)
        /\ SameEvents(canon, canon', Len(canon'))
        /\ synced' = synced /\ synced \in 0..Len(canon')
        /\ phase' = "down" /\ scratch' = New /\ launches' = launches
        /\ exec' = [r \in Requests |-> "idle"]
    BY <1>11, CrashKeeps
  <2>2. ApprovalsBacked(canon')
    <3> SUFFICES ASSUME NEW j \in 1..Len(canon'), canon'[j].type = "request_approved"
                 PROVE  \E i \in 1..Len(canon') : Backs(canon', i, j)
      BY DEF ApprovalsBacked
    <3>1. j \in 1..Len(canon) /\ canon[j].type = "request_approved"
      BY <2>1 DEF SameEvents
    <3>2. PICK i \in 1..Len(canon) : Backs(canon, i, j)
      BY <1>3, <3>1 DEF ApprovalsBacked
    <3>3. i \in 1..Len(canon')
      BY <2>1, <3>2 DEF Backs
    <3>4. Backs(canon', i, j)
      BY <2>1, <3>2, <3>3 DEF SameEvents, Backs, LineIs
    <3> QED BY <3>3, <3>4
  <2>3. SameEvents(canon, canon', synced) /\ synced \in Nat
    BY <2>1 DEF SameEvents
  <2>4. ASSUME NEW q \in Requests, launches'[q] > 0 \/ exec'[q] # "idle"
        PROVE  Authorised(canon', q, synced')
    BY <1>3, <2>1, <2>3, <2>4, AuthorisedStays
  <2> QED BY <1>4, <2>1, <2>2, <2>4 DEF AuthInv
<1> QED
  BY <1>5, <1>6, <1>7, <1>8, <1>9, <1>10, <1>11
     DEF Next, vars, logVars, memVars, Start, Serve, Clock

\* Every launch was authorised, for every file, every interleaving and with
\* power loss: a launched command has a durable creation, a valid approval that
\* a deadline check let through and an execution_started line, in this order
\* (Execute, validateApprover, expireIfNeededLocked, replayUnlocked, Rebuild).
THEOREM EveryLaunchAuthorised == Spec => []LaunchAuthorised
<1>1. Init => AuthInv
  BY DEF Init, LogInit, AuthInv, ApprovalsBacked, Shown, New
<1>2. IInv /\ AuthInv /\ [Next]_vars => IInv' /\ AuthInv'
  BY StepIInv, StepAuth
<1>3. IInv /\ AuthInv => LaunchAuthorised
  <2> SUFFICES ASSUME IInv, AuthInv, NEW r \in Requests, launches[r] > 0, ~Garbled
               PROVE  \E i, j, k \in 1..synced :
                        /\ i < j /\ j < k
                        /\ Is(i, "request_created", r)
                        /\ Is(j, "request_approved", r)
                        /\ Is(k, "execution_started", r)
                        /\ ValidApprover(canon[j].by, canon[i].by)
                        /\ canon[j].checked < canon[i].expires
    BY DEF LaunchAuthorised
  <2>1. PICK i \in 1..synced, j \in 1..synced, k \in 1..synced :
           /\ LineIs(canon, j, "request_approved", r) /\ Backs(canon, i, j)
           /\ j < k /\ LineIs(canon, k, "execution_started", r)
    BY DEF AuthInv, Authorised
  <2> QED BY <2>1 DEF LineIs, Backs, Is
<1> QED BY InitIInv, <1>1, <1>2, <1>3, PTL DEF Spec

-----------------------------------------------------------------------------
(* Executions and their handlers *)

\* Only a failed append leaves a request executing without a handler.
LEMMA StepHasHandler ==
  ASSUME IInv, ExecutingHasHandler, [Next]_vars
  PROVE  ExecutingHasHandler'
<1> SUFFICES ASSUME phase' = "up", interrupted' = 0,
                    NEW q \in Requests, proj'[q].status = "executing"
             PROVE  exec'[q] # "idle"
  BY DEF ExecutingHasHandler
<1>1. TypeOK
  BY DEF IInv
<1>2. ASSUME NEW r \in Requests, NEW o \in Outcomes, Handler(r, o) PROVE exec'[q] # "idle"
  <2>1. phase = "up"
    BY <1>1, <1>2, HandlerRecords
  <2>2. PICK t \in EventTypes, a \in Identities, exp \in Nat, big \in BOOLEAN :
           RecordStep(t, r, a, exp, big, o)
    <3>1. Recorded(r, o)
      BY <1>2, HandlerSteps
    <3> QED BY <3>1 DEF Recorded
  <2>3. /\ Appended(NewLine(t, r, a, exp, big, o), o)
        /\ Applied(t, r, a, exp, o) /\ Moved(t, r, o)
    BY <2>2 DEF RecordStep
  <2>4. o = "nil" /\ interrupted = 0
    BY <2>3 DEF Appended
  <2>5. CASE q = r
    <3>1. t = "execution_started"
      BY <2>3, <2>4, <2>5, Transitions DEF Applied
    <3> QED BY <2>3, <2>4, <2>5, <3>1 DEF Moved
  <2>6. CASE q # r
    <3>1. proj'[q] = proj[q] /\ exec'[q] = exec[q]
      BY <2>3, <2>6 DEF Applied, Moved
    <3> QED BY <2>1, <2>4, <3>1 DEF ExecutingHasHandler
  <2> QED BY <2>5, <2>6
<1>3. ASSUME NEW r \in Requests, NEW o \in Outcomes, Recover(r, o) PROVE FALSE
  BY <1>3 DEF Recover
<1>4. ASSUME NEW r \in Requests, Launch(r) PROVE exec'[q] # "idle"
  <2>1. exec' = [exec EXCEPT ![r] = "running"] /\ UNCHANGED <<phase, proj, interrupted>>
    BY <1>4 DEF Launch, logVars
  <2>2. exec[q] # "idle"
    BY <2>1 DEF ExecutingHasHandler
  <2> QED BY <1>1, <2>1, <2>2 DEF TypeOK
<1>5. CASE Serve
  BY <1>5 DEF Serve
<1>6. CASE UNCHANGED <<phase, proj, exec, interrupted>>
  BY <1>6 DEF ExecutingHasHandler
<1> QED
  BY <1>2, <1>3, <1>4, <1>5, <1>6
     DEF Next, vars, logVars, memVars, Start, ReplayLine, Refuse, Adopt, Crash, Clock

\* While the daemon serves and no append was interrupted, an executing request
\* has its Execute handler in flight: recovery closed all that a crash cut off
\* (Execute, recoverExecutingLocked).
THEOREM NoOrphanedExecution == Spec => []ExecutingHasHandler
<1>1. Init => ExecutingHasHandler
  BY DEF Init, ExecutingHasHandler
<1>2. IInv /\ ExecutingHasHandler /\ [Next]_vars => IInv' /\ ExecutingHasHandler'
  BY StepIInv, StepHasHandler
<1> QED BY InitIInv, <1>1, <1>2, PTL DEF Spec
=============================================================================
