---------------------------- MODULE BrokerProofs ----------------------------
(***************************************************************************)
(* Proofs about Broker, for every set of requests, users and actors and    *)
(* every value of the bounds.                                              *)
(***************************************************************************)
EXTENDS Broker, SequenceTheorems, TLAPS

USE ConstantsAssumption DEF Statuses, EventTypes

-----------------------------------------------------------------------------
(* The state machine *)

\* Every event that Apply accepts leads to one of core's statuses.
LEMMA ToType == \A t \in EventTypes : To(t) \in Statuses
BY DEF To

\* The reachable statuses are closed under the transitions Apply makes.
LEMMA ReachClosed ==
  ASSUME NEW t \in EventTypes, NEW a \in Statuses,
         NEW s \in Lifecycle!Reach(a), s \in From(t)
  PROVE  To(t) \in Lifecycle!Reach(a)
BY DEF To, From, Lifecycle!Reach

\* A status reaches itself: the life cycle may stand still while a log is replayed.
LEMMA ReachSelf == \A a \in Statuses : a \in Lifecycle!Reach(a)
BY DEF Lifecycle!Reach

\* What one accepted event does to the projection.
LEMMA ApplyFacts ==
  ASSUME NEW p \in [Requests -> Snapshots],
         NEW e, e.req \in Requests, e.type \in EventTypes,
         e.by \in Identities, e.expires \in Nat
  PROVE  /\ Apply(p, e) \in [Requests -> Snapshots]
         /\ Apply(p, e)[e.req].status = To(e.type)
         /\ \A r \in Requests \ {e.req} : Apply(p, e)[r] = p[r]
BY ToType DEF Apply, Snapshots

-----------------------------------------------------------------------------
(* The log *)

Events == [type: EventTypes, req: Requests, by: Identities, expires: Nat, checked: Nat]

LogTypeOK ==
  /\ canon \in Seq(Lines)
  /\ eol \in BOOLEAN
  /\ synced \in 0..Len(canon)
  /\ lastHash \in Nat /\ hashes \in Nat
  /\ accepted \subseteq Nat
  /\ interrupted \in 0..MaxInterrupted

\* The fields of a line of the file (Log) that the proofs look at.
LEMMA LineFields ==
  ASSUME canon \in Seq(Lines), NEW i \in 1..Len(canon)
  PROVE  canon[i].req \in Requests /\ canon[i].type \in EventTypes /\ canon[i].id \in Nat
<1>1. canon[i] \in Lines
  BY ElementOfSeq
<1> QED BY <1>1 DEF Lines

\* A write keeps every earlier line's event, and never repairs a line.
LEMMA WrittenFacts ==
  ASSUME canon \in Seq(Lines), eol \in BOOLEAN, ~eol => Len(canon) > 0,
         NEW line \in Lines
  PROVE  /\ Written(line) \in Seq(Lines)
         /\ Len(Written(line)) = IF eol THEN Len(canon) + 1 ELSE Len(canon)
         /\ \A i \in 1..Len(canon) :
              /\ Written(line)[i].type = canon[i].type
              /\ Written(line)[i].req = canon[i].req
              /\ Written(line)[i].ok => canon[i].ok
         /\ eol => Written(line)[Len(canon) + 1] = line
         /\ ~eol => ~Written(line)[Len(canon)].ok
<1>1. CASE eol
  BY <1>1 DEF Written
<1>2. CASE ~eol
  <2> DEFINE n == Len(canon)
             new == [canon[n] EXCEPT !.ok = FALSE]
  <2>1. n \in 1..Len(canon) /\ canon[n] \in Lines
    BY <1>2, LenProperties, ElementOfSeq
  <2>2. new \in Lines /\ new.type = canon[n].type /\ new.req = canon[n].req /\ ~new.ok
    BY <2>1 DEF Lines
  <2>3. Written(line) = [canon EXCEPT ![n] = new]
    BY <1>2 DEF Written
  <2>4. /\ [canon EXCEPT ![n] = new] \in Seq(Lines)
        /\ Len([canon EXCEPT ![n] = new]) = n
        /\ \A i \in 1..n : [canon EXCEPT ![n] = new][i] = IF i = n THEN new ELSE canon[i]
    BY <2>1, <2>2, ExceptSeq
  <2> QED BY <1>2, <2>1, <2>2, <2>3, <2>4
<1> QED BY <1>1, <1>2

\* What Log.Append does to the file, whatever its outcome.
LEMMA AppendFacts ==
  ASSUME LogTypeOK, TailInv,
         NEW e \in Events, NEW big \in BOOLEAN, NEW o \in Outcomes,
         LogAppend(e, big, o)
  PROVE  /\ LogTypeOK' /\ TailInv'
         /\ Len(canon) <= Len(canon') /\ synced <= synced'
         /\ \A i \in 1..Len(canon) :
              /\ canon'[i].type = canon[i].type
              /\ canon'[i].req = canon[i].req
              /\ canon'[i].ok => canon[i].ok
         /\ o = "nil" =>
              /\ Len(canon') > 0 /\ synced' = Len(canon')
              /\ canon'[Len(canon')].ok =>
                   canon'[Len(canon')].type = e.type /\ canon'[Len(canon')].req = e.req
<1> DEFINE line == [type |-> e.type, req |-> e.req, by |-> e.by,
                    expires |-> e.expires, checked |-> e.checked,
                    id |-> hashes + 1, prev |-> lastHash,
                    ok |-> o # "torn", big |-> big]
<1>1. line \in Lines /\ line.type = e.type /\ line.req = e.req
  BY DEF LogTypeOK, Events, Lines
<1>2. /\ interrupted' = IF o = "nil" THEN interrupted ELSE interrupted + 1
      /\ o # "nil" => interrupted < MaxInterrupted
      /\ IF o = "unwritten"
         THEN UNCHANGED <<canon, eol, hashes>>
         ELSE canon' = Written(line) /\ hashes' = hashes + 1 /\ eol' = (o \in {"nil", "unsynced"})
      /\ IF o = "nil"
         THEN synced' = Len(Written(line)) /\ lastHash' = hashes + 1
              /\ accepted' = accepted \cup {hashes + 1}
         ELSE UNCHANGED <<synced, lastHash, accepted>>
  BY DEF LogAppend, Possible, Outcomes, Interruptions
<1>3. ~eol => Len(canon) > 0
  BY DEF TailInv, LogTypeOK
<1> HIDE DEF line
<1>4. CASE o = "unwritten"
  BY <1>2, <1>4 DEF LogTypeOK, TailInv
<1>5. CASE o # "unwritten"
  <2>1. canon \in Seq(Lines) /\ eol \in BOOLEAN /\ Len(canon) \in Nat
    BY LenProperties DEF LogTypeOK
  <2>2. /\ canon' \in Seq(Lines)
        /\ Len(canon') = IF eol THEN Len(canon) + 1 ELSE Len(canon)
        /\ \A i \in 1..Len(canon) :
              /\ canon'[i].type = canon[i].type
              /\ canon'[i].req = canon[i].req
              /\ canon'[i].ok => canon[i].ok
        /\ eol => canon'[Len(canon) + 1] = line
        /\ ~eol => ~canon'[Len(canon)].ok
    BY <1>1, <1>2, <1>3, <1>5, <2>1, WrittenFacts
  <2>3. LogTypeOK' /\ TailInv'
    <3>0. eol' = (o \in {"nil", "unsynced"})
      BY <1>2, <1>5
    <3>1. eol' \in BOOLEAN /\ (~eol' => o # "nil")
      <4>1. CASE o \in {"nil", "unsynced"}
        <5>1. eol' = TRUE
          BY <3>0, <4>1, Zenon
        <5> QED BY <5>1
      <4>2. CASE o \notin {"nil", "unsynced"}
        <5>1. eol' = FALSE
          <6>1. (o \in {"nil", "unsynced"}) = FALSE
            BY <4>2
          <6> QED BY <3>0, <6>1, Zenon
        <5> QED BY <4>2, <5>1
      <4> QED BY <4>1, <4>2
    <3>2. TailInv'
      BY <1>2, <1>5, <2>1, <2>2, <3>1 DEF LogTypeOK, TailInv
    <3>3. /\ synced' \in 0..Len(canon') /\ lastHash' \in Nat /\ hashes' \in Nat
          /\ interrupted' \in 0..MaxInterrupted
      BY <1>2, <1>5, <2>1, <2>2 DEF LogTypeOK
    <3>4. accepted' \subseteq Nat
      <4>1. accepted \subseteq Nat /\ hashes + 1 \in Nat
        BY DEF LogTypeOK
      <4>2. accepted' = accepted \/ accepted' = accepted \cup {hashes + 1}
        BY <1>2
      <4> QED BY <4>1, <4>2, Zenon
    <3> QED BY <2>2, <3>1, <3>2, <3>3, <3>4 DEF LogTypeOK
  <2>4. Len(canon) <= Len(canon') /\ synced <= synced'
    BY <1>2, <1>5, <2>1, <2>2 DEF LogTypeOK
  <2>5. o = "nil" =>
           /\ Len(canon') > 0 /\ synced' = Len(canon')
           /\ canon'[Len(canon')].ok =>
                canon'[Len(canon')].type = e.type /\ canon'[Len(canon')].req = e.req
    BY <1>1, <1>2, <1>3, <1>5, <2>1, <2>2
  <2> QED BY <2>2, <2>3, <2>4, <2>5
<1> QED BY <1>4, <1>5

\* A crash keeps every line that an fsync covered.
LEMMA CrashFacts ==
  ASSUME LogTypeOK, TailInv, LogCrash
  PROVE  /\ LogTypeOK' /\ TailInv'
         /\ synced' = synced
         /\ \A i \in 1..Len(canon') : canon'[i] = canon[i]
         /\ ~PowerLoss => canon' = canon
<1>1. PICK n \in (IF PowerLoss THEN synced ELSE Len(canon))..Len(canon) :
         /\ canon' = SubSeq(canon, 1, n)
         /\ eol' = (eol \/ n < Len(canon))
         /\ UNCHANGED <<synced, lastHash, hashes, accepted, interrupted>>
  BY DEF LogCrash
<1>2. canon \in Seq(Lines) /\ Len(canon) \in Nat /\ synced \in 0..Len(canon)
  BY LenProperties DEF LogTypeOK
<1>3. n \in Nat /\ synced <= n /\ n <= Len(canon) /\ (~PowerLoss => n = Len(canon))
  BY <1>2
<1>4. /\ canon' \in Seq(Lines) /\ Len(canon') = n
      /\ \A i \in 1..n : canon'[i] = canon[i]
  BY <1>1, <1>2, <1>3, SubSeqProperties
<1>5. eol' \in BOOLEAN /\ (~eol' => ~eol /\ n = Len(canon))
  BY <1>1, <1>2, <1>3 DEF LogTypeOK
<1>6. ~PowerLoss => canon' = canon
  BY <1>2, <1>3, <1>4, SeqEqual
<1> QED BY <1>1, <1>2, <1>3, <1>4, <1>5, <1>6 DEF LogTypeOK, TailInv

\* A durable execution_started line is never lost.
LEMMA DurableStartStays ==
  ASSUME LogTypeOK, LogTypeOK', synced <= synced',
         \A i \in 1..synced : /\ canon'[i].type = canon[i].type
                              /\ canon'[i].req = canon[i].req
                              /\ canon'[i].ok => canon[i].ok,
         NEW r \in Requests, DurableStart(r)
  PROVE  DurableStart(r)'
<1>1. synced \in Nat /\ synced' \in Nat
  BY LenProperties DEF LogTypeOK
<1>2. \A i \in 1..synced : i \in 1..synced'
  BY <1>1
<1>3. CASE Garbled
  BY <1>2, <1>3 DEF Garbled, DurableStart
<1>4. CASE \E i \in 1..synced : Is(i, "execution_started", r)
  <2>1. PICK i \in 1..synced : Is(i, "execution_started", r)
    BY <1>4
  <2>2. i \in 1..synced' /\ Is(i, "execution_started", r)'
    BY <1>2, <2>1 DEF Is
  <2> QED BY <2>2 DEF DurableStart
<1> QED BY <1>3, <1>4 DEF DurableStart

-----------------------------------------------------------------------------
(* The handlers' common part: append an event and apply it *)

\* An event that a handler builds (events.Event) is well typed.
LEMMA EventType ==
  ASSUME NEW t \in EventTypes, NEW r \in Requests, NEW a \in Identities,
         NEW exp \in Nat, now \in 0..MaxNow
  PROVE  /\ Event(t, r, a, exp) \in Events
         /\ Event(t, r, a, exp).type = t /\ Event(t, r, a, exp).req = r
         /\ Event(t, r, a, exp).by = a /\ Event(t, r, a, exp).expires = exp
BY DEF Event, Events

\* What Record does to the log and to the projection.
LEMMA RecordFacts ==
  ASSUME TypeOK, TailInv,
         NEW t \in EventTypes, NEW r \in Requests, NEW a \in Identities,
         NEW exp \in Nat, NEW big \in BOOLEAN, NEW o \in Outcomes,
         Record(Event(t, r, a, exp), big, o)
  PROVE  /\ LogTypeOK' /\ TailInv'
         /\ proj' \in [Requests -> Snapshots]
         /\ \A q \in Requests : proj'[q] = proj[q]
              \/ /\ q = r /\ o = "nil"
                 /\ proj[q].status \in From(t) /\ proj'[q].status = To(t)
         /\ o = "nil" /\ proj[r].status \in From(t) => proj'[r].status = To(t)
         /\ \A q \in Requests : DurableStart(q) => DurableStart(q)'
         /\ o = "nil" /\ t = "execution_started" => DurableStart(r)'
<1> DEFINE e == Event(t, r, a, exp)
<1>1. /\ e \in Events /\ e.type = t /\ e.req = r /\ e.by = a /\ e.expires = exp
  BY EventType DEF TypeOK
<1>2. LogTypeOK
  BY DEF TypeOK, LogTypeOK
<1>3. /\ LogAppend(e, big, o)
      /\ proj' = IF o = "nil" /\ CanApply(proj, e) THEN Apply(proj, e) ELSE proj
  BY DEF Record
<1> HIDE DEF e
<1>4. /\ LogTypeOK' /\ TailInv'
      /\ Len(canon) <= Len(canon') /\ synced <= synced'
      /\ \A i \in 1..Len(canon) :
           /\ canon'[i].type = canon[i].type
           /\ canon'[i].req = canon[i].req
           /\ canon'[i].ok => canon[i].ok
      /\ o = "nil" =>
           /\ Len(canon') > 0 /\ synced' = Len(canon')
           /\ canon'[Len(canon')].ok =>
                canon'[Len(canon')].type = e.type /\ canon'[Len(canon')].req = e.req
  BY <1>1, <1>2, <1>3, AppendFacts
<1>5. proj \in [Requests -> Snapshots]
  BY DEF TypeOK
<1>6. /\ Apply(proj, e) \in [Requests -> Snapshots]
      /\ Apply(proj, e)[r].status = To(t)
      /\ \A q \in Requests \ {r} : Apply(proj, e)[q] = proj[q]
  BY <1>1, <1>5, ApplyFacts
<1>7. CanApply(proj, e) <=> proj[r].status \in From(t)
  BY <1>1 DEF CanApply
<1>8. /\ \A q \in Requests : proj'[q] = proj[q]
              \/ /\ q = r /\ o = "nil"
                 /\ proj[q].status \in From(t) /\ proj'[q].status = To(t)
      /\ o = "nil" /\ proj[r].status \in From(t) => proj'[r].status = To(t)
  BY <1>3, <1>6, <1>7
<1>9. proj' \in [Requests -> Snapshots]
  BY <1>3, <1>5, <1>6
<1>10. \A q \in Requests : DurableStart(q) => DurableStart(q)'
  <2>1. \A i \in 1..synced : i \in 1..Len(canon)
    BY <1>2, LenProperties DEF LogTypeOK
  <2> QED BY <1>2, <1>4, <2>1, DurableStartStays
<1>11. ASSUME o = "nil", t = "execution_started" PROVE DurableStart(r)'
  <2>1. Len(canon') \in Nat /\ Len(canon') \in 1..synced'
    BY <1>4, <1>11, LenProperties DEF LogTypeOK
  <2>2. CASE canon'[Len(canon')].ok
    BY <1>1, <1>4, <1>11, <2>1, <2>2 DEF DurableStart, Is
  <2>3. CASE ~canon'[Len(canon')].ok
    BY <2>1, <2>3 DEF DurableStart, Garbled
  <2> QED BY <2>2, <2>3
<1> QED BY <1>4, <1>8, <1>9, <1>10, <1>11

-----------------------------------------------------------------------------
(* The inductive invariant *)

\* An empty log and a daemon that was never started satisfy the invariant.
LEMMA InitIInv == Init => IInv
<1> SUFFICES ASSUME Init PROVE IInv
  OBVIOUS
<1>1. canon = << >> /\ Len(canon) = 0 /\ synced = 0 /\ pos = 0
  BY DEF Init, LogInit
<1>2. New \in [Requests -> Snapshots]
  BY DEF New, Snapshots, Identities
<1>3. TypeOK
  BY <1>1, <1>2 DEF Init, LogInit, TypeOK, Phases, ExecStates
<1>4. TailInv /\ ReplayInv
  BY <1>1 DEF Init, LogInit, TailInv, ReplayInv
<1>5. LaunchInv /\ ExecInv /\ AtMostOnce
  BY DEF Init, LaunchInv, ExecInv, AtMostOnce
<1> QED BY <1>3, <1>4, <1>5 DEF IInv

\* How a step that records an event of type t for r may move the handlers.
ExecStep(r, t, o) ==
  \A q \in Requests :
     \/ exec'[q] = "idle"
     \/ /\ phase' = "up" /\ exec'[q] = exec[q]
        /\ q = r => "executing" \notin From(t)
     \/ /\ phase' = "up" /\ exec'[q] = "started"
        /\ q = r /\ o = "nil" /\ t = "execution_started"
        /\ proj[r].status = "approved"

\* Every handler, and recovery, preserves the invariant: it records one event,
\* ends Execute handlers, or begins one whose start it has just recorded.
LEMMA RecordPreserves ==
  ASSUME IInv, phase # "replaying",
         NEW t \in EventTypes, NEW r \in Requests, NEW a \in Identities,
         NEW exp \in Nat, NEW big \in BOOLEAN, NEW o \in Outcomes,
         Record(Event(t, r, a, exp), big, o),
         UNCHANGED <<scratch, pos, chain, launches, now, crashes>>,
         phase' \in Phases, phase' # "replaying",
         exec' \in [Requests -> ExecStates],
         ExecStep(r, t, o)
  PROVE  IInv'
<1>1. TypeOK /\ TailInv /\ ReplayInv /\ LaunchInv /\ ExecInv /\ AtMostOnce
  BY DEF IInv
<1>2. /\ LogTypeOK' /\ TailInv'
      /\ proj' \in [Requests -> Snapshots]
      /\ \A q \in Requests : proj'[q] = proj[q]
           \/ /\ q = r /\ o = "nil"
              /\ proj[q].status \in From(t) /\ proj'[q].status = To(t)
      /\ o = "nil" /\ proj[r].status \in From(t) => proj'[r].status = To(t)
      /\ \A q \in Requests : DurableStart(q) => DurableStart(q)'
      /\ o = "nil" /\ t = "execution_started" => DurableStart(r)'
  BY <1>1, RecordFacts
<1>3. TypeOK'
  BY <1>1, <1>2 DEF TypeOK, LogTypeOK
<1>4. ReplayInv'
  BY <1>1, <1>2, LenProperties DEF ReplayInv, LogTypeOK
<1>5. \A s : s \in {"executing", "executed", "failed"} /\ s \in From(t)
          => To(t) \in {"executing", "executed", "failed"}
  BY DEF From, To
<1>6. ASSUME NEW q \in Requests, proj[q].status \in {"executing", "executed", "failed"}
      PROVE  proj'[q].status \in {"executing", "executed", "failed"}
  BY <1>2, <1>5, <1>6
<1>7. ASSUME NEW q \in Requests, launches'[q] > 0 \/ exec'[q] # "idle"
      PROVE  /\ proj'[q].status \in {"executing", "executed", "failed"}
             /\ DurableStart(q)'
  <2>1. CASE launches[q] > 0 \/ exec[q] # "idle"
    BY <1>1, <1>2, <1>6, <2>1 DEF LaunchInv
  <2>2. CASE ~(launches[q] > 0 \/ exec[q] # "idle")
    <3>1. q = r /\ o = "nil" /\ t = "execution_started" /\ proj[r].status = "approved"
      BY <1>7, <2>2 DEF ExecStep
    <3>2. proj'[r].status = "executing"
      BY <1>2, <3>1 DEF From, To
    <3> QED BY <1>2, <3>1, <3>2
  <2> QED BY <2>1, <2>2
<1>8. LaunchInv'
  BY <1>7 DEF LaunchInv
<1>9. ExecInv'
  <2> SUFFICES ASSUME NEW q \in Requests, exec'[q] # "idle"
               PROVE  /\ phase' = "up" /\ proj'[q].status = "executing"
                      /\ exec'[q] = "started" => launches'[q] = 0
    BY DEF ExecInv
  <2>1. CASE /\ phase' = "up" /\ exec'[q] = exec[q]
             /\ q = r => "executing" \notin From(t)
    <3>1. proj[q].status = "executing" /\ (exec[q] = "started" => launches[q] = 0)
      BY <1>1, <2>1 DEF ExecInv
    <3>2. proj'[q] = proj[q]
      BY <1>2, <2>1, <3>1
    <3> QED BY <2>1, <3>1, <3>2
  <2>2. CASE /\ phase' = "up" /\ q = r /\ o = "nil" /\ t = "execution_started"
             /\ proj[r].status = "approved"
    <3>1. ~(launches[q] > 0) /\ launches[q] \in Nat
      BY <1>1, <2>2 DEF LaunchInv, TypeOK
    <3>2. proj'[q].status = "executing"
      BY <1>2, <2>2 DEF From, To
    <3> QED BY <2>2, <3>1, <3>2
  <2> QED BY <2>1, <2>2 DEF ExecStep
<1>10. AtMostOnce'
  BY <1>1 DEF AtMostOnce
<1> QED BY <1>2, <1>3, <1>4, <1>8, <1>9, <1>10 DEF IInv

\* The handlers of the two sockets (Submit to Execute) preserve the invariant.
LEMMA HandlerPreserves ==
  ASSUME IInv, NEW r \in Requests, NEW o \in Outcomes, Handler(r, o)
  PROVE  IInv'
<1>1. TypeOK /\ now \in Nat /\ now + TTL \in Nat /\ 0 \in Nat
  BY DEF IInv, TypeOK
<1>2. exec \in [Requests -> ExecStates] /\ Daemon \in Identities
  BY <1>1 DEF TypeOK, Identities
<1>3. Sizes \subseteq BOOLEAN /\ FALSE \in BOOLEAN /\ "up" \in Phases
  BY DEF Phases
<1>4. ASSUME Up PROVE /\ phase = "up" /\ phase' = "up"
                      /\ UNCHANGED <<scratch, pos, chain, launches, now, crashes>>
  BY <1>4 DEF Up
<1>5. ASSUME Up, UNCHANGED exec, Expire(r, o) PROVE IInv'
  <2>1. Record(Event("request_expired", r, Daemon, 0), FALSE, o)
    BY <1>5 DEF Expire
  <2> QED BY <1>1, <1>2, <1>3, <1>4, <1>5, <2>1, RecordPreserves DEF ExecStep, From
<1>6. ASSUME NEW user \in Users, NEW big \in Sizes, Submit(r, user, big, o) PROVE IInv'
  <2>1. /\ Up /\ UNCHANGED exec
        /\ Record(Event("request_created", r, user, now + TTL), big, o)
    BY <1>6 DEF Submit
  <2>2. user \in Identities /\ big \in BOOLEAN
    BY <1>3 DEF Identities
  <2> QED BY <1>1, <1>2, <1>3, <1>4, <2>1, <2>2, RecordPreserves DEF ExecStep, From
<1>7. CASE Status(r, o)
  BY <1>5, <1>7 DEF Status
<1>8. ASSUME NEW a \in Actors \cup {NoOne}, NEW t \in {"request_approved", "request_denied"},
             NEW big \in Sizes, Review(r, a, t, big, o)
      PROVE  IInv'
  <2>1. CASE Expire(r, o)
    BY <1>5, <1>8, <2>1 DEF Review
  <2>2. CASE ~Expire(r, o)
    <3>1. Up /\ UNCHANGED exec /\ Record(Event(t, r, a, 0), big, o)
      BY <1>8, <2>2 DEF Review
    <3>2. a \in Identities /\ t \in EventTypes /\ big \in BOOLEAN
      BY <1>3 DEF Identities
    <3> QED BY <1>1, <1>2, <1>3, <1>4, <3>1, <3>2, RecordPreserves DEF ExecStep, From
  <2> QED BY <2>1, <2>2
<1>9. CASE ExecuteBegin(r, o)
  <2>1. CASE Expire(r, o) /\ UNCHANGED exec
    BY <1>5, <1>9, <2>1 DEF ExecuteBegin
  <2>2. CASE ~(Expire(r, o) /\ UNCHANGED exec)
    <3>0. PICK t \in EventTypes : t = "execution_started"
      OBVIOUS
    <3>1. /\ Up /\ proj[r].status = "approved"
          /\ Record(Event(t, r, Daemon, 0), FALSE, o)
          /\ exec' = IF o = "nil" THEN [exec EXCEPT ![r] = "started"] ELSE exec
      BY <1>9, <2>2, <3>0 DEF ExecuteBegin
    <3>2. /\ exec' \in [Requests -> ExecStates]
          /\ \A q \in Requests :
                exec'[q] = exec[q] \/ (q = r /\ o = "nil" /\ exec'[q] = "started")
      BY <1>2, <3>1 DEF ExecStates
    <3>3. ExecStep(r, t, o)
      BY <1>4, <3>0, <3>1, <3>2 DEF ExecStep, From
    <3>4. /\ phase # "replaying" /\ phase' \in Phases /\ phase' # "replaying"
          /\ UNCHANGED <<scratch, pos, chain, launches, now, crashes>>
      BY <1>3, <1>4, <3>1
    <3>5. Record(Event(t, r, Daemon, 0), FALSE, o) /\ exec' \in [Requests -> ExecStates]
      BY <3>1, <3>2
    <3>6. Daemon \in Identities /\ 0 \in Nat /\ FALSE \in BOOLEAN
      BY <1>2
    <3> QED BY <3>3, <3>4, <3>5, <3>6, RecordPreserves
  <2> QED BY <2>1, <2>2
<1>10. ASSUME NEW result \in {"execution_succeeded", "execution_failed"}, NEW big \in Sizes,
              ExecuteEnd(r, result, big, o)
       PROVE  IInv'
  <2>1. /\ Up /\ Record(Event(result, r, Daemon, 0), big, o)
        /\ exec' = [exec EXCEPT ![r] = "idle"]
    BY <1>10 DEF ExecuteEnd
  <2>2. /\ exec' \in [Requests -> ExecStates]
        /\ \A q \in Requests : exec'[q] = exec[q] \/ exec'[q] = "idle"
    BY <1>2, <2>1 DEF ExecStates
  <2>3. big \in BOOLEAN /\ result \in EventTypes
    BY <1>3
  <2> QED BY <1>1, <1>2, <1>3, <1>4, <2>1, <2>2, <2>3, RecordPreserves DEF ExecStep, From
<1> QED BY <1>6, <1>7, <1>8, <1>9, <1>10 DEF Handler, Approve, Deny

\* The invariant is inductive.
LEMMA StepIInv == IInv /\ [Next]_vars => IInv'
<1> SUFFICES ASSUME IInv, [Next]_vars PROVE IInv'
  OBVIOUS
<1>1. /\ TypeOK /\ TailInv /\ ReplayInv /\ LaunchInv /\ ExecInv /\ AtMostOnce
      /\ LogTypeOK /\ Len(canon) \in Nat
  BY LenProperties DEF IInv, TypeOK, LogTypeOK
<1>2. CASE UNCHANGED vars
  BY <1>1, <1>2 DEF vars, IInv, TypeOK, TailInv, ReplayInv, LaunchInv, ExecInv,
                    AtMostOnce, DurableStart, Garbled, Is
<1>3. ASSUME NEW r \in Requests, NEW o \in Outcomes, Handler(r, o) PROVE IInv'
  BY <1>3, HandlerPreserves
<1>4. ASSUME NEW r \in Requests, NEW o \in Outcomes, Recover(r, o) PROVE IInv'
  <2>1. /\ phase = "recovering"
        /\ Record(Event("recovery_marked_failed", r, Daemon, 0), FALSE, o)
        /\ phase' = IF o = "nil" THEN "recovering" ELSE "down"
        /\ UNCHANGED <<scratch, pos, chain, exec, launches, now, crashes>>
    BY <1>4 DEF Recover
  <2>2. phase' \in Phases /\ phase' # "replaying" /\ Daemon \in Identities /\ 0 \in Nat
    BY <2>1 DEF Phases, Identities
  <2>3. \A q \in Requests : exec'[q] = "idle"
    BY <1>1, <2>1 DEF ExecInv
  <2>4. exec' \in [Requests -> ExecStates]
    BY <1>1, <2>1 DEF TypeOK
  <2> QED BY <2>1, <2>2, <2>3, <2>4, RecordPreserves DEF ExecStep, From
<1>5. ASSUME NEW r \in Requests, Launch(r) PROVE IInv'
  <2>1. /\ phase = "up" /\ exec[r] = "started"
        /\ exec' = [exec EXCEPT ![r] = "running"]
        /\ launches' = [launches EXCEPT ![r] = @ + 1]
        /\ UNCHANGED <<canon, eol, synced, lastHash, hashes, accepted, interrupted>>
        /\ UNCHANGED <<phase, proj, scratch, pos, chain, now, crashes>>
    BY <1>5 DEF Launch, logVars
  <2>2. launches[r] = 0
    BY <1>1, <2>1 DEF ExecInv
  <2>3. /\ launches' \in [Requests -> Nat] /\ launches'[r] = 1
        /\ exec' \in [Requests -> ExecStates] /\ exec'[r] = "running"
        /\ \A q \in Requests \ {r} : launches'[q] = launches[q] /\ exec'[q] = exec[q]
    BY <1>1, <2>1, <2>2 DEF TypeOK, ExecStates
  <2>4. TypeOK' /\ TailInv' /\ ReplayInv'
    BY <1>1, <2>1, <2>3 DEF TypeOK, TailInv, ReplayInv
  <2>5. LaunchInv'
    <3>1. \A q \in Requests : DurableStart(q) => DurableStart(q)'
      BY <2>1 DEF DurableStart, Garbled, Is
    <3> QED BY <1>1, <2>1, <2>3, <3>1 DEF LaunchInv
  <2>6. ExecInv' /\ AtMostOnce'
    BY <1>1, <2>1, <2>3 DEF ExecInv, AtMostOnce
  <2> QED BY <2>4, <2>5, <2>6 DEF IInv
<1>6. CASE Start
  <2>1. lastHash' \in Nat
    <3>1. CASE canon = << >>
      BY <1>6, <3>1 DEF Start
    <3>2. CASE canon # << >>
      <4>1. Len(canon) \in 1..Len(canon)
        BY <1>1, <3>2 DEF TypeOK
      <4>2. canon[Len(canon)].id \in Nat
        BY <1>1, <4>1, LineFields DEF TypeOK
      <4> QED BY <1>6, <3>2, <4>2 DEF Start
    <3> QED BY <3>1, <3>2
  <2>2. TypeOK' /\ TailInv' /\ ReplayInv'
    BY <1>1, <1>6, <2>1 DEF Start, TypeOK, TailInv, ReplayInv, Phases
  <2>3. LaunchInv' /\ ExecInv' /\ AtMostOnce'
    BY <1>1, <1>6 DEF Start, LaunchInv, ExecInv, AtMostOnce, DurableStart, Garbled, Is
  <2> QED BY <2>2, <2>3 DEF IInv
<1>7. CASE ReplayLine
  <2> DEFINE line == canon[pos + 1]
  <2>1. /\ phase = "replaying" /\ pos < Len(canon)
        /\ line.ok /\ CanApply(scratch, line) /\ scratch' = Apply(scratch, line)
        /\ chain' = line.id /\ pos' = pos + 1
        /\ UNCHANGED <<canon, eol, synced, lastHash, hashes, accepted, interrupted>>
        /\ UNCHANGED <<phase, proj, exec, launches, now, crashes>>
    BY <1>7 DEF ReplayLine, Readable, logVars
  <2>2. pos \in Nat /\ pos + 1 \in 1..Len(canon) /\ line \in Lines
    BY <1>1, <2>1, ElementOfSeq DEF TypeOK
  <2>3. /\ line.req \in Requests /\ line.type \in EventTypes
        /\ line.by \in Identities /\ line.expires \in Nat /\ line.id \in Nat
    BY <2>2 DEF Lines
  <2>4. /\ scratch' \in [Requests -> Snapshots]
        /\ scratch'[line.req].status = To(line.type)
        /\ \A q \in Requests \ {line.req} : scratch'[q] = scratch[q]
    BY <1>1, <2>1, <2>3, ApplyFacts DEF TypeOK
  <2>5. ReplayInv'
    <3>1. ASSUME NEW i \in 1..(pos + 1)
          PROVE  /\ canon[i].ok
                 /\ scratch'[canon[i].req].status \in Lifecycle!Reach(To(canon[i].type))
      <4>1. CASE i = pos + 1
        BY <2>1, <2>3, <2>4, <4>1, ToType, ReachSelf
      <4>2. CASE i # pos + 1
        <5>1. i \in 1..pos /\ i \in 1..Len(canon)
          BY <2>2, <4>2
        <5>2. /\ canon[i].req \in Requests /\ canon[i].type \in EventTypes
          BY <1>1, <5>1, LineFields DEF TypeOK
        <5>3. canon[i].ok /\ scratch[canon[i].req].status \in Lifecycle!Reach(To(canon[i].type))
          BY <1>1, <5>1 DEF ReplayInv
        <5>4. CASE canon[i].req # line.req
          BY <2>4, <5>2, <5>3, <5>4
        <5>5. CASE canon[i].req = line.req
          <6>1. scratch[line.req].status \in From(line.type)
            BY <2>1 DEF CanApply
          <6> QED BY <2>3, <2>4, <5>2, <5>3, <5>5, <6>1, ToType, ReachClosed
        <5> QED BY <5>4, <5>5
      <4> QED BY <4>1, <4>2
    <3> QED BY <2>1, <2>2, <3>1 DEF ReplayInv
  <2>6. TypeOK' /\ TailInv'
    BY <1>1, <2>1, <2>2, <2>3, <2>4 DEF TypeOK, TailInv
  <2>7. LaunchInv' /\ ExecInv' /\ AtMostOnce'
    BY <1>1, <2>1 DEF LaunchInv, ExecInv, AtMostOnce, DurableStart, Garbled, Is
  <2> QED BY <2>5, <2>6, <2>7 DEF IInv
<1>8. New \in [Requests -> Snapshots]
  BY DEF New, Snapshots, Identities
<1>9. CASE Refuse
  <2>1. /\ phase = "replaying" /\ phase' = "down"
        /\ scratch' = New /\ pos' = 0 /\ chain' = 0
        /\ UNCHANGED <<canon, eol, synced, lastHash, hashes, accepted, interrupted>>
        /\ UNCHANGED <<proj, exec, launches, now, crashes>>
    BY <1>9 DEF Refuse, Rejected, EndOfReplay, logVars
  <2>2. TypeOK' /\ TailInv' /\ ReplayInv'
    BY <1>1, <1>8, <2>1 DEF TypeOK, TailInv, ReplayInv, Phases
  <2>3. LaunchInv' /\ ExecInv' /\ AtMostOnce'
    BY <1>1, <2>1 DEF LaunchInv, ExecInv, AtMostOnce, DurableStart, Garbled, Is
  <2> QED BY <2>2, <2>3 DEF IInv
<1>10. CASE Adopt
  <2>1. /\ phase = "replaying" /\ pos = Len(canon) /\ phase' = "recovering"
        /\ proj' = scratch
        /\ accepted' = {canon[i].id : i \in 1..Len(canon)}
        /\ scratch' = New /\ pos' = 0 /\ chain' = 0
        /\ UNCHANGED <<canon, eol, synced, lastHash, hashes, interrupted, exec, launches, now, crashes>>
    BY <1>10 DEF Adopt, EndOfReplay
  <2>2. accepted' \subseteq Nat
    <3>1. \A i \in 1..Len(canon) : canon[i].id \in Nat
      BY <1>1, LineFields DEF TypeOK
    <3> QED BY <2>1, <3>1
  <2>3. TypeOK' /\ TailInv' /\ ReplayInv'
    BY <1>1, <1>8, <2>1, <2>2 DEF TypeOK, TailInv, ReplayInv, Phases
  <2>4. \A q \in Requests : exec[q] = "idle"
    BY <1>1, <2>1 DEF ExecInv
  <2>5. LaunchInv'
    <3> SUFFICES ASSUME NEW q \in Requests, launches[q] > 0
                 PROVE  /\ scratch[q].status \in {"executing", "executed", "failed"}
                        /\ DurableStart(q)'
      BY <2>1, <2>4 DEF LaunchInv
    <3>1. DurableStart(q) /\ DurableStart(q)'
      BY <1>1, <2>1 DEF LaunchInv, DurableStart, Garbled, Is
    <3>2. \A i \in 1..synced : i \in 1..pos
      BY <1>1, <2>1 DEF LogTypeOK
    <3>3. ~Garbled
      BY <1>1, <3>2 DEF ReplayInv, Garbled
    <3>4. PICK i \in 1..synced : Is(i, "execution_started", q)
      BY <3>1, <3>3 DEF DurableStart
    <3>5. scratch[q].status \in Lifecycle!Reach(To("execution_started"))
      BY <1>1, <3>2, <3>4 DEF ReplayInv, Is
    <3>6. Lifecycle!Reach(To("execution_started")) = {"executing", "executed", "failed"}
      BY DEF Lifecycle!Reach, To
    <3> QED BY <3>1, <3>5, <3>6
  <2>6. ExecInv' /\ AtMostOnce'
    BY <1>1, <2>1, <2>4 DEF ExecInv, AtMostOnce
  <2> QED BY <2>3, <2>5, <2>6 DEF IInv
<1>11. CASE Serve
  BY <1>1, <1>11 DEF Serve, logVars, IInv, TypeOK, TailInv, ReplayInv, LaunchInv, ExecInv,
                     AtMostOnce, DurableStart, Garbled, Is, Phases
<1>12. CASE Crash
  <2>1. /\ crashes < MaxCrashes /\ crashes' = crashes + 1 /\ phase' = "down"
        /\ exec' = [q \in Requests |-> "idle"]
        /\ LogCrash /\ scratch' = New /\ pos' = 0 /\ chain' = 0
        /\ UNCHANGED <<proj, launches, now>>
    BY <1>12 DEF Crash, EndOfReplay
  <2>2. /\ LogTypeOK' /\ TailInv' /\ synced' = synced
        /\ \A i \in 1..Len(canon') : canon'[i] = canon[i]
    BY <1>1, <2>1, CrashFacts
  <2>3. synced \in Nat /\ synced <= Len(canon') /\ Len(canon') \in Nat
    BY <2>2, LenProperties DEF LogTypeOK
  <2>4. TypeOK' /\ ReplayInv'
    BY <1>1, <1>8, <2>1, <2>2, <2>3 DEF TypeOK, LogTypeOK, ReplayInv, Phases, ExecStates
  <2>5. \A q \in Requests : DurableStart(q) => DurableStart(q)'
    BY <1>1, <2>2, <2>3, DurableStartStays
  <2>6. LaunchInv' /\ ExecInv' /\ AtMostOnce'
    BY <1>1, <2>1, <2>5 DEF LaunchInv, ExecInv, AtMostOnce
  <2> QED BY <2>2, <2>4, <2>6 DEF IInv
<1>13. CASE Clock
  <2>1. now' \in 0..MaxNow
    BY <1>13 DEF Clock
  <2> QED BY <1>1, <1>13, <2>1
       DEF Clock, logVars, memVars, IInv, TypeOK, TailInv, ReplayInv, LaunchInv, ExecInv,
           AtMostOnce, DurableStart, Garbled, Is
<1> QED BY <1>2, <1>3, <1>4, <1>5, <1>6, <1>7, <1>9, <1>10, <1>11, <1>12, <1>13 DEF Next

\* In every reachable state the variables have their types.
THEOREM TypeCorrect == Spec => []TypeOK
<1>1. IInv => TypeOK
  BY DEF IInv
<1> QED BY InitIInv, StepIInv, <1>1, PTL DEF Spec

\* A launch leaves its two traces for good: in the file that every start-up
\* replays and in the projection that every handler consults.
THEOREM LaunchLeavesTraces == Spec => []IInv
BY InitIInv, StepIInv, PTL DEF Spec

\* No command is ever launched twice: not by concurrent Execute handlers, not
\* after a failed append, not across crashes that lose unsynced lines.
THEOREM LaunchedAtMostOnce == Spec => []AtMostOnce
<1>1. IInv => AtMostOnce
  BY DEF IInv
<1> QED BY InitIInv, StepIInv, <1>1, PTL DEF Spec

-----------------------------------------------------------------------------
(* Refinement: Broker implements RequestLifecycle when crashes lose no lines *)

\* Before the first start nothing is served, so nothing needs a line.
LEMMA EvidenceInit == Init => EvidenceInv
<1> SUFFICES ASSUME Init PROVE EvidenceInv
  OBVIOUS
<1>1. \A r \in Requests : New[r].status = "absent"
  BY DEF New
<1> QED BY <1>1 DEF Init, LogInit, EvidenceInv, Evidence

\* Recording an event leaves a line for the status it sets.
LEMMA RecordEvidence ==
  ASSUME TypeOK, TailInv, EvidenceInv, pos = 0,
         NEW t \in EventTypes, NEW r \in Requests, NEW a \in Identities,
         NEW exp \in Nat, NEW big \in BOOLEAN, NEW o \in Outcomes,
         Record(Event(t, r, a, exp), big, o), UNCHANGED <<scratch, pos>>
  PROVE  EvidenceInv'
<1> DEFINE e == Event(t, r, a, exp)
<1>1. e \in Events /\ e.type = t /\ e.req = r
  BY EventType DEF TypeOK
<1>2. LogTypeOK /\ LogAppend(e, big, o)
  BY DEF TypeOK, LogTypeOK, Record
<1> HIDE DEF e
<1>3. /\ LogTypeOK'
      /\ Len(canon) <= Len(canon')
      /\ \A i \in 1..Len(canon) :
           /\ canon'[i].type = canon[i].type
           /\ canon'[i].req = canon[i].req
           /\ canon'[i].ok => canon[i].ok
      /\ o = "nil" =>
           /\ Len(canon') > 0
           /\ canon'[Len(canon')].ok => canon'[Len(canon')].type = t /\ canon'[Len(canon')].req = r
  BY <1>1, <1>2, AppendFacts
<1>4. Len(canon) \in Nat /\ Len(canon') \in Nat
  BY <1>2, <1>3, LenProperties DEF LogTypeOK
<1>5. \A q \in Requests :
        \/ proj'[q] = proj[q]
        \/ q = r /\ o = "nil" /\ proj'[q].status = To(t)
  BY RecordFacts
<1>6. Evidence(scratch, pos)'
  <2>1. \A q \in Requests : scratch[q].status = "absent"
    BY DEF EvidenceInv, Evidence
  <2> QED BY <2>1 DEF Evidence
<1>7. ASSUME \A i \in 1..Len(canon') : canon'[i].ok
      PROVE  Evidence(proj, Len(canon))'
  <2>1. \A i \in 1..Len(canon) : i \in 1..Len(canon')
    BY <1>3, <1>4
  <2>2. Evidence(proj, Len(canon))
    BY <1>3, <1>7, <2>1 DEF EvidenceInv
  <2> SUFFICES ASSUME NEW q \in Requests, proj'[q].status # "absent"
               PROVE  \E i \in 1..Len(canon') :
                         canon'[i].req = q /\ To(canon'[i].type) = proj'[q].status
    BY DEF Evidence
  <2>3. CASE proj'[q] = proj[q]
    <3>1. PICK i \in 1..Len(canon) : canon[i].req = q /\ To(canon[i].type) = proj[q].status
      BY <2>2, <2>3 DEF Evidence
    <3> QED BY <1>3, <2>1, <2>3, <3>1
  <2>4. CASE q = r /\ o = "nil" /\ proj'[q].status = To(t)
    <3>1. Len(canon') \in 1..Len(canon')
      BY <1>3, <1>4, <2>4
    <3>2. canon'[Len(canon')].req = q /\ To(canon'[Len(canon')].type) = proj'[q].status
      BY <1>3, <1>7, <2>4, <3>1
    <3> QED BY <3>1, <3>2
  <2> QED BY <1>5, <2>3, <2>4
<1> QED BY <1>6, <1>7 DEF EvidenceInv

\* The transition of an accepted event is one of the abstract specification's.
LEMMA LegalTransition ==
  ASSUME NEW t \in EventTypes, NEW s \in Statuses, s \in From(t)
  PROVE  /\ <<s, To(t)>> \in Lifecycle!Legal
         /\ To(t) \in Lifecycle!Reach(s)
BY DEF From, To, Lifecycle!Legal, Lifecycle!Reach

\* Every handler records one event.
LEMMA HandlerRecords ==
  ASSUME TypeOK, NEW r \in Requests, NEW o \in Outcomes, Handler(r, o)
  PROVE  /\ phase = "up" /\ phase' = "up"
         /\ UNCHANGED <<scratch, pos, chain, launches, now, crashes>>
         /\ \E t \in EventTypes, a \in Identities, exp \in Nat, big \in BOOLEAN :
               Record(Event(t, r, a, exp), big, o)
<1>1. now \in Nat /\ now + TTL \in Nat /\ 0 \in Nat /\ Daemon \in Identities
      /\ Sizes \subseteq BOOLEAN /\ FALSE \in BOOLEAN
  BY DEF TypeOK, Identities
<1>2. ASSUME Expire(r, o)
      PROVE  \E t \in EventTypes, a \in Identities, exp \in Nat, big \in BOOLEAN :
               Record(Event(t, r, a, exp), big, o)
  <2>1. Record(Event("request_expired", r, Daemon, 0), FALSE, o)
    BY <1>2 DEF Expire
  <2> QED BY <1>1, <2>1
<1>3. ASSUME NEW user \in Users, NEW big \in Sizes, Submit(r, user, big, o)
      PROVE  Up /\ \E t \in EventTypes, a \in Identities, exp \in Nat, b \in BOOLEAN :
                      Record(Event(t, r, a, exp), b, o)
  <2>1. Up /\ Record(Event("request_created", r, user, now + TTL), big, o)
    BY <1>3 DEF Submit
  <2>2. user \in Identities /\ big \in BOOLEAN
    BY <1>1 DEF Identities
  <2> QED BY <1>1, <2>1, <2>2
<1>4. ASSUME NEW a \in Actors \cup {NoOne}, NEW t \in {"request_approved", "request_denied"},
             NEW big \in Sizes, Review(r, a, t, big, o)
      PROVE  Up /\ \E u \in EventTypes, b \in Identities, exp \in Nat, size \in BOOLEAN :
                      Record(Event(u, r, b, exp), size, o)
  <2>1. Up /\ (Expire(r, o) \/ Record(Event(t, r, a, 0), big, o))
    BY <1>4 DEF Review
  <2>2. a \in Identities /\ t \in EventTypes /\ big \in BOOLEAN
    BY <1>1 DEF Identities
  <2> QED BY <1>1, <1>2, <2>1, <2>2
<1>5. ASSUME ExecuteBegin(r, o)
      PROVE  Up /\ \E t \in EventTypes, a \in Identities, exp \in Nat, big \in BOOLEAN :
                      Record(Event(t, r, a, exp), big, o)
  <2>1. Up /\ (Expire(r, o) \/ Record(Event("execution_started", r, Daemon, 0), FALSE, o))
    BY <1>5 DEF ExecuteBegin
  <2> QED BY <1>1, <1>2, <2>1
<1>6. ASSUME NEW result \in {"execution_succeeded", "execution_failed"}, NEW big \in Sizes,
             ExecuteEnd(r, result, big, o)
      PROVE  Up /\ \E t \in EventTypes, a \in Identities, exp \in Nat, b \in BOOLEAN :
                      Record(Event(t, r, a, exp), b, o)
  <2>1. Up /\ Record(Event(result, r, Daemon, 0), big, o) /\ big \in BOOLEAN
    BY <1>1, <1>6 DEF ExecuteEnd
  <2> QED BY <1>1, <2>1
<1>7. Up /\ \E t \in EventTypes, a \in Identities, exp \in Nat, big \in BOOLEAN :
               Record(Event(t, r, a, exp), big, o)
  BY <1>2, <1>3, <1>4, <1>5, <1>6 DEF Handler, Status, Approve, Deny
<1> QED BY <1>7 DEF Up

\* Without loss of lines the evidence stays.
LEMMA StepEvidence ==
  ASSUME ~PowerLoss, IInv, EvidenceInv, [Next]_vars
  PROVE  EvidenceInv'
<1>1. /\ TypeOK /\ TailInv /\ ReplayInv /\ LogTypeOK
      /\ Len(canon) \in Nat
      /\ \A r \in Requests : New[r].status = "absent"
  BY LenProperties DEF IInv, TypeOK, LogTypeOK, New
<1>2. ASSUME NEW r \in Requests, NEW o \in Outcomes, Handler(r, o) PROVE EvidenceInv'
  <2>1. /\ phase = "up" /\ UNCHANGED <<scratch, pos>>
        /\ \E t \in EventTypes, a \in Identities, exp \in Nat, big \in BOOLEAN :
               Record(Event(t, r, a, exp), big, o)
    BY <1>1, <1>2, HandlerRecords
  <2>2. pos = 0
    BY <1>1, <2>1 DEF ReplayInv
  <2> QED BY <1>1, <2>1, <2>2, RecordEvidence
<1>3. ASSUME NEW r \in Requests, NEW o \in Outcomes, Recover(r, o) PROVE EvidenceInv'
  <2>1. /\ phase = "recovering" /\ UNCHANGED <<scratch, pos>>
        /\ Record(Event("recovery_marked_failed", r, Daemon, 0), FALSE, o)
    BY <1>3 DEF Recover
  <2>2. pos = 0 /\ Daemon \in Identities
    BY <1>1, <2>1 DEF ReplayInv, Identities
  <2> QED BY <1>1, <2>1, <2>2, RecordEvidence
<1>4. CASE UNCHANGED <<canon, proj, scratch, pos>>
  BY <1>4 DEF EvidenceInv, Evidence
<1>5. CASE ReplayLine
  <2> DEFINE line == canon[pos + 1]
  <2>1. /\ pos < Len(canon) /\ CanApply(scratch, line) /\ scratch' = Apply(scratch, line)
        /\ pos' = pos + 1 /\ UNCHANGED <<canon, proj>>
    BY <1>5 DEF ReplayLine, logVars
  <2>2. pos \in Nat /\ pos + 1 \in 1..Len(canon) /\ line \in Lines
    BY <1>1, <2>1, ElementOfSeq DEF TypeOK
  <2>3. /\ line.req \in Requests /\ line.type \in EventTypes
        /\ line.by \in Identities /\ line.expires \in Nat
    BY <2>2 DEF Lines
  <2>4. /\ scratch'[line.req].status = To(line.type)
        /\ \A q \in Requests \ {line.req} : scratch'[q] = scratch[q]
    <3>1. scratch \in [Requests -> Snapshots]
      BY <1>1 DEF TypeOK
    <3> HIDE DEF line
    <3> QED BY <2>1, <2>3, <3>1, ApplyFacts
  <2>5. Evidence(scratch, pos)'
    <3> SUFFICES ASSUME NEW q \in Requests, scratch'[q].status # "absent"
                 PROVE  \E i \in 1..(pos + 1) :
                           canon[i].req = q /\ To(canon[i].type) = scratch'[q].status
      BY <2>1 DEF Evidence
    <3>1. CASE q = line.req
      BY <2>2, <2>4, <3>1
    <3>2. CASE q # line.req
      <4>1. PICK i \in 1..pos : canon[i].req = q /\ To(canon[i].type) = scratch[q].status
        BY <2>4, <3>2 DEF EvidenceInv, Evidence
      <4>2. i \in 1..(pos + 1)
        BY <2>2, <4>1
      <4> QED BY <2>4, <3>2, <4>1, <4>2
    <3> QED BY <3>1, <3>2
  <2>6. (\A i \in 1..Len(canon) : canon[i].ok)' => Evidence(proj, Len(canon))'
    BY <2>1 DEF EvidenceInv, Evidence
  <2> QED BY <2>5, <2>6 DEF EvidenceInv
<1>6. CASE Refuse
  BY <1>1, <1>6 DEF Refuse, EndOfReplay, logVars, EvidenceInv, Evidence
<1>7. CASE Adopt
  <2>1. pos = Len(canon) /\ proj' = scratch /\ scratch' = New /\ pos' = 0 /\ canon' = canon
    BY <1>7 DEF Adopt, EndOfReplay
  <2> QED BY <1>1, <2>1 DEF EvidenceInv, Evidence
<1>8. CASE Crash
  <2>1. LogCrash /\ proj' = proj /\ scratch' = New /\ pos' = 0
    BY <1>8 DEF Crash, EndOfReplay
  <2>2. canon' = canon
    BY <1>1, <2>1, CrashFacts
  <2> QED BY <1>1, <2>1, <2>2 DEF EvidenceInv, Evidence
<1> QED
  BY <1>2, <1>3, <1>4, <1>5, <1>6, <1>7, <1>8
     DEF Next, vars, logVars, memVars, Launch, Start, Serve, Clock

\* When crashes lose no lines, nothing is served that the file does not show,
\* not even after failed appends and while a log is being replayed.
THEOREM ServedIsWritten ==
  ASSUME ~PowerLoss
  PROVE  Spec => []EvidenceInv
<1>1. IInv /\ EvidenceInv /\ [Next]_vars => IInv' /\ EvidenceInv'
  BY StepIInv, StepEvidence
<1> QED BY InitIInv, EvidenceInit, <1>1, PTL DEF Spec

-----------------------------------------------------------------------------

\* Every step of the daemon is a step of the abstract specification.
LEMMA StepRefines ==
  ASSUME IInv, EvidenceInv, [Next]_vars
  PROVE  [Lifecycle!Next]_(Lifecycle!vars)
<1> DEFINE st == [r \in Requests |-> proj[r].status]
<1>1. TypeOK /\ TailInv /\ ReplayInv /\ ExecInv /\ LogTypeOK
  BY DEF IInv, TypeOK, LogTypeOK
<1>2. \A r \in Requests : proj[r].status \in Statuses
  BY <1>1 DEF TypeOK, Snapshots
<1>3. ASSUME NEW r \in Requests, NEW o \in Outcomes, Handler(r, o)
      PROVE  [Lifecycle!Next]_(Lifecycle!vars)
  <2>1. /\ phase = "up" /\ phase' = "up" /\ launches' = launches
        /\ \E t \in EventTypes, a \in Identities, exp \in Nat, big \in BOOLEAN :
               Record(Event(t, r, a, exp), big, o)
    BY <1>1, <1>3, HandlerRecords
  <2>2. PICK t \in EventTypes, a \in Identities, exp \in Nat, big \in BOOLEAN :
               Record(Event(t, r, a, exp), big, o)
    BY <2>1
  <2>3. \A q \in Requests :
          \/ proj'[q] = proj[q]
          \/ q = r /\ proj[q].status \in From(t) /\ proj'[q].status = To(t)
    BY <1>1, <2>2, RecordFacts
  <2>4. CASE \A q \in Requests : proj'[q] = proj[q]
    <3>1. st' = st
      BY <2>4
    <3> QED BY <2>1, <3>1 DEF Lifecycle!vars
  <2>5. CASE ~\A q \in Requests : proj'[q] = proj[q]
    <3>1. proj[r].status \in From(t) /\ st' = [st EXCEPT ![r] = To(t)]
      BY <2>3, <2>5
    <3>2. <<st[r], To(t)>> \in Lifecycle!Legal /\ To(t) \in Lifecycle!Reach(st[r])
      <4>1. st[r] = proj[r].status
        OBVIOUS
      <4>2. st[r] \in Statuses /\ st[r] \in From(t)
        BY <1>2, <3>1, <4>1
      <4> HIDE DEF st
      <4> QED BY <4>2, LegalTransition
    <3>3. Lifecycle!Move(r)
      BY <2>1, <3>1, <3>2 DEF Lifecycle!Move
    <3> QED BY <3>3 DEF Lifecycle!Next
  <2> QED BY <2>4, <2>5
<1>4. ASSUME NEW r \in Requests, NEW o \in Outcomes, Recover(r, o)
      PROVE  [Lifecycle!Next]_(Lifecycle!vars)
  <2>1. /\ phase # "up" /\ phase' # "up" /\ launches' = launches
        /\ Record(Event("recovery_marked_failed", r, Daemon, 0), FALSE, o)
    BY <1>4 DEF Recover
  <2>2. PICK t \in EventTypes, a \in Identities, exp \in Nat, big \in BOOLEAN :
               Record(Event(t, r, a, exp), big, o)
    <3>1. Daemon \in Identities /\ 0 \in Nat /\ FALSE \in BOOLEAN
      BY DEF Identities
    <3> QED BY <2>1, <3>1
  <2>3. \A q \in Requests :
          \/ proj'[q] = proj[q]
          \/ proj[q].status \in From(t) /\ proj'[q].status = To(t)
    BY <1>1, <2>2, RecordFacts
  <2>4. ASSUME NEW q \in Requests
        PROVE  proj'[q].status \in Lifecycle!Reach(proj[q].status)
    <3>1. CASE proj'[q] = proj[q]
      BY <1>2, <3>1, ReachSelf
    <3>2. CASE proj[q].status \in From(t) /\ proj'[q].status = To(t)
      <4>1. PICK s \in Statuses : s = proj[q].status
        BY <1>2
      <4>2. To(t) \in Lifecycle!Reach(s)
        BY <3>2, <4>1, LegalTransition
      <4> QED BY <3>2, <4>1, <4>2
    <3> QED BY <2>3, <3>1, <3>2
  <2>5. Lifecycle!Settle
    BY <2>1, <2>4 DEF Lifecycle!Settle
  <2> QED BY <2>5 DEF Lifecycle!Next
<1>5. ASSUME NEW r \in Requests, Launch(r) PROVE Lifecycle!Next
  <2>1. /\ phase = "up" /\ exec[r] = "started"
        /\ launches' = [launches EXCEPT ![r] = @ + 1]
        /\ UNCHANGED <<phase, proj>>
    BY <1>5 DEF Launch
  <2>2. launches[r] = 0 /\ proj[r].status = "executing"
    BY <1>1, <2>1 DEF ExecInv
  <2>3. launches' = [launches EXCEPT ![r] = 1]
    BY <2>1, <2>2
  <2> QED BY <2>1, <2>2, <2>3 DEF Lifecycle!Next, Lifecycle!Launch
<1>6. CASE UNCHANGED <<phase, proj, launches>>
  BY <1>6 DEF Lifecycle!vars
<1>7. CASE Start \/ Refuse
  <2>1. phase # "up" /\ phase' # "up" /\ UNCHANGED <<proj, launches>>
    BY <1>7 DEF Start, Refuse, Rejected
  <2> QED BY <2>1 DEF Lifecycle!vars
<1>8. CASE Adopt
  <2>1. /\ phase # "up" /\ phase' # "up" /\ launches' = launches
        /\ pos = Len(canon) /\ proj' = scratch
    BY <1>8 DEF Adopt
  <2>2. \A i \in 1..Len(canon) : canon[i].ok
    BY <1>1, <2>1 DEF ReplayInv
  <2>3. ASSUME NEW q \in Requests PROVE scratch[q].status \in Lifecycle!Reach(proj[q].status)
    <3>1. CASE proj[q].status = "absent"
      <4>1. scratch[q].status \in Statuses
        BY <1>1 DEF TypeOK, Snapshots
      <4> QED BY <3>1, <4>1 DEF Lifecycle!Reach
    <3>2. CASE proj[q].status # "absent"
      <4>1. PICK i \in 1..Len(canon) : canon[i].req = q /\ To(canon[i].type) = proj[q].status
        BY <2>2, <3>2 DEF EvidenceInv, Evidence
      <4> QED BY <1>1, <2>1, <4>1 DEF ReplayInv
    <3> QED BY <3>1, <3>2
  <2>4. Lifecycle!Settle
    BY <2>1, <2>3 DEF Lifecycle!Settle
  <2> QED BY <2>4 DEF Lifecycle!Next
<1>9. CASE Serve
  <2>1. Lifecycle!Resume
    BY <1>9 DEF Serve, Lifecycle!Resume
  <2> QED BY <2>1 DEF Lifecycle!Next
<1>10. CASE Crash
  <2>1. Lifecycle!Stop
    BY <1>10 DEF Crash, Lifecycle!Stop
  <2> QED BY <2>1 DEF Lifecycle!Next
<1> QED
  BY <1>3, <1>4, <1>5, <1>6, <1>7, <1>8, <1>9, <1>10
     DEF Next, vars, logVars, memVars, ReplayLine, Clock

\* When crashes lose no lines, what the daemon serves is the life cycle that
\* RequestLifecycle promises, across append errors, crashes and restarts.
THEOREM BrokerRefinesLifecycle ==
  ASSUME ~PowerLoss
  PROVE  Spec => ImplementsLifecycle
<1>1. Init => IInv /\ EvidenceInv /\ Lifecycle!Init
  <2>1. Init => Lifecycle!Init
    BY DEF Init, New, Lifecycle!Init
  <2> QED BY <2>1, InitIInv, EvidenceInit
<1>2. IInv /\ EvidenceInv /\ [Next]_vars => IInv' /\ EvidenceInv'
  BY StepIInv, StepEvidence
<1>3. IInv /\ EvidenceInv /\ [Next]_vars => [Lifecycle!Next]_(Lifecycle!vars)
  BY StepRefines
<1> QED BY <1>1, <1>2, <1>3, PTL DEF Spec, ImplementsLifecycle, Lifecycle!Spec
=============================================================================
