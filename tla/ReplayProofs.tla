---------------------------- MODULE ReplayProofs ----------------------------
(***************************************************************************)
(* More about Broker: what a start-up makes of the log.  An operation that *)
(* was answered with an error cannot come to light under later lines; a    *)
(* log that no interrupted append has touched is never refused; and the    *)
(* projection that the handlers maintain is the one Rebuild makes of the   *)
(* accepted lines.  All three hold for every value of the constants, with  *)
(* or without power loss.                                                  *)
(***************************************************************************)
EXTENDS LogProofs, WellFoundedInduction

USE ConstantsAssumption DEF Statuses, EventTypes

-----------------------------------------------------------------------------
(***************************************************************************)
(* The chain of hashes.  A line is only ever chained to a line whose       *)
(* append was accepted, and replay only goes on along the chain.           *)
(***************************************************************************)
\* The hash that line i has to be chained to.
IdBefore(c, i) == IF i = 1 THEN 0 ELSE c[i - 1].id

ChainInv ==
  /\ \A i \in 1..Len(canon) : canon[i].id > 0 /\ canon[i].prev \in accepted \cup {0}
  /\ phase \in {"recovering", "up"} => lastHash \in accepted \cup {0}
  /\ phase = "replaying" => lastHash = IdBefore(canon, Len(canon) + 1)
  /\ \A i \in 1..pos : canon[i].prev = IdBefore(canon, i)
  /\ chain = IdBefore(canon, pos + 1)

\* A step that records an event keeps the chain.
LEMMA RecordChain ==
  ASSUME IInv, IInv', ChainInv,
         NEW t \in EventTypes, NEW r \in Requests, NEW a \in Identities,
         NEW exp \in Nat, NEW big \in BOOLEAN, NEW o \in Outcomes,
         RecordStep(t, r, a, exp, big, o)
  PROVE  ChainInv'
<1> DEFINE line == NewLine(t, r, a, exp, big, o)
           n == Len(canon)
<1>1. /\ phase \in {"recovering", "up"} /\ phase' # "replaying"
      /\ Appended(line, o) /\ UNCHANGED <<pos, chain>>
  BY DEF RecordStep
<1>2. /\ TypeOK /\ TypeOK' /\ pos = 0 /\ hashes \in Nat
  BY <1>1 DEF IInv, ReplayInv, TypeOK
<1>3. line.id = hashes + 1 /\ line.prev = lastHash
  BY DEF NewLine
<1> HIDE DEF line
<1>4. /\ n \in Nat /\ Len(canon') \in Nat
      /\ SameEvents(canon, canon', n)
      /\ \/ Len(canon') = n
         \/ Len(canon') = n + 1 /\ canon'[n + 1] = line
  BY <1>1, <1>2, AppendedFacts
<1>5. /\ \A h \in accepted \cup {0} : h \in accepted' \cup {0}
      /\ lastHash' \in accepted' \cup {0}
  BY <1>1 DEF Appended, ChainInv
<1>6. ASSUME NEW i \in 1..Len(canon')
      PROVE  canon'[i].id > 0 /\ canon'[i].prev \in accepted' \cup {0}
  <2>1. CASE i <= n
    <3>1. /\ i \in 1..n /\ canon'[i].id = canon[i].id /\ canon'[i].prev = canon[i].prev
      BY <1>4, <2>1 DEF SameEvents
    <3>2. canon[i].id > 0 /\ canon[i].prev \in accepted \cup {0}
      BY <3>1 DEF ChainInv
    <3> QED BY <1>5, <3>1, <3>2
  <2>2. CASE i > n
    <3>1. canon'[i] = line
      BY <1>4, <2>2
    <3>2. lastHash \in accepted \cup {0}
      BY <1>1 DEF ChainInv
    <3> QED BY <1>2, <1>3, <1>5, <3>1, <3>2
  <2> QED BY <1>4, <2>1, <2>2
<1>7. pos' = 0 /\ chain' = IdBefore(canon', pos' + 1)
  BY <1>1, <1>2 DEF ChainInv, IdBefore
<1> QED BY <1>1, <1>5, <1>6, <1>7 DEF ChainInv

\* Every other step keeps it too.
LEMMA StepChain ==
  ASSUME IInv, IInv', ChainInv, [Next]_vars
  PROVE  ChainInv'
<1>1. /\ TypeOK /\ ReplayInv /\ Len(canon) \in Nat /\ pos \in Nat /\ pos <= Len(canon)
      /\ canon \in Seq(Lines)
  BY LenProperties DEF IInv, TypeOK, ReplayInv
<1>2. ASSUME NEW r \in Requests, NEW o \in Outcomes, Handler(r, o) \/ Recover(r, o)
      PROVE  ChainInv'
  <2>1. Recorded(r, o)
    BY <1>2, HandlerSteps
  <2> QED BY <2>1, RecordChain DEF Recorded
<1>3. CASE /\ UNCHANGED <<canon, accepted, lastHash, pos, chain>>
           /\ phase' \in {"recovering", "up"} => phase \in {"recovering", "up"}
           /\ phase' = "replaying" => phase = "replaying"
  BY <1>3 DEF ChainInv
<1>4. CASE Start
  <2>1. /\ phase' = "replaying" /\ UNCHANGED <<canon, accepted, pos, chain>>
        /\ lastHash' = IF canon = << >> THEN 0 ELSE canon[Len(canon)].id
    BY <1>4 DEF Start
  <2>2. canon = << >> <=> Len(canon) = 0
    BY <1>1, EmptySeq
  <2>3. lastHash' = IdBefore(canon, Len(canon) + 1)
    BY <1>1, <2>1, <2>2 DEF IdBefore
  <2> QED BY <2>1, <2>3 DEF ChainInv
<1>5. CASE ReplayLine
  <2>1. /\ phase' = phase /\ UNCHANGED <<canon, accepted, lastHash>>
        /\ pos < Len(canon) /\ Readable(canon[pos + 1], chain)
        /\ chain' = canon[pos + 1].id /\ pos' = pos + 1
    BY <1>5 DEF ReplayLine, logVars
  <2>2. canon[pos + 1].prev = IdBefore(canon, pos + 1)
    BY <2>1 DEF Readable, ChainInv
  <2>3. chain' = IdBefore(canon, pos' + 1)
    BY <1>1, <2>1 DEF IdBefore
  <2>4. \A i \in 1..pos' : i \in 1..pos \/ i = pos + 1
    BY <1>1, <2>1
  <2>5. \A i \in 1..pos' : canon[i].prev = IdBefore(canon, i)
    BY <2>2, <2>4 DEF ChainInv
  <2> QED BY <2>1, <2>3, <2>5 DEF ChainInv
<1>6. CASE Refuse
  <2>1. /\ phase' = "down" /\ pos' = 0 /\ chain' = 0
        /\ UNCHANGED <<canon, accepted, lastHash>>
    BY <1>6 DEF Refuse, EndOfReplay, logVars
  <2>2. chain' = IdBefore(canon, pos' + 1)
    BY <2>1 DEF IdBefore
  <2> QED BY <2>1, <2>2 DEF ChainInv
<1>7. CASE Adopt
  <2>1. /\ phase = "replaying" /\ phase' = "recovering" /\ pos = Len(canon)
        /\ pos' = 0 /\ chain' = 0
        /\ accepted' = {canon[i].id : i \in 1..Len(canon)}
        /\ UNCHANGED <<canon, lastHash>>
    BY <1>7 DEF Adopt, EndOfReplay
  <2>2. ASSUME NEW i \in 1..(Len(canon) + 1) PROVE IdBefore(canon, i) \in accepted' \cup {0}
    <3>1. i = 1 \/ i - 1 \in 1..Len(canon)
      BY <1>1
    <3> QED BY <2>1, <3>1 DEF IdBefore
  <2>3. lastHash' \in accepted' \cup {0}
    <3>1. Len(canon) + 1 \in 1..(Len(canon) + 1)
      BY <1>1
    <3>2. lastHash' = IdBefore(canon, Len(canon) + 1)
      BY <2>1 DEF ChainInv
    <3> QED BY <2>2, <3>1, <3>2
  <2>4. ASSUME NEW i \in 1..Len(canon)
        PROVE  canon[i].id > 0 /\ canon[i].prev \in accepted' \cup {0}
    <3>1. canon[i].id > 0 /\ canon[i].prev = IdBefore(canon, i)
      BY <2>1 DEF ChainInv
    <3>2. i \in 1..(Len(canon) + 1)
      BY <1>1
    <3> QED BY <2>2, <3>1, <3>2
  <2>5. chain' = IdBefore(canon, pos' + 1)
    BY <2>1 DEF IdBefore
  <2> QED BY <2>1, <2>3, <2>4, <2>5 DEF ChainInv
<1>8. CASE Crash
  <2>1. /\ Len(canon') \in Nat /\ Len(canon') <= Len(canon)
        /\ SameEvents(canon, canon', Len(canon')) /\ accepted' = accepted
        /\ phase' = "down" /\ pos' = 0 /\ chain' = 0
    BY <1>8, CrashKeeps
  <2>2. ASSUME NEW i \in 1..Len(canon')
        PROVE  canon'[i].id > 0 /\ canon'[i].prev \in accepted' \cup {0}
    <3>1. i \in 1..Len(canon)
      BY <1>1, <2>1
    <3> QED BY <2>1, <3>1 DEF ChainInv, SameEvents
  <2>3. chain' = IdBefore(canon', pos' + 1)
    BY <2>1 DEF IdBefore
  <2> QED BY <2>1, <2>2, <2>3 DEF ChainInv
<1> QED
  BY <1>2, <1>3, <1>4, <1>5, <1>6, <1>7, <1>8
     DEF Next, vars, logVars, memVars, Launch, Serve, Clock

\* An operation that was answered with an error takes effect at a restart only
\* if its line is the last one: replayUnlocked rejects the log in which any other
\* line of a failed append was built upon.
THEOREM ErrorsStayBuried == Spec => []NothingBuried
<1>1. Init => ChainInv
  BY DEF Init, LogInit, ChainInv, IdBefore
<1>2. IInv /\ ChainInv /\ [Next]_vars => IInv' /\ ChainInv'
  BY StepIInv, StepChain
<1>3. IInv /\ ChainInv => NothingBuried
  <2> SUFFICES ASSUME IInv, ChainInv, phase = "replaying", pos = Len(canon),
                      NEW i \in 1..(Len(canon) - 1)
               PROVE  canon[i].id \in accepted
    BY DEF NothingBuried, Accepted
  <2>1. Len(canon) \in Nat
    BY LenProperties DEF IInv, TypeOK
  <2>2. i \in 1..Len(canon) /\ i + 1 \in 1..Len(canon) /\ i + 1 # 1 /\ (i + 1) - 1 = i
    BY <2>1
  <2>3. canon[i + 1].prev = canon[i].id
    BY <2>2 DEF ChainInv, IdBefore
  <2>4. canon[i].id > 0 /\ canon[i + 1].prev \in accepted \cup {0}
    BY <2>2 DEF ChainInv
  <2> QED BY <2>3, <2>4
<1> QED BY InitIInv, <1>1, <1>2, <1>3, PTL DEF Spec

-----------------------------------------------------------------------------
(***************************************************************************)
(* A log that no interrupted append has touched.  It is chained from end   *)
(* to end, and every line was legal where it was written: the status it    *)
(* was written in is the furthest that the lines before it show.           *)
(***************************************************************************)
\* Projection p is as far as each of the first n lines of c ...
Covers(c, p, n) ==
  \A i \in 1..n : p[c[i].req].status \in Lifecycle!Reach(To(c[i].type))

\* ... and no further.
Backed(c, p, n) ==
  \A r \in Requests :
     \/ p[r].status = "absent"
     \/ \E i \in 1..n : c[i].req = r /\ To(c[i].type) = p[r].status

\* Line i was written when its request had status s.
LegalAt(c, i, s) ==
  /\ s \in From(c[i].type)
  /\ \A k \in 1..(i - 1) : c[k].req = c[i].req => s \in Lifecycle!Reach(To(c[k].type))
  /\ \/ s = "absent"
     \/ \E j \in 1..(i - 1) : c[j].req = c[i].req /\ To(c[j].type) = s

CleanLines(c) ==
  \A i \in 1..Len(c) : /\ c[i].ok
                       /\ c[i].prev = IdBefore(c, i)
                       /\ \E s \in Statuses : LegalAt(c, i, s)

CleanInv ==
  interrupted = 0 =>
    /\ eol /\ synced = Len(canon)
    /\ CleanLines(canon)
    /\ Backed(canon, scratch, pos)
    /\ phase \in {"recovering", "up"} =>
         /\ lastHash = IdBefore(canon, Len(canon) + 1)
         /\ Covers(canon, proj, Len(canon)) /\ Backed(canon, proj, Len(canon))

\* Statuses that reach each other are the same: the life cycle has no loops.
LEMMA ReachAntisymmetric ==
  ASSUME NEW s \in Statuses, NEW u \in Statuses,
         s \in Lifecycle!Reach(u), u \in Lifecycle!Reach(s)
  PROVE  s = u
BY DEF Lifecycle!Reach

\* No event takes a request back to being unknown.
LEMMA NeverAbsent == \A t \in EventTypes : "absent" \notin Lifecycle!Reach(To(t))
BY DEF To, Lifecycle!Reach

\* What Append writes does not change whether the lines before it were legal.
LEMMA LegalStays ==
  ASSUME NEW c, NEW d, NEW n \in Nat, NEW i \in 1..n, NEW s,
         SameEvents(c, d, n), LegalAt(c, i, s)
  PROVE  LegalAt(d, i, s) /\ IdBefore(d, i) = IdBefore(c, i)
<1>1. \A k \in 1..(i - 1) : k \in 1..n
  OBVIOUS
<1>2. i = 1 \/ i - 1 \in 1..n
  OBVIOUS
<1>3. \A k \in 1..(i - 1) : d[k].req = c[k].req /\ d[k].type = c[k].type
  BY <1>1 DEF SameEvents
<1>4. d[i].req = c[i].req /\ d[i].type = c[i].type
  BY DEF SameEvents
<1>5. IdBefore(d, i) = IdBefore(c, i)
  BY <1>2 DEF SameEvents, IdBefore
<1>6. s \in From(d[i].type)
  BY <1>4 DEF LegalAt
<1>7. \A k \in 1..(i - 1) : d[k].req = d[i].req => s \in Lifecycle!Reach(To(d[k].type))
  BY <1>3, <1>4 DEF LegalAt
<1>8. \/ s = "absent"
      \/ \E j \in 1..(i - 1) : d[j].req = d[i].req /\ To(d[j].type) = s
  BY <1>3, <1>4 DEF LegalAt
<1> QED BY <1>5, <1>6, <1>7, <1>8 DEF LegalAt

\* A handler whose append succeeds leaves a clean log clean.
LEMMA RecordClean ==
  ASSUME IInv, IInv', CleanInv, interrupted' = 0,
         NEW t \in EventTypes, NEW r \in Requests, NEW a \in Identities,
         NEW exp \in Nat, NEW big \in BOOLEAN, NEW o \in Outcomes,
         RecordStep(t, r, a, exp, big, o)
  PROVE  CleanInv'
<1> DEFINE line == NewLine(t, r, a, exp, big, o)
           n == Len(canon)
<1>1. /\ phase \in {"recovering", "up"}
      /\ Appended(line, o) /\ Applied(t, r, a, exp, o)
      /\ UNCHANGED <<scratch, pos>> /\ proj[r].status \in From(t)
  BY DEF RecordStep
<1>2. o = "nil" /\ interrupted = 0
  BY <1>1 DEF Appended
<1>3. /\ TypeOK /\ TypeOK' /\ TailInv' /\ pos = 0
  BY <1>1 DEF IInv, ReplayInv
<1>4. /\ eol /\ CleanLines(canon) /\ Backed(canon, scratch, pos)
      /\ lastHash = IdBefore(canon, n + 1)
      /\ Covers(canon, proj, n) /\ Backed(canon, proj, n)
  BY <1>1, <1>2 DEF CleanInv
<1>5. /\ line.type = t /\ line.req = r /\ line.id = hashes + 1 /\ line.prev = lastHash
  BY DEF NewLine
<1>6. line.ok
  <2>1. (o # "torn") = TRUE
    BY <1>2
  <2>2. line.ok = (o # "torn")
    BY DEF NewLine
  <2> QED BY <2>1, <2>2
<1> HIDE DEF line
<1>7. Added(line)
  BY <1>1, <1>2, <1>4 DEF Appended, Glued
<1>8. /\ n \in Nat /\ Len(canon') = n + 1 /\ canon'[n + 1] = line
      /\ \A i \in 1..n : canon'[i] = canon[i]
      /\ synced' = Len(canon') /\ lastHash' = hashes + 1
  <2>1. n \in Nat
    BY <1>3, LenProperties DEF TypeOK
  <2> QED BY <1>1, <1>2, <1>7, <2>1 DEF Added, Appended
<1>9. SameEvents(canon, canon', n) /\ \A i \in 1..(n + 1) : i \in 1..n \/ i = n + 1
  BY <1>8 DEF SameEvents
<1>10. /\ \A i \in 1..n : canon[i].req \in Requests /\ canon[i].type \in EventTypes
       /\ \A q \in Requests : proj[q].status \in Statuses
  BY <1>3, LineFields DEF TypeOK, Snapshots
<1>11. eol'
  BY <1>3, <1>8 DEF TailInv
<1>12. LegalAt(canon', n + 1, proj[r].status)
  <2>1. /\ proj[r].status \in From(canon'[n + 1].type) /\ canon'[n + 1].req = r
        /\ (n + 1) - 1 = n
    BY <1>1, <1>5, <1>8
  <2>2. \A k \in 1..n : canon'[k].req = r =>
             proj[r].status \in Lifecycle!Reach(To(canon'[k].type))
    BY <1>4, <1>8 DEF Covers
  <2>3. proj[r].status = "absent" \/
           \E j \in 1..n : canon'[j].req = r /\ To(canon'[j].type) = proj[r].status
    BY <1>4, <1>8 DEF Backed
  <2> QED BY <2>1, <2>2, <2>3 DEF LegalAt
<1>13. CleanLines(canon')
  <2> SUFFICES ASSUME NEW i \in 1..(n + 1)
               PROVE  /\ canon'[i].ok
                      /\ canon'[i].prev = IdBefore(canon', i)
                      /\ \E s \in Statuses : LegalAt(canon', i, s)
    BY <1>8 DEF CleanLines
  <2>1. CASE i \in 1..n
    <3>1. PICK s \in Statuses : LegalAt(canon, i, s)
      BY <1>4, <2>1 DEF CleanLines
    <3>2. LegalAt(canon', i, s) /\ IdBefore(canon', i) = IdBefore(canon, i)
      BY <1>8, <1>9, <2>1, <3>1, LegalStays
    <3>3. canon[i].ok /\ canon[i].prev = IdBefore(canon, i) /\ canon'[i] = canon[i]
      BY <1>4, <1>8, <2>1 DEF CleanLines
    <3> QED BY <3>2, <3>3
  <2>2. CASE i = n + 1
    <3>1. IdBefore(canon', n + 1) = IdBefore(canon, n + 1)
      BY <1>8 DEF IdBefore
    <3> QED BY <1>4, <1>5, <1>6, <1>8, <1>10, <1>12, <2>2, <3>1
  <2> QED BY <1>9, <2>1, <2>2
<1>14. Backed(canon', scratch', pos')
  BY <1>1, <1>3, <1>4 DEF Backed
<1>15. lastHash' = IdBefore(canon', Len(canon') + 1)
  BY <1>5, <1>8 DEF IdBefore
<1>16. /\ proj'[r].status = To(t) /\ \A q \in Requests : q # r => proj'[q] = proj[q]
  BY <1>1, <1>2 DEF Applied
<1>17. Covers(canon', proj', n + 1)
  <2> SUFFICES ASSUME NEW i \in 1..(n + 1)
               PROVE  proj'[canon'[i].req].status \in Lifecycle!Reach(To(canon'[i].type))
    BY DEF Covers
  <2>1. CASE i \in 1..n
    <3>1. /\ canon'[i] = canon[i] /\ canon[i].req \in Requests
          /\ proj[canon[i].req].status \in Lifecycle!Reach(To(canon[i].type))
          /\ To(canon[i].type) \in Statuses
      BY <1>4, <1>8, <1>10, <2>1, ToType DEF Covers
    <3>2. CASE canon[i].req = r
      <4>1. To(t) \in Lifecycle!Reach(To(canon[i].type))
        BY <1>1, <3>1, <3>2, ReachClosed
      <4> QED BY <1>16, <3>1, <3>2, <4>1
    <3>3. CASE canon[i].req # r
      BY <1>16, <3>1, <3>3
    <3> QED BY <3>2, <3>3
  <2>2. CASE i = n + 1
    BY <1>5, <1>8, <1>16, <2>2, ReachSelf, ToType
  <2> QED BY <1>9, <2>1, <2>2
<1>18. Backed(canon', proj', n + 1)
  <2> SUFFICES ASSUME NEW q \in Requests, proj'[q].status # "absent"
               PROVE  \E i \in 1..(n + 1) :
                         canon'[i].req = q /\ To(canon'[i].type) = proj'[q].status
    BY DEF Backed
  <2>1. CASE q = r
    <3>1. n + 1 \in 1..(n + 1)
      BY <1>8
    <3> QED BY <1>5, <1>8, <1>16, <2>1, <3>1
  <2>2. CASE q # r
    <3>1. PICK i \in 1..n : canon[i].req = q /\ To(canon[i].type) = proj[q].status
      BY <1>4, <1>16, <2>2 DEF Backed
    <3>2. i \in 1..(n + 1) /\ canon'[i] = canon[i]
      BY <1>8
    <3> QED BY <1>16, <2>2, <3>1, <3>2
  <2> QED BY <2>1, <2>2
<1> QED BY <1>8, <1>11, <1>13, <1>14, <1>15, <1>17, <1>18 DEF CleanInv

\* Every other step of the daemon leaves a clean log clean.
LEMMA StepClean ==
  ASSUME IInv, IInv', ChainInv, CleanInv, [Next]_vars
  PROVE  CleanInv'
<1> SUFFICES ASSUME interrupted' = 0 PROVE CleanInv'
  BY DEF CleanInv
<1>1. /\ TypeOK /\ ReplayInv /\ TailInv' /\ Len(canon) \in Nat /\ pos \in Nat
      /\ pos <= Len(canon)
  BY LenProperties DEF IInv, TypeOK, ReplayInv
<1>2. ASSUME NEW c, NEW n PROVE Backed(c, New, n)
  BY DEF Backed, New
<1>3. ASSUME NEW r \in Requests, NEW o \in Outcomes, Handler(r, o) \/ Recover(r, o)
      PROVE  CleanInv'
  <2>1. Recorded(r, o)
    BY <1>3, HandlerSteps
  <2> QED BY <2>1, RecordClean DEF Recorded
<1>4. CASE /\ UNCHANGED <<canon, eol, synced, interrupted, lastHash, scratch, pos, proj>>
           /\ phase' \in {"recovering", "up"} => phase \in {"recovering", "up"}
  BY <1>4 DEF CleanInv
<1>5. CASE Start
  BY <1>5 DEF Start, CleanInv
<1>6. CASE ReplayLine
  <2> DEFINE line == canon[pos + 1]
  <2>1. /\ phase' = "replaying" /\ UNCHANGED <<canon, eol, synced, interrupted>>
        /\ pos < Len(canon) /\ scratch' = Apply(scratch, line) /\ pos' = pos + 1
    BY <1>6 DEF ReplayLine, logVars
  <2>2. pos + 1 \in 1..Len(canon) /\ line \in Lines /\ pos + 1 \in 1..(pos + 1)
    BY <1>1, <2>1, ElementOfSeq DEF TypeOK
  <2>3. /\ line.req \in Requests /\ line.type \in EventTypes
        /\ line.by \in Identities /\ line.expires \in Nat
        /\ scratch \in [Requests -> Snapshots]
    BY <1>1, <2>2 DEF Lines, TypeOK
  <2>4. /\ scratch'[line.req].status = To(line.type)
        /\ \A q \in Requests \ {line.req} : scratch'[q] = scratch[q]
    <3> HIDE DEF line
    <3> QED BY <2>1, <2>3, ApplyFacts
  <2>5. Backed(canon, scratch', pos + 1)
    <3> SUFFICES ASSUME NEW q \in Requests, scratch'[q].status # "absent"
                 PROVE  \E i \in 1..(pos + 1) :
                           canon[i].req = q /\ To(canon[i].type) = scratch'[q].status
      BY DEF Backed
    <3>1. CASE q = line.req
      BY <2>2, <2>4, <3>1
    <3>2. CASE q # line.req
      <4>1. Backed(canon, scratch, pos)
        BY <2>1 DEF CleanInv
      <4>2. PICK i \in 1..pos : canon[i].req = q /\ To(canon[i].type) = scratch[q].status
        BY <2>4, <3>2, <4>1 DEF Backed
      <4>3. i \in 1..(pos + 1)
        BY <1>1
      <4> QED BY <2>4, <3>2, <4>2, <4>3
    <3> QED BY <3>1, <3>2
  <2> QED BY <2>1, <2>5 DEF CleanInv
<1>7. CASE Refuse
  <2>1. /\ phase' = "down" /\ scratch' = New /\ UNCHANGED <<canon, eol, synced, interrupted>>
    BY <1>7 DEF Refuse, EndOfReplay, logVars
  <2> QED BY <1>2, <2>1 DEF CleanInv
<1>8. CASE Adopt
  <2>1. /\ phase = "replaying" /\ pos = Len(canon) /\ proj' = scratch /\ scratch' = New
        /\ UNCHANGED <<canon, eol, synced, interrupted, lastHash>>
    BY <1>8 DEF Adopt, EndOfReplay
  <2>2. Covers(canon, proj', Len(canon))
    BY <1>1, <2>1 DEF ReplayInv, Covers
  <2>3. lastHash' = IdBefore(canon, Len(canon) + 1)
    BY <2>1 DEF ChainInv
  <2> QED BY <1>2, <2>1, <2>2, <2>3 DEF CleanInv
<1>9. CASE Crash
  <2>1. /\ Len(canon') \in Nat /\ Len(canon') <= Len(canon)
        /\ \A i \in 1..Len(canon') : canon'[i] = canon[i]
        /\ SameEvents(canon, canon', Len(canon'))
        /\ synced' = synced /\ synced \in 0..Len(canon') /\ interrupted' = interrupted
        /\ phase' = "down" /\ scratch' = New
    BY <1>9, CrashKeeps
  <2>2. synced = Len(canon) /\ CleanLines(canon)
    BY <2>1 DEF CleanInv
  <2>3. synced' = Len(canon') /\ Len(canon') = Len(canon)
    BY <1>1, <2>1, <2>2
  <2>4. CleanLines(canon')
    <3> SUFFICES ASSUME NEW i \in 1..Len(canon')
                 PROVE  /\ canon'[i].ok
                        /\ canon'[i].prev = IdBefore(canon', i)
                        /\ \E s \in Statuses : LegalAt(canon', i, s)
      BY DEF CleanLines
    <3>1. PICK s \in Statuses : LegalAt(canon, i, s)
      BY <2>2, <2>3 DEF CleanLines
    <3>2. LegalAt(canon', i, s) /\ IdBefore(canon', i) = IdBefore(canon, i)
      BY <2>1, <3>1, LegalStays
    <3>3. canon[i].ok /\ canon[i].prev = IdBefore(canon, i) /\ canon'[i] = canon[i]
      BY <2>1, <2>2, <2>3 DEF CleanLines
    <3> QED BY <3>2, <3>3
  <2>5. eol'
    BY <1>1, <2>1, <2>3 DEF TailInv
  <2> QED BY <1>2, <2>1, <2>3, <2>4, <2>5 DEF CleanInv
<1> QED
  BY <1>3, <1>4, <1>5, <1>6, <1>7, <1>8, <1>9
     DEF Next, vars, logVars, memVars, Launch, Serve, Clock

\* The daemon never writes itself a log that its next start-up refuses: without
\* an interrupted append, every line that is not too long for the scanner is
\* readable and its event applies (replayUnlocked, Rebuild).
THEOREM OnlyDamageRefused == Spec => []RefusesOnlyDamage
<1>1. Init => ChainInv /\ CleanInv
  BY DEF Init, LogInit, ChainInv, IdBefore, CleanInv, CleanLines, Backed, New
<1>2. IInv /\ ChainInv /\ CleanInv /\ [Next]_vars => IInv' /\ ChainInv' /\ CleanInv'
  BY StepIInv, StepChain, StepClean
<1>3. IInv /\ ChainInv /\ CleanInv => RefusesOnlyDamage
  <2> SUFFICES ASSUME IInv, ChainInv, CleanInv, Rejected, ~(interrupted > 0),
                      \A i \in 1..Len(canon) : ~canon[i].big
               PROVE  FALSE
    BY DEF RefusesOnlyDamage
  <2> DEFINE line == canon[pos + 1]
  <2>1. /\ TypeOK /\ ReplayInv /\ interrupted = 0 /\ pos \in Nat /\ Len(canon) \in Nat
        /\ pos < Len(canon) /\ ~(Readable(line, chain) /\ CanApply(scratch, line))
    BY LenProperties DEF IInv, TypeOK, Rejected
  <2>2. pos + 1 \in 1..Len(canon) /\ (pos + 1) - 1 = pos
    BY <2>1
  <2>3. CleanLines(canon) /\ Backed(canon, scratch, pos)
    BY <2>1 DEF CleanInv
  <2>4. Readable(line, chain)
    BY <2>2, <2>3 DEF Readable, CleanLines, ChainInv
  <2>5. PICK s \in Statuses : LegalAt(canon, pos + 1, s)
    BY <2>2, <2>3 DEF CleanLines
  <2>6. /\ line.req \in Requests /\ scratch[line.req].status \in Statuses
        /\ \A i \in 1..pos : canon[i].type \in EventTypes /\ To(canon[i].type) \in Statuses
    <3>1. \A i \in 1..pos : i \in 1..Len(canon)
      BY <2>1
    <3> QED BY <2>1, <2>2, <3>1, LineFields, ToType DEF TypeOK, Snapshots
  <2>7. scratch[line.req].status = s
    <3> DEFINE u == scratch[line.req].status
    <3>1. CASE \A k \in 1..pos : canon[k].req # line.req
      BY <2>2, <2>3, <2>5, <2>6, <3>1 DEF Backed, LegalAt
    <3>2. CASE \E k \in 1..pos : canon[k].req = line.req
      <4>1. PICK k \in 1..pos : canon[k].req = line.req
        BY <3>2
      <4>2. u \in Lifecycle!Reach(To(canon[k].type)) /\ s \in Lifecycle!Reach(To(canon[k].type))
        BY <2>1, <2>2, <2>5, <4>1 DEF ReplayInv, LegalAt
      <4>3. u # "absent" /\ s # "absent"
        BY <2>6, <4>2, NeverAbsent
      <4>4. PICK j \in 1..pos : canon[j].req = line.req /\ To(canon[j].type) = s
        BY <2>2, <2>5, <4>3 DEF LegalAt
      <4>5. PICK i \in 1..pos : canon[i].req = line.req /\ To(canon[i].type) = u
        BY <2>3, <2>6, <4>3 DEF Backed
      <4>6. u \in Lifecycle!Reach(s)
        BY <2>1, <4>4 DEF ReplayInv
      <4>7. s \in Lifecycle!Reach(u)
        BY <2>2, <2>5, <4>5 DEF LegalAt
      <4> HIDE DEF u
      <4>8. u \in Statuses
        BY <2>6 DEF u
      <4>9. u = s
        BY <4>6, <4>7, <4>8, ReachAntisymmetric
      <4> QED BY <4>9 DEF u
    <3> QED BY <3>1, <3>2
  <2>8. CanApply(scratch, line)
    BY <2>5, <2>7 DEF LegalAt, CanApply
  <2> QED BY <2>1, <2>4, <2>8
<1> QED BY InitIInv, <1>1, <1>2, <1>3, PTL DEF Spec

-----------------------------------------------------------------------------
(***************************************************************************)
(* The projection that the handlers maintain one Apply at a time is the    *)
(* one that Rebuild makes of the accepted lines.  The provers know no      *)
(* induction, so what the recursive functions compute is established with  *)
(* least counterexamples.                                                  *)
(***************************************************************************)
\* A set of numbers that holds 0 and, with the predecessor, every number up to
\* n, holds n.
LEMMA UpTo ==
  ASSUME NEW S, NEW n \in Nat, 0 \in S,
         \A i \in 1..n : i - 1 \in S => i \in S
  PROVE  \A i \in 0..n : i \in S
<1> DEFINE Bad == {i \in 0..n : i \notin S}
<1> SUFFICES ASSUME Bad # {} PROVE FALSE
  OBVIOUS
<1>1. Bad \subseteq Nat
  OBVIOUS
<1>2. \E x \in Bad : \A y \in Bad : ~(<<y, x>> \in OpToRel(<, Nat))
  <2> HIDE DEF Bad
  <2> QED BY <1>1, NatLessThanWellFounded, WFMin, Zenon
<1>3. PICK x \in Bad : \A y \in Bad : ~(<<y, x>> \in OpToRel(<, Nat))
  BY <1>2, Zenon
<1>4. \A y \in Bad : ~(y < x)
  BY <1>1, <1>3 DEF OpToRel
<1>5. x \in 1..n /\ x - 1 \in 0..n /\ x - 1 < x
  OBVIOUS
<1>6. x - 1 \notin Bad
  BY <1>4, <1>5
<1> QED BY <1>5, <1>6

-----------------------------------------------------------------------------
(* Vouched *)

\* The function kept of Vouched, for the first n lines of c.
Keep(s, e, ids) == IF e.id \in ids THEN Append(s, e) ELSE s

IsKept(f, c, ids, n) ==
  f = [i \in 0..n |-> IF i = 0 THEN << >> ELSE Keep(f[i-1], c[i], ids)]

LEMMA KeptAt ==
  ASSUME NEW f, NEW c, NEW ids, NEW n \in Nat, IsKept(f, c, ids, n)
  PROVE  /\ f[0] = << >>
         /\ \A i \in 1..n : f[i] = Keep(f[i-1], c[i], ids)
<1> DEFINE E(i) == IF i = 0 THEN << >> ELSE Keep(f[i-1], c[i], ids)
<1>1. f = [i \in 0..n |-> E(i)]
  BY DEF IsKept
<1>2. \A i \in 0..n : f[i] = E(i)
  <2> HIDE DEF E
  <2> QED BY <1>1
<1>3. 0 \in 0..n /\ \A i \in 1..n : i \in 0..n /\ i # 0
  OBVIOUS
<1> QED BY <1>2, <1>3

LEMMA KeptExists ==
  ASSUME NEW c, NEW ids, NEW n \in Nat
  PROVE  \E f : IsKept(f, c, ids, n)
<1> DEFINE S == {i \in Nat : \E f : IsKept(f, c, ids, i)}
<1>1. 0 \in S
  <2>1. IsKept([i \in 0..0 |-> << >>], c, ids, 0)
    BY DEF IsKept
  <2> QED BY <2>1
<1>2. ASSUME NEW i \in 1..n, i - 1 \in S
      PROVE  i \in S
  <2>1. PICK f : IsKept(f, c, ids, i - 1)
    BY <1>2
  <2> DEFINE g == [j \in 0..i |->
                     IF j < i THEN f[j]
                     ELSE Keep(f[i-1], c[i], ids)]
  <2>2. \A j \in 0..i : g[j] = IF j = 0 THEN << >>
                               ELSE Keep(g[j-1], c[j], ids)
    <3>1. ASSUME NEW j \in 0..i, j < i
          PROVE  g[j] = IF j = 0 THEN << >>
                        ELSE Keep(g[j-1], c[j], ids)
      <4>1. f[j] = IF j = 0 THEN << >>
                   ELSE Keep(f[j-1], c[j], ids)
        BY <2>1, <3>1, KeptAt
      <4>2. g[j] = f[j] /\ (j > 0 => g[j-1] = f[j-1])
        BY <3>1
      <4> HIDE DEF g
      <4> QED BY <4>1, <4>2
    <3>2. g[i] = Keep(g[i-1], c[i], ids)
      OBVIOUS
    <3> HIDE DEF g
    <3> QED BY <3>1, <3>2
  <2>3. IsKept(g, c, ids, i)
    <3>1. g = [j \in 0..i |-> g[j]]
      OBVIOUS
    <3> HIDE DEF g
    <3> QED BY <2>2, <3>1 DEF IsKept
  <2> HIDE DEF g
  <2> QED BY <2>3
<1> HIDE DEF S
<1>3. n \in S
  BY <1>1, <1>2, UpTo
<1> QED BY <1>3 DEF S

LEMMA VouchedKept ==
  ASSUME NEW c, NEW ids, Len(c) \in Nat
  PROVE  \E f : IsKept(f, c, ids, Len(c)) /\ Vouched(c, ids) = f[Len(c)]
<1> DEFINE F == CHOOSE f : IsKept(f, c, ids, Len(c))
<1>1. IsKept(F, c, ids, Len(c))
  BY KeptExists, Zenon
<1>2. Vouched(c, ids) = F[Len(c)]
  BY Zenon DEF Vouched, IsKept, Keep
<1> QED BY <1>1, <1>2

\* What is kept of the first n lines depends on these lines only.
LEMMA KeptAgrees ==
  ASSUME NEW n \in Nat, NEW m \in Nat, NEW k \in Nat, n <= m, n <= k,
         NEW c, NEW d, NEW ids, NEW jds, NEW f, NEW g,
         IsKept(f, c, ids, m), IsKept(g, d, jds, k),
         \A i \in 1..n : c[i] = d[i] /\ (c[i].id \in ids <=> d[i].id \in jds)
  PROVE  f[n] = g[n]
<1> DEFINE S == {i \in 0..n : f[i] = g[i]}
<1>1. 0 \in S
  BY KeptAt
<1>2. ASSUME NEW i \in 1..n, i - 1 \in S
      PROVE  i \in S
  <2>1. /\ f[i] = Keep(f[i-1], c[i], ids)
        /\ g[i] = Keep(g[i-1], d[i], jds)
    BY KeptAt
  <2> QED BY <1>2, <2>1 DEF Keep
<1> HIDE DEF S
<1>3. n \in S
  BY <1>1, <1>2, UpTo
<1> QED BY <1>3 DEF S

LEMMA VouchedType ==
  ASSUME NEW T, NEW c \in Seq(T), NEW ids
  PROVE  Vouched(c, ids) \in Seq(T)
<1> DEFINE n == Len(c)
<1>1. n \in Nat /\ \A i \in 1..n : c[i] \in T
  OBVIOUS
<1>2. PICK f : IsKept(f, c, ids, n) /\ Vouched(c, ids) = f[n]
  BY <1>1, VouchedKept
<1> HIDE DEF n
<1>3. /\ f[0] = << >>
      /\ \A i \in 1..n : f[i] = Keep(f[i-1], c[i], ids)
  BY <1>1, <1>2, KeptAt
<1> DEFINE X == Seq(T)
<1>4. << >> \in X /\ \A s \in X, e \in T : Keep(s, e, ids) \in X
  BY DEF Keep
<1> HIDE DEF X
<1> DEFINE S == {i \in 0..n : f[i] \in X}
<1>5. 0 \in S
  BY <1>1, <1>3, <1>4
<1>6. ASSUME NEW i \in 1..n, i - 1 \in S
      PROVE  i \in S
  BY <1>1, <1>3, <1>4, <1>6
<1> HIDE DEF S
<1>7. \A i \in 0..n : i \in S
  <2>1. n \in Nat /\ \A i \in 1..n : i - 1 \in S => i \in S
    BY <1>1, <1>6
  <2> QED BY <2>1, <1>5, UpTo
<1>8. n \in S
  BY <1>1, <1>7
<1> QED BY <1>2, <1>8 DEF S, X

\* A line more.
LEMMA VouchedAppend ==
  ASSUME NEW T, NEW c \in Seq(T), NEW e \in T, NEW ids, NEW jds,
         \A i \in 1..Len(c) : c[i].id \in ids <=> c[i].id \in jds
  PROVE  Vouched(Append(c, e), jds) =
           IF e.id \in jds THEN Append(Vouched(c, ids), e) ELSE Vouched(c, ids)
<1> DEFINE d == Append(c, e)
           n == Len(c)
<1>1. /\ n \in Nat /\ Len(d) = n + 1 /\ d[n + 1] = e
      /\ \A i \in 1..n : d[i] = c[i]
  OBVIOUS
<1> HIDE DEF d, n
<1>2. PICK f : IsKept(f, c, ids, n) /\ Vouched(c, ids) = f[n]
  BY <1>1, VouchedKept DEF n
<1>3. PICK g : IsKept(g, d, jds, n + 1) /\ Vouched(d, jds) = g[n + 1]
  <2>1. Len(d) \in Nat
    BY <1>1
  <2>2. \E g : IsKept(g, d, jds, Len(d)) /\ Vouched(d, jds) = g[Len(d)]
    BY <2>1, VouchedKept, Zenon
  <2> QED BY <1>1, <2>2
<1>4. f[n] = g[n]
  BY <1>1, <1>2, <1>3, KeptAgrees DEF n
<1>5. g[n + 1] = Keep(g[n], e, jds)
  BY <1>1, <1>3, KeptAt
<1> QED BY <1>2, <1>3, <1>4, <1>5 DEF d, Keep

\* All of the lines.
LEMMA VouchedAll ==
  ASSUME NEW T, NEW c \in Seq(T), NEW ids, \A i \in 1..Len(c) : c[i].id \in ids
  PROVE  Vouched(c, ids) = c
<1> DEFINE n == Len(c)
           g == [i \in 0..n |-> SubSeq(c, 1, i)]
<1>1. n \in Nat
  OBVIOUS
<1>2. \A i \in 1..n : SubSeq(c, 1, i) = Append(SubSeq(c, 1, i-1), c[i])
  OBVIOUS
<1>3. SubSeq(c, 1, 0) = << >> /\ SubSeq(c, 1, n) = c
  OBVIOUS
<1>4. IsKept(g, c, ids, n)
  BY <1>2, <1>3 DEF IsKept, Keep
<1>5. PICK f : IsKept(f, c, ids, n) /\ Vouched(c, ids) = f[n]
  BY <1>1, VouchedKept
<1>6. f[n] = g[n]
  <2> HIDE DEF g
  <2> QED BY <1>1, <1>4, <1>5, KeptAgrees
<1> QED BY <1>1, <1>3, <1>5, <1>6

-----------------------------------------------------------------------------
(* Rebuild *)

\* The function after of Rebuild, for the first n events of h.
Fold(q, e) ==
  IF q.ok /\ CanApply(q.proj, e)
  THEN [ok |-> TRUE, proj |-> Apply(q.proj, e)]
  ELSE [ok |-> FALSE, proj |-> q.proj]

Nothing == [ok |-> TRUE, proj |-> New]

IsAfter(f, h, n) == f = [i \in 0..n |-> IF i = 0 THEN Nothing ELSE Fold(f[i-1], h[i])]

LEMMA AfterAt ==
  ASSUME NEW f, NEW h, NEW n \in Nat, IsAfter(f, h, n)
  PROVE  /\ f[0] = Nothing
         /\ \A i \in 1..n : f[i] = Fold(f[i-1], h[i])
<1> DEFINE E(i) == IF i = 0 THEN Nothing ELSE Fold(f[i-1], h[i])
<1>1. f = [i \in 0..n |-> E(i)]
  BY DEF IsAfter
<1>2. \A i \in 0..n : f[i] = E(i)
  <2> HIDE DEF E
  <2> QED BY <1>1
<1>3. 0 \in 0..n /\ \A i \in 1..n : i \in 0..n /\ i # 0
  OBVIOUS
<1> QED BY <1>2, <1>3

LEMMA AfterExists ==
  ASSUME NEW h, NEW n \in Nat
  PROVE  \E f : IsAfter(f, h, n)
<1> DEFINE S == {i \in Nat : \E f : IsAfter(f, h, i)}
<1>1. 0 \in S
  <2>1. IsAfter([i \in 0..0 |-> Nothing], h, 0)
    BY DEF IsAfter
  <2> QED BY <2>1
<1>2. ASSUME NEW i \in 1..n, i - 1 \in S
      PROVE  i \in S
  <2>1. PICK f : IsAfter(f, h, i - 1)
    BY <1>2
  <2> DEFINE g == [j \in 0..i |-> IF j < i THEN f[j] ELSE Fold(f[i-1], h[i])]
  <2>2. \A j \in 0..i : g[j] = IF j = 0 THEN Nothing ELSE Fold(g[j-1], h[j])
    <3>1. ASSUME NEW j \in 0..i, j < i
          PROVE  g[j] = IF j = 0 THEN Nothing ELSE Fold(g[j-1], h[j])
      <4>1. f[j] = IF j = 0 THEN Nothing ELSE Fold(f[j-1], h[j])
        BY <2>1, <3>1, AfterAt
      <4>2. g[j] = f[j] /\ (j > 0 => g[j-1] = f[j-1])
        BY <3>1
      <4> HIDE DEF g
      <4> QED BY <4>1, <4>2
    <3>2. g[i] = Fold(g[i-1], h[i])
      OBVIOUS
    <3> HIDE DEF g
    <3> QED BY <3>1, <3>2
  <2>3. IsAfter(g, h, i)
    <3>1. g = [j \in 0..i |-> g[j]]
      OBVIOUS
    <3> HIDE DEF g
    <3> QED BY <2>2, <3>1 DEF IsAfter
  <2> HIDE DEF g
  <2> QED BY <2>3
<1> HIDE DEF S
<1>3. n \in S
  BY <1>1, <1>2, UpTo
<1> QED BY <1>3 DEF S

LEMMA RebuildAfter ==
  ASSUME NEW h, Len(h) \in Nat
  PROVE  \E f : IsAfter(f, h, Len(h)) /\ Rebuild(h) = f[Len(h)]
<1> DEFINE F == CHOOSE f : IsAfter(f, h, Len(h))
<1>1. IsAfter(F, h, Len(h))
  BY AfterExists, Zenon
<1>2. Rebuild(h) = F[Len(h)]
  BY Zenon DEF Rebuild, IsAfter, Fold, Nothing
<1> QED BY <1>1, <1>2

\* The first n events alone decide what comes after them.
LEMMA AfterAgrees ==
  ASSUME NEW n \in Nat, NEW m \in Nat, NEW k \in Nat, n <= m, n <= k,
         NEW h, NEW d, NEW f, NEW g, IsAfter(f, h, m), IsAfter(g, d, k),
         \A i \in 1..n : h[i] = d[i]
  PROVE  f[n] = g[n]
<1> DEFINE S == {i \in 0..n : f[i] = g[i]}
<1>1. 0 \in S
  BY AfterAt
<1>2. ASSUME NEW i \in 1..n, i - 1 \in S
      PROVE  i \in S
  <2>1. f[i] = Fold(f[i-1], h[i]) /\ g[i] = Fold(g[i-1], d[i])
    BY AfterAt
  <2> QED BY <1>2, <2>1
<1> HIDE DEF S
<1>3. n \in S
  BY <1>1, <1>2, UpTo
<1> QED BY <1>3 DEF S

\* Rebuild of no events, and of one more.
LEMMA RebuildEmpty == Rebuild(<< >>) = Nothing
<1>1. Len(<< >>) = 0
  OBVIOUS
<1>2. PICK f : IsAfter(f, << >>, 0) /\ Rebuild(<< >>) = f[0]
  BY <1>1, RebuildAfter
<1> QED BY <1>2, AfterAt

LEMMA RebuildAppend ==
  ASSUME NEW T, NEW h \in Seq(T), NEW e \in T
  PROVE  Rebuild(Append(h, e)) = Fold(Rebuild(h), e)
<1> DEFINE d == Append(h, e)
           n == Len(h)
<1>1. /\ n \in Nat /\ Len(d) = n + 1 /\ d[n + 1] = e
      /\ \A i \in 1..n : d[i] = h[i]
  OBVIOUS
<1> HIDE DEF d, n
<1>2. PICK f : IsAfter(f, h, n) /\ Rebuild(h) = f[n]
  BY <1>1, RebuildAfter DEF n
<1>3. PICK g : IsAfter(g, d, n + 1) /\ Rebuild(d) = g[n + 1]
  <2>1. Len(d) \in Nat
    BY <1>1
  <2>2. \E g : IsAfter(g, d, Len(d)) /\ Rebuild(d) = g[Len(d)]
    BY <2>1, RebuildAfter, Zenon
  <2> QED BY <1>1, <2>2
<1>4. f[n] = g[n]
  BY <1>1, <1>2, <1>3, AfterAgrees
<1>5. g[n + 1] = Fold(g[n], e)
  BY <1>1, <1>3, AfterAt
<1> QED BY <1>2, <1>3, <1>4, <1>5 DEF d

-----------------------------------------------------------------------------
(***************************************************************************)
(* The invariant behind MemoryIsCanon.  Hashes are fresh, so a new line is *)
(* accepted if and only if its own append succeeded, and what replay has   *)
(* built so far is Rebuild of the lines it has read.                       *)
(***************************************************************************)
CanonInv ==
  /\ accepted \subseteq 0..hashes
  /\ \A i \in 1..Len(canon) : canon[i].id <= hashes
  /\ Rebuild(SubSeq(canon, 1, pos)) = [ok |-> TRUE, proj |-> scratch]
  /\ MemoryIsCanon

\* Apply looks at a line's event only.
LEMMA ApplyLine ==
  ASSUME NEW p, NEW t, NEW r, NEW a, NEW exp, NEW big, NEW o
  PROVE  /\ Apply(p, NewLine(t, r, a, exp, big, o)) = Apply(p, Event(t, r, a, exp))
         /\ CanApply(p, NewLine(t, r, a, exp, big, o)) <=> p[r].status \in From(t)
<1> DEFINE l == NewLine(t, r, a, exp, big, o)
           e == Event(t, r, a, exp)
<1>1. /\ l.type = t /\ l.req = r /\ l.by = a /\ l.expires = exp
      /\ e.type = t /\ e.req = r /\ e.by = a /\ e.expires = exp
  BY DEF NewLine, Event
<1> HIDE DEF l, e
<1>2. Apply(p, l) = Apply(p, e)
  BY <1>1 DEF Apply
<1>3. CanApply(p, l) <=> p[r].status \in From(t)
  BY <1>1 DEF CanApply
<1> QED BY <1>2, <1>3 DEF l, e

\* A step that records an event keeps memory and log together.
LEMMA RecordCanon ==
  ASSUME IInv, IInv', CanonInv,
         NEW t \in EventTypes, NEW r \in Requests, NEW a \in Identities,
         NEW exp \in Nat, NEW big \in BOOLEAN, NEW o \in Outcomes,
         RecordStep(t, r, a, exp, big, o)
  PROVE  CanonInv'
<1> DEFINE line == NewLine(t, r, a, exp, big, o)
           n == Len(canon)
<1>1. /\ phase \in {"recovering", "up"} /\ proj[r].status \in From(t)
      /\ phase' = phase \/ (phase' = "down" /\ o # "nil")
      /\ Appended(line, o) /\ Projected(t, r, a, exp, o) /\ UNCHANGED <<scratch, pos>>
  BY DEF RecordStep
<1>2. /\ TypeOK /\ TypeOK' /\ pos = 0 /\ hashes \in Nat
      /\ canon \in Seq(Lines) /\ canon' \in Seq(Lines) /\ n \in Nat
  BY <1>1, LenProperties DEF IInv, ReplayInv, TypeOK
<1>3. /\ line.id = hashes + 1
      /\ Apply(proj, line) = Apply(proj, Event(t, r, a, exp))
      /\ CanApply(proj, line)
  <2>1. line.id = hashes + 1
    BY DEF NewLine
  <2> HIDE DEF line
  <2>2. /\ Apply(proj, line) = Apply(proj, Event(t, r, a, exp))
        /\ CanApply(proj, line) <=> proj[r].status \in From(t)
    BY ApplyLine, Zenon DEF line
  <2> QED BY <1>1, <2>1, <2>2
<1> HIDE DEF line
<1>4. /\ Len(canon') \in Nat /\ SameEvents(canon, canon', n)
      /\ \A i \in 1..n : canon'[i].ok => canon[i].ok
      /\ \/ Len(canon') = n
         \/ Len(canon') = n + 1 /\ canon'[n + 1] = line
  BY <1>1, <1>2, AppendedFacts
<1>5. /\ hashes' \in Nat /\ hashes <= hashes' /\ (canon' # canon => hashes' = hashes + 1)
      /\ accepted' \subseteq 0..hashes'
      /\ o = "nil" => accepted' = accepted \cup {hashes + 1}
      /\ o # "nil" => accepted' = accepted
  <2>1. /\ hashes' \in {hashes, hashes + 1} /\ (canon' # canon => hashes' = hashes + 1)
        /\ o = "nil" => accepted' = accepted \cup {hashes + 1} /\ hashes' = hashes + 1
        /\ o # "nil" => accepted' = accepted
    BY <1>1 DEF Appended
  <2>2. hashes' \in Nat /\ hashes <= hashes'
    BY <1>2, <2>1
  <2>3. \A h \in 0..hashes : h \in 0..hashes'
    BY <1>2, <2>2
  <2>4. o = "nil" => hashes + 1 \in 0..hashes'
    BY <1>2, <2>1
  <2> QED BY <2>1, <2>2, <2>3, <2>4 DEF CanonInv
<1>6. \A i \in 1..Len(canon') : canon'[i].id <= hashes'
  <2>1. ASSUME NEW i \in 1..n PROVE canon'[i].id <= hashes'
    <3>1. canon'[i].id = canon[i].id /\ canon[i].id <= hashes /\ canon[i].id \in Nat
      <4>1. canon[i] \in Lines
        BY <1>2, ElementOfSeq
      <4>2. canon[i].id \in Nat
        BY <4>1 DEF Lines
      <4>3. canon'[i].id = canon[i].id
        BY <1>4 DEF SameEvents
      <4> QED BY <4>2, <4>3 DEF CanonInv
    <3> QED BY <1>2, <1>5, <3>1
  <2>2. Len(canon') = n + 1 /\ canon'[n + 1] = line => canon'[n + 1].id <= hashes'
    <3>1. Len(canon') = n + 1 => canon' # canon
      BY <1>2
    <3> QED BY <1>2, <1>3, <1>5, <3>1
  <2> QED BY <1>2, <1>4, <2>1, <2>2
<1>7. Rebuild(SubSeq(canon', 1, pos')) = [ok |-> TRUE, proj |-> scratch']
  <2>1. SubSeq(canon', 1, 0) = << >> /\ SubSeq(canon, 1, 0) = << >>
    BY <1>2
  <2> QED BY <1>1, <1>2, <2>1 DEF CanonInv
<1>8. MemoryIsCanon'
  <2> SUFFICES ASSUME phase' \in {"recovering", "up"},
                      \A i \in 1..Len(canon') : canon'[i].ok
               PROVE  Rebuild(Vouched(canon', accepted')) = [ok |-> TRUE, proj |-> proj']
    BY DEF MemoryIsCanon
  <2>1. ~Glued
    <3> SUFFICES ASSUME Glued PROVE FALSE
      OBVIOUS
    <3>1. n \in 1..Len(canon') /\ canon'[n] = [canon[n] EXCEPT !.ok = FALSE] /\ canon[n] \in Lines
      BY <1>2, ElementOfSeq DEF Glued
    <3>2. ~canon'[n].ok
      BY <3>1 DEF Lines
    <3> QED BY <3>1, <3>2
  <2>2. \A i \in 1..n : canon[i].ok
    <3>1. n <= Len(canon')
      BY <1>2, <1>4
    <3>2. \A i \in 1..n : i \in 1..Len(canon')
      BY <1>2, <1>4, <3>1
    <3> QED BY <1>4, <3>2
  <2>3. Rebuild(Vouched(canon, accepted)) = [ok |-> TRUE, proj |-> proj]
    BY <1>1, <2>2 DEF CanonInv, MemoryIsCanon
  <2>4. CASE o = "unwritten" /\ canon' = canon
    BY <1>1, <1>5, <2>3, <2>4 DEF Projected
  <2>5. CASE Added(line)
    <3>1. canon' = Append(canon, line) /\ line \in Lines
      <4>1. Len(canon') = n + 1 /\ \A i \in 1..n : canon'[i] = canon[i]
        BY <2>5 DEF Added
      <4>2. canon'[n + 1] = line
        BY <2>5 DEF Added
      <4>3. line \in Lines
        BY <1>2, <4>1, <4>2, ElementOfSeq
      <4> QED BY <1>2, <4>1, <4>2, <4>3, AppendProperties, SeqEqual
    <3>2. \A i \in 1..n : canon[i].id \in accepted <=> canon[i].id \in accepted'
      <4>1. \A i \in 1..n : canon[i].id # hashes + 1
        BY <1>2 DEF CanonInv
      <4> QED BY <1>5, <4>1
    <3>3. line.id \in accepted' <=> o = "nil"
      BY <1>2, <1>3, <1>5 DEF CanonInv
    <3>4. Vouched(canon', accepted') = IF o = "nil" THEN Append(Vouched(canon, accepted), line)
                                       ELSE Vouched(canon, accepted)
      <4>1. Vouched(Append(canon, line), accepted') =
              IF line.id \in accepted' THEN Append(Vouched(canon, accepted), line)
              ELSE Vouched(canon, accepted)
        BY <1>2, <3>1, <3>2, VouchedAppend
      <4> QED BY <3>1, <3>3, <4>1
    <3>5. CASE o = "nil"
      <4>1. Vouched(canon, accepted) \in Seq(Lines)
        BY <1>2, VouchedType
      <4>2. Rebuild(Vouched(canon', accepted')) = Fold(Rebuild(Vouched(canon, accepted)), line)
        BY <3>1, <3>4, <3>5, <4>1, RebuildAppend
      <4>3. proj' = Apply(proj, line) /\ CanApply(proj, line)
        BY <1>1, <1>3, <3>5 DEF Projected
      <4> QED BY <2>3, <4>2, <4>3 DEF Fold
    <3>6. CASE o # "nil"
      BY <1>1, <2>3, <3>4, <3>6 DEF Projected
    <3> QED BY <3>5, <3>6
  <2> QED BY <1>1, <2>1, <2>4, <2>5 DEF Appended
<1> QED BY <1>5, <1>6, <1>7, <1>8 DEF CanonInv

LEMMA StepCanon ==
  ASSUME IInv, IInv', CanonInv, [Next]_vars
  PROVE  CanonInv'
<1>1. /\ TypeOK /\ canon \in Seq(Lines) /\ Len(canon) \in Nat
      /\ pos \in Nat /\ pos <= Len(canon) /\ hashes \in Nat
      /\ \A i \in 1..Len(canon) : canon[i] \in Lines
  BY LenProperties, ElementOfSeq DEF IInv, TypeOK, ReplayInv
<1>2. ASSUME NEW r \in Requests, NEW o \in Outcomes, Handler(r, o) \/ Recover(r, o)
      PROVE  CanonInv'
  <2>1. Recorded(r, o)
    BY <1>2, HandlerSteps
  <2> QED BY <2>1, RecordCanon DEF Recorded
<1>3. CASE /\ UNCHANGED <<canon, accepted, hashes, pos, scratch, proj>>
           /\ phase' \in {"recovering", "up"} => phase \in {"recovering", "up"}
  BY <1>3 DEF CanonInv, MemoryIsCanon
<1>4. \A c \in Seq(Lines) : SubSeq(c, 1, 0) = << >>
  OBVIOUS
<1>5. CASE ReplayLine
  <2> DEFINE line == canon[pos + 1]
  <2>1. /\ phase = "replaying" /\ phase' = phase /\ UNCHANGED <<canon, accepted, hashes, proj>>
        /\ pos < Len(canon) /\ CanApply(scratch, line)
        /\ scratch' = Apply(scratch, line) /\ pos' = pos + 1
    BY <1>5 DEF ReplayLine, logVars
  <2>2. /\ line \in Lines /\ SubSeq(canon, 1, pos) \in Seq(Lines)
        /\ SubSeq(canon, 1, pos + 1) = Append(SubSeq(canon, 1, pos), line)
    BY <1>1, <2>1
  <2> HIDE DEF line
  <2>3. Rebuild(SubSeq(canon', 1, pos')) = Fold(Rebuild(SubSeq(canon, 1, pos)), line)
    BY <2>1, <2>2, RebuildAppend
  <2>4. Rebuild(SubSeq(canon', 1, pos')) = [ok |-> TRUE, proj |-> scratch']
    <3>1. Rebuild(SubSeq(canon, 1, pos)) = [ok |-> TRUE, proj |-> scratch]
      BY DEF CanonInv
    <3>2. Fold([ok |-> TRUE, proj |-> scratch], line) = [ok |-> TRUE, proj |-> scratch']
      BY <2>1 DEF Fold
    <3> QED BY <2>3, <3>1, <3>2
  <2> QED BY <2>1, <2>4 DEF CanonInv, MemoryIsCanon
<1>6. CASE Refuse
  <2>1. /\ phase' = "down" /\ scratch' = New /\ pos' = 0
        /\ UNCHANGED <<canon, accepted, hashes>>
    BY <1>6 DEF Refuse, EndOfReplay, logVars
  <2>2. Rebuild(SubSeq(canon', 1, pos')) = [ok |-> TRUE, proj |-> scratch']
    BY <1>1, <1>4, <2>1, RebuildEmpty DEF Nothing
  <2> QED BY <2>1, <2>2 DEF CanonInv, MemoryIsCanon
<1>7. CASE Adopt
  <2>1. /\ phase' = "recovering" /\ pos = Len(canon)
        /\ proj' = scratch /\ scratch' = New /\ pos' = 0
        /\ accepted' = {canon[i].id : i \in 1..Len(canon)}
        /\ UNCHANGED <<canon, hashes>>
    BY <1>7 DEF Adopt, EndOfReplay
  <2>2. Rebuild(SubSeq(canon', 1, pos')) = [ok |-> TRUE, proj |-> scratch']
    BY <1>1, <1>4, <2>1, RebuildEmpty DEF Nothing
  <2>3. SubSeq(canon, 1, pos) = canon
    BY <1>1, <2>1
  <2>4. Vouched(canon, accepted') = canon
    BY <1>1, <2>1, VouchedAll
  <2>5. MemoryIsCanon'
    BY <2>1, <2>3, <2>4 DEF CanonInv, MemoryIsCanon
  <2>6. accepted' \subseteq 0..hashes'
    <3>1. \A i \in 1..Len(canon) : canon[i].id \in Nat
      BY <1>1 DEF Lines
    <3> QED BY <1>1, <2>1, <3>1 DEF CanonInv
  <2> QED BY <2>1, <2>2, <2>5, <2>6 DEF CanonInv
<1>8. CASE Crash
  <2>1. /\ Len(canon') \in Nat /\ Len(canon') <= Len(canon)
        /\ \A i \in 1..Len(canon') : canon'[i] = canon[i]
        /\ UNCHANGED <<accepted, hashes>>
        /\ phase' = "down" /\ pos' = 0 /\ scratch' = New
    BY <1>8, CrashKeeps
  <2>2. canon' \in Seq(Lines)
    BY DEF IInv, TypeOK
  <2>3. Rebuild(SubSeq(canon', 1, pos')) = [ok |-> TRUE, proj |-> scratch']
    BY <1>4, <2>1, <2>2, RebuildEmpty DEF Nothing
  <2>4. \A i \in 1..Len(canon') : canon'[i].id <= hashes'
    BY <1>1, <2>1 DEF CanonInv
  <2> QED BY <2>1, <2>3, <2>4 DEF CanonInv, MemoryIsCanon
<1> QED
  BY <1>2, <1>3, <1>5, <1>6, <1>7, <1>8
     DEF Next, vars, logVars, memVars, Launch, Start, Serve, Clock

\* The projection that handlers and recovery maintain one Apply at a time is the
\* one Rebuild makes of the accepted lines, whatever lines failed appends have
\* left between them, as long as every line decodes (log.Append and
\* projection.Apply in every handler, Rebuild).
THEOREM MemoryMatchesLog == Spec => []MemoryIsCanon
<1>1. Init => CanonInv
  <2> SUFFICES ASSUME Init PROVE CanonInv
    OBVIOUS
  <2>1. /\ canon = << >> /\ accepted = {} /\ hashes = 0 /\ pos = 0
        /\ scratch = New /\ phase = "down"
    BY DEF Init, LogInit
  <2>2. SubSeq(canon, 1, pos) = << >>
    BY <2>1
  <2>3. Rebuild(SubSeq(canon, 1, pos)) = [ok |-> TRUE, proj |-> scratch]
    BY <2>1, <2>2, RebuildEmpty DEF Nothing
  <2> QED BY <2>1, <2>3 DEF CanonInv, MemoryIsCanon
<1>2. IInv /\ CanonInv /\ [Next]_vars => IInv' /\ CanonInv'
  BY StepIInv, StepCanon
<1>3. CanonInv => MemoryIsCanon
  BY DEF CanonInv
<1> QED BY InitIInv, <1>1, <1>2, <1>3, PTL DEF Spec
=============================================================================
