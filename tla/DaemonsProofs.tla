--------------------------- MODULE DaemonsProofs ----------------------------
(***************************************************************************)
(* Proofs about Daemons, for any number of requests and clients and every  *)
(* value of the bounds, when crashes lose no lines.                        *)
(***************************************************************************)
EXTENDS Daemons, SequenceTheorems, TLAPS

USE DaemonsAssumption

-----------------------------------------------------------------------------
(***************************************************************************)
(* The two daemons are alike, so what is said of a daemon is said of its   *)
(* memory, as a record, and of a file.                                     *)
(***************************************************************************)
Mem1 == [phase |-> phase1, proj |-> proj1, scratch |-> scratch1, pos |-> pos1,
         exec |-> exec1, hash |-> lastHash1]
Mem2 == [phase |-> phase2, proj |-> proj2, scratch |-> scratch2, pos |-> pos2,
         exec |-> exec2, hash |-> lastHash2]

Reach(s) == D1!Lifecycle!Reach(s)

\* The hash that NewLog finds in file c.
LastHash(c) == IF c = << >> THEN 0 ELSE c[Len(c)].id

\* Every line of c decodes and carries the hash of the line before.
Chained(c) ==
  \A i \in 1..Len(c) : c[i].ok /\ c[i].prev = (IF i = 1 THEN 0 ELSE c[i-1].id)

\* Projection p is what the first n lines of c make it: past every one of them,
\* and at one of them.
Shows(c, p, n) ==
  /\ \A i \in 1..n : p[c[i].req].status \in Reach(D1!To(c[i].type))
  /\ \A r \in Requests :
        \/ p[r].status = "absent"
        \/ \E i \in 1..n : c[i].req = r /\ D1!To(c[i].type) = p[r].status

\* The file and its hashes.
FileInv ==
  /\ canon \in Seq(D1!Lines)
  /\ eol \in BOOLEAN /\ (~eol => Len(canon) > 0)
  /\ hashes \in Nat
  /\ \A i \in 1..Len(canon) : canon[i].id \in 1..hashes

MemTypes(v, k) ==
  /\ v.phase \in D1!Phases
  /\ v.proj \in [Requests -> D1!Snapshots]
  /\ v.scratch \in [Requests -> D1!Snapshots]
  /\ v.pos \in Nat
  /\ v.exec \in [Requests -> D1!ExecStates]
  /\ v.hash \in 0..k

\* What a daemon with memory v knows of a file that is still chained.  While it
\* replays, the lines it has read.  Afterwards the first n lines, for some n,
\* and all of them if the last one is the one that its next line will name.
MemInv(v, c) ==
  /\ v.phase # "replaying" => v.pos = 0 /\ v.scratch = D1!New
  /\ \A r \in Requests : v.exec[r] # "idle" =>
        v.phase = "up" /\ v.proj[r].status = "executing"
  /\ Chained(c) =>
       /\ v.pos <= Len(c) /\ Shows(c, v.scratch, v.pos)
       /\ v.phase \in {"recovering", "up"} =>
            \E n \in 0..Len(c) : Shows(c, v.proj, n) /\ (v.hash = LastHash(c) => n = Len(c))

\* Launches of r that have happened or that a handler is about to make.
Armed(v, r) == IF v.exec[r] = "started" THEN 1 ELSE 0

Started(c, r) == \E i \in 1..Len(c) : c[i].type = "execution_started" /\ c[i].req = r

\* In a chained file one execution_started line stands for at most one launch.
LaunchInv(v, w, c, l) ==
  Chained(c) => \A r \in Requests :
     /\ l[r] + Armed(v, r) + Armed(w, r) <= 1
     /\ l[r] + Armed(v, r) + Armed(w, r) > 0 => Started(c, r)

\* The inductive invariant.
DInv ==
  /\ FileInv
  /\ now \in Nat /\ launches \in [Requests -> Nat]
  /\ MemTypes(Mem1, hashes) /\ MemTypes(Mem2, hashes)
  /\ MemInv(Mem1, canon) /\ MemInv(Mem2, canon)
  /\ LaunchInv(Mem1, Mem2, canon, launches)

-----------------------------------------------------------------------------
(* The state machine *)

USE DEF D1!Statuses, D1!EventTypes

\* Every event that Apply accepts leads to one of core's statuses.
LEMMA ToType == \A t \in D1!EventTypes : D1!To(t) \in D1!Statuses
BY DEF D1!To

\* The reachable statuses are closed under the transitions Apply makes.
LEMMA ReachClosed ==
  ASSUME NEW t \in D1!EventTypes, NEW a \in D1!Statuses,
         NEW s \in Reach(a), s \in D1!From(t)
  PROVE  D1!To(t) \in Reach(a)
BY DEF D1!To, D1!From, Reach, D1!Lifecycle!Reach

\* A status reaches itself, and every status comes after "absent".
LEMMA ReachSelf == \A a \in D1!Statuses : a \in Reach(a) /\ a \in Reach("absent")
BY DEF Reach, D1!Lifecycle!Reach

\* What one accepted event does to the projection.
LEMMA ApplyFacts ==
  ASSUME NEW p \in [Requests -> D1!Snapshots],
         NEW e, e.req \in Requests, e.type \in D1!EventTypes,
         e.by \in D1!Identities, e.expires \in Nat
  PROVE  /\ D1!Apply(p, e) \in [Requests -> D1!Snapshots]
         /\ D1!Apply(p, e)[e.req].status = D1!To(e.type)
         /\ \A r \in Requests : r # e.req => D1!Apply(p, e)[r] = p[r]
BY ToType DEF D1!Apply, D1!Snapshots

\* An event takes a projection from the first n lines to the first n + 1.
LEMMA ShowsNext ==
  ASSUME NEW c, NEW n \in Nat, NEW p \in [Requests -> D1!Snapshots],
         NEW q \in [Requests -> D1!Snapshots],
         \A i \in 1..(n + 1) : c[i].req \in Requests /\ c[i].type \in D1!EventTypes,
         Shows(c, p, n),
         p[c[n + 1].req].status \in D1!From(c[n + 1].type),
         q[c[n + 1].req].status = D1!To(c[n + 1].type),
         \A r \in Requests : r # c[n + 1].req => q[r] = p[r]
  PROVE  Shows(c, q, n + 1)
<1> DEFINE r == c[n + 1].req
           t == c[n + 1].type
<1>1. /\ r \in Requests /\ t \in D1!EventTypes /\ n + 1 \in 1..(n + 1)
      /\ \A i \in 1..(n + 1) : i \in 1..n \/ i = n + 1
      /\ \A i \in 1..n : i \in 1..(n + 1)
  OBVIOUS
<1>2. ASSUME NEW i \in 1..(n + 1)
      PROVE  q[c[i].req].status \in Reach(D1!To(c[i].type))
  <2>1. CASE i = n + 1
    BY <1>1, <2>1, ReachSelf, ToType
  <2>2. CASE i \in 1..n /\ c[i].req = r
    <3>1. p[r].status \in Reach(D1!To(c[i].type)) /\ D1!To(c[i].type) \in D1!Statuses
      BY <1>1, <2>2, ToType DEF Shows
    <3>2. D1!To(t) \in Reach(D1!To(c[i].type))
      BY <1>1, <3>1, ReachClosed
    <3> QED BY <2>2, <3>2
  <2>3. CASE i \in 1..n /\ c[i].req # r
    BY <2>3 DEF Shows
  <2> QED BY <1>1, <2>1, <2>2, <2>3
<1>3. ASSUME NEW x \in Requests, q[x].status # "absent"
      PROVE  \E i \in 1..(n + 1) : c[i].req = x /\ D1!To(c[i].type) = q[x].status
  <2>1. CASE x = r
    BY <1>1, <2>1
  <2>2. CASE x # r
    <3>1. PICK i \in 1..n : c[i].req = x /\ D1!To(c[i].type) = p[x].status
      BY <1>3, <2>2 DEF Shows
    <3> QED BY <1>1, <2>2, <3>1
  <2> QED BY <2>1, <2>2
<1> QED BY <1>2, <1>3 DEF Shows

-----------------------------------------------------------------------------
(* A write *)

\* File d is file c with a line more, which carries hash h.
Grown(c, d, k, t, r, h) ==
  /\ Len(d) = Len(c) + 1
  /\ \A i \in 1..Len(c) : d[i] = c[i]
  /\ d[Len(c) + 1].type = t /\ d[Len(c) + 1].req = r
  /\ d[Len(c) + 1].id = k + 1 /\ d[Len(c) + 1].prev = h

\* Log.Append of a daemon whose lastHash was h and becomes hh.
AppendBy(h, hh, e, big, o) ==
  LET line == [type |-> e.type, req |-> e.req, by |-> e.by,
               expires |-> e.expires, checked |-> e.checked,
               id |-> hashes + 1, prev |-> h, ok |-> o # "torn", big |-> big]
  IN /\ IF o = "unwritten"
        THEN UNCHANGED <<canon, eol, hashes>>
        ELSE canon' = D1!Written(line) /\ hashes' = hashes + 1 /\ eol' = (o \in {"nil", "unsynced"})
     /\ hh = IF o = "nil" THEN hashes + 1 ELSE h

\* Its effect: a line that names the daemon's own lastHash, or a file that no
\* longer replays.
Wrote(h, hh, t, r, o) ==
  /\ FileInv' /\ hashes <= hashes' /\ hashes' \in Nat
  /\ o = "nil" => hh = hashes + 1 /\ hashes' = hashes + 1
  /\ o # "nil" => hh = h
  /\ \/ canon' = canon /\ o # "nil"
     \/ ~Chained(canon')
     \/ Grown(canon, canon', hashes, t, r, h)

Events == [type: D1!EventTypes, req: Requests, by: D1!Identities, expires: Nat, checked: Nat]

\* Log.Append under a torn tail garbles it; otherwise it adds its line.
LEMMA AppendWrote ==
  ASSUME FileInv, NEW h \in Nat, NEW hh, NEW e \in Events, NEW big \in BOOLEAN,
         NEW o \in D1!Outcomes, AppendBy(h, hh, e, big, o)
  PROVE  Wrote(h, hh, e.type, e.req, o)
<1> DEFINE line == [type |-> e.type, req |-> e.req, by |-> e.by,
                    expires |-> e.expires, checked |-> e.checked,
                    id |-> hashes + 1, prev |-> h, ok |-> o # "torn", big |-> big]
           n == Len(canon)
<1>1. /\ canon \in Seq(D1!Lines) /\ n \in Nat /\ eol \in BOOLEAN /\ (~eol => n > 0)
      /\ hashes \in Nat /\ \A i \in 1..n : canon[i].id \in 1..hashes
  BY LenProperties DEF FileInv
<1>2. /\ line \in D1!Lines /\ line.type = e.type /\ line.req = e.req
      /\ line.id = hashes + 1 /\ line.prev = h
  BY <1>1 DEF Events, D1!Lines
<1>3. /\ IF o = "unwritten"
         THEN UNCHANGED <<canon, eol, hashes>>
         ELSE canon' = D1!Written(line) /\ hashes' = hashes + 1 /\ eol' = (o \in {"nil", "unsynced"})
      /\ hh = IF o = "nil" THEN hashes + 1 ELSE h
  BY DEF AppendBy
<1> HIDE DEF line
<1>4. CASE o = "unwritten"
  BY <1>1, <1>3, <1>4 DEF FileInv, Wrote
<1>5. CASE o # "unwritten" /\ eol
  <2>1. canon' = Append(canon, line)
    BY <1>3, <1>5 DEF D1!Written
  <2>2. /\ canon' \in Seq(D1!Lines) /\ Len(canon') = n + 1 /\ canon'[n + 1] = line
        /\ \A i \in 1..n : canon'[i] = canon[i]
    BY <1>1, <1>2, <2>1, AppendProperties
  <2>3. \A i \in 1..(n + 1) : canon'[i].id \in 1..(hashes + 1)
    <3>1. \A i \in 1..(n + 1) : i \in 1..n \/ i = n + 1
      BY <1>1
    <3> QED BY <1>1, <1>2, <2>2, <3>1
  <2>4. eol' \in BOOLEAN
    BY <1>3, <1>5
  <2>5. FileInv'
    BY <1>1, <1>3, <1>5, <2>2, <2>3, <2>4 DEF FileInv
  <2>6. Grown(canon, canon', hashes, e.type, e.req, h)
    BY <1>2, <2>2 DEF Grown
  <2> QED BY <1>1, <1>3, <1>5, <2>5, <2>6 DEF Wrote
<1>6. CASE o # "unwritten" /\ ~eol
  <2> DEFINE new == [canon[n] EXCEPT !.ok = FALSE]
  <2>1. n \in 1..n /\ canon[n] \in D1!Lines
    BY <1>1, <1>6, ElementOfSeq
  <2>2. new \in D1!Lines /\ new.id = canon[n].id /\ ~new.ok
    BY <2>1 DEF D1!Lines
  <2>3. canon' = [canon EXCEPT ![n] = new]
    BY <1>3, <1>6 DEF D1!Written
  <2> HIDE DEF new
  <2>4. /\ canon' \in Seq(D1!Lines) /\ Len(canon') = n
        /\ \A i \in 1..n : canon'[i] = IF i = n THEN new ELSE canon[i]
    BY <1>1, <2>1, <2>2, <2>3, ExceptSeq
  <2>5. ~Chained(canon')
    BY <2>1, <2>2, <2>4 DEF Chained
  <2>6. \A i \in 1..n : canon'[i].id \in 1..(hashes + 1)
    <3>1. \A i \in 1..n : canon'[i].id = canon[i].id
      BY <2>2, <2>4
    <3> QED BY <1>1, <3>1
  <2>7. eol' \in BOOLEAN
    BY <1>3, <1>6
  <2>8. FileInv'
    BY <1>1, <1>3, <1>6, <2>1, <2>4, <2>6, <2>7 DEF FileInv
  <2> QED BY <1>1, <1>3, <1>6, <2>5, <2>8 DEF Wrote
<1> QED BY <1>1, <1>4, <1>5, <1>6

\* A file that is still chained after a line was added was chained before, and
\* the new line names its last line.
LEMMA GrownChained ==
  ASSUME NEW c, NEW d, NEW k, NEW t, NEW r, NEW h, Len(c) \in Nat, c = << >> <=> Len(c) = 0,
         Grown(c, d, k, t, r, h), d # << >>, Chained(d)
  PROVE  Chained(c) /\ h = LastHash(c) /\ LastHash(d) = k + 1
<1> DEFINE n == Len(c)
<1>1. /\ Len(d) = n + 1 /\ \A i \in 1..n : d[i] = c[i]
      /\ d[n + 1].id = k + 1 /\ d[n + 1].prev = h
  BY DEF Grown
<1>2. n + 1 \in 1..(n + 1) /\ \A i \in 1..n : i \in 1..(n + 1) /\ (i = 1 \/ i - 1 \in 1..n)
  OBVIOUS
<1>3. Chained(c)
  BY <1>1, <1>2 DEF Chained
<1>4. h = IF n + 1 = 1 THEN 0 ELSE d[(n + 1) - 1].id
  BY <1>1, <1>2 DEF Chained
<1>5. h = LastHash(c)
  <2>1. CASE n = 0
    BY <1>4, <2>1 DEF LastHash
  <2>2. CASE n # 0
    <3>1. n \in 1..n /\ (n + 1) - 1 = n /\ n + 1 # 1 /\ c # << >>
      BY <2>2
    <3> QED BY <1>1, <1>4, <3>1 DEF LastHash
  <2> QED BY <2>1, <2>2
<1> QED BY <1>1, <1>3, <1>5 DEF LastHash

\* What a projection shows of a file it shows of a longer one.
LEMMA ShowsStays ==
  ASSUME NEW c, NEW d, NEW p, NEW n \in Nat, Shows(c, p, n),
         \A i \in 1..n : d[i] = c[i]
  PROVE  Shows(d, p, n)
BY DEF Shows

\* The other daemon does not notice a write; if it was up to date, it is not now.
LEMMA OtherKeeps ==
  ASSUME FileInv, NEW u, MemTypes(u, hashes), MemInv(u, canon),
         NEW h, NEW hh, NEW t, NEW r, NEW o, Wrote(h, hh, t, r, o)
  PROVE  MemTypes(u, hashes') /\ MemInv(u, canon')
<1> DEFINE n == Len(canon)
<1>1. /\ n \in Nat /\ hashes \in Nat /\ hashes' \in Nat /\ hashes <= hashes'
      /\ (canon = << >> <=> n = 0)
  BY LenProperties, EmptySeq DEF FileInv, Wrote
<1>2. MemTypes(u, hashes')
  BY <1>1 DEF MemTypes
<1>3. CASE canon' = canon
  BY <1>2, <1>3
<1>4. CASE ~Chained(canon')
  BY <1>2, <1>4 DEF MemInv
<1>5. CASE Chained(canon') /\ Grown(canon, canon', hashes, t, r, h)
  <2>1. Len(canon') = n + 1 /\ \A i \in 1..n : canon'[i] = canon[i]
    BY <1>5 DEF Grown
  <2>2. canon' # << >>
    BY <1>1, <2>1
  <2>3. Chained(canon) /\ LastHash(canon') = hashes + 1
    BY <1>1, <1>5, <2>2, GrownChained
  <2>4. u.pos \in Nat /\ u.hash \in 0..hashes /\ u.hash # hashes + 1
    BY <1>1 DEF MemTypes
  <2>5. u.pos <= n /\ Shows(canon, u.scratch, u.pos)
    BY <2>3 DEF MemInv
  <2>6. u.pos <= n + 1 /\ Shows(canon', u.scratch, u.pos)
    <3>1. \A i \in 1..u.pos : canon'[i] = canon[i]
      BY <1>1, <2>1, <2>4, <2>5
    <3> QED BY <1>1, <2>4, <2>5, <3>1, ShowsStays
  <2>7. ASSUME u.phase \in {"recovering", "up"}
        PROVE  \E m \in 0..(n + 1) : Shows(canon', u.proj, m)
                 /\ (u.hash = LastHash(canon') => m = Len(canon'))
    <3>1. PICK m \in 0..n : Shows(canon, u.proj, m)
      BY <2>3, <2>7 DEF MemInv
    <3>2. m \in Nat /\ m \in 0..(n + 1) /\ \A i \in 1..m : canon'[i] = canon[i]
      BY <1>1, <2>1
    <3>3. Shows(canon', u.proj, m)
      BY <3>1, <3>2, ShowsStays
    <3> QED BY <2>3, <2>4, <3>2, <3>3
  <2> QED BY <1>2, <2>1, <2>6, <2>7 DEF MemInv
<1> QED BY <1>3, <1>4, <1>5 DEF Wrote

-----------------------------------------------------------------------------
(* A handler *)

\* A handler of a daemon with memory v records an event of type t for request r.
Recorded(v, w, t, r, o) ==
  /\ v.phase \in {"recovering", "up"}
  /\ v.proj[r].status \in D1!From(t)
  /\ Wrote(v.hash, w.hash, t, r, o)
  /\ o # "nil" => w.proj = v.proj
  /\ o = "nil" => /\ w.proj \in [Requests -> D1!Snapshots]
                  /\ w.proj[r].status = D1!To(t)
                  /\ \A q \in Requests : q # r => w.proj[q] = v.proj[q]
  /\ w.scratch = v.scratch /\ w.pos = v.pos
  /\ w.phase = v.phase \/ (w.phase = "down" /\ v.phase = "recovering" /\ w.exec = v.exec)
  /\ w.exec \in [Requests -> D1!ExecStates]
  /\ \A q \in Requests :
        \/ w.exec[q] = "idle"
        \/ w.exec[q] = v.exec[q] /\ (q = r => "executing" \notin D1!From(t))
        \/ /\ w.exec[q] = "started" /\ v.phase = "up"
           /\ q = r /\ o = "nil" /\ t = "execution_started"

\* The daemon that writes knows its own line, and all lines before it if the file
\* is still chained.
LEMMA WriterKeeps ==
  ASSUME FileInv, NEW v, NEW w, MemTypes(v, hashes), MemInv(v, canon),
         NEW t \in D1!EventTypes, NEW r \in Requests, NEW o, Recorded(v, w, t, r, o)
  PROVE  MemTypes(w, hashes') /\ MemInv(w, canon')
<1> DEFINE n == Len(canon)
<1>1. /\ n \in Nat /\ hashes \in Nat /\ hashes' \in Nat /\ hashes <= hashes'
      /\ (canon = << >> <=> n = 0) /\ FileInv' /\ canon' \in Seq(D1!Lines)
      /\ v.phase \in {"recovering", "up"} /\ v.proj[r].status \in D1!From(t)
      /\ Wrote(v.hash, w.hash, t, r, o)
      /\ v.proj \in [Requests -> D1!Snapshots]
  BY LenProperties, EmptySeq DEF FileInv, Wrote, Recorded, MemTypes
<1>2. w.proj \in [Requests -> D1!Snapshots]
  BY <1>1 DEF Recorded
<1>3. v.hash \in 0..hashes /\ w.hash \in 0..hashes'
  BY <1>1 DEF MemTypes, Wrote
<1>4. MemTypes(w, hashes')
  BY <1>1, <1>2, <1>3 DEF MemTypes, Recorded, D1!Phases
<1>5. w.phase # "replaying" /\ w.pos = 0 /\ w.scratch = D1!New
  BY <1>1 DEF Recorded, MemInv
<1>6. ASSUME NEW q \in Requests, w.exec[q] # "idle"
      PROVE  w.phase = "up" /\ w.proj[q].status = "executing"
  <2>1. CASE w.exec[q] = v.exec[q] /\ (q = r => "executing" \notin D1!From(t))
    <3>1. v.phase = "up" /\ v.proj[q].status = "executing"
      BY <1>6, <2>1 DEF MemInv
    <3>2. q # r
      BY <1>1, <2>1, <3>1
    <3> QED BY <3>1, <3>2 DEF Recorded
  <2>2. CASE /\ w.exec[q] = "started" /\ v.phase = "up"
             /\ q = r /\ o = "nil" /\ t = "execution_started"
    BY <2>2 DEF Recorded, D1!To
  <2> QED BY <1>6, <2>1, <2>2 DEF Recorded
<1>7. ASSUME Chained(canon')
      PROVE  /\ w.pos <= Len(canon') /\ Shows(canon', w.scratch, w.pos)
             /\ w.phase \in {"recovering", "up"} =>
                  \E m \in 0..Len(canon') : Shows(canon', w.proj, m)
                     /\ (w.hash = LastHash(canon') => m = Len(canon'))
  <2>0. Len(canon') \in Nat
    BY <1>1, LenProperties
  <2>1. w.pos <= Len(canon') /\ Shows(canon', w.scratch, w.pos)
    BY <1>5, <2>0 DEF Shows, D1!New
  <2>2. CASE o = "nil"
    <3>1. Grown(canon, canon', hashes, t, r, v.hash)
      BY <1>1, <1>7, <2>2 DEF Wrote
    <3>2. /\ Len(canon') = n + 1 /\ \A i \in 1..n : canon'[i] = canon[i]
          /\ canon'[n + 1].type = t /\ canon'[n + 1].req = r
      BY <3>1 DEF Grown
    <3>3. canon' # << >>
      BY <1>1, <3>2
    <3>4. Chained(canon) /\ v.hash = LastHash(canon)
      BY <1>1, <1>7, <3>1, <3>3, GrownChained
    <3>5. Shows(canon, v.proj, n)
      BY <1>1, <3>4 DEF MemInv
    <3>6. Shows(canon', v.proj, n)
      BY <1>1, <3>2, <3>5, ShowsStays
    <3>7. \A i \in 1..(n + 1) : canon'[i].req \in Requests /\ canon'[i].type \in D1!EventTypes
      <4>1. \A i \in 1..Len(canon') : canon'[i] \in D1!Lines
        BY <1>1, ElementOfSeq
      <4> QED BY <3>2, <4>1 DEF D1!Lines
    <3>8. /\ w.proj[r].status = D1!To(t)
          /\ \A q \in Requests : q # r => w.proj[q] = v.proj[q]
      BY <2>2 DEF Recorded
    <3>9. Shows(canon', w.proj, n + 1)
      <4>1. /\ v.proj[canon'[n + 1].req].status \in D1!From(canon'[n + 1].type)
            /\ w.proj[canon'[n + 1].req].status = D1!To(canon'[n + 1].type)
            /\ \A q \in Requests : q # canon'[n + 1].req => w.proj[q] = v.proj[q]
        BY <1>1, <3>2, <3>8
      <4> HIDE DEF n
      <4>2. n \in Nat /\ v.proj \in [Requests -> D1!Snapshots]
        BY <1>1
      <4> QED BY <1>2, <3>6, <3>7, <4>1, <4>2, ShowsNext
    <3> QED BY <1>1, <2>1, <3>2, <3>9
  <2>3. CASE o # "nil"
    <3>1. MemInv(v, canon')
      BY <1>1, OtherKeeps
    <3>2. w.hash = v.hash /\ w.proj = v.proj
      BY <1>1, <2>3 DEF Recorded, Wrote
    <3>3. w.phase = v.phase \/ w.phase = "down"
      BY DEF Recorded
    <3> QED BY <1>1, <1>7, <2>1, <3>1, <3>2, <3>3 DEF MemInv
  <2> QED BY <2>2, <2>3
<1> QED BY <1>4, <1>5, <1>6, <1>7 DEF MemInv

\* A handler that is about to launch has seen no execution_started line in a file
\* that is still chained.
LEMMA WriteLaunch ==
  ASSUME FileInv, NEW v, NEW w, NEW u, MemTypes(v, hashes), MemInv(v, canon),
         MemTypes(u, hashes), NEW l \in [Requests -> Nat], LaunchInv(v, u, canon, l),
         NEW t \in D1!EventTypes, NEW r \in Requests, NEW o, Recorded(v, w, t, r, o)
  PROVE  LaunchInv(w, u, canon', l)
<1> DEFINE n == Len(canon)
<1> SUFFICES ASSUME Chained(canon'), NEW q \in Requests
             PROVE  /\ l[q] + Armed(w, q) + Armed(u, q) <= 1
                    /\ l[q] + Armed(w, q) + Armed(u, q) > 0 => Started(canon', q)
  BY DEF LaunchInv
<1>1. /\ n \in Nat /\ hashes \in Nat /\ (canon = << >> <=> n = 0)
      /\ v.phase \in {"recovering", "up"} /\ v.proj[r].status \in D1!From(t)
      /\ Wrote(v.hash, w.hash, t, r, o)
      /\ l[q] \in Nat
  BY LenProperties, EmptySeq DEF FileInv, Recorded
<1>2. \A m \in {v, w, u} : Armed(m, q) \in {0, 1}
  BY DEF Armed
<1>3. /\ Chained(canon)
      /\ \/ canon' = canon /\ o # "nil"
         \/ /\ v.hash = LastHash(canon) /\ Len(canon') = n + 1
            /\ \A i \in 1..n : canon'[i] = canon[i]
            /\ canon'[n + 1].type = t /\ canon'[n + 1].req = r
  <2>1. CASE canon' = canon /\ o # "nil"
    BY <2>1
  <2>2. CASE Grown(canon, canon', hashes, t, r, v.hash)
    <3>1. /\ Len(canon') = n + 1 /\ \A i \in 1..n : canon'[i] = canon[i]
          /\ canon'[n + 1].type = t /\ canon'[n + 1].req = r
      BY <2>2 DEF Grown
    <3>2. canon' # << >>
      BY <1>1, <3>1
    <3>3. Chained(canon) /\ v.hash = LastHash(canon)
      BY <1>1, <2>2, <3>2, GrownChained
    <3> QED BY <3>1, <3>3
  <2> QED BY <1>1, <2>1, <2>2 DEF Wrote
<1>4. /\ l[q] + Armed(v, q) + Armed(u, q) <= 1
      /\ l[q] + Armed(v, q) + Armed(u, q) > 0 => Started(canon, q)
  BY <1>3 DEF LaunchInv
<1>5. Started(canon, q) => Started(canon', q)
  <2>1. \A i \in 1..n : i \in 1..Len(canon') /\ canon'[i] = canon[i]
    BY <1>1, <1>3
  <2> QED BY <2>1 DEF Started
<1>6. CASE Armed(w, q) <= Armed(v, q)
  BY <1>1, <1>2, <1>4, <1>5, <1>6
<1>7. CASE q = r /\ o = "nil" /\ t = "execution_started"
  <2>1. /\ v.hash = LastHash(canon) /\ Len(canon') = n + 1 /\ n + 1 \in 1..(n + 1)
        /\ canon'[n + 1].type = t /\ canon'[n + 1].req = r
    BY <1>1, <1>3, <1>7
  <2>2. Started(canon', q)
    BY <1>7, <2>1 DEF Started
  <2>3. Shows(canon, v.proj, n)
    BY <1>1, <1>3, <2>1 DEF MemInv
  <2>4. v.proj[q].status = "approved"
    BY <1>1, <1>7 DEF D1!From
  <2>5. ~Started(canon, q)
    <3>1. ASSUME NEW i \in 1..n, canon[i].type = "execution_started", canon[i].req = q
          PROVE  FALSE
      <4>1. "approved" \in Reach("executing")
        BY <2>3, <2>4, <3>1 DEF Shows, D1!To
      <4> QED BY <4>1 DEF Reach, D1!Lifecycle!Reach
    <3> QED BY <3>1 DEF Started
  <2> QED BY <1>1, <1>2, <1>4, <2>2, <2>5
<1>8. \/ Armed(w, q) <= Armed(v, q)
      \/ q = r /\ o = "nil" /\ t = "execution_started"
  BY DEF Recorded, Armed
<1> QED BY <1>6, <1>7, <1>8

-----------------------------------------------------------------------------
(* Steps that do not write *)

\* What else a daemon does, from memory v to w, over file c, while the launches go
\* from l to m.
Quiet(v, w, c, l, m) ==
  \/ /\ \E r \in Requests :
          /\ v.exec[r] = "started"
          /\ w.exec = [v.exec EXCEPT ![r] = "running"]
          /\ m = [l EXCEPT ![r] = l[r] + 1]
     /\ w.phase = v.phase /\ w.proj = v.proj /\ w.scratch = v.scratch
     /\ w.pos = v.pos /\ w.hash = v.hash
  \/ /\ v.phase = "down" /\ w.phase = "replaying" /\ w.hash = LastHash(c)
     /\ w.proj = v.proj /\ w.scratch = v.scratch /\ w.pos = v.pos /\ w.exec = v.exec
     /\ m = l
  \/ /\ v.phase = "replaying" /\ w.phase = v.phase /\ v.pos < Len(c)
     /\ D1!CanApply(v.scratch, c[v.pos + 1])
     /\ w.scratch = D1!Apply(v.scratch, c[v.pos + 1])
     /\ w.pos = v.pos + 1
     /\ w.proj = v.proj /\ w.hash = v.hash /\ w.exec = v.exec
     /\ m = l
  \/ /\ v.phase = "replaying" /\ v.pos = Len(c) /\ w.phase = "recovering" /\ w.proj = v.scratch
     /\ w.scratch = D1!New /\ w.pos = 0 /\ w.hash = v.hash /\ w.exec = v.exec
     /\ m = l
  \/ /\ v.phase = "recovering" /\ w.phase = "up"
     /\ w.proj = v.proj /\ w.scratch = v.scratch /\ w.pos = v.pos
     /\ w.hash = v.hash /\ w.exec = v.exec
     /\ m = l
  \/ /\ w.phase = "down" /\ w.exec = [r \in Requests |-> "idle"]
     /\ w.scratch = D1!New /\ w.pos = 0 /\ w.hash = v.hash /\ w.proj = v.proj
     /\ m = l

\* None of them makes a daemon forget lines, or launches what is not armed.
LEMMA QuietKeeps ==
  ASSUME FileInv, NEW v, NEW w, NEW u,
         MemTypes(v, hashes), MemInv(v, canon), MemTypes(u, hashes),
         NEW l \in [Requests -> Nat], NEW m, LaunchInv(v, u, canon, l),
         Quiet(v, w, canon, l, m)
  PROVE  /\ MemTypes(w, hashes) /\ MemInv(w, canon)
         /\ m \in [Requests -> Nat] /\ LaunchInv(w, u, canon, m)
<1>0. /\ canon \in Seq(D1!Lines) /\ Len(canon) \in Nat /\ hashes \in Nat
      /\ \A i \in 1..Len(canon) : /\ canon[i] \in D1!Lines /\ canon[i].id \in 1..hashes
                                  /\ canon[i].req \in Requests /\ canon[i].type \in D1!EventTypes
                                  /\ canon[i].by \in D1!Identities /\ canon[i].expires \in Nat
  <2>1. canon \in Seq(D1!Lines) /\ Len(canon) \in Nat /\ hashes \in Nat
    BY LenProperties DEF FileInv
  <2>2. \A i \in 1..Len(canon) : canon[i] \in D1!Lines
    BY <2>1, ElementOfSeq
  <2> QED BY <2>1, <2>2 DEF FileInv, D1!Lines
<1>1. /\ v.pos \in Nat /\ v.exec \in [Requests -> D1!ExecStates]
      /\ v.scratch \in [Requests -> D1!Snapshots] /\ v.proj \in [Requests -> D1!Snapshots]
      /\ v.hash \in 0..hashes /\ v.phase \in D1!Phases
  BY DEF MemTypes
<1>2. D1!New \in [Requests -> D1!Snapshots] /\ \A c : Shows(c, D1!New, 0)
  BY DEF D1!New, D1!Snapshots, D1!Identities, Shows
<1>3. ASSUME m = l, \A r \in Requests : w.exec[r] = "idle" \/ w.exec[r] = v.exec[r]
      PROVE  m \in [Requests -> Nat] /\ LaunchInv(w, u, canon, m)
  <2> SUFFICES ASSUME Chained(canon), NEW r \in Requests
               PROVE  /\ l[r] + Armed(w, r) + Armed(u, r) <= 1
                      /\ l[r] + Armed(w, r) + Armed(u, r) > 0 => Started(canon, r)
    BY <1>3 DEF LaunchInv
  <2>1. /\ l[r] + Armed(v, r) + Armed(u, r) <= 1
        /\ l[r] + Armed(v, r) + Armed(u, r) > 0 => Started(canon, r)
    BY DEF LaunchInv
  <2>2. l[r] \in Nat /\ \A x \in {v, w, u} : Armed(x, r) \in {0, 1}
    BY DEF Armed
  <2>3. Armed(w, r) <= Armed(v, r)
    BY <1>3 DEF Armed
  <2> QED BY <2>1, <2>2, <2>3
<1>4. CASE /\ \E r \in Requests :
                /\ v.exec[r] = "started"
                /\ w.exec = [v.exec EXCEPT ![r] = "running"]
                /\ m = [l EXCEPT ![r] = l[r] + 1]
           /\ w.phase = v.phase /\ w.proj = v.proj /\ w.scratch = v.scratch
           /\ w.pos = v.pos /\ w.hash = v.hash
  <2>1. PICK r \in Requests : /\ v.exec[r] = "started"
                              /\ w.exec = [v.exec EXCEPT ![r] = "running"]
                              /\ m = [l EXCEPT ![r] = l[r] + 1]
    BY <1>4
  <2>2. w.exec \in [Requests -> D1!ExecStates] /\ m \in [Requests -> Nat]
    BY <1>1, <2>1 DEF D1!ExecStates
  <2>3. MemTypes(w, hashes)
    BY <1>1, <1>4, <2>2 DEF MemTypes
  <2>4. \A q \in Requests : w.exec[q] # "idle" => v.exec[q] # "idle"
    BY <1>1, <2>1
  <2>5. MemInv(w, canon)
    <3>1. \A q \in Requests : w.exec[q] # "idle" => w.phase = "up" /\ w.proj[q].status = "executing"
      BY <1>4, <2>4 DEF MemInv
    <3> QED BY <1>4, <3>1 DEF MemInv
  <2>6. LaunchInv(w, u, canon, m)
    <3> SUFFICES ASSUME Chained(canon), NEW q \in Requests
                 PROVE  /\ m[q] + Armed(w, q) + Armed(u, q) <= 1
                        /\ m[q] + Armed(w, q) + Armed(u, q) > 0 => Started(canon, q)
      BY DEF LaunchInv
    <3>1. /\ l[q] + Armed(v, q) + Armed(u, q) <= 1
          /\ l[q] + Armed(v, q) + Armed(u, q) > 0 => Started(canon, q)
      BY DEF LaunchInv
    <3>2. l[q] \in Nat /\ m[q] \in Nat /\ \A x \in {v, w, u} : Armed(x, q) \in {0, 1}
      BY <2>2 DEF Armed
    <3>3. m[q] + Armed(w, q) = l[q] + Armed(v, q)
      BY <1>1, <2>1, <3>2 DEF Armed
    <3> QED BY <3>1, <3>2, <3>3
  <2> QED BY <2>2, <2>3, <2>5, <2>6
<1>5. CASE /\ v.phase = "down" /\ w.phase = "replaying" /\ w.hash = LastHash(canon)
           /\ w.proj = v.proj /\ w.scratch = v.scratch /\ w.pos = v.pos /\ w.exec = v.exec
           /\ m = l
  <2>1. LastHash(canon) \in 0..hashes
    <3>1. canon # << >> => Len(canon) \in 1..Len(canon)
      BY <1>0, EmptySeq
    <3> QED BY <1>0, <3>1 DEF LastHash
  <2>2. MemTypes(w, hashes)
    BY <1>1, <1>5, <2>1 DEF MemTypes, D1!Phases
  <2>3. w.pos = 0 /\ w.scratch = D1!New /\ \A q \in Requests : w.exec[q] = "idle"
    BY <1>5 DEF MemInv
  <2>4. MemInv(w, canon)
    BY <1>0, <1>2, <1>5, <2>3 DEF MemInv
  <2> QED BY <1>3, <1>5, <2>2, <2>4
<1>6. CASE /\ v.phase = "replaying" /\ w.phase = v.phase /\ v.pos < Len(canon)
           /\ D1!CanApply(v.scratch, canon[v.pos + 1])
           /\ w.scratch = D1!Apply(v.scratch, canon[v.pos + 1])
           /\ w.pos = v.pos + 1
           /\ w.proj = v.proj /\ w.hash = v.hash /\ w.exec = v.exec
           /\ m = l
  <2> DEFINE e == canon[v.pos + 1]
  <2>1. v.pos + 1 \in 1..Len(canon)
    BY <1>0, <1>1, <1>6
  <2>2. /\ e.req \in Requests /\ e.type \in D1!EventTypes
        /\ e.by \in D1!Identities /\ e.expires \in Nat
    BY <1>0, <2>1
  <2>3. v.scratch[e.req].status \in D1!From(e.type)
    BY <1>6 DEF D1!CanApply
  <2>4. /\ w.scratch \in [Requests -> D1!Snapshots]
        /\ w.scratch[e.req].status = D1!To(e.type)
        /\ \A r \in Requests : r # e.req => w.scratch[r] = v.scratch[r]
    <3>1. w.scratch = D1!Apply(v.scratch, e)
      BY <1>6
    <3> HIDE DEF e
    <3> QED BY <1>1, <2>2, <3>1, ApplyFacts
  <2>5. MemTypes(w, hashes)
    BY <1>1, <1>6, <2>4 DEF MemTypes
  <2>6. ASSUME Chained(canon) PROVE w.pos <= Len(canon) /\ Shows(canon, w.scratch, w.pos)
    <3>1. Shows(canon, v.scratch, v.pos)
      BY <2>6 DEF MemInv
    <3>2. \A i \in 1..(v.pos + 1) : canon[i].req \in Requests /\ canon[i].type \in D1!EventTypes
      BY <1>0, <1>1, <2>1
    <3>3. Shows(canon, w.scratch, v.pos + 1)
      BY <1>1, <2>3, <2>4, <3>1, <3>2, ShowsNext
    <3> QED BY <1>6, <2>1, <3>3
  <2>7. MemInv(w, canon)
    <3>1. \A r \in Requests : w.exec[r] = "idle"
      BY <1>6 DEF MemInv
    <3> QED BY <1>6, <2>6, <3>1 DEF MemInv
  <2> QED BY <1>3, <1>6, <2>5, <2>7
<1>7. CASE /\ v.phase = "replaying" /\ v.pos = Len(canon) /\ w.phase = "recovering"
           /\ w.proj = v.scratch
           /\ w.scratch = D1!New /\ w.pos = 0 /\ w.hash = v.hash /\ w.exec = v.exec
           /\ m = l
  <2>1. MemTypes(w, hashes)
    BY <1>1, <1>2, <1>7 DEF MemTypes, D1!Phases
  <2>2. \A r \in Requests : w.exec[r] = "idle"
    BY <1>7 DEF MemInv
  <2>3. ASSUME Chained(canon)
        PROVE  \E n \in 0..Len(canon) : Shows(canon, w.proj, n)
                 /\ (w.hash = LastHash(canon) => n = Len(canon))
    <3>1. Shows(canon, w.proj, Len(canon)) /\ Len(canon) \in 0..Len(canon)
      BY <1>0, <1>7, <2>3 DEF MemInv
    <3> QED BY <3>1
  <2>4. MemInv(w, canon)
    BY <1>0, <1>2, <1>7, <2>2, <2>3 DEF MemInv
  <2> QED BY <1>3, <1>7, <2>1, <2>4
<1>8. CASE /\ v.phase = "recovering" /\ w.phase = "up"
           /\ w.proj = v.proj /\ w.scratch = v.scratch /\ w.pos = v.pos
           /\ w.hash = v.hash /\ w.exec = v.exec
           /\ m = l
  <2>1. MemTypes(w, hashes)
    BY <1>1, <1>8 DEF MemTypes, D1!Phases
  <2>2. \A r \in Requests : w.exec[r] = "idle"
    BY <1>8 DEF MemInv
  <2>3. MemInv(w, canon)
    BY <1>8, <2>2 DEF MemInv
  <2> QED BY <1>3, <1>8, <2>1, <2>3
<1>9. CASE /\ w.phase = "down" /\ w.exec = [r \in Requests |-> "idle"]
           /\ w.scratch = D1!New /\ w.pos = 0 /\ w.hash = v.hash /\ w.proj = v.proj
           /\ m = l
  <2>1. MemTypes(w, hashes)
    BY <1>1, <1>2, <1>9 DEF MemTypes, D1!Phases, D1!ExecStates
  <2>2. \A r \in Requests : w.exec[r] = "idle"
    BY <1>9
  <2>3. MemInv(w, canon)
    BY <1>0, <1>2, <1>9, <2>2 DEF MemInv
  <2> QED BY <1>3, <1>9, <2>1, <2>2, <2>3
<1> QED BY <1>4, <1>5, <1>6, <1>7, <1>8, <1>9 DEF Quiet

-----------------------------------------------------------------------------
(* The first daemon *)

\* The memory of the first daemon.
LEMMA MemFields1 ==
  /\ Mem1.phase = phase1 /\ Mem1.proj = proj1 /\ Mem1.scratch = scratch1
  /\ Mem1.pos = pos1 /\ Mem1.exec = exec1 /\ Mem1.hash = lastHash1
  /\ Mem1'.phase = phase1' /\ Mem1'.proj = proj1' /\ Mem1'.scratch = scratch1'
  /\ Mem1'.pos = pos1' /\ Mem1'.exec = exec1' /\ Mem1'.hash = lastHash1'
BY DEF Mem1

\* Record, as the first daemon executes it.
LEMMA RecordStep1 ==
  ASSUME DInv, NEW t \in D1!EventTypes, NEW r \in Requests, NEW a \in D1!Identities,
         NEW exp \in Nat, NEW big \in BOOLEAN, NEW o \in D1!Outcomes,
         D1!Record(D1!Event(t, r, a, exp), big, o), proj1[r].status \in D1!From(t)
  PROVE  /\ Wrote(lastHash1, lastHash1', t, r, o)
         /\ o # "nil" => proj1' = proj1
         /\ o = "nil" => /\ proj1' \in [Requests -> D1!Snapshots]
                         /\ proj1'[r].status = D1!To(t)
                         /\ \A q \in Requests : q # r => proj1'[q] = proj1[q]
<1> DEFINE e == D1!Event(t, r, a, exp)
<1>1. /\ FileInv /\ now \in Nat /\ lastHash1 \in Nat /\ proj1 \in [Requests -> D1!Snapshots]
  BY MemFields1 DEF DInv, MemTypes
<1>2. /\ e \in Events /\ e.type = t /\ e.req = r /\ e.by = a /\ e.expires = exp
  BY <1>1 DEF D1!Event, Events
<1>3. /\ D1!LogAppend(e, big, o)
      /\ proj1' = IF o = "nil" /\ D1!CanApply(proj1, e) THEN D1!Apply(proj1, e) ELSE proj1
  BY DEF D1!Record
<1> HIDE DEF e
<1>4. AppendBy(lastHash1, lastHash1', e, big, o)
  BY <1>3 DEF D1!LogAppend, AppendBy, D1!Written, D1!Written
<1>5. Wrote(lastHash1, lastHash1', t, r, o)
  BY <1>1, <1>2, <1>4, AppendWrote
<1>6. D1!CanApply(proj1, e)
  BY <1>2 DEF D1!CanApply, D1!From, D1!From
<1>7. D1!Apply(proj1, e) = D1!Apply(proj1, e)
  BY DEF D1!Apply, D1!Apply, D1!To, D1!To
<1>8. /\ D1!Apply(proj1, e) \in [Requests -> D1!Snapshots]
      /\ D1!Apply(proj1, e)[r].status = D1!To(t)
      /\ \A q \in Requests : q # r => D1!Apply(proj1, e)[q] = proj1[q]
  BY <1>1, <1>2, ApplyFacts
<1> QED BY <1>3, <1>5, <1>6, <1>7, <1>8

\* Every handler of the first daemon, and its recovery, records one event that
\* the request's status admits.
LEMMA Handlers1 ==
  ASSUME DInv, NEW r \in Requests, NEW o \in D1!Outcomes,
         \/ \E c \in Users, big \in Sizes : D1!Submit(r, c, big, o)
         \/ D1!Status(r, o) \/ D1!ExecuteBegin(r, o)
         \/ \E a \in Actors, big \in Sizes : D1!Approve(r, a, big, o) \/ D1!Deny(r, a, big, o)
         \/ \E result \in Results, big \in Sizes : D1!ExecuteEnd(r, result, big, o)
         \/ D1!Recover(r, o)
  PROVE  /\ UNCHANGED <<launches, now>>
         /\ \E t \in D1!EventTypes : Recorded(Mem1, Mem1', t, r, o)
<1>1. /\ now \in Nat /\ now + TTL \in Nat /\ D1!Daemon \in D1!Identities
      /\ Users \subseteq D1!Identities /\ Actors \subseteq D1!Identities
      /\ exec1 \in [Requests -> D1!ExecStates] /\ phase1 \in D1!Phases
      /\ \A q \in Requests : exec1[q] # "idle" => phase1 = "up" /\ proj1[q].status = "executing"
  BY MemFields1 DEF DInv, MemTypes, MemInv, D1!Identities, D1!Daemon, D1!Daemon
<1>2. ASSUME NEW t \in D1!EventTypes, NEW a \in D1!Identities, NEW exp \in Nat, NEW big \in BOOLEAN,
             D1!Record(D1!Event(t, r, a, exp), big, o), proj1[r].status \in D1!From(t),
             phase1 \in {"recovering", "up"},
             UNCHANGED <<scratch1, pos1, launches, now>>,
             phase1' = phase1 \/ (phase1' = "down" /\ phase1 = "recovering" /\ exec1' = exec1),
             exec1' \in [Requests -> D1!ExecStates],
             \A q \in Requests :
                \/ exec1'[q] = "idle"
                \/ exec1'[q] = exec1[q] /\ (q = r => "executing" \notin D1!From(t))
                \/ /\ exec1'[q] = "started" /\ phase1 = "up"
                   /\ q = r /\ o = "nil" /\ t = "execution_started"
      PROVE  /\ UNCHANGED <<launches, now>>
             /\ \E x \in D1!EventTypes : Recorded(Mem1, Mem1', x, r, o)
  <2>1. /\ Wrote(lastHash1, lastHash1', t, r, o)
        /\ o # "nil" => proj1' = proj1
        /\ o = "nil" => /\ proj1' \in [Requests -> D1!Snapshots]
                        /\ proj1'[r].status = D1!To(t)
                        /\ \A q \in Requests : q # r => proj1'[q] = proj1[q]
    BY <1>2, RecordStep1
  <2>2. Recorded(Mem1, Mem1', t, r, o)
    BY <1>2, <2>1, MemFields1 DEF Recorded
  <2> QED BY <1>2, <2>2
<1>3. ASSUME D1!Up, D1!Expire(r, o), UNCHANGED exec1
      PROVE  /\ UNCHANGED <<launches, now>>
             /\ \E x \in D1!EventTypes : Recorded(Mem1, Mem1', x, r, o)
  <2>1. /\ phase1 = "up" /\ UNCHANGED <<phase1, scratch1, pos1, launches, now>>
        /\ proj1[r].status = "pending"
        /\ D1!Record(D1!Event("request_expired", r, D1!Daemon, 0), FALSE, o)
    BY <1>3 DEF D1!Up, D1!Expire, D1!Overdue
  <2>2. "pending" \in D1!From("request_expired") /\ "executing" \notin D1!From("request_expired")
    BY DEF D1!From
  <2> QED BY <1>1, <1>2, <1>3, <2>1, <2>2
<1>4. ASSUME NEW c \in Users, NEW big \in Sizes, D1!Submit(r, c, big, o)
      PROVE  /\ UNCHANGED <<launches, now>>
             /\ \E x \in D1!EventTypes : Recorded(Mem1, Mem1', x, r, o)
  <2>1. /\ phase1 = "up" /\ UNCHANGED <<phase1, scratch1, pos1, launches, now, exec1>>
        /\ proj1[r].status = "absent"
        /\ D1!Record(D1!Event("request_created", r, c, now + TTL), big, o)
    BY <1>4 DEF D1!Submit, D1!Up
  <2>2. /\ "absent" \in D1!From("request_created") /\ "executing" \notin D1!From("request_created")
        /\ big \in BOOLEAN /\ c \in D1!Identities
    BY <1>1 DEF D1!From
  <2> QED BY <1>1, <1>2, <2>1, <2>2
<1>5. ASSUME NEW a \in Actors, NEW verdict \in {"request_approved", "request_denied"},
             NEW big \in Sizes, D1!Review(r, a, verdict, big, o)
      PROVE  /\ UNCHANGED <<launches, now>>
             /\ \E x \in D1!EventTypes : Recorded(Mem1, Mem1', x, r, o)
  <2>1. D1!Up /\ UNCHANGED exec1
    BY <1>5 DEF D1!Review
  <2>2. CASE D1!Expire(r, o)
    BY <1>3, <2>1, <2>2
  <2>3. CASE /\ proj1[r].status = "pending"
             /\ D1!Record(D1!Event(verdict, r, a, 0), big, o)
    <3>1. phase1 = "up" /\ UNCHANGED <<phase1, scratch1, pos1, launches, now>>
      BY <2>1 DEF D1!Up
    <3>2. /\ "pending" \in D1!From(verdict) /\ "executing" \notin D1!From(verdict)
          /\ verdict \in D1!EventTypes /\ a \in D1!Identities /\ big \in BOOLEAN
      BY <1>1 DEF D1!From
    <3> QED BY <1>1, <1>2, <2>1, <2>3, <3>1, <3>2
  <2> QED BY <1>5, <2>2, <2>3 DEF D1!Review
<1>6. CASE D1!Status(r, o)
  BY <1>3, <1>6 DEF D1!Status
<1>7. CASE D1!ExecuteBegin(r, o)
  <2>1. D1!Up
    BY <1>7 DEF D1!ExecuteBegin
  <2>2. CASE D1!Expire(r, o) /\ UNCHANGED exec1
    BY <1>3, <2>1, <2>2
  <2>3. CASE /\ proj1[r].status = "approved"
             /\ D1!Record(D1!Event("execution_started", r, D1!Daemon, 0), FALSE, o)
             /\ exec1' = IF o = "nil" THEN [exec1 EXCEPT ![r] = "started"] ELSE exec1
    <3>1. phase1 = "up" /\ UNCHANGED <<phase1, scratch1, pos1, launches, now>>
      BY <2>1 DEF D1!Up
    <3>2. "approved" \in D1!From("execution_started") /\ "executing" \notin D1!From("execution_started")
      BY DEF D1!From
    <3>3. /\ exec1' \in [Requests -> D1!ExecStates]
          /\ \A q \in Requests : \/ exec1'[q] = exec1[q]
                                 \/ exec1'[q] = "started" /\ q = r /\ o = "nil"
      BY <1>1, <2>3 DEF D1!ExecStates
    <3> QED BY <1>1, <1>2, <2>3, <3>1, <3>2, <3>3
  <2> QED BY <1>7, <2>2, <2>3 DEF D1!ExecuteBegin
<1>8. ASSUME NEW result \in Results, NEW big \in Sizes, D1!ExecuteEnd(r, result, big, o)
      PROVE  /\ UNCHANGED <<launches, now>>
             /\ \E x \in D1!EventTypes : Recorded(Mem1, Mem1', x, r, o)
  <2>1. /\ phase1 = "up" /\ UNCHANGED <<phase1, scratch1, pos1, launches, now>>
        /\ exec1[r] # "idle" /\ exec1' = [exec1 EXCEPT ![r] = "idle"]
        /\ D1!Record(D1!Event(result, r, D1!Daemon, 0), big, o)
    BY <1>8 DEF D1!ExecuteEnd, D1!Up
  <2>2. /\ "executing" \in D1!From(result) /\ result \in D1!EventTypes /\ big \in BOOLEAN
        /\ proj1[r].status = "executing"
    BY <1>1, <2>1 DEF D1!From
  <2>3. /\ exec1' \in [Requests -> D1!ExecStates]
        /\ \A q \in Requests : exec1'[q] = "idle" \/ (exec1'[q] = exec1[q] /\ q # r)
    BY <1>1, <2>1 DEF D1!ExecStates
  <2> QED BY <1>1, <1>2, <2>1, <2>2, <2>3
<1>9. CASE D1!Recover(r, o)
  <2>1. /\ phase1 = "recovering" /\ phase1' \in {"recovering", "down"}
        /\ UNCHANGED <<scratch1, pos1, launches, now, exec1>>
        /\ proj1[r].status = "executing"
        /\ D1!Record(D1!Event("recovery_marked_failed", r, D1!Daemon, 0), FALSE, o)
    BY <1>9 DEF D1!Recover
  <2>2. "executing" \in D1!From("recovery_marked_failed")
    BY DEF D1!From
  <2>3. \A q \in Requests : exec1'[q] = "idle"
    BY <1>1, <2>1
  <2> QED BY <1>1, <1>2, <2>1, <2>2, <2>3
<1> QED BY <1>4, <1>5, <1>6, <1>7, <1>8, <1>9 DEF D1!Approve, D1!Deny

\* What the first daemon does without writing.
LEMMA Quiet1 ==
  ASSUME DInv, ~PowerLoss,
         \/ D1!Start \/ D1!ReplayLine \/ D1!Refuse \/ D1!Adopt \/ D1!Serve \/ D1!Crash
         \/ \E r \in Requests : D1!Launch(r)
  PROVE  /\ UNCHANGED <<canon, eol, hashes, now>>
         /\ Quiet(Mem1, Mem1', canon, launches, launches')
<1>1. /\ canon \in Seq(D1!Lines) /\ Len(canon) \in Nat /\ eol \in BOOLEAN
      /\ exec1 \in [Requests -> D1!ExecStates]
      /\ \A q \in Requests : exec1[q] # "idle" => phase1 = "up"
  BY MemFields1, LenProperties DEF DInv, FileInv, MemTypes, MemInv
<1>2. D1!New = D1!New
  BY DEF D1!New, D1!New
<1>3. CASE D1!Start
  BY <1>3, MemFields1 DEF D1!Start, Quiet, LastHash
<1>4. CASE D1!ReplayLine
  <2>1. \A p, e : D1!CanApply(p, e) = D1!CanApply(p, e) /\ D1!Apply(p, e) = D1!Apply(p, e)
    BY DEF D1!CanApply, D1!CanApply, D1!Apply, D1!Apply, D1!To, D1!To, D1!From, D1!From
  <2> QED BY <1>4, <2>1, MemFields1 DEF D1!ReplayLine, D1!logVars, Quiet
<1>5. CASE D1!Refuse
  <2>1. /\ phase1 = "replaying" /\ phase1' = "down"
        /\ UNCHANGED <<canon, eol, hashes, now, launches, exec1, proj1, lastHash1>>
        /\ scratch1' = D1!New /\ pos1' = 0
    BY <1>2, <1>5 DEF D1!Refuse, D1!Rejected, D1!EndOfReplay, D1!logVars
  <2>2. exec1' = [r \in Requests |-> "idle"]
    BY <1>1, <2>1
  <2> QED BY <2>1, <2>2, MemFields1 DEF Quiet
<1>6. CASE D1!Adopt
  BY <1>2, <1>6, MemFields1 DEF D1!Adopt, D1!EndOfReplay, Quiet
<1>7. CASE D1!Serve
  BY <1>7, MemFields1 DEF D1!Serve, D1!logVars, Quiet
<1>8. CASE D1!Crash
  <2>1. /\ D1!LogCrash /\ phase1' = "down" /\ exec1' = [r \in Requests |-> "idle"]
        /\ UNCHANGED <<now, launches, proj1>> /\ scratch1' = D1!New /\ pos1' = 0
    BY <1>2, <1>8 DEF D1!Crash, D1!EndOfReplay
  <2>2. /\ canon' = SubSeq(canon, 1, Len(canon)) /\ eol' = (eol \/ Len(canon) < Len(canon))
        /\ UNCHANGED <<lastHash1, hashes>>
    <3>1. PICK n \in (IF PowerLoss THEN synced ELSE Len(canon))..Len(canon) :
             /\ canon' = SubSeq(canon, 1, n)
             /\ eol' = (eol \/ n < Len(canon))
             /\ UNCHANGED <<lastHash1, hashes>>
      BY <2>1 DEF D1!LogCrash
    <3>2. n = Len(canon)
      BY <1>1, <3>1
    <3> QED BY <3>1, <3>2
  <2>3. eol' = eol
    BY <1>1, <2>2
  <2>4. canon' = canon
    <3>1. /\ canon' \in Seq(D1!Lines) /\ Len(canon') = Len(canon)
          /\ \A i \in 1..Len(canon) : canon'[i] = canon[i]
      <4>1. \A i \in 1..Len(canon) : canon[i] \in D1!Lines
        BY <1>1, ElementOfSeq
      <4> QED BY <1>1, <2>2, <4>1, SubSeqProperties
    <3> QED BY <1>1, <3>1, SeqEqual
  <2> QED BY <2>1, <2>2, <2>3, <2>4, MemFields1 DEF Quiet
<1>9. ASSUME NEW r \in Requests, D1!Launch(r)
      PROVE  /\ UNCHANGED <<canon, eol, hashes, now>>
             /\ Quiet(Mem1, Mem1', canon, launches, launches')
  BY <1>9, MemFields1 DEF D1!Launch, D1!logVars, Quiet
<1> QED BY <1>3, <1>4, <1>5, <1>6, <1>7, <1>8, <1>9

-----------------------------------------------------------------------------
(* The second daemon, in the same words *)

\* The memory of the second daemon.
LEMMA MemFields2 ==
  /\ Mem2.phase = phase2 /\ Mem2.proj = proj2 /\ Mem2.scratch = scratch2
  /\ Mem2.pos = pos2 /\ Mem2.exec = exec2 /\ Mem2.hash = lastHash2
  /\ Mem2'.phase = phase2' /\ Mem2'.proj = proj2' /\ Mem2'.scratch = scratch2'
  /\ Mem2'.pos = pos2' /\ Mem2'.exec = exec2' /\ Mem2'.hash = lastHash2'
BY DEF Mem2

\* Record, as the second daemon executes it.
LEMMA RecordStep2 ==
  ASSUME DInv, NEW t \in D1!EventTypes, NEW r \in Requests, NEW a \in D1!Identities,
         NEW exp \in Nat, NEW big \in BOOLEAN, NEW o \in D1!Outcomes,
         D2!Record(D2!Event(t, r, a, exp), big, o), proj2[r].status \in D1!From(t)
  PROVE  /\ Wrote(lastHash2, lastHash2', t, r, o)
         /\ o # "nil" => proj2' = proj2
         /\ o = "nil" => /\ proj2' \in [Requests -> D1!Snapshots]
                         /\ proj2'[r].status = D1!To(t)
                         /\ \A q \in Requests : q # r => proj2'[q] = proj2[q]
<1> DEFINE e == D2!Event(t, r, a, exp)
<1>1. /\ FileInv /\ now \in Nat /\ lastHash2 \in Nat /\ proj2 \in [Requests -> D1!Snapshots]
  BY MemFields2 DEF DInv, MemTypes
<1>2. /\ e \in Events /\ e.type = t /\ e.req = r /\ e.by = a /\ e.expires = exp
  BY <1>1 DEF D2!Event, Events
<1>3. /\ D2!LogAppend(e, big, o)
      /\ proj2' = IF o = "nil" /\ D2!CanApply(proj2, e) THEN D2!Apply(proj2, e) ELSE proj2
  BY DEF D2!Record
<1> HIDE DEF e
<1>4. AppendBy(lastHash2, lastHash2', e, big, o)
  BY <1>3 DEF D2!LogAppend, AppendBy, D1!Written, D2!Written
<1>5. Wrote(lastHash2, lastHash2', t, r, o)
  BY <1>1, <1>2, <1>4, AppendWrote
<1>6. D2!CanApply(proj2, e)
  BY <1>2 DEF D2!CanApply, D2!From, D1!From
<1>7. D2!Apply(proj2, e) = D1!Apply(proj2, e)
  BY DEF D2!Apply, D1!Apply, D2!To, D1!To
<1>8. /\ D1!Apply(proj2, e) \in [Requests -> D1!Snapshots]
      /\ D1!Apply(proj2, e)[r].status = D1!To(t)
      /\ \A q \in Requests : q # r => D1!Apply(proj2, e)[q] = proj2[q]
  BY <1>1, <1>2, ApplyFacts
<1> QED BY <1>3, <1>5, <1>6, <1>7, <1>8

\* Every handler of the second daemon, and its recovery, records one event that
\* the request's status admits.
LEMMA Handlers2 ==
  ASSUME DInv, NEW r \in Requests, NEW o \in D1!Outcomes,
         \/ \E c \in Users, big \in Sizes : D2!Submit(r, c, big, o)
         \/ D2!Status(r, o) \/ D2!ExecuteBegin(r, o)
         \/ \E a \in Actors, big \in Sizes : D2!Approve(r, a, big, o) \/ D2!Deny(r, a, big, o)
         \/ \E result \in Results, big \in Sizes : D2!ExecuteEnd(r, result, big, o)
         \/ D2!Recover(r, o)
  PROVE  /\ UNCHANGED <<launches, now>>
         /\ \E t \in D1!EventTypes : Recorded(Mem2, Mem2', t, r, o)
<1>1. /\ now \in Nat /\ now + TTL \in Nat /\ D2!Daemon \in D1!Identities
      /\ Users \subseteq D1!Identities /\ Actors \subseteq D1!Identities
      /\ exec2 \in [Requests -> D1!ExecStates] /\ phase2 \in D1!Phases
      /\ \A q \in Requests : exec2[q] # "idle" => phase2 = "up" /\ proj2[q].status = "executing"
  BY MemFields2 DEF DInv, MemTypes, MemInv, D1!Identities, D2!Daemon, D1!Daemon
<1>2. ASSUME NEW t \in D1!EventTypes, NEW a \in D1!Identities, NEW exp \in Nat, NEW big \in BOOLEAN,
             D2!Record(D2!Event(t, r, a, exp), big, o), proj2[r].status \in D1!From(t),
             phase2 \in {"recovering", "up"},
             UNCHANGED <<scratch2, pos2, launches, now>>,
             phase2' = phase2 \/ (phase2' = "down" /\ phase2 = "recovering" /\ exec2' = exec2),
             exec2' \in [Requests -> D1!ExecStates],
             \A q \in Requests :
                \/ exec2'[q] = "idle"
                \/ exec2'[q] = exec2[q] /\ (q = r => "executing" \notin D1!From(t))
                \/ /\ exec2'[q] = "started" /\ phase2 = "up"
                   /\ q = r /\ o = "nil" /\ t = "execution_started"
      PROVE  /\ UNCHANGED <<launches, now>>
             /\ \E x \in D1!EventTypes : Recorded(Mem2, Mem2', x, r, o)
  <2>1. /\ Wrote(lastHash2, lastHash2', t, r, o)
        /\ o # "nil" => proj2' = proj2
        /\ o = "nil" => /\ proj2' \in [Requests -> D1!Snapshots]
                        /\ proj2'[r].status = D1!To(t)
                        /\ \A q \in Requests : q # r => proj2'[q] = proj2[q]
    BY <1>2, RecordStep2
  <2>2. Recorded(Mem2, Mem2', t, r, o)
    BY <1>2, <2>1, MemFields2 DEF Recorded
  <2> QED BY <1>2, <2>2
<1>3. ASSUME D2!Up, D2!Expire(r, o), UNCHANGED exec2
      PROVE  /\ UNCHANGED <<launches, now>>
             /\ \E x \in D1!EventTypes : Recorded(Mem2, Mem2', x, r, o)
  <2>1. /\ phase2 = "up" /\ UNCHANGED <<phase2, scratch2, pos2, launches, now>>
        /\ proj2[r].status = "pending"
        /\ D2!Record(D2!Event("request_expired", r, D2!Daemon, 0), FALSE, o)
    BY <1>3 DEF D2!Up, D2!Expire, D2!Overdue
  <2>2. "pending" \in D1!From("request_expired") /\ "executing" \notin D1!From("request_expired")
    BY DEF D1!From
  <2> QED BY <1>1, <1>2, <1>3, <2>1, <2>2
<1>4. ASSUME NEW c \in Users, NEW big \in Sizes, D2!Submit(r, c, big, o)
      PROVE  /\ UNCHANGED <<launches, now>>
             /\ \E x \in D1!EventTypes : Recorded(Mem2, Mem2', x, r, o)
  <2>1. /\ phase2 = "up" /\ UNCHANGED <<phase2, scratch2, pos2, launches, now, exec2>>
        /\ proj2[r].status = "absent"
        /\ D2!Record(D2!Event("request_created", r, c, now + TTL), big, o)
    BY <1>4 DEF D2!Submit, D2!Up
  <2>2. /\ "absent" \in D1!From("request_created") /\ "executing" \notin D1!From("request_created")
        /\ big \in BOOLEAN /\ c \in D1!Identities
    BY <1>1 DEF D1!From
  <2> QED BY <1>1, <1>2, <2>1, <2>2
<1>5. ASSUME NEW a \in Actors, NEW verdict \in {"request_approved", "request_denied"},
             NEW big \in Sizes, D2!Review(r, a, verdict, big, o)
      PROVE  /\ UNCHANGED <<launches, now>>
             /\ \E x \in D1!EventTypes : Recorded(Mem2, Mem2', x, r, o)
  <2>1. D2!Up /\ UNCHANGED exec2
    BY <1>5 DEF D2!Review
  <2>2. CASE D2!Expire(r, o)
    BY <1>3, <2>1, <2>2
  <2>3. CASE /\ proj2[r].status = "pending"
             /\ D2!Record(D2!Event(verdict, r, a, 0), big, o)
    <3>1. phase2 = "up" /\ UNCHANGED <<phase2, scratch2, pos2, launches, now>>
      BY <2>1 DEF D2!Up
    <3>2. /\ "pending" \in D1!From(verdict) /\ "executing" \notin D1!From(verdict)
          /\ verdict \in D1!EventTypes /\ a \in D1!Identities /\ big \in BOOLEAN
      BY <1>1 DEF D1!From
    <3> QED BY <1>1, <1>2, <2>1, <2>3, <3>1, <3>2
  <2> QED BY <1>5, <2>2, <2>3 DEF D2!Review
<1>6. CASE D2!Status(r, o)
  BY <1>3, <1>6 DEF D2!Status
<1>7. CASE D2!ExecuteBegin(r, o)
  <2>1. D2!Up
    BY <1>7 DEF D2!ExecuteBegin
  <2>2. CASE D2!Expire(r, o) /\ UNCHANGED exec2
    BY <1>3, <2>1, <2>2
  <2>3. CASE /\ proj2[r].status = "approved"
             /\ D2!Record(D2!Event("execution_started", r, D2!Daemon, 0), FALSE, o)
             /\ exec2' = IF o = "nil" THEN [exec2 EXCEPT ![r] = "started"] ELSE exec2
    <3>1. phase2 = "up" /\ UNCHANGED <<phase2, scratch2, pos2, launches, now>>
      BY <2>1 DEF D2!Up
    <3>2. "approved" \in D1!From("execution_started") /\ "executing" \notin D1!From("execution_started")
      BY DEF D1!From
    <3>3. /\ exec2' \in [Requests -> D1!ExecStates]
          /\ \A q \in Requests : \/ exec2'[q] = exec2[q]
                                 \/ exec2'[q] = "started" /\ q = r /\ o = "nil"
      BY <1>1, <2>3 DEF D1!ExecStates
    <3> QED BY <1>1, <1>2, <2>3, <3>1, <3>2, <3>3
  <2> QED BY <1>7, <2>2, <2>3 DEF D2!ExecuteBegin
<1>8. ASSUME NEW result \in Results, NEW big \in Sizes, D2!ExecuteEnd(r, result, big, o)
      PROVE  /\ UNCHANGED <<launches, now>>
             /\ \E x \in D1!EventTypes : Recorded(Mem2, Mem2', x, r, o)
  <2>1. /\ phase2 = "up" /\ UNCHANGED <<phase2, scratch2, pos2, launches, now>>
        /\ exec2[r] # "idle" /\ exec2' = [exec2 EXCEPT ![r] = "idle"]
        /\ D2!Record(D2!Event(result, r, D2!Daemon, 0), big, o)
    BY <1>8 DEF D2!ExecuteEnd, D2!Up
  <2>2. /\ "executing" \in D1!From(result) /\ result \in D1!EventTypes /\ big \in BOOLEAN
        /\ proj2[r].status = "executing"
    BY <1>1, <2>1 DEF D1!From
  <2>3. /\ exec2' \in [Requests -> D1!ExecStates]
        /\ \A q \in Requests : exec2'[q] = "idle" \/ (exec2'[q] = exec2[q] /\ q # r)
    BY <1>1, <2>1 DEF D1!ExecStates
  <2> QED BY <1>1, <1>2, <2>1, <2>2, <2>3
<1>9. CASE D2!Recover(r, o)
  <2>1. /\ phase2 = "recovering" /\ phase2' \in {"recovering", "down"}
        /\ UNCHANGED <<scratch2, pos2, launches, now, exec2>>
        /\ proj2[r].status = "executing"
        /\ D2!Record(D2!Event("recovery_marked_failed", r, D2!Daemon, 0), FALSE, o)
    BY <1>9 DEF D2!Recover
  <2>2. "executing" \in D1!From("recovery_marked_failed")
    BY DEF D1!From
  <2>3. \A q \in Requests : exec2'[q] = "idle"
    BY <1>1, <2>1
  <2> QED BY <1>1, <1>2, <2>1, <2>2, <2>3
<1> QED BY <1>4, <1>5, <1>6, <1>7, <1>8, <1>9 DEF D2!Approve, D2!Deny

\* What the second daemon does without writing.
LEMMA Quiet2 ==
  ASSUME DInv, ~PowerLoss,
         \/ D2!Start \/ D2!ReplayLine \/ D2!Refuse \/ D2!Adopt \/ D2!Serve \/ D2!Crash
         \/ \E r \in Requests : D2!Launch(r)
  PROVE  /\ UNCHANGED <<canon, eol, hashes, now>>
         /\ Quiet(Mem2, Mem2', canon, launches, launches')
<1>1. /\ canon \in Seq(D1!Lines) /\ Len(canon) \in Nat /\ eol \in BOOLEAN
      /\ exec2 \in [Requests -> D1!ExecStates]
      /\ \A q \in Requests : exec2[q] # "idle" => phase2 = "up"
  BY MemFields2, LenProperties DEF DInv, FileInv, MemTypes, MemInv
<1>2. D2!New = D1!New
  BY DEF D2!New, D1!New
<1>3. CASE D2!Start
  BY <1>3, MemFields2 DEF D2!Start, Quiet, LastHash
<1>4. CASE D2!ReplayLine
  <2>1. \A p, e : D2!CanApply(p, e) = D1!CanApply(p, e) /\ D2!Apply(p, e) = D1!Apply(p, e)
    BY DEF D2!CanApply, D1!CanApply, D2!Apply, D1!Apply, D2!To, D1!To, D2!From, D1!From
  <2> QED BY <1>4, <2>1, MemFields2 DEF D2!ReplayLine, D2!logVars, Quiet
<1>5. CASE D2!Refuse
  <2>1. /\ phase2 = "replaying" /\ phase2' = "down"
        /\ UNCHANGED <<canon, eol, hashes, now, launches, exec2, proj2, lastHash2>>
        /\ scratch2' = D1!New /\ pos2' = 0
    BY <1>2, <1>5 DEF D2!Refuse, D2!Rejected, D2!EndOfReplay, D2!logVars
  <2>2. exec2' = [r \in Requests |-> "idle"]
    BY <1>1, <2>1
  <2> QED BY <2>1, <2>2, MemFields2 DEF Quiet
<1>6. CASE D2!Adopt
  BY <1>2, <1>6, MemFields2 DEF D2!Adopt, D2!EndOfReplay, Quiet
<1>7. CASE D2!Serve
  BY <1>7, MemFields2 DEF D2!Serve, D2!logVars, Quiet
<1>8. CASE D2!Crash
  <2>1. /\ D2!LogCrash /\ phase2' = "down" /\ exec2' = [r \in Requests |-> "idle"]
        /\ UNCHANGED <<now, launches, proj2>> /\ scratch2' = D1!New /\ pos2' = 0
    BY <1>2, <1>8 DEF D2!Crash, D2!EndOfReplay
  <2>2. /\ canon' = SubSeq(canon, 1, Len(canon)) /\ eol' = (eol \/ Len(canon) < Len(canon))
        /\ UNCHANGED <<lastHash2, hashes>>
    <3>1. PICK n \in (IF PowerLoss THEN synced ELSE Len(canon))..Len(canon) :
             /\ canon' = SubSeq(canon, 1, n)
             /\ eol' = (eol \/ n < Len(canon))
             /\ UNCHANGED <<lastHash2, hashes>>
      BY <2>1 DEF D2!LogCrash
    <3>2. n = Len(canon)
      BY <1>1, <3>1
    <3> QED BY <3>1, <3>2
  <2>3. eol' = eol
    BY <1>1, <2>2
  <2>4. canon' = canon
    <3>1. /\ canon' \in Seq(D1!Lines) /\ Len(canon') = Len(canon)
          /\ \A i \in 1..Len(canon) : canon'[i] = canon[i]
      <4>1. \A i \in 1..Len(canon) : canon[i] \in D1!Lines
        BY <1>1, ElementOfSeq
      <4> QED BY <1>1, <2>2, <4>1, SubSeqProperties
    <3> QED BY <1>1, <3>1, SeqEqual
  <2> QED BY <2>1, <2>2, <2>3, <2>4, MemFields2 DEF Quiet
<1>9. ASSUME NEW r \in Requests, D2!Launch(r)
      PROVE  /\ UNCHANGED <<canon, eol, hashes, now>>
             /\ Quiet(Mem2, Mem2', canon, launches, launches')
  BY <1>9, MemFields2 DEF D2!Launch, D2!logVars, Quiet
<1> QED BY <1>3, <1>4, <1>5, <1>6, <1>7, <1>8, <1>9

-----------------------------------------------------------------------------
(* The theorems *)

\* It does not matter which daemon is the first.
LEMMA LaunchSymmetric ==
  ASSUME NEW v, NEW w, NEW c, NEW l \in [Requests -> Nat], LaunchInv(v, w, c, l)
  PROVE  LaunchInv(w, v, c, l)
<1> SUFFICES ASSUME Chained(c), NEW r \in Requests
             PROVE  /\ l[r] + Armed(w, r) + Armed(v, r) <= 1
                    /\ l[r] + Armed(w, r) + Armed(v, r) > 0 => Started(c, r)
  BY DEF LaunchInv
<1>1. l[r] \in Nat /\ Armed(v, r) \in {0, 1} /\ Armed(w, r) \in {0, 1}
  BY DEF Armed
<1>2. /\ l[r] + Armed(v, r) + Armed(w, r) <= 1
      /\ l[r] + Armed(v, r) + Armed(w, r) > 0 => Started(c, r)
  BY DEF LaunchInv
<1> QED BY <1>1, <1>2

\* Whatever the first daemon does, the invariant holds on.
LEMMA First ==
  ASSUME DInv, ~PowerLoss, UNCHANGED mem2,
         \/ D1!Start \/ D1!ReplayLine \/ D1!Refuse \/ D1!Adopt \/ D1!Serve \/ D1!Crash
         \/ \E r \in Requests : D1!Launch(r)
         \/ \E r \in Requests, o \in D1!Outcomes :
              \/ \E c \in Users, big \in Sizes : D1!Submit(r, c, big, o)
              \/ D1!Status(r, o) \/ D1!ExecuteBegin(r, o)
              \/ \E a \in Actors, big \in Sizes : D1!Approve(r, a, big, o) \/ D1!Deny(r, a, big, o)
              \/ \E result \in Results, big \in Sizes : D1!ExecuteEnd(r, result, big, o)
              \/ D1!Recover(r, o)
  PROVE  DInv'
<1>1. /\ FileInv /\ now \in Nat /\ launches \in [Requests -> Nat]
      /\ MemTypes(Mem1, hashes) /\ MemInv(Mem1, canon)
      /\ MemTypes(Mem2, hashes) /\ MemInv(Mem2, canon)
      /\ LaunchInv(Mem1, Mem2, canon, launches)
  BY DEF DInv
<1>2. Mem2' = Mem2
  BY DEF mem2, Mem2
<1>3. ASSUME NEW r \in Requests, NEW o, NEW t \in D1!EventTypes,
             UNCHANGED <<launches, now>>, Recorded(Mem1, Mem1', t, r, o)
      PROVE  DInv'
  <2>1. Wrote(Mem1.hash, Mem1'.hash, t, r, o)
    BY <1>3 DEF Recorded
  <2>2. MemTypes(Mem1', hashes') /\ MemInv(Mem1', canon')
    BY <1>1, <1>3, WriterKeeps
  <2>3. MemTypes(Mem2, hashes') /\ MemInv(Mem2, canon')
    BY <1>1, <2>1, OtherKeeps
  <2>4. LaunchInv(Mem1', Mem2, canon', launches)
    BY <1>1, <1>3, WriteLaunch
  <2>5. FileInv'
    BY <2>1 DEF Wrote
  <2> QED BY <1>1, <1>2, <1>3, <2>2, <2>3, <2>4, <2>5 DEF DInv
<1>4. ASSUME UNCHANGED <<canon, eol, hashes, now>>,
             Quiet(Mem1, Mem1', canon, launches, launches')
      PROVE  DInv'
  <2>1. /\ MemTypes(Mem1', hashes) /\ MemInv(Mem1', canon)
        /\ launches' \in [Requests -> Nat] /\ LaunchInv(Mem1', Mem2, canon, launches')
    BY <1>1, <1>4, QuietKeeps
  <2>2. FileInv'
    BY <1>1, <1>4 DEF FileInv
  <2> QED BY <1>1, <1>2, <1>4, <2>1, <2>2 DEF DInv
<1> QED BY <1>3, <1>4, Handlers1, Quiet1
\* Whatever the second daemon does, the invariant holds on.
LEMMA Second ==
  ASSUME DInv, ~PowerLoss, UNCHANGED mem1,
         \/ D2!Start \/ D2!ReplayLine \/ D2!Refuse \/ D2!Adopt \/ D2!Serve \/ D2!Crash
         \/ \E r \in Requests : D2!Launch(r)
         \/ \E r \in Requests, o \in D1!Outcomes :
              \/ \E c \in Users, big \in Sizes : D2!Submit(r, c, big, o)
              \/ D2!Status(r, o) \/ D2!ExecuteBegin(r, o)
              \/ \E a \in Actors, big \in Sizes : D2!Approve(r, a, big, o) \/ D2!Deny(r, a, big, o)
              \/ \E result \in Results, big \in Sizes : D2!ExecuteEnd(r, result, big, o)
              \/ D2!Recover(r, o)
  PROVE  DInv'
<1>1. /\ FileInv /\ now \in Nat /\ launches \in [Requests -> Nat]
      /\ MemTypes(Mem2, hashes) /\ MemInv(Mem2, canon)
      /\ MemTypes(Mem1, hashes) /\ MemInv(Mem1, canon)
      /\ LaunchInv(Mem2, Mem1, canon, launches)
  BY LaunchSymmetric DEF DInv
<1>2. Mem1' = Mem1
  BY DEF mem1, Mem1
<1>3. ASSUME NEW r \in Requests, NEW o, NEW t \in D1!EventTypes,
             UNCHANGED <<launches, now>>, Recorded(Mem2, Mem2', t, r, o)
      PROVE  DInv'
  <2>1. Wrote(Mem2.hash, Mem2'.hash, t, r, o)
    BY <1>3 DEF Recorded
  <2>2. MemTypes(Mem2', hashes') /\ MemInv(Mem2', canon')
    BY <1>1, <1>3, WriterKeeps
  <2>3. MemTypes(Mem1, hashes') /\ MemInv(Mem1, canon')
    BY <1>1, <2>1, OtherKeeps
  <2>4. LaunchInv(Mem2', Mem1, canon', launches)
    BY <1>1, <1>3, WriteLaunch
  <2>5. FileInv'
    BY <2>1 DEF Wrote
  <2>6. LaunchInv(Mem1, Mem2', canon', launches)
    BY <1>1, <2>4, LaunchSymmetric
  <2> QED BY <1>1, <1>2, <1>3, <2>2, <2>3, <2>5, <2>6 DEF DInv
<1>4. ASSUME UNCHANGED <<canon, eol, hashes, now>>,
             Quiet(Mem2, Mem2', canon, launches, launches')
      PROVE  DInv'
  <2>1. /\ MemTypes(Mem2', hashes) /\ MemInv(Mem2', canon)
        /\ launches' \in [Requests -> Nat] /\ LaunchInv(Mem2', Mem1, canon, launches')
    BY <1>1, <1>4, QuietKeeps
  <2>2. FileInv'
    BY <1>1, <1>4 DEF FileInv
  <2>3. LaunchInv(Mem1, Mem2', canon, launches')
    BY <2>1, LaunchSymmetric
  <2> QED BY <1>1, <1>2, <1>4, <2>1, <2>2, <2>3 DEF DInv
<1> QED BY <1>3, <1>4, Handlers2, Quiet2

\* Every step of the daemons, their clients and the clock preserves the invariant.
LEMMA StepDInv ==
  ASSUME DInv, ~PowerLoss, [Next]_vars
  PROVE  DInv'
<1>1. ASSUME UNCHANGED <<canon, eol, hashes, launches, mem1, mem2>>, now' \in Nat
      PROVE  DInv'
  <2>1. Mem1' = Mem1 /\ Mem2' = Mem2
    BY <1>1 DEF mem1, mem2, Mem1, Mem2
  <2> QED BY <1>1, <2>1 DEF DInv, FileInv
<1>2. now \in Nat
  BY DEF DInv
<1>3. ASSUME NEW d \in 1..2, Inside(d) PROVE DInv'
  BY <1>3, First, Second DEF Inside, By
<1>4. ASSUME NEW d \in 1..2, OpenRequests(d) \/ Kill(d) \/ Stop(d) PROVE DInv'
  BY <1>4, First, Second DEF OpenRequests, Kill, Stop, Gone, By
<1>5. ASSUME NEW d \in 1..2, OpenReviews(d) PROVE DInv'
  BY <1>1, <1>2, <1>5 DEF OpenReviews
<1>6. ASSUME NEW c \in Users, Hangup(c) \/ \E lane \in Lanes : Dial(c, lane) PROVE DInv'
  BY <1>1, <1>2, <1>6 DEF Hangup, Dial
<1>7. ASSUME NEW c \in Users, NEW r \in Requests, NEW o \in D1!Outcomes, Dispatch(c, r, o)
      PROVE  DInv'
  <2>1. CASE Ask(conn[c].to, c, r, o)
    BY <2>1, First, Second DEF Ask, By
  <2>2. CASE Decide(conn[c].to, r, o)
    BY <2>2, First, Second DEF Decide, By
  <2> QED BY <1>7, <2>1, <2>2 DEF Dispatch
<1>8. CASE Clock
  BY <1>1, <1>8 DEF Clock, D1!Clock, D1!logVars, D1!memVars, mem1
<1>9. CASE UNCHANGED vars
  BY <1>1, <1>2, <1>9 DEF vars, mem1, mem2
<1> QED BY <1>3, <1>4, <1>5, <1>6, <1>7, <1>8, <1>9 DEF Next

\* No daemon and an empty log satisfy the invariant.
LEMMA InitDInv == Init => DInv
<1> SUFFICES ASSUME Init PROVE DInv
  OBVIOUS
<1>1. /\ canon = << >> /\ eol = TRUE /\ hashes = 0 /\ now = 0
      /\ launches = [r \in Requests |-> 0]
      /\ lastHash1 = 0 /\ phase1 = "down" /\ proj1 = D1!New /\ scratch1 = D1!New
      /\ pos1 = 0 /\ exec1 = [r \in Requests |-> "idle"]
      /\ lastHash2 = 0 /\ phase2 = "down" /\ proj2 = D1!New /\ scratch2 = D1!New
      /\ pos2 = 0 /\ exec2 = [r \in Requests |-> "idle"]
  BY DEF Init, D1!Init, D2!Init, D1!LogInit, D2!LogInit, D1!New, D2!New
<1>2. canon \in Seq(D1!Lines) /\ Len(canon) = 0
  BY <1>1, EmptySeq
<1>3. D1!New \in [Requests -> D1!Snapshots] /\ \A c : Shows(c, D1!New, 0)
  BY DEF D1!New, D1!Snapshots, D1!Identities, Shows
<1>4. FileInv
  BY <1>1, <1>2 DEF FileInv
<1>5. ASSUME NEW v, v.phase = "down", v.proj = D1!New, v.scratch = D1!New, v.pos = 0,
             v.exec = [r \in Requests |-> "idle"], v.hash = 0
      PROVE  MemTypes(v, hashes) /\ MemInv(v, canon)
  <2>1. MemTypes(v, hashes)
    BY <1>1, <1>3, <1>5 DEF MemTypes, D1!Phases, D1!ExecStates
  <2>2. MemInv(v, canon)
    BY <1>2, <1>3, <1>5 DEF MemInv
  <2> QED BY <2>1, <2>2
<1>6. /\ MemTypes(Mem1, hashes) /\ MemInv(Mem1, canon)
      /\ MemTypes(Mem2, hashes) /\ MemInv(Mem2, canon)
  BY <1>1, <1>5, MemFields1, MemFields2
<1>7. LaunchInv(Mem1, Mem2, canon, launches)
  BY <1>1, MemFields1, MemFields2 DEF LaunchInv, Armed
<1> QED BY <1>1, <1>4, <1>6, <1>7 DEF DInv

\* An intact file is chained.
LEMMA IntactChained == FileInv /\ Intact => Chained(canon)
<1> SUFFICES ASSUME FileInv, Intact PROVE Chained(canon)
  OBVIOUS
<1>1. DOMAIN canon = 1..Len(canon)
  BY LenProperties DEF FileInv
<1> QED BY <1>1 DEF Intact, Chained, D1!Readable

\* Of two projections that show a part of the same file, one is past the other.
LEMMA ShownAgree ==
  ASSUME NEW c, NEW p, NEW q, NEW m \in Nat, NEW n \in Nat, m <= n,
         Shows(c, p, m), Shows(c, q, n), NEW r \in Requests, q[r].status \in D1!Statuses
  PROVE  q[r].status \in Reach(p[r].status)
<1>1. CASE p[r].status = "absent"
  BY <1>1, ReachSelf
<1>2. CASE p[r].status # "absent"
  <2>1. PICK i \in 1..m : c[i].req = r /\ D1!To(c[i].type) = p[r].status
    BY <1>2 DEF Shows
  <2>2. i \in 1..n
    OBVIOUS
  <2>3. q[c[i].req].status \in Reach(D1!To(c[i].type))
    BY <2>2 DEF Shows
  <2> QED BY <2>1, <2>3
<1> QED BY <1>1, <1>2

\* Two daemons over one log can launch a command twice, each from its own memory,
\* but then the log is one that no start accepts: the daemon that launches second
\* chains its execution_started line to a hash that is not the last one (Append,
\* replayUnlocked).
THEOREM DoubleLaunchShows ==
  ASSUME ~PowerLoss
  PROVE  Spec => []SecondLaunchShows
<1>1. DInv => SecondLaunchShows
  <2> SUFFICES ASSUME DInv, Intact, NEW r \in Requests PROVE ~(launches[r] > 1)
    BY DEF SecondLaunchShows
  <2>1. Chained(canon) /\ launches[r] \in Nat
    BY IntactChained DEF DInv
  <2>2. launches[r] + Armed(Mem1, r) + Armed(Mem2, r) <= 1
    BY <2>1 DEF DInv, LaunchInv
  <2>3. Armed(Mem1, r) \in {0, 1} /\ Armed(Mem2, r) \in {0, 1}
    BY DEF Armed
  <2> QED BY <2>1, <2>2, <2>3
<1>2. DInv /\ [Next]_vars => DInv'
  BY StepDInv
<1> QED BY InitDInv, <1>1, <1>2, PTL DEF Spec

\* As long as the log is intact, what one of two daemons serves of a request is
\* what the other one serves or will come to: both projections show a beginning of
\* the same file (Record, lastHash).
THEOREM DaemonsAgree ==
  ASSUME ~PowerLoss
  PROVE  Spec => []ViewsAgree
<1>1. DInv => ViewsAgree
  <2> SUFFICES ASSUME DInv, Intact, Up(1), Up(2), NEW r \in Requests
               PROVE  \/ proj1[r].status \in Reach(proj2[r].status)
                      \/ proj2[r].status \in Reach(proj1[r].status)
    BY DEF ViewsAgree, Reach
  <2>1. /\ Chained(canon) /\ phase1 = "up" /\ phase2 = "up" /\ Len(canon) \in Nat
    BY IntactChained, LenProperties DEF DInv, FileInv, Up
  <2>2. PICK m \in 0..Len(canon) : Shows(canon, proj1, m)
    BY <2>1, MemFields1 DEF DInv, MemInv
  <2>3. PICK n \in 0..Len(canon) : Shows(canon, proj2, n)
    BY <2>1, MemFields2 DEF DInv, MemInv
  <2>4. proj1[r].status \in D1!Statuses /\ proj2[r].status \in D1!Statuses
    <3>1. proj1 \in [Requests -> D1!Snapshots] /\ proj2 \in [Requests -> D1!Snapshots]
      BY MemFields1, MemFields2 DEF DInv, MemTypes
    <3> QED BY <3>1 DEF D1!Snapshots
  <2>5. m \in Nat /\ n \in Nat /\ (m <= n \/ n <= m)
    BY <2>1
  <2> QED BY <2>2, <2>3, <2>4, <2>5, ShownAgree
<1>2. DInv /\ [Next]_vars => DInv'
  BY StepDInv
<1> QED BY InitDInv, <1>1, <1>2, PTL DEF Spec
=============================================================================
