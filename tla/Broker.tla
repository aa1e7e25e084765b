------------------------------- MODULE Broker -------------------------------
(***************************************************************************)
(* The daemon request-sudod: the broker service over the event log, the    *)
(* projection it keeps in memory, its start-up and its crashes.            *)
(*                                                                         *)
(* Every handler runs under Service.mu, so it is one step, with one        *)
(* exception: Execute releases the mutex while the command runs, which     *)
(* gives it three steps (ExecuteBegin, Launch, ExecuteEnd).  A handler     *)
(* whose code returns without writing (not found, not pending, not         *)
(* approved, rejected) changes nothing and is a stuttering step.           *)
(***************************************************************************)
EXTENDS Projection, EventLog

CONSTANTS Users,       \* requesters, as the socket's peer credentials name them
          Actors,      \* approver identities a review payload may carry
          Names,       \* user -> the actor ids validateApprover takes for the user
          TTL,         \* Service.ttl
          MaxNow,      \* the clock stays within 0..MaxNow
          MaxCrashes,  \* bound on crashes
          Sizes        \* {FALSE}: all lines small; BOOLEAN: some exceed 2 MiB

Daemon == "request-sudod"

ASSUME ConstantsAssumption ==
  /\ TTL \in Nat /\ MaxNow \in Nat
  /\ MaxCrashes \in Nat /\ MaxInterrupted \in Nat
  /\ Sizes \subseteq BOOLEAN /\ PowerLoss \in BOOLEAN
  /\ NoOne \notin Users
  /\ Names \in [Users -> SUBSET Actors]

VARIABLES phase,     \* of the process: see Phases
          proj,      \* Service.projection; after a crash, the last one served
          scratch,   \* the projection Rebuild is building
          pos,       \* lines replayed so far
          chain,     \* hash of the last line replayed (prevHash)
          exec,      \* request -> where its Execute handler is: see ExecStates
          launches,  \* history: request -> number of times its command was run
          now,       \* the wall clock
          crashes    \* number of crashes so far

memVars == <<phase, proj, scratch, pos, chain, exec>>
vars == <<canon, eol, synced, lastHash, hashes, accepted, interrupted,
          phase, proj, scratch, pos, chain, exec, launches, now, crashes>>

\* "down": no process.  "replaying": NewLog and Rebuild read the file.
\* "recovering": recoverExecutingLocked.  "up": the sockets are served.
Phases == {"down", "replaying", "recovering", "up"}

\* "idle": no handler.  "started": execution_started is recorded and the mutex
\* released.  "running": the command was launched.
ExecStates == {"idle", "started", "running"}

Init ==
  /\ LogInit
  /\ phase = "down"
  /\ proj = New
  /\ scratch = New
  /\ pos = 0
  /\ chain = 0
  /\ exec = [r \in Requests |-> "idle"]
  /\ launches = [r \in Requests |-> 0]
  /\ now = 0
  /\ crashes = 0

-----------------------------------------------------------------------------
(* Handlers *)

\* A line's timestamp is a later reading of the clock (Log.Append) that nothing
\* reads back, and is left out.  checked is history: for an approval, what
\* expireIfNeededLocked read when it compared the clock with the deadline.
Event(t, r, a, exp) ==
  [type |-> t, req |-> r, by |-> a, expires |-> exp,
   checked |-> IF t = "request_approved" THEN now ELSE 0]

\* Mutant of Record: the projection changes even if the append failed.
RecordEager(e, big, o) ==
  /\ LogAppend(e, big, o)
  /\ proj' = IF CanApply(proj, e) THEN Apply(proj, e) ELSE proj

\* log.Append and, when it succeeded, projection.Apply.
Record(e, big, o) ==
  /\ LogAppend(e, big, o)
  /\ proj' = IF o = "nil" /\ CanApply(proj, e) THEN Apply(proj, e) ELSE proj

\* Mutant of Overdue: off by one at the deadline.
OverdueLate(r) == proj[r].status = "pending" /\ now > proj[r].expires

\* !now.Before(snapshot.Request.ExpiresAt) on a pending request.
Overdue(r) == proj[r].status = "pending" /\ now >= proj[r].expires

\* expireIfNeededLocked when it writes.  The handler that called it then finds
\* the request no longer pending, or the append failed: either way it returns.
Expire(r, o) ==
  /\ Overdue(r)
  /\ Record(Event("request_expired", r, Daemon, 0), FALSE, o)

\* validateApprover; NoOne is an actor with an empty kind or id.
ValidApprover(a, user) == a # NoOne /\ a \notin Names[user]

Up == phase = "up" /\ UNCHANGED <<phase, scratch, pos, chain, launches, now, crashes>>

\* randomID draws an id that neither the log nor the memory has seen.
Submit(r, user, big, o) ==
  /\ Up
  /\ proj[r].status = "absent"
  /\ \A i \in 1..Len(canon) : canon[i].req # r
  /\ Record(Event("request_created", r, user, now + TTL), big, o)
  /\ UNCHANGED exec

Status(r, o) ==
  /\ Up
  /\ Expire(r, o)
  /\ UNCHANGED exec

\* Approve and Deny differ in the event they record.  What the payload says (an
\* approval code, a reason, the approver's id) decides whether the line is big.
Review(r, a, verdict, big, o) ==
  /\ Up
  /\ \/ Expire(r, o)
     \/ /\ proj[r].status = "pending"
        /\ ~Overdue(r)
        /\ ValidApprover(a, proj[r].owner)
        /\ Record(Event(verdict, r, a, 0), big, o)
  /\ UNCHANGED exec

Approve(r, a, big, o) == Review(r, a, "request_approved", big, o)
Deny(r, a, big, o) == Review(r, a, "request_denied", big, o)

\* Mutant of ExecuteBegin: the error of the append is ignored.
ExecuteBeginUnrecorded(r, o) ==
  /\ Up
  /\ \/ Expire(r, o) /\ UNCHANGED exec
     \/ /\ proj[r].status = "approved"
        /\ Record(Event("execution_started", r, Daemon, 0), FALSE, o)
        /\ exec' = [exec EXCEPT ![r] = "started"]

\* Execute up to its first unlock.
ExecuteBegin(r, o) ==
  /\ Up
  /\ \/ Expire(r, o) /\ UNCHANGED exec
     \/ /\ proj[r].status = "approved"
        /\ Record(Event("execution_started", r, Daemon, 0), FALSE, o)
        /\ exec' = IF o = "nil" THEN [exec EXCEPT ![r] = "started"] ELSE exec

\* executor.Execute gets as far as starting the command; no lock is held.
Launch(r) ==
  /\ phase = "up"
  /\ exec[r] = "started"
  /\ exec' = [exec EXCEPT ![r] = "running"]
  /\ launches' = [launches EXCEPT ![r] = @ + 1]
  /\ UNCHANGED <<logVars, phase, proj, scratch, pos, chain, now, crashes>>

\* The executor returned: the mutex is taken again and the result recorded.  A
\* command that could not be started, or that failed, is execution_failed.  When
\* the append fails the handler ends and the request stays executing.
ExecuteEnd(r, result, big, o) ==
  /\ Up
  /\ exec[r] \in {"started", "running"}
  /\ exec[r] = "started" => result = "execution_failed"
  /\ Record(Event(result, r, Daemon, 0), big, o)
  /\ exec' = [exec EXCEPT ![r] = "idle"]

-----------------------------------------------------------------------------
(* Start-up: NewLog, NewService *)

\* Mutant of Start: the new Log keeps an empty lastHash.
StartUnchained ==
  /\ phase = "down"
  /\ phase' = "replaying"
  /\ lastHash' = 0
  /\ UNCHANGED <<canon, eol, synced, hashes, accepted, interrupted,
                 proj, scratch, pos, chain, exec, launches, now, crashes>>

\* NewLog replays the file to learn lastHash.  Lines it rejects stay as they are,
\* so it is left to the replay that follows to reject them.
Start ==
  /\ phase = "down"
  /\ phase' = "replaying"
  /\ lastHash' = IF canon = << >> THEN 0 ELSE canon[Len(canon)].id
  /\ UNCHANGED <<canon, eol, synced, hashes, accepted, interrupted,
                 proj, scratch, pos, chain, exec, launches, now, crashes>>

\* NewService replays it again: one iteration of replayUnlocked and of Rebuild.
ReplayLine ==
  /\ phase = "replaying"
  /\ pos < Len(canon)
  /\ LET line == canon[pos + 1]
     IN /\ Readable(line, chain)
        /\ CanApply(scratch, line)
        /\ scratch' = Apply(scratch, line)
        /\ chain' = line.id
  /\ pos' = pos + 1
  /\ UNCHANGED <<logVars, phase, proj, exec, launches, now, crashes>>

\* Replay's locals go out of scope.
EndOfReplay == scratch' = New /\ pos' = 0 /\ chain' = 0

\* The next line makes Replay or Rebuild return an error ...
Rejected ==
  /\ phase = "replaying"
  /\ pos < Len(canon)
  /\ ~(Readable(canon[pos + 1], chain) /\ CanApply(scratch, canon[pos + 1]))

\* ... and main exits.
Refuse ==
  /\ Rejected
  /\ phase' = "down"
  /\ EndOfReplay
  /\ UNCHANGED <<logVars, proj, exec, launches, now, crashes>>

\* The service gets its projection.
Adopt ==
  /\ phase = "replaying"
  /\ pos = Len(canon)
  /\ phase' = "recovering"
  /\ proj' = scratch
  /\ accepted' = {canon[i].id : i \in 1..Len(canon)}
  /\ EndOfReplay
  /\ UNCHANGED <<canon, eol, synced, lastHash, hashes, interrupted, exec, launches, now, crashes>>

\* One iteration of recoverExecutingLocked (in any order, where the code takes
\* the ids sorted).  An append error makes NewService, and main, fail.
Recover(r, o) ==
  /\ phase = "recovering"
  /\ proj[r].status = "executing"
  /\ Record(Event("recovery_marked_failed", r, Daemon, 0), FALSE, o)
  /\ phase' = IF o = "nil" THEN "recovering" ELSE "down"
  /\ UNCHANGED <<scratch, pos, chain, exec, launches, now, crashes>>

\* Mutant of Serve: recovery stops before every executing request is closed.
ServeEarly ==
  /\ phase = "recovering"
  /\ phase' = "up"
  /\ UNCHANGED <<logVars, proj, scratch, pos, chain, exec, launches, now, crashes>>

\* NewService returned: Server.Run opens the sockets.
Serve ==
  /\ phase = "recovering"
  /\ \A r \in Requests : proj[r].status # "executing"
  /\ phase' = "up"
  /\ UNCHANGED <<logVars, proj, scratch, pos, chain, exec, launches, now, crashes>>

-----------------------------------------------------------------------------
(* Environment *)

\* The process or the machine dies, or SIGTERM ends main, which does not wait
\* for the handlers.  A launched command may live on; nobody reads its result.
Crash ==
  /\ phase # "down"
  /\ crashes < MaxCrashes
  /\ crashes' = crashes + 1
  /\ phase' = "down"
  /\ exec' = [r \in Requests |-> "idle"]
  /\ LogCrash
  /\ EndOfReplay
  /\ UNCHANGED <<proj, launches, now>>

\* time.Now().UTC() has no monotonic reading: the clock can be set back.
Clock ==
  /\ now' \in {now + 1, now - 1} \cap 0..MaxNow
  /\ UNCHANGED <<logVars, memVars, launches, crashes>>

Handler(r, o) ==
  \/ \E user \in Users, big \in Sizes : Submit(r, user, big, o)
  \/ Status(r, o)
  \/ \E a \in Actors \cup {NoOne}, big \in Sizes :
        Approve(r, a, big, o) \/ Deny(r, a, big, o)
  \/ ExecuteBegin(r, o)
  \/ \E result \in {"execution_succeeded", "execution_failed"}, big \in Sizes :
        ExecuteEnd(r, result, big, o)

Next ==
  \/ \E r \in Requests, o \in Outcomes : Handler(r, o) \/ Recover(r, o)
  \/ \E r \in Requests : Launch(r)
  \/ Start \/ ReplayLine \/ Refuse \/ Adopt \/ Serve
  \/ Crash \/ Clock

Spec == Init /\ [][Next]_vars

\* The unit restarts a daemon that failed (Restart=on-failure); that one that was
\* told to stop is started again is up to an operator, and assumed.  Start-up is a
\* plain loop over a finite file, whose appends succeed in the end.  Nothing is
\* assumed of clients, of the clock or of the commands' running time.
StartUp ==
  \/ Start \/ ReplayLine \/ Adopt \/ Serve
  \/ \E r \in Requests : Recover(r, "nil")

FairSpec == Spec /\ WF_vars(StartUp)

-----------------------------------------------------------------------------
(* Properties *)

Lifecycle == INSTANCE RequestLifecycle
               WITH status <- [r \in Requests |-> proj[r].status],
                    launches <- launches,
                    serving <- phase = "up"

Identities == Users \cup Actors \cup {NoOne, Daemon}

Snapshots == [status: Statuses, owner: Identities, expires: Nat, approver: Identities]

Lines == [type: EventTypes, req: Requests, by: Identities, expires: Nat, checked: Nat,
          id: Nat, prev: Nat, ok: BOOLEAN, big: BOOLEAN]

\* The type invariant of the daemon's variables.
TypeOK ==
  /\ canon \in Seq(Lines)
  /\ eol \in BOOLEAN
  /\ synced \in 0..Len(canon)
  /\ lastHash \in Nat /\ hashes \in Nat
  /\ accepted \subseteq Nat
  /\ interrupted \in 0..MaxInterrupted
  /\ phase \in Phases
  /\ proj \in [Requests -> Snapshots]
  /\ scratch \in [Requests -> Snapshots]
  /\ pos \in Nat /\ chain \in Nat
  /\ exec \in [Requests -> ExecStates]
  /\ launches \in [Requests -> Nat]
  /\ now \in 0..MaxNow
  /\ crashes \in 0..MaxCrashes

\* No request's command is launched twice, whatever the interleaving of Execute
\* handlers, failed appends, crashes and restarts (Execute,
\* recoverExecutingLocked).
AtMostOnce == \A r \in Requests : launches[r] <= 1

\* Some line that an fsync covered does not decode: an append was glued to an
\* unterminated tail.  No start-up gets past it.
Garbled == \E i \in 1..synced : ~canon[i].ok

Is(i, t, r) == canon[i].type = t /\ canon[i].req = r

\* A launched command is backed by the durable log: its request was created, then
\* approved by someone validateApprover tells from the requester, in a handler
\* that had found the clock before the deadline (expireIfNeededLocked), then
\* consumed by execution_started, in this order.  The timestamp recorded with the
\* approval is a later reading and may be past the deadline.  (A log garbled
\* under an fsync vouches for nothing, and starts no daemon again.)
LaunchAuthorised ==
  \A r \in Requests : launches[r] > 0 =>
     \/ Garbled
     \/ \E i, j, k \in 1..synced :
          /\ i < j /\ j < k
          /\ Is(i, "request_created", r)
          /\ Is(j, "request_approved", r)
          /\ Is(k, "execution_started", r)
          /\ ValidApprover(canon[j].by, canon[i].by)
          /\ canon[j].checked < canon[i].expires

(***************************************************************************)
(* The inductive invariant behind AtMostOnce.  A launch leaves two traces: *)
(* a durable execution_started line (or a garbled line that keeps the      *)
(* daemon down for good) and a status past approved.  Replay cannot lose   *)
(* the second as long as it sees the first.                                *)
(***************************************************************************)
\* An unterminated tail is a line that no fsync has covered (LogAppend).
TailInv == ~eol => synced < Len(canon)

\* What ReplayLine has read so far decoded and shows in the projection it builds.
ReplayInv ==
  /\ pos <= Len(canon)
  /\ phase # "replaying" => pos = 0
  /\ \A i \in 1..pos :
       /\ canon[i].ok
       /\ scratch[canon[i].req].status \in Lifecycle!Reach(To(canon[i].type))

\* The first trace of a launch of r.
DurableStart(r) ==
  Garbled \/ \E i \in 1..synced : Is(i, "execution_started", r)

\* A launch, or an Execute about to launch, has left both traces.
LaunchInv ==
  \A r \in Requests : launches[r] > 0 \/ exec[r] # "idle" =>
     /\ proj[r].status \in {"executing", "executed", "failed"}
     /\ DurableStart(r)

\* An Execute between its unlock and its end is the first launch of its request.
ExecInv ==
  \A r \in Requests : exec[r] # "idle" =>
     /\ phase = "up"
     /\ proj[r].status = "executing"
     /\ exec[r] = "started" => launches[r] = 0

\* The inductive invariant (theorem LaunchedAtMostOnce of BrokerProofs).
IInv == TypeOK /\ TailInv /\ ReplayInv /\ LaunchInv /\ ExecInv /\ AtMostOnce

(***************************************************************************)
(* For ImplementsLifecycle: the file holds a line for every status, both   *)
(* the ones served and the ones replayed so far.  A crash that loses lines *)
(* can falsify this for a line that start-up adopted before any fsync.     *)
(***************************************************************************)
Evidence(p, n) ==
  \A r \in Requests :
     \/ p[r].status = "absent"
     \/ \E i \in 1..n : canon[i].req = r /\ To(canon[i].type) = p[r].status

\* Nothing is served that the file does not show (Record, Adopt).
EvidenceInv ==
  /\ Evidence(scratch, pos)
  /\ (\A i \in 1..Len(canon) : canon[i].ok) => Evidence(proj, Len(canon))

Accepted(line) == line.id \in accepted

\* The lines of c whose ids are in ids, in their order.
Vouched(c, ids) ==
  LET kept[i \in 0..Len(c)] ==
        IF i = 0 THEN << >>
        ELSE IF c[i].id \in ids THEN Append(kept[i-1], c[i]) ELSE kept[i-1]
  IN kept[Len(c)]

\* The projection in memory is what Rebuild makes of the lines the log has
\* accepted, although it is maintained one Apply at a time and failed appends
\* leave lines in the file that it does not know of.
MemoryIsCanon ==
  phase \in {"recovering", "up"} /\ (\A i \in 1..Len(canon) : canon[i].ok)
     => Rebuild(Vouched(canon, accepted)) = [ok |-> TRUE, proj |-> proj]

\* An operation that was answered with an error takes effect at a restart only
\* if it was the last thing written: every other line that start-up gets to
\* adopt was accepted before (the chain check of replayUnlocked).
NothingBuried ==
  phase = "replaying" /\ pos = Len(canon)
     => \A i \in 1..Len(canon) - 1 : Accepted(canon[i])

\* Start-up refuses the log only if an append was once interrupted or a line
\* outgrew the scanner: the daemon never writes itself a log that it rejects.
RefusesOnlyDamage ==
  Rejected => interrupted > 0 \/ \E i \in 1..Len(canon) : canon[i].big

\* While the daemon serves, an executing request has its Execute handler in
\* flight, except when the append of a result failed (Execute returns early).
ExecutingHasHandler ==
  phase = "up" /\ interrupted = 0
     => \A r \in Requests : proj[r].status = "executing" => exec[r] # "idle"

\* The daemon implements the abstract life cycle: what it serves moves only
\* forward, one event at a time, and nothing is executing when it is back.
ImplementsLifecycle == Lifecycle!Spec

\* STATE_MACHINE.md: a denied request stays denied, "If a new attempt is needed,
\* it should create a new request".
DeniedIsFinal ==
  [][\A r \in Requests : proj[r].status = "denied" => proj'[r].status = "denied"]_vars

\* An execution that was cut off ends once the daemon is started: the request
\* is failed, or has the result that was written before the crash, unless the log
\* is damaged (recoverExecutingLocked).  FairSpec assumes that start.
CutOffExecutionEnds ==
  \A r \in Requests :
     phase = "down" /\ proj[r].status = "executing"
       ~> Rejected \/ (phase = "up" /\ Terminal(proj[r].status))
=============================================================================
