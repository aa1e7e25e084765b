------------------------------ MODULE Daemons -------------------------------
(***************************************************************************)
(* Two daemons over one event log, behind one pair of socket paths, and    *)
(* the clients that call them (src/internal/socket, the daemon's main and  *)
(* the command line clients).                                              *)
(*                                                                         *)
(* Nothing keeps a second request-sudod from starting: listenSocket        *)
(* removes the socket path and binds it anew, and the log is not locked.   *)
(* Each daemon is a copy of module Broker with a memory of its own; the    *)
(* file, its faults, the clock and the launched commands are shared.       *)
(***************************************************************************)
EXTENDS Naturals, Sequences, FiniteSets

CONSTANTS Requests, NoOne, Users, Actors, Names, TTL, MaxNow, MaxCrashes,
          MaxInterrupted, PowerLoss, Sizes,     \* as in Broker; Users call
          MayOpen,                              \* lane -> users its socket's mode lets in
          Reviewers,                            \* users reviewAllowed lets through
          NoConn,                               \* "not connected"
          Results,                              \* the result events of commands
          MaxConns                              \* bound on open connections

ASSUME DaemonsAssumption ==
  /\ TTL \in Nat /\ MaxNow \in Nat
  /\ Sizes \subseteq BOOLEAN
  /\ Results \subseteq {"execution_succeeded", "execution_failed"}

VARIABLES canon, eol, synced, hashes, interrupted, launches, now, crashes,
          \* memory of the first daemon
          lastHash1, accepted1, phase1, proj1, scratch1, pos1, chain1, exec1,
          \* and of the second
          lastHash2, accepted2, phase2, proj2, scratch2, pos2, chain2, exec2,
          path,      \* lane -> the daemon whose listener the path names, or 0
          reviews,   \* the daemons whose Run has opened both sockets
          conn       \* user -> [to, lane] of the connection, or NoConn

mem1 == <<lastHash1, accepted1, phase1, proj1, scratch1, pos1, chain1, exec1>>
mem2 == <<lastHash2, accepted2, phase2, proj2, scratch2, pos2, chain2, exec2>>
vars == <<canon, eol, synced, hashes, interrupted, launches, now, crashes,
          mem1, mem2, path, reviews, conn>>

D1 == INSTANCE Broker
        WITH lastHash <- lastHash1, accepted <- accepted1, phase <- phase1,
             proj <- proj1, scratch <- scratch1, pos <- pos1, chain <- chain1, exec <- exec1
D2 == INSTANCE Broker
        WITH lastHash <- lastHash2, accepted <- accepted2, phase <- phase2,
             proj <- proj2, scratch <- scratch2, pos <- pos2, chain <- chain2, exec <- exec2

Lanes == {"request", "review"}

Up(d) == IF d = 1 THEN phase1 = "up" ELSE phase2 = "up"

Init ==
  /\ D1!Init /\ D2!Init
  /\ path = [lane \in Lanes |-> 0]
  /\ reviews = {}
  /\ conn = [c \in Users |-> NoConn]

\* Daemon d takes its step; the other one's memory stays.
By(d, step1, step2) ==
  \/ d = 1 /\ step1 /\ UNCHANGED mem2
  \/ d = 2 /\ step2 /\ UNCHANGED mem1

-----------------------------------------------------------------------------
(* Server.Run *)

\* main gets as far as the first listenSocket ...
OpenRequests(d) ==
  /\ By(d, D1!Serve, D2!Serve)
  /\ path' = [path EXCEPT !["request"] = d]
  /\ UNCHANGED <<reviews, conn>>

\* ... and the second.
OpenReviews(d) ==
  /\ Up(d)
  /\ d \notin reviews
  /\ reviews' = reviews \cup {d}
  /\ path' = [path EXCEPT !["review"] = d]
  /\ UNCHANGED <<canon, eol, synced, hashes, interrupted, launches, now, crashes,
                 mem1, mem2, conn>>

\* The process is gone and so are its connections.
Gone(d) ==
  /\ By(d, D1!Crash, D2!Crash)
  /\ reviews' = reviews \ {d}
  /\ conn' = [c \in Users |-> IF conn[c] # NoConn /\ conn[c].to = d THEN NoConn ELSE conn[c]]

\* Killed: the socket files stay.
Kill(d) ==
  /\ Gone(d)
  /\ UNCHANGED path

\* SIGTERM: closing a listener unlinks its path, by name, whoever listens there now.
Stop(d) ==
  /\ Up(d)
  /\ Gone(d)
  /\ path' = [lane \in Lanes |-> IF lane = "review" /\ d \notin reviews THEN path[lane] ELSE 0]

-----------------------------------------------------------------------------
(* Clients: socket.Call and handleConn *)

\* Connected to a listener; it stays connected to it when the path is rebound.
Dial(c, lane) ==
  /\ conn[c] = NoConn
  /\ c \in MayOpen[lane]
  /\ Cardinality({x \in Users : conn[x] # NoConn}) < MaxConns
  /\ path[lane] # 0 /\ Up(path[lane])
  /\ conn' = [conn EXCEPT ![c] = [to |-> path[lane], lane |-> lane]]
  /\ UNCHANGED <<canon, eol, synced, hashes, interrupted, launches, now, crashes,
                 mem1, mem2, path, reviews>>

\* The calls of request-sudo ...
Ask(d, c, r, o) ==
  By(d, \/ \E big \in Sizes : D1!Submit(r, c, big, o)
        \/ D1!Status(r, o) \/ D1!ExecuteBegin(r, o),
        \/ \E big \in Sizes : D2!Submit(r, c, big, o)
        \/ D2!Status(r, o) \/ D2!ExecuteBegin(r, o))

\* ... and of request-sudoctl, which names any approver it likes.
Decide(d, r, o) ==
  \E a \in Actors, big \in Sizes :
     By(d, D1!Approve(r, a, big, o) \/ D1!Deny(r, a, big, o),
           D2!Approve(r, a, big, o) \/ D2!Deny(r, a, big, o))

\* handleConn, dispatch: one request per connection, on the lane it came in.
Dispatch(c, r, o) ==
  /\ conn[c] # NoConn
  /\ \/ conn[c].lane = "request" /\ Ask(conn[c].to, c, r, o)
     \/ conn[c].lane = "review" /\ c \in Reviewers /\ Decide(conn[c].to, r, o)
  /\ conn' = [conn EXCEPT ![c] = NoConn]
  /\ UNCHANGED <<path, reviews>>

\* The client gave up, or was answered with nothing done: an unknown or decided
\* request, the wrong lane, a peer that reviewAllowed turns away.
Hangup(c) ==
  /\ conn[c] # NoConn
  /\ conn' = [conn EXCEPT ![c] = NoConn]
  /\ UNCHANGED <<canon, eol, synced, hashes, interrupted, launches, now, crashes,
                 mem1, mem2, path, reviews>>

-----------------------------------------------------------------------------

\* Start-up and the rest of Execute need no client.
Inside(d) ==
  /\ \/ By(d, D1!Start, D2!Start)
     \/ By(d, D1!ReplayLine, D2!ReplayLine)
     \/ By(d, D1!Refuse, D2!Refuse)
     \/ By(d, D1!Adopt, D2!Adopt)
     \/ \E r \in Requests :
          \/ By(d, D1!Launch(r), D2!Launch(r))
          \/ \E o \in D1!Outcomes :
               \/ By(d, D1!Recover(r, o), D2!Recover(r, o))
               \/ \E result \in Results, big \in Sizes :
                    By(d, D1!ExecuteEnd(r, result, big, o), D2!ExecuteEnd(r, result, big, o))
  /\ UNCHANGED <<path, reviews, conn>>

Clock == D1!Clock /\ UNCHANGED <<mem2, path, reviews, conn>>

Next ==
  \/ \E d \in 1..2 : Inside(d) \/ OpenRequests(d) \/ OpenReviews(d) \/ Kill(d) \/ Stop(d)
  \/ \E c \in Users : Hangup(c) \/ \E lane \in Lanes : Dial(c, lane)
  \/ \E c \in Users, r \in Requests, o \in D1!Outcomes : Dispatch(c, r, o)
  \/ Clock

Spec == Init /\ [][Next]_vars

-----------------------------------------------------------------------------
(* Properties *)

\* Every line decodes and carries the hash of the line before.
Intact ==
  \A i \in DOMAIN canon :
     D1!Readable(canon[i], IF i = 1 THEN 0 ELSE canon[i-1].id)

\* Two daemons can launch a command twice, each from its own memory.  It does
\* not go unnoticed: the file is then one that no start accepts (Append chains to
\* the daemon's own lastHash, replayUnlocked checks the chain).
SecondLaunchShows ==
  (\E r \in Requests : launches[r] > 1) => ~Intact

\* As long as the file is intact the two daemons may lag behind one another but
\* do not contradict each other: no request has been approved by the one and
\* denied by the other, say (Record, lastHash).
ViewsAgree ==
  Intact /\ Up(1) /\ Up(2) => \A r \in Requests :
     LET s == proj1[r].status
         t == proj2[r].status
     IN s \in D1!Lifecycle!Reach(t) \/ t \in D1!Lifecycle!Reach(s)
=============================================================================
