----------------------------- MODULE MCDaemons ------------------------------
(***************************************************************************)
(* A small instance of Daemons: alice asks and ops decides.                *)
(***************************************************************************)
EXTENDS Daemons

MCUsers == {"alice", "ops"}
MCActors == {"ops"}
MCNames == [u \in MCUsers |-> {u} \cap MCActors]
MCMayOpen == [request |-> {"alice"}, review |-> {"ops"}]
MCReviewers == {"ops"}
MCResults == {"execution_succeeded"}
Small == {FALSE}

\* What the future and the properties depend on: not the histories synced and
\* accepted, not what a deadline check read, and not what a dead or starting
\* process last served.
Memory(phase, lastHash, proj, pos, scratch, exec) ==
  <<phase, pos, scratch, exec,
    IF phase = "down" THEN 0 ELSE lastHash,
    IF phase \in {"down", "replaying"} THEN 0 ELSE proj>>

Unchecked == [i \in DOMAIN canon |-> [canon[i] EXCEPT !.checked = 0]]

\* What the socket paths and the connections have to do with daemon d.
Sockets(d) ==
  <<{lane \in Lanes : path[lane] = d}, d \in reviews,
    {<<c, lane>> \in MCUsers \X Lanes : conn[c] = [to |-> d, lane |-> lane]}>>

\* The daemons are alike: it does not matter which of them is the first.  A file
\* that is not intact never becomes so again, and both properties are then true
\* for good: such states are told apart only by where the daemons and commands are.
View ==
  IF Intact
  THEN <<Unchecked, eol, hashes, interrupted, launches, now, crashes,
         {<<Memory(phase1, lastHash1, proj1, pos1, scratch1, exec1), Sockets(1)>>,
          <<Memory(phase2, lastHash2, proj2, pos2, scratch2, exec2), Sockets(2)>>}>>
  ELSE <<phase1, pos1, exec1, phase2, pos2, exec2, launches, crashes>>
=============================================================================
