------------------------------ MODULE EventLog ------------------------------
(***************************************************************************)
(* The canonical event log (src/internal/events/log.go): a file of JSON    *)
(* lines chained by hash, appended and fsynced under the log's mutex, and  *)
(* verified line by line when the daemon starts.                           *)
(*                                                                         *)
(* A line of the file is the event with                                    *)
(*   id, prev  its hash and the hash of its predecessor.  Event ids are    *)
(*             random, so hashes never collide: a hash is the number of    *)
(*             the write that first carried it, 0 the empty hash before    *)
(*             the first line                                              *)
(*   ok        whether json.Unmarshal decodes the line                     *)
(*   big       whether the line exceeds the 2 MiB buffer of replay's       *)
(*             scanner                                                     *)
(***************************************************************************)
EXTENDS Naturals, Sequences

CONSTANTS MaxInterrupted,  \* bound on appends that do not complete
          PowerLoss        \* may a crash lose lines that no fsync covered?

VARIABLES canon,        \* the lines of the file
          eol,          \* does the file end with a newline (or is it empty)?
          synced,       \* number of lines a completed fsync has covered
          lastHash,     \* Log.lastHash
          hashes,       \* number of hashes that went into the file so far
          accepted,     \* history: ids of the lines a Log vouched for, because
                        \* their Append returned nil or a start-up adopted them
          interrupted   \* number of appends that did not complete

logVars == <<canon, eol, synced, lastHash, hashes, accepted, interrupted>>

LogInit ==
  /\ canon = << >>
  /\ eol = TRUE
  /\ synced = 0
  /\ lastHash = 0
  /\ hashes = 0
  /\ accepted = {}
  /\ interrupted = 0

(***************************************************************************)
(* How an Append can end.  Besides returning nil, it returns an error, or  *)
(* the process is killed inside it, with                                   *)
(*   "unwritten"     nothing in the file (open or write failed),           *)
(*   "torn"          a proper prefix of the JSON in the file,              *)
(*   "unterminated"  all of the JSON in the file but not its newline,      *)
(*   "unsynced"      the whole line in the file, but no completed fsync.   *)
(***************************************************************************)
Interruptions == {"unwritten", "torn", "unterminated", "unsynced"}
Outcomes == {"nil"} \cup Interruptions

Possible(o) == o \in Interruptions => interrupted < MaxInterrupted

\* file.Write: a new line, or, after an unterminated tail, bytes glued to that
\* tail, which then no longer decodes.
Written(line) ==
  IF eol THEN Append(canon, line)
         ELSE [canon EXCEPT ![Len(canon)].ok = FALSE]

\* Log.Append of event e with outcome o.
LogAppend(e, big, o) ==
  LET line == [type |-> e.type, req |-> e.req, by |-> e.by,
               expires |-> e.expires, checked |-> e.checked,
               id |-> hashes + 1, prev |-> lastHash,
               ok |-> o # "torn", big |-> big]
  IN /\ Possible(o)
     /\ interrupted' = IF o = "nil" THEN interrupted ELSE interrupted + 1
     /\ IF o = "unwritten"
        THEN UNCHANGED <<canon, eol, hashes>>
        ELSE /\ canon' = Written(line)
             /\ hashes' = hashes + 1
             /\ eol' = (o \in {"nil", "unsynced"})
     /\ IF o = "nil"
        THEN /\ synced' = Len(Written(line))
             /\ lastHash' = hashes + 1
             /\ accepted' = accepted \cup {hashes + 1}
        ELSE UNCHANGED <<synced, lastHash, accepted>>

\* Mutant of Readable: the chain of hashes is not checked.
ReadableUnchained(line, prev) == line.ok /\ ~line.big

\* replayUnlocked accepts a line whose predecessor hashed to prev.
Readable(line, prev) == line.ok /\ ~line.big /\ line.prev = prev

(***************************************************************************)
(* A crash.  If only the process dies the file is intact; if the machine   *)
(* dies (PowerLoss), lines that no fsync covered may be gone.              *)
(***************************************************************************)
LogCrash ==
  \E n \in (IF PowerLoss THEN synced ELSE Len(canon))..Len(canon) :
     /\ canon' = SubSeq(canon, 1, n)
     /\ eol' = (eol \/ n < Len(canon))
     /\ UNCHANGED <<synced, lastHash, hashes, accepted, interrupted>>
=============================================================================
