----------------------------- MODULE CanonTail ------------------------------
(***************************************************************************)
(* The adapter's tailer (src/internal/twilioadapter/canon_tail.go) against *)
(* an event log that the daemon is writing, at the grain of bytes.  A scan *)
(* can meet a line that is only half there: a write in progress, or what a *)
(* failed write or a killed daemon left behind.  (What happens to a        *)
(* request once it is handed over is module Adapter.)                      *)
(***************************************************************************)
EXTENDS Naturals, Sequences, FiniteSets

CONSTANTS Requests,     \* request ids; each has at most one request_created line
          NoRequest,    \* "a line of any other type"
          Width,        \* bytes of a line before its newline
          MaxLines,     \* bound on the lines the daemon begins
          MaxTorn,      \* bound on writes that stop short
          MaxRestarts   \* bound on restarts of the adapter

ASSUME TailAssumption ==
  /\ Width \in Nat \ {0}
  /\ {MaxLines, MaxTorn, MaxRestarts} \subseteq Nat
  /\ NoRequest \notin Requests

VARIABLES file,      \* the bytes of the log: <<line number, position in the line>>
          lines,     \* line number -> the request it creates, or NoRequest
          rest,      \* position of the next byte the daemon writes, or 0
          torn,      \* number of writes that stopped short
          offset,    \* CanonTailer.offset
          seen,      \* CanonTailer.seen
          handed,    \* history: the requests this process handed to handlePending
          cut,       \* history: the lines this process met before they were whole
          restarts   \* number of restarts so far

daemonVars == <<file, lines, rest, torn>>
tailerVars == <<offset, seen, handed, cut>>
vars == <<file, lines, rest, torn, offset, seen, handed, cut, restarts>>

Init ==
  /\ file = << >>
  /\ lines = << >>
  /\ rest = 0
  /\ torn = 0
  /\ offset = 0
  /\ seen = {}
  /\ handed = << >>
  /\ cut = {}
  /\ restarts = 0

-----------------------------------------------------------------------------
(* The daemon *)

\* Log.Append reaches file.Write.  Request ids are not reused.
BeginLine(r) ==
  /\ rest = 0
  /\ Len(lines) < MaxLines
  /\ r # NoRequest => \A n \in DOMAIN lines : lines[n] # r
  /\ lines' = Append(lines, r)
  /\ rest' = 1
  /\ UNCHANGED <<file, torn, tailerVars, restarts>>

\* Readers see the bytes of a write in order, not all at once.
WriteByte ==
  /\ rest > 0
  /\ file' = Append(file, <<Len(lines), rest>>)
  /\ rest' = IF rest > Width THEN 0 ELSE rest + 1
  /\ UNCHANGED <<lines, torn, tailerVars, restarts>>

\* The write returns an error or the daemon is killed in it.
StopShort ==
  /\ rest > 0
  /\ torn < MaxTorn
  /\ torn' = torn + 1
  /\ rest' = 0
  /\ UNCHANGED <<file, lines, tailerVars, restarts>>

-----------------------------------------------------------------------------
(* The tailer *)

IsNewline(byte) == byte[2] = Width + 1

\* json.Unmarshal: exactly the bytes of one line.
Decodes(text) ==
  /\ Len(text) = Width
  /\ \A k \in 1..Width : text[k] = <<text[1][1], k>>

\* Where the line at offset ends: at its newline, or one past the end of the
\* file if ReadBytes came to io.EOF first.
LineEnd ==
  LET newlines == {j \in offset+1..Len(file) : IsNewline(file[j])}
  IN IF newlines = {} THEN Len(file) + 1
     ELSE CHOOSE j \in newlines : \A i \in newlines : j <= i

Text == SubSeq(file, offset + 1, LineEnd - 1)

\* handleLine, which calls handler for a request_created line with a new id.
HandleLine ==
  LET r == lines[Text[1][1]]
  IN IF Text # << >> /\ Decodes(Text) /\ r \notin seen \cup {NoRequest}
     THEN seen' = seen \cup {r} /\ handed' = Append(handed, r)
     ELSE UNCHANGED <<seen, handed>>

\* Mutant of NextOffset: the tailer goes on from the end of the file.
NextOffsetAtEnd == Len(file)

\* t.offset += int64(len(line)) + 1, with or without a newline.
NextOffset == offset + Len(Text) + 1

\* Mutant of ScanLine: a line that does not decode ends the scan before the
\* offset is moved.
ScanLineStrict ==
  /\ offset < Len(file)
  /\ Text # << >> => Decodes(Text)
  /\ HandleLine
  /\ offset' = NextOffset
  /\ UNCHANGED <<daemonVars, cut, restarts>>

\* One iteration of scanOnce's loop that reads something.  Where one scan ends
\* and the next begins makes no difference: both go on from offset.
ScanLine ==
  /\ offset < Len(file)
  /\ HandleLine
  /\ offset' = NextOffset
  /\ cut' = IF LineEnd > Len(file) /\ ~Decodes(Text)
            THEN cut \cup {file[Len(file)][1]} ELSE cut
  /\ UNCHANGED <<daemonVars, restarts>>

\* NewCanonTailer: offset and seen are in memory only.
Restart ==
  /\ restarts < MaxRestarts
  /\ restarts' = restarts + 1
  /\ offset' = 0
  /\ seen' = {}
  /\ handed' = << >>
  /\ cut' = {}
  /\ UNCHANGED daemonVars

Next ==
  \/ \E r \in Requests \cup {NoRequest} : BeginLine(r)
  \/ WriteByte \/ StopShort
  \/ ScanLine \/ Restart

Spec == Init /\ [][Next]_vars

\* Run polls every 200 ms.  Nothing is assumed of the daemon.
FairSpec == Spec /\ WF_vars(ScanLine)

-----------------------------------------------------------------------------
(* Properties *)

\* Line n is whole and not glued to a torn one; its newline is byte j.
WholeAt(n, j) ==
  /\ j \in DOMAIN file /\ file[j] = <<n, Width + 1>>
  /\ j > Width + 1 => IsNewline(file[j - Width - 1])

Whole(n) == \E j \in DOMAIN file : WholeAt(n, j)

Reached(n) ==
  /\ n \in DOMAIN lines
  /\ lines[n] = NoRequest \/ \E i \in DOMAIN handed : handed[i] = lines[n]

\* What the tailer has passed it has handed over, once: of the whole
\* request_created lines before the offset only those are missing that a scan
\* met half written, and such a meeting costs no other line (scanOnce moves the
\* offset by the text and a newline that may not be there yet).
PassedMeansHanded ==
  \A n \in DOMAIN lines \ cut : \A j \in 1..offset :
     lines[n] # NoRequest /\ WholeAt(n, j)
       => Cardinality({i \in DOMAIN handed : handed[i] = lines[n]}) = 1

\* Every whole request_created line is handed over in the end, or was met half
\* written: lines that do not decode do not stop the tailer (scanOnce logs the
\* error and goes on).
EveryLineReached ==
  \A n \in 1..MaxLines : Whole(n) ~> n \in cut \/ Reached(n)
=============================================================================
