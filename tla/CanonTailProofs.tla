-------------------------- MODULE CanonTailProofs ---------------------------
(***************************************************************************)
(* Proofs about CanonTail, for lines of any width and every value of the   *)
(* bounds.                                                                 *)
(***************************************************************************)
EXTENDS CanonTail, SequenceTheorems, FiniteSetTheorems, TLAPS

USE TailAssumption

-----------------------------------------------------------------------------
(***************************************************************************)
(* The file.  The bytes of a line lie next to each other, from its first   *)
(* byte on, and the line being written is the last one.                    *)
(***************************************************************************)
\* Byte j of the file is byte file[j][2] of line file[j][1] ...
FileTypes ==
  /\ lines \in Seq(Requests \cup {NoRequest})
  /\ file \in Seq(Nat \X Nat)
  /\ \A j \in 1..Len(file) : file[j][1] \in 1..Len(lines) /\ file[j][2] \in 1..(Width + 1)
  /\ rest \in 0..(Width + 1)

\* ... the bytes before it in the line are right before it in the file ...
Runs ==
  \A j \in 1..Len(file) : \A m \in 0..(file[j][2] - 1) :
     m < j /\ file[j - m] = <<file[j][1], file[j][2] - m>>

\* ... and a line has no byte twice.
Once ==
  \A i, j \in 1..Len(file) :
     file[i][1] = file[j][1] => file[j][2] - file[i][2] = j - i

\* Where the daemon's write is.
AtEnd ==
  /\ rest > 0 => Len(lines) > 0
  /\ rest = 1 => \A i \in 1..Len(file) : file[i][1] # Len(lines)
  /\ rest > 1 => Len(file) > 0 /\ file[Len(file)] = <<Len(lines), rest - 1>>

FileInv == FileTypes /\ Runs /\ Once /\ AtEnd

-----------------------------------------------------------------------------
(***************************************************************************)
(* The tailer.  Its offset is never inside a line that begins after a      *)
(* newline and is, or can still become, whole, unless it met the line half *)
(* written.                                                                *)
(***************************************************************************)
\* Line n begins at byte s, at the beginning of the file or after a newline ...
Begins(n, s) ==
  /\ file[s] = <<n, 1>>
  /\ s = 1 \/ IsNewline(file[s - 1])

\* ... and is whole, or being written.
Alive(n, s) ==
  \/ s + Width <= Len(file) /\ file[s + Width] = <<n, Width + 1>>
  \/ rest > 1 /\ n = Len(lines)

\* One byte past the end is where a scan leaves the offset that met no newline.
OffsetInv ==
  /\ offset \in 0..(Len(file) + 1)
  /\ offset = Len(file) + 1 => Len(file) > 0 /\ ~IsNewline(file[Len(file)])

SeenInv ==
  /\ handed \in Seq(Requests)
  /\ seen = {handed[i] : i \in 1..Len(handed)}
  /\ \A i, k \in 1..Len(handed) : handed[i] = handed[k] => i = k

PassedInv ==
  \A s \in 1..Len(file) : \A n \in (1..Len(lines)) \ cut :
     Begins(n, s) /\ Alive(n, s) /\ s <= offset
       => s + Width <= offset /\ lines[n] \in seen \cup {NoRequest}

TailerInv == OffsetInv /\ SeenInv /\ PassedInv

-----------------------------------------------------------------------------
(* The daemon's steps *)

\* Every nonempty set of numbers has a least element.
LEMMA LeastNat ==
  ASSUME NEW S, S \subseteq Nat, S # {}
  PROVE  \E x \in S : \A y \in S : x <= y
<1>1. \E x \in S : \A y \in S : ~(<<y, x>> \in OpToRel(<, Nat))
  BY NatLessThanWellFounded, WFMin, Zenon
<1>2. PICK x \in S : \A y \in S : ~(<<y, x>> \in OpToRel(<, Nat))
  BY <1>1, Zenon
<1>3. ASSUME NEW y \in S PROVE x <= y
  <2>1. ~(y < x)
    BY <1>2 DEF OpToRel
  <2> QED BY <2>1
<1> QED BY <1>3

\* The types, spelled out.
LEMMA FileFacts ==
  ASSUME FileTypes
  PROVE  /\ Len(file) \in Nat /\ Len(lines) \in Nat /\ rest \in Nat /\ rest <= Width + 1
         /\ \A j \in 1..Len(file) :
              /\ file[j] \in Nat \X Nat /\ file[j] = <<file[j][1], file[j][2]>>
              /\ file[j][1] \in 1..Len(lines) /\ file[j][2] \in 1..(Width + 1)
<1>1. Len(file) \in Nat /\ Len(lines) \in Nat
  BY LenProperties DEF FileTypes
<1>2. \A j \in 1..Len(file) : file[j] \in Nat \X Nat
  BY ElementOfSeq DEF FileTypes
<1>3. rest \in Nat /\ rest <= Width + 1
  BY DEF FileTypes
<1>4. \A j \in 1..Len(file) :
         file[j][1] \in 1..Len(lines) /\ file[j][2] \in 1..(Width + 1)
  BY DEF FileTypes
<1>5. \A j \in 1..Len(file) : file[j] = <<file[j][1], file[j][2]>>
  BY <1>2
<1> QED BY <1>1, <1>2, <1>3, <1>4, <1>5

\* file.Write puts the bytes of a line next to each other.
LEMMA WriteByteFile ==
  ASSUME FileInv, WriteByte
  PROVE  /\ FileInv'
         /\ Len(file') = Len(file) + 1 /\ file'[Len(file) + 1] = <<Len(lines), rest>>
         /\ \A i \in 1..Len(file) : file'[i] = file[i]
<1> DEFINE N == Len(file)
           b == <<Len(lines), rest>>
<1>1. /\ N \in Nat /\ Len(lines) \in Nat /\ rest \in Nat /\ rest <= Width + 1
      /\ \A j \in 1..N :
           /\ file[j] \in Nat \X Nat /\ file[j] = <<file[j][1], file[j][2]>>
           /\ file[j][1] \in 1..Len(lines) /\ file[j][2] \in 1..(Width + 1)
  BY FileFacts DEF FileInv
<1>num. N \in Nat /\ Len(lines) \in Nat /\ rest \in Nat /\ rest <= Width + 1 /\ Width \in Nat
  BY <1>1
<1>2. /\ rest > 0 /\ lines' = lines /\ file' = Append(file, b)
      /\ rest' = IF rest > Width THEN 0 ELSE rest + 1
  BY DEF WriteByte
<1>3. /\ Len(file') = N + 1 /\ file'[N + 1] = b /\ \A i \in 1..N : file'[i] = file[i]
      /\ file' \in Seq(Nat \X Nat)
  BY <1>1, <1>2, AppendProperties DEF FileInv, FileTypes
<1>4. \A j \in 1..(N + 1) : j \in 1..N \/ j = N + 1
  BY <1>1
<1>5. b[1] = Len(lines) /\ b[2] = rest /\ Len(lines) > 0
  BY <1>1, <1>2 DEF FileInv, AtEnd
<1> HIDE DEF b
<1>6. FileTypes'
  <2>1. \A j \in 1..(N + 1) : file'[j][1] \in 1..Len(lines) /\ file'[j][2] \in 1..(Width + 1)
    <3>1. Len(lines) \in 1..Len(lines) /\ rest \in 1..(Width + 1)
      BY <1>num, <1>2, <1>5
    <3> QED BY <1>1, <1>3, <1>4, <1>5, <3>1
  <2>2. rest' \in 0..(Width + 1)
    BY <1>num, <1>2
  <2>3. lines \in Seq(Requests \cup {NoRequest})
    BY DEF FileInv, FileTypes
  <2> QED BY <1>2, <1>3, <2>1, <2>2, <2>3 DEF FileTypes
<1>7. Runs'
  <2> SUFFICES ASSUME NEW j \in 1..(N + 1), NEW m \in 0..(file'[j][2] - 1)
               PROVE  m < j /\ file'[j - m] = <<file'[j][1], file'[j][2] - m>>
    BY <1>3 DEF Runs
  <2>1. CASE j \in 1..N
    <3>1. file'[j] = file[j] /\ m \in 0..(file[j][2] - 1)
      BY <1>3, <2>1
    <3>2. m < j /\ file[j - m] = <<file[j][1], file[j][2] - m>>
      BY <2>1, <3>1 DEF FileInv, Runs
    <3>3. j - m \in 1..N
      BY <1>1, <2>1, <3>1, <3>2
    <3> QED BY <1>3, <3>1, <3>2, <3>3
  <2>2. CASE j = N + 1 /\ m = 0
    BY <1>1, <1>3, <1>5, <2>2 DEF b
  <2>3. CASE j = N + 1 /\ m # 0
    <3>1. m \in 1..(rest - 1) /\ rest > 1
      BY <1>1, <1>3, <1>5, <2>3
    <3>2. N > 0 /\ file[N] = <<Len(lines), rest - 1>>
      BY <3>1 DEF FileInv, AtEnd
    <3>3. N \in 1..N /\ m - 1 \in 0..(file[N][2] - 1) /\ file[N][1] = Len(lines)
          /\ file[N][2] = rest - 1
      BY <1>1, <3>1, <3>2
    <3>4. m - 1 < N /\ file[N - (m - 1)] = <<file[N][1], file[N][2] - (m - 1)>>
      BY <3>3 DEF FileInv, Runs
    <3>5. /\ j - m = N - (m - 1) /\ j - m \in 1..N
          /\ (rest - 1) - (m - 1) = rest - m /\ m < j
      BY <1>num, <2>3, <3>1, <3>4
    <3> QED BY <1>3, <1>5, <2>3, <3>3, <3>4, <3>5
  <2> QED BY <1>4, <2>1, <2>2, <2>3
<1>8. ASSUME NEW i \in 1..N, file[i][1] = Len(lines)
      PROVE  rest - file[i][2] = (N + 1) - i
  <2>1. rest # 1
    BY <1>8 DEF FileInv, AtEnd
  <2>2. N > 0 /\ file[N] = <<Len(lines), rest - 1>>
    BY <1>1, <1>2, <2>1 DEF FileInv, AtEnd
  <2>3. N \in 1..N /\ file[N][1] = Len(lines) /\ file[N][2] = rest - 1
    BY <1>1, <2>2
  <2>4. file[N][2] - file[i][2] = N - i
    BY <1>8, <2>3 DEF FileInv, Once
  <2>5. file[i][2] \in Nat /\ (rest - 1) - file[i][2] = N - i
    BY <1>1, <2>3, <2>4
  <2> QED BY <1>num, <2>5
<1>9. Once'
  <2> SUFFICES ASSUME NEW i \in 1..(N + 1), NEW j \in 1..(N + 1), file'[i][1] = file'[j][1]
               PROVE  file'[j][2] - file'[i][2] = j - i
    BY <1>3 DEF Once
  <2>1. CASE i \in 1..N /\ j \in 1..N
    BY <1>3, <2>1 DEF FileInv, Once
  <2>2. CASE i \in 1..N /\ j = N + 1
    BY <1>3, <1>5, <1>8, <2>2
  <2>3. CASE i = N + 1 /\ j \in 1..N
    <3>1. rest - file[j][2] = (N + 1) - j
      BY <1>3, <1>5, <1>8, <2>3
    <3>2. file'[i][2] = rest /\ file'[j][2] = file[j][2] /\ file[j][2] \in Nat
      BY <1>1, <1>3, <1>5, <2>3
    <3> QED BY <1>num, <2>3, <3>1, <3>2
  <2>4. CASE i = N + 1 /\ j = N + 1
    BY <1>1, <1>3, <1>5, <2>4
  <2> QED BY <1>4, <2>1, <2>2, <2>3, <2>4
<1>10. AtEnd'
  BY <1>1, <1>2, <1>3, <1>5 DEF AtEnd, b
<1> QED BY <1>3, <1>6, <1>7, <1>9, <1>10 DEF FileInv, b

\* Every step of the daemon and of the tailer keeps the file in order.
LEMMA StepFile ==
  ASSUME FileInv, [Next]_vars
  PROVE  FileInv'
<1>1. /\ Len(file) \in Nat /\ Len(lines) \in Nat
      /\ \A j \in 1..Len(file) : file[j][1] \in 1..Len(lines)
  BY FileFacts DEF FileInv
<1>2. ASSUME NEW r \in Requests \cup {NoRequest}, BeginLine(r) PROVE FileInv'
  <2>1. /\ lines \in Seq(Requests \cup {NoRequest}) /\ rest = 0 /\ rest' = 1
        /\ lines' = Append(lines, r) /\ file' = file
    BY <1>2 DEF BeginLine, FileInv, FileTypes
  <2>2. lines' \in Seq(Requests \cup {NoRequest}) /\ Len(lines') = Len(lines) + 1
    BY <2>1, AppendProperties
  <2>3. \A j \in 1..Len(file) : file[j][1] \in 1..Len(lines') /\ file[j][1] # Len(lines')
    BY <1>1, <2>2
  <2>4. FileTypes' /\ AtEnd'
    BY <1>1, <2>1, <2>2, <2>3 DEF FileInv, FileTypes, AtEnd
  <2> QED BY <2>1, <2>4 DEF FileInv, Runs, Once
<1>3. CASE StopShort
  <2>1. UNCHANGED <<file, lines>> /\ rest' = 0
    BY <1>3 DEF StopShort
  <2>2. FileTypes' /\ AtEnd'
    BY <2>1 DEF FileInv, FileTypes, AtEnd
  <2>3. Runs' /\ Once'
    BY <2>1 DEF FileInv, Runs, Once
  <2> QED BY <2>2, <2>3 DEF FileInv
<1>4. CASE UNCHANGED <<file, lines, rest>>
  BY <1>4 DEF FileInv, FileTypes, Runs, Once, AtEnd
<1> QED BY <1>2, <1>3, <1>4, WriteByteFile DEF Next, vars, daemonVars, ScanLine, Restart

-----------------------------------------------------------------------------
(* The tailer's steps *)

\* ReadBytes: up to the first newline, or to the end of the file.
LEMMA LineEndFacts ==
  ASSUME FileTypes, OffsetInv, offset < Len(file)
  PROVE  /\ LineEnd \in (offset + 1)..(Len(file) + 1)
         /\ LineEnd <= Len(file) => IsNewline(file[LineEnd])
         /\ \A i \in (offset + 1)..(LineEnd - 1) : ~IsNewline(file[i])
         /\ Len(Text) = LineEnd - (offset + 1)
         /\ \A k \in 1..Len(Text) : Text[k] = file[offset + k]
         /\ NextOffset = LineEnd
<1> DEFINE newlines == {j \in (offset + 1)..Len(file) : IsNewline(file[j])}
<1>1. /\ Len(file) \in Nat /\ offset \in Nat
      /\ \A j \in 1..Len(file) : file[j] \in Nat \X Nat
  BY FileFacts DEF OffsetInv
<1>2. LineEnd = IF newlines = {} THEN Len(file) + 1
                ELSE CHOOSE j \in newlines : \A i \in newlines : j <= i
  BY DEF LineEnd
<1>3. /\ LineEnd \in (offset + 1)..(Len(file) + 1)
      /\ LineEnd <= Len(file) => IsNewline(file[LineEnd])
      /\ \A i \in (offset + 1)..(LineEnd - 1) : ~IsNewline(file[i])
  <2>1. CASE newlines = {}
    BY <1>1, <1>2, <2>1
  <2>2. CASE newlines # {}
    <3>1. \E j \in newlines : \A i \in newlines : j <= i
      <4>1. newlines \subseteq Nat
        BY <1>1
      <4> HIDE DEF newlines
      <4> QED BY <2>2, <4>1, LeastNat
    <3>2. LineEnd \in newlines /\ \A i \in newlines : LineEnd <= i
      <4> HIDE DEF newlines
      <4>1. LineEnd = CHOOSE j \in newlines : \A i \in newlines : j <= i
        BY <1>2, <2>2
      <4> QED BY <3>1, <4>1, Zenon
    <3>3. LineEnd \in (offset + 1)..Len(file) /\ IsNewline(file[LineEnd])
      BY <3>2
    <3>4. ASSUME NEW i \in (offset + 1)..(LineEnd - 1) PROVE ~IsNewline(file[i])
      <4>1. i \in (offset + 1)..Len(file) /\ ~(LineEnd <= i)
        BY <1>1, <3>3
      <4> QED BY <3>2, <4>1
    <3> QED BY <1>1, <3>3, <3>4
  <2> QED BY <2>1, <2>2
<1> DEFINE e == LineEnd - 1
           t == SubSeq(file, offset + 1, e)
<1>4. /\ e \in Int /\ offset + 1 \in Int /\ e - (offset + 1) + 1 = LineEnd - (offset + 1)
      /\ e >= offset
      /\ \A i \in (offset + 1)..e : file[i] \in Nat \X Nat
  <2>1. LineEnd \in Int
    BY <1>1, <1>3
  <2>2. \A i \in (offset + 1)..e : i \in 1..Len(file)
    BY <1>1, <1>3, <2>1
  <2> QED BY <1>1, <1>3, <2>1, <2>2
<1>5. Text = t
  BY DEF Text
<1>6. /\ Len(Text) = IF offset + 1 <= e THEN e - (offset + 1) + 1 ELSE 0
      /\ \A i \in 1..(e - (offset + 1) + 1) : Text[i] = file[(offset + 1) + i - 1]
  <2> HIDE DEF e
  <2> QED BY <1>4, <1>5, SubSeqProperties
<1>7. Len(Text) = LineEnd - (offset + 1)
  BY <1>1, <1>3, <1>4, <1>6
<1>8. \A k \in 1..Len(Text) : Text[k] = file[offset + k]
  <2> HIDE DEF e
  <2>1. \A k \in 1..Len(Text) : (offset + 1) + k - 1 = offset + k
    BY <1>1, <1>3, <1>7
  <2> QED BY <1>4, <1>6, <1>7, <2>1
<1>9. NextOffset = LineEnd
  BY <1>1, <1>3, <1>7 DEF NextOffset
<1> QED BY <1>3, <1>7, <1>8, <1>9

\* A scan that comes to the beginning of a line reads it whole, or meets it
\* half written.
LEMMA LineRead ==
  ASSUME FileInv, OffsetInv, offset < Len(file),
         NEW n \in 1..Len(lines), Begins(n, offset + 1), Alive(n, offset + 1)
  PROVE  \/ LineEnd = offset + 1 + Width /\ Text # << >> /\ Decodes(Text) /\ Text[1][1] = n
         \/ LineEnd > Len(file) /\ ~Decodes(Text) /\ file[Len(file)][1] = n
<1> DEFINE s == offset + 1
           N == Len(file)
<1>1. /\ N \in Nat /\ offset \in Nat /\ rest \in Nat /\ rest <= Width + 1
      /\ s \in 1..N /\ Width \in Nat /\ Width > 0
      /\ file[s] = <<n, 1>> /\ FileTypes /\ Runs /\ Once /\ AtEnd
      /\ Len(lines) \in Nat /\ n \in Nat
  BY FileFacts DEF FileInv, OffsetInv, Begins
<1>num. N \in Nat /\ offset \in Nat /\ rest \in Nat /\ rest <= Width + 1 /\ Width \in Nat
  BY <1>1
<1>2. /\ LineEnd \in s..(N + 1)
      /\ LineEnd <= N => IsNewline(file[LineEnd])
      /\ \A i \in s..(LineEnd - 1) : ~IsNewline(file[i])
      /\ Len(Text) = LineEnd - s
      /\ \A k \in 1..Len(Text) : Text[k] = file[offset + k]
  BY <1>1, LineEndFacts
<1>3. ASSUME LineEnd = s + Width, \A k \in 1..Width : file[offset + k] = <<n, k>>
      PROVE  Text # << >> /\ Decodes(Text) /\ Text[1][1] = n
  <2>1. Len(Text) = Width
    BY <1>1, <1>2, <1>3
  <2>2. \A k \in 1..Width : Text[k] = <<n, k>>
    BY <1>2, <1>3, <2>1
  <2>3. 1 \in 1..Width
    BY <1>1
  <2>4. Text[1][1] = n
    BY <2>2, <2>3
  <2>5. Text # << >>
    BY <1>1, <2>1
  <2> QED BY <2>1, <2>2, <2>4, <2>5 DEF Decodes
<1>4. CASE s + Width <= N /\ file[s + Width] = <<n, Width + 1>>
  <2> DEFINE j == s + Width
  <2>0. j \in Nat /\ j = offset + 1 + Width
    BY <1>1
  <2>1. j \in 1..N /\ file[j][1] = n /\ file[j][2] = Width + 1
    BY <1>1, <1>4
  <2> HIDE DEF j
  <2>2. ASSUME NEW k \in 1..Width PROVE file[offset + k] = <<n, k>>
    <3> DEFINE m == Width + 1 - k
    <3>1. m \in 0..((Width + 1) - 1) /\ j - m = offset + k /\ (Width + 1) - m = k
      BY <1>1, <2>0
    <3>2. m \in 0..(file[j][2] - 1)
      BY <2>1, <3>1
    <3> HIDE DEF m
    <3>3. file[j - m] = <<file[j][1], file[j][2] - m>>
      BY <1>1, <2>1, <3>2 DEF Runs
    <3> QED BY <2>1, <3>1, <3>3
  <2>3. LineEnd = j
    <3>1. IsNewline(file[j])
      BY <2>1 DEF IsNewline
    <3>2. LineEnd <= j
      <4>1. ASSUME j < LineEnd PROVE FALSE
        <5>1. j \in s..(LineEnd - 1)
          BY <1>1, <1>2, <2>0, <4>1
        <5> QED BY <1>2, <3>1, <5>1
      <4>2. LineEnd \in Nat
        BY <1>1, <1>2
      <4> QED BY <2>0, <4>1, <4>2
    <3>3. ASSUME LineEnd < j PROVE FALSE
      <4>1. LineEnd \in Nat /\ LineEnd - offset \in 1..Width /\ LineEnd <= N
            /\ offset + (LineEnd - offset) = LineEnd
        BY <1>1, <1>2, <2>0, <2>1, <3>3
      <4>2. file[LineEnd] = <<n, LineEnd - offset>>
        BY <2>2, <4>1
      <4>3. file[LineEnd][2] = Width + 1
        BY <1>2, <4>1 DEF IsNewline
      <4> QED BY <1>1, <4>1, <4>2, <4>3
    <3>4. LineEnd \in Nat
      BY <1>1, <1>2
    <3> QED BY <2>0, <3>2, <3>3, <3>4
  <2> QED BY <1>3, <2>2, <2>3 DEF j
<1>5. CASE rest > 1 /\ n = Len(lines)
  <2>1. N > 0 /\ file[N] = <<n, rest - 1>>
    BY <1>1, <1>5 DEF AtEnd
  <2>2. N \in 1..N /\ file[N][1] = n /\ file[N][2] = rest - 1 /\ file[s][1] = n /\ file[s][2] = 1
    BY <1>1, <2>1
  <2>3. (rest - 1) - 1 = N - s
    BY <1>1, <2>2 DEF Once
  <2>4. ASSUME NEW k \in 1..(rest - 1) PROVE file[offset + k] = <<n, k>>
    <3>1. (rest - 1) - k \in 0..(file[N][2] - 1)
      BY <1>1, <1>5, <2>2
    <3>2. file[N - ((rest - 1) - k)] = <<file[N][1], file[N][2] - ((rest - 1) - k)>>
      BY <1>1, <2>2, <3>1 DEF Runs
    <3>3. N - ((rest - 1) - k) = offset + k /\ (rest - 1) - ((rest - 1) - k) = k
      BY <1>1, <2>2, <2>3
    <3> QED BY <2>2, <3>2, <3>3
  <2>5. LineEnd = N + 1
    <3>1. ASSUME LineEnd <= N PROVE FALSE
      <4>1. LineEnd \in Nat /\ LineEnd - offset \in 1..(rest - 1)
            /\ offset + (LineEnd - offset) = LineEnd
        <5>1. LineEnd \in s..(N + 1)
          BY <1>2
        <5> QED BY <1>num, <2>3, <3>1, <5>1
      <4>2. file[LineEnd] = <<n, LineEnd - offset>>
        BY <2>4, <4>1
      <4>3. file[LineEnd][2] = Width + 1
        BY <1>2, <3>1 DEF IsNewline
      <4> QED BY <1>num, <4>1, <4>2, <4>3
    <3>2. LineEnd \in s..(N + 1)
      BY <1>2
    <3> QED BY <1>num, <3>1, <3>2
  <2>6. Len(Text) = rest - 1
    BY <1>1, <1>2, <2>3, <2>5
  <2>7. CASE rest - 1 = Width
    <3>1. LineEnd = s + Width
      BY <1>1, <2>3, <2>5, <2>7
    <3> QED BY <1>3, <2>4, <2>7, <3>1
  <2>8. CASE rest - 1 # Width
    BY <1>1, <2>2, <2>5, <2>6, <2>8 DEF Decodes
  <2> QED BY <2>7, <2>8
<1> QED BY <1>4, <1>5 DEF Alive

\* scanOnce: a line that the scan passes is handed over, was handed over
\* before, creates no request, or was met half written.
LEMMA ScanLineKeeps ==
  ASSUME FileInv, TailerInv, ScanLine
  PROVE  TailerInv'
<1> DEFINE N == Len(file)
           r == lines[Text[1][1]]
<1>1. /\ N \in Nat /\ offset \in Nat /\ Len(lines) \in Nat /\ offset < N
      /\ FileTypes /\ OffsetInv /\ SeenInv /\ PassedInv
      /\ UNCHANGED <<file, lines, rest>> /\ HandleLine /\ offset' = NextOffset
      /\ cut' = IF LineEnd > Len(file) /\ ~Decodes(Text)
                THEN cut \cup {file[Len(file)][1]} ELSE cut
  BY FileFacts DEF FileInv, TailerInv, OffsetInv, ScanLine, daemonVars
<1>2. /\ LineEnd \in (offset + 1)..(N + 1)
      /\ LineEnd <= N => IsNewline(file[LineEnd])
      /\ \A i \in (offset + 1)..(LineEnd - 1) : ~IsNewline(file[i])
      /\ Len(Text) = LineEnd - (offset + 1)
      /\ \A k \in 1..Len(Text) : Text[k] = file[offset + k]
      /\ offset' = LineEnd
  BY <1>1, LineEndFacts
<1>3. OffsetInv'
  <2>1. LineEnd \in 0..(N + 1)
    BY <1>1, <1>2
  <2>2. ASSUME LineEnd = N + 1 PROVE N > 0 /\ ~IsNewline(file[N])
    <3>1. N \in (offset + 1)..(LineEnd - 1)
      BY <1>1, <2>2
    <3> QED BY <1>1, <1>2, <3>1
  <2> QED BY <1>1, <1>2, <2>1, <2>2 DEF OffsetInv, IsNewline
<1>4. \/ /\ Text # << >> /\ Decodes(Text) /\ r \notin seen \cup {NoRequest}
         /\ seen' = seen \cup {r} /\ handed' = Append(handed, r)
      \/ /\ ~(Text # << >> /\ Decodes(Text) /\ r \notin seen \cup {NoRequest})
         /\ seen' = seen /\ handed' = handed
  BY <1>1 DEF HandleLine
<1>5. SeenInv'
  <2>1. CASE seen' = seen /\ handed' = handed
    BY <1>1, <2>1 DEF SeenInv
  <2>2. CASE /\ Text # << >> /\ Decodes(Text) /\ r \notin seen \cup {NoRequest}
             /\ seen' = seen \cup {r} /\ handed' = Append(handed, r)
    <3>1. r \in Requests
      <4>1. Len(Text) = Width
        BY <2>2 DEF Decodes
      <4>2. 1 \in 1..Len(Text) /\ offset + 1 \in 1..N
        BY <1>1, <4>1
      <4>3. Text[1] = file[offset + 1]
        BY <1>2, <4>2
      <4>4. Text[1][1] \in 1..Len(lines)
        BY <1>1, <4>2, <4>3, FileFacts
      <4>5. r \in Requests \cup {NoRequest}
        BY <1>1, <4>4, ElementOfSeq DEF FileTypes
      <4> QED BY <2>2, <4>5
    <3> HIDE DEF r
    <3>2. /\ handed \in Seq(Requests) /\ Len(handed) \in Nat
          /\ seen = {handed[i] : i \in 1..Len(handed)}
      BY <1>1, LenProperties DEF SeenInv
    <3>3. /\ handed' \in Seq(Requests) /\ Len(handed') = Len(handed) + 1
          /\ handed'[Len(handed) + 1] = r
          /\ \A i \in 1..Len(handed) : handed'[i] = handed[i]
      BY <2>2, <3>1, <3>2, AppendProperties
    <3>4. /\ \A i \in 1..Len(handed') : i \in 1..Len(handed) \/ i = Len(handed) + 1
          /\ Len(handed) + 1 \in 1..Len(handed')
          /\ \A i \in 1..Len(handed) : i \in 1..Len(handed')
      BY <3>2, <3>3
    <3>5. seen' = {handed'[i] : i \in 1..Len(handed')}
      <4>1. ASSUME NEW x \in seen' PROVE \E i \in 1..Len(handed') : x = handed'[i]
        BY <2>2, <3>2, <3>3, <3>4
      <4>2. ASSUME NEW i \in 1..Len(handed') PROVE handed'[i] \in seen'
        BY <2>2, <3>2, <3>3, <3>4
      <4> QED BY <4>1, <4>2
    <3>6. ASSUME NEW i \in 1..Len(handed'), NEW k \in 1..Len(handed'), handed'[i] = handed'[k]
          PROVE  i = k
      <4>1. \A x \in 1..Len(handed) : handed[x] \in seen
        BY <3>2
      <4>2. CASE i \in 1..Len(handed) /\ k \in 1..Len(handed)
        BY <1>1, <3>3, <3>6, <4>2 DEF SeenInv
      <4>3. ~(i \in 1..Len(handed) /\ k = Len(handed) + 1)
        BY <2>2, <3>3, <3>6, <4>1
      <4>4. ~(k \in 1..Len(handed) /\ i = Len(handed) + 1)
        BY <2>2, <3>3, <3>6, <4>1
      <4> QED BY <3>4, <4>2, <4>3, <4>4
    <3> QED BY <3>3, <3>5, <3>6 DEF SeenInv
  <2> QED BY <1>4, <2>1, <2>2
<1>6. PassedInv'
  <2> SUFFICES ASSUME NEW s \in 1..N, NEW n \in (1..Len(lines)) \ cut',
                      Begins(n, s), Alive(n, s), s <= offset'
               PROVE  s + Width <= offset' /\ lines[n] \in seen' \cup {NoRequest}
    BY <1>1 DEF PassedInv, Begins, Alive, IsNewline
  <2>1. cut \subseteq cut' /\ seen \subseteq seen' /\ offset <= offset'
    BY <1>1, <1>2, <1>4
  <2>2. CASE s <= offset
    <3>1. n \in (1..Len(lines)) \ cut
      BY <2>1
    <3>2. s + Width <= offset /\ lines[n] \in seen \cup {NoRequest}
      BY <1>1, <2>2, <3>1 DEF PassedInv
    <3>3. offset \in Nat /\ offset' \in Nat /\ Width \in Nat
      BY <1>1, <1>2
    <3> QED BY <2>1, <3>2, <3>3
  <2>3. CASE s = offset + 1
    <3>1. \/ LineEnd = offset + 1 + Width /\ Text # << >> /\ Decodes(Text) /\ Text[1][1] = n
          \/ LineEnd > Len(file) /\ ~Decodes(Text) /\ file[Len(file)][1] = n
      BY <1>1, <2>3, LineRead
    <3>2. ~(LineEnd > Len(file) /\ ~Decodes(Text) /\ file[Len(file)][1] = n)
      BY <1>1
    <3>3. /\ LineEnd = s + Width /\ Text # << >> /\ Decodes(Text) /\ r = lines[n]
      BY <2>3, <3>1, <3>2
    <3>4. lines[n] \in seen' \cup {NoRequest}
      BY <1>4, <3>3
    <3>5. LineEnd \in Nat /\ offset' = LineEnd
      BY <1>1, <1>2
    <3> QED BY <3>3, <3>4, <3>5
  <2>4. CASE s > offset + 1
    <3>1. s - 1 \in (offset + 1)..(LineEnd - 1) /\ s # 1
      BY <1>1, <1>2, <2>4
    <3>2. IsNewline(file[s - 1])
      BY <3>1 DEF Begins
    <3> QED BY <1>2, <3>1, <3>2
  <2> QED BY <1>1, <2>2, <2>3, <2>4
<1> QED BY <1>3, <1>5, <1>6 DEF TailerInv

\* A byte that appears at the end of the file changes nothing behind the
\* offset: a line begins there only where the tailer has not been.
LEMMA WriteByteKeeps ==
  ASSUME FileInv, TailerInv, WriteByte
  PROVE  TailerInv'
<1> DEFINE N == Len(file)
<1>1. /\ N \in Nat /\ offset \in Nat /\ Len(lines) \in Nat /\ rest \in Nat /\ rest > 0
      /\ Width \in Nat /\ Width > 0
      /\ OffsetInv /\ SeenInv /\ PassedInv /\ AtEnd /\ Runs
      /\ UNCHANGED <<lines, offset, seen, handed, cut>>
      /\ rest' = IF rest > Width THEN 0 ELSE rest + 1
      /\ \A j \in 1..N : file[j][1] \in Nat /\ file[j][2] \in Nat
  BY FileFacts DEF FileInv, TailerInv, OffsetInv, WriteByte, tailerVars
<1>2. /\ Len(file') = N + 1 /\ file'[N + 1] = <<Len(lines), rest>>
      /\ \A i \in 1..N : file'[i] = file[i]
  BY WriteByteFile
<1>3. OffsetInv'
  <2>1. offset \in 0..(N + 1) /\ offset # (N + 1) + 1
    BY <1>1 DEF OffsetInv
  <2>2. offset \in 0..((N + 1) + 1)
    BY <1>1, <2>1
  <2> QED BY <1>1, <1>2, <2>1, <2>2 DEF OffsetInv
<1>4. SeenInv'
  BY <1>1 DEF SeenInv
<1>5. PassedInv'
  <2> SUFFICES ASSUME NEW s \in 1..(N + 1), NEW n \in (1..Len(lines)) \ cut,
                      Begins(n, s)', Alive(n, s)', s <= offset
               PROVE  s + Width <= offset /\ lines[n] \in seen \cup {NoRequest}
    BY <1>1, <1>2 DEF PassedInv
  <2>1. /\ file'[s] = <<n, 1>> /\ (s = 1 \/ IsNewline(file'[s - 1]))
        /\ \/ s + Width <= N + 1 /\ file'[s + Width] = <<n, Width + 1>>
           \/ rest' > 1 /\ n = Len(lines)
    BY <1>1, <1>2 DEF Begins, Alive, IsNewline
  <2>2. s \in 1..N
    <3>1. ASSUME s = N + 1 PROVE FALSE
      <4>1. offset = N + 1 /\ N > 0 /\ ~IsNewline(file[N])
        BY <1>1, <3>1 DEF OffsetInv
      <4>2. s - 1 = N /\ s # 1 /\ N \in 1..N
        BY <1>1, <3>1, <4>1
      <4>3. IsNewline(file[N])
        BY <1>2, <2>1, <4>2
      <4> QED BY <4>1, <4>3
    <3>2. \A x \in 1..(N + 1) : x \in 1..N \/ x = N + 1
      BY <1>1
    <3> QED BY <3>1, <3>2
  <2>3. Begins(n, s)
    <3>1. s # 1 => s - 1 \in 1..N
      BY <1>1, <2>2
    <3> QED BY <1>2, <2>1, <2>2, <3>1 DEF Begins
  <2>4. Alive(n, s)
    <3>1. CASE s + Width <= N /\ file'[s + Width] = <<n, Width + 1>>
      <4>1. s + Width \in 1..N
        BY <1>1, <2>2, <3>1
      <4> QED BY <1>2, <3>1, <4>1 DEF Alive
    <3>2. CASE s + Width = N + 1 /\ file'[s + Width] = <<n, Width + 1>>
      <4>1. n = Len(lines) /\ rest = Width + 1
        BY <1>2, <3>2
      <4>2. rest > 1
        BY <1>1, <4>1
      <4> QED BY <4>1, <4>2 DEF Alive
    <3>3. CASE rest' > 1 /\ n = Len(lines)
      <4>1. rest # 1
        <5>1. file[s][1] = n
          BY <1>2, <2>1, <2>2
        <5> QED BY <1>1, <2>2, <3>3, <5>1 DEF AtEnd
      <4> QED BY <1>1, <3>3, <4>1 DEF Alive
    <3> QED BY <1>1, <2>1, <2>2, <3>1, <3>2, <3>3
  <2> QED BY <1>1, <2>2, <2>3, <2>4 DEF PassedInv
<1> QED BY <1>3, <1>4, <1>5 DEF TailerInv

\* Every step of the daemon and of the tailer keeps TailerInv.
LEMMA StepTailer ==
  ASSUME FileInv, TailerInv, [Next]_vars
  PROVE  TailerInv'
<1>1. /\ Len(file) \in Nat /\ Len(lines) \in Nat
      /\ \A j \in 1..Len(file) : file[j][1] \in 1..Len(lines)
  BY FileFacts DEF FileInv
<1>2. ASSUME NEW r \in Requests \cup {NoRequest}, BeginLine(r) PROVE TailerInv'
  <2>1. /\ lines \in Seq(Requests \cup {NoRequest}) /\ rest' = 1
        /\ lines' = Append(lines, r) /\ UNCHANGED <<file, offset, seen, handed, cut>>
    BY <1>2 DEF BeginLine, FileInv, FileTypes, tailerVars
  <2>2. Len(lines') = Len(lines) + 1 /\ \A n \in 1..Len(lines) : lines'[n] = lines[n]
    BY <2>1, AppendProperties
  <2>3. OffsetInv' /\ SeenInv'
    BY <2>1 DEF TailerInv, OffsetInv, SeenInv, IsNewline
  <2>4. ASSUME NEW s \in 1..Len(file), NEW n \in (1..Len(lines')) \ cut,
               Begins(n, s)', Alive(n, s)', s <= offset
        PROVE  s + Width <= offset /\ lines'[n] \in seen \cup {NoRequest}
    <3>1. Begins(n, s)
      BY <2>1, <2>4 DEF Begins, IsNewline
    <3>2. Alive(n, s)
      BY <2>1, <2>4 DEF Alive
    <3>3. n \in (1..Len(lines)) \ cut
      BY <1>1, <3>1 DEF Begins
    <3> QED BY <2>2, <2>4, <3>1, <3>2, <3>3 DEF TailerInv, PassedInv
  <2>5. PassedInv'
    BY <2>1, <2>4 DEF PassedInv
  <2> QED BY <2>3, <2>5 DEF TailerInv
<1>3. CASE StopShort
  <2>1. UNCHANGED <<file, lines, offset, seen, handed, cut>> /\ rest' = 0
    BY <1>3 DEF StopShort, tailerVars
  <2>2. OffsetInv' /\ SeenInv'
    BY <2>1 DEF TailerInv, OffsetInv, SeenInv, IsNewline
  <2>3. \A s, n : (Begins(n, s)' => Begins(n, s)) /\ (Alive(n, s)' => Alive(n, s))
    BY <2>1 DEF Begins, Alive, IsNewline
  <2>4. PassedInv'
    BY <2>1, <2>3 DEF TailerInv, PassedInv
  <2> QED BY <2>2, <2>4 DEF TailerInv
<1>4. CASE Restart
  <2>1. UNCHANGED <<file, lines>> /\ offset' = 0 /\ seen' = {} /\ handed' = << >>
    BY <1>4 DEF Restart, daemonVars
  <2>2. OffsetInv' /\ PassedInv'
    BY <1>1, <2>1 DEF OffsetInv, PassedInv
  <2>3. handed' \in Seq(Requests) /\ Len(handed') = 0
    BY <2>1, EmptySeq
  <2>4. SeenInv'
    BY <2>1, <2>3 DEF SeenInv
  <2> QED BY <2>2, <2>4 DEF TailerInv
<1>5. CASE UNCHANGED vars
  <2>1. UNCHANGED <<file, lines, rest, offset, seen, handed, cut>>
    BY <1>5 DEF vars
  <2>2. OffsetInv' /\ SeenInv'
    BY <2>1 DEF TailerInv, OffsetInv, SeenInv, IsNewline
  <2>3. \A s, n : (Begins(n, s)' => Begins(n, s)) /\ (Alive(n, s)' => Alive(n, s))
    BY <2>1 DEF Begins, Alive, IsNewline
  <2>4. PassedInv'
    BY <2>1, <2>3 DEF TailerInv, PassedInv
  <2> QED BY <2>2, <2>4 DEF TailerInv
<1> QED BY <1>2, <1>3, <1>4, <1>5, WriteByteKeeps, ScanLineKeeps DEF Next

-----------------------------------------------------------------------------
(* The theorem *)

\* Behind the offset no whole request_created line is missing that was not met
\* half written, and none was handed over twice.
LEMMA HandedOnce ==
  ASSUME FileInv, TailerInv
  PROVE  PassedMeansHanded
<1> SUFFICES ASSUME NEW n \in DOMAIN lines \ cut, NEW j \in 1..offset,
                    lines[n] # NoRequest, WholeAt(n, j)
             PROVE  Cardinality({i \in DOMAIN handed : handed[i] = lines[n]}) = 1
  BY DEF PassedMeansHanded
<1>1. /\ Len(file) \in Nat /\ Len(lines) \in Nat /\ offset \in Nat
      /\ Width \in Nat /\ Width > 0
      /\ FileTypes /\ Runs /\ OffsetInv /\ SeenInv /\ PassedInv
  BY FileFacts DEF FileInv, TailerInv, OffsetInv
<1>2. /\ DOMAIN file = 1..Len(file) /\ DOMAIN lines = 1..Len(lines)
      /\ DOMAIN handed = 1..Len(handed)
  BY <1>1, LenProperties DEF FileTypes, SeenInv
<1>3. /\ j \in 1..Len(file) /\ file[j] = <<n, Width + 1>>
      /\ j > Width + 1 => IsNewline(file[j - Width - 1])
  BY <1>2 DEF WholeAt
<1> DEFINE s == j - Width
<1>4. Width < j /\ file[s] = <<n, 1>>
  <2>1. file[j][1] = n /\ file[j][2] = Width + 1 /\ (Width + 1) - Width = 1
    BY <1>1, <1>3
  <2>2. Width \in 0..(file[j][2] - 1)
    BY <1>1, <2>1
  <2>3. Width < j /\ file[s] = <<file[j][1], file[j][2] - Width>>
    BY <1>1, <1>3, <2>2 DEF Runs
  <2> QED BY <2>1, <2>3
<1>5. s \in 1..Len(file) /\ s + Width = j /\ s <= offset /\ j <= Len(file)
  BY <1>1, <1>3, <1>4
<1>6. Begins(n, s)
  <2>1. CASE j = Width + 1
    BY <1>1, <1>4, <2>1 DEF Begins
  <2>2. CASE j > Width + 1
    <3>1. s - 1 = j - Width - 1
      BY <1>1, <1>3
    <3> QED BY <1>3, <1>4, <2>2, <3>1 DEF Begins
  <2> QED BY <1>1, <1>3, <1>4, <2>1, <2>2
<1>7. Alive(n, s)
  BY <1>3, <1>5 DEF Alive
<1> HIDE DEF s
<1>8. lines[n] \in seen
  BY <1>1, <1>2, <1>5, <1>6, <1>7 DEF PassedInv
<1>9. PICK i \in 1..Len(handed) : handed[i] = lines[n]
  BY <1>1, <1>8 DEF SeenInv
<1>10. {k \in DOMAIN handed : handed[k] = lines[n]} = {i}
  BY <1>1, <1>2, <1>9 DEF SeenInv
<1> QED BY <1>10, FS_Singleton

\* Of the whole request_created lines that CanonTailer's offset has passed
\* every one was handed to handlePending, and once, except those that a scan met
\* half written: whatever the daemon's writes, torn writes and restarts of the
\* adapter come between, and however long a line is.
THEOREM LinesHandedOnce == Spec => []PassedMeansHanded
<1>1. Init => FileInv /\ TailerInv
  <2> SUFFICES ASSUME Init PROVE FileInv /\ TailerInv
    OBVIOUS
  <2>1. /\ file = << >> /\ lines = << >> /\ rest = 0 /\ offset = 0
        /\ seen = {} /\ handed = << >>
    BY DEF Init
  <2>2. /\ Len(file) = 0 /\ Len(lines) = 0 /\ Len(handed) = 0
        /\ file \in Seq(Nat \X Nat) /\ lines \in Seq(Requests \cup {NoRequest})
        /\ handed \in Seq(Requests)
    BY <2>1, EmptySeq
  <2>3. FileInv
    BY <2>1, <2>2 DEF FileInv, FileTypes, Runs, Once, AtEnd
  <2>4. TailerInv
    BY <2>1, <2>2 DEF TailerInv, OffsetInv, SeenInv, PassedInv
  <2> QED BY <2>3, <2>4
<1>2. (FileInv /\ TailerInv) /\ [Next]_vars => (FileInv /\ TailerInv)'
  BY StepFile, StepTailer
<1>3. FileInv /\ TailerInv => PassedMeansHanded
  BY HandedOnce
<1> QED BY <1>1, <1>2, <1>3, PTL DEF Spec
=============================================================================
