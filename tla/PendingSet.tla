----------------------------- MODULE PendingSet -----------------------------
(***************************************************************************)
(* The adapter's pending set (src/internal/twilioadapter/pending_set.go):  *)
(* which request holds the slot of each recipient phone, kept in memory    *)
(* and rebuilt at start-up from the adapter's own audit log.               *)
(*                                                                         *)
(* Two clocks matter.  time.Now carries a monotonic reading, so the age of *)
(* a slot that this process opened is elapsed time.  An audit row, and     *)
(* every slot rebuilt from one, has only the wall clock, which can be set  *)
(* back or ahead.                                                          *)
(***************************************************************************)
EXTENDS Integers, Sequences, FiniteSets

CONSTANTS Requests,    \* request ids
          Phones,      \* recipient phones
          Free,        \* "no entry" in the map
          PendingTTL,  \* PendingSet.ttl
          MaxNow,      \* the elapsed time stays within 0..MaxNow
          MaxBack,     \* by how much the wall clock may be set back in total
          MaxAhead,    \* by how much it may be set ahead in total
          MaxLost,     \* bound on lost audit rows and failed replays
          MaxRows      \* bound on the audit log, in PendingSpec only

\* What the map holds for a phone.
Entries == [req: Requests, opened: Int, parsed: BOOLEAN]
Slots == {Free} \cup Entries

ASSUME PendingAssumption ==
  /\ IsFiniteSet(Phones)
  /\ Free \notin Entries
  /\ MaxLost \in Nat

VARIABLES items,   \* phone -> its slot, or Free
          audit,   \* the verify_pending_* rows of the audit log
          now,     \* elapsed time
          back,    \* by how much the wall clock has been set back
          ahead,   \* by how much it has been set ahead
          lost     \* number of audit rows lost so far

clockVars == <<now, back, ahead>>
pendingVars == <<items, audit, now, back, ahead, lost>>

PendingInit ==
  /\ items = [p \in Phones |-> Free]
  /\ audit = << >>
  /\ now = 0
  /\ back = 0
  /\ ahead = 0
  /\ lost = 0

Wall == now + ahead - back

\* now.Sub(entry.OpenedAt)
Age(entry) == (IF entry.parsed THEN Wall ELSE now) - entry.opened

Held(p) == items[p] # Free

\* Mutant of Busy: a slot rebuilt from the audit log does not count.
BusyUnlessParsed(p) == Held(p) /\ ~items[p].parsed /\ Age(items[p]) < PendingTTL

\* What makes OpenPending return ErrPhoneBusy and Resolve find a request.
Busy(p) == Held(p) /\ Age(items[p]) < PendingTTL

Row(t, r, p) == [type |-> t, req |-> r, phone |-> p, ts |-> Wall]

(***************************************************************************)
(* emit is best effort: a row can be lost, because the write failed or     *)
(* because it, or the row before it, was left torn.  Replay skips lines    *)
(* that do not decode, so a torn row is a lost row.                        *)
(***************************************************************************)
Emit(rows) ==
  \E kept \in SUBSET DOMAIN rows :
     /\ lost' = lost + Len(rows) - Cardinality(kept)
     /\ lost' <= MaxLost
     /\ audit' = audit \o [i \in 1..Cardinality(kept) |->
                             rows[CHOOSE k \in kept :
                                    Cardinality({j \in kept : j <= k}) = i]]

\* Mutant of Expired: a discriminator that replay does not know.
ExpiredUnknown(p) == Row("timed_out", items[p].req, p)

Expired(p) == Row("expired", items[p].req, p)

\* OpenPending when it does not return ErrPhoneBusy.
OpenPending(p, r) ==
  /\ ~Busy(p)
  /\ items' = [items EXCEPT ![p] = [req |-> r, opened |-> now, parsed |-> FALSE]]
  /\ Emit((IF Held(p) THEN <<Expired(p)>> ELSE << >>) \o <<Row("opened", r, p)>>)

\* Resolve's effect; it returns items[p].req when Busy(p).
Resolve(p) ==
  IF Held(p) /\ ~Busy(p)
  THEN /\ items' = [items EXCEPT ![p] = Free]
       /\ Emit(<<Expired(p)>>)
  ELSE UNCHANGED <<items, audit, lost>>

\* Release takes the phone only: it frees the slot whoever holds it.
Release(p) ==
  IF Held(p)
  THEN /\ items' = [items EXCEPT ![p] = Free]
       /\ Emit(<<Row("released", items[p].req, p)>>)
  ELSE UNCHANGED <<items, audit, lost>>

\* The order in which the map is ranged over does not matter to replay.
ExpireDue ==
  LET due == {p \in Phones : Held(p) /\ ~Busy(p)}
      order == CHOOSE s \in [1..Cardinality(due) -> due] :
                 \A i, j \in DOMAIN s : i # j => s[i] # s[j]
  IN /\ items' = [p \in Phones |-> IF p \in due THEN Free ELSE items[p]]
     /\ Emit([i \in DOMAIN order |-> Expired(order[i])])

\* Mutant of InTimeOrder: rows of equal time come out in reverse order.
InTimeOrderUnstable(rows) ==
  LET before(i, j) == rows[i].ts < rows[j].ts \/ (rows[i].ts = rows[j].ts /\ i > j)
      rank(i) == 1 + Cardinality({j \in DOMAIN rows : before(j, i)})
  IN [k \in DOMAIN rows |-> rows[CHOOSE i \in DOMAIN rows : rank(i) = k]]

\* sort.SliceStable by wall_ts.
InTimeOrder(rows) ==
  LET before(i, j) == rows[i].ts < rows[j].ts \/ (rows[i].ts = rows[j].ts /\ i < j)
      rank(i) == 1 + Cardinality({j \in DOMAIN rows : before(j, i)})
  IN [k \in DOMAIN rows |-> rows[CHOOSE i \in DOMAIN rows : rank(i) = k]]

\* ReplayFromAudit's loop over the sorted rows.  The comment above it promises
\* an ExpireDue at the end; there is none.
Replayed(rows) ==
  LET sorted == InTimeOrder(rows)
      after[i \in 0..Len(rows)] ==
        IF i = 0 THEN [p \in Phones |-> Free]
        ELSE LET row == sorted[i]
                 slot == after[i-1][row.phone]
             IN IF row.type = "opened"
                THEN [after[i-1] EXCEPT ![row.phone] =
                        [req |-> row.req, opened |-> row.ts, parsed |-> TRUE]]
                ELSE IF slot # Free /\ slot.req = row.req
                THEN [after[i-1] EXCEPT ![row.phone] = Free]
                ELSE after[i-1]
  IN after[Len(rows)]

\* A new PendingSet at start-up.  When the file cannot be read main logs the
\* error and goes on with the empty set.
ReplayFromAudit ==
  /\ \/ items' = Replayed(audit) /\ UNCHANGED lost
     \/ items' = [p \in Phones |-> Free] /\ lost < MaxLost /\ lost' = lost + 1
  /\ UNCHANGED audit

Tick ==
  /\ now < MaxNow
  /\ now' = now + 1
  /\ UNCHANGED <<items, audit, back, ahead, lost>>

SetBack ==
  /\ back < MaxBack
  /\ back' = back + 1
  /\ UNCHANGED <<items, audit, now, ahead, lost>>

SetAhead ==
  /\ ahead < MaxAhead
  /\ ahead' = ahead + 1
  /\ UNCHANGED <<items, audit, now, back, lost>>
-----------------------------------------------------------------------------
(* The set on its own, driven by any sequence of calls and restarts *)

Calls ==
  /\ \/ \E p \in Phones :
          \/ \E r \in Requests : OpenPending(p, r)
          \/ Resolve(p)
          \/ Release(p)
     \/ ExpireDue
  /\ UNCHANGED clockVars

RestartOrClock ==
  \/ ReplayFromAudit /\ UNCHANGED clockVars
  \/ Tick
  \/ SetBack
  \/ SetAhead

SetNext == Calls \/ RestartOrClock

SetSpec == PendingInit /\ [][SetNext]_pendingVars

\* The same with a bound on the audit log.
PendingNext == (Len(audit) < MaxRows /\ Calls) \/ RestartOrClock

PendingSpec == PendingInit /\ [][PendingNext]_pendingVars

SameSlot(a, b) == a = b \/ (a # Free /\ b # Free /\ a.req = b.req)

\* The audit log tells the slots: a restart at any moment rebuilds the holder of
\* every phone, provided no row was lost and the wall clock was never set back
\* (emit, ReplayFromAudit).
AuditTellsSlots ==
  lost = 0 /\ back = 0 => \A p \in Phones : SameSlot(items[p], Replayed(audit)[p])

\* Within its lifetime a slot can be given up but not taken over: calls, expiry
\* and a restart leave it with its holder or free (OpenPending, ErrPhoneBusy).
\* Excepted are lost rows, a clock set back and, for a slot that was rebuilt from
\* the audit log, a clock set ahead, which makes it old before its time.
NotTakenOver ==
  [][\A p \in Phones :
       /\ items[p] # Free /\ items'[p] # Free
       /\ now - items[p].opened < PendingTTL
       /\ lost' = 0 /\ back = 0 /\ (items[p].parsed => ahead = 0)
       => items'[p].req = items[p].req]_pendingVars
=============================================================================
