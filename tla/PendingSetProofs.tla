-------------------------- MODULE PendingSetProofs --------------------------
(***************************************************************************)
(* Proofs about PendingSet, for any requests and phones and every value of *)
(* the bounds: what a restart makes of the audit log.                      *)
(***************************************************************************)
EXTENDS PendingSet, SequenceTheorems, FiniteSetTheorems, WellFoundedInduction, TLAPS

USE PendingAssumption

-----------------------------------------------------------------------------
(* Induction and counting *)

\* A set of numbers that holds 0 and, with the predecessor, every number up to
\* n, holds all of them.
LEMMA UpTo ==
  ASSUME NEW S, NEW n \in Nat, 0 \in S,
         \A i \in 1..n : i - 1 \in S => i \in S
  PROVE  \A i \in 0..n : i \in S
<1> DEFINE Bad == {i \in 0..n : i \notin S}
<1> SUFFICES ASSUME Bad # {} PROVE FALSE
  OBVIOUS
<1>1. Bad \subseteq Nat
  OBVIOUS
<1>2. \E x \in Bad : \A y \in Bad : ~(<<y, x>> \in OpToRel(<, Nat))
  <2> HIDE DEF Bad
  <2> QED BY <1>1, NatLessThanWellFounded, WFMin, Zenon
<1>3. PICK x \in Bad : \A y \in Bad : ~(<<y, x>> \in OpToRel(<, Nat))
  BY <1>2, Zenon
<1>4. \A y \in Bad : ~(y < x)
  BY <1>1, <1>3 DEF OpToRel
<1>5. x \in 1..n /\ x - 1 \in 0..n /\ x - 1 < x
  OBVIOUS
<1>6. x - 1 \notin Bad
  BY <1>4, <1>5
<1> QED BY <1>5, <1>6

LEMMA UpToCard == \A n \in Nat : IsFiniteSet(1..n) /\ Cardinality(1..n) = n
<1> TAKE n \in Nat
<1>1. 1 \in Int /\ n \in Int
  OBVIOUS
<1>2. IsFiniteSet(1..n) /\ Cardinality(1..n) = IF 1 > n THEN 0 ELSE n - 1 + 1
  BY <1>1, FS_Interval
<1> QED BY <1>2

-----------------------------------------------------------------------------
(* emit *)

\* Rows are lost or not, never won back.
LEMMA EmitLoses ==
  ASSUME NEW rows, NEW n \in Nat, DOMAIN rows = 1..n, Len(rows) = n, lost \in Nat, Emit(rows)
  PROVE  lost' \in Nat /\ lost <= lost'
<1>1. PICK kept \in SUBSET DOMAIN rows : lost' = lost + Len(rows) - Cardinality(kept)
  BY DEF Emit
<1>2. IsFiniteSet(1..n) /\ Cardinality(1..n) = n
  BY UpToCard
<1>3. kept \in SUBSET (1..n)
  OBVIOUS
<1>4. IsFiniteSet(kept) /\ Cardinality(kept) <= n
  BY <1>2, <1>3, FS_Subset
<1>5. Cardinality(kept) \in Nat
  BY <1>4, FS_CardinalityType
<1> QED BY <1>1, <1>4, <1>5

\* If none is lost the audit log has them all, in their order.
LEMMA EmitAll ==
  ASSUME NEW T, NEW rows \in Seq(T), lost = 0, lost' = 0, Emit(rows)
  PROVE  audit' = audit \o rows
<1> DEFINE n == Len(rows)
           take(kept) == [i \in 1..Cardinality(kept) |->
                            rows[CHOOSE k \in kept : Cardinality({j \in kept : j <= k}) = i]]
<1>1. n \in Nat /\ DOMAIN rows = 1..n /\ IsFiniteSet(1..n) /\ Cardinality(1..n) = n
  BY UpToCard, LenProperties
<1>2. PICK kept \in SUBSET DOMAIN rows : /\ lost' = lost + n - Cardinality(kept)
                                         /\ audit' = audit \o take(kept)
  BY DEF Emit
<1> HIDE DEF n
<1>3. kept \in SUBSET (1..n)
  BY <1>1
<1>4. Cardinality(kept) \in Nat
  BY <1>1, <1>3, FS_Subset, FS_CardinalityType
<1>5. Cardinality(kept) = n
  BY <1>1, <1>2, <1>4
<1>6. kept = 1..n
  BY <1>1, <1>3, <1>5, FS_Subset
<1>7. ASSUME NEW k \in 1..n PROVE Cardinality({j \in 1..n : j <= k}) = k
  <2>1. {j \in 1..n : j <= k} = 1..k /\ k \in Nat
    BY <1>1
  <2> QED BY <2>1, UpToCard
<1>8. ASSUME NEW i \in 1..n
      PROVE  (CHOOSE k \in 1..n : Cardinality({j \in 1..n : j <= k}) = i) = i
  BY <1>7, <1>8
<1>9. take(kept) = [i \in 1..n |-> rows[i]]
  <2> DEFINE pick(i) == CHOOSE k \in 1..n : Cardinality({j \in 1..n : j <= k}) = i
  <2>1. take(1..n) = [i \in 1..n |-> rows[pick(i)]]
    BY <1>1, Zenon
  <2>2. \A i \in 1..n : pick(i) = i
    BY <1>8, Zenon
  <2> HIDE DEF pick, take
  <2>3. [i \in 1..n |-> rows[pick(i)]] = [i \in 1..n |-> rows[i]]
    BY <2>2
  <2> QED BY <1>6, <2>1, <2>3
<1>10. rows = [i \in 1..n |-> rows[i]]
  BY <1>1
<1> QED BY <1>2, <1>9, <1>10

\* Rows that are kept are rows that were written.
LEMMA EmitType ==
  ASSUME NEW T, NEW rows \in Seq(T), audit \in Seq(T), Emit(rows)
  PROVE  audit' \in Seq(T)
<1> DEFINE n == Len(rows)
           upto(kept, k) == {j \in kept : j <= k}
           pick(kept, i) == CHOOSE k \in kept : Cardinality(upto(kept, k)) = i
<1>1. n \in Nat /\ DOMAIN rows = 1..n /\ IsFiniteSet(1..n) /\ \A i \in 1..n : rows[i] \in T
  BY UpToCard, LenProperties, ElementOfSeq
<1>2. PICK kept \in SUBSET (1..n) :
         audit' = audit \o [i \in 1..Cardinality(kept) |-> rows[pick(kept, i)]]
  <2>1. \E kept \in SUBSET DOMAIN rows :
           audit' = audit \o [i \in 1..Cardinality(kept) |-> rows[pick(kept, i)]]
    BY Zenon DEF Emit
  <2> HIDE DEF pick
  <2> QED BY <1>1, <2>1
<1> DEFINE D == 1..Cardinality(kept)
           rank == [k \in kept |-> Cardinality(upto(kept, k))]
<1>3. IsFiniteSet(kept) /\ Cardinality(kept) \in Nat
  BY <1>1, FS_Subset, FS_CardinalityType
<1>4. IsFiniteSet(D) /\ Cardinality(D) = Cardinality(kept)
  BY <1>3, UpToCard
<1>5. ASSUME NEW k \in kept
      PROVE  /\ IsFiniteSet(upto(kept, k)) /\ Cardinality(upto(kept, k)) \in D
             /\ k \in upto(kept, k) /\ k \in Nat
  <2>1. upto(kept, k) \in SUBSET kept /\ k \in upto(kept, k) /\ k \in Nat
    BY <1>1
  <2> HIDE DEF upto
  <2>2. IsFiniteSet(upto(kept, k)) /\ Cardinality(upto(kept, k)) <= Cardinality(kept)
    BY <1>3, <2>1, FS_Subset
  <2>3. Cardinality(upto(kept, k)) \in Nat /\ Cardinality(upto(kept, k)) # 0
    BY <2>1, <2>2, FS_CardinalityType, FS_EmptySet
  <2> QED BY <1>3, <2>1, <2>2, <2>3
<1>6. ASSUME NEW i \in kept, NEW k \in kept, i < k
      PROVE  Cardinality(upto(kept, i)) # Cardinality(upto(kept, k))
  <2>1. upto(kept, i) \in SUBSET upto(kept, k) /\ k \notin upto(kept, i)
    <3>1. \A j \in kept : j \in Nat
      BY <1>1
    <3>2. ~(k <= i) /\ \A j \in kept : j <= i => j <= k
      BY <1>6, <3>1
    <3> HIDE DEF D, rank
    <3> QED BY <3>2
  <2> HIDE DEF upto
  <2> QED BY <1>5, <2>1, FS_Subset
<1>7. rank \in Injection(kept, D)
  <2>1. rank \in [kept -> D]
    BY <1>5
  <2>2. ASSUME NEW i \in kept, NEW k \in kept, i # k PROVE rank[i] # rank[k]
    <3>1. i < k \/ k < i
      BY <1>5, <2>2
    <3> HIDE DEF upto
    <3> QED BY <1>6, <3>1
  <2> HIDE DEF rank, D
  <2> QED BY <2>1, <2>2 DEF Injection, IsInjective
<1>8. rank \in Surjection(kept, D)
  <2> HIDE DEF rank, D
  <2> QED BY <1>3, <1>4, <1>7, FS_Injection
<1>9. ASSUME NEW i \in D PROVE pick(kept, i) \in kept
  <2>1. PICK k \in kept : rank[k] = i
    <3> HIDE DEF rank, D
    <3> QED BY <1>8, <1>9 DEF Surjection
  <2>2. \E m \in kept : Cardinality(upto(kept, m)) = i
    <3> HIDE DEF upto
    <3> QED BY <2>1
  <2> HIDE DEF upto
  <2> QED BY <2>2
<1> HIDE DEF pick
<1>10. \A i \in D : rows[pick(kept, i)] \in T
  BY <1>1, <1>9
<1>11. [i \in D |-> rows[pick(kept, i)]] \in Seq(T)
  BY <1>3, <1>10
<1> QED BY <1>2, <1>11

-----------------------------------------------------------------------------
(* sort.SliceStable *)

Rows == [type: {"opened", "released", "expired"}, req: Requests, phone: Phones, ts: Int]

Before(rows, i, j) ==
  rows[i].ts < rows[j].ts \/ (rows[i].ts = rows[j].ts /\ i < j)

Earlier(rows, i) == {j \in DOMAIN rows : Before(rows, j, i)}

Place(rows, k) == CHOOSE i \in DOMAIN rows : 1 + Cardinality(Earlier(rows, i)) = k

LEMMA InOrder ==
  ASSUME NEW rows
  PROVE  InTimeOrder(rows) = [k \in DOMAIN rows |-> rows[Place(rows, k)]]
BY Zenon DEF InTimeOrder, Place, Earlier, Before

\* Two rows never come to the same place ...
LEMMA EarlierSubset ==
  ASSUME NEW rows \in Seq(Rows), NEW i \in 1..Len(rows), NEW j \in 1..Len(rows), Before(rows, i, j)
  PROVE  Cardinality(Earlier(rows, i)) < Cardinality(Earlier(rows, j))
<1> DEFINE n == Len(rows)
<1>1. /\ n \in Nat /\ DOMAIN rows = 1..n /\ IsFiniteSet(1..n)
      /\ \A k \in 1..n : rows[k].ts \in Int
  <2>1. \A k \in 1..n : rows[k] \in Rows
    BY ElementOfSeq
  <2> QED BY <2>1, UpToCard, LenProperties DEF Rows
<1>2. /\ Earlier(rows, i) \in SUBSET Earlier(rows, j)
      /\ i \in Earlier(rows, j) /\ i \notin Earlier(rows, i)
  BY <1>1 DEF Earlier, Before
<1>3. IsFiniteSet(Earlier(rows, j))
  <2>1. Earlier(rows, j) \in SUBSET (1..n)
    BY <1>1 DEF Earlier
  <2> QED BY <1>1, <2>1, FS_Subset
<1>4. IsFiniteSet(Earlier(rows, i)) /\ Cardinality(Earlier(rows, i)) <= Cardinality(Earlier(rows, j))
  BY <1>2, <1>3, FS_Subset
<1>5. Cardinality(Earlier(rows, i)) # Cardinality(Earlier(rows, j))
  <2>1. Earlier(rows, i) # Earlier(rows, j)
    BY <1>2
  <2> QED BY <1>2, <1>3, <2>1, FS_Subset
<1>6. Cardinality(Earlier(rows, i)) \in Nat /\ Cardinality(Earlier(rows, j)) \in Nat
  BY <1>3, <1>4, FS_CardinalityType
<1> QED BY <1>4, <1>5, <1>6

\* ... so every place is taken.
LEMMA PlaceTaken ==
  ASSUME NEW rows \in Seq(Rows), NEW k \in 1..Len(rows)
  PROVE  /\ Place(rows, k) \in 1..Len(rows)
         /\ 1 + Cardinality(Earlier(rows, Place(rows, k))) = k
<1> DEFINE n == Len(rows)
           D == 1..n
           rank == [i \in D |-> 1 + Cardinality(Earlier(rows, i))]
<1>1. /\ n \in Nat /\ DOMAIN rows = D /\ IsFiniteSet(D) /\ Cardinality(D) = n
      /\ \A i \in D : rows[i].ts \in Int
  <2>1. \A i \in D : rows[i] \in Rows
    BY ElementOfSeq
  <2> QED BY <2>1, UpToCard, LenProperties DEF Rows
<1>2. ASSUME NEW i \in D PROVE rank[i] \in D
  <2>1. Earlier(rows, i) \in SUBSET (D \ {i})
    BY <1>1 DEF Earlier, Before
  <2>2. IsFiniteSet(D \ {i}) /\ Cardinality(D \ {i}) = n - 1
    <3> HIDE DEF D, n
    <3>1. IsFiniteSet(D) /\ Cardinality(D) = n /\ i \in D
      BY <1>1, <1>2
    <3> QED BY <3>1, FS_RemoveElement
  <2>3. IsFiniteSet(Earlier(rows, i)) /\ Cardinality(Earlier(rows, i)) <= n - 1
    BY <2>1, <2>2, FS_Subset
  <2>4. Cardinality(Earlier(rows, i)) \in Nat
    BY <2>3, FS_CardinalityType
  <2>5. 1 + Cardinality(Earlier(rows, i)) \in D
    BY <1>1, <2>3, <2>4
  <2> QED BY <2>5
<1>3. ASSUME NEW i \in D, NEW j \in D, i # j PROVE rank[i] # rank[j]
  <2>1. Before(rows, i, j) \/ Before(rows, j, i)
    BY <1>1, <1>3 DEF Before
  <2>2. /\ Cardinality(Earlier(rows, i)) \in Int /\ Cardinality(Earlier(rows, j)) \in Int
    <3>1. ASSUME NEW m \in D PROVE Cardinality(Earlier(rows, m)) \in Int
      <4>1. Earlier(rows, m) \in SUBSET D
        BY <1>1 DEF Earlier
      <4>2. Cardinality(Earlier(rows, m)) \in Nat
        BY <1>1, <4>1, FS_Subset, FS_CardinalityType
      <4> QED BY <4>2
    <3> QED BY <3>1
  <2>3. Cardinality(Earlier(rows, i)) # Cardinality(Earlier(rows, j))
    <3>1. CASE Before(rows, i, j)
      BY <2>2, <3>1, EarlierSubset
    <3>2. CASE Before(rows, j, i)
      BY <2>2, <3>2, EarlierSubset
    <3> QED BY <2>1, <3>1, <3>2
  <2> QED BY <2>2, <2>3
<1>4. rank \in Injection(D, D)
  <2>1. rank \in [D -> D]
    BY <1>2
  <2> HIDE DEF rank
  <2> QED BY <1>3, <2>1 DEF Injection, IsInjective
<1>5. rank \in Surjection(D, D)
  <2> HIDE DEF rank, D
  <2> QED BY <1>1, <1>4, FS_Injection
<1>6. \E i \in D : rank[i] = k
  <2> HIDE DEF rank
  <2> QED BY <1>5 DEF Surjection
<1>7. \E i \in DOMAIN rows : 1 + Cardinality(Earlier(rows, i)) = k
  BY <1>1, <1>6
<1>8. /\ Place(rows, k) \in DOMAIN rows
      /\ 1 + Cardinality(Earlier(rows, Place(rows, k))) = k
  BY <1>7, Zenon DEF Place
<1> QED BY <1>1, <1>8

\* Sorting keeps the type, and leaves rows that are in order where they are.
LEMMA SortType ==
  ASSUME NEW rows \in Seq(Rows)
  PROVE  InTimeOrder(rows) \in Seq(Rows) /\ Len(InTimeOrder(rows)) = Len(rows)
<1> DEFINE n == Len(rows)
<1>1. n \in Nat /\ DOMAIN rows = 1..n /\ \A i \in 1..n : rows[i] \in Rows
  BY ElementOfSeq, LenProperties
<1>2. InTimeOrder(rows) = [k \in 1..n |-> rows[Place(rows, k)]]
  BY <1>1, InOrder
<1>3. \A k \in 1..n : rows[Place(rows, k)] \in Rows
  BY <1>1, PlaceTaken
<1> HIDE DEF n
<1>4. [k \in 1..n |-> rows[Place(rows, k)]] \in [1..n -> Rows]
  BY <1>3
<1> QED BY <1>1, <1>2, <1>4 DEF n

Ordered(rows) ==
  \A i, j \in 1..Len(rows) : i <= j => rows[i].ts <= rows[j].ts

LEMMA SortOrdered ==
  ASSUME NEW rows \in Seq(Rows), Ordered(rows)
  PROVE  InTimeOrder(rows) = rows
<1> DEFINE n == Len(rows)
<1>1. n \in Nat /\ DOMAIN rows = 1..n /\ \A i \in 1..n : rows[i].ts \in Int
  <2>1. \A i \in 1..n : rows[i] \in Rows
    BY ElementOfSeq
  <2> QED BY <2>1, LenProperties DEF Rows
<1>2. ASSUME NEW i \in 1..n PROVE 1 + Cardinality(Earlier(rows, i)) = i
  <2>1. i - 1 \in Nat
    BY <1>1
  <2>2. ASSUME NEW j \in 1..n PROVE Before(rows, j, i) <=> j <= i - 1
    <3>1. rows[i].ts \in Int /\ rows[j].ts \in Int
      BY <1>1
    <3>2. /\ i <= j => rows[i].ts <= rows[j].ts
          /\ j <= i => rows[j].ts <= rows[i].ts
      BY DEF Ordered
    <3> QED BY <1>1, <3>1, <3>2 DEF Before
  <2>3. Earlier(rows, i) = 1..(i - 1)
    BY <1>1, <2>2 DEF Earlier
  <2>4. Cardinality(1..(i - 1)) = i - 1
    BY <2>1, UpToCard
  <2> QED BY <1>1, <2>3, <2>4
<1>3. ASSUME NEW k \in 1..n PROVE Place(rows, k) = k
  BY <1>2, <1>3, PlaceTaken
<1>4. InTimeOrder(rows) = [k \in 1..n |-> rows[Place(rows, k)]]
  BY <1>1, InOrder
<1>5. rows = [k \in 1..n |-> rows[k]]
  BY <1>1
<1> QED BY <1>3, <1>4, <1>5

-----------------------------------------------------------------------------
(* ReplayFromAudit's loop *)

Maps == [Phones -> Slots]

NoSlots == [p \in Phones |-> Free]

\* One iteration.
Play(m, row) ==
  IF row.type = "opened"
  THEN [m EXCEPT ![row.phone] = [req |-> row.req, opened |-> row.ts, parsed |-> TRUE]]
  ELSE IF m[row.phone] # Free /\ m[row.phone].req = row.req
  THEN [m EXCEPT ![row.phone] = Free]
  ELSE m

\* The function after of Replayed, for the first n rows.
IsPlayed(f, rows, n) == f = [i \in 0..n |-> IF i = 0 THEN NoSlots ELSE Play(f[i-1], rows[i])]

LEMMA PlayedAt ==
  ASSUME NEW f, NEW rows, NEW n \in Nat, IsPlayed(f, rows, n)
  PROVE  /\ f[0] = NoSlots
         /\ \A i \in 1..n : f[i] = Play(f[i-1], rows[i])
<1> DEFINE E(i) == IF i = 0 THEN NoSlots ELSE Play(f[i-1], rows[i])
<1>1. f = [i \in 0..n |-> E(i)]
  BY DEF IsPlayed
<1>2. \A i \in 0..n : f[i] = E(i)
  <2> HIDE DEF E
  <2> QED BY <1>1
<1>3. 0 \in 0..n /\ \A i \in 1..n : i \in 0..n /\ i # 0
  OBVIOUS
<1> QED BY <1>2, <1>3

LEMMA PlayedExists ==
  ASSUME NEW rows, NEW n \in Nat
  PROVE  \E f : IsPlayed(f, rows, n)
<1> DEFINE S == {i \in Nat : \E f : IsPlayed(f, rows, i)}
<1>1. 0 \in S
  <2>1. IsPlayed([i \in 0..0 |-> NoSlots], rows, 0)
    BY DEF IsPlayed
  <2> QED BY <2>1
<1>2. ASSUME NEW i \in 1..n, i - 1 \in S
      PROVE  i \in S
  <2>1. PICK f : IsPlayed(f, rows, i - 1)
    BY <1>2
  <2> DEFINE g == [j \in 0..i |-> IF j < i THEN f[j] ELSE Play(f[i-1], rows[i])]
  <2>2. \A j \in 0..i : g[j] = IF j = 0 THEN NoSlots ELSE Play(g[j-1], rows[j])
    <3>1. ASSUME NEW j \in 0..i, j < i
          PROVE  g[j] = IF j = 0 THEN NoSlots ELSE Play(g[j-1], rows[j])
      <4>1. f[j] = IF j = 0 THEN NoSlots ELSE Play(f[j-1], rows[j])
        BY <2>1, <3>1, PlayedAt
      <4>2. g[j] = f[j] /\ (j > 0 => g[j-1] = f[j-1])
        BY <3>1
      <4> HIDE DEF g
      <4> QED BY <4>1, <4>2
    <3>2. g[i] = Play(g[i-1], rows[i])
      OBVIOUS
    <3> HIDE DEF g
    <3> QED BY <3>1, <3>2
  <2>3. IsPlayed(g, rows, i)
    <3>1. g = [j \in 0..i |-> g[j]]
      OBVIOUS
    <3> HIDE DEF g
    <3> QED BY <2>2, <3>1 DEF IsPlayed
  <2> HIDE DEF g
  <2> QED BY <2>3
<1> HIDE DEF S
<1>3. n \in S
  BY <1>1, <1>2, UpTo
<1> QED BY <1>3 DEF S

LEMMA ReplayedPlayed ==
  ASSUME NEW rows, Len(rows) \in Nat
  PROVE  \E f : IsPlayed(f, InTimeOrder(rows), Len(rows)) /\ Replayed(rows) = f[Len(rows)]
<1> DEFINE F == CHOOSE f : IsPlayed(f, InTimeOrder(rows), Len(rows))
<1>1. IsPlayed(F, InTimeOrder(rows), Len(rows))
  BY PlayedExists, Zenon
<1>2. Replayed(rows) = F[Len(rows)]
  BY Zenon DEF Replayed, IsPlayed, Play, NoSlots
<1> QED BY <1>1, <1>2

\* The first n rows alone decide what the map is after them.
LEMMA PlayedAgrees ==
  ASSUME NEW n \in Nat, NEW m \in Nat, NEW k \in Nat, n <= m, n <= k,
         NEW rows, NEW others, NEW f, NEW g, IsPlayed(f, rows, m), IsPlayed(g, others, k),
         \A i \in 1..n : rows[i] = others[i]
  PROVE  f[n] = g[n]
<1> DEFINE S == {i \in 0..n : f[i] = g[i]}
<1>1. 0 \in S
  BY PlayedAt
<1>2. ASSUME NEW i \in 1..n, i - 1 \in S
      PROVE  i \in S
  <2>1. f[i] = Play(f[i-1], rows[i]) /\ g[i] = Play(g[i-1], others[i])
    BY PlayedAt
  <2> QED BY <1>2, <2>1
<1> HIDE DEF S
<1>3. n \in S
  BY <1>1, <1>2, UpTo
<1> QED BY <1>3 DEF S

\* A row makes a map of slots a map of slots.
LEMMA PlayType ==
  ASSUME NEW m \in Maps, NEW row \in Rows
  PROVE  Play(m, row) \in Maps
<1>1. row.phone \in Phones /\ [req |-> row.req, opened |-> row.ts, parsed |-> TRUE] \in Slots
  BY DEF Rows, Slots, Entries
<1>2. Free \in Slots
  BY DEF Slots
<1> QED BY <1>1, <1>2 DEF Play, Maps

\* Whatever the order of the rows, replay ends with a map of slots.
LEMMA ReplayedType ==
  ASSUME NEW rows \in Seq(Rows)
  PROVE  Replayed(rows) \in Maps
<1> DEFINE n == Len(rows)
           sorted == InTimeOrder(rows)
<1>1. n \in Nat /\ \A i \in 1..n : sorted[i] \in Rows
  <2>1. n \in Nat /\ sorted \in Seq(Rows) /\ Len(sorted) = n
    BY SortType
  <2> QED BY <2>1, ElementOfSeq
<1>2. PICK f : IsPlayed(f, sorted, n) /\ Replayed(rows) = f[n]
  BY <1>1, ReplayedPlayed
<1> HIDE DEF n, sorted
<1>3. /\ f[0] = NoSlots
      /\ \A i \in 1..n : f[i] = Play(f[i-1], sorted[i])
  BY <1>1, <1>2, PlayedAt
<1>4. NoSlots \in Maps
  BY DEF NoSlots, Maps, Slots
<1> DEFINE S == {i \in 0..n : f[i] \in Maps}
<1>5. 0 \in S
  BY <1>1, <1>3, <1>4
<1>6. \A i \in 1..n : i - 1 \in S => i \in S
  BY <1>1, <1>3, PlayType
<1> HIDE DEF S
<1>7. \A i \in 0..n : i \in S
  BY <1>1, <1>5, <1>6, UpTo
<1>8. n \in S
  BY <1>1, <1>7
<1> QED BY <1>2, <1>8 DEF S

\* Rows that were written in order are played in the order of the file.
LEMMA ReplayedEmpty == Replayed(<< >>) = NoSlots
<1>1. Len(<< >>) = 0
  OBVIOUS
<1>2. PICK f : IsPlayed(f, InTimeOrder(<< >>), 0) /\ Replayed(<< >>) = f[0]
  BY <1>1, ReplayedPlayed
<1> QED BY <1>2, PlayedAt

LEMMA ReplayedAppend ==
  ASSUME NEW rows \in Seq(Rows), NEW row \in Rows, Ordered(Append(rows, row))
  PROVE  Replayed(Append(rows, row)) = Play(Replayed(rows), row)
<1> DEFINE all == Append(rows, row)
           n == Len(rows)
<1>1. /\ n \in Nat /\ all \in Seq(Rows) /\ Len(all) = n + 1 /\ all[n + 1] = row
      /\ \A i \in 1..n : all[i] = rows[i]
  BY AppendProperties, LenProperties
<1>2. Ordered(rows)
  BY <1>1 DEF Ordered
<1>3. InTimeOrder(rows) = rows /\ InTimeOrder(all) = all
  BY <1>1, <1>2, SortOrdered
<1> HIDE DEF all, n
<1>4. PICK f : IsPlayed(f, rows, n) /\ Replayed(rows) = f[n]
  BY <1>1, <1>3, ReplayedPlayed DEF n
<1>5. PICK g : IsPlayed(g, all, n + 1) /\ Replayed(all) = g[n + 1]
  <2>1. Len(all) \in Nat
    BY <1>1
  <2>2. \E g : IsPlayed(g, InTimeOrder(all), Len(all)) /\ Replayed(all) = g[Len(all)]
    BY <2>1, ReplayedPlayed, Zenon
  <2> QED BY <1>1, <1>3, <2>2
<1>6. f[n] = g[n]
  BY <1>1, <1>4, <1>5, PlayedAgrees
<1>7. g[n + 1] = Play(g[n], row)
  BY <1>1, <1>5, PlayedAt
<1> QED BY <1>4, <1>5, <1>6, <1>7 DEF all

-----------------------------------------------------------------------------
(***************************************************************************)
(* The types, which hold throughout.  A restart may find the rows in any   *)
(* order of time, and any of them missing.                                 *)
(***************************************************************************)
PendingTypes ==
  /\ items \in Maps /\ audit \in Seq(Rows)
  /\ now \in Nat /\ back \in Nat /\ ahead \in Nat /\ lost \in Nat

\* What the operations on the set do to it.
Kept ==
  /\ items' \in Maps /\ audit' \in Seq(Rows)
  /\ lost' \in Nat /\ lost <= lost' /\ (lost' = lost \/ lost' <= MaxLost)

LEMMA RowType ==
  ASSUME PendingTypes, NEW p \in Phones
  PROVE  /\ \A t \in {"opened", "released", "expired"}, r \in Requests : Row(t, r, p) \in Rows
         /\ Held(p) => items[p] \in Entries /\ items[p].req \in Requests /\ Expired(p) \in Rows
<1>1. Wall \in Int
  BY DEF PendingTypes, Wall
<1>2. \A t \in {"opened", "released", "expired"}, r \in Requests : Row(t, r, p) \in Rows
  BY <1>1 DEF Row, Rows
<1>3. Held(p) => items[p] \in Entries
  BY DEF PendingTypes, Maps, Slots, Held
<1>4. Held(p) => items[p].req \in Requests
  BY <1>3 DEF Entries
<1> QED BY <1>2, <1>3, <1>4 DEF Expired

LEMMA EmitKeeps ==
  ASSUME PendingTypes, NEW rows \in Seq(Rows), Emit(rows)
  PROVE  audit' \in Seq(Rows) /\ lost' \in Nat /\ lost <= lost' /\ lost' <= MaxLost
<1>1. Len(rows) \in Nat /\ DOMAIN rows = 1..Len(rows)
  BY LenProperties
<1>2. lost' \in Nat /\ lost <= lost'
  BY <1>1, EmitLoses DEF PendingTypes
<1>3. audit' \in Seq(Rows)
  BY EmitType DEF PendingTypes
<1>4. lost' <= MaxLost
  BY DEF Emit
<1> QED BY <1>2, <1>3, <1>4

LEMMA FreeKeeps ==
  ASSUME PendingTypes, NEW p \in Phones, NEW row \in Rows,
         items' = [items EXCEPT ![p] = Free], Emit(<<row>>)
  PROVE  Kept
<1>1. <<row>> \in Seq(Rows)
  OBVIOUS
<1>2. items' \in Maps
  BY DEF PendingTypes, Maps, Slots
<1> QED BY <1>1, <1>2, EmitKeeps DEF Kept

LEMMA UnchangedKeeps ==
  ASSUME PendingTypes, UNCHANGED <<items, audit, lost>>
  PROVE  Kept
BY DEF PendingTypes, Kept

LEMMA OpenKeeps ==
  ASSUME PendingTypes, NEW p \in Phones, NEW r \in Requests, OpenPending(p, r)
  PROVE  Kept
<1>1. items' \in Maps
  <2>1. [req |-> r, opened |-> now, parsed |-> FALSE] \in Slots
    BY DEF PendingTypes, Slots, Entries
  <2> QED BY <2>1 DEF OpenPending, PendingTypes, Maps
<1> DEFINE rows == (IF Held(p) THEN <<Expired(p)>> ELSE << >>) \o <<Row("opened", r, p)>>
<1>2. rows \in Seq(Rows)
  <2>1. Row("opened", r, p) \in Rows /\ (Held(p) => Expired(p) \in Rows)
    BY RowType
  <2> QED BY <2>1
<1>3. Emit(rows)
  BY DEF OpenPending
<1> HIDE DEF rows
<1> QED BY <1>1, <1>2, <1>3, EmitKeeps DEF Kept

LEMMA ResolveKeeps ==
  ASSUME PendingTypes, NEW p \in Phones, Resolve(p)
  PROVE  Kept
<1>1. CASE Held(p) /\ ~Busy(p)
  BY <1>1, RowType, FreeKeeps DEF Resolve
<1>2. CASE ~(Held(p) /\ ~Busy(p))
  BY <1>2, UnchangedKeeps DEF Resolve
<1> QED BY <1>1, <1>2

LEMMA ReleaseKeeps ==
  ASSUME PendingTypes, NEW p \in Phones, Release(p)
  PROVE  Kept
<1>1. CASE Held(p)
  <2>1. Row("released", items[p].req, p) \in Rows
    BY <1>1, RowType
  <2> QED BY <1>1, <2>1, FreeKeeps DEF Release
<1>2. CASE ~Held(p)
  BY <1>2, UnchangedKeeps DEF Release
<1> QED BY <1>1, <1>2

\* ExpireDue writes one row for each slot that is overdue.
Due == {p \in Phones : Held(p) /\ ~Busy(p)}

LEMMA DueRows ==
  ASSUME PendingTypes, ExpireDue
  PROVE  \E n \in Nat : \E order \in [1..n -> Due] :
            /\ \A i, j \in 1..n : i # j => order[i] # order[j]
            /\ \A p \in Due : \E i \in 1..n : order[i] = p
            /\ items' = [p \in Phones |-> IF p \in Due THEN Free ELSE items[p]]
            /\ [i \in 1..n |-> Expired(order[i])] \in Seq(Rows)
            /\ Emit([i \in 1..n |-> Expired(order[i])])
<1> DEFINE n == Cardinality(Due)
           order == CHOOSE s \in [1..n -> Due] : \A i, j \in DOMAIN s : i # j => s[i] # s[j]
<1>1. IsFiniteSet(Due) /\ n \in Nat /\ ExistsBijection(1..n, Due)
  <2>1. Due \in SUBSET Phones
    BY DEF Due
  <2>2. IsFiniteSet(Due)
    BY <2>1, FS_Subset
  <2> QED BY <2>2, FS_CardinalityType
<1>2. \E s \in [1..n -> Due] : \A i, j \in DOMAIN s : i # j => s[i] # s[j]
  <2>1. PICK s : s \in Bijection(1..n, Due)
    BY <1>1 DEF ExistsBijection
  <2>2. s \in [1..n -> Due] /\ \A i, j \in 1..n : s[i] = s[j] => i = j
    BY <2>1 DEF Bijection, Injection, IsInjective
  <2> QED BY <2>2
<1>3. order \in [1..n -> Due] /\ \A i, j \in DOMAIN order : i # j => order[i] # order[j]
  BY <1>2, Zenon
<1>4. /\ items' = [p \in Phones |-> IF p \in Due THEN Free ELSE items[p]]
      /\ Emit([i \in DOMAIN order |-> Expired(order[i])])
  BY Zenon DEF ExpireDue, Due
<1> HIDE DEF order, n
<1>5. DOMAIN order = 1..n
  BY <1>3
<1>6. order \in Surjection(1..n, Due)
  <2>1. order \in Injection(1..n, Due)
    BY <1>3, <1>5 DEF Injection, IsInjective
  <2>2. Cardinality(1..n) = Cardinality(Due)
    BY <1>1, UpToCard DEF n
  <2> QED BY <1>1, <2>1, <2>2, FS_Injection
<1>7. \A p \in Due : \E i \in 1..n : order[i] = p
  BY <1>6 DEF Surjection
<1>8. \A i \in 1..n : Expired(order[i]) \in Rows
  <2>1. \A p \in Due : Expired(p) \in Rows
    BY RowType DEF Due
  <2> QED BY <1>3, <2>1
<1>9. [i \in 1..n |-> Expired(order[i])] \in Seq(Rows)
  BY <1>1, <1>8
<1>10. \A i, j \in 1..n : i # j => order[i] # order[j]
  BY <1>3, <1>5
<1>11. Emit([i \in 1..n |-> Expired(order[i])])
  BY <1>4, <1>5
<1> QED BY <1>1, <1>3, <1>4, <1>7, <1>9, <1>10, <1>11, Zenon

LEMMA ExpireKeeps ==
  ASSUME PendingTypes, ExpireDue
  PROVE  Kept
<1>1. PICK n \in Nat : \E order \in [1..n -> Due] :
            /\ \A i, j \in 1..n : i # j => order[i] # order[j]
            /\ \A p \in Due : \E i \in 1..n : order[i] = p
            /\ items' = [p \in Phones |-> IF p \in Due THEN Free ELSE items[p]]
            /\ [i \in 1..n |-> Expired(order[i])] \in Seq(Rows)
            /\ Emit([i \in 1..n |-> Expired(order[i])])
  BY DueRows, Zenon
<1>2. PICK order \in [1..n -> Due] :
            /\ items' = [p \in Phones |-> IF p \in Due THEN Free ELSE items[p]]
            /\ [i \in 1..n |-> Expired(order[i])] \in Seq(Rows)
            /\ Emit([i \in 1..n |-> Expired(order[i])])
  BY <1>1
<1>3. items' \in Maps
  BY <1>2 DEF PendingTypes, Maps, Slots
<1> QED BY <1>2, <1>3, EmitKeeps DEF Kept

LEMMA ReplayKeeps ==
  ASSUME PendingTypes, ReplayFromAudit
  PROVE  Kept
<1>1. Replayed(audit) \in Maps
  BY ReplayedType DEF PendingTypes
<1>2. [p \in Phones |-> Free] \in Maps
  BY DEF Maps, Slots
<1> QED BY <1>1, <1>2 DEF ReplayFromAudit, PendingTypes, Kept

-----------------------------------------------------------------------------
(***************************************************************************)
(* The invariant behind AuditTellsSlots.  While no row is lost and the     *)
(* wall clock only goes forward the file is in order of time, so replay    *)
(* goes through it in the order in which it was written, and every row     *)
(* does to the rebuilt map what its operation did to the set.  Unless the  *)
(* clock was set ahead, the rebuilt slots are also as old as the slots.    *)
(***************************************************************************)
Same(m, k) == \A p \in Phones : SameSlot(m[p], k[p])

InOrderTo(a, t) == a \in Seq(Rows) /\ Ordered(a) /\ \A i \in 1..Len(a) : a[i].ts <= t

\* The rebuilt slots k are as old as the slots m.
Dated(m, k) == \A p \in Phones :
  m[p] # Free => m[p].opened >= 0 /\ k[p].opened = m[p].opened

Tells(m, a) ==
  /\ InOrderTo(a, Wall)
  /\ Same(m, Replayed(a)) /\ (ahead = 0 => Dated(m, Replayed(a)))

PendingInv ==
  /\ PendingTypes
  /\ lost = 0 /\ back = 0 => Tells(items, audit)

LEMMA NextRow ==
  ASSUME NEW a, Wall \in Int, InOrderTo(a, Wall), NEW row \in Rows, row.ts = Wall
  PROVE  /\ InOrderTo(Append(a, row), Wall)
         /\ Replayed(Append(a, row)) = Play(Replayed(a), row)
<1> DEFINE n == Len(a)
           b == Append(a, row)
<1>1. /\ a \in Seq(Rows) /\ n \in Nat /\ b \in Seq(Rows) /\ Len(b) = n + 1
      /\ b[n + 1] = row /\ \A i \in 1..n : b[i] = a[i]
  BY AppendProperties, LenProperties DEF InOrderTo
<1>2. \A i \in 1..n : b[i].ts <= Wall
  BY <1>1 DEF InOrderTo
<1> HIDE DEF b
<1>3. \A i \in 1..(n + 1) : b[i].ts <= Wall
  BY <1>1, <1>2
<1>4. Ordered(b)
  <2> SUFFICES ASSUME NEW i \in 1..(n + 1), NEW j \in 1..(n + 1), i <= j
               PROVE  b[i].ts <= b[j].ts
    BY <1>1 DEF Ordered
  <2>1. CASE j = n + 1
    BY <1>1, <1>3, <2>1
  <2>2. CASE j # n + 1
    <3>1. i \in 1..n /\ j \in 1..n
      BY <1>1, <2>2
    <3> QED BY <1>1, <3>1 DEF InOrderTo, Ordered
  <2> QED BY <2>1, <2>2
<1>5. InOrderTo(b, Wall)
  BY <1>1, <1>3, <1>4 DEF InOrderTo
<1> QED BY <1>1, <1>4, <1>5, ReplayedAppend DEF b

\* A row "opened" ...
LEMMA OpenedRow ==
  ASSUME NEW m \in Maps, NEW a, Wall \in Int, Tells(m, a), NEW row \in Rows, row.ts = Wall,
         row.type = "opened", NEW e \in Entries, e.req = row.req,
         ahead = 0 => e.opened = Wall /\ e.opened >= 0
  PROVE  Tells([m EXCEPT ![row.phone] = e], Append(a, row))
<1> DEFINE k == Replayed(a)
           s == [req |-> row.req, opened |-> row.ts, parsed |-> TRUE]
<1>1. k \in Maps /\ Same(m, k) /\ (ahead = 0 => Dated(m, k))
  BY ReplayedType DEF Tells, InOrderTo
<1>2. s \in Entries /\ s.req = row.req /\ row.phone \in Phones
  BY DEF Rows, Entries
<1>3. InOrderTo(Append(a, row), Wall) /\ Replayed(Append(a, row)) = Play(k, row)
  BY NextRow DEF Tells
<1> HIDE DEF k, s
<1>4. Play(k, row) = [k EXCEPT ![row.phone] = s]
  BY DEF Play, s
<1>5. e # Free /\ s # Free
  BY <1>2
<1>6. Same([m EXCEPT ![row.phone] = e], [k EXCEPT ![row.phone] = s])
  BY <1>1, <1>2, <1>5 DEF Same, SameSlot, Maps
<1>7. s.opened = Wall
  BY DEF s
<1>8. ahead = 0 => Dated([m EXCEPT ![row.phone] = e], [k EXCEPT ![row.phone] = s])
  BY <1>1, <1>2, <1>7 DEF Dated, Maps
<1> QED BY <1>3, <1>4, <1>6, <1>8 DEF Tells

\* ... and a row "released" or "expired".
LEMMA FreedRow ==
  ASSUME NEW m \in Maps, NEW a, Wall \in Int, Tells(m, a), NEW row \in Rows, row.ts = Wall,
         row.type # "opened", m[row.phone] # Free, m[row.phone].req = row.req
  PROVE  Tells([m EXCEPT ![row.phone] = Free], Append(a, row))
<1> DEFINE k == Replayed(a)
<1>1. k \in Maps /\ Same(m, k) /\ (ahead = 0 => Dated(m, k))
  BY ReplayedType DEF Tells, InOrderTo
<1>2. row.phone \in Phones
  BY DEF Rows
<1>3. InOrderTo(Append(a, row), Wall) /\ Replayed(Append(a, row)) = Play(k, row)
  BY NextRow DEF Tells
<1> HIDE DEF k
<1>4. k[row.phone] # Free /\ k[row.phone].req = row.req
  BY <1>1, <1>2 DEF Same, SameSlot
<1>5. Play(k, row) = [k EXCEPT ![row.phone] = Free]
  BY <1>4 DEF Play
<1>6. Same([m EXCEPT ![row.phone] = Free], [k EXCEPT ![row.phone] = Free])
  BY <1>1, <1>2 DEF Same, SameSlot, Maps
<1>7. ahead = 0 => Dated([m EXCEPT ![row.phone] = Free], [k EXCEPT ![row.phone] = Free])
  BY <1>1, <1>2 DEF Dated, Maps
<1> QED BY <1>3, <1>5, <1>6, <1>7 DEF Tells

LEMMA WallInt == PendingTypes => Wall \in Int
BY DEF PendingTypes, Wall

\* Giving up a slot.
LEMMA FreeTells ==
  ASSUME PendingTypes, lost = 0, lost' = 0, back = 0, Tells(items, audit),
         NEW p \in Phones, Held(p), NEW t \in {"released", "expired"},
         items' = [items EXCEPT ![p] = Free], Emit(<<Row(t, items[p].req, p)>>)
  PROVE  Tells(items', audit')
<1> DEFINE row == Row(t, items[p].req, p)
<1>1. /\ row \in Rows /\ row.ts = Wall /\ row.type # "opened"
      /\ row.phone = p /\ row.req = items[p].req
  <2>1. row \in Rows
    BY RowType
  <2> QED BY <2>1 DEF Row
<1> HIDE DEF row
<1>2. <<row>> \in Seq(Rows) /\ Emit(<<row>>)
  BY <1>1 DEF row
<1>3. audit' = audit \o <<row>>
  BY <1>2, EmitAll
<1>4. audit' = Append(audit, row)
  BY <1>1, <1>3 DEF PendingTypes
<1> QED BY <1>1, <1>4, WallInt, FreedRow DEF PendingTypes, Held

\* Claiming one, and expiring the entry that is overwritten.
LEMMA OpenTells ==
  ASSUME PendingTypes, lost = 0, lost' = 0, back = 0, Tells(items, audit),
         NEW p \in Phones, NEW r \in Requests, OpenPending(p, r)
  PROVE  Tells(items', audit')
<1> DEFINE new == Row("opened", r, p)
           e == [req |-> r, opened |-> now, parsed |-> FALSE]
<1>1. /\ new \in Rows /\ new.ts = Wall /\ new.type = "opened"
      /\ new.phone = p /\ new.req = r
  <2>1. new \in Rows
    BY RowType
  <2> QED BY <2>1 DEF Row
<1>2. e \in Entries /\ e.req = r /\ (ahead = 0 => e.opened = Wall /\ e.opened >= 0)
  BY DEF Entries, PendingTypes, Wall
<1>3. items' = [items EXCEPT ![p] = e]
  BY DEF OpenPending
<1>4. CASE ~Held(p)
  <2>1. Emit(<< >> \o <<new>>)
    BY <1>4 DEF OpenPending
  <2> HIDE DEF new, e
  <2>2. << >> \o <<new>> \in Seq(Rows)
    BY <1>1
  <2>3. audit' = audit \o (<< >> \o <<new>>)
    BY <2>1, <2>2, EmitAll
  <2>4. audit' = Append(audit, new)
    BY <1>1, <2>3 DEF PendingTypes
  <2> QED BY <1>1, <1>2, <1>3, <2>4, WallInt, OpenedRow DEF PendingTypes
<1>5. CASE Held(p)
  <2> DEFINE old == Expired(p)
             m == [items EXCEPT ![p] = Free]
  <2>1. /\ old \in Rows /\ old.ts = Wall /\ old.type # "opened"
        /\ old.phone = p /\ old.req = items[p].req
    <3>1. old \in Rows
      BY <1>5, RowType
    <3> QED BY <3>1 DEF Expired, Row
  <2>2. Emit(<<old>> \o <<new>>)
    BY <1>5 DEF OpenPending
  <2> HIDE DEF new, old, e
  <2>3. <<old>> \o <<new>> \in Seq(Rows)
    BY <1>1, <2>1
  <2>4. audit' = audit \o (<<old>> \o <<new>>)
    BY <2>2, <2>3, EmitAll
  <2>5. audit' = Append(Append(audit, old), new)
    BY <1>1, <2>1, <2>4 DEF PendingTypes
  <2>6. Tells(m, Append(audit, old))
    BY <1>5, <2>1, WallInt, FreedRow DEF PendingTypes, Held
  <2>7. m \in Maps /\ [m EXCEPT ![p] = e] = [items EXCEPT ![p] = e]
    BY DEF PendingTypes, Maps, Slots
  <2> HIDE DEF m
  <2>8. Tells([m EXCEPT ![new.phone] = e], Append(Append(audit, old), new))
    BY <1>1, <1>2, <2>6, <2>7, WallInt, OpenedRow DEF PendingTypes
  <2> QED BY <1>1, <1>3, <2>5, <2>7, <2>8
<1> QED BY <1>4, <1>5

\* Expiring all that are overdue, one row after the other.
LEMMA ExpireTells ==
  ASSUME PendingTypes, lost = 0, lost' = 0, back = 0, Tells(items, audit), ExpireDue
  PROVE  Tells(items', audit')
<1>1. PICK n \in Nat : \E order \in [1..n -> Due] :
            /\ \A i, j \in 1..n : i # j => order[i] # order[j]
            /\ \A p \in Due : \E i \in 1..n : order[i] = p
            /\ items' = [p \in Phones |-> IF p \in Due THEN Free ELSE items[p]]
            /\ [i \in 1..n |-> Expired(order[i])] \in Seq(Rows)
            /\ Emit([i \in 1..n |-> Expired(order[i])])
  BY DueRows
<1>2. PICK order \in [1..n -> Due] :
            /\ \A i, j \in 1..n : i # j => order[i] # order[j]
            /\ \A p \in Due : \E i \in 1..n : order[i] = p
            /\ items' = [p \in Phones |-> IF p \in Due THEN Free ELSE items[p]]
            /\ [i \in 1..n |-> Expired(order[i])] \in Seq(Rows)
            /\ Emit([i \in 1..n |-> Expired(order[i])])
  BY <1>1
<1> DEFINE rows == [i \in 1..n |-> Expired(order[i])]
           Gone(p, k) == \E i \in 1..k : order[i] = p
           map(k) == [p \in Phones |-> IF Gone(p, k) THEN Free ELSE items[p]]
           log(k) == audit \o SubSeq(rows, 1, k)
           S == {k \in 0..n : Tells(map(k), log(k))}
<1>3. rows \in Seq(Rows) /\ Len(rows) = n /\ audit' = audit \o rows
  <2>1. rows \in Seq(Rows) /\ Emit(rows) /\ DOMAIN rows = 1..n
    BY <1>2
  <2> HIDE DEF rows
  <2> QED BY <2>1, EmitAll
<1>4. ASSUME NEW i \in 1..n
      PROVE  /\ order[i] \in Phones /\ Held(order[i]) /\ rows[i] \in Rows
             /\ rows[i].ts = Wall /\ rows[i].type # "opened"
             /\ rows[i].phone = order[i] /\ rows[i].req = items[order[i]].req
  <2>1. order[i] \in Phones /\ Held(order[i]) /\ rows[i] = Expired(order[i])
    BY <1>2 DEF Due
  <2>2. rows[i] \in Rows
    BY <2>1, RowType
  <2> HIDE DEF rows
  <2> QED BY <2>1, <2>2 DEF Expired, Row
<1>5. audit \in Seq(Rows) /\ items \in Maps /\ Wall \in Int
  BY DEF PendingTypes, Wall
<1> HIDE DEF rows
<1>6. 0 \in S
  <2>1. log(0) = audit
    BY <1>3, <1>5
  <2>2. map(0) = items
    <3>1. \A p : ~Gone(p, 0)
      OBVIOUS
    <3> HIDE DEF Gone
    <3> QED BY <1>5, <3>1 DEF Maps
  <2> HIDE DEF map, log
  <2>3. Tells(map(0), log(0))
    BY <2>1, <2>2
  <2> QED BY <2>3
<1>7. ASSUME NEW k \in 1..n, k - 1 \in S
      PROVE  k \in S
  <2>1. /\ SubSeq(rows, 1, k) = Append(SubSeq(rows, 1, k - 1), rows[k])
        /\ SubSeq(rows, 1, k - 1) \in Seq(Rows) /\ rows[k] \in Rows
    BY <1>3, <1>4
  <2>2. log(k) = Append(log(k - 1), rows[k])
    <3> DEFINE before == SubSeq(rows, 1, k - 1)
    <3>1. before \in Seq(Rows) /\ SubSeq(rows, 1, k) = Append(before, rows[k])
      BY <2>1
    <3> HIDE DEF before
    <3>2. audit \o Append(before, rows[k]) = Append(audit \o before, rows[k])
      BY <1>5, <2>1, <3>1
    <3> QED BY <3>1, <3>2 DEF before
  <2>3. \A p \in Phones : Gone(p, k) <=> Gone(p, k - 1) \/ p = order[k]
    OBVIOUS
  <2>4. ~Gone(order[k], k - 1)
    BY <1>2
  <2>5. order[k] \in Phones /\ Held(order[k])
    BY <1>4
  <2> HIDE DEF Gone
  <2>6. map(k - 1) \in Maps
    BY <1>5 DEF Maps, Slots
  <2>7. map(k) = [map(k - 1) EXCEPT ![order[k]] = Free]
    BY <2>3, <2>5
  <2>8. map(k - 1)[order[k]] = items[order[k]]
    BY <2>4, <2>5
  <2>9. Tells(map(k - 1), log(k - 1))
    BY <1>7
  <2> HIDE DEF map, log
  <2>10. Tells([map(k - 1) EXCEPT ![rows[k].phone] = Free], Append(log(k - 1), rows[k]))
    <3>1. /\ rows[k] \in Rows /\ rows[k].ts = Wall /\ rows[k].type # "opened"
          /\ map(k - 1)[rows[k].phone] # Free /\ map(k - 1)[rows[k].phone].req = rows[k].req
      BY <1>4, <2>5, <2>8 DEF Held
    <3> QED BY <1>5, <2>6, <2>9, <3>1, FreedRow
  <2>11. Tells(map(k), log(k))
    BY <1>4, <2>2, <2>7, <2>10
  <2> QED BY <2>11
<1>8. n \in S
  <2> HIDE DEF S
  <2> QED BY <1>6, <1>7, UpTo
<1>9. log(n) = audit'
  <2>1. SubSeq(rows, 1, n) = rows
    BY <1>3
  <2> QED BY <1>3, <2>1
<1>10. map(n) = items'
  <2>1. \A p \in Phones : Gone(p, n) <=> p \in Due
    BY <1>2
  <2> HIDE DEF Gone
  <2> QED BY <1>2, <2>1
<1> QED BY <1>8, <1>9, <1>10

-----------------------------------------------------------------------------
(* The theorems *)

LEMMA PendingInitial == PendingInit => PendingInv
<1> SUFFICES ASSUME PendingInit PROVE PendingInv
  OBVIOUS
<1>1. /\ items = NoSlots /\ audit = << >> /\ now = 0 /\ back = 0 /\ ahead = 0 /\ lost = 0
  BY DEF PendingInit, NoSlots
<1>2. NoSlots \in Maps
  BY DEF NoSlots, Maps, Slots
<1>3. InOrderTo(audit, Wall)
  BY <1>1 DEF InOrderTo, Ordered
<1>4. Same(items, Replayed(audit))
  BY <1>1, ReplayedEmpty DEF Same, SameSlot
<1>5. Dated(items, Replayed(audit))
  BY <1>1, ReplayedEmpty DEF Dated, NoSlots
<1> QED BY <1>1, <1>2, <1>3, <1>4, <1>5 DEF PendingInv, PendingTypes, Tells

\* Every call, and a restart, keeps the invariant.
LEMMA PendingStep ==
  ASSUME PendingInv, [SetNext]_pendingVars
  PROVE  PendingInv' /\ lost <= lost'
<1>1. PendingTypes
  BY DEF PendingInv
<1>2. ASSUME Kept, UNCHANGED clockVars,
             lost = 0 /\ lost' = 0 /\ back = 0 => Tells(items', audit')
      PROVE  PendingInv' /\ lost <= lost'
  <2>1. PendingTypes' /\ lost <= lost'
    BY <1>1, <1>2 DEF PendingTypes, Kept, clockVars
  <2>2. lost' = 0 => lost = 0
    BY <1>1, <2>1 DEF PendingTypes
  <2>3. Tells(items', audit') => Tells(items, audit)'
    BY <1>2 DEF Tells, Wall, clockVars
  <2> QED BY <1>2, <2>1, <2>2, <2>3 DEF PendingInv, clockVars
<1>3. ASSUME NEW p \in Phones, NEW r \in Requests, OpenPending(p, r), UNCHANGED clockVars
      PROVE  PendingInv' /\ lost <= lost'
  BY <1>1, <1>2, <1>3, OpenKeeps, OpenTells DEF PendingInv
<1>4. ASSUME NEW p \in Phones, Resolve(p), UNCHANGED clockVars
      PROVE  PendingInv' /\ lost <= lost'
  <2>1. CASE Held(p) /\ ~Busy(p)
    <3>1. items' = [items EXCEPT ![p] = Free] /\ Emit(<<Row("expired", items[p].req, p)>>)
      BY <1>4, <2>1 DEF Resolve, Expired
    <3>2. lost = 0 /\ lost' = 0 /\ back = 0 => Tells(items', audit')
      BY <1>1, <2>1, <3>1, FreeTells DEF PendingInv
    <3> QED BY <1>1, <1>2, <1>4, <3>2, ResolveKeeps
  <2>2. CASE ~(Held(p) /\ ~Busy(p))
    <3>1. UNCHANGED <<items, audit, lost>>
      BY <1>4, <2>2 DEF Resolve
    <3> QED BY <1>1, <1>2, <1>4, <3>1, UnchangedKeeps DEF PendingInv
  <2> QED BY <2>1, <2>2
<1>5. ASSUME NEW p \in Phones, Release(p), UNCHANGED clockVars
      PROVE  PendingInv' /\ lost <= lost'
  <2>1. CASE Held(p)
    <3>1. items' = [items EXCEPT ![p] = Free] /\ Emit(<<Row("released", items[p].req, p)>>)
      BY <1>5, <2>1 DEF Release
    <3>2. lost = 0 /\ lost' = 0 /\ back = 0 => Tells(items', audit')
      BY <1>1, <2>1, <3>1, FreeTells DEF PendingInv
    <3> QED BY <1>1, <1>2, <1>5, <3>2, ReleaseKeeps
  <2>2. CASE ~Held(p)
    <3>1. UNCHANGED <<items, audit, lost>>
      BY <1>5, <2>2 DEF Release
    <3> QED BY <1>1, <1>2, <1>5, <3>1, UnchangedKeeps DEF PendingInv
  <2> QED BY <2>1, <2>2
<1>6. CASE ExpireDue /\ UNCHANGED clockVars
  BY <1>1, <1>2, <1>6, ExpireKeeps, ExpireTells DEF PendingInv
<1>7. CASE ReplayFromAudit /\ UNCHANGED clockVars
  <2>1. lost' = 0 /\ lost = 0 => items' = Replayed(audit) /\ audit' = audit
    BY <1>7 DEF ReplayFromAudit
  <2>2. lost = 0 /\ lost' = 0 /\ back = 0 => Tells(items', audit')
    BY <2>1 DEF PendingInv, Tells, Same, SameSlot, Dated
  <2> QED BY <1>1, <1>2, <1>7, <2>2, ReplayKeeps
<1>8. CASE Tick \/ SetAhead
  <2>1. /\ UNCHANGED <<items, audit, back, lost>>
        /\ \/ now' = now + 1 /\ ahead' = ahead
           \/ ahead' = ahead + 1 /\ now' = now
    BY <1>8 DEF Tick, SetAhead
  <2>2. PendingTypes' /\ lost <= lost'
    BY <1>1, <2>1 DEF PendingTypes
  <2>3. Wall \in Int /\ Wall' \in Int /\ Wall <= Wall' /\ (ahead' = 0 => ahead = 0)
    BY <1>1, <2>1 DEF PendingTypes, Wall
  <2>4. InOrderTo(audit, Wall) => InOrderTo(audit, Wall')
    <3> SUFFICES ASSUME InOrderTo(audit, Wall), NEW i \in 1..Len(audit)
                 PROVE  audit[i].ts <= Wall'
      BY DEF InOrderTo
    <3>1. audit[i] \in Rows
      BY ElementOfSeq DEF InOrderTo
    <3>2. audit[i].ts \in Int /\ audit[i].ts <= Wall
      BY <3>1 DEF Rows, InOrderTo
    <3> QED BY <2>3, <3>2
  <2>5. Tells(items, audit) => Tells(items, audit)'
    BY <2>1, <2>3, <2>4 DEF Tells
  <2> QED BY <2>1, <2>2, <2>5 DEF PendingInv
<1>9. CASE SetBack
  <2>1. back' = back + 1 /\ UNCHANGED <<items, audit, now, ahead, lost>>
    BY <1>9 DEF SetBack
  <2>2. PendingTypes' /\ lost <= lost' /\ back' # 0
    BY <1>1, <2>1 DEF PendingTypes
  <2> QED BY <2>2 DEF PendingInv
<1>10. CASE UNCHANGED pendingVars
  <2>1. UNCHANGED <<items, audit, lost, now, back, ahead>>
    BY <1>10 DEF pendingVars
  <2> QED BY <1>1, <1>2, <2>1, UnchangedKeeps DEF PendingInv, clockVars
<1> QED
  BY <1>3, <1>4, <1>5, <1>6, <1>7, <1>8, <1>9, <1>10 DEF SetNext, Calls, RestartOrClock

\* The bound on the audit log is one of the runs only.
LEMMA BoundedSet == PendingSpec => SetSpec
<1>1. [PendingNext]_pendingVars => [SetNext]_pendingVars
  BY DEF PendingNext, SetNext
<1> QED BY <1>1, PTL DEF PendingSpec, SetSpec

\* Whatever calls were made, a restart at any moment rebuilds the holder of every
\* phone, provided no row was lost and the wall clock was never set back (emit,
\* ReplayFromAudit).
THEOREM AuditRebuildsSlots == SetSpec => []AuditTellsSlots
<1>1. PendingInv /\ [SetNext]_pendingVars => PendingInv'
  BY PendingStep
<1>2. PendingInv => AuditTellsSlots
  BY DEF PendingInv, AuditTellsSlots, Tells, Same
<1> QED BY PendingInitial, <1>1, <1>2, PTL DEF SetSpec

\* Within its lifetime a slot keeps its holder or is given up: no call, no expiry
\* and no restart hands it to another request (OpenPending, ErrPhoneBusy).  Lost
\* rows, a clock set back and, for a rebuilt slot, a clock set ahead are excepted.
THEOREM SlotNotTakenOver == SetSpec => NotTakenOver
<1> DEFINE A == \A p \in Phones :
                  /\ items[p] # Free /\ items'[p] # Free
                  /\ now - items[p].opened < PendingTTL
                  /\ lost' = 0 /\ back = 0 /\ (items[p].parsed => ahead = 0)
                  => items'[p].req = items[p].req
<1>1. PendingInv /\ [SetNext]_pendingVars => PendingInv'
  BY PendingStep
<1>2. ASSUME PendingInv, SetNext PROVE A
  <2> SUFFICES ASSUME NEW p \in Phones, items[p] # Free, items'[p] # Free,
                      now - items[p].opened < PendingTTL, lost' = 0, back = 0,
                      items[p].parsed => ahead = 0
               PROVE  items'[p].req = items[p].req
    OBVIOUS
  <2>1. /\ lost = 0 /\ items \in Maps /\ now \in Nat
        /\ Same(items, Replayed(audit)) /\ Replayed(audit) \in Maps
    <3>1. lost \in Nat /\ lost <= lost' /\ items \in Maps /\ now \in Nat /\ audit \in Seq(Rows)
      BY <1>2, PendingStep DEF PendingInv, PendingTypes
    <3>2. lost = 0
      BY <3>1
    <3> QED BY <1>2, <3>1, <3>2, ReplayedType DEF PendingInv, Tells
  <2>2. Busy(p)
    BY <2>1 DEF Busy, Held, Age, Wall
  <2>3. ASSUME NEW q \in Phones, NEW r \in Requests, OpenPending(q, r)
        PROVE  items'[p] = items[p]
    BY <2>1, <2>2, <2>3 DEF OpenPending, Maps
  <2>4. ASSUME NEW q \in Phones, Resolve(q) \/ Release(q)
        PROVE  items'[p] = items[p] \/ items'[p] = Free
    BY <2>1, <2>4 DEF Resolve, Release, Maps
  <2>5. ASSUME ExpireDue
        PROVE  items'[p] = items[p] \/ items'[p] = Free
    BY <2>5 DEF ExpireDue
  <2>6. ASSUME ReplayFromAudit
        PROVE  items'[p].req = items[p].req
    <3>1. items' = Replayed(audit)
      BY <2>1, <2>6 DEF ReplayFromAudit
    <3> QED BY <2>1, <3>1 DEF Same, SameSlot
  <2> QED BY <1>2, <2>3, <2>4, <2>5, <2>6 DEF SetNext, Calls, RestartOrClock, Tick, SetBack, SetAhead
<1>3. PendingInv /\ [SetNext]_pendingVars => [A]_pendingVars
  BY <1>2
<1> QED BY PendingInitial, <1>1, <1>3, PTL DEF SetSpec, NotTakenOver
=============================================================================
