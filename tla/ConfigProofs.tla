---------------------------- MODULE ConfigProofs ----------------------------
(***************************************************************************)
(* About AdapterConfig: what the reader of approvers.yaml makes of every   *)
(* document in the layout it is written for, and which env files let the   *)
(* adapter start.  The provers know no induction, so what the loops        *)
(* compute is established with least counterexamples.                      *)
(***************************************************************************)
EXTENDS AdapterConfig, SequenceTheorems, WellFoundedInduction, TLAPS

-----------------------------------------------------------------------------
(* Induction *)

\* A set of numbers that holds 0 and, with the predecessor, every number up to
\* n, holds n.
LEMMA UpTo ==
  ASSUME NEW S, NEW n \in Nat, 0 \in S,
         \A i \in 1..n : i - 1 \in S => i \in S
  PROVE  \A i \in 0..n : i \in S
<1> DEFINE Bad == {i \in 0..n : i \notin S}
<1> SUFFICES ASSUME Bad # {} PROVE FALSE
  OBVIOUS
<1>1. Bad \subseteq Nat
  OBVIOUS
<1>2. \E x \in Bad : \A y \in Bad : ~(<<y, x>> \in OpToRel(<, Nat))
  <2> HIDE DEF Bad
  <2> QED BY <1>1, NatLessThanWellFounded, WFMin, Zenon
<1>3. PICK x \in Bad : \A y \in Bad : ~(<<y, x>> \in OpToRel(<, Nat))
  BY <1>2, Zenon
<1>4. \A y \in Bad : ~(y < x)
  BY <1>1, <1>3 DEF OpToRel
<1>5. x \in 1..n /\ x - 1 \in 0..n /\ x - 1 < x
  OBVIOUS
<1>6. x - 1 \notin Bad
  BY <1>4, <1>5
<1> QED BY <1>5, <1>6

-----------------------------------------------------------------------------
(* parseEnvFile: the last assignment wins *)

Unset == ""

Assign(v, l, key) == IF l.key = key THEN l.value ELSE v

\* The function kv of Value, for the first n lines.
IsKv(f, lines, key, n) ==
  f = [i \in 0..n |-> IF i = 0 THEN Unset ELSE Assign(f[i-1], lines[i], key)]

LEMMA KvAt ==
  ASSUME NEW f, NEW lines, NEW key, NEW n \in Nat, IsKv(f, lines, key, n)
  PROVE  /\ f[0] = Unset
         /\ \A i \in 1..n : f[i] = Assign(f[i-1], lines[i], key)
<1> DEFINE E(i) == IF i = 0 THEN Unset ELSE Assign(f[i-1], lines[i], key)
<1>1. f = [i \in 0..n |-> E(i)]
  BY DEF IsKv
<1>2. \A i \in 0..n : f[i] = E(i)
  <2> HIDE DEF E
  <2> QED BY <1>1
<1>3. 0 \in 0..n /\ \A i \in 1..n : i \in 0..n /\ i # 0
  OBVIOUS
<1> QED BY <1>2, <1>3

LEMMA KvExists ==
  ASSUME NEW lines, NEW key, NEW n \in Nat
  PROVE  \E f : IsKv(f, lines, key, n)
<1> DEFINE S == {i \in Nat : \E f : IsKv(f, lines, key, i)}
<1>1. 0 \in S
  <2>1. IsKv([i \in 0..0 |-> Unset], lines, key, 0)
    BY DEF IsKv
  <2> QED BY <2>1
<1>2. ASSUME NEW i \in 1..n, i - 1 \in S
      PROVE  i \in S
  <2>1. PICK f : IsKv(f, lines, key, i - 1)
    BY <1>2
  <2> DEFINE g == [j \in 0..i |-> IF j < i THEN f[j] ELSE Assign(f[i-1], lines[i], key)]
  <2>2. \A j \in 0..i : g[j] = IF j = 0 THEN Unset ELSE Assign(g[j-1], lines[j], key)
    <3>1. ASSUME NEW j \in 0..i, j < i
          PROVE  g[j] = IF j = 0 THEN Unset ELSE Assign(g[j-1], lines[j], key)
      <4>1. f[j] = IF j = 0 THEN Unset ELSE Assign(f[j-1], lines[j], key)
        BY <2>1, <3>1, KvAt
      <4>2. g[j] = f[j] /\ (j > 0 => g[j-1] = f[j-1])
        BY <3>1
      <4> HIDE DEF g
      <4> QED BY <4>1, <4>2
    <3>2. g[i] = Assign(g[i-1], lines[i], key)
      OBVIOUS
    <3> HIDE DEF g
    <3> QED BY <3>1, <3>2
  <2>3. IsKv(g, lines, key, i)
    <3>1. g = [j \in 0..i |-> g[j]]
      OBVIOUS
    <3> HIDE DEF g
    <3> QED BY <2>2, <3>1 DEF IsKv
  <2> HIDE DEF g
  <2> QED BY <2>3
<1> HIDE DEF S
<1>3. n \in S
  BY <1>1, <1>2, UpTo
<1> QED BY <1>3 DEF S

LEMMA ValueKv ==
  ASSUME NEW lines, NEW key, Len(lines) \in Nat
  PROVE  \E f : IsKv(f, lines, key, Len(lines)) /\ Value(lines, key) = f[Len(lines)]
<1> DEFINE F == CHOOSE f : IsKv(f, lines, key, Len(lines))
<1>1. IsKv(F, lines, key, Len(lines))
  BY KvExists, Zenon
<1>2. Value(lines, key) = F[Len(lines)]
  BY Zenon DEF Value, IsKv, Assign, Unset
<1> QED BY <1>1, <1>2

\* Key is set to something by the first n lines.
SetBy(lines, n, key) ==
  \E i \in 1..n : /\ lines[i].key = key /\ lines[i].value # Unset
                  /\ \A j \in 1..n : j > i => lines[j].key # key

LEMMA SetByStep ==
  ASSUME NEW lines, NEW key, NEW n \in Nat, n > 0
  PROVE  SetBy(lines, n, key) <=>
           IF lines[n].key = key THEN lines[n].value # Unset ELSE SetBy(lines, n-1, key)
<1>1. CASE lines[n].key = key
  BY <1>1 DEF SetBy
<1>2. CASE lines[n].key # key
  <2>1. ASSUME SetBy(lines, n, key) PROVE SetBy(lines, n-1, key)
    BY <1>2, <2>1 DEF SetBy
  <2>2. ASSUME SetBy(lines, n-1, key) PROVE SetBy(lines, n, key)
    BY <1>2, <2>2 DEF SetBy
  <2> QED BY <1>2, <2>1, <2>2
<1> QED BY <1>1, <1>2

\* parseEnvFile's map holds something for exactly the keys whose last
\* assignment is not empty.
LEMMA ValueAssigned ==
  ASSUME env \in Seq([key: STRING, value: STRING]), NEW key
  PROVE  Value(env, key) # "" <=> Assigned(key)
<1> DEFINE n == Len(env)
<1>0. n \in Nat /\ DOMAIN env = 1..n
  OBVIOUS
<1>1. PICK f : IsKv(f, env, key, n) /\ Value(env, key) = f[n]
  BY <1>0, ValueKv
<1>2. f[0] = Unset /\ \A i \in 1..n : f[i] = Assign(f[i-1], env[i], key)
  BY <1>0, <1>1, KvAt
<1> DEFINE S == {m \in 0..n : f[m] # Unset <=> SetBy(env, m, key)}
<1> HIDE DEF n
<1>3. 0 \in S
  BY <1>0, <1>2 DEF SetBy
<1>4. ASSUME NEW i \in 1..n, i - 1 \in S
      PROVE  i \in S
  <2>1. f[i] = Assign(f[i-1], env[i], key)
    BY <1>2
  <2>2. SetBy(env, i, key) <=>
           IF env[i].key = key THEN env[i].value # Unset ELSE SetBy(env, i-1, key)
    BY <1>0, SetByStep
  <2>3. f[i-1] # Unset <=> SetBy(env, i-1, key)
    BY <1>4
  <2>4. f[i] # Unset <=> SetBy(env, i, key)
    BY <2>1, <2>2, <2>3 DEF Assign
  <2> QED BY <1>0, <2>4
<1> HIDE DEF S
<1>5. n \in S
  BY <1>0, <1>3, <1>4, UpTo
<1>6. Value(env, key) # Unset <=> SetBy(env, n, key)
  BY <1>0, <1>1, <1>5 DEF S
<1>7. SetBy(env, n, key) <=> Assigned(key)
  BY <1>0 DEF SetBy, Assigned, Unset
<1> QED BY <1>6, <1>7 DEF Unset

-----------------------------------------------------------------------------
(* LookupRecipients: every phone once *)

Add(out, phone) ==
  IF phone \in ToSet(out) \cup {Unset} THEN out ELSE Append(out, phone)

\* The function added of AddNew, for the first n phones.
IsAdded(f, first, phones, n) ==
  f = [i \in 0..n |-> IF i = 0 THEN first ELSE Add(f[i-1], phones[i])]

LEMMA AddedAt ==
  ASSUME NEW f, NEW first, NEW phones, NEW n \in Nat, IsAdded(f, first, phones, n)
  PROVE  /\ f[0] = first
         /\ \A i \in 1..n : f[i] = Add(f[i-1], phones[i])
<1> DEFINE E(i) == IF i = 0 THEN first ELSE Add(f[i-1], phones[i])
<1>1. f = [i \in 0..n |-> E(i)]
  BY DEF IsAdded
<1>2. \A i \in 0..n : f[i] = E(i)
  <2> HIDE DEF E
  <2> QED BY <1>1
<1>3. 0 \in 0..n /\ \A i \in 1..n : i \in 0..n /\ i # 0
  OBVIOUS
<1> QED BY <1>2, <1>3

LEMMA AddedExists ==
  ASSUME NEW first, NEW phones, NEW n \in Nat
  PROVE  \E f : IsAdded(f, first, phones, n)
<1> DEFINE S == {i \in Nat : \E f : IsAdded(f, first, phones, i)}
<1>1. 0 \in S
  <2>1. IsAdded([i \in 0..0 |-> first], first, phones, 0)
    BY DEF IsAdded
  <2> QED BY <2>1
<1>2. ASSUME NEW i \in 1..n, i - 1 \in S
      PROVE  i \in S
  <2>1. PICK f : IsAdded(f, first, phones, i - 1)
    BY <1>2
  <2> DEFINE g == [j \in 0..i |-> IF j < i THEN f[j] ELSE Add(f[i-1], phones[i])]
  <2>2. \A j \in 0..i : g[j] = IF j = 0 THEN first ELSE Add(g[j-1], phones[j])
    <3>1. ASSUME NEW j \in 0..i, j < i
          PROVE  g[j] = IF j = 0 THEN first ELSE Add(g[j-1], phones[j])
      <4>1. f[j] = IF j = 0 THEN first ELSE Add(f[j-1], phones[j])
        BY <2>1, <3>1, AddedAt
      <4>2. g[j] = f[j] /\ (j > 0 => g[j-1] = f[j-1])
        BY <3>1
      <4> HIDE DEF g
      <4> QED BY <4>1, <4>2
    <3>2. g[i] = Add(g[i-1], phones[i])
      OBVIOUS
    <3> HIDE DEF g
    <3> QED BY <3>1, <3>2
  <2>3. IsAdded(g, first, phones, i)
    <3>1. g = [j \in 0..i |-> g[j]]
      OBVIOUS
    <3> HIDE DEF g
    <3> QED BY <2>2, <3>1 DEF IsAdded
  <2> HIDE DEF g
  <2> QED BY <2>3
<1> HIDE DEF S
<1>3. n \in S
  BY <1>1, <1>2, UpTo
<1> QED BY <1>3 DEF S

LEMMA AddNewAdded ==
  ASSUME NEW first, NEW phones, Len(phones) \in Nat
  PROVE  \E f : IsAdded(f, first, phones, Len(phones)) /\ AddNew(first, phones) = f[Len(phones)]
<1> DEFINE F == CHOOSE f : IsAdded(f, first, phones, Len(phones))
<1>1. IsAdded(F, first, phones, Len(phones))
  BY AddedExists, Zenon
<1>2. AddNew(first, phones) = F[Len(phones)]
  BY Zenon DEF AddNew, IsAdded, Add, Unset
<1> QED BY <1>1, <1>2

Merge(out, m, book) == AddNew(out, Get(book, m))

\* The function out of LookupRecipients, for the first n members.
IsOut(f, members, book, n) ==
  f = [i \in 0..n |-> IF i = 0 THEN << >> ELSE Merge(f[i-1], members[i], book)]

LEMMA OutAt ==
  ASSUME NEW f, NEW members, NEW book, NEW n \in Nat, IsOut(f, members, book, n)
  PROVE  /\ f[0] = << >>
         /\ \A i \in 1..n : f[i] = Merge(f[i-1], members[i], book)
<1> DEFINE E(i) == IF i = 0 THEN << >> ELSE Merge(f[i-1], members[i], book)
<1>1. f = [i \in 0..n |-> E(i)]
  BY DEF IsOut
<1>2. \A i \in 0..n : f[i] = E(i)
  <2> HIDE DEF E
  <2> QED BY <1>1
<1>3. 0 \in 0..n /\ \A i \in 1..n : i \in 0..n /\ i # 0
  OBVIOUS
<1> QED BY <1>2, <1>3

LEMMA OutExists ==
  ASSUME NEW members, NEW book, NEW n \in Nat
  PROVE  \E f : IsOut(f, members, book, n)
<1> DEFINE S == {i \in Nat : \E f : IsOut(f, members, book, i)}
<1>1. 0 \in S
  <2>1. IsOut([i \in 0..0 |-> << >>], members, book, 0)
    BY DEF IsOut
  <2> QED BY <2>1
<1>2. ASSUME NEW i \in 1..n, i - 1 \in S
      PROVE  i \in S
  <2>1. PICK f : IsOut(f, members, book, i - 1)
    BY <1>2
  <2> DEFINE g == [j \in 0..i |-> IF j < i THEN f[j] ELSE Merge(f[i-1], members[i], book)]
  <2>2. \A j \in 0..i : g[j] = IF j = 0 THEN << >> ELSE Merge(g[j-1], members[j], book)
    <3>1. ASSUME NEW j \in 0..i, j < i
          PROVE  g[j] = IF j = 0 THEN << >> ELSE Merge(g[j-1], members[j], book)
      <4>1. f[j] = IF j = 0 THEN << >> ELSE Merge(f[j-1], members[j], book)
        BY <2>1, <3>1, OutAt
      <4>2. g[j] = f[j] /\ (j > 0 => g[j-1] = f[j-1])
        BY <3>1
      <4> HIDE DEF g
      <4> QED BY <4>1, <4>2
    <3>2. g[i] = Merge(g[i-1], members[i], book)
      OBVIOUS
    <3> HIDE DEF g
    <3> QED BY <3>1, <3>2
  <2>3. IsOut(g, members, book, i)
    <3>1. g = [j \in 0..i |-> g[j]]
      OBVIOUS
    <3> HIDE DEF g
    <3> QED BY <2>2, <3>1 DEF IsOut
  <2> HIDE DEF g
  <2> QED BY <2>3
<1> HIDE DEF S
<1>3. n \in S
  BY <1>1, <1>2, UpTo
<1> QED BY <1>3 DEF S

\* The members of the set that q's requests are routed to.
Members(q) ==
  IF q \in DOMAIN policy.routing THEN Get(policy.sets, policy.routing[q]) ELSE << >>

LEMMA LookupOut ==
  ASSUME NEW q, Len(Members(q)) \in Nat
  PROVE  \E f : /\ IsOut(f, Members(q), policy.phones, Len(Members(q)))
                /\ LookupRecipients(q) = f[Len(Members(q))]
<1> DEFINE F == CHOOSE f : IsOut(f, Members(q), policy.phones, Len(Members(q)))
<1>1. IsOut(F, Members(q), policy.phones, Len(Members(q)))
  BY OutExists, Zenon
<1>2. LookupRecipients(q) = F[Len(Members(q))]
  BY Zenon DEF LookupRecipients, Members, IsOut, Merge
<1> QED BY <1>1, <1>2

LEMMA AppendSet ==
  ASSUME NEW T, NEW s \in Seq(T), NEW x \in T
  PROVE  /\ \A y : y \in ToSet(Append(s, x)) <=> y \in ToSet(s) \/ y = x
         /\ Append(s, x) \in Seq(T)
<1> DEFINE new == Append(s, x)
<1>1. /\ new \in Seq(T) /\ Len(new) = Len(s) + 1 /\ Len(s) \in Nat
      /\ \A i \in 1..Len(s) : new[i] = s[i]
      /\ new[Len(s) + 1] = x
  BY AppendProperties
<1>0. DOMAIN new = 1..Len(new) /\ DOMAIN s = 1..Len(s)
  OBVIOUS
<1> HIDE DEF new
<1>6. ToSet(new) = {new[i] : i \in 1..Len(new)} /\ ToSet(s) = {s[i] : i \in 1..Len(s)}
  BY <1>0 DEF ToSet
<1>7. \A i : i \in 1..Len(new) <=> i \in 1..Len(s) \/ i = Len(s) + 1
  BY <1>1
<1>2. ASSUME NEW y \in ToSet(new) PROVE y \in ToSet(s) \cup {x}
  <2>1. PICK i \in 1..Len(new) : y = new[i]
    BY <1>6
  <2> QED BY <1>1, <1>6, <1>7, <2>1
<1>3. ASSUME NEW y \in ToSet(s) PROVE y \in ToSet(new)
  <2>1. PICK i \in 1..Len(s) : y = s[i]
    BY <1>6
  <2> QED BY <1>1, <1>6, <1>7, <2>1
<1>4. x \in ToSet(new)
  BY <1>1, <1>6, <1>7
<1>5. \A y : y \in ToSet(new) <=> y \in ToSet(s) \/ y = x
  BY <1>2, <1>3, <1>4
<1> QED BY <1>1, <1>5 DEF new

\* One phone more.
LEMMA AddOne ==
  ASSUME NEW out \in Seq(STRING), IsInjective(out), NEW phone \in STRING
  PROVE  /\ Add(out, phone) \in Seq(STRING)
         /\ IsInjective(Add(out, phone))
         /\ ToSet(Add(out, phone)) = ToSet(out) \cup ({phone} \ {Unset})
<1>1. CASE phone \in ToSet(out) \cup {Unset}
  <2>1. Add(out, phone) = out
    BY <1>1 DEF Add
  <2>2. ToSet(out) \cup ({phone} \ {Unset}) = ToSet(out)
    BY <1>1
  <2> QED BY <2>1, <2>2
<1>2. CASE phone \notin ToSet(out) \cup {Unset}
  <2> DEFINE new == Append(out, phone)
  <2>1. Add(out, phone) = new
    BY <1>2 DEF Add
  <2>2. /\ new \in Seq(STRING) /\ Len(new) = Len(out) + 1 /\ Len(out) \in Nat
        /\ \A i \in 1..Len(out) : new[i] = out[i]
        /\ new[Len(out) + 1] = phone
    OBVIOUS
  <2>3. DOMAIN new = 1..Len(new) /\ DOMAIN out = 1..Len(out)
    OBVIOUS
  <2> HIDE DEF new
  <2>4. ToSet(new) = ToSet(out) \cup {phone}
    <3>1. \A y : y \in ToSet(new) <=> y \in ToSet(out) \/ y = phone
      BY AppendSet DEF new
    <3> QED BY <3>1
  <2>5. \A i \in 1..Len(out) : out[i] # phone
    BY <1>2, <2>3 DEF ToSet
  <2>6. \A i, j \in 1..Len(out) : out[i] = out[j] => i = j
    BY <2>3 DEF IsInjective
  <2>7. IsInjective(new)
    <3>1. ASSUME NEW i \in 1..Len(new), NEW j \in 1..Len(new), new[i] = new[j]
          PROVE  i = j
      <4>1. CASE i <= Len(out) /\ j <= Len(out)
        BY <2>2, <2>6, <3>1, <4>1
      <4>2. CASE i > Len(out) /\ j > Len(out)
        BY <2>2, <4>2
      <4>3. CASE i > Len(out) /\ j <= Len(out)
        <5>1. i = Len(out) + 1 /\ j \in 1..Len(out)
          BY <2>2, <4>3
        <5> QED BY <2>2, <2>5, <3>1, <5>1
      <4>4. CASE i <= Len(out) /\ j > Len(out)
        <5>1. j = Len(out) + 1 /\ i \in 1..Len(out)
          BY <2>2, <4>4
        <5> QED BY <2>2, <2>5, <3>1, <5>1
      <4> QED BY <2>2, <4>1, <4>2, <4>3, <4>4
    <3> QED BY <2>3, <3>1 DEF IsInjective
  <2>8. {phone} \ {Unset} = {phone}
    BY <1>2
  <2> QED BY <2>1, <2>2, <2>4, <2>7, <2>8
<1> QED BY <1>1, <1>2

\* The inner loop of LookupRecipients.
LEMMA AddNewAdds ==
  ASSUME NEW out \in Seq(STRING), IsInjective(out), NEW phones \in Seq(STRING)
  PROVE  /\ AddNew(out, phones) \in Seq(STRING)
         /\ IsInjective(AddNew(out, phones))
         /\ ToSet(AddNew(out, phones)) = ToSet(out) \cup (ToSet(phones) \ {Unset})
<1> DEFINE n == Len(phones)
           Seen(m) == {phones[i] : i \in 1..m} \ {Unset}
<1>0. n \in Nat /\ DOMAIN phones = 1..n /\ \A i \in 1..n : phones[i] \in STRING
  OBVIOUS
<1>1. PICK f : IsAdded(f, out, phones, n) /\ AddNew(out, phones) = f[n]
  BY <1>0, AddNewAdded
<1>2. f[0] = out /\ \A i \in 1..n : f[i] = Add(f[i-1], phones[i])
  BY <1>0, <1>1, AddedAt
<1> HIDE DEF n
<1> DEFINE S == {m \in 0..n : /\ f[m] \in Seq(STRING)
                              /\ IsInjective(f[m])
                              /\ ToSet(f[m]) = ToSet(out) \cup Seen(m)}
<1>3. 0 \in S
  <2>1. Seen(0) = {}
    OBVIOUS
  <2> HIDE DEF Seen
  <2> QED BY <1>0, <1>2, <2>1
<1>4. ASSUME NEW i \in 1..n, i - 1 \in S
      PROVE  i \in S
  <2>0. i \in 0..n
    BY <1>0
  <2>1. f[i] = Add(f[i-1], phones[i])
    BY <1>2
  <2>2. /\ f[i] \in Seq(STRING)
        /\ IsInjective(f[i])
        /\ ToSet(f[i]) = ToSet(f[i-1]) \cup ({phones[i]} \ {Unset})
    <3> HIDE DEF Seen
    <3>1. f[i-1] \in Seq(STRING) /\ IsInjective(f[i-1])
      BY <1>4
    <3>2. phones[i] \in STRING
      BY <1>0
    <3> HIDE DEF S
    <3>3. /\ Add(f[i-1], phones[i]) \in Seq(STRING)
          /\ IsInjective(Add(f[i-1], phones[i]))
          /\ ToSet(Add(f[i-1], phones[i])) = ToSet(f[i-1]) \cup ({phones[i]} \ {Unset})
      BY ONLY <3>1, <3>2, AddOne
    <3> QED BY <2>1, <3>3
  <2>3. Seen(i) = Seen(i-1) \cup ({phones[i]} \ {Unset})
    <3>1. \A j : j \in 1..i <=> j \in 1..i-1 \/ j = i
      BY <1>0
    <3> QED BY <3>1
  <2> HIDE DEF Seen
  <2> QED BY <1>4, <2>0, <2>2, <2>3
<1>5. n \in S
  <2>1. n \in Nat
    BY <1>0
  <2> HIDE DEF S
  <2>2. \A i \in 0..n : i \in S
    BY <1>3, <1>4, <2>1, UpTo, Zenon
  <2> QED BY <2>1, <2>2
<1>6. Seen(n) = ToSet(phones) \ {Unset}
  BY <1>0 DEF ToSet
<1> HIDE DEF Seen
<1> QED BY <1>1, <1>5, <1>6

\* The phones of the members of q's set.
Reached(q, m) ==
  (UNION {ToSet(Get(policy.phones, Members(q)[i])) : i \in 1..m}) \ {Unset}

\* The outer loop: no phone twice, and exactly the phones of the members.
LEMMA LookupReaches ==
  ASSUME NEW q, Members(q) \in Seq(STRING),
         \A a : Get(policy.phones, a) \in Seq(STRING)
  PROVE  /\ IsInjective(LookupRecipients(q))
         /\ ToSet(LookupRecipients(q)) = Reached(q, Len(Members(q)))
<1> DEFINE n == Len(Members(q))
           Book(i) == Get(policy.phones, Members(q)[i])
<1>0. n \in Nat
  OBVIOUS
<1>1. PICK f : IsOut(f, Members(q), policy.phones, n) /\ LookupRecipients(q) = f[n]
  BY <1>0, LookupOut
<1>2. f[0] = << >> /\ \A i \in 1..n : f[i] = AddNew(f[i-1], Book(i))
  BY <1>0, <1>1, OutAt DEF Merge
<1>3. \A i \in 1..n : Book(i) \in Seq(STRING)
  OBVIOUS
<1> DEFINE S == {m \in 0..n : /\ f[m] \in Seq(STRING)
                              /\ IsInjective(f[m])
                              /\ ToSet(f[m]) = Reached(q, m)}
<1> HIDE DEF n
<1>4. 0 \in S
  <2>1. Reached(q, 0) = {}
    BY DEF Reached
  <2>2. << >> \in Seq(STRING) /\ IsInjective(<< >>) /\ ToSet(<< >>) = {}
    BY DEF IsInjective, ToSet
  <2>3. 0 \in 0..n
    BY <1>0
  <2>4. f[0] \in Seq(STRING) /\ IsInjective(f[0]) /\ ToSet(f[0]) = Reached(q, 0)
    BY <1>2, <2>1, <2>2, Zenon
  <2> QED BY <2>3, <2>4
<1>5. ASSUME NEW i \in 1..n, i - 1 \in S
      PROVE  i \in S
  <2>0. i \in 0..n
    BY <1>0
  <2>1. f[i] = AddNew(f[i-1], Book(i)) /\ Book(i) \in Seq(STRING)
    BY <1>2, <1>3
  <2>2. /\ f[i] \in Seq(STRING)
        /\ IsInjective(f[i])
        /\ ToSet(f[i]) = ToSet(f[i-1]) \cup (ToSet(Book(i)) \ {Unset})
    <3> HIDE DEF Book
    <3> QED BY <1>5, <2>1, AddNewAdds
  <2>3. Reached(q, i) = Reached(q, i-1) \cup (ToSet(Book(i)) \ {Unset})
    <3> DEFINE T(j) == ToSet(Book(j))
    <3>1. \A j : j \in 1..i <=> j \in 1..i-1 \/ j = i
      BY <1>0
    <3>2. \A m : Reached(q, m) = (UNION {T(j) : j \in 1..m}) \ {Unset}
      BY DEF Reached
    <3> HIDE DEF T
    <3>3. UNION {T(j) : j \in 1..i} = (UNION {T(j) : j \in 1..i-1}) \cup T(i)
      BY <3>1
    <3>4. Reached(q, i) = Reached(q, i-1) \cup (T(i) \ {Unset})
      BY <3>2, <3>3
    <3> QED BY <3>4 DEF T
  <2> QED BY <1>5, <2>0, <2>2, <2>3
<1>6. n \in S
  <2> HIDE DEF S
  <2> QED BY <1>0, <1>4, <1>5, UpTo
<1> QED BY <1>1, <1>6 DEF n

-----------------------------------------------------------------------------
(* The lines of a document *)

Readable(d) ==
  /\ d \in Seq(Lines)
  /\ \A i \in 1..Len(d) : d[i].form = "key" => d[i].value = Unset
  /\ Layout(d) /\ NoneTwice(d)

\* Nothing after line h, up to line n, leaves the block below h.
Open(d, h, n) == \A m \in h+1..n : d[m].indent > d[h].indent

LEMMA LineType ==
  ASSUME NEW d, Readable(d), NEW i \in 1..Len(d)
  PROVE  /\ d[i] \in Lines /\ Len(d) \in Nat
         /\ d[i].indent \in {0, 2, 4, 6}
         /\ d[i].indent = 0 => d[i].form # "item"
         /\ d[i].form \in {"key", "pair", "item"}
         /\ d[i].key \in STRING /\ d[i].value \in STRING
<1>1. d[i] \in Lines /\ Len(d) \in Nat
  BY DEF Readable
<1>2. d[i].indent \in {0, 2, 4, 6} /\ (d[i].indent = 0 => d[i].form # "item")
  BY DEF Readable, Layout
<1> QED BY <1>1, <1>2 DEF Lines

LEMMA KeyLine ==
  ASSUME NEW d, Readable(d), NEW i \in 1..Len(d), NEW n, NEW k
  PROVE  d[i] = Key(n, k) <=> d[i].indent = n /\ d[i].form = "key" /\ d[i].key = k
<1>1. d[i] \in [indent: Nat, form: {"key", "pair", "item"}, key: STRING, value: STRING]
  BY LineType DEF Lines
<1>2. d[i].form = "key" => d[i].value = Unset
  BY DEF Readable
<1>3. d[i] = [indent |-> d[i].indent, form |-> d[i].form, key |-> d[i].key, value |-> d[i].value]
  BY <1>1
<1>4. ASSUME d[i] = Key(n, k)
      PROVE  d[i].indent = n /\ d[i].form = "key" /\ d[i].key = k
  <2>1. Key(n, k).indent = n /\ Key(n, k).form = "key" /\ Key(n, k).key = k
    BY DEF Key
  <2> QED BY <1>4, <2>1
<1>5. ASSUME d[i].indent = n, d[i].form = "key", d[i].key = k
      PROVE  d[i] = Key(n, k)
  <2>1. d[i].value = Unset
    BY <1>2, <1>5
  <2> QED BY <1>3, <1>5, <2>1, Zenon DEF Key, Unset
<1> QED BY <1>4, <1>5

LEMMA OpenNext ==
  ASSUME NEW d, Readable(d), NEW n \in Nat, n < Len(d), NEW h \in 1..n
  PROVE  /\ Heads(d, h, n+1) <=> Open(d, h, n) /\ d[n+1].indent > d[h].indent
         /\ Open(d, h, n+1) <=> Heads(d, h, n+1)
<1>1. \A m : m \in h+1..n+1 <=> m \in h+1..n \/ m = n+1
  OBVIOUS
<1> QED BY <1>1 DEF Heads, Open

LEMMA OpenLast ==
  ASSUME NEW d, NEW n \in Nat
  PROVE  Open(d, n, n)
BY DEF Open

\* The later of two open lines is indented more.
LEMMA OpenBelow ==
  ASSUME NEW d, Readable(d), NEW n \in Nat, n <= Len(d), NEW h \in 1..n, NEW g \in 1..n,
         Open(d, h, n), h < g
  PROVE  d[g].indent > d[h].indent /\ Heads(d, h, g)
<1>1. \A m \in h+1..g : m \in h+1..n
  OBVIOUS
<1> QED BY <1>1 DEF Open, Heads

LEMMA OpenSame ==
  ASSUME NEW d, Readable(d), NEW n \in Nat, n <= Len(d), NEW h \in 1..n, NEW g \in 1..n,
         Open(d, h, n), Open(d, g, n), d[h].indent = d[g].indent
  PROVE  h = g
<1>1. d[h].indent \in Nat /\ d[g].indent \in Nat
  BY LineType DEF Lines
<1>2. ~(h < g) /\ ~(g < h)
  BY <1>1, OpenBelow
<1> QED BY <1>2

LEMMA HeadsOpen ==
  ASSUME NEW d, Readable(d), NEW n \in Nat, n <= Len(d), NEW s \in 1..n, NEW h \in 1..n,
         Heads(d, s, h), Open(d, h, n)
  PROVE  Open(d, s, n)
<1>1. d[h].indent > d[s].indent /\ d[h].indent \in Nat /\ d[s].indent \in Nat /\ s < h
  BY LineType DEF Lines, Heads
<1>2. ASSUME NEW m \in s+1..n PROVE d[m].indent > d[s].indent
  <2>0. d[m].indent \in Nat
    BY LineType DEF Lines
  <2>1. CASE m <= h
    BY <2>1 DEF Heads
  <2>2. CASE m > h
    <3>1. d[m].indent > d[h].indent
      BY <2>2 DEF Open
    <3> QED BY <1>1, <2>0, <3>1
  <2> QED BY <2>1, <2>2
<1> QED BY <1>2 DEF Open

-----------------------------------------------------------------------------
(* What parseApprovers knows about its place after n lines *)

\* section is the part whose heading is open.
Place(d, n, sec) ==
  /\ sec \in Parts \cup {"none"}
  /\ sec \in Parts => \E s \in 1..n : d[s] = Key(0, sec) /\ Open(d, s, n)
  /\ \A s \in 1..n : \A part \in Parts : d[s] = Key(0, part) /\ Open(d, s, n) => sec = part

\* current is the entry of that part that is open.
Named(d, n, sec, cur) ==
  sec \in Parts =>
    /\ cur # Unset => \E h \in 1..n : EntryAt(d, h, sec) /\ d[h].key = cur /\ Open(d, h, n)
    /\ \A h \in 1..n : d[h].indent = 2 /\ Open(d, h, n) =>
         EntryAt(d, h, sec) /\ d[h].key = cur /\ cur # Unset

\* inPhones: a list of phones is open.
Phoning(d, n, sec, phoning) ==
  sec = "approvers" =>
    (phoning <=> \E g \in 1..n : d[g] = Key(4, "phones") /\ Open(d, g, n))

LEMMA PartsNone == "none" \notin Parts
BY DEF Parts

LEMMA InPartNext ==
  ASSUME NEW d, Readable(d), NEW n \in Nat, n < Len(d), NEW sec, Place(d, n, sec),
         NEW part \in Parts
  PROVE  InPart(d, n+1, part) <=> sec = part /\ d[n+1].indent > 0
<1>0. \A s : s \in 1..n+1-1 <=> s \in 1..n
  OBVIOUS
<1>1. \A s \in 1..n : s \in 1..Len(d)
  BY LineType DEF Readable
<1>2. \A s \in 1..n : d[s] = Key(0, part) => d[s].indent = 0
  BY <1>1, KeyLine
<1>3. ASSUME InPart(d, n+1, part) PROVE sec = part /\ d[n+1].indent > 0
  <2>1. PICK s \in 1..n : d[s] = Key(0, part) /\ Heads(d, s, n+1)
    BY <1>0, <1>3 DEF InPart
  <2>2. Open(d, s, n) /\ d[n+1].indent > d[s].indent
    BY <2>1, OpenNext
  <2> QED BY <1>2, <2>1, <2>2 DEF Place
<1>4. ASSUME sec = part, d[n+1].indent > 0 PROVE InPart(d, n+1, part)
  <2>1. PICK s \in 1..n : d[s] = Key(0, part) /\ Open(d, s, n)
    BY <1>4 DEF Place
  <2>2. Heads(d, s, n+1)
    BY <1>2, <1>4, <2>1, OpenNext
  <2> QED BY <1>0, <2>1, <2>2 DEF InPart
<1> QED BY <1>3, <1>4

LEMMA PlaceNext ==
  ASSUME NEW d, Readable(d), NEW n \in Nat, n < Len(d), NEW sec, Place(d, n, sec)
  PROVE  /\ d[n+1].indent > 0 => Place(d, n+1, sec)
         /\ d[n+1].indent = 0 => Place(d, n+1,
              IF d[n+1].form = "key" /\ d[n+1].key \in Parts THEN d[n+1].key ELSE "none")
<1> DEFINE l == d[n+1]
           top == IF l.form = "key" /\ l.key \in Parts THEN l.key ELSE "none"
<1>0. /\ \A s : s \in 1..n+1 <=> s \in 1..n \/ s = n+1
      /\ \A s \in 1..n+1 : s \in 1..Len(d)
      /\ n+1 \in Nat
  BY DEF Readable
<1>1. \A s \in 1..n+1 : \A part : d[s] = Key(0, part) <=>
         d[s].indent = 0 /\ d[s].form = "key" /\ d[s].key = part
  BY <1>0, KeyLine
<1>2. \A s \in 1..n : Open(d, s, n+1) <=> Open(d, s, n) /\ l.indent > d[s].indent
  BY OpenNext
<1>3. Open(d, n+1, n+1) /\ l.indent \in Nat /\ \A s \in 1..n : d[s].indent \in Nat
  BY <1>0, OpenLast, LineType DEF Lines
<1> HIDE DEF l
<1>4. ASSUME l.indent > 0 PROVE Place(d, n+1, sec)
  <2>1. sec \in Parts => \E s \in 1..n+1 : d[s] = Key(0, sec) /\ Open(d, s, n+1)
    BY <1>0, <1>1, <1>2, <1>4 DEF Place
  <2>2. ASSUME NEW s \in 1..n+1, NEW part \in Parts, d[s] = Key(0, part), Open(d, s, n+1)
        PROVE  sec = part
    <3>1. s # n+1
      BY <1>1, <1>4, <2>2 DEF l
    <3> QED BY <1>0, <1>2, <2>2, <3>1 DEF Place
  <2> QED BY <2>1, <2>2 DEF Place
<1>5. ASSUME l.indent = 0 PROVE Place(d, n+1, top)
  <2>1. top \in Parts \cup {"none"} /\ (top \in Parts => l.form = "key" /\ l.key = top)
    BY PartsNone
  <2>2. top \in Parts => \E s \in 1..n+1 : d[s] = Key(0, top) /\ Open(d, s, n+1)
    BY <1>0, <1>1, <1>3, <1>5, <2>1 DEF l
  <2>3. ASSUME NEW s \in 1..n+1, NEW part \in Parts, d[s] = Key(0, part), Open(d, s, n+1)
        PROVE  top = part
    <3>1. s = n+1
      BY <1>0, <1>2, <1>3, <1>5, <2>3
    <3> QED BY <1>1, <2>3, <3>1 DEF l
  <2> HIDE DEF top
  <2> QED BY <2>1, <2>2, <2>3 DEF Place
<1> QED BY <1>4, <1>5 DEF l

LEMMA NamedNext ==
  ASSUME NEW d, Readable(d), NEW n \in Nat, n < Len(d), NEW sec, Place(d, n, sec),
         NEW cur, Named(d, n, sec, cur)
  PROVE  /\ d[n+1].indent > 2 => Named(d, n+1, sec, cur)
         /\ d[n+1].indent = 2 => Named(d, n+1, sec, d[n+1].key)
         /\ d[n+1].indent = 0 => \A part : Named(d, n+1, part, Unset)
<1> DEFINE l == d[n+1]
<1>0. /\ \A s : s \in 1..n+1 <=> s \in 1..n \/ s = n+1
      /\ \A s \in 1..n+1 : s \in 1..Len(d)
  BY DEF Readable
<1>2. \A s \in 1..n : Open(d, s, n+1) <=> Open(d, s, n) /\ l.indent > d[s].indent
  BY OpenNext
<1>3. Open(d, n+1, n+1) /\ l.indent \in Nat /\ \A s \in 1..n : d[s].indent \in Nat
  BY <1>0, OpenLast, LineType DEF Lines
<1>4. \A h \in 1..n+1 : \A part : EntryAt(d, h, part) => d[h].indent = 2
  BY DEF EntryAt
<1>5. ASSUME l.indent > 2 PROVE Named(d, n+1, sec, cur)
  BY <1>0, <1>2, <1>3, <1>4, <1>5 DEF Named
<1>6. ASSUME l.indent = 2, sec \in Parts PROVE EntryAt(d, n+1, sec) /\ l.key # Unset
  <2>1. InPart(d, n+1, sec)
    BY <1>6, InPartNext
  <2>2. l.form = "key" /\ l.key # Unset
    BY <1>0, <1>6, <2>1 DEF Readable, Layout, Unset
  <2> QED BY <1>6, <2>1, <2>2 DEF EntryAt
<1>7. ASSUME l.indent = 2 PROVE Named(d, n+1, sec, l.key)
  BY <1>0, <1>2, <1>3, <1>4, <1>6, <1>7 DEF Named
<1>8. ASSUME l.indent = 0, NEW part PROVE Named(d, n+1, part, Unset)
  BY <1>0, <1>2, <1>3, <1>8 DEF Named
<1> QED BY <1>5, <1>7, <1>8

LEMMA PhoningNext ==
  ASSUME NEW d, Readable(d), NEW n \in Nat, n < Len(d), NEW sec, NEW ph, Phoning(d, n, sec, ph)
  PROVE  /\ d[n+1].indent \notin {0, 2, 4} => Phoning(d, n+1, sec, ph)
         /\ d[n+1].indent = 4 => Phoning(d, n+1, sec, d[n+1] = Key(4, "phones"))
         /\ d[n+1].indent \in {0, 2} => \A part : Phoning(d, n+1, part, FALSE)
<1> DEFINE l == d[n+1]
           P(g) == d[g] = Key(4, "phones")
<1>0. /\ \A s : s \in 1..n+1 <=> s \in 1..n \/ s = n+1
      /\ \A s \in 1..n+1 : s \in 1..Len(d)
  BY DEF Readable
<1>1. \A g \in 1..n+1 : P(g) => d[g].indent = 4
  BY <1>0, KeyLine
<1>2. \A s \in 1..n : Open(d, s, n+1) <=> Open(d, s, n) /\ l.indent > d[s].indent
  BY OpenNext
<1>3. Open(d, n+1, n+1) /\ l.indent \in {0, 2, 4, 6}
  BY <1>0, OpenLast, LineType
<1> DEFINE Some(m) == \E g \in 1..m : P(g) /\ Open(d, g, m)
<1> HIDE DEF P
<1>4. l.indent \notin {0, 2, 4} => (Some(n+1) <=> Some(n))
  BY <1>0, <1>1, <1>2, <1>3
<1>5. l.indent = 4 => (Some(n+1) <=> P(n+1))
  BY <1>0, <1>1, <1>2, <1>3
<1>6. l.indent \in {0, 2} => ~Some(n+1)
  BY <1>0, <1>1, <1>2, <1>3
<1>7. \A m, part, b : Phoning(d, m, part, b) <=> (part = "approvers" => (b <=> Some(m)))
  BY DEF Phoning, P
<1> HIDE DEF Some, l
<1>8. l.indent \notin {0, 2, 4} => Phoning(d, n+1, sec, ph)
  <2>1. sec = "approvers" => (ph <=> Some(n))
    BY DEF Phoning, Some, P
  <2>2. l.indent \notin {0, 2, 4} => (sec = "approvers" => (ph <=> Some(n+1)))
    BY <1>4, <2>1
  <2> QED BY <1>7, <2>2, Zenon
<1>9. l.indent = 4 => Phoning(d, n+1, sec, P(n+1))
  BY <1>5, <1>7, Zenon
<1>10. l.indent \in {0, 2} => \A part : Phoning(d, n+1, part, FALSE)
  BY <1>6, <1>7, Zenon
<1> QED BY <1>8, <1>9, <1>10, Zenon DEF l, P

\* The entry that line n+1 belongs to is the one parseApprovers has in mind.
LEMMA HeadsNext ==
  ASSUME NEW d, Readable(d), NEW n \in Nat, n < Len(d), NEW sec, Place(d, n, sec),
         NEW cur, Named(d, n, sec, cur), NEW part \in Parts, NEW h \in 1..n, EntryAt(d, h, part)
  PROVE  Heads(d, h, n+1) <=>
           sec = part /\ cur # Unset /\ d[h].key = cur /\ d[n+1].indent > 2
<1>0. /\ \A s \in 1..n+1 : s \in 1..Len(d)
      /\ n <= Len(d)
      /\ d[h].indent = 2
  BY DEF EntryAt, Readable
<1>1. Heads(d, h, n+1) <=> Open(d, h, n) /\ d[n+1].indent > 2
  BY <1>0, OpenNext
<1>2. ASSUME Open(d, h, n) PROVE sec = part /\ cur # Unset /\ d[h].key = cur
  <2>1. PICK s \in 1..h-1 : d[s] = Key(0, part) /\ Heads(d, s, h)
    BY DEF EntryAt, InPart
  <2>2. s \in 1..n
    OBVIOUS
  <2>3. Open(d, s, n)
    BY <1>0, <1>2, <2>1, <2>2, HeadsOpen
  <2>4. sec = part
    BY <2>1, <2>2, <2>3 DEF Place
  <2> QED BY <1>0, <1>2, <2>4 DEF Named
<1>3. ASSUME sec = part, cur # Unset, d[h].key = cur PROVE Open(d, h, n)
  <2>1. PICK g \in 1..n : EntryAt(d, g, part) /\ d[g].key = cur /\ Open(d, g, n)
    BY <1>3 DEF Named
  <2>2. g = h
    BY <1>0, <1>3, <2>1 DEF Readable, NoneTwice
  <2> QED BY <2>1, <2>2
<1> QED BY <1>1, <1>2, <1>3

LEMMA MemberNext ==
  ASSUME NEW d, Readable(d), NEW n \in Nat, n < Len(d), NEW sec, Place(d, n, sec),
         NEW cur, Named(d, n, sec, cur), NEW h
  PROVE  h \in 1..Len(d) /\ MemberAt(d, n+1, h) <=>
           /\ h \in 1..n /\ EntryAt(d, h, "approver_sets") /\ d[h].key = cur
           /\ sec = "approver_sets" /\ cur # Unset
           /\ d[n+1].form = "item" /\ d[n+1].indent >= 4
<1> DEFINE part == "approver_sets"
           l == d[n+1]
<1>0. part \in Parts /\ n+1 \in 1..Len(d) /\ 1..n \subseteq 1..Len(d)
  BY DEF Parts, Readable
<1>1. l.indent \in {0, 2, 4, 6}
  BY <1>0, LineType
<1>2. l.form = "item" /\ sec = part /\ l.indent >= 4 => l.indent = 4
  <2>1. InPart(d, n+1, part) => (l.form = "item" => l.indent = 4)
    BY <1>0 DEF Readable, Layout
  <2>2. sec = part /\ l.indent > 0 => InPart(d, n+1, part)
    BY <1>0, InPartNext
  <2> HIDE DEF l
  <2> QED BY <1>1, <2>1, <2>2
<1>3. ASSUME h \in 1..Len(d), MemberAt(d, n+1, h) PROVE h \in 1..n
  BY <1>3 DEF MemberAt, Heads
<1>4. h \in 1..n /\ EntryAt(d, h, part) =>
        (Heads(d, h, n+1) <=> sec = part /\ cur # Unset /\ d[h].key = cur /\ l.indent > 2)
  BY <1>0, HeadsNext
<1> QED BY <1>0, <1>1, <1>2, <1>3, <1>4 DEF MemberAt

LEMMA PhoneNext ==
  ASSUME NEW d, Readable(d), NEW n \in Nat, n < Len(d), NEW sec, Place(d, n, sec),
         NEW cur, Named(d, n, sec, cur), NEW ph \in BOOLEAN, Phoning(d, n, sec, ph), NEW h
  PROVE  h \in 1..Len(d) /\ PhoneAt(d, n+1, h) <=>
           /\ h \in 1..n /\ EntryAt(d, h, "approvers") /\ d[h].key = cur
           /\ sec = "approvers" /\ cur # Unset /\ ph
           /\ d[n+1].form = "item" /\ d[n+1].indent >= 6
<1> DEFINE part == "approvers"
           l == d[n+1]
           P(g) == d[g] = Key(4, "phones")
<1>0. part \in Parts /\ n+1 \in 1..Len(d) /\ 1..n \subseteq 1..Len(d) /\ n <= Len(d)
  BY DEF Parts, Readable
<1>1. l.indent \in {0, 2, 4, 6} /\ \A g \in 1..n : P(g) => d[g].indent = 4
  BY <1>0, LineType, KeyLine
<1>2. ASSUME h \in 1..Len(d), PhoneAt(d, n+1, h) PROVE h \in 1..n
  BY <1>2 DEF PhoneAt, Heads
<1>3. h \in 1..n /\ EntryAt(d, h, part) =>
        (Heads(d, h, n+1) <=> sec = part /\ cur # Unset /\ d[h].key = cur /\ l.indent > 2)
  BY <1>0, HeadsNext
<1>4. ASSUME h \in 1..n, EntryAt(d, h, part), Heads(d, h, n+1), l.indent = 6, sec = part
      PROVE  (\E g \in h+1..n+1-1 : P(g) /\ Heads(d, g, n+1)) <=> ph
  <2>0. Open(d, h, n) /\ d[h].indent = 2
    BY <1>4, OpenNext DEF EntryAt
  <2>1. \A g \in 1..n : P(g) => (Heads(d, g, n+1) <=> Open(d, g, n))
    BY <1>1, <1>4, OpenNext
  <2>2. ASSUME NEW g \in 1..n, P(g), Open(d, g, n) PROVE g \in h+1..n+1-1
    <3>1. ~(g < h)
      BY <1>0, <1>1, <1>4, <2>0, <2>2, OpenBelow
    <3>2. g # h
      BY <1>1, <2>0, <2>2
    <3> QED BY <1>4, <3>1, <3>2
  <2>3. \A g \in h+1..n+1-1 : g \in 1..n
    BY <1>4
  <2>4. ph <=> \E g \in 1..n : P(g) /\ Open(d, g, n)
    BY <1>4 DEF Phoning
  <2> HIDE DEF P
  <2> QED BY <2>1, <2>2, <2>3, <2>4
<1>5. l.indent >= 6 <=> l.indent = 6
  BY <1>1
<1>6. ASSUME h \in 1..n, EntryAt(d, h, part)
      PROVE  PhoneAt(d, n+1, h) <=> /\ l.form = "item" /\ l.indent = 6
                                    /\ Heads(d, h, n+1) /\ ph
  <2>1. PhoneAt(d, n+1, h) <=>
          /\ l.form = "item" /\ l.indent = 6 /\ Heads(d, h, n+1)
          /\ \E g \in h+1..n+1-1 : P(g) /\ Heads(d, g, n+1)
    BY <1>6 DEF PhoneAt
  <2>2. Heads(d, h, n+1) => sec = part
    BY <1>3, <1>6
  <2> HIDE DEF P, l
  <2> QED BY <1>4, <1>6, <2>1, <2>2
<1>7. PhoneAt(d, n+1, h) => EntryAt(d, h, part)
  BY DEF PhoneAt
<1>8. l.indent = 6 => l.indent > 2
  OBVIOUS
<1> HIDE DEF l
<1>9. h \in 1..Len(d) /\ PhoneAt(d, n+1, h) <=>
           /\ h \in 1..n /\ EntryAt(d, h, part) /\ d[h].key = cur
           /\ sec = part /\ cur # Unset /\ ph
           /\ l.form = "item" /\ l.indent >= 6
  BY <1>0, <1>2, <1>3, <1>5, <1>6, <1>7, <1>8
<1> QED BY <1>9 DEF l

LEMMA RouteNext ==
  ASSUME NEW d, Readable(d), NEW n \in Nat, n < Len(d), NEW sec, Place(d, n, sec),
         NEW cur, Named(d, n, sec, cur), NEW h
  PROVE  h \in 1..Len(d) /\ RouteAt(d, n+1, h) <=>
           /\ h \in 1..n /\ EntryAt(d, h, "routing") /\ d[h].key = cur
           /\ sec = "routing" /\ cur # Unset
           /\ d[n+1].form # "item" /\ d[n+1].indent >= 4 /\ d[n+1].key = "approver_set"
<1> DEFINE part == "routing"
           l == d[n+1]
<1>0. part \in Parts /\ n+1 \in 1..Len(d) /\ 1..n \subseteq 1..Len(d)
  BY DEF Parts, Readable
<1>1. l.indent \in {0, 2, 4, 6}
  BY <1>0, LineType
<1>2. l.key = "approver_set" /\ sec = part /\ l.indent >= 4 => l.indent = 4
  <2>1. InPart(d, n+1, part) => (l.key = "approver_set" => l.indent # 6)
    BY <1>0 DEF Readable, Layout
  <2>2. sec = part /\ l.indent > 0 => InPart(d, n+1, part)
    BY <1>0, InPartNext
  <2> HIDE DEF l
  <2> QED BY <1>1, <2>1, <2>2
<1>3. ASSUME h \in 1..Len(d), RouteAt(d, n+1, h) PROVE h \in 1..n
  BY <1>3 DEF RouteAt, Heads
<1>4. h \in 1..n /\ EntryAt(d, h, part) =>
        (Heads(d, h, n+1) <=> sec = part /\ cur # Unset /\ d[h].key = cur /\ l.indent > 2)
  BY <1>0, HeadsNext
<1> QED BY <1>0, <1>1, <1>2, <1>3, <1>4 DEF RouteAt

-----------------------------------------------------------------------------
(* The maps of the ApproversPolicy *)

\* After n lines m has one list for each entry in E, with the values of the lines
\* that L attaches to it.
Filled(d, n, m, E, L) ==
  /\ DOMAIN m = {d[h].key : h \in {h \in E : h <= n}}
  /\ \A k \in DOMAIN m : m[k] \in Seq(STRING)
  /\ \A h \in E : h <= n => \A v :
       v \in ToSet(m[d[h].key]) <=> \E i \in 1..n : <<i, h>> \in L /\ d[i].value = v

\* Entries have different names, and lines follow the entry they belong to.
Entered(d, E, L) ==
  /\ E \subseteq 1..Len(d)
  /\ \A g, h \in E : d[g].key = d[h].key => g = h
  /\ \A i, h : <<i, h>> \in L => i \in 1..Len(d) /\ h \in E /\ h < i

LEMMA FilledSkip ==
  ASSUME NEW d, NEW n \in Nat, n < Len(d), NEW m, NEW E, NEW L, Entered(d, E, L),
         Filled(d, n, m, E, L), n+1 \notin E, \A h : <<n+1, h>> \notin L
  PROVE  Filled(d, n+1, m, E, L)
<1>1. \A h \in E : h \in Nat /\ (h <= n+1 <=> h <= n)
  BY DEF Entered
<1>2. \A i : i \in 1..n+1 <=> i \in 1..n \/ i = n+1
  OBVIOUS
<1>3. {h \in E : h <= n+1} = {h \in E : h <= n}
  BY <1>1
<1> QED BY <1>1, <1>2, <1>3 DEF Filled

LEMMA FilledEntry ==
  ASSUME NEW d, NEW n \in Nat, n < Len(d), NEW m, NEW E, NEW L, Entered(d, E, L),
         Filled(d, n, m, E, L), n+1 \in E, \A h : <<n+1, h>> \notin L
  PROVE  Filled(d, n+1, Put(m, d[n+1].key, << >>), E, L)
<1> DEFINE k == d[n+1].key
           new == Put(m, k, << >>)
<1>1. \A h \in E : h \in Nat /\ (h <= n+1 <=> h <= n \/ h = n+1)
  BY DEF Entered
<1>2. \A i : i \in 1..n+1 <=> i \in 1..n \/ i = n+1
  OBVIOUS
<1>3. /\ DOMAIN new = DOMAIN m \cup {k}
      /\ new[k] = << >>
      /\ \A x \in DOMAIN m : x # k => new[x] = m[x]
  BY DEF Put
<1>4. \A h \in E : h <= n => d[h].key # k
  BY DEF Entered
<1> HIDE DEF k, new
<1>5. DOMAIN new = {d[h].key : h \in {h \in E : h <= n+1}}
  BY <1>1, <1>3 DEF Filled, k
<1>6. ASSUME NEW x \in DOMAIN new PROVE new[x] \in Seq(STRING)
  <2>1. CASE x = k
    BY <1>3, <2>1
  <2>2. CASE x # k
    BY <1>3, <2>2 DEF Filled
  <2> QED BY <2>1, <2>2
<1>7. ASSUME NEW h \in E, h <= n+1, NEW v
      PROVE  v \in ToSet(new[d[h].key]) <=> \E i \in 1..n+1 : <<i, h>> \in L /\ d[i].value = v
  <2>1. CASE h = n+1
    <3>1. v \notin ToSet(new[d[h].key])
      BY <1>3, <2>1 DEF k, ToSet
    <3>2. \A i \in 1..n+1 : <<i, h>> \notin L
      BY <2>1 DEF Entered
    <3> QED BY <3>1, <3>2
  <2>2. CASE h # n+1
    <3>1. h <= n /\ d[h].key \in DOMAIN m /\ d[h].key # k
      BY <1>1, <1>4, <1>7, <2>2 DEF Filled
    <3>2. new[d[h].key] = m[d[h].key]
      BY <1>3, <3>1
    <3> QED BY <1>2, <3>1, <3>2 DEF Filled
  <2> QED BY <2>1, <2>2
<1>8. Filled(d, n+1, new, E, L)
  BY <1>5, <1>6, <1>7 DEF Filled
<1> QED BY <1>8 DEF new, k

LEMMA FilledItem ==
  ASSUME NEW d, NEW n \in Nat, n < Len(d), NEW m, NEW E, NEW L, Entered(d, E, L),
         Filled(d, n, m, E, L), n+1 \notin E, d[n+1].value \in STRING,
         NEW cur, \E h \in E : h <= n /\ d[h].key = cur,
         \A h : <<n+1, h>> \in L <=> h \in E /\ h <= n /\ d[h].key = cur
  PROVE  Filled(d, n+1, [m EXCEPT ![cur] = Append(@, d[n+1].value)], E, L)
<1> DEFINE w == d[n+1].value
           new == [m EXCEPT ![cur] = Append(@, w)]
<1>1. ASSUME NEW h \in E PROVE h \in Nat /\ (h <= n+1 <=> h <= n)
  <2>1. h \in 1..Len(d) /\ h # n+1
    BY DEF Entered
  <2> QED BY <2>1
<1>2. \A i : i \in 1..n+1 <=> i \in 1..n \/ i = n+1
  OBVIOUS
<1>3. cur \in DOMAIN m
  BY DEF Filled
<1>4. /\ DOMAIN new = DOMAIN m
      /\ new[cur] = Append(m[cur], w)
      /\ \A x \in DOMAIN m : x # cur => new[x] = m[x]
  BY <1>3
<1>5. m[cur] \in Seq(STRING)
  BY <1>3 DEF Filled
<1> HIDE DEF w, new
<1>6. /\ \A y : y \in ToSet(Append(m[cur], w)) <=> y \in ToSet(m[cur]) \/ y = w
      /\ Append(m[cur], w) \in Seq(STRING)
  <2>1. w \in STRING
    BY DEF w
  <2> QED BY <1>5, <2>1, AppendSet, Zenon
<1>7. DOMAIN new = {d[h].key : h \in {h \in E : h <= n+1}}
  BY <1>1, <1>4 DEF Filled
<1>8. \A x \in DOMAIN new : new[x] \in Seq(STRING)
  BY <1>4, <1>6 DEF Filled
<1>9. ASSUME NEW h \in E, h <= n+1, NEW v
      PROVE  v \in ToSet(new[d[h].key]) <=> \E i \in 1..n+1 : <<i, h>> \in L /\ d[i].value = v
  <2>0. h <= n
    BY <1>1, <1>9
  <2>1. CASE d[h].key = cur
    <3>1. v \in ToSet(new[d[h].key]) <=> v \in ToSet(m[d[h].key]) \/ v = w
      BY <1>4, <1>6, <2>1
    <3>2. <<n+1, h>> \in L
      BY <2>0, <2>1
    <3> QED BY <1>2, <2>0, <3>1, <3>2 DEF Filled, w
  <2>2. CASE d[h].key # cur
    <3>1. d[h].key \in DOMAIN m
      BY <2>0 DEF Filled
    <3>2. new[d[h].key] = m[d[h].key]
      BY <1>4, <2>2, <3>1
    <3>3. <<n+1, h>> \notin L
      BY <2>2
    <3> QED BY <1>2, <2>0, <3>2, <3>3 DEF Filled
  <2> QED BY <2>1, <2>2
<1>10. Filled(d, n+1, new, E, L)
  BY <1>7, <1>8, <1>9 DEF Filled
<1> QED BY <1>10 DEF new, w

\* After n lines r routes q to v if a line up to n says so.
RoutesSet(d, n, r, L) ==
  \A q, v : (q \in DOMAIN r /\ r[q] = v) <=>
    \E i \in 1..n : \E h \in 1..Len(d) : <<i, h>> \in L /\ d[h].key = q /\ d[i].value = v

LEMMA RoutesSkip ==
  ASSUME NEW d, NEW n \in Nat, NEW r, NEW L, RoutesSet(d, n, r, L),
         \A h \in 1..Len(d) : <<n+1, h>> \notin L
  PROVE  RoutesSet(d, n+1, r, L)
<1>1. \A i : i \in 1..n+1 <=> i \in 1..n \/ i = n+1
  OBVIOUS
<1> DEFINE Told(k, q, v) ==
      \E i \in 1..k : \E h \in 1..Len(d) : <<i, h>> \in L /\ d[h].key = q /\ d[i].value = v
<1>2. \A q, v : Told(n+1, q, v) <=> Told(n, q, v)
  BY <1>1
<1>3. \A q, v : (q \in DOMAIN r /\ r[q] = v) <=> Told(n, q, v)
  BY Zenon DEF RoutesSet
<1> HIDE DEF Told
<1>4. \A q, v : (q \in DOMAIN r /\ r[q] = v) <=> Told(n+1, q, v)
  BY <1>2, <1>3, Zenon
<1> QED BY <1>4, Zenon DEF RoutesSet, Told

LEMMA RoutesLine ==
  ASSUME NEW d, NEW n \in Nat, NEW r, NEW L, RoutesSet(d, n, r, L), n < Len(d), Len(d) \in Nat,
         NEW cur, NEW g \in 1..Len(d), d[g].key = cur,
         \A h \in 1..Len(d) : <<n+1, h>> \in L <=> h = g,
         \A i \in 1..n : <<i, g>> \notin L,
         \A i \in 1..n : \A h \in 1..Len(d) : <<i, h>> \in L /\ d[h].key = cur => h = g
  PROVE  RoutesSet(d, n+1, Put(r, cur, d[n+1].value), L)
<1> DEFINE w == d[n+1].value
           new == Put(r, cur, w)
<1>1. \A i : i \in 1..n+1 <=> i \in 1..n \/ i = n+1
  OBVIOUS
<1>2. /\ DOMAIN new = DOMAIN r \cup {cur}
      /\ new[cur] = w
      /\ \A x \in DOMAIN r : x # cur => new[x] = r[x]
  BY DEF Put
<1> HIDE DEF new
<1>3. ASSUME NEW q, NEW v
      PROVE  (q \in DOMAIN new /\ new[q] = v) <=>
               \E i \in 1..n+1 : \E h \in 1..Len(d) : <<i, h>> \in L /\ d[h].key = q /\ d[i].value = v
  <2>1. CASE q = cur
    <3>1. (q \in DOMAIN new /\ new[q] = v) <=> v = w
      BY <1>2, <2>1
    <3>2. \A i \in 1..n : \A h \in 1..Len(d) : ~(<<i, h>> \in L /\ d[h].key = q)
      BY <2>1
    <3> QED BY <1>1, <2>1, <3>1, <3>2
  <2>2. CASE q # cur
    <3>1. (q \in DOMAIN new /\ new[q] = v) <=> (q \in DOMAIN r /\ r[q] = v)
      BY <1>2, <2>2
    <3>2. \A h \in 1..Len(d) : ~(<<n+1, h>> \in L /\ d[h].key = q)
      BY <2>2
    <3> DEFINE Told(k) ==
          \E i \in 1..k : \E h \in 1..Len(d) : <<i, h>> \in L /\ d[h].key = q /\ d[i].value = v
    <3>3. Told(n+1) <=> Told(n)
      BY <1>1, <3>2
    <3>4. (q \in DOMAIN r /\ r[q] = v) <=> Told(n)
      BY Zenon DEF RoutesSet
    <3> QED BY <3>1, <3>3, <3>4, Zenon
  <2> QED BY <2>1, <2>2
<1>4. RoutesSet(d, n+1, new, L)
  BY <1>3 DEF RoutesSet
<1> QED BY <1>4 DEF new

-----------------------------------------------------------------------------
(* One line of approvers.yaml *)

Numbers(d) == (1..Len(d)) \X (1..Len(d))
MemberPairs(d) == {x \in Numbers(d) : MemberAt(d, x[1], x[2])}
PhonePairs(d) == {x \in Numbers(d) : PhoneAt(d, x[1], x[2])}
RoutePairs(d) == {x \in Numbers(d) : RouteAt(d, x[1], x[2])}

Entries(d, part) == {h \in 1..Len(d) : EntryAt(d, h, part)}

LEMMA PairsAt ==
  ASSUME NEW d, NEW i, NEW h
  PROVE  /\ <<i, h>> \in MemberPairs(d) <=>
              i \in 1..Len(d) /\ h \in 1..Len(d) /\ MemberAt(d, i, h)
         /\ <<i, h>> \in PhonePairs(d) <=>
              i \in 1..Len(d) /\ h \in 1..Len(d) /\ PhoneAt(d, i, h)
         /\ <<i, h>> \in RoutePairs(d) <=>
              i \in 1..Len(d) /\ h \in 1..Len(d) /\ RouteAt(d, i, h)
BY DEF MemberPairs, PhonePairs, RoutePairs, Numbers

LEMMA EnteredHere ==
  ASSUME NEW d, Readable(d)
  PROVE  /\ Entered(d, Entries(d, "approver_sets"), MemberPairs(d))
         /\ Entered(d, Entries(d, "approvers"), PhonePairs(d))
<1>1. ASSUME NEW part \in Parts, NEW g \in Entries(d, part), NEW h \in Entries(d, part),
             d[g].key = d[h].key
      PROVE  g = h
  BY <1>1 DEF Readable, NoneTwice, Entries
<1>2. \A part : Entries(d, part) \subseteq 1..Len(d)
  BY DEF Entries
<1>3. \A i, h : <<i, h>> \in MemberPairs(d) =>
         i \in 1..Len(d) /\ h \in Entries(d, "approver_sets") /\ h < i
  BY PairsAt DEF MemberAt, Entries, Heads
<1>4. \A i, h : <<i, h>> \in PhonePairs(d) =>
         i \in 1..Len(d) /\ h \in Entries(d, "approvers") /\ h < i
  BY PairsAt DEF PhoneAt, Entries, Heads
<1>5. "approver_sets" \in Parts /\ "approvers" \in Parts
  BY DEF Parts
<1> QED BY <1>1, <1>2, <1>3, <1>4, <1>5 DEF Entered

\* Where parseApprovers is after n lines.
Reader(d, n, sec, cur, ph) ==
  /\ Place(d, n, sec) /\ Named(d, n, sec, cur) /\ Phoning(d, n, sec, ph)
  /\ ph \in BOOLEAN

IsEntry(l) == l.indent = 2 /\ l.form = "key"

LEMMA EntryNext ==
  ASSUME NEW d, Readable(d), NEW n \in Nat, n < Len(d), NEW sec, Place(d, n, sec),
         NEW part \in Parts
  PROVE  n+1 \in Entries(d, part) <=> sec = part /\ IsEntry(d[n+1])
<1>1. n+1 \in 1..Len(d)
  BY DEF Readable
<1>2. InPart(d, n+1, part) <=> sec = part /\ d[n+1].indent > 0
  BY InPartNext
<1> QED BY <1>1, <1>2 DEF Entries, EntryAt, IsEntry

\* current names an entry that the map has.
LEMMA CurrentEntered ==
  ASSUME NEW d, Readable(d), NEW n \in Nat, n < Len(d), NEW cur, NEW part \in Parts,
         Named(d, n, part, cur), cur # Unset
  PROVE  \E h \in Entries(d, part) : h <= n /\ d[h].key = cur
<1>1. PICK h \in 1..n : EntryAt(d, h, part) /\ d[h].key = cur
  BY DEF Named
<1>2. h \in Entries(d, part) /\ h <= n
  BY <1>1 DEF Entries, Readable
<1> QED BY <1>1, <1>2

LEMMA SetsNext ==
  ASSUME NEW d, Readable(d), NEW n \in Nat, n < Len(d),
         NEW sec, NEW cur, NEW ph, Reader(d, n, sec, cur, ph),
         NEW m, Filled(d, n, m, Entries(d, "approver_sets"), MemberPairs(d))
  PROVE  LET l == d[n+1]
             here == sec = "approver_sets"
             listed == l.form = "item" /\ l.indent >= 4 /\ cur # Unset
             Then(new) == Filled(d, n+1, new, Entries(d, "approver_sets"), MemberPairs(d))
         IN /\ here /\ IsEntry(l) => Then(Put(m, l.key, << >>))
            /\ here /\ listed => Then([m EXCEPT ![cur] = Append(@, l.value)])
            /\ ~(here /\ (IsEntry(l) \/ listed)) => Then(m)
<1> DEFINE l == d[n+1]
           part == "approver_sets"
           here == sec = part
           listed == l.form = "item" /\ l.indent >= 4 /\ cur # Unset
           E == Entries(d, part)
           L == MemberPairs(d)
<1>0. part \in Parts /\ n+1 \in 1..Len(d) /\ l.value \in STRING
  BY LineType DEF Parts, Readable
<1>1. Entered(d, E, L)
  BY EnteredHere
<1>2. n+1 \in E <=> here /\ IsEntry(l)
  BY <1>0, EntryNext DEF Reader
<1>3. \A h : <<n+1, h>> \in L <=> h \in E /\ h <= n /\ d[h].key = cur /\ here /\ listed
  <2>1. \A h : h \in E /\ h <= n <=> h \in 1..n /\ EntryAt(d, h, part)
    BY <1>0 DEF Entries
  <2> QED BY <1>0, <2>1, PairsAt, MemberNext DEF Reader
<1>4. ~(IsEntry(l) /\ listed)
  BY DEF IsEntry
<1>5. here /\ listed => \E h \in E : h <= n /\ d[h].key = cur
  BY <1>0, CurrentEntered DEF Reader
<1> HIDE DEF E, L, here, listed, part, l
<1>6. Filled(d, n, m, E, L)
  BY DEF E, L, part
<1>7. ASSUME here, IsEntry(l) PROVE Filled(d, n+1, Put(m, l.key, << >>), E, L)
  <2>1. \A h : <<n+1, h>> \notin L
    BY <1>3, <1>4, <1>7
  <2> QED BY <1>1, <1>2, <1>6, <1>7, <2>1, FilledEntry DEF l
<1>8. ASSUME here, listed PROVE Filled(d, n+1, [m EXCEPT ![cur] = Append(@, l.value)], E, L)
  <2>1. n+1 \notin E
    BY <1>2, <1>4, <1>8
  <2>2. \A h : <<n+1, h>> \in L <=> h \in E /\ h <= n /\ d[h].key = cur
    BY <1>3, <1>8
  <2> QED BY <1>0, <1>1, <1>5, <1>6, <1>8, <2>1, <2>2, FilledItem DEF l
<1>9. ASSUME ~(here /\ (IsEntry(l) \/ listed)) PROVE Filled(d, n+1, m, E, L)
  <2>1. n+1 \notin E /\ \A h : <<n+1, h>> \notin L
    BY <1>2, <1>3, <1>9
  <2> QED BY <1>1, <1>6, <2>1, FilledSkip
<1> QED BY <1>7, <1>8, <1>9 DEF E, L, here, listed, part, l

LEMMA PhonesNext ==
  ASSUME NEW d, Readable(d), NEW n \in Nat, n < Len(d),
         NEW sec, NEW cur, NEW ph, Reader(d, n, sec, cur, ph),
         NEW m, Filled(d, n, m, Entries(d, "approvers"), PhonePairs(d))
  PROVE  LET l == d[n+1]
             here == sec = "approvers"
             listed == ph /\ l.form = "item" /\ l.indent >= 6 /\ cur # Unset
             Then(new) == Filled(d, n+1, new, Entries(d, "approvers"), PhonePairs(d))
         IN /\ here /\ IsEntry(l) => Then(Put(m, l.key, << >>))
            /\ here /\ listed => Then([m EXCEPT ![cur] = Append(@, l.value)])
            /\ ~(here /\ (IsEntry(l) \/ listed)) => Then(m)
<1> DEFINE l == d[n+1]
           part == "approvers"
           here == sec = part
           listed == ph /\ l.form = "item" /\ l.indent >= 6 /\ cur # Unset
           E == Entries(d, part)
           L == PhonePairs(d)
<1>0. part \in Parts /\ n+1 \in 1..Len(d) /\ l.value \in STRING
  BY LineType DEF Parts, Readable
<1>1. Entered(d, E, L)
  BY EnteredHere
<1>2. n+1 \in E <=> here /\ IsEntry(l)
  BY <1>0, EntryNext DEF Reader
<1>3. \A h : <<n+1, h>> \in L <=> h \in E /\ h <= n /\ d[h].key = cur /\ here /\ listed
  <2>1. \A h : h \in E /\ h <= n <=> h \in 1..n /\ EntryAt(d, h, part)
    BY <1>0 DEF Entries
  <2> QED BY <1>0, <2>1, PairsAt, PhoneNext DEF Reader
<1>4. ~(IsEntry(l) /\ listed)
  BY DEF IsEntry
<1>5. here /\ listed => \E h \in E : h <= n /\ d[h].key = cur
  BY <1>0, CurrentEntered DEF Reader
<1> HIDE DEF E, L, here, listed, part, l
<1>6. Filled(d, n, m, E, L)
  BY DEF E, L, part
<1>7. ASSUME here, IsEntry(l) PROVE Filled(d, n+1, Put(m, l.key, << >>), E, L)
  <2>1. \A h : <<n+1, h>> \notin L
    BY <1>3, <1>4, <1>7
  <2> QED BY <1>1, <1>2, <1>6, <1>7, <2>1, FilledEntry DEF l
<1>8. ASSUME here, listed PROVE Filled(d, n+1, [m EXCEPT ![cur] = Append(@, l.value)], E, L)
  <2>1. n+1 \notin E
    BY <1>2, <1>4, <1>8
  <2>2. \A h : <<n+1, h>> \in L <=> h \in E /\ h <= n /\ d[h].key = cur
    BY <1>3, <1>8
  <2> QED BY <1>0, <1>1, <1>5, <1>6, <1>8, <2>1, <2>2, FilledItem DEF l
<1>9. ASSUME ~(here /\ (IsEntry(l) \/ listed)) PROVE Filled(d, n+1, m, E, L)
  <2>1. n+1 \notin E /\ \A h : <<n+1, h>> \notin L
    BY <1>2, <1>3, <1>9
  <2> QED BY <1>1, <1>6, <2>1, FilledSkip
<1> QED BY <1>7, <1>8, <1>9 DEF E, L, here, listed, part, l

LEMMA RoutingNext ==
  ASSUME NEW d, Readable(d), NEW n \in Nat, n < Len(d),
         NEW sec, NEW cur, NEW ph, Reader(d, n, sec, cur, ph),
         NEW r, RoutesSet(d, n, r, RoutePairs(d))
  PROVE  LET l == d[n+1]
             routed == /\ sec = "routing" /\ l.indent >= 4 /\ cur # Unset
                       /\ l.form # "item" /\ l.key = "approver_set"
             Then(new) == RoutesSet(d, n+1, new, RoutePairs(d))
         IN /\ routed => Then(Put(r, cur, l.value))
            /\ ~routed => Then(r)
<1> DEFINE l == d[n+1]
           part == "routing"
           routed == /\ sec = part /\ l.indent >= 4 /\ cur # Unset
                     /\ l.form # "item" /\ l.key = "approver_set"
           L == RoutePairs(d)
<1>0. part \in Parts /\ n+1 \in 1..Len(d) /\ Len(d) \in Nat /\ n < Len(d)
  BY LineType DEF Parts, Readable
<1>1. \A h : <<n+1, h>> \in L <=> h \in 1..n /\ EntryAt(d, h, part) /\ d[h].key = cur /\ routed
  BY <1>0, PairsAt, RouteNext DEF Reader
<1>2. \A i, h : <<i, h>> \in L => /\ i \in 1..Len(d) /\ h \in 1..Len(d)
                                  /\ RouteAt(d, i, h) /\ EntryAt(d, h, part)
  BY PairsAt DEF RouteAt
<1>3. routed => \E h \in 1..n : EntryAt(d, h, part) /\ d[h].key = cur
  BY <1>0 DEF Reader, Named
<1>4. \A g, h \in 1..Len(d) :
        EntryAt(d, g, part) /\ EntryAt(d, h, part) /\ d[g].key = d[h].key => g = h
  BY <1>0 DEF Readable, NoneTwice
<1>5. \A h, i, j \in 1..Len(d) : RouteAt(d, i, h) /\ RouteAt(d, j, h) => i = j
  BY DEF Readable, NoneTwice
<1> HIDE DEF routed, L, l, part
<1>6. RoutesSet(d, n, r, L)
  BY DEF L
<1>7. ASSUME routed PROVE RoutesSet(d, n+1, Put(r, cur, l.value), L)
  <2>1. PICK g \in 1..n : EntryAt(d, g, part) /\ d[g].key = cur
    BY <1>3, <1>7
  <2>2. g \in 1..Len(d)
    BY <1>0
  <2>3. \A h \in 1..Len(d) : <<n+1, h>> \in L <=> h = g
    BY <1>1, <1>4, <1>7, <2>1, <2>2
  <2>4. \A i \in 1..n : <<i, g>> \notin L
    <3>1. <<n+1, g>> \in L
      BY <2>2, <2>3
    <3>2. \A i \in 1..n : i # n+1
      OBVIOUS
    <3> QED BY <1>0, <1>2, <1>5, <2>2, <3>1, <3>2
  <2>5. \A i \in 1..n : \A h \in 1..Len(d) : <<i, h>> \in L /\ d[h].key = cur => h = g
    BY <1>2, <1>4, <2>1, <2>2
  <2> QED BY <1>0, <1>6, <2>1, <2>2, <2>3, <2>4, <2>5, RoutesLine DEF l
<1>8. ASSUME ~routed PROVE RoutesSet(d, n+1, r, L)
  <2>1. \A h \in 1..Len(d) : <<n+1, h>> \notin L
    BY <1>1, <1>8
  <2> QED BY <1>6, <2>1, RoutesSkip
<1> QED BY <1>7, <1>8 DEF routed, L, l, part

LEMMA ReaderTop ==
  ASSUME NEW d, Readable(d), NEW n \in Nat, n < Len(d),
         NEW sec, NEW cur, NEW ph, Reader(d, n, sec, cur, ph), d[n+1].indent = 0
  PROVE  LET l == d[n+1]
         IN /\ l.form = "key" =>
                 Reader(d, n+1, IF l.key \in Parts THEN l.key ELSE "none", Unset, FALSE)
            /\ l.form # "key" => Reader(d, n+1, "none", cur, ph)
<1> DEFINE l == d[n+1]
           top == IF l.form = "key" /\ l.key \in Parts THEN l.key ELSE "none"
<1>1. Place(d, n+1, top)
  BY PlaceNext DEF Reader
<1>2. \A part : Named(d, n+1, part, Unset) /\ Phoning(d, n+1, part, FALSE)
  BY NamedNext, PhoningNext DEF Reader
<1>3. Named(d, n+1, "none", cur) /\ Phoning(d, n+1, "none", ph)
  BY PartsNone DEF Named, Phoning
<1>4. ASSUME l.form = "key" PROVE Reader(d, n+1, top, Unset, FALSE)
  <2>1. FALSE \in BOOLEAN
    OBVIOUS
  <2> HIDE DEF top
  <2> QED BY <1>1, <1>2, <2>1 DEF Reader
<1>5. ASSUME l.form # "key" PROVE Reader(d, n+1, "none", cur, ph)
  BY <1>1, <1>3, <1>5 DEF Reader
<1> QED BY <1>4, <1>5

LEMMA ReaderBelow ==
  ASSUME NEW d, Readable(d), NEW n \in Nat, n < Len(d),
         NEW sec, NEW cur, NEW ph, Reader(d, n, sec, cur, ph), d[n+1].indent # 0
  PROVE  LET l == d[n+1]
             phones == ~IsEntry(l) /\ (l = Key(4, "phones") \/ (ph /\ l.indent # 4))
         IN /\ sec = "none" => Reader(d, n+1, sec, cur, ph)
            /\ sec \in Parts => \A p \in BOOLEAN : (sec = "approvers" => p = phones) =>
                 Reader(d, n+1, sec, IF IsEntry(l) THEN l.key ELSE cur, p)
<1> DEFINE l == d[n+1]
           phones == ~IsEntry(l) /\ (l = Key(4, "phones") \/ (ph /\ l.indent # 4))
           next == IF IsEntry(l) THEN l.key ELSE cur
<1>0. n+1 \in 1..Len(d) /\ l.indent \in {2, 4, 6}
  BY LineType DEF Readable
<1>1. Place(d, n+1, sec)
  BY <1>0, PlaceNext DEF Reader
<1>2. ASSUME sec = "none" PROVE Reader(d, n+1, sec, cur, ph)
  BY <1>1, <1>2, PartsNone DEF Reader, Named, Phoning
<1>3. ASSUME sec \in Parts PROVE IsEntry(l) <=> l.indent = 2
  <2>1. InPart(d, n+1, sec)
    BY <1>0, <1>3, InPartNext DEF Reader
  <2> QED BY <1>0, <1>3, <2>1 DEF IsEntry, Readable, Layout
<1>4. ASSUME sec \in Parts PROVE Named(d, n+1, sec, next)
  BY <1>0, <1>3, <1>4, NamedNext DEF Reader
<1>5. ASSUME sec \in Parts, NEW p \in BOOLEAN, sec = "approvers" => p = phones
      PROVE  Phoning(d, n+1, sec, p)
  <2>1. CASE sec # "approvers"
    BY <2>1 DEF Phoning
  <2>2. CASE sec = "approvers" /\ l.indent = 2
    <3>1. p = FALSE
      BY <1>3, <1>5, <2>2
    <3> QED BY <2>2, <3>1, PhoningNext DEF Reader
  <2>3. CASE sec = "approvers" /\ l.indent = 4
    <3>1. p = (l = Key(4, "phones"))
      BY <1>3, <1>5, <2>3
    <3>2. Phoning(d, n+1, sec, l = Key(4, "phones"))
      BY <2>3, PhoningNext DEF Reader
    <3> QED BY <3>1, <3>2
  <2>4. CASE sec = "approvers" /\ l.indent = 6
    <3>1. l # Key(4, "phones")
      BY <1>0, <2>4, KeyLine
    <3>2. p = ph
      BY <1>3, <1>5, <2>4, <3>1 DEF Reader
    <3>3. Phoning(d, n+1, sec, ph)
      <4>1. l.indent \notin {0, 2, 4}
        BY <2>4
      <4> QED BY <4>1, PhoningNext DEF Reader
    <3> QED BY <3>2, <3>3
  <2> QED BY <1>0, <2>1, <2>2, <2>3, <2>4
<1>6. ASSUME sec \in Parts, NEW p \in BOOLEAN, sec = "approvers" => p = phones
      PROVE  Reader(d, n+1, sec, next, p)
  BY <1>1, <1>4, <1>5, <1>6 DEF Reader
<1> QED BY <1>2, <1>6

-----------------------------------------------------------------------------
(* parseApprovers: what has been read is what the lines say *)

Shape == policy = [sets |-> policy.sets, phones |-> policy.phones, routing |-> policy.routing]

Maps(d, n, p) ==
  /\ Filled(d, n, p.sets, Entries(d, "approver_sets"), MemberPairs(d))
  /\ Filled(d, n, p.phones, Entries(d, "approvers"), PhonePairs(d))
  /\ RoutesSet(d, n, p.routing, RoutePairs(d))

Read ==
  /\ pos \in 0..Len(doc)
  /\ Reader(doc, pos, section, current, inPhones)
  /\ Shape
  /\ Maps(doc, pos, policy)

LEMMA ScanFacts ==
  ASSUME Readable(doc), Read, Scan
  PROVE  /\ doc' = doc /\ pos' = pos+1 /\ pos \in Nat /\ pos < Len(doc) /\ pos' \in 0..Len(doc)
         /\ pos+1 \in 1..Len(doc)
         /\ TopLevel <=> line.indent = 0
<1>1. doc' = doc /\ pos' = pos+1 /\ pos \in Nat /\ pos < Len(doc) /\ Len(doc) \in Nat
  BY DEF Scan, Read, input, Readable
<1>2. pos+1 \in 1..Len(doc)
  BY <1>1
<1>3. line.indent = 0 => line.form # "item"
  BY <1>2, LineType DEF line
<1> QED BY <1>1, <1>2, <1>3 DEF TopLevel

\* Where a line is of no concern to a map, the map stays.
LEMMA MapsSkip ==
  ASSUME Readable(doc), Read, pos < Len(doc)
  PROVE  /\ section # "approver_sets" \/ line.indent = 0 =>
              Filled(doc, pos+1, policy.sets, Entries(doc, "approver_sets"), MemberPairs(doc))
         /\ section # "approvers" \/ line.indent = 0 =>
              Filled(doc, pos+1, policy.phones, Entries(doc, "approvers"), PhonePairs(doc))
         /\ section # "routing" \/ line.indent = 0 =>
              RoutesSet(doc, pos+1, policy.routing, RoutePairs(doc))
<1>0. pos \in Nat
  BY DEF Read, Readable
<1>1. section # "approver_sets" \/ line.indent = 0 =>
        Filled(doc, pos+1, policy.sets, Entries(doc, "approver_sets"), MemberPairs(doc))
  <2> DEFINE listed == line.form = "item" /\ line.indent >= 4 /\ current # Unset
  <2>1. ~(section = "approver_sets" /\ (IsEntry(line) \/ listed)) =>
          Filled(doc, pos+1, policy.sets, Entries(doc, "approver_sets"), MemberPairs(doc))
    BY <1>0, SetsNext DEF Read, Maps, line
  <2>2. line.indent = 0 => ~IsEntry(line) /\ ~listed
    BY DEF IsEntry
  <2> HIDE DEF listed
  <2> QED BY <2>1, <2>2
<1>2. section # "approvers" \/ line.indent = 0 =>
        Filled(doc, pos+1, policy.phones, Entries(doc, "approvers"), PhonePairs(doc))
  <2> DEFINE listed == inPhones /\ line.form = "item" /\ line.indent >= 6 /\ current # Unset
  <2>1. ~(section = "approvers" /\ (IsEntry(line) \/ listed)) =>
          Filled(doc, pos+1, policy.phones, Entries(doc, "approvers"), PhonePairs(doc))
    BY <1>0, PhonesNext DEF Read, Maps, line
  <2>2. line.indent = 0 => ~IsEntry(line) /\ ~listed
    BY DEF IsEntry
  <2> HIDE DEF listed
  <2> QED BY <2>1, <2>2
<1>3. section # "routing" \/ line.indent = 0 =>
        RoutesSet(doc, pos+1, policy.routing, RoutePairs(doc))
  BY <1>0, RoutingNext DEF Read, Maps, line
<1> QED BY <1>1, <1>2, <1>3

LEMMA TopReads ==
  ASSUME Readable(doc), Read, Header \/ Scalar
  PROVE  Read'
<1>0. Scan
  BY DEF Header, Scalar
<1>1. /\ doc' = doc /\ pos' = pos+1 /\ pos \in Nat /\ pos < Len(doc) /\ pos' \in 0..Len(doc)
      /\ line.indent = 0
  BY <1>0, ScanFacts DEF Header, Scalar, TopLevel
<1>2. policy' = policy
  BY DEF Header, Scalar
<1>3. Reader(doc, pos+1, section', current', inPhones')
  <2>1. Reader(doc, pos, section, current, inPhones)
    BY DEF Read
  <2>2. CASE Header
    <3>1. /\ line.form = "key" /\ current' = Unset /\ inPhones' = FALSE
          /\ section' = IF line.key \in Parts THEN line.key ELSE "none"
      BY <2>2 DEF Header, Unset
    <3> QED BY <1>1, <2>1, <3>1, ReaderTop DEF line
  <2>3. CASE Scalar
    <3>1. /\ line.form # "key" /\ current' = current /\ inPhones' = inPhones
          /\ section' = "none"
      BY <2>3 DEF Scalar
    <3> QED BY <1>1, <2>1, <3>1, ReaderTop DEF line
  <2> QED BY <2>2, <2>3
<1>4. Maps(doc, pos+1, policy)
  BY <1>1, MapsSkip DEF Maps
<1>5. Shape'
  BY <1>2 DEF Read, Shape
<1> QED BY <1>1, <1>2, <1>3, <1>4, <1>5 DEF Read

LEMMA WithinReads ==
  ASSUME Readable(doc), Read, NEW part \in Parts, Within(part), inPhones' \in BOOLEAN,
         part = "approvers" => inPhones' = PhonesOpen
  PROVE  Reader(doc, pos+1, section', current', inPhones')
<1>1. pos \in Nat /\ pos < Len(doc) /\ line.indent # 0
  BY ScanFacts DEF Within
<1>2. section' = section /\ section = part
  BY DEF Within
<1>3. current' = IF IsEntry(line) THEN line.key ELSE current
  BY DEF Within, Entry, IsEntry
<1>4. PhonesOpen = (~IsEntry(line) /\ (line = Key(4, "phones") \/ (inPhones /\ line.indent # 4)))
  BY DEF PhonesOpen, Entry, IsEntry
<1>5. Reader(doc, pos, section, current, inPhones)
  BY DEF Read
<1> QED BY <1>1, <1>2, <1>3, <1>4, <1>5, ReaderBelow DEF line

LEMMA SetsRead ==
  ASSUME Readable(doc), Read, InSets
  PROVE  Read'
<1>0. Within("approver_sets") /\ Scan /\ section = "approver_sets" /\ inPhones' = inPhones
  BY DEF InSets, Within
<1>1. /\ doc' = doc /\ pos' = pos+1 /\ pos \in Nat /\ pos < Len(doc) /\ pos' \in 0..Len(doc)
  BY <1>0, ScanFacts
<1>2. Reader(doc, pos+1, section', current', inPhones')
  BY <1>0, WithinReads DEF Read, Reader, Parts
<1> DEFINE listed == line.form = "item" /\ line.indent >= 4 /\ current # Unset
           Then(m) == Filled(doc, pos+1, m, Entries(doc, "approver_sets"), MemberPairs(doc))
<1>3. /\ IsEntry(line) => Then(Put(policy.sets, line.key, << >>))
      /\ listed => Then([policy.sets EXCEPT ![current] = Append(@, line.value)])
      /\ ~(IsEntry(line) \/ listed) => Then(policy.sets)
  BY <1>0, <1>1, SetsNext DEF Read, Maps, line
<1>4. (Entry <=> IsEntry(line)) /\ (Listed(4) <=> listed) /\ ~(IsEntry(line) /\ listed)
  BY DEF Entry, IsEntry, Listed, Unset
<1>5. /\ Entry => policy' = [policy EXCEPT !.sets = Put(@, line.key, << >>)]
      /\ ~Entry /\ Listed(4) => policy' = [policy EXCEPT !.sets[current] = Append(@, line.value)]
      /\ ~Entry /\ ~Listed(4) => policy' = policy
  BY <1>4 DEF InSets
<1>6. /\ policy' = [sets |-> policy'.sets, phones |-> policy.phones, routing |-> policy.routing]
      /\ Entry => policy'.sets = Put(policy.sets, line.key, << >>)
      /\ ~Entry /\ Listed(4) => policy'.sets = [policy.sets EXCEPT ![current] = Append(@, line.value)]
      /\ ~Entry /\ ~Listed(4) => policy'.sets = policy.sets
  <2>1. Shape
    BY DEF Read
  <2> HIDE DEF listed, Then
  <2> QED BY <1>5, <2>1 DEF Shape
<1>7. Then(policy'.sets)
  <2> HIDE DEF Then, listed
  <2> QED BY <1>3, <1>4, <1>6
<1>8. policy'.phones = policy.phones /\ policy'.routing = policy.routing
  BY <1>6
<1>9. Maps(doc, pos+1, policy') /\ Shape'
  BY <1>0, <1>1, <1>6, <1>7, <1>8, MapsSkip DEF Maps, Shape
<1> QED BY <1>1, <1>2, <1>9 DEF Read

LEMMA ApproversRead ==
  ASSUME Readable(doc), Read, InApprovers
  PROVE  Read'
<1>0. Within("approvers") /\ Scan /\ section = "approvers" /\ inPhones' = PhonesOpen
  BY DEF InApprovers, Within
<1>1. /\ doc' = doc /\ pos' = pos+1 /\ pos \in Nat /\ pos < Len(doc) /\ pos' \in 0..Len(doc)
  BY <1>0, ScanFacts
<1>2. Reader(doc, pos+1, section', current', inPhones')
  <2>1. PhonesOpen \in BOOLEAN
    BY DEF PhonesOpen
  <2> QED BY <1>0, <2>1, WithinReads DEF Parts
<1> DEFINE listed == inPhones /\ line.form = "item" /\ line.indent >= 6 /\ current # Unset
           Then(m) == Filled(doc, pos+1, m, Entries(doc, "approvers"), PhonePairs(doc))
<1>3. /\ IsEntry(line) => Then(Put(policy.phones, line.key, << >>))
      /\ listed => Then([policy.phones EXCEPT ![current] = Append(@, line.value)])
      /\ ~(IsEntry(line) \/ listed) => Then(policy.phones)
  BY <1>0, <1>1, PhonesNext DEF Read, Maps, line
<1>4. (Entry <=> IsEntry(line)) /\ (inPhones /\ Listed(6) <=> listed) /\ ~(IsEntry(line) /\ listed)
  BY DEF Entry, IsEntry, Listed, Unset
<1>5. /\ Entry => policy' = [policy EXCEPT !.phones = Put(@, line.key, << >>)]
      /\ ~Entry /\ inPhones /\ Listed(6) =>
           policy' = [policy EXCEPT !.phones[current] = Append(@, line.value)]
      /\ ~Entry /\ ~(inPhones /\ Listed(6)) => policy' = policy
  BY <1>4 DEF InApprovers
<1>6. /\ policy' = [sets |-> policy.sets, phones |-> policy'.phones, routing |-> policy.routing]
      /\ Entry => policy'.phones = Put(policy.phones, line.key, << >>)
      /\ ~Entry /\ inPhones /\ Listed(6) =>
           policy'.phones = [policy.phones EXCEPT ![current] = Append(@, line.value)]
      /\ ~Entry /\ ~(inPhones /\ Listed(6)) => policy'.phones = policy.phones
  <2>1. Shape
    BY DEF Read
  <2> HIDE DEF listed, Then
  <2> QED BY <1>5, <2>1 DEF Shape
<1>7. Then(policy'.phones)
  <2> HIDE DEF Then, listed
  <2> QED BY <1>3, <1>4, <1>6
<1>8. policy'.sets = policy.sets /\ policy'.routing = policy.routing
  BY <1>6
<1>9. Maps(doc, pos+1, policy') /\ Shape'
  BY <1>0, <1>1, <1>6, <1>7, <1>8, MapsSkip DEF Maps, Shape
<1> QED BY <1>1, <1>2, <1>9 DEF Read

LEMMA RoutingRead ==
  ASSUME Readable(doc), Read, InRouting
  PROVE  Read'
<1>0. Within("routing") /\ Scan /\ section = "routing" /\ inPhones' = inPhones
  BY DEF InRouting, Within
<1>1. /\ doc' = doc /\ pos' = pos+1 /\ pos \in Nat /\ pos < Len(doc) /\ pos' \in 0..Len(doc)
  BY <1>0, ScanFacts
<1>2. Reader(doc, pos+1, section', current', inPhones')
  BY <1>0, WithinReads DEF Read, Reader, Parts
<1> DEFINE routed == /\ line.indent >= 4 /\ current # Unset
                     /\ line.form # "item" /\ line.key = "approver_set"
           Then(r) == RoutesSet(doc, pos+1, r, RoutePairs(doc))
<1>3. /\ routed => Then(Put(policy.routing, current, line.value))
      /\ ~routed => Then(policy.routing)
  BY <1>0, <1>1, RoutingNext DEF Read, Maps, line
<1>5. /\ routed => policy' = [policy EXCEPT !.routing = Put(@, current, line.value)]
      /\ ~routed => policy' = policy
  BY DEF InRouting, Unset
<1>6. /\ policy' = [sets |-> policy.sets, phones |-> policy.phones, routing |-> policy'.routing]
      /\ routed => policy'.routing = Put(policy.routing, current, line.value)
      /\ ~routed => policy'.routing = policy.routing
  <2>1. Shape
    BY DEF Read
  <2> HIDE DEF routed, Then
  <2> QED BY <1>5, <2>1 DEF Shape
<1>7. Then(policy'.routing)
  <2> HIDE DEF Then, routed
  <2> QED BY <1>3, <1>6
<1>8. policy'.sets = policy.sets /\ policy'.phones = policy.phones
  BY <1>6
<1>9. Maps(doc, pos+1, policy') /\ Shape'
  BY <1>0, <1>1, <1>6, <1>7, <1>8, MapsSkip DEF Maps, Shape
<1> QED BY <1>1, <1>2, <1>9 DEF Read

LEMMA ElsewhereReads ==
  ASSUME Readable(doc), Read, Elsewhere
  PROVE  Read'
<1>0. /\ Scan /\ section = "none" /\ ~TopLevel
      /\ section' = section /\ current' = current /\ inPhones' = inPhones /\ policy' = policy
  BY DEF Elsewhere
<1>1. /\ doc' = doc /\ pos' = pos+1 /\ pos \in Nat /\ pos < Len(doc) /\ pos' \in 0..Len(doc)
      /\ line.indent # 0
  BY <1>0, ScanFacts
<1>2. Reader(doc, pos+1, section, current, inPhones)
  BY <1>0, <1>1, ReaderBelow DEF Read, line
<1>3. Maps(doc, pos+1, policy)
  BY <1>0, <1>1, MapsSkip DEF Maps
<1>4. Shape'
  BY <1>0 DEF Read, Shape
<1> QED BY <1>0, <1>1, <1>2, <1>3, <1>4 DEF Read

-----------------------------------------------------------------------------
(* The end of the file *)

Said(d, L) == {<<d[x[2]].key, d[x[1]].value>> : x \in L}

Paired(d, L) == L \subseteq Numbers(d)

\* Some line up to the end attaches v to the entry s.
Attached(d, L, s, v) ==
  \E i, h \in 1..Len(d) : <<i, h>> \in L /\ d[h].key = s /\ d[i].value = v

LEMMA SaidAt ==
  ASSUME NEW d, NEW L, Paired(d, L), NEW s, NEW v
  PROVE  <<s, v>> \in Said(d, L) <=> Attached(d, L, s, v)
<1>1. ASSUME <<s, v>> \in Said(d, L)
      PROVE  Attached(d, L, s, v)
  <2>1. PICK x \in L : <<s, v>> = <<d[x[2]].key, d[x[1]].value>>
    BY <1>1 DEF Said
  <2>2. x \in Numbers(d)
    BY DEF Paired
  <2>3. x = <<x[1], x[2]>> /\ x[1] \in 1..Len(d) /\ x[2] \in 1..Len(d)
    BY <2>2 DEF Numbers
  <2>4. s = d[x[2]].key /\ v = d[x[1]].value
    BY <2>1
  <2> QED BY <2>3, <2>4 DEF Attached
<1>2. ASSUME NEW i \in 1..Len(d), NEW h \in 1..Len(d),
             <<i, h>> \in L, d[h].key = s, d[i].value = v
      PROVE  <<s, v>> \in Said(d, L)
  BY <1>2 DEF Said
<1> QED BY <1>1, <1>2 DEF Attached

LEMMA FilledMeans ==
  ASSUME NEW d, Len(d) \in Nat, NEW m, NEW E, NEW L, Paired(d, L), Entered(d, E, L),
         Filled(d, Len(d), m, E, L), NEW s
  PROVE  /\ Get(m, s) \in Seq(STRING)
         /\ \A v : v \in ToSet(Get(m, s)) <=> <<s, v>> \in Said(d, L)
<1>0. \A h \in E : h \in 1..Len(d) /\ h <= Len(d)
  BY DEF Entered
<1>1. CASE s \in DOMAIN m
  <2>1. PICK h \in E : d[h].key = s
    BY <1>1 DEF Filled
  <2>2. Get(m, s) = m[s] /\ m[s] \in Seq(STRING)
    BY <1>1 DEF Get, Filled
  <2>3. \A v : v \in ToSet(m[s]) <=> \E i \in 1..Len(d) : <<i, h>> \in L /\ d[i].value = v
    BY <1>0, <2>1 DEF Filled
  <2>4. \A i, g : <<i, g>> \in L /\ d[g].key = s => g = h
    BY <2>1 DEF Entered
  <2>5. ASSUME NEW v PROVE v \in ToSet(m[s]) <=> <<s, v>> \in Said(d, L)
    <3>1. <<s, v>> \in Said(d, L) <=> Attached(d, L, s, v)
      BY SaidAt
    <3> QED BY <1>0, <2>1, <2>3, <2>4, <3>1 DEF Attached
  <2> QED BY <2>2, <2>5
<1>2. CASE s \notin DOMAIN m
  <2>1. Get(m, s) = << >>
    BY <1>2 DEF Get
  <2>2. << >> \in Seq(STRING) /\ ToSet(<< >>) = {}
    BY DEF ToSet
  <2>3. ASSUME NEW v, <<s, v>> \in Said(d, L) PROVE FALSE
    <3>0. Attached(d, L, s, v)
      BY <2>3, SaidAt
    <3>1. PICK i \in 1..Len(d), h \in 1..Len(d) : <<i, h>> \in L /\ d[h].key = s
      BY <3>0 DEF Attached
    <3>2. h \in E /\ h <= Len(d)
      BY <3>1 DEF Entered
    <3> QED BY <1>2, <3>1, <3>2 DEF Filled
  <2> QED BY <2>1, <2>2, <2>3
<1> QED BY <1>1, <1>2

LEMMA SaysSaid ==
  ASSUME NEW d, NEW p, Says(d, p)
  PROVE  /\ Layout(d) /\ NoneTwice(d)
         /\ {d[h].key : h \in Entries(d, "approver_sets")} = {l[1] : l \in ToSet(p.sets)}
         /\ Said(d, MemberPairs(d)) = Meant(p.sets)
         /\ Said(d, PhonePairs(d)) = Meant(p.phones)
         /\ Said(d, RoutePairs(d)) = ToSet(p.routing)
BY Zenon DEF Says, Said, Entries, MemberPairs, PhonePairs, RoutePairs, Numbers

\* Once the file is read, the three maps are the policy it was written from.
LEMMA MapsMeant ==
  ASSUME Readable(doc), Read, pos = Len(doc), Says(doc, want)
  PROVE  /\ \A s : Get(policy.sets, s) \in Seq(STRING) /\ Get(policy.phones, s) \in Seq(STRING)
         /\ \A s, v : v \in ToSet(Get(policy.sets, s)) <=> <<s, v>> \in Meant(want.sets)
         /\ \A s, v : v \in ToSet(Get(policy.phones, s)) <=> <<s, v>> \in Meant(want.phones)
         /\ \A q, v : (q \in DOMAIN policy.routing /\ policy.routing[q] = v) <=>
                        <<q, v>> \in ToSet(want.routing)
<1>0. /\ Len(doc) \in Nat /\ Paired(doc, MemberPairs(doc))
      /\ Paired(doc, PhonePairs(doc)) /\ Paired(doc, RoutePairs(doc))
  BY DEF Readable, MemberPairs, PhonePairs, RoutePairs, Paired
<1>1. Maps(doc, Len(doc), policy)
  BY DEF Read
<1>2. /\ Said(doc, MemberPairs(doc)) = Meant(want.sets)
      /\ Said(doc, PhonePairs(doc)) = Meant(want.phones)
      /\ Said(doc, RoutePairs(doc)) = ToSet(want.routing)
  BY SaysSaid
<1>3. \A s : /\ Get(policy.sets, s) \in Seq(STRING)
             /\ \A v : v \in ToSet(Get(policy.sets, s)) <=> <<s, v>> \in Meant(want.sets)
  BY <1>0, <1>1, <1>2, EnteredHere, FilledMeans DEF Maps
<1>4. \A s : /\ Get(policy.phones, s) \in Seq(STRING)
             /\ \A v : v \in ToSet(Get(policy.phones, s)) <=> <<s, v>> \in Meant(want.phones)
  BY <1>0, <1>1, <1>2, EnteredHere, FilledMeans DEF Maps
<1>5. ASSUME NEW q, NEW v
      PROVE  (q \in DOMAIN policy.routing /\ policy.routing[q] = v) <=>
                <<q, v>> \in ToSet(want.routing)
  <2>1. (q \in DOMAIN policy.routing /\ policy.routing[q] = v) <=>
          \E i \in 1..Len(doc) : \E h \in 1..Len(doc) :
             <<i, h>> \in RoutePairs(doc) /\ doc[h].key = q /\ doc[i].value = v
    BY <1>1, Zenon DEF Maps, RoutesSet
  <2>2. <<q, v>> \in ToSet(want.routing) <=> Attached(doc, RoutePairs(doc), q, v)
    <3>1. Paired(doc, RoutePairs(doc)) /\ Said(doc, RoutePairs(doc)) = ToSet(want.routing)
      BY <1>0, <1>2
    <3> QED BY <3>1, SaidAt
  <2> QED BY <2>1, <2>2 DEF Attached
<1> QED BY <1>3, <1>4, <1>5

LEMMA MeantIs ==
  ASSUME NEW lists, NEW x \in Meant(lists)
  PROVE  x = <<x[1], x[2]>>
BY DEF Meant

LEMMA RecipientsWanted ==
  ASSUME Readable(doc), Read, pos = Len(doc), Says(doc, want), NEW q
  PROVE  IsInjective(LookupRecipients(q)) /\ ToSet(LookupRecipients(q)) = Wanted(q)
<1>1. /\ \A s : Get(policy.sets, s) \in Seq(STRING) /\ Get(policy.phones, s) \in Seq(STRING)
      /\ \A s, v : v \in ToSet(Get(policy.sets, s)) <=> <<s, v>> \in Meant(want.sets)
      /\ \A s, v : v \in ToSet(Get(policy.phones, s)) <=> <<s, v>> \in Meant(want.phones)
      /\ \A r, v : (r \in DOMAIN policy.routing /\ policy.routing[r] = v) <=>
                        <<r, v>> \in ToSet(want.routing)
  BY MapsMeant
<1>2. Members(q) \in Seq(STRING) /\ ToSet(<< >>) = {}
  <2>1. << >> \in Seq(STRING) /\ ToSet(<< >>) = {}
    BY DEF ToSet
  <2>2. \A s : Get(policy.sets, s) \in Seq(STRING)
    BY <1>1
  <2> QED BY <2>1, <2>2, Zenon DEF Members
<1>3. \A a : a \in ToSet(Members(q)) <=>
         \E s : <<q, s>> \in ToSet(want.routing) /\ <<s, a>> \in Meant(want.sets)
  BY <1>1, <1>2 DEF Members
<1>4. /\ IsInjective(LookupRecipients(q))
      /\ ToSet(LookupRecipients(q)) = Reached(q, Len(Members(q)))
  BY <1>1, <1>2, LookupReaches
<1>5. \A a : a \in ToSet(Members(q)) <=> \E i \in 1..Len(Members(q)) : a = Members(q)[i]
  BY <1>2 DEF ToSet
<1>6. \A v : v \in Reached(q, Len(Members(q))) <=>
         v # Unset /\ \E a \in ToSet(Members(q)) : v \in ToSet(Get(policy.phones, a))
  BY <1>5 DEF Reached
<1>7. \A v : v \in Wanted(q) <=>
         v # Unset /\ \E x \in Meant(want.phones) :
            /\ v = x[2]
            /\ \E m \in Meant(want.sets) : m[2] = x[1] /\ <<q, m[1]>> \in ToSet(want.routing)
  BY DEF Wanted, Unset
<1>8. ASSUME NEW v, v \in Reached(q, Len(Members(q))) PROVE v \in Wanted(q)
  <2>1. PICK a \in ToSet(Members(q)) : v # Unset /\ <<a, v>> \in Meant(want.phones)
    BY <1>1, <1>6, <1>8
  <2>2. PICK s : <<q, s>> \in ToSet(want.routing) /\ <<s, a>> \in Meant(want.sets)
    BY <1>3
  <2>3. /\ <<a, v>>[1] = a /\ <<a, v>>[2] = v
        /\ <<s, a>>[1] = s /\ <<s, a>>[2] = a
    OBVIOUS
  <2> QED BY <1>7, <2>1, <2>2, <2>3
<1>9. ASSUME NEW v, v \in Wanted(q) PROVE v \in Reached(q, Len(Members(q)))
  <2>1. PICK x \in Meant(want.phones), m \in Meant(want.sets) :
            v # Unset /\ v = x[2] /\ m[2] = x[1] /\ <<q, m[1]>> \in ToSet(want.routing)
    BY <1>7, <1>9
  <2>2. x = <<x[1], v>> /\ m = <<m[1], x[1]>>
    BY <2>1, MeantIs
  <2>3. x[1] \in ToSet(Members(q))
    BY <1>3, <2>1, <2>2
  <2> QED BY <1>1, <1>6, <2>1, <2>2, <2>3
<1> QED BY <1>4, <1>8, <1>9

-----------------------------------------------------------------------------
(* The inductive invariant *)

Documented == \A d \in Documents : Says(d.lines, d.policy)

Steps == {"codes", "env", "approvers", "lines", "ready", "fatal"}

Fresh == /\ doc = << >> /\ pos = 0 /\ section = "none" /\ current = Unset
         /\ inPhones = FALSE /\ policy = Nothing

FreshInv == step \in {"codes", "env", "approvers"} => Fresh

CodesInv == step \in Steps \ {"codes", "fatal"} => allowed = {WithPlus[t] : t \in ToSet(flag)}

EnvInv ==
  step \in {"approvers", "lines", "ready"} =>
    env # NoFile /\ env \in Seq([key: STRING, value: STRING]) /\ ~EnvError(env)

Written == \E d \in Documents : doc = d.lines /\ want = d.policy

ReadInv == step \in {"lines", "ready"} \/ doc # << >> => Written /\ Read

EndInv ==
  /\ step = "ready" => pos = Len(doc)
  /\ step = "fatal" /\ doc # << >> =>
       pos = Len(doc) /\ DOMAIN policy.sets = {} /\ DOMAIN policy.routing = {}

ConfigInv ==
  step \in Steps /\ FreshInv /\ CodesInv /\ EnvInv /\ ReadInv /\ EndInv

LEMMA DocumentReadable ==
  ASSUME Documented, NEW d \in Documents
  PROVE  Readable(d.lines) /\ Says(d.lines, d.policy) /\ d.policy \in Policies
<1>1. Says(d.lines, d.policy)
  BY DEF Documented
<1>2. Layout(d.lines) /\ NoneTwice(d.lines)
  BY <1>1, SaysSaid
<1>3. /\ d.lines \in Seq(Lines) /\ d.policy \in Policies
      /\ \A i \in 1..Len(d.lines) : d.lines[i].form = "key" => d.lines[i].value = Unset
  BY ConfigAssumption DEF Unset
<1> QED BY <1>1, <1>2, <1>3 DEF Readable

LEMMA FreshReads ==
  ASSUME NEW d, Readable(d)
  PROVE  /\ 0 \in 0..Len(d)
         /\ Reader(d, 0, "none", Unset, FALSE)
         /\ Maps(d, 0, Nothing)
<1>1. Len(d) \in Nat /\ 0 \in 0..Len(d)
  BY DEF Readable
<1>2. Reader(d, 0, "none", Unset, FALSE)
  BY PartsNone DEF Reader, Place, Named, Phoning
<1>3. Nothing.sets = << >> /\ Nothing.phones = << >> /\ Nothing.routing = << >>
  BY DEF Nothing
<1>4. \A part : {h \in Entries(d, part) : h <= 0} = {}
  BY DEF Entries
<1>5. DOMAIN << >> = {}
  OBVIOUS
<1>6. \A part, L : Filled(d, 0, << >>, Entries(d, part), L)
  BY <1>4, <1>5 DEF Filled
<1>7. \A L : RoutesSet(d, 0, << >>, L)
  BY <1>5 DEF RoutesSet
<1>8. Maps(d, 0, Nothing)
  BY <1>3, <1>6, <1>7 DEF Maps
<1> QED BY <1>1, <1>2, <1>8

LEMMA ConfigInit ==
  ASSUME Init
  PROVE  ConfigInv
BY DEF Init, ConfigInv, Steps, FreshInv, Fresh, CodesInv, EnvInv, ReadInv, EndInv, Unset

LEMMA CodesStep ==
  ASSUME ConfigInv, ParseAllowedCountryCodes
  PROVE  ConfigInv'
<1>1. step = "codes" /\ Fresh
  BY DEF ParseAllowedCountryCodes, ConfigInv, FreshInv
<1>2. Fresh' /\ doc' = << >>
  BY <1>1 DEF ParseAllowedCountryCodes, Fresh, Fatal, parser
<1>3. \/ step' = "fatal"
      \/ step' = "env" /\ allowed' = {WithPlus[t] : t \in ToSet(flag')}
  BY DEF ParseAllowedCountryCodes, Fatal
<1> QED BY <1>2, <1>3 DEF ConfigInv, Steps, FreshInv, CodesInv, EnvInv, ReadInv, EndInv

LEMMA EnvStep ==
  ASSUME ConfigInv, LoadTwilioEnv
  PROVE  ConfigInv'
<1>1. step = "env" /\ Fresh /\ allowed = {WithPlus[t] : t \in ToSet(flag)}
  BY DEF LoadTwilioEnv, ConfigInv, FreshInv, CodesInv, Steps
<1>2. Fresh' /\ doc' = << >> /\ allowed' = allowed /\ flag' = flag
  BY <1>1 DEF LoadTwilioEnv, Fresh, Fatal, parser
<1>3. \/ step' = "fatal"
      \/ /\ step' = "approvers" /\ env' # NoFile /\ ~EnvError(env')
         /\ env' \in Seq([key: STRING, value: STRING])
  BY ConfigAssumption DEF LoadTwilioEnv, Fatal
<1> HIDE DEF EnvError
<1>4. EnvInv'
  BY <1>3 DEF EnvInv, EnvError
<1>5. CodesInv'
  BY <1>1, <1>2 DEF CodesInv
<1> QED BY <1>2, <1>3, <1>4, <1>5 DEF ConfigInv, Steps, FreshInv, ReadInv, EndInv

LEMMA ApproversStep ==
  ASSUME Documented, ConfigInv, LoadApprovers
  PROVE  ConfigInv'
<1>1. step = "approvers" /\ Fresh /\ allowed = {WithPlus[t] : t \in ToSet(flag)} /\ EnvInv
  BY DEF LoadApprovers, ConfigInv, FreshInv, CodesInv, Steps
<1>2. allowed' = allowed /\ flag' = flag /\ env' = env
  BY DEF LoadApprovers, Fatal
<1>3. CodesInv' /\ EnvInv'
  BY <1>1, <1>2 DEF CodesInv, EnvInv, EnvError
<1>4. /\ pos' = 0 /\ section' = "none" /\ current' = Unset
      /\ inPhones' = FALSE /\ policy' = Nothing
  BY <1>1 DEF LoadApprovers, Fresh, Fatal, parser
<1>5. CASE step' = "fatal" /\ UNCHANGED <<want, doc>>
  <2>1. doc' = << >>
    BY <1>1, <1>5 DEF Fresh
  <2> QED BY <1>3, <1>5, <2>1 DEF ConfigInv, Steps, FreshInv, ReadInv, EndInv
<1>6. CASE step' = "lines" /\ Written'
  <2>1. Readable(doc')
    BY <1>6, DocumentReadable DEF Written
  <2>2. Shape'
    BY <1>4 DEF Shape, Nothing
  <2>3. Read'
    BY <1>4, <2>1, <2>2, FreshReads DEF Read
  <2> QED BY <1>3, <1>6, <2>3 DEF ConfigInv, Steps, FreshInv, ReadInv, EndInv
<1> QED BY <1>5, <1>6 DEF LoadApprovers, Fatal, Written

LEMMA LinesStep ==
  ASSUME Documented, ConfigInv,
         Header \/ Scalar \/ InSets \/ InApprovers \/ InRouting \/ Elsewhere
  PROVE  ConfigInv'
<1>1. Scan
  BY DEF Header, Scalar, InSets, InApprovers, InRouting, Elsewhere, Within
<1>2. /\ step = "lines" /\ step' = "lines" /\ allowed' = allowed
      /\ flag' = flag /\ env' = env /\ want' = want /\ doc' = doc
  BY <1>1 DEF Scan, input
<1>3. Written /\ Read /\ CodesInv /\ EnvInv
  BY <1>2 DEF ConfigInv, ReadInv
<1>4. Readable(doc)
  BY <1>3, DocumentReadable DEF Written
<1>5. Read'
  BY <1>3, <1>4, TopReads, SetsRead, ApproversRead, RoutingRead, ElsewhereReads
<1>6. Written'
  BY <1>2, <1>3 DEF Written
<1>7. CodesInv' /\ EnvInv'
  BY <1>2, <1>3 DEF CodesInv, EnvInv, EnvError
<1> QED BY <1>2, <1>5, <1>6, <1>7 DEF ConfigInv, Steps, FreshInv, ReadInv, EndInv

LEMMA EndStep ==
  ASSUME ConfigInv, EndOfFile \/ UNCHANGED vars
  PROVE  ConfigInv'
<1>1. CASE UNCHANGED vars
  <2>1. /\ FreshInv' /\ CodesInv' /\ step' \in Steps
    BY <1>1 DEF ConfigInv, FreshInv, Fresh, CodesInv, vars
  <2>2. EnvInv'
    BY <1>1 DEF ConfigInv, EnvInv, EnvError, vars
  <2>3. Read => Read'
    BY <1>1 DEF Read, Shape, vars
  <2>4. ReadInv' /\ EndInv'
    BY <1>1, <2>3 DEF ConfigInv, ReadInv, EndInv, Written, vars
  <2> QED BY <2>1, <2>2, <2>4 DEF ConfigInv
<1>2. CASE EndOfFile
  <2>1. /\ step = "lines" /\ pos = Len(doc)
        /\ allowed' = allowed /\ flag' = flag /\ env' = env /\ want' = want /\ doc' = doc
        /\ pos' = pos /\ section' = section /\ current' = current /\ inPhones' = inPhones
        /\ policy' = policy
    BY <1>2 DEF EndOfFile, input, parser
  <2>2. \/ step' = "ready"
        \/ step' = "fatal" /\ DOMAIN policy.sets = {} /\ DOMAIN policy.routing = {}
    BY <1>2 DEF EndOfFile
  <2>3. Written /\ Read /\ CodesInv /\ EnvInv
    BY <2>1 DEF ConfigInv, ReadInv
  <2>4. Written' /\ Read'
    BY <2>1, <2>3 DEF Written, Read, Shape
  <2>5. CodesInv' /\ EnvInv'
    BY <2>1, <2>3 DEF CodesInv, EnvInv, EnvError, Steps
  <2>6. EndInv'
    BY <2>1, <2>2 DEF EndInv
  <2> QED BY <2>2, <2>4, <2>5, <2>6 DEF ConfigInv, Steps, FreshInv, ReadInv
<1> QED BY <1>1, <1>2

LEMMA ConfigInvHolds ==
  ASSUME Documented
  PROVE  Spec => []ConfigInv
<1>1. Init => ConfigInv
  BY ConfigInit
<1>2. ConfigInv /\ [Next]_vars => ConfigInv'
  BY CodesStep, EnvStep, ApproversStep, LinesStep, EndStep DEF Next
<1> QED BY <1>1, <1>2, PTL DEF Spec

-----------------------------------------------------------------------------
(* The theorems *)

LEMMA ReadyRight ==
  ASSUME Documented, ConfigInv
  PROVE  RecipientsRight
<1> SUFFICES ASSUME step = "ready", NEW q \in Requesters
             PROVE  /\ IsInjective(LookupRecipients(q))
                    /\ ToSet(LookupRecipients(q)) = Wanted(q)
                    /\ Texted(q) = {p \in Wanted(q) \cap DOMAIN Countries :
                          \E t \in ToSet(flag) : WithPlus[t] \in Countries[p]}
  BY DEF RecipientsRight
<1>1. Written /\ Read /\ pos = Len(doc) /\ allowed = {WithPlus[t] : t \in ToSet(flag)}
  BY DEF ConfigInv, ReadInv, EndInv, CodesInv, Steps
<1>2. Readable(doc) /\ Says(doc, want)
  BY <1>1, DocumentReadable DEF Written
<1>3. IsInjective(LookupRecipients(q)) /\ ToSet(LookupRecipients(q)) = Wanted(q)
  BY <1>1, <1>2, RecipientsWanted
<1>4. Texted(q) = {p \in Wanted(q) : IsAllowedCountry(p)}
  BY <1>3 DEF Texted
<1>5. \A p : IsAllowedCountry(p) <=>
         p \in DOMAIN Countries /\ \E t \in ToSet(flag) : WithPlus[t] \in Countries[p]
  BY <1>1 DEF IsAllowedCountry
<1> QED BY <1>3, <1>4, <1>5

LEMMA ReadyConfigured ==
  ASSUME Documented, ConfigInv
  PROVE  StartsIfConfigured
<1>1. ASSUME step = "ready"
      PROVE  /\ env # NoFile
             /\ \A key \in Required : Assigned(key)
             /\ Assigned("SMS_ROUTING_CALLBACK_URL") => Assigned("SMS_ROUTING_CALLBACK_SECRET")
  <2>1. env # NoFile /\ env \in Seq([key: STRING, value: STRING]) /\ ~EnvError(env)
    BY <1>1 DEF ConfigInv, EnvInv
  <2>2. \A key : Value(env, key) # "" <=> Assigned(key)
    BY <2>1, ValueAssigned
  <2>3. /\ \A key \in Required : Value(env, key) # ""
        /\ Value(env, "SMS_ROUTING_CALLBACK_URL") # "" => Value(env, "SMS_ROUTING_CALLBACK_SECRET") # ""
    BY <2>1 DEF EnvError
  <2> QED BY <2>1, <2>2, <2>3
<1>2. ASSUME step = "fatal", doc # << >>
      PROVE  want.sets = << >> /\ want.routing = << >>
  <2>1. Written /\ Read /\ pos = Len(doc) /\ DOMAIN policy.sets = {} /\ DOMAIN policy.routing = {}
    BY <1>2 DEF ConfigInv, ReadInv, EndInv
  <2>2. Readable(doc) /\ Says(doc, want) /\ want \in Policies
    BY <2>1, DocumentReadable DEF Written
  <2>3. want.sets \in Seq(STRING \X Seq(STRING)) /\ want.routing \in Seq(STRING \X STRING)
    BY <2>2 DEF Policies, Lists
  <2>4. ToSet(want.sets) = {}
    <3>1. {doc[h].key : h \in {h \in Entries(doc, "approver_sets") : h <= Len(doc)}} = {}
      BY <2>1 DEF Read, Maps, Filled
    <3>2. \A h \in Entries(doc, "approver_sets") : h <= Len(doc)
      BY DEF Entries
    <3>4. Entries(doc, "approver_sets") = {}
      BY <3>1, <3>2
    <3>3. {l[1] : l \in ToSet(want.sets)} = {}
      BY <2>2, <3>4, SaysSaid
    <3> QED BY <3>3
  <2>5. ToSet(want.routing) = {}
    <3>1. \A q, v : <<q, v>> \notin ToSet(want.routing)
      BY <2>1, <2>2, MapsMeant
    <3>2. \A x \in ToSet(want.routing) : x = <<x[1], x[2]>>
      BY <2>3 DEF ToSet
    <3> QED BY <3>1, <3>2
  <2>6. ASSUME NEW T, NEW s \in Seq(T), ToSet(s) = {} PROVE s = << >>
    <3>1. DOMAIN s = {}
      BY <2>6 DEF ToSet
    <3> QED BY <2>6, <3>1, EmptySeq
  <2> QED BY <2>3, <2>4, <2>5, <2>6
<1> QED BY <1>1, <1>2 DEF StartsIfConfigured

\* Whatever documents the adapter may be given, if they say a policy in the
\* layout that parseApprovers is written for then, once main is ready, the
\* recipients of every requester are the phones of the approvers of its set, each
\* once, and those texted are the ones of an allowed country (parseApprovers,
\* LookupRecipients, IsAllowedCountry).
THEOREM RecipientsAreRight ==
  ASSUME \A d \in Documents : Says(d.lines, d.policy)
  PROVE  Spec => []RecipientsRight
<1>1. Documented
  BY DEF Documented
<1>2. ConfigInv => RecipientsRight
  BY <1>1, ReadyRight
<1> QED BY <1>1, <1>2, ConfigInvHolds, PTL

\* Under the same condition main gets ready only with the three credentials set
\* and a callback only with its secret, each by the last line of twilio.env that
\* names it, and gives up on a document only if it has no set and no route
\* (LoadTwilioEnv, parseEnvFile, parseApprovers).
THEOREM StartsOnlyConfigured ==
  ASSUME \A d \in Documents : Says(d.lines, d.policy)
  PROVE  Spec => []StartsIfConfigured
<1>1. Documented
  BY DEF Documented
<1>2. ConfigInv => StartsIfConfigured
  BY <1>1, ReadyConfigured
<1> QED BY <1>1, <1>2, ConfigInvHolds, PTL
=============================================================================
