---------------------------- MODULE RoomOrder_proofs ----------------------------
(***************************************************************************)
(* The rooms stay one chain: whatever is created, deleted and moved, for   *)
(* any number of callers, names and rooms, there is one sequence of rooms  *)
(* in which each row names its neighbours, and the walk from the head is   *)
(* that sequence. From it follow the check of every start and the          *)
(* refinement of AbstractRooms. The lemmas are about the table alone; that *)
(* the walk follows the chain is an induction on positions, carried out    *)
(* with the least position at which it would not.                          *)
(***************************************************************************)
EXTENDS RoomOrder, FiniteSetTheorems, SequenceTheorems, WellFoundedInduction, TLAPS

Rec(M) == [name : RoomName, prev : 0..M, next : 0..M,
           min : PermissionLevel, readOnly : BOOLEAN]

(* A table whose ids and pointers are at most M. *)
Table(t, M) == M \in Nat /\ DOMAIN t \subseteq 1..M /\ t \in [DOMAIN t -> Rec(M)]

-----------------------------------------------------------------------------
(* The rooms of S form one chain in t, in the order of s. *)
Chain(t, S, s) ==
  /\ s \in Seq(S)
  /\ \A r \in S : \E i \in 1..Len(s) : s[i] = r
  /\ \A i, j \in 1..Len(s) : s[i] = s[j] => i = j
  /\ \A i \in 1..Len(s) :
       /\ t[s[i]].next = IF i = Len(s) THEN NoRoom ELSE s[i + 1]
       /\ t[s[i]].prev = IF i = 1 THEN NoRoom ELSE s[i - 1]

(* The ends of the list. *)
First(s) == IF s = <<>> THEN NoRoom ELSE s[1]
Last(s) == IF s = <<>> THEN NoRoom ELSE s[Len(s)]

(* Taking an element out of a sequence, and putting one in. *)
LEMMA RemoveAtSeq ==
  ASSUME NEW S, NEW s \in Seq(S), NEW k \in 1..Len(s)
  PROVE  LET z == Walk!RemoveAt(s, k)
         IN  /\ z \in Seq(S)
             /\ Len(z) = Len(s) - 1
             /\ \A i \in 1..Len(z) : z[i] = IF i < k THEN s[i] ELSE s[i + 1]
<1> DEFINE a == SubSeq(s, 1, k - 1)
           b == SubSeq(s, k + 1, Len(s))
<1>1. Len(s) \in Nat /\ k \in Nat
  OBVIOUS
<1>2. /\ a \in Seq(S) /\ Len(a) = k - 1
      /\ \A i \in 1..Len(a) : a[i] = s[i]
  BY <1>1, SubSeqProperties
<1>3. /\ b \in Seq(S) /\ Len(b) = Len(s) - k
      /\ \A i \in 1..Len(b) : b[i] = s[k + i]
  BY <1>1
<1>4. Walk!RemoveAt(s, k) = a \o b
  BY DEF Walk!RemoveAt
<1> HIDE DEF a, b
<1>5. /\ a \o b \in Seq(S) /\ Len(a \o b) = Len(a) + Len(b)
      /\ \A i \in 1..(Len(a) + Len(b)) :
           (a \o b)[i] = IF i <= Len(a) THEN a[i] ELSE b[i - Len(a)]
  BY <1>2, <1>3, ConcatProperties
<1>6. \A i \in k..(Len(s) - 1) : b[i - (k - 1)] = s[i + 1]
  BY <1>1, <1>3
<1> QED
  BY <1>1, <1>2, <1>3, <1>4, <1>5, <1>6

LEMMA InsertAtSeq ==
  ASSUME NEW S, NEW s \in Seq(S), NEW k \in 1..(Len(s) + 1), NEW e \in S
  PROVE  LET z == Walk!InsertAt(s, k, e)
         IN  /\ z \in Seq(S)
             /\ Len(z) = Len(s) + 1
             /\ \A i \in 1..Len(z) :
                  z[i] = IF i < k THEN s[i] ELSE IF i = k THEN e ELSE s[i - 1]
<1> DEFINE a == SubSeq(s, 1, k - 1)
           b == SubSeq(s, k, Len(s))
           c == a \o <<e>>
<1>1. Len(s) \in Nat /\ k \in Nat
  OBVIOUS
<1>2. /\ a \in Seq(S) /\ Len(a) = k - 1
      /\ \A i \in 1..Len(a) : a[i] = s[i]
  BY <1>1
<1>3. /\ b \in Seq(S) /\ Len(b) = Len(s) - k + 1
      /\ \A i \in 1..Len(b) : b[i] = s[k + i - 1]
  BY <1>1
<1>4. Walk!InsertAt(s, k, e) = c \o b
  BY DEF Walk!InsertAt
<1> HIDE DEF a, b
<1>5. /\ c \in Seq(S) /\ Len(c) = k
      /\ \A i \in 1..k : c[i] = IF i < k THEN s[i] ELSE e
  BY <1>1, <1>2
<1> HIDE DEF c
<1>6. /\ c \o b \in Seq(S) /\ Len(c \o b) = Len(c) + Len(b)
      /\ \A i \in 1..(Len(c) + Len(b)) :
           (c \o b)[i] = IF i <= Len(c) THEN c[i] ELSE b[i - Len(c)]
  BY <1>3, <1>5, ConcatProperties
<1> QED
  BY <1>1, <1>3, <1>4, <1>5, <1>6

-----------------------------------------------------------------------------
(* Every nonempty set of natural numbers has a least element. *)
LEMMA LeastNatural ==
  ASSUME NEW T \in SUBSET Nat, T # {}
  PROVE  \E n \in T : \A m \in T : n <= m
<1> DEFINE R == OpToRel(<, Nat)
<1>1. IsWellFoundedOn(R, Nat)
  BY NatLessThanWellFounded
<1>2. \A m, n \in Nat : m < n => <<m, n>> \in R
  BY DEF OpToRel
<1> HIDE DEF R
<1>3. PICK n \in T : \A m \in T : <<m, n>> \notin R
  BY <1>1, WFMin
<1>4. ASSUME NEW m \in T
      PROVE  n <= m
  <2>1. ~(m < n)
    BY <1>2, <1>3
  <2>2. m \in Nat /\ n \in Nat
    OBVIOUS
  <2> QED
    BY ONLY <2>1, <2>2
<1> QED
  BY <1>4

(* The rooms of a chain, counted. *)
LEMMA ChainCardinality ==
  ASSUME NEW t, NEW S, NEW s, Chain(t, S, s)
  PROVE  IsFiniteSet(S) /\ Cardinality(S) = Len(s)
<1>1. Len(s) \in Nat /\ s \in [1..Len(s) -> S]
  BY DEF Chain
<1>2. s \in Bijection(1..Len(s), S)
  BY <1>1 DEF Chain, Bijection, Injection, Surjection, IsInjective
<1>3. ExistsBijection(1..Len(s), S)
  BY <1>2 DEF ExistsBijection
<1>4. Cardinality(S) = Len(s)
  BY <1>1, <1>3, FS_CountingElements
<1>5. IsFiniteSet(S)
  BY <1>1, <1>3, FS_NatBijection
<1> QED
  BY <1>4, <1>5

(* Where the walk along a chain is after n steps. *)
Steps(s) == [n \in 1..(Len(s) + 1) |-> IF n <= Len(s) THEN s[n] ELSE NoRoom]

(* Walking a chain from its first room meets its rooms in order and ends: by the
   least position at which the walk would be anywhere else. *)
LEMMA WalkOfChain ==
  ASSUME NEW t, NEW S, DOMAIN t = S, NoRoom \notin S, NEW s, Chain(t, S, s)
  PROVE  WalkFrom(t, First(s)) = Steps(s)
<1> DEFINE N == Len(s) + 1
           OneStep(f) == [n \in 1..N |->
                            IF n = 1 THEN First(s)
                            ELSE LET before == f[n - 1]
                                 IN  IF before \in DOMAIN t THEN t[before].next ELSE NoRoom]
           w == WalkFrom(t, First(s))
           g == Steps(s)
<1>1. Cardinality(DOMAIN t) = Len(s) /\ Len(s) \in Nat /\ N \in Nat
  <2>1. Len(s) \in Nat
    BY DEF Chain
  <2> QED
    BY <2>1, ChainCardinality
<1>2. w = CHOOSE f : f = OneStep(f)
  BY <1>1 DEF WalkFrom
<1>3. g = OneStep(g)
  <2>1. ASSUME NEW n \in 1..N
        PROVE  g[n] = OneStep(g)[n]
    <3>1. CASE n = 1
      BY <1>1, <3>1 DEF Steps, First, Chain
    <3>2. CASE n > 1
      <4>1. n - 1 \in 1..Len(s) /\ n - 1 \in 1..N
        BY <1>1, <3>2
      <4>2. g[n - 1] = s[n - 1] /\ s[n - 1] \in DOMAIN t
        BY <1>1, <4>1 DEF Steps, Chain
      <4>3. t[s[n - 1]].next = IF n - 1 = Len(s) THEN NoRoom ELSE s[n]
        BY <1>1, <4>1 DEF Chain
      <4>4. g[n] = IF n - 1 = Len(s) THEN NoRoom ELSE s[n]
        BY <1>1, <3>2 DEF Steps
      <4> QED
        BY <3>2, <4>2, <4>3, <4>4
    <3> QED
      BY <1>1, <3>1, <3>2
  <2>2. g \in [1..N -> {g[n] : n \in 1..N}] /\ OneStep(g) = [n \in 1..N |-> OneStep(g)[n]]
    BY DEF Steps
  <2>3. \A n \in 1..N : g[n] = OneStep(g)[n]
    BY <2>1
  <2> HIDE DEF OneStep, g
  <2> QED
    BY <2>2, <2>3
<1> HIDE DEF w, g, OneStep
<1>4. w = OneStep(w)
  BY <1>2, <1>3
<1>5. DOMAIN w = 1..N /\ DOMAIN g = 1..N
  BY <1>4, <1>3 DEF OneStep
<1>6. ASSUME NEW n \in 1..N, n = 1 \/ w[n - 1] = g[n - 1]
      PROVE  w[n] = g[n]
  BY <1>3, <1>4, <1>6 DEF OneStep
<1>7. \A n \in 1..N : w[n] = g[n]
  <2> DEFINE Bad == {n \in 1..N : w[n] # g[n]}
  <2>1. CASE Bad # {}
    <3>1. PICK n \in Bad : \A m \in Bad : n <= m
      <4>1. Bad \in SUBSET Nat
        BY <1>1
      <4> HIDE DEF Bad
      <4> QED
        BY <2>1, <4>1, LeastNatural
    <3>2. n = 1 \/ (n - 1 \in 1..N /\ n - 1 \notin Bad)
      BY <1>1, <3>1
    <3> QED
      BY <1>6, <3>1, <3>2
  <2> QED
    BY <2>1
<1>8. w = [n \in 1..N |-> w[n]] /\ g = [n \in 1..N |-> g[n]]
  <2>1. OneStep(w) = [n \in 1..N |-> OneStep(w)[n]] /\ OneStep(g) = [n \in 1..N |-> OneStep(g)[n]]
    BY DEF OneStep
  <2> QED
    BY <1>3, <1>4, <2>1
<1>9. [n \in 1..N |-> w[n]] = [n \in 1..N |-> g[n]]
  BY <1>7
<1> QED
  BY <1>8, <1>9 DEF w, g

(* A chain has no other ends than its first and its last room. *)
LEMMA ChainEnds ==
  ASSUME NEW t, NEW S, NoRoom \notin S, NEW s, Chain(t, S, s)
  PROVE  /\ {r \in S : t[r].prev = NoRoom} = IF s = <<>> THEN {} ELSE {First(s)}
         /\ {r \in S : t[r].next = NoRoom} = IF s = <<>> THEN {} ELSE {Last(s)}
         /\ S \ {t[r].next : r \in S} = IF s = <<>> THEN {} ELSE {First(s)}
<1>1. /\ Len(s) \in Nat /\ (s = <<>> <=> Len(s) = 0)
      /\ \A i \in 1..Len(s) : s[i] \in S /\ s[i] # NoRoom
  BY DEF Chain
<1>2. /\ \A r \in S : \E i \in 1..Len(s) : s[i] = r
      /\ \A i, j \in 1..Len(s) : s[i] = s[j] => i = j
      /\ \A i \in 1..Len(s) :
           /\ t[s[i]].next = IF i = Len(s) THEN NoRoom ELSE s[i + 1]
           /\ t[s[i]].prev = IF i = 1 THEN NoRoom ELSE s[i - 1]
  BY DEF Chain
<1>3. \A i \in 1..Len(s) : (t[s[i]].next = NoRoom <=> i = Len(s))
                           /\ (t[s[i]].prev = NoRoom <=> i = 1)
  <2>1. ASSUME NEW i \in 1..Len(s)
        PROVE  (t[s[i]].next = NoRoom <=> i = Len(s)) /\ (t[s[i]].prev = NoRoom <=> i = 1)
    <3>1. i = Len(s) \/ i + 1 \in 1..Len(s)
      BY <1>1
    <3>2. i = 1 \/ i - 1 \in 1..Len(s)
      BY <1>1
    <3> QED
      BY <1>1, <1>2, <3>1, <3>2
  <2> QED
    BY <2>1
<1>4. ASSUME s # <<>>
      PROVE  1 \in 1..Len(s) /\ Len(s) \in 1..Len(s)
  BY <1>1, <1>4
<1>5. {r \in S : t[r].prev = NoRoom} = IF s = <<>> THEN {} ELSE {First(s)}
  <2>1. CASE s = <<>>
    <3>1. S = {}
      BY <1>1, <1>2, <2>1
    <3> QED
      BY <2>1, <3>1
  <2>2. CASE s # <<>>
    <3>1. \A r \in S : t[r].prev = NoRoom <=> r = s[1]
      BY <1>2, <1>3, <1>4, <2>2
    <3>2. s[1] \in S
      BY <1>1, <1>4, <2>2
    <3> QED
      BY <2>2, <3>1, <3>2 DEF First
  <2> QED
    BY <2>1, <2>2
<1>6. {r \in S : t[r].next = NoRoom} = IF s = <<>> THEN {} ELSE {Last(s)}
  <2>1. CASE s = <<>>
    <3>1. S = {}
      BY <1>1, <1>2, <2>1
    <3> QED
      BY <2>1, <3>1
  <2>2. CASE s # <<>>
    <3>1. \A r \in S : t[r].next = NoRoom <=> r = s[Len(s)]
      BY <1>2, <1>3, <1>4, <2>2
    <3>2. s[Len(s)] \in S
      BY <1>1, <1>4, <2>2
    <3> QED
      BY <2>2, <3>1, <3>2 DEF Last
  <2> QED
    BY <2>1, <2>2
<1>7. \A i \in 1..Len(s) : s[i] \in {t[r].next : r \in S} <=> i # 1
  <2> SUFFICES ASSUME NEW i \in 1..Len(s)
               PROVE  s[i] \in {t[r].next : r \in S} <=> i # 1
    OBVIOUS
  <2>1. ASSUME i # 1
        PROVE  s[i] \in {t[r].next : r \in S}
    <3>1. i - 1 \in 1..Len(s) /\ i - 1 # Len(s) /\ (i - 1) + 1 = i
      BY <1>1, <2>1
    <3>2. t[s[i - 1]].next = s[i] /\ s[i - 1] \in S
      BY <1>1, <1>2, <3>1
    <3> QED
      BY <3>2
  <2>2. ASSUME NEW r \in S, t[r].next = s[i]
        PROVE  i # 1
    <3>1. PICK j \in 1..Len(s) : s[j] = r
      BY <1>2
    <3>2. t[s[j]].next = IF j = Len(s) THEN NoRoom ELSE s[j + 1]
      BY <1>2
    <3>3. j + 1 \in 1..Len(s) /\ s[j + 1] = s[i]
      <4>1. t[s[j]].next # NoRoom
        BY <1>1, <2>2, <3>1
      <4>2. j # Len(s)
        BY <3>2, <4>1
      <4> QED
        BY <1>1, <2>2, <3>1, <3>2, <4>2
    <3>4. j + 1 = i
      BY <1>2, <3>3
    <3> QED
      BY <3>4
  <2> QED
    BY <2>1, <2>2
<1>8. S \ {t[r].next : r \in S} = IF s = <<>> THEN {} ELSE {First(s)}
  <2> DEFINE reached == {t[r].next : r \in S}
  <2> HIDE DEF reached
  <2>1. \A i \in 1..Len(s) : s[i] \in reached <=> i # 1
    BY <1>7 DEF reached
  <2>2. S \ reached = IF s = <<>> THEN {} ELSE {First(s)}
    BY <1>1, <1>2, <1>4, <2>1 DEF First
  <2> QED
    BY <2>2 DEF reached
<1> QED
  BY <1>5, <1>6, <1>8

LEMMA AnyOfOne == \A r : AnyOf({r}) = r /\ AnyOf({}) = NoRoom
BY DEF AnyOf

(* list_in_order of a chain is the chain. *)
LEMMA WalkOrderOfChain ==
  ASSUME NEW t, NEW S, DOMAIN t = S, NoRoom \notin S, NEW s, Chain(t, S, s)
  PROVE  WalkOrder(t) = s
<1> DEFINE path == Steps(s)
<1>1. Len(s) \in Nat /\ s \in Seq(S)
  BY DEF Chain
<1>2. AnyOf(Heads(t)) = First(s)
  <2>1. {r \in S : t[r].prev = NoRoom} = IF s = <<>> THEN {} ELSE {First(s)}
    BY ChainEnds
  <2>2. Heads(t) = {r \in S : t[r].prev = NoRoom}
    BY DEF Heads
  <2> QED
    BY <2>1, <2>2, AnyOfOne DEF First
<1>3. WalkFrom(t, AnyOf(Heads(t))) = path
  BY <1>2, WalkOfChain
<1>4. {n \in DOMAIN path : path[n] # NoRoom} = 1..Len(s)
  <2>1. \A i \in 1..Len(s) : s[i] # NoRoom
    BY <1>1
  <2> QED
    BY <1>1, <2>1 DEF Steps
<1>5. Cardinality(1..Len(s)) = Len(s)
  <2>1. \A n \in Nat : Cardinality(1..n) = n
    BY FS_Interval
  <2> QED
    BY <1>1, <2>1
<1>6. SubSeq(path, 1, Len(s)) = s
  <2>1. path \in Seq(S \cup {NoRoom}) /\ Len(path) = Len(s) + 1
    BY <1>1 DEF Steps
  <2>2. \A i \in 1..Len(s) : path[i] = s[i]
    BY <1>1 DEF Steps
  <2> HIDE DEF path
  <2>3. /\ SubSeq(path, 1, Len(s)) \in Seq(S \cup {NoRoom})
        /\ Len(SubSeq(path, 1, Len(s))) = Len(s)
        /\ \A i \in 1..Len(s) : SubSeq(path, 1, Len(s))[i] = path[i]
    BY <1>1, <2>1
  <2> QED
    BY <1>1, <2>2, <2>3, SeqEqual
<1> QED
  BY <1>3, <1>4, <1>5, <1>6 DEF WalkOrder

(* verify_room_walk_order accepts a chain. *)
LEMMA ChainVerified ==
  ASSUME NEW t, NEW S, DOMAIN t = S, NoRoom \notin S, NEW s, Chain(t, S, s)
  PROVE  Verified(t)
<1> DEFINE unreached == DOMAIN t \ {t[r].next : r \in DOMAIN t}
           path == Steps(s)
<1>1. Len(s) \in Nat /\ s \in Seq(S)
  BY DEF Chain
<1>2. /\ Heads(t) = IF s = <<>> THEN {} ELSE {First(s)}
      /\ Tails(t) = IF s = <<>> THEN {} ELSE {Last(s)}
      /\ unreached = IF s = <<>> THEN {} ELSE {First(s)}
  <2>1. Heads(t) = {r \in S : t[r].prev = NoRoom} /\ Tails(t) = {r \in S : t[r].next = NoRoom}
    BY DEF Heads, Tails
  <2> QED
    BY <2>1, ChainEnds
<1> HIDE DEF unreached
<1>3. /\ Cardinality(Heads(t)) = IF s = <<>> THEN 0 ELSE 1
      /\ Cardinality(Tails(t)) = IF s = <<>> THEN 0 ELSE 1
  BY <1>2, FS_EmptySet, FS_Singleton
<1>4. AnyOf(unreached) = First(s)
  BY <1>2, AnyOfOne DEF First
<1>5. WalkFrom(t, AnyOf(unreached)) = path
  BY <1>4, WalkOfChain
<1>6. path \in Seq(S \cup {NoRoom}) /\ Len(path) = Len(s) + 1
  BY <1>1 DEF Steps
<1>7. path[Len(path)] = NoRoom
  BY <1>1, <1>6 DEF Steps
<1>8. DOMAIN t \subseteq {path[n] : n \in DOMAIN path}
  <2>1. ASSUME NEW r \in DOMAIN t
        PROVE  \E n \in DOMAIN path : path[n] = r
    <3>1. PICK i \in 1..Len(s) : s[i] = r
      BY DEF Chain
    <3> QED
      BY <1>1, <3>1 DEF Steps
  <2> QED
    BY <2>1
<1>9. Verified(t) =
        /\ Cardinality(Heads(t)) <= 1
        /\ Cardinality(Tails(t)) <= 1
        /\ Cardinality(Heads(t)) = Cardinality(Tails(t))
        /\ AnyOf(unreached) # NoRoom =>
             /\ WalkFrom(t, AnyOf(unreached))[Len(WalkFrom(t, AnyOf(unreached)))] = NoRoom
             /\ DOMAIN t \subseteq {WalkFrom(t, AnyOf(unreached))[n] :
                                     n \in DOMAIN WalkFrom(t, AnyOf(unreached))}
  BY DEF Verified, unreached
<1> HIDE DEF path
<1> QED
  BY <1>3, <1>5, <1>7, <1>8, <1>9
-----------------------------------------------------------------------------
(* What an UPDATE of one pointer leaves behind. *)
LEMMA WithNextRow ==
  ASSUME NEW t, NEW M, Table(t, M), NEW r, NEW n \in 0..M
  PROVE  /\ Table(WithNext(t, r, n), M)
         /\ DOMAIN WithNext(t, r, n) = DOMAIN t
         /\ \A q \in DOMAIN t :
              /\ WithNext(t, r, n)[q].next = IF q = r THEN n ELSE t[q].next
              /\ WithNext(t, r, n)[q].prev = t[q].prev
BY DEF WithNext, Table, Rec

LEMMA WithPrevRow ==
  ASSUME NEW t, NEW M, Table(t, M), NEW r, NEW p \in 0..M
  PROVE  /\ Table(WithPrev(t, r, p), M)
         /\ DOMAIN WithPrev(t, r, p) = DOMAIN t
         /\ \A q \in DOMAIN t :
              /\ WithPrev(t, r, p)[q].prev = IF q = r THEN p ELSE t[q].prev
              /\ WithPrev(t, r, p)[q].next = t[q].next
BY DEF WithPrev, Table, Rec

Between(t, r, p, n) == [t EXCEPT ![r].prev = p, ![r].next = n]

LEMMA BetweenRows ==
  ASSUME NEW t, NEW M, Table(t, M), NEW r \in DOMAIN t, NEW p \in 0..M, NEW n \in 0..M
  PROVE  /\ Table(Between(t, r, p, n), M)
         /\ DOMAIN Between(t, r, p, n) = DOMAIN t
         /\ \A q \in DOMAIN t :
              /\ Between(t, r, p, n)[q].prev = IF q = r THEN p ELSE t[q].prev
              /\ Between(t, r, p, n)[q].next = IF q = r THEN n ELSE t[q].next
BY DEF Between, Table, Rec

-----------------------------------------------------------------------------
(* The neighbours of r are stitched together. *)
LEMMA DetachedRows ==
  ASSUME NEW t, NEW M, Table(t, M), NEW r \in DOMAIN t
  PROVE  LET s == Detached(t, r)
         IN  /\ Table(s, M)
             /\ DOMAIN s = DOMAIN t
             /\ \A q \in DOMAIN t :
                  /\ s[q].next = IF q = t[r].prev THEN t[r].next ELSE t[q].next
                  /\ s[q].prev = IF q = t[r].next THEN t[r].prev ELSE t[q].prev
<1>1. t[r].prev \in 0..M /\ t[r].next \in 0..M
  BY DEF Table, Rec
<1> DEFINE w == WithNext(t, t[r].prev, t[r].next)
<1>2. /\ Table(w, M) /\ DOMAIN w = DOMAIN t
      /\ \A q \in DOMAIN t :
           /\ w[q].next = IF q = t[r].prev THEN t[r].next ELSE t[q].next
           /\ w[q].prev = t[q].prev
  BY <1>1, WithNextRow
<1>3. Detached(t, r) = WithPrev(w, t[r].next, t[r].prev)
  BY DEF Detached
<1> HIDE DEF w
<1> QED
  BY <1>1, <1>2, <1>3, WithPrevRow

LEMMA SeqInto ==
  ASSUME NEW S, NEW T, NEW s \in Seq(S), \A i \in 1..Len(s) : s[i] \in T
  PROVE  s \in Seq(T)
OBVIOUS

(* What a chain says, position by position. *)
LEMMA ChainAt ==
  ASSUME NEW t, NEW S, NEW s, Chain(t, S, s)
  PROVE  /\ Len(s) \in Nat
         /\ \A q \in S : \E i \in 1..Len(s) : s[i] = q
         /\ \A i, j \in 1..Len(s) : s[i] = s[j] => i = j
         /\ \A i \in 1..Len(s) :
              /\ s[i] \in S
              /\ t[s[i]].next = IF i = Len(s) THEN NoRoom ELSE s[i + 1]
              /\ t[s[i]].prev = IF i = 1 THEN NoRoom ELSE s[i - 1]
<1>1. s \in Seq(S)
  BY DEF Chain
<1>2. Len(s) \in Nat /\ \A i \in 1..Len(s) : s[i] \in S
  BY <1>1
<1> QED
  BY <1>2 DEF Chain

(* Without r the chain closes around the gap. *)
LEMMA DetachedChain ==
  ASSUME NEW t, NEW M, Table(t, M), NEW s, Chain(t, DOMAIN t, s), NEW k \in 1..Len(s)
  PROVE  Chain(Detached(t, s[k]), DOMAIN t \ {s[k]}, Walk!RemoveAt(s, k))
<1> DEFINE S == DOMAIN t
           n == Len(s)
           r == s[k]
           d == Detached(t, r)
           z == Walk!RemoveAt(s, k)
<1>1. /\ n \in Nat
      /\ \A q \in S : \E i \in 1..n : s[i] = q
      /\ \A i, j \in 1..n : s[i] = s[j] => i = j
      /\ \A i \in 1..n : /\ s[i] \in S
                         /\ t[s[i]].next = IF i = n THEN NoRoom ELSE s[i + 1]
                         /\ t[s[i]].prev = IF i = 1 THEN NoRoom ELSE s[i - 1]
  BY ChainAt
<1>2. NoRoom \notin S /\ r \in S
  BY <1>1 DEF Table, NoRoom
<1>3. z \in Seq(S)
  BY RemoveAtSeq DEF Chain
<1>4. /\ Len(z) = n - 1
      /\ \A i \in 1..Len(z) : z[i] = IF i < k THEN s[i] ELSE s[i + 1]
  BY RemoveAtSeq DEF Chain
<1>5. \A q \in S : /\ d[q].next = IF q = t[r].prev THEN t[r].next ELSE t[q].next
                   /\ d[q].prev = IF q = t[r].next THEN t[r].prev ELSE t[q].prev
  BY <1>2, DetachedRows
<1>6. k \in 1..n
  OBVIOUS
<1>7. /\ t[r].next = IF k = n THEN NoRoom ELSE s[k + 1]
      /\ t[r].prev = IF k = 1 THEN NoRoom ELSE s[k - 1]
  BY <1>1, <1>6
<1> HIDE DEF z, d, S, n
<1>8. \A i \in 1..n : i # k => s[i] # r
  BY <1>1, <1>6
<1> HIDE DEF r
<1>9. ASSUME NEW i \in 1..Len(z)
      PROVE  \/ i < k /\ i \in 1..n /\ i # k /\ z[i] = s[i]
             \/ i >= k /\ i + 1 \in 1..n /\ i + 1 # k /\ z[i] = s[i + 1]
  <2>1. i \in 1..(n - 1) /\ i \in Int /\ k \in Int /\ n \in Int
    BY <1>1, <1>4, <1>6, <1>9
  <2>2. z[i] = IF i < k THEN s[i] ELSE s[i + 1]
    BY <1>4, <1>9
  <2> QED
    BY <1>6, <2>1, <2>2
<1>10. z \in Seq(S \ {r})
  <2>1. ASSUME NEW i \in 1..Len(z)
        PROVE  z[i] \in S \ {r}
    <3>1. CASE i \in 1..n /\ i # k /\ z[i] = s[i]
      BY <1>1, <1>8, <3>1
    <3>2. CASE i + 1 \in 1..n /\ i + 1 # k /\ z[i] = s[i + 1]
      BY <1>1, <1>8, <3>2
    <3> QED
      BY <1>9, <3>1, <3>2
  <2> QED
    BY <1>3, <2>1, SeqInto
<1>11. \A q \in S \ {r} : \E i \in 1..Len(z) : z[i] = q
  <2> TAKE q \in S \ {r}
  <2>1. PICK i \in 1..n : s[i] = q
    BY <1>1
  <2>2. CASE i < k
    <3>1. i \in 1..Len(z) /\ z[i] = q
      BY ONLY <1>1, <1>4, <1>6, <2>1, <2>2
    <3> QED
      BY <3>1
  <2>3. CASE i > k
    <3>1. i - 1 \in 1..Len(z)
      BY <1>1, <1>4, <1>6, <2>1, <2>3
    <3>2. z[i - 1] = s[i - 1 + 1] /\ i - 1 + 1 = i
      BY <1>1, <1>4, <1>6, <2>1, <2>3, <3>1
    <3> QED
      BY <2>1, <3>1, <3>2
  <2>4. i # k
    BY <2>1 DEF r
  <2> QED
    BY <1>1, <1>6, <2>1, <2>2, <2>3, <2>4
<1>12. \A i, j \in 1..Len(z) : z[i] = z[j] => i = j
  <2> TAKE i, j \in 1..Len(z)
  <2> DEFINE at(m) == IF m < k THEN m ELSE m + 1
  <2>1. at(i) \in 1..n /\ z[i] = s[at(i)] /\ at(j) \in 1..n /\ z[j] = s[at(j)]
    BY <1>9
  <2>2. z[i] = z[j] => at(i) = at(j)
    <3> HIDE DEF at
    <3> QED
      BY <1>1, <2>1
  <2>3. i \in Int /\ j \in Int /\ k \in Int
    BY <1>1, <1>4, <1>6
  <2> QED
    BY ONLY <2>2, <2>3
<1>13. ASSUME NEW i \in 1..Len(z)
       PROVE  /\ d[z[i]].next = IF i = Len(z) THEN NoRoom ELSE z[i + 1]
              /\ d[z[i]].prev = IF i = 1 THEN NoRoom ELSE z[i - 1]
  <2>0. i \in 1..(n - 1) /\ i \in Int /\ k \in Int /\ n \in Int
    BY ONLY <1>1, <1>4, <1>6, <1>13
  <2>1. CASE i < k
    <3>1. i \in 1..n /\ z[i] = s[i] /\ s[i] \in S /\ i # n
      BY <1>1, <1>9, <2>0, <2>1
    <3>2. t[s[i]].next = s[i + 1] /\ t[s[i]].prev = IF i = 1 THEN NoRoom ELSE s[i - 1]
      BY <1>1, <3>1
    <3>3. s[i] # t[r].next
      <4>1. k # n => k + 1 \in 1..n /\ k + 1 # i
        BY <1>1, <1>6, <2>0, <2>1
      <4>2. k # n => s[k + 1] # s[i]
        BY <1>1, <3>1, <4>1
      <4> QED
        BY <1>2, <1>7, <3>1, <4>2
    <3>4. s[i] = t[r].prev <=> i = k - 1
      <4>1. k # 1 => k - 1 \in 1..n
        BY <1>1, <1>6
      <4>2. k # 1 => (s[k - 1] = s[i] <=> i = k - 1)
        BY <1>1, <3>1, <4>1
      <4>3. k # 1
        BY <2>0, <2>1
      <4> QED
        BY <1>7, <4>2, <4>3
    <3>5. i # 1 => z[i - 1] = s[i - 1]
      <4>1. i # 1 => i - 1 \in 1..Len(z) /\ i - 1 < k
        BY <1>4, <2>0, <2>1
      <4> QED
        BY <1>4, <4>1
    <3>6. i # Len(z) => z[i + 1] = IF i = k - 1 THEN s[k + 1] ELSE s[i + 1]
      <4>1. i # Len(z) => i + 1 \in 1..Len(z) /\ (i + 1 < k <=> i # k - 1)
        BY <1>4, <2>0, <2>1
      <4>2. i = k - 1 => i + 1 = k
        BY <2>0
      <4> QED
        BY <1>4, <4>1, <4>2
    <3>7. i = Len(z) <=> (i = k - 1 /\ k = n)
      BY <1>4, <1>6, <2>0, <2>1
    <3> QED
      BY <1>5, <1>7, <3>1, <3>2, <3>3, <3>4, <3>5, <3>6, <3>7
  <2>2. CASE i >= k
    <3>1. i + 1 \in 1..n /\ z[i] = s[i + 1] /\ s[i + 1] \in S
      BY <1>1, <1>9, <2>0, <2>2
    <3>2. (i + 1) - 1 = i /\ (i + 1) + 1 = i + 2 /\ i + 1 # 1 /\ (i + 1 = n <=> i = Len(z))
      BY <1>4, <2>0
    <3>3. /\ t[s[i + 1]].prev = s[i]
          /\ t[s[i + 1]].next = IF i = Len(z) THEN NoRoom ELSE s[i + 2]
      BY <1>1, <3>1, <3>2
    <3>4. s[i + 1] # t[r].prev
      <4>1. k # 1 => k - 1 \in 1..n /\ k - 1 # i + 1
        BY <1>1, <1>6, <2>0, <2>2
      <4>2. k # 1 => s[k - 1] # s[i + 1]
        BY <1>1, <3>1, <4>1
      <4> QED
        BY <1>2, <1>7, <3>1, <4>2
    <3>5. s[i + 1] = t[r].next <=> i = k
      <4>1. k # n
        BY <1>6, <2>0, <2>2
      <4>2. k + 1 \in 1..n /\ (k + 1 = i + 1 <=> i = k)
        BY <1>6, <2>0, <4>1
      <4>3. s[k + 1] = s[i + 1] <=> i = k
        BY <1>1, <3>1, <4>2
      <4> QED
        BY <1>7, <4>1, <4>3
    <3>6. i # Len(z) => z[i + 1] = s[i + 2]
      <4>1. i # Len(z) => i + 1 \in 1..Len(z) /\ ~(i + 1 < k)
        BY <1>4, <2>0, <2>2
      <4> QED
        BY <1>4, <3>2, <4>1
    <3>7. i # 1 => z[i - 1] = IF i = k THEN s[k - 1] ELSE s[i]
      <4>1. i # 1 => i - 1 \in 1..Len(z) /\ (i - 1 < k <=> i = k) /\ (i - 1) + 1 = i
        BY <1>4, <2>0, <2>2
      <4> QED
        BY <1>4, <4>1
    <3>8. i = 1 => i = k
      BY <1>6, <2>0, <2>2
    <3> QED
      BY <1>5, <1>7, <3>1, <3>3, <3>4, <3>5, <3>6, <3>7, <3>8
  <2> QED
    BY <2>0, <2>1, <2>2
<1> QED
  BY <1>10, <1>11, <1>12, <1>13 DEF Chain, d, z, S, r

(* A room put in at position k, and pointed at from both sides, is in the chain. *)
LEMMA InsertedChain ==
  ASSUME NEW d, NEW u, NEW S, NoRoom \notin S, NEW r \in S,
         NEW z, Chain(d, S \ {r}, z), NEW k \in 1..(Len(z) + 1),
         NEW before, before = (IF k = 1 THEN NoRoom ELSE z[k - 1]),
         NEW behind, behind = (IF k = Len(z) + 1 THEN NoRoom ELSE z[k]),
         \A q \in S :
           /\ u[q].prev = IF q = r THEN before
                          ELSE IF q = behind THEN r ELSE d[q].prev
           /\ u[q].next = IF q = r THEN behind
                          ELSE IF q = before THEN r ELSE d[q].next
  PROVE  Chain(u, S, Walk!InsertAt(z, k, r))
<1> DEFINE n == Len(z)
           w == Walk!InsertAt(z, k, r)
           R == S \ {r}
<1>1. /\ n \in Nat
      /\ \A q \in R : \E i \in 1..n : z[i] = q
      /\ \A i, j \in 1..n : z[i] = z[j] => i = j
      /\ \A i \in 1..n : /\ z[i] \in R
                         /\ d[z[i]].next = IF i = n THEN NoRoom ELSE z[i + 1]
                         /\ d[z[i]].prev = IF i = 1 THEN NoRoom ELSE z[i - 1]
  BY ChainAt
<1>2. z \in Seq(S)
  <2>1. z \in Seq(R)
    BY DEF Chain
  <2>2. \A i \in 1..Len(z) : z[i] \in S
    BY <1>1
  <2> QED
    BY <2>1, <2>2, SeqInto
<1>3. w \in Seq(S)
  BY <1>2, InsertAtSeq
<1>4. /\ Len(w) = n + 1
      /\ \A i \in 1..Len(w) :
           w[i] = IF i < k THEN z[i] ELSE IF i = k THEN r ELSE z[i - 1]
  BY <1>2, InsertAtSeq
<1>5. k \in 1..(n + 1) /\ k \in Int /\ n \in Int /\ k \in 1..Len(w)
  BY <1>1, <1>4
<1>6. /\ before = IF k = 1 THEN NoRoom ELSE z[k - 1]
      /\ behind = IF k = n + 1 THEN NoRoom ELSE z[k]
  OBVIOUS
<1>7. \A i \in 1..n : z[i] \in S /\ z[i] # r /\ z[i] # NoRoom
  BY <1>1
<1> HIDE DEF n, w, R
<1>8. ASSUME NEW i \in 1..Len(w)
      PROVE  \/ i < k /\ i \in 1..n /\ w[i] = z[i]
             \/ i = k /\ w[i] = r
             \/ i > k /\ i - 1 \in 1..n /\ w[i] = z[i - 1]
  <2>1. i \in 1..(n + 1) /\ i \in Int
    BY <1>4, <1>5, <1>8
  <2>2. w[i] = IF i < k THEN z[i] ELSE IF i = k THEN r ELSE z[i - 1]
    BY <1>4, <1>8
  <2> QED
    BY <1>5, <2>1, <2>2
<1>9. \A q \in S : \E i \in 1..Len(w) : w[i] = q
  <2> TAKE q \in S
  <2>1. CASE q = r
    <3>1. w[k] = r
      BY <1>4, <1>5
    <3> QED
      BY <1>5, <2>1, <3>1
  <2>2. CASE q # r
    <3>1. PICK i \in 1..n : z[i] = q
      BY <1>1, <2>2 DEF R
    <3>2. CASE i < k
      <4>1. i \in 1..Len(w) /\ w[i] = q
        BY <1>4, <1>5, <3>1, <3>2
      <4> QED
        BY <4>1
    <3>3. CASE i >= k
      <4>1. i + 1 \in 1..Len(w) /\ ~(i + 1 < k) /\ i + 1 # k /\ (i + 1) - 1 = i
        BY <1>4, <1>5, <3>3
      <4>2. w[i + 1] = q
        BY <1>4, <3>1, <4>1
      <4> QED
        BY <4>1, <4>2
    <3> QED
      BY <1>5, <3>2, <3>3
  <2> QED
    BY <2>1, <2>2
<1>10. \A i, j \in 1..Len(w) : w[i] = w[j] => i = j
  <2> TAKE i, j \in 1..Len(w)
  <2> DEFINE at(m) == IF m < k THEN m ELSE m - 1
  <2>1. ASSUME NEW m \in 1..Len(w)
        PROVE  \/ m = k /\ w[m] = r
               \/ m # k /\ at(m) \in 1..n /\ w[m] = z[at(m)] /\ z[at(m)] # r
    <3>1. m \in Int
      BY <1>1, <1>4
    <3> QED
      BY <1>5, <1>7, <1>8, <3>1
  <2>2. w[i] = w[j] => (i = k /\ j = k) \/ (i # k /\ j # k /\ at(i) = at(j))
    <3> HIDE DEF at
    <3> QED
      <4>1. /\ (i = k /\ w[i] = r) \/ (i # k /\ at(i) \in 1..n /\ w[i] = z[at(i)] /\ z[at(i)] # r)
            /\ (j = k /\ w[j] = r) \/ (j # k /\ at(j) \in 1..n /\ w[j] = z[at(j)] /\ z[at(j)] # r)
        BY <2>1
      <4> QED
        BY ONLY <1>1, <4>1
  <2>3. i \in Int /\ j \in Int
    BY <1>1, <1>4
  <2> QED
    BY ONLY <1>5, <2>2, <2>3
<1>11. ASSUME NEW i \in 1..Len(w)
       PROVE  /\ u[w[i]].next = IF i = Len(w) THEN NoRoom ELSE w[i + 1]
              /\ u[w[i]].prev = IF i = 1 THEN NoRoom ELSE w[i - 1]
  <2>0. i \in 1..(n + 1) /\ i \in Int
    BY <1>4, <1>5, <1>11
  <2>1. CASE i < k
    <3>1. i \in 1..n /\ w[i] = z[i] /\ z[i] \in S /\ z[i] # r /\ i # Len(w)
      BY <1>4, <1>5, <1>7, <1>8, <2>0, <2>1
    <3>2. /\ d[z[i]].next = IF i = n THEN NoRoom ELSE z[i + 1]
          /\ d[z[i]].prev = IF i = 1 THEN NoRoom ELSE z[i - 1]
      BY <1>1, <3>1
    <3>3. z[i] # behind
      <4>1. k # n + 1 => k \in 1..n /\ k # i
        BY <1>5, <2>0, <2>1
      <4>2. k # n + 1 => z[k] # z[i]
        BY <1>1, <3>1, <4>1
      <4> QED
        BY <1>6, <1>7, <3>1, <4>2
    <3>4. z[i] = before <=> i = k - 1
      <4>1. k # 1 /\ k - 1 \in 1..n
        BY <1>5, <2>0, <2>1
      <4>2. z[k - 1] = z[i] <=> i = k - 1
        BY <1>1, <3>1, <4>1
      <4> QED
        BY <1>6, <4>1, <4>2
    <3>5. i # 1 => w[i - 1] = z[i - 1]
      <4>1. i # 1 => i - 1 \in 1..Len(w) /\ i - 1 < k
        BY <1>4, <2>0, <2>1
      <4> QED
        BY <1>4, <4>1
    <3>6. w[i + 1] = IF i = k - 1 THEN r ELSE z[i + 1]
      <4>1. i + 1 \in 1..Len(w) /\ (i + 1 = k <=> i = k - 1) /\ (i # k - 1 => i + 1 < k)
        BY <1>4, <1>5, <2>0, <2>1
      <4>2. ~(k < k)
        BY <1>5
      <4> QED
        BY <1>4, <4>1, <4>2
    <3>7. i = n => i = k - 1
      BY <1>5, <2>0, <2>1
    <3> QED
      BY <3>1, <3>2, <3>3, <3>4, <3>5, <3>6, <3>7
  <2>2. CASE i = k
    <3>1. w[i] = r
      BY <1>8, <2>2, <1>5
    <3>2. i # Len(w) => w[i + 1] = z[k]
      <4>1. i # Len(w) => i + 1 \in 1..Len(w) /\ ~(i + 1 < k) /\ i + 1 # k /\ (i + 1) - 1 = k
        BY <1>4, <1>5, <2>0, <2>2
      <4> QED
        BY <1>4, <4>1
    <3>3. i # 1 => w[i - 1] = z[k - 1]
      <4>1. i # 1 => i - 1 \in 1..Len(w) /\ i - 1 < k /\ i - 1 = k - 1
        BY <1>4, <1>5, <2>0, <2>2
      <4> QED
        BY <1>4, <4>1
    <3> QED
      BY <1>4, <1>6, <2>2, <3>1, <3>2, <3>3
  <2>3. CASE i > k
    <3>1. i - 1 \in 1..n /\ w[i] = z[i - 1] /\ i # 1
      BY <1>5, <1>8, <2>0, <2>3
    <3>2. /\ (i - 1) + 1 = i /\ (i - 1) - 1 = i - 2 /\ (i - 1 = n <=> i = Len(w))
      BY <1>4, <1>5, <2>0
    <3>3. z[i - 1] \in S /\ z[i - 1] # r
      BY <1>7, <3>1
    <3>4. /\ d[z[i - 1]].next = IF i = Len(w) THEN NoRoom ELSE z[i]
          /\ d[z[i - 1]].prev = IF i - 1 = 1 THEN NoRoom ELSE z[i - 2]
      BY <1>1, <3>1, <3>2
    <3>5. z[i - 1] # before
      <4>1. k # 1 => k - 1 \in 1..n /\ k - 1 # i - 1
        BY <1>5, <2>0, <2>3
      <4>2. k # 1 => z[k - 1] # z[i - 1]
        BY <1>1, <3>1, <4>1
      <4> QED
        BY <1>6, <1>7, <3>1, <4>2
    <3>6. z[i - 1] = behind <=> i - 1 = k
      <4>1. k # n + 1 /\ k \in 1..n
        BY <1>5, <2>0, <2>3
      <4>2. z[k] = z[i - 1] <=> i - 1 = k
        BY <1>1, <3>1, <4>1
      <4> QED
        BY <1>6, <4>1, <4>2
    <3>7. i # Len(w) => w[i + 1] = z[i]
      <4>1. i # Len(w) => i + 1 \in 1..Len(w) /\ ~(i + 1 < k) /\ i + 1 # k /\ (i + 1) - 1 = i
        BY <1>4, <1>5, <2>0, <2>3
      <4> QED
        BY <1>4, <4>1
    <3>8. w[i - 1] = IF i - 1 = k THEN r ELSE z[i - 2]
      <4>1. i - 1 \in 1..Len(w) /\ ~(i - 1 < k)
        BY <1>4, <1>5, <2>0, <2>3
      <4> QED
        BY <1>4, <3>2, <4>1
    <3>9. i - 1 = 1 => i - 1 = k
      BY <1>5, <2>0, <2>3
    <3> QED
      BY <3>1, <3>3, <3>4, <3>5, <3>6, <3>7, <3>8, <3>9
  <2> QED
    BY <1>5, <2>0, <2>1, <2>2, <2>3
<1> QED
  BY <1>3, <1>9, <1>10, <1>11 DEF Chain, w

-----------------------------------------------------------------------------
(* The list is linked: its rooms form one chain, which is the walk from the head. *)
Linked(t) == Chain(t, DOMAIN t, WalkOrder(t))

LEMMA ChainIsWalk ==
  ASSUME NEW t, NEW M, Table(t, M), NEW s, Chain(t, DOMAIN t, s)
  PROVE  Linked(t) /\ WalkOrder(t) = s
<1>1. NoRoom \notin DOMAIN t
  BY DEF Table, NoRoom
<1> QED
  BY <1>1, WalkOrderOfChain DEF Linked

(* Where the rooms of a chain stand. *)
LEMMA ChainPlace ==
  ASSUME NEW t, NEW S, NEW s, Chain(t, S, s), NEW r
  PROVE  /\ r \in S => /\ Walk!Contains(s, r)
                       /\ Walk!Place(s, r) \in 1..Len(s)
                       /\ s[Walk!Place(s, r)] = r
         /\ r \notin S => ~Walk!Contains(s, r) /\ Walk!Place(s, r) = 0
<1>1. DOMAIN s = 1..Len(s)
  BY DEF Chain
<1>2. CASE r \in S
  <2>1. \E i \in DOMAIN s : s[i] = r
    BY <1>1, <1>2, ChainAt
  <2>2. Walk!Contains(s, r)
    BY <1>1, <2>1 DEF Walk!Contains
  <2>3. Walk!Place(s, r) = CHOOSE i \in DOMAIN s : s[i] = r
    BY <2>2 DEF Walk!Place
  <2> QED
    BY <1>1, <1>2, <2>1, <2>2, <2>3
<1>3. CASE r \notin S
  <2>1. ~Walk!Contains(s, r)
    BY <1>3, ChainAt DEF Walk!Contains
  <2> QED
    BY <1>3, <2>1 DEF Walk!Place
<1> QED
  BY <1>2, <1>3

(* The sequence s without r: Walk!Without, of any sequence. *)
Less(s, r) ==
  IF Walk!Contains(s, r) THEN Walk!RemoveAt(s, Walk!Place(s, r)) ELSE s

LEMMA DetachedLess ==
  ASSUME NEW t, NEW M, Table(t, M), Linked(t), NEW r \in DOMAIN t
  PROVE  Chain(Detached(t, r), DOMAIN t \ {r}, Less(WalkOrder(t), r))
<1> DEFINE s == WalkOrder(t)
           k == Walk!Place(s, r)
<1>1. Chain(t, DOMAIN t, s)
  BY DEF Linked
<1> HIDE DEF s
<1>2. Walk!Contains(s, r) /\ k \in 1..Len(s) /\ s[k] = r
  BY <1>1, ChainPlace
<1>3. Less(s, r) = Walk!RemoveAt(s, k)
  BY <1>2 DEF Less
<1> HIDE DEF k
<1>4. Chain(Detached(t, s[k]), DOMAIN t \ {s[k]}, Walk!RemoveAt(s, k))
  BY <1>1, <1>2, DetachedChain
<1> QED
  BY <1>2, <1>3, <1>4 DEF s

(* delete: the room leaves the walk. *)
LEMMA RemovedWalk ==
  ASSUME NEW t, NEW M, Table(t, M), Linked(t), NEW r \in DOMAIN t
  PROVE  LET u == Removed(t, r)
         IN  Table(u, M) /\ Linked(u) /\ WalkOrder(u) = Less(WalkOrder(t), r)
<1> DEFINE d == Detached(t, r)
           u == Removed(t, r)
           z == Less(WalkOrder(t), r)
<1>1. Table(d, M) /\ DOMAIN d = DOMAIN t
  BY DetachedRows
<1>2. Chain(d, DOMAIN t \ {r}, z)
  BY DetachedLess
<1>3. u = [q \in DOMAIN t \ {r} |-> d[q]]
  BY DEF Removed
<1> HIDE DEF d, u, z
<1>4. Table(u, M) /\ DOMAIN u = DOMAIN t \ {r}
  BY <1>1, <1>3 DEF Table
<1>5. Chain(u, DOMAIN u, z)
  <2>1. \A i \in 1..Len(z) : z[i] \in DOMAIN u
    BY <1>2, <1>4, ChainAt
  <2>2. \A i \in 1..Len(z) : u[z[i]] = d[z[i]]
    BY <1>3, <1>4, <2>1
  <2> QED
    BY <1>2, <1>4, <2>2 DEF Chain
<1>6. Linked(u) /\ WalkOrder(u) = z
  BY <1>4, <1>5, ChainIsWalk
<1> QED
  BY <1>4, <1>6 DEF u, z

(* create: the room is behind the last one. *)
LEMMA CreatedWalk ==
  ASSUME NEW t, NEW M, Table(t, M), Linked(t),
         NEW name \in RoomName, NEW min \in PermissionLevel
  PROVE  LET u == Created(t, M + 1, name, min)
         IN  /\ Table(u, M + 1) /\ Linked(u)
             /\ WalkOrder(u) = Append(WalkOrder(t), M + 1)
             /\ ~Walk!Contains(WalkOrder(t), M + 1)
<1> DEFINE id == M + 1
           s == WalkOrder(t)
           tail == AnyOf(Tails(t))
           v == [r \in DOMAIN t \cup {id} |->
                   IF r = id THEN Row(name, tail, NoRoom, min, FALSE) ELSE t[r]]
           u == Created(t, id, name, min)
           S == DOMAIN t \cup {id}
<1>1. Chain(t, DOMAIN t, s)
  BY DEF Linked
<1>2. /\ M \in Nat /\ id \in 1..id /\ id # NoRoom
      /\ id \notin DOMAIN t /\ NoRoom \notin DOMAIN t
      /\ DOMAIN t \subseteq 1..id
  BY DEF Table, NoRoom
<1>3. tail = Last(s)
  <2>1. {r \in DOMAIN t : t[r].next = NoRoom} = IF s = <<>> THEN {} ELSE {Last(s)}
    BY <1>1, <1>2, ChainEnds
  <2>2. Tails(t) = {r \in DOMAIN t : t[r].next = NoRoom}
    BY DEF Tails
  <2> QED
    BY <2>1, <2>2, AnyOfOne DEF Last
<1> HIDE DEF tail, s
<1>4. s \in Seq(DOMAIN t) /\ Len(s) \in Nat /\ \A i \in 1..Len(s) : s[i] \in DOMAIN t
  BY <1>1, ChainAt DEF Chain
<1>5. /\ tail = IF Len(s) + 1 = 1 THEN NoRoom ELSE s[Len(s)]
      /\ tail \in DOMAIN t \/ tail = NoRoom
  BY <1>3, <1>4 DEF Last
<1>6. tail \in 0..id /\ id \in 0..id
  BY <1>2, <1>5 DEF NoRoom
<1>7. /\ Table(v, id) /\ DOMAIN v = S
      /\ v[id].prev = tail /\ v[id].next = NoRoom
      /\ \A q \in DOMAIN t : v[q] = t[q]
  <2>1. \A q \in DOMAIN t : t[q] \in Rec(id)
    BY <1>2 DEF Table, Rec
  <2>2. Row(name, tail, NoRoom, min, FALSE) \in Rec(id)
    BY <1>2, <1>6 DEF Row, Rec, NoRoom
  <2>3. v \in [S -> Rec(id)]
    BY <2>1, <2>2
  <2>4. DOMAIN v = S /\ id \in Nat
    BY <1>2
  <2>5. Table(v, id)
    <3> HIDE DEF v, id
    <3> QED
      BY <1>2, <2>3, <2>4 DEF Table
  <2> QED
    BY <1>2, <2>4, <2>5 DEF Row
<1> HIDE DEF v
<1>8. u = WithNext(v, tail, id)
  BY DEF Created, v, tail
<1> HIDE DEF u
<1>9. /\ Table(u, id) /\ DOMAIN u = S
      /\ \A q \in S : /\ u[q].next = IF q = tail THEN id ELSE v[q].next
                      /\ u[q].prev = v[q].prev
  BY <1>6, <1>7, <1>8, WithNextRow
<1>10. Chain(v, S \ {id}, s)
  <2>1. S \ {id} = DOMAIN t
    BY <1>2
  <2>2. \A i \in 1..Len(s) : v[s[i]] = t[s[i]]
    BY <1>4, <1>7
  <2> QED
    BY <1>1, <2>1, <2>2 DEF Chain
<1> HIDE DEF S, id
<1>11. Chain(u, S, Walk!InsertAt(s, Len(s) + 1, id))
  <2> DEFINE k == Len(s) + 1
  <2>1. NoRoom \notin S /\ id \in S /\ k \in 1..(Len(s) + 1) /\ k - 1 = Len(s)
    BY <1>2, <1>4 DEF S
  <2>2. tail = (IF k = 1 THEN NoRoom ELSE s[k - 1])
    BY <1>5, <2>1
  <2>3. NoRoom = (IF k = Len(s) + 1 THEN NoRoom ELSE s[k])
    OBVIOUS
  <2>4. id # tail
    BY <1>2, <1>5
  <2>5. \A q \in S :
          /\ u[q].prev = IF q = id THEN tail ELSE IF q = NoRoom THEN id ELSE v[q].prev
          /\ u[q].next = IF q = id THEN NoRoom ELSE IF q = tail THEN id ELSE v[q].next
    BY <1>7, <1>9, <2>1, <2>4
  <2> HIDE DEF k
  <2>6. Chain(u, S, Walk!InsertAt(s, k, id))
    BY ONLY <1>10, <2>1, <2>2, <2>3, <2>5, InsertedChain
  <2> QED
    BY <2>6 DEF k
<1>12. Walk!InsertAt(s, Len(s) + 1, id) = Append(s, id)
  <2> DEFINE k == Len(s) + 1
             w == Walk!InsertAt(s, k, id)
  <2>1. s \in Seq(S) /\ id \in S /\ k \in 1..(Len(s) + 1)
    <3>1. id \in S /\ \A i \in 1..Len(s) : s[i] \in S
      BY <1>4 DEF S
    <3>2. s \in Seq(S)
      BY <1>4, <3>1, SeqInto
    <3> QED
      BY <1>4, <3>1, <3>2
  <2>2. /\ w \in Seq(S) /\ Len(w) = Len(s) + 1
        /\ \A i \in 1..Len(w) :
             w[i] = IF i < k THEN s[i] ELSE IF i = k THEN id ELSE s[i - 1]
    <3> HIDE DEF k
    <3> QED
      BY ONLY <2>1, InsertAtSeq
  <2>3. /\ Append(s, id) \in Seq(S) /\ Len(Append(s, id)) = Len(s) + 1
        /\ \A i \in 1..(Len(s) + 1) : Append(s, id)[i] = IF i < Len(s) + 1 THEN s[i] ELSE id
    BY <1>4, <2>1
  <2> HIDE DEF w
  <2>4. \A i \in 1..Len(w) : w[i] = Append(s, id)[i]
    BY <1>4, <2>2, <2>3
  <2>5. w = Append(s, id)
    BY <2>2, <2>3, <2>4, SeqEqual
  <2> QED
    BY <2>5 DEF w
<1>13. Linked(u) /\ WalkOrder(u) = Append(s, id)
  BY <1>9, <1>11, <1>12, ChainIsWalk
<1>14. ~Walk!Contains(s, id)
  BY <1>1, <1>2, ChainPlace
<1> QED
  BY <1>9, <1>13, <1>14 DEF u, s, id

(* reorder: the room is behind the one named, or first. *)
LEMMA InsertedAtHeadWalk ==
  ASSUME NEW d, NEW M, Table(d, M), NEW r \in DOMAIN d,
         NEW z, Chain(d, DOMAIN d \ {r}, z)
  PROVE  LET u == InsertedAtHead(d, r)
         IN  Table(u, M) /\ DOMAIN u = DOMAIN d
             /\ Chain(u, DOMAIN d, Walk!InsertAt(z, 1, r))
<1> DEFINE S == DOMAIN d \ {r}
           head == AnyOf(Heads(d) \ {r})
           w == WithPrev(d, head, r)
           u == InsertedAtHead(d, r)
<1>1. /\ NoRoom \notin DOMAIN d /\ r \in 0..M /\ NoRoom \in 0..M
      /\ DOMAIN d \subseteq 0..M /\ NoRoom \notin S
  BY DEF Table, NoRoom
<1>2. Len(z) \in Nat /\ \A i \in 1..Len(z) : z[i] \in S
  BY ChainAt
<1>3. head = First(z)
  <2>1. {q \in S : d[q].prev = NoRoom} = IF z = <<>> THEN {} ELSE {First(z)}
    BY <1>1, ChainEnds
  <2>2. Heads(d) \ {r} = {q \in S : d[q].prev = NoRoom}
    BY DEF Heads
  <2> QED
    BY <2>1, <2>2, AnyOfOne DEF First
<1>4. z = <<>> <=> Len(z) = 0
  BY DEF Chain
<1>5. head = (IF 1 = Len(z) + 1 THEN NoRoom ELSE z[1]) /\ head \in 0..M
  BY <1>1, <1>2, <1>3, <1>4 DEF First
<1> HIDE DEF head
<1>6. /\ Table(w, M) /\ DOMAIN w = DOMAIN d
      /\ \A q \in DOMAIN d : /\ w[q].prev = IF q = head THEN r ELSE d[q].prev
                             /\ w[q].next = d[q].next
  BY <1>1, WithPrevRow
<1>7. u = Between(w, r, NoRoom, head)
  BY DEF InsertedAtHead, Between, head
<1> HIDE DEF w, u
<1>8. /\ Table(u, M) /\ DOMAIN u = DOMAIN w
      /\ \A q \in DOMAIN w : /\ u[q].prev = IF q = r THEN NoRoom ELSE w[q].prev
                             /\ u[q].next = IF q = r THEN head ELSE w[q].next
  <2>1. /\ Table(Between(w, r, NoRoom, head), M)
        /\ DOMAIN Between(w, r, NoRoom, head) = DOMAIN w
        /\ \A q \in DOMAIN w :
             /\ Between(w, r, NoRoom, head)[q].prev = IF q = r THEN NoRoom ELSE w[q].prev
             /\ Between(w, r, NoRoom, head)[q].next = IF q = r THEN head ELSE w[q].next
    <3>1. Table(w, M) /\ r \in DOMAIN w /\ NoRoom \in 0..M /\ head \in 0..M
      BY <1>1, <1>5, <1>6
    <3> QED
      BY ONLY <3>1, BetweenRows
  <2> QED
    BY <1>7, <2>1
<1>9. \A q \in DOMAIN d :
        /\ u[q].prev = IF q = r THEN NoRoom ELSE IF q = head THEN r ELSE d[q].prev
        /\ u[q].next = IF q = r THEN head ELSE IF q = NoRoom THEN r ELSE d[q].next
  BY <1>1, <1>6, <1>8
<1>10. 1 \in 1..(Len(z) + 1) /\ NoRoom = (IF 1 = 1 THEN NoRoom ELSE z[1 - 1])
  BY <1>2
<1>11. Chain(u, DOMAIN d, Walk!InsertAt(z, 1, r))
  BY <1>1, <1>5, <1>9, <1>10, InsertedChain
<1> QED
  BY <1>6, <1>8, <1>11 DEF u

LEMMA InsertedAfterWalk ==
  ASSUME NEW d, NEW M, Table(d, M), NEW r \in DOMAIN d,
         NEW z, Chain(d, DOMAIN d \ {r}, z), NEW j \in 1..Len(z)
  PROVE  LET u == InsertedAfter(d, r, z[j])
         IN  Table(u, M) /\ DOMAIN u = DOMAIN d
             /\ Chain(u, DOMAIN d, Walk!InsertAt(z, j + 1, r))
<1> DEFINE S == DOMAIN d \ {r}
           target == z[j]
           next == d[target].next
           v == WithPrev(d, next, r)
           w == WithNext(v, target, r)
           u == InsertedAfter(d, r, target)
<1>1. /\ Len(z) \in Nat
      /\ target \in S
      /\ next = IF j = Len(z) THEN NoRoom ELSE z[j + 1]
  BY ChainAt
<1>2. /\ NoRoom \notin DOMAIN d /\ r \in 0..M /\ target \in 0..M
      /\ next \in 0..M /\ NoRoom \notin S
  BY <1>1 DEF Table, NoRoom, Rec
<1>3. /\ Table(v, M) /\ DOMAIN v = DOMAIN d
      /\ \A q \in DOMAIN d : /\ v[q].prev = IF q = next THEN r ELSE d[q].prev
                             /\ v[q].next = d[q].next
  BY <1>2, WithPrevRow
<1> HIDE DEF v
<1>4. /\ Table(w, M) /\ DOMAIN w = DOMAIN d
      /\ \A q \in DOMAIN d : /\ w[q].next = IF q = target THEN r ELSE v[q].next
                             /\ w[q].prev = v[q].prev
  BY <1>2, <1>3, WithNextRow
<1>5. u = Between(w, r, target, next)
  BY DEF InsertedAfter, Between, v
<1> HIDE DEF w, u, next
<1>6. /\ Table(u, M) /\ DOMAIN u = DOMAIN w
      /\ \A q \in DOMAIN w : /\ u[q].prev = IF q = r THEN target ELSE w[q].prev
                             /\ u[q].next = IF q = r THEN next ELSE w[q].next
  <2>1. /\ Table(Between(w, r, target, next), M)
        /\ DOMAIN Between(w, r, target, next) = DOMAIN w
        /\ \A q \in DOMAIN w :
             /\ Between(w, r, target, next)[q].prev = IF q = r THEN target ELSE w[q].prev
             /\ Between(w, r, target, next)[q].next = IF q = r THEN next ELSE w[q].next
    <3>1. Table(w, M) /\ r \in DOMAIN w /\ target \in 0..M /\ next \in 0..M
      BY <1>2, <1>4
    <3> QED
      BY ONLY <3>1, BetweenRows
  <2> QED
    BY <1>5, <2>1
<1>7. \A q \in DOMAIN d :
        /\ u[q].prev = IF q = r THEN target ELSE IF q = next THEN r ELSE d[q].prev
        /\ u[q].next = IF q = r THEN next ELSE IF q = target THEN r ELSE d[q].next
  BY <1>3, <1>4, <1>6
<1> DEFINE k == j + 1
<1>8. /\ k \in 1..(Len(z) + 1) /\ k # 1 /\ k - 1 = j
      /\ k = Len(z) + 1 <=> j = Len(z)
  BY <1>1
<1>9. /\ target = (IF k = 1 THEN NoRoom ELSE z[k - 1])
      /\ next = (IF k = Len(z) + 1 THEN NoRoom ELSE z[k])
  BY <1>1, <1>8
<1> HIDE DEF k, target
<1>10. Chain(u, DOMAIN d, Walk!InsertAt(z, k, r))
  BY <1>2, <1>7, <1>8, <1>9, InsertedChain
<1> QED
  BY <1>4, <1>6, <1>10 DEF u, k, target

LEMMA ReorderedWalk ==
  ASSUME NEW t, NEW M, Table(t, M), Linked(t), NEW r \in DOMAIN t,
         NEW after, after # r, after = NoRoom \/ after \in DOMAIN t
  PROVE  LET u == Reordered(t, r, after)
         IN  /\ Table(u, M) /\ Linked(u)
             /\ WalkOrder(u) = Walk!Behind(Less(WalkOrder(t), r), r, after)
<1> DEFINE d == Detached(t, r)
           z == Less(WalkOrder(t), r)
           u == Reordered(t, r, after)
<1>1. Table(d, M) /\ DOMAIN d = DOMAIN t /\ r \in DOMAIN d
  BY DetachedRows
<1>2. Chain(d, DOMAIN d \ {r}, z)
  BY <1>1, DetachedLess
<1>3. NoRoom \notin DOMAIN t
  BY DEF Table, NoRoom
<1>4. u = IF after = NoRoom THEN InsertedAtHead(d, r) ELSE InsertedAfter(d, r, after)
  BY DEF Reordered
<1> HIDE DEF d, z, u
<1>5. /\ Table(u, M) /\ DOMAIN u = DOMAIN t
      /\ Chain(u, DOMAIN u, Walk!Behind(z, r, after))
  <2>1. CASE after = NoRoom
    <3>1. Walk!Place(z, after) = 0
      BY <1>1, <1>2, <1>3, <2>1, ChainPlace
    <3>2. Walk!Behind(z, r, after) = Walk!InsertAt(z, 1, r)
      BY <3>1 DEF Walk!Behind
    <3> QED
      BY <1>1, <1>2, <1>4, <2>1, <3>2, InsertedAtHeadWalk
  <2>2. CASE after # NoRoom
    <3> DEFINE j == Walk!Place(z, after)
    <3>1. j \in 1..Len(z) /\ z[j] = after
      BY <1>1, <1>2, <2>2, ChainPlace
    <3>2. Walk!Behind(z, r, after) = Walk!InsertAt(z, j + 1, r)
      BY DEF Walk!Behind
    <3> HIDE DEF j
    <3>3. LET x == InsertedAfter(d, r, z[j])
          IN  Table(x, M) /\ DOMAIN x = DOMAIN d
              /\ Chain(x, DOMAIN d, Walk!InsertAt(z, j + 1, r))
      BY <1>1, <1>2, <3>1, InsertedAfterWalk
    <3> QED
      BY <1>1, <1>4, <2>2, <3>1, <3>2, <3>3
  <2> QED
    BY <2>1, <2>2
<1>6. Linked(u) /\ WalkOrder(u) = Walk!Behind(z, r, after)
  BY <1>5, ChainIsWalk
<1> QED
  BY <1>5, <1>6 DEF u, z

-----------------------------------------------------------------------------
(* The invariant: types, and one chain that holds every room and is the walk from
   the head. That neighbours agree is not inductive by itself for the walk: a ring
   of rooms beside the list would satisfy it. *)
RoomInv == TypeOK /\ Linked(rooms)

LEMMA RoomInvTable == RoomInv => Table(rooms, lastId)
BY DEF RoomInv, TypeOK, Table, Rec

LEMMA RoomInit == Init => RoomInv
<1> SUFFICES ASSUME Init PROVE RoomInv
  OBVIOUS
<1>1. /\ DOMAIN rooms = 1..5
      /\ \A r \in 1..5 :
           rooms[r] = Row(SystemName[r], r - 1, IF r = 5 THEN NoRoom ELSE r + 1,
                          <<0, 10, 50, 100, 100>>[r], r = 5)
  BY DEF Init, Migrated, SystemRooms
<1>2. \A r \in 1..5 : <<0, 10, 50, 100, 100>>[r] \in PermissionLevel
  BY DEF PermissionLevel
<1>3. \A r \in 1..5 : rooms[r] \in Rec(5)
  <2> TAKE r \in 1..5
  <2>1. SystemName[r] \in RoomName
    BY DEF RoomName, SystemRooms
  <2>2. r - 1 \in 0..5 /\ (IF r = 5 THEN NoRoom ELSE r + 1) \in 0..5
    BY DEF NoRoom
  <2>3. \A name \in RoomName, prev, next \in 0..5, min \in PermissionLevel, ro \in BOOLEAN :
          Row(name, prev, next, min, ro) \in Rec(5)
    BY DEF Row, Rec
  <2>4. (r = 5) \in BOOLEAN
    OBVIOUS
  <2>5. Row(SystemName[r], r - 1, IF r = 5 THEN NoRoom ELSE r + 1,
            <<0, 10, 50, 100, 100>>[r], r = 5) \in Rec(5)
    BY <1>2, <2>1, <2>2, <2>3, <2>4
  <2> QED
    BY <1>1, <2>5
<1>4. rooms \in [DOMAIN rooms -> Rec(5)] /\ Table(rooms, 5)
  BY <1>1, <1>3 DEF Init, Migrated, Table
<1>5. Linked(rooms)
  <2> DEFINE s == <<1, 2, 3, 4, 5>>
  <2>1. s \in Seq(1..5) /\ Len(s) = 5 /\ \A i \in 1..5 : s[i] = i
    OBVIOUS
  <2>2. \A r \in 1..5 : /\ rooms[r].prev = r - 1
                        /\ rooms[r].next = IF r = 5 THEN NoRoom ELSE r + 1
    BY <1>1 DEF Row
  <2> HIDE DEF s
  <2>3. \A i \in 1..Len(s) :
          /\ rooms[s[i]].next = IF i = Len(s) THEN NoRoom ELSE s[i + 1]
          /\ rooms[s[i]].prev = IF i = 1 THEN NoRoom ELSE s[i - 1]
    BY <2>1, <2>2 DEF NoRoom
  <2>4. Chain(rooms, DOMAIN rooms, s)
    BY <1>1, <2>1, <2>3 DEF Chain
  <2> QED
    BY <1>4, <2>4, ChainIsWalk
<1>6. TypeOK
  BY <1>1, <1>4, BoundsAssumption DEF Init, TypeOK, Rec, Idle, NoRoom
<1> QED
  BY <1>5, <1>6 DEF RoomInv

(* What each transaction makes of the walk: Walk!Next, or nothing. *)
SameWalk == WalkOrder(rooms') = WalkOrder(rooms) /\ done' = done
WalkStep == Walk!Next \/ SameWalk

(* Inserting a room, dropping one and moving one; the commands differ in what
   leads there. *)
LEMMA InsertStep ==
  ASSUME RoomInv, NEW name \in RoomName, NEW min \in {0, 10}, Insert(name, min)
  PROVE  /\ Table(rooms', lastId') /\ Linked(rooms')
         /\ lastId' \in 5..MaxRoom /\ lastId <= lastId'
         /\ WalkStep
<1>1. /\ Table(rooms, lastId) /\ Linked(rooms)
      /\ lastId \in 5..MaxRoom /\ min \in PermissionLevel
  BY RoomInvTable DEF RoomInv, TypeOK, PermissionLevel
<1>2. CASE \E r \in DOMAIN rooms : rooms[r].name = name
  BY <1>1, <1>2 DEF Insert, NothingChanges, WalkStep, SameWalk
<1>3. CASE ~\E r \in DOMAIN rooms : rooms[r].name = name
  <2>1. /\ lastId < MaxRoom /\ lastId' = lastId + 1
        /\ rooms' = Created(rooms, lastId + 1, name, min)
        /\ done' = [op |-> "create", room |-> lastId + 1, after |-> NoRoom]
    BY <1>3 DEF Insert, Did
  <2>2. /\ Table(rooms', lastId + 1) /\ Linked(rooms')
        /\ WalkOrder(rooms') = Append(WalkOrder(rooms), lastId + 1)
        /\ ~Walk!Contains(WalkOrder(rooms), lastId + 1)
    BY <1>1, <2>1, CreatedWalk
  <2>3. Walk!Create
    BY <2>1, <2>2 DEF Walk!Create
  <2> QED
    BY <1>1, <2>1, <2>2, <2>3, BoundsAssumption DEF WalkStep, Walk!Next
<1> QED
  BY <1>2, <1>3

LEMMA DropStep ==
  ASSUME RoomInv, NEW r, Drop(r)
  PROVE  /\ Table(rooms', lastId') /\ Linked(rooms')
         /\ lastId' = lastId
         /\ WalkStep
<1>1. Table(rooms, lastId) /\ Linked(rooms) /\ lastId' = lastId
  BY RoomInvTable DEF RoomInv, Drop
<1>2. CASE r \notin DOMAIN rooms
  BY <1>1, <1>2 DEF Drop, Removed, WalkStep, SameWalk
<1>3. CASE r \in DOMAIN rooms
  <2>1. /\ rooms' = Removed(rooms, r)
        /\ done' = [op |-> "delete", room |-> r, after |-> NoRoom]
    BY <1>3 DEF Drop, Did
  <2>2. /\ Table(rooms', lastId) /\ Linked(rooms')
        /\ WalkOrder(rooms') = Less(WalkOrder(rooms), r)
    BY <1>1, <1>3, <2>1, RemovedWalk
  <2>3. Walk!Contains(WalkOrder(rooms), r)
    BY <1>1, <1>3, ChainPlace DEF Linked
  <2>4. Walk!Delete
    BY <2>1, <2>2, <2>3 DEF Walk!Delete, Walk!Without, Less
  <2> QED
    BY <1>1, <2>2, <2>4 DEF WalkStep, Walk!Next
<1> QED
  BY <1>2, <1>3

LEMMA MoveStep ==
  ASSUME RoomInv, NEW r, NEW after, Move(r, after)
  PROVE  /\ Table(rooms', lastId') /\ Linked(rooms')
         /\ lastId' = lastId
         /\ WalkStep
<1>1. /\ Table(rooms, lastId) /\ Linked(rooms) /\ lastId' = lastId
      /\ rooms' = Reordered(rooms, r, after)
  BY RoomInvTable DEF RoomInv, Move
<1>2. CASE rooms' = rooms
  BY <1>1, <1>2 DEF Move, WalkStep, SameWalk
<1>3. CASE rooms' # rooms
  <2>1. r \in DOMAIN rooms /\ after # r /\ (after = NoRoom \/ after \in DOMAIN rooms)
    BY <1>1, <1>3 DEF Reordered
  <2>2. done' = [op |-> "move", room |-> r, after |-> after]
    BY <1>3 DEF Move, Did
  <2>3. /\ Table(rooms', lastId) /\ Linked(rooms')
        /\ WalkOrder(rooms') = Walk!Behind(Less(WalkOrder(rooms), r), r, after)
    BY <1>1, <2>1, ReorderedWalk
  <2>4. Walk!Move
    BY <2>2, <2>3 DEF Walk!Move, Walk!Without, Less
  <2> QED
    BY <1>1, <2>3, <2>4 DEF WalkStep, Walk!Next
<1> QED
  BY <1>2, <1>3

(* A step that keeps the links, and does not take an id back, keeps the type of
   the table; what is left to show is the callers' own state. *)
LEMMA RestOfType ==
  ASSUME RoomInv, Table(rooms', lastId'), Linked(rooms'),
         lastId' \in 5..MaxRoom, lastId <= lastId',
         begun' \in 0..MaxOps,
         task' \in [Caller -> [op : {"idle", "create", "guest", "delete"},
                               name : RoomName \cup {"-"}, room : 0..lastId]],
         \A c \in Caller : task'[c].op \in {"create", "guest"} => task'[c].name \in Name
  PROVE  RoomInv'
<1>1. 0..lastId \subseteq 0..lastId'
  BY DEF RoomInv, TypeOK
<1>2. task' \in [Caller -> [op : {"idle", "create", "guest", "delete"},
                            name : RoomName \cup {"-"}, room : 0..lastId']]
  BY <1>1
<1>3. TypeOK'
  BY <1>2 DEF TypeOK, Table, Rec
<1> QED
  BY <1>3 DEF RoomInv

LEMMA RoomStep == RoomInv /\ [Next]_vars => RoomInv'
<1> SUFFICES ASSUME RoomInv, [Next]_vars PROVE RoomInv'
  OBVIOUS
<1> DEFINE Command(m) == [op : {"idle", "create", "guest", "delete"},
                          name : RoomName \cup {"-"}, room : 0..m]
           NamesKnown(f) ==
             \A c \in Caller : f[c].op \in {"create", "guest"} => f[c].name \in Name
<1>1. /\ Table(rooms, lastId) /\ Linked(rooms)
      /\ lastId \in 5..MaxRoom /\ begun \in 0..MaxOps
      /\ task \in [Caller -> Command(lastId)] /\ NamesKnown(task)
  BY RoomInvTable DEF RoomInv, TypeOK
<1>2. Counted => begun' \in 0..MaxOps
  BY <1>1, BoundsAssumption DEF Counted
<1>3. ASSUME NEW c \in Caller, Finish(c)
      PROVE  task' \in [Caller -> Command(lastId)] /\ NamesKnown(task')
  BY <1>1, <1>3 DEF Finish, Idle, NoRoom, RoomInv, TypeOK
<1>4. ASSUME NEW c \in Caller, NEW name \in Name, NEW op \in {"create", "guest"},
             AskCreate(c, name, op)
      PROVE  RoomInv'
  <2>1. task' \in [Caller -> Command(lastId)] /\ NamesKnown(task')
    BY <1>1, <1>4 DEF AskCreate, Pend, RoomName, NoRoom
  <2> QED
    BY <1>1, <1>2, <1>4, <2>1, RestOfType DEF AskCreate, Begin, NothingChanges
<1>5. ASSUME NEW c \in Caller, CreateRow(c)
      PROVE  RoomInv'
  <2>1. task[c].name \in RoomName
    BY <1>1, <1>5 DEF CreateRow, RoomName
  <2> QED
    BY <1>1, <1>3, <1>5, <2>1, InsertStep, RestOfType DEF CreateRow
<1>6. ASSUME NEW c \in Caller, NEW r \in DOMAIN rooms, AskDelete(c, rooms[r].name)
      PROVE  RoomInv'
  <2> DEFINE name == rooms[r].name
             found == Find(rooms, name)
  <2>1. name \in RoomName
    BY <1>1 DEF Table, Rec
  <2>2. found \in 0..lastId
    BY <1>1 DEF Find, AnyOf, NoRoom, Table
  <2>3. task' = [task EXCEPT ![c] = [op |-> "delete", name |-> name, room |-> found]]
    BY <1>6 DEF AskDelete, Pend
  <2>4. task' \in [Caller -> Command(lastId)] /\ NamesKnown(task')
    <3> HIDE DEF name, found
    <3> QED
      BY <1>1, <2>1, <2>2, <2>3
  <2> QED
    BY <1>1, <1>2, <1>6, <2>4, RestOfType DEF AskDelete, Begin, NothingChanges
<1>7. ASSUME NEW c \in Caller, DeleteRow(c)
      PROVE  RoomInv'
  BY <1>1, <1>3, <1>7, DropStep, RestOfType DEF DeleteRow
<1>8. ASSUME NEW name \in Name, WebCreate(name)
      PROVE  RoomInv'
  <2>1. name \in RoomName
    BY DEF RoomName
  <2> QED
    BY <1>1, <1>2, <1>8, <2>1, InsertStep, RestOfType DEF WebCreate
<1>9. ASSUME NEW r, WebDelete(r)
      PROVE  RoomInv'
  BY <1>1, <1>2, <1>9, DropStep, RestOfType DEF WebDelete
<1>10. ASSUME NEW r, NEW after, Move(r, after)
       PROVE  RoomInv'
  BY <1>1, <1>2, <1>10, MoveStep, RestOfType DEF Move
<1>11. CASE UNCHANGED vars
  BY <1>1, <1>11, RestOfType DEF vars
<1> QED
  BY <1>4, <1>5, <1>6, <1>7, <1>8, <1>9, <1>10, <1>11 DEF Next

LEMMA RoomInvHolds == Spec => []RoomInv
BY RoomInit, RoomStep, PTL DEF Spec

(* Rows, ids and commands under way stay what room_store.rs can hold. *)
THEOREM RoomTypes == Spec => []TypeOK
<1>1. RoomInv => TypeOK
  BY DEF RoomInv
<1> QED
  BY <1>1, RoomInvHolds, PTL

(* The rewrites of create, reorder and delete (room_store.rs) leave neighbours
   that agree and one end on either side, in any order and from any callers. *)
THEOREM NeighboursStayLinked == Spec => []NeighboursAgree
<1>1. ASSUME RoomInv
      PROVE  NeighboursAgree
  <2> DEFINE s == WalkOrder(rooms)
             S == DOMAIN rooms
  <2>1. Chain(rooms, S, s) /\ NoRoom \notin S
    BY <1>1, RoomInvTable DEF RoomInv, Linked, Table, NoRoom
  <2> HIDE DEF s
  <2>2. /\ Len(s) \in Nat
        /\ \A r \in S : \E i \in 1..Len(s) : s[i] = r
        /\ \A i \in 1..Len(s) :
             /\ s[i] \in S
             /\ rooms[s[i]].next = IF i = Len(s) THEN NoRoom ELSE s[i + 1]
             /\ rooms[s[i]].prev = IF i = 1 THEN NoRoom ELSE s[i - 1]
    BY <2>1, ChainAt
  <2>3. ASSUME NEW r \in S
        PROVE  /\ rooms[r].next # NoRoom => /\ rooms[r].next \in S
                                            /\ rooms[rooms[r].next].prev = r
               /\ rooms[r].prev # NoRoom => /\ rooms[r].prev \in S
                                            /\ rooms[rooms[r].prev].next = r
    <3>1. PICK i \in 1..Len(s) : s[i] = r
      BY <2>2
    <3>2. i # Len(s) => i + 1 \in 1..Len(s) /\ i + 1 # 1 /\ (i + 1) - 1 = i
      BY <2>2
    <3>3. i # 1 => i - 1 \in 1..Len(s) /\ i - 1 # Len(s) /\ (i - 1) + 1 = i
      BY <2>2
    <3>4. /\ rooms[r].next = IF i = Len(s) THEN NoRoom ELSE s[i + 1]
          /\ rooms[r].prev = IF i = 1 THEN NoRoom ELSE s[i - 1]
      BY <2>2, <3>1
    <3>5. i # Len(s) => s[i + 1] \in S /\ rooms[s[i + 1]].prev = s[i]
      BY <2>2, <3>2
    <3>6. i # 1 => s[i - 1] \in S /\ rooms[s[i - 1]].next = s[i]
      BY <2>2, <3>3
    <3> QED
      BY <3>1, <3>4, <3>5, <3>6
  <2>4. /\ Heads(rooms) = IF s = <<>> THEN {} ELSE {First(s)}
        /\ Tails(rooms) = IF s = <<>> THEN {} ELSE {Last(s)}
    BY <2>1, ChainEnds DEF Heads, Tails
  <2> QED
    BY <2>3, <2>4 DEF NeighboursAgree
<1> QED
  BY <1>1, RoomInvHolds, PTL

(* Whatever was created, moved and deleted, and wherever the program stopped,
   verify_room_walk_order (db/invariants.rs) accepts the list at the next start. *)
THEOREM EveryStartAccepts == Spec => []StartAccepts
<1>1. ASSUME RoomInv
      PROVE  StartAccepts
  <2>1. Chain(rooms, DOMAIN rooms, WalkOrder(rooms)) /\ NoRoom \notin DOMAIN rooms
    BY <1>1, RoomInvTable DEF RoomInv, Linked, Table, NoRoom
  <2> QED
    BY <2>1, ChainVerified DEF StartAccepts
<1> QED
  BY <1>1, RoomInvHolds, PTL

-----------------------------------------------------------------------------
(* The refinement: every transaction is a step of the one sequence, or none. *)
LEMMA WalkInit == Init => Walk!Init
<1> SUFFICES ASSUME Init PROVE Walk!Init
  OBVIOUS
<1>1. Chain(rooms, DOMAIN rooms, WalkOrder(rooms))
  BY RoomInit DEF RoomInv, Linked
<1>2. DOMAIN WalkOrder(rooms) = 1..Len(WalkOrder(rooms))
  BY <1>1 DEF Chain
<1> QED
  BY <1>1, <1>2 DEF Walk!Init, Walk!IsInjective, Chain

LEMMA WalkNext == RoomInv /\ [Next]_vars => [Walk!Next]_<<WalkOrder(rooms), done>>
<1> SUFFICES ASSUME RoomInv, [Next]_vars
             PROVE  WalkStep
  BY DEF WalkStep, SameWalk
<1>1. UNCHANGED <<rooms, done>> => WalkStep
  BY DEF WalkStep, SameWalk
<1>2. ASSUME NEW c \in Caller, NEW name \in Name, NEW op \in {"create", "guest"},
             AskCreate(c, name, op)
      PROVE  WalkStep
  BY <1>1, <1>2 DEF AskCreate, NothingChanges
<1>3. ASSUME NEW c \in Caller, CreateRow(c)
      PROVE  WalkStep
  <2>1. task[c].name \in RoomName
    BY <1>3 DEF CreateRow, RoomName, RoomInv, TypeOK
  <2> QED
    BY <1>3, <2>1, InsertStep DEF CreateRow
<1>4. ASSUME NEW c \in Caller, NEW name, AskDelete(c, name)
      PROVE  WalkStep
  BY <1>1, <1>4 DEF AskDelete, NothingChanges
<1>5. ASSUME NEW c \in Caller, DeleteRow(c)
      PROVE  WalkStep
  BY <1>5, DropStep DEF DeleteRow
<1>6. ASSUME NEW name \in Name, WebCreate(name)
      PROVE  WalkStep
  BY <1>6, InsertStep DEF WebCreate, RoomName
<1>7. ASSUME NEW r, WebDelete(r)
      PROVE  WalkStep
  BY <1>7, DropStep DEF WebDelete
<1>8. ASSUME NEW r, NEW after, Move(r, after)
      PROVE  WalkStep
  BY <1>8, MoveStep
<1> QED
  BY <1>1, <1>2, <1>3, <1>4, <1>5, <1>6, <1>7, <1>8 DEF Next, vars

(* list_in_order and the transactions of room_store.rs are one sequence of rooms:
   a created room goes to its end, a moved one where it was sent while the others
   keep their order, a deleted one leaves it, and nothing else changes it. *)
THEOREM OrderIsKept == Spec => OrderPromise
BY WalkInit, WalkNext, RoomInvHolds, PTL DEF Spec, OrderPromise, Walk!Spec
=============================================================================
