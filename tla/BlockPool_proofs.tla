-------------------------- MODULE BlockPool_proofs --------------------------
(***************************************************************************)
(* Every method of BlockPool keeps the pool consistent, for every number   *)
(* of blocks, every set of keys and every reference count.  One lemma per  *)
(* method, about any pool, so that the proofs of its callers can use them. *)
(***************************************************************************)
EXTENDS BlockPool, WellFoundedInduction, TLAPS

\* The provers of the leaves that name none, in the order they are tried.
USE SMTT(90), ZenonT(20), SMTT(91), SMTT(92)

-----------------------------------------------------------------------------
(***************************************************************************)
(* What Filter returns, for every sequence, and the facts about lists that *)
(* the other proofs use.  Induction on positions goes through the least    *)
(* natural in a set of counterexamples.                                    *)
(***************************************************************************)
\* The order of the naturals, as the relation that is well founded.
LEMMA NatOrder == \A x, y \in Nat : y < x => <<y, x>> \in OpToRel(<, Nat)
BY DEF OpToRel

\* A nonempty set of naturals has a least element: induction on positions.
LEMMA LeastNatural ==
  ASSUME NEW S \in SUBSET Nat, S # {}
  PROVE  \E m \in S : \A n \in S : m <= n
<1>1. PICK x \in S : \A y \in S : ~ (<<y, x>> \in OpToRel(<, Nat))
  BY ZenonT(90), WFMin, NatLessThanWellFounded
<1>2. \A y \in S : ~ (y < x)
  BY ZenonT(90), <1>1, NatOrder
<1> QED BY <1>2

\* The equation of the recursive function of Filter, up to position n.
Step(g, s, T, i) == IF i = 0 THEN <<>>
                    ELSE IF s[i] \in T THEN Append(g[i - 1], s[i]) ELSE g[i - 1]
Solves(g, s, T, n) == g = [i \in 0 .. n |-> Step(g, s, T, i)]

\* The recursive function exists.
LEMMA FilterExists ==
  ASSUME NEW s, NEW T, NEW n \in Nat
  PROVE  \E g : Solves(g, s, T, n)
<1> DEFINE bad == {m \in Nat : ~ \E g : Solves(g, s, T, m)}
<1>1. bad \in SUBSET Nat
  OBVIOUS
<1>2. ASSUME bad # {} PROVE FALSE
  <2>1. PICK m \in bad : \A k \in bad : m <= k
    <3> HIDE DEF bad
    <3> QED BY <1>1, <1>2, LeastNatural
  <2>2. m \in Nat /\ ~ \E g : Solves(g, s, T, m)
    OBVIOUS
  <2>3. CASE m = 0
    <3> DEFINE g == [i \in 0 .. 0 |-> <<>>]
    <3>1. Solves(g, s, T, m)
      BY <2>3 DEF Solves, Step
    <3> QED BY <3>1, <2>2
  <2>4. CASE m # 0
    <3>1. m - 1 \in Nat /\ ~ (m <= m - 1)
      BY <2>2, <2>4
    <3>2. PICK g : Solves(g, s, T, m - 1)
      BY <2>1, <3>1
    <3> DEFINE h == [i \in 0 .. m |-> IF i = m THEN Step(g, s, T, m) ELSE g[i]]
    <3>3. ASSUME NEW i \in 0 .. m PROVE h[i] = Step(h, s, T, i)
      <4>1. CASE i = m
        <5>1. h[m - 1] = g[m - 1]
          BY <2>2, <2>4
        <5> QED BY <4>1, <5>1, <2>2, <2>4 DEF Step
      <4>2. CASE i # m
        <5>1. i \in 0 .. m - 1
          BY <4>2, <2>2
        <5>2. g[i] = Step(g, s, T, i)
          <6>1. g[i] = [j \in 0 .. m - 1 |-> Step(g, s, T, j)][i]
            BY <3>2 DEF Solves
          <6> QED BY <5>1, <6>1
        <5>3. CASE i = 0
          BY <5>2, <5>3, <4>2 DEF Step
        <5>4. CASE i # 0
          <6>1. h[i - 1] = g[i - 1]
            BY <5>1, <5>4, <2>2
          <6> QED BY <5>2, <5>4, <4>2, <6>1 DEF Step
        <5> QED BY <5>3, <5>4
      <4> QED BY <4>1, <4>2
    <3>4. Solves(h, s, T, m)
      <4>1. h = [i \in 0 .. m |-> h[i]]
        OBVIOUS
      <4> HIDE DEF h
      <4> QED BY <3>3, <4>1 DEF Solves
    <3> QED BY <3>4, <2>2
  <2> QED BY <2>3, <2>4
<1> QED BY <1>2

\* Filter is the value at the end of a function that solves the equation.
LEMMA FilterSolves ==
  ASSUME NEW s, NEW T, Len(s) \in Nat
  PROVE  \E g : Solves(g, s, T, Len(s)) /\ Filter(s, T) = g[Len(s)]
<1> DEFINE g == CHOOSE f : Solves(f, s, T, Len(s))
<1>1. Solves(g, s, T, Len(s))
  BY FilterExists
<1>2. Filter(s, T) = g[Len(s)]
  BY DEF Filter, Solves, Step
<1> QED BY <1>1, <1>2, Zenon

\* No element of T is twice in s.
NoRepetitionIn(s, T) == \A i, j \in 1 .. Len(s) : s[i] = s[j] /\ s[i] \in T => i = j

\* t is what is left of the first i elements of s.
KeepsFirst(t, s, T, i, S) ==
  /\ t \in Seq(S)
  /\ Elements(t) = {s[j] : j \in 1 .. i} \cap T
  /\ NoRepetitionIn(s, T) => NoRepetition(t)

\* One more position: the element is dropped, or appended.
LEMMA KeepsOneMore ==
  ASSUME NEW S, NEW s \in Seq(S), NEW T, NEW i \in 1 .. Len(s),
         NEW t, KeepsFirst(t, s, T, i - 1, S)
  PROVE  KeepsFirst(IF s[i] \in T THEN Append(t, s[i]) ELSE t, s, T, i, S)
<1>0. t \in Seq(S) /\ s[i] \in S /\ Len(t) \in Nat /\ Len(s) \in Nat
  BY DEF KeepsFirst
<1>1. {s[j] : j \in 1 .. i} = {s[j] : j \in 1 .. i - 1} \cup {s[i]}
  <2>1. 1 .. i = (1 .. i - 1) \cup {i}
    BY <1>0
  <2> QED BY <2>1
<1>2. CASE s[i] \notin T
  <2>1. Elements(t) = {s[j] : j \in 1 .. i} \cap T
    BY <1>1, <1>2 DEF KeepsFirst
  <2> QED BY <1>2, <2>1 DEF KeepsFirst
<1>3. CASE s[i] \in T
  <2> DEFINE u == Append(t, s[i])
  <2>1. /\ u \in Seq(S) /\ Len(u) = Len(t) + 1 /\ u[Len(t) + 1] = s[i]
        /\ \A j \in 1 .. Len(t) : u[j] = t[j]
    BY <1>0
  <2> HIDE DEF u
  <2>2. Elements(u) = Elements(t) \cup {s[i]}
    <3>1. 1 .. Len(u) = (1 .. Len(t)) \cup {Len(t) + 1}
      BY <2>1, <1>0
    <3>2. \A x \in Elements(u) : x \in Elements(t) \cup {s[i]}
      BY <3>1, <2>1 DEF Elements
    <3>3. \A x \in Elements(t) : x \in Elements(u)
      BY <3>1, <2>1 DEF Elements
    <3>4. s[i] \in Elements(u)
      BY <3>1, <2>1 DEF Elements
    <3> QED BY <3>2, <3>3, <3>4
  <2>3. Elements(u) = {s[j] : j \in 1 .. i} \cap T
    BY <1>1, <1>3, <2>2 DEF KeepsFirst
  <2>4. ASSUME NoRepetitionIn(s, T) PROVE NoRepetition(u)
    <3>1. NoRepetition(t)
      BY <2>4 DEF KeepsFirst
    <3>2. s[i] \notin Elements(t)
      <4>1. \A j \in 1 .. i - 1 : s[j] # s[i]
        BY <2>4, <1>0, <1>3 DEF NoRepetitionIn
      <4> QED BY <4>1 DEF KeepsFirst
    <3>3. \A j \in 1 .. Len(t) : u[j] # s[i]
      BY <3>2, <2>1 DEF Elements
    <3>4. ASSUME NEW j \in 1 .. Len(u), NEW k \in 1 .. Len(u), u[j] = u[k]
          PROVE  j = k
      <4>1. j \in 1 .. Len(t) \/ j = Len(t) + 1
        BY <2>1, <1>0
      <4>2. k \in 1 .. Len(t) \/ k = Len(t) + 1
        BY <2>1, <1>0
      <4>3. CASE j \in 1 .. Len(t) /\ k \in 1 .. Len(t)
        BY <4>3, <3>1, <3>4, <2>1 DEF NoRepetition
      <4> QED BY <4>1, <4>2, <4>3, <3>3, <3>4, <2>1
    <3> QED BY <3>4 DEF NoRepetition
  <2>5. KeepsFirst(u, s, T, i, S)
    BY <2>1, <2>3, <2>4 DEF KeepsFirst
  <2> QED BY <1>3, <2>5 DEF u
<1> QED BY <1>2, <1>3

\* Filter keeps the elements of s in T, and adds no repetition.
LEMMA FilterKeeps ==
  ASSUME NEW S, NEW s \in Seq(S), NEW T
  PROVE  /\ Filter(s, T) \in Seq(S)
         /\ Elements(Filter(s, T)) = Elements(s) \cap T
         /\ NoRepetitionIn(s, T) => NoRepetition(Filter(s, T))
         /\ NoRepetition(s) => NoRepetition(Filter(s, T))
<1>1. PICK g : Solves(g, s, T, Len(s)) /\ Filter(s, T) = g[Len(s)]
  BY FilterSolves
<1>2. \A i \in 0 .. Len(s) : g[i] = Step(g, s, T, i)
  <2>1. \A i \in 0 .. Len(s) : g[i] = [j \in 0 .. Len(s) |-> Step(g, s, T, j)][i]
    BY <1>1 DEF Solves
  <2> QED BY <2>1
<1> DEFINE bad == {m \in 0 .. Len(s) : ~ KeepsFirst(g[m], s, T, m, S)}
<1>3. bad \in SUBSET Nat
  OBVIOUS
<1>4. ASSUME bad # {} PROVE FALSE
  <2>1. PICK m \in bad : \A k \in bad : m <= k
    <3> HIDE DEF bad
    <3> QED BY <1>3, <1>4, LeastNatural
  <2>2. m \in 0 .. Len(s) /\ ~ KeepsFirst(g[m], s, T, m, S)
    OBVIOUS
  <2>3. CASE m = 0
    <3>1. g[m] = <<>>
      BY <1>2, <2>2, <2>3 DEF Step
    <3>2. KeepsFirst(<<>>, s, T, 0, S)
      BY DEF KeepsFirst, Elements, NoRepetition
    <3> QED BY <2>2, <2>3, <3>1, <3>2
  <2>4. CASE m # 0
    <3>1. m \in 1 .. Len(s) /\ m - 1 \in 0 .. Len(s) /\ ~ (m <= m - 1)
      BY <2>2, <2>4
    <3>2. KeepsFirst(g[m - 1], s, T, m - 1, S)
      BY <2>1, <3>1
    <3>3. g[m] = IF s[m] \in T THEN Append(g[m - 1], s[m]) ELSE g[m - 1]
      BY <1>2, <2>2, <2>4 DEF Step
    <3>4. KeepsFirst(g[m], s, T, m, S)
      <4> HIDE DEF bad
      <4> QED BY <3>1, <3>2, <3>3, KeepsOneMore
    <3> QED BY <3>4, <2>2
  <2> QED BY <2>3, <2>4
<1>5. KeepsFirst(g[Len(s)], s, T, Len(s), S)
  BY <1>4
<1>6. Elements(s) = {s[j] : j \in 1 .. Len(s)}
  BY DEF Elements
<1>7. NoRepetition(s) => NoRepetitionIn(s, T)
  BY DEF NoRepetition, NoRepetitionIn
<1> QED BY <1>1, <1>5, <1>6, <1>7 DEF KeepsFirst

\* A list all of whose elements are in T is a list over T.
LEMMA ListOver ==
  ASSUME NEW S, NEW s \in Seq(S), NEW T, Elements(s) \subseteq T
  PROVE  s \in Seq(T)
<1>1. \A i \in 1 .. Len(s) : s[i] \in T
  BY DEF Elements
<1> QED BY <1>1

\* The entries of a concatenation.
LEMMA ConcatIs ==
  ASSUME NEW S, NEW s \in Seq(S), NEW t \in Seq(S)
  PROVE  /\ s \o t \in Seq(S) /\ Len(s \o t) = Len(s) + Len(t)
         /\ \A i \in 1 .. Len(s) + Len(t) :
              (s \o t)[i] = IF i <= Len(s) THEN s[i] ELSE t[i - Len(s)]
OBVIOUS

\* Concatenating lists without common elements adds no repetition.
LEMMA ConcatKeeps ==
  ASSUME NEW S, NEW s \in Seq(S), NEW t \in Seq(S)
  PROVE  /\ s \o t \in Seq(S)
         /\ Elements(s \o t) = Elements(s) \cup Elements(t)
         /\ (/\ NoRepetition(s) /\ NoRepetition(t)
             /\ Elements(s) \cap Elements(t) = {}) => NoRepetition(s \o t)
<1> DEFINE u == s \o t
<1>1. /\ u \in Seq(S) /\ Len(u) = Len(s) + Len(t)
      /\ Len(s) \in Nat /\ Len(t) \in Nat
      /\ \A i \in 1 .. Len(s) : u[i] = s[i]
      /\ \A i \in 1 .. Len(u) : i > Len(s) => u[i] = t[i - Len(s)]
  OBVIOUS
<1> HIDE DEF u
<1>2. ASSUME NEW j \in 1 .. Len(t) PROVE t[j] = u[Len(s) + j]
  <2>1. PICK i \in 1 .. Len(u) : i = Len(s) + j
    BY <1>1
  <2>2. i > Len(s) /\ i - Len(s) = j
    BY <2>1, <1>1
  <2> QED BY <2>1, <2>2, <1>1
<1>3. ASSUME NEW i \in 1 .. Len(u)
      PROVE  i \in 1 .. Len(s) \/ \E j \in 1 .. Len(t) : i = Len(s) + j
  <2>1. i > Len(s) => i - Len(s) \in 1 .. Len(t) /\ i = Len(s) + (i - Len(s))
    BY <1>1
  <2> QED BY <2>1, <1>1
<1>4. Elements(u) = Elements(s) \cup Elements(t)
  <2>1. ASSUME NEW x \in Elements(u) PROVE x \in Elements(s) \cup Elements(t)
    <3>1. PICK i \in 1 .. Len(u) : x = u[i]
      BY DEF Elements
    <3>2. CASE i \in 1 .. Len(s)
      BY <3>1, <3>2, <1>1 DEF Elements
    <3>3. ASSUME NEW j \in 1 .. Len(t), i = Len(s) + j PROVE x \in Elements(t)
      BY <3>1, <3>3, <1>2 DEF Elements
    <3> QED BY <3>2, <3>3, <1>3
  <2>2. ASSUME NEW x \in Elements(s) PROVE x \in Elements(u)
    <3>1. PICK i \in 1 .. Len(s) : x = s[i]
      BY DEF Elements
    <3>2. i \in 1 .. Len(u) /\ u[i] = s[i]
      BY <1>1
    <3> QED BY <3>1, <3>2 DEF Elements
  <2>3. ASSUME NEW x \in Elements(t) PROVE x \in Elements(u)
    <3>1. PICK j \in 1 .. Len(t) : x = t[j]
      BY DEF Elements
    <3>2. Len(s) + j \in 1 .. Len(u)
      BY <1>1
    <3> QED BY <3>1, <3>2, <1>2 DEF Elements
  <2> QED BY <2>1, <2>2, <2>3
<1>5. ASSUME NoRepetition(s), NoRepetition(t), Elements(s) \cap Elements(t) = {}
      PROVE  NoRepetition(u)
  <2>0. \A i \in 1 .. Len(s), j \in 1 .. Len(t) : s[i] # t[j]
    BY <1>5, Zenon DEF Elements
  <2>1. ASSUME NEW i \in 1 .. Len(u), NEW k \in 1 .. Len(u), u[i] = u[k]
        PROVE  i = k
    <3>1. CASE i \in 1 .. Len(s) /\ k \in 1 .. Len(s)
      BY <3>1, <2>1, <1>1, <1>5 DEF NoRepetition
    <3>2. ASSUME NEW j \in 1 .. Len(t), i = Len(s) + j, k \in 1 .. Len(s)
          PROVE  FALSE
      BY <3>2, <2>0, <2>1, <1>1, <1>2
    <3>3. ASSUME NEW j \in 1 .. Len(t), k = Len(s) + j, i \in 1 .. Len(s)
          PROVE  FALSE
      BY <3>3, <2>0, <2>1, <1>1, <1>2
    <3>4. ASSUME NEW j \in 1 .. Len(t), NEW l \in 1 .. Len(t),
                 i = Len(s) + j, k = Len(s) + l
          PROVE  i = k
      BY <3>4, <2>1, <1>2, <1>5 DEF NoRepetition
    <3> QED BY <3>1, <3>2, <3>3, <3>4, <1>3
  <2> QED BY <2>1 DEF NoRepetition
<1> QED BY <1>1, <1>4, <1>5 DEF u

-----------------------------------------------------------------------------
(* The methods of the pool. *)

\* A pool without inconsistencies.
PoolOK(p) == p \in Pool /\ FreeMatches(p) /\ HashesMatch(p) /\ ViewHolds(p)

\* The prefix cache part of a pool does not depend on the reference counts.
LEMMA SameCache ==
  ASSUME NEW p, NEW q, q \in Pool, HashesMatch(p), ViewHolds(p),
         q.block_hash = p.block_hash, q.other_hashes = p.other_hashes,
         q.cached = p.cached, q.view = p.view
  PROVE  HashesMatch(q) /\ ViewHolds(q)
BY DEF HashesMatch, ViewHolds, HashesOf

\* What eviction changes, field by field.
LEMMA EvictFields ==
  ASSUME NEW p \in Pool, NEW bs \in SUBSET Block
  PROVE  LET q == evict_blocks(p, bs) IN
         /\ q \in Pool /\ q.free = p.free /\ q.ref_cnt = p.ref_cnt
         /\ \A b \in Block :
              /\ q.block_hash[b] = IF b \in bs THEN NoHash ELSE p.block_hash[b]
              /\ q.other_hashes[b] = IF b \in bs THEN {} ELSE p.other_hashes[b]
         /\ \A k \in Key :
              q.cached[k] = p.cached[k] \ {b \in bs : k \in HashesOf(p, b)}
         /\ q.view = p.view \ RemovedHashes(p, bs)
BY Zenon DEF Pool, evict_blocks, remove_cached_block_hashes, RemovedHashes

\* Eviction keeps the pool consistent.
LEMMA EvictOK ==
  ASSUME NEW p, PoolOK(p), NEW bs \in SUBSET Block
  PROVE  PoolOK(evict_blocks(p, bs))
<1> DEFINE q == evict_blocks(p, bs)
<1>1. /\ q \in Pool /\ q.free = p.free /\ q.ref_cnt = p.ref_cnt
      /\ \A b \in Block :
           /\ q.block_hash[b] = IF b \in bs THEN NoHash ELSE p.block_hash[b]
           /\ q.other_hashes[b] = IF b \in bs THEN {} ELSE p.other_hashes[b]
      /\ \A k \in Key :
           q.cached[k] = p.cached[k] \ {b \in bs : k \in HashesOf(p, b)}
      /\ q.view = p.view \ RemovedHashes(p, bs)
  BY EvictFields DEF PoolOK
<1> HIDE DEF q
<1>2. FreeMatches(q)
  BY <1>1 DEF PoolOK, FreeMatches
<1>3. \A b \in Block : HashesOf(q, b) = IF b \in bs THEN {} ELSE HashesOf(p, b)
  BY <1>1 DEF HashesOf
<1>4. HashesMatch(q)
  <2>1. ASSUME NEW k \in Key, NEW b \in Block
        PROVE  b \in q.cached[k] <=> k \in HashesOf(q, b)
    BY <1>1, <1>3 DEF PoolOK, HashesMatch
  <2>2. ASSUME NEW b \in Block, q.other_hashes[b] # {}
        PROVE  q.block_hash[b] \notin {NoHash} \cup q.other_hashes[b]
    BY <1>1, <2>2 DEF PoolOK, HashesMatch
  <2> QED BY <2>1, <2>2 DEF HashesMatch
<1>5. ViewHolds(q)
  <2> SUFFICES ASSUME NEW k \in q.view PROVE q.cached[k] # {}
    BY DEF ViewHolds
  <2>1. k \in p.view /\ k \in Key /\ k \notin RemovedHashes(p, bs)
    BY <1>1 DEF Pool
  <2>2. PICK b \in p.cached[k] : TRUE
    BY <2>1 DEF PoolOK, ViewHolds
  <2>3. b \in Block
    BY <2>1, <2>2 DEF PoolOK, Pool
  <2>4. ~ (b \in bs /\ k \in HashesOf(p, b))
    BY <2>1, <2>2 DEF RemovedHashes
  <2> QED BY <1>1, <2>1, <2>2, <2>4
<1> QED BY <1>1, <1>2, <1>4, <1>5 DEF PoolOK, q

\* A pool with the cache of a consistent one and matching free list.
LEMMA RecountOK ==
  ASSUME NEW q, PoolOK(q), NEW free \in Seq(Block), NEW ref_cnt \in [Block -> Nat],
         NoRepetition(free), Elements(free) = {b \in Block : ref_cnt[b] = 0},
         NEW r, r = [q EXCEPT !.free = free, !.ref_cnt = ref_cnt]
  PROVE  PoolOK(r)
<1>1. /\ r \in Pool /\ r.free = free /\ r.ref_cnt = ref_cnt
      /\ r.block_hash = q.block_hash /\ r.other_hashes = q.other_hashes
      /\ r.cached = q.cached /\ r.view = q.view
  BY Zenon DEF PoolOK, Pool
<1>2. FreeMatches(r)
  BY <1>1 DEF FreeMatches
<1>3. HashesMatch(r) /\ ViewHolds(r)
  BY <1>1, SameCache, ZenonT(90) DEF PoolOK
<1> QED BY <1>1, <1>2, <1>3 DEF PoolOK

\* get_new_blocks takes the first n free blocks; they were unreferenced, and
\* no key finds them afterwards.
LEMMA GetNewBlocksOK ==
  ASSUME NEW p, PoolOK(p), NEW n \in Nat, n <= get_num_free_blocks(p)
  PROVE  PoolOK(get_new_blocks(p, n))
<1> DEFINE taken == {p.free[i] : i \in 1 .. n}
           q == IF enable_caching THEN evict_blocks(p, taken) ELSE p
           s == p.free
           t == SubSeq(s, n + 1, Len(s))
           ref_cnt == [b \in Block |-> IF b \in taken THEN p.ref_cnt[b] + 1
                                       ELSE p.ref_cnt[b]]
<1>1. /\ s \in Seq(Block) /\ Len(s) \in Nat /\ n <= Len(s) /\ NoRepetition(s)
      /\ Elements(s) = {b \in Block : p.ref_cnt[b] = 0}
      /\ p.ref_cnt \in [Block -> Nat]
  BY DEF PoolOK, FreeMatches, Pool, get_num_free_blocks
<1>2. taken \in SUBSET Block /\ taken \subseteq Elements(s)
  BY <1>1 DEF Elements
<1>3. PoolOK(q) /\ q.free = p.free /\ q.ref_cnt = p.ref_cnt
  BY <1>2, EvictOK, EvictFields DEF PoolOK
<1>4. t \in Seq(Block) /\ Len(t) = Len(s) - n
  BY <1>1
<1>5. \A i \in 1 .. Len(t) : n + i \in 1 .. Len(s) /\ t[i] = s[n + i]
  <2>1. \A i \in 1 .. Len(s) - n : t[i] = s[n + i]
    <3> HIDE DEF s
    <3>1. \A i \in 1 .. Len(s) - n : t[i] = s[(n + 1) + i - 1]
      BY <1>1
    <3>2. \A i \in 1 .. Len(s) - n : (n + 1) + i - 1 = n + i
      OBVIOUS
    <3> QED BY <3>1, <3>2
  <2>2. \A i \in 1 .. Len(s) - n : n + i \in 1 .. Len(s)
    BY <1>1
  <2> QED BY <1>4, <2>1, <2>2
<1>6. NoRepetition(t)
  <2> HIDE DEF t, s
  <2> SUFFICES ASSUME NEW i \in 1 .. Len(t), NEW j \in 1 .. Len(t), t[i] = t[j]
               PROVE  i = j
    BY DEF NoRepetition
  <2>1. n + i \in 1 .. Len(s) /\ n + j \in 1 .. Len(s) /\ s[n + i] = s[n + j]
    BY <1>5
  <2>2. n + i = n + j
    BY <2>1, <1>1 DEF NoRepetition
  <2> QED BY <2>2
<1>7. Elements(t) = Elements(s) \ taken
  <2> HIDE DEF t, s
  <2>1. ASSUME NEW i \in 1 .. Len(t) PROVE t[i] \in Elements(s) \ taken
    <3>1. n + i \in 1 .. Len(s) /\ t[i] = s[n + i]
      BY <1>5
    <3>2. \A j \in 1 .. n : j \in 1 .. Len(s) /\ n + i # j
      BY <1>1
    <3>3. \A j \in 1 .. n : s[n + i] # s[j]
      BY <3>1, <3>2, <1>1 DEF NoRepetition
    <3> QED BY <3>1, <3>3, Zenon DEF Elements, s
  <2>2. ASSUME NEW x \in Elements(s) \ taken PROVE x \in Elements(t)
    <3>1. PICK i \in 1 .. Len(s) : x = s[i]
      BY DEF Elements
    <3>2. ~ i \in 1 .. n
      BY <3>1, <2>2 DEF s
    <3>3. i - n \in 1 .. Len(t) /\ n + (i - n) = i
      BY <3>2, <1>1, <1>4
    <3> QED BY <3>1, <3>3, <1>5, Zenon DEF Elements
  <2> QED BY <2>1, <2>2, Zenon DEF Elements
<1>8. /\ ref_cnt \in [Block -> Nat]
      /\ Elements(t) = {b \in Block : ref_cnt[b] = 0}
  <2>1. ref_cnt \in [Block -> Nat]
    BY <1>1
  <2>2. \A b \in Block : ref_cnt[b] = 0 <=> p.ref_cnt[b] = 0 /\ b \notin taken
    BY <1>1
  <2> QED BY <1>1, <1>7, <2>1, <2>2
<1>9. get_new_blocks(p, n) = [q EXCEPT !.free = t, !.ref_cnt = ref_cnt]
  BY <1>3, Zenon DEF get_new_blocks
<1> HIDE DEF q, t, ref_cnt
<1> QED BY <1>3, <1>4, <1>6, <1>8, <1>9, RecountOK, Zenon

\* touch references the blocks of bs once more, and takes the free ones out of
\* the free list.
LEMMA TouchOK ==
  ASSUME NEW p, PoolOK(p), NEW bs \in SUBSET Block
  PROVE  PoolOK(touch(p, bs))
<1> DEFINE T == Block \ {b \in bs : p.ref_cnt[b] = 0}
           t == Filter(p.free, T)
           ref_cnt == [b \in Block |-> IF b \in bs THEN p.ref_cnt[b] + 1
                                       ELSE p.ref_cnt[b]]
<1>1. /\ p.free \in Seq(Block) /\ p.ref_cnt \in [Block -> Nat]
      /\ NoRepetition(p.free)
      /\ Elements(p.free) = {b \in Block : p.ref_cnt[b] = 0}
  BY DEF PoolOK, FreeMatches, Pool
<1>2. /\ t \in Seq(Block) /\ NoRepetition(t)
      /\ Elements(t) = Elements(p.free) \cap T
  BY <1>1, FilterKeeps
<1> HIDE DEF t
<1>3. ref_cnt \in [Block -> Nat]
  BY <1>1
<1>4. Elements(t) = {b \in Block : ref_cnt[b] = 0}
  <2>1. \A b \in Block : ref_cnt[b] = 0 <=> p.ref_cnt[b] = 0 /\ b \notin bs
    BY <1>1
  <2> QED BY <1>1, <1>2, <2>1
<1>5. touch(p, bs) = [p EXCEPT !.free = t, !.ref_cnt = ref_cnt]
  BY DEF touch, t
<1> HIDE DEF ref_cnt
<1> QED BY <1>2, <1>3, <1>4, <1>5, RecountOK, Zenon

\* free_blocks gives up one reference to each block of the list, and returns
\* the blocks without references to the ends of the free list.
LEMMA FreeBlocksOK ==
  ASSUME NEW p, PoolOK(p), NEW ordered \in Seq(Block \cup {null_block}),
         NoRepetitionIn(ordered, Block),
         \A b \in Elements(ordered) \cap Block : p.ref_cnt[b] > 0
  PROVE  PoolOK(free_blocks(p, ordered))
<1> DEFINE bs == Elements(ordered) \cap Block
           unused == {b \in bs : p.ref_cnt[b] = 1}
           without == {b \in unused : p.block_hash[b] = NoHash /\ enable_caching}
           u == Filter(ordered, without)
           v == Filter(ordered, unused \ without)
           ref_cnt == [b \in Block |-> IF b \in bs THEN p.ref_cnt[b] - 1
                                       ELSE p.ref_cnt[b]]
           t == u \o p.free \o v
<1>1. /\ p.free \in Seq(Block) /\ p.ref_cnt \in [Block -> Nat]
      /\ NoRepetition(p.free)
      /\ Elements(p.free) = {b \in Block : p.ref_cnt[b] = 0}
  BY DEF PoolOK, FreeMatches, Pool
<1>2. ASSUME NEW T \in SUBSET bs
      PROVE  /\ Filter(ordered, T) \in Seq(Block) /\ NoRepetition(Filter(ordered, T))
             /\ Elements(Filter(ordered, T)) = T
  <2>1. Elements(ordered) \cap T = T /\ T \subseteq Block
    OBVIOUS
  <2>2. NoRepetitionIn(ordered, T)
    BY <2>1 DEF NoRepetitionIn
  <2>3. /\ Filter(ordered, T) \in Seq(Block \cup {null_block})
        /\ Elements(Filter(ordered, T)) = T /\ NoRepetition(Filter(ordered, T))
    BY <2>1, <2>2, FilterKeeps, Zenon
  <2> QED BY <2>1, <2>3, ListOver
<1>3. u \in Seq(Block) /\ NoRepetition(u) /\ Elements(u) = without
  <2>1. without \in SUBSET bs
    OBVIOUS
  <2> HIDE DEF without, bs
  <2> QED BY <2>1, <1>2, Zenon
<1>4. v \in Seq(Block) /\ NoRepetition(v) /\ Elements(v) = unused \ without
  <2> DEFINE with == unused \ without
  <2>1. with \in SUBSET bs
    OBVIOUS
  <2> HIDE DEF with, bs
  <2>2. /\ Filter(ordered, with) \in Seq(Block) /\ NoRepetition(Filter(ordered, with))
        /\ Elements(Filter(ordered, with)) = with
    BY <2>1, <1>2, Zenon
  <2> QED BY <2>2 DEF with
<1>5. unused \cap Elements(p.free) = {}
  BY <1>1
<1> HIDE DEF u, v
<1>6. /\ u \o p.free \in Seq(Block) /\ NoRepetition(u \o p.free)
      /\ Elements(u \o p.free) = without \cup Elements(p.free)
  <2> HIDE DEF unused, bs
  <2>1. Elements(u) \cap Elements(p.free) = {}
    BY <1>3, <1>5
  <2> HIDE DEF without
  <2> QED BY <1>1, <1>3, <2>1, ConcatKeeps
<1>7. /\ t \in Seq(Block) /\ NoRepetition(t)
      /\ Elements(t) = unused \cup Elements(p.free)
  <2> DEFINE w == u \o p.free
  <2> HIDE DEF bs
  <2>1. Elements(w) \cap Elements(v) = {}
    BY <1>4, <1>5, <1>6
  <2>2. /\ w \in Seq(Block) /\ NoRepetition(w)
        /\ Elements(w) = without \cup Elements(p.free)
    BY <1>6
  <2> HIDE DEF w
  <2>3. /\ w \o v \in Seq(Block) /\ NoRepetition(w \o v)
        /\ Elements(w \o v) = Elements(w) \cup Elements(v)
    <3> HIDE DEF unused, without
    <3> QED BY <1>4, <2>1, <2>2, ConcatKeeps
  <2>4. without \subseteq unused
    OBVIOUS
  <2>5. Elements(w \o v) = unused \cup Elements(p.free)
    <3> HIDE DEF unused, without
    <3> QED BY <1>4, <2>2, <2>3, <2>4
  <2> QED BY <2>3, <2>5 DEF w
<1> HIDE DEF t
<1>8. ref_cnt \in [Block -> Nat]
  BY <1>1
<1>9. Elements(t) = {b \in Block : ref_cnt[b] = 0}
  <2>1. \A b \in Block : p.ref_cnt[b] \in Nat
    BY ZenonT(90), <1>1
  <2>2. \A b \in bs : p.ref_cnt[b] > 0
    BY ZenonT(90)
  <2> HIDE DEF bs
  <2>3. ASSUME NEW b \in Block
        PROVE  ref_cnt[b] = 0 <=> b \in unused \/ p.ref_cnt[b] = 0
    <3>1. CASE b \in bs
      BY <3>1, <2>1, <2>2
    <3>2. CASE b \notin bs
      BY <3>2, <2>1
    <3> QED BY <3>1, <3>2
  <2> HIDE DEF ref_cnt
  <2>4. \A b \in unused : b \in Block
    BY ZenonT(90) DEF bs
  <2> QED BY <1>1, <1>7, <2>3, <2>4
<1>10. free_blocks(p, ordered) = [p EXCEPT !.free = t, !.ref_cnt = ref_cnt]
  BY Zenon DEF free_blocks, t, u, v
<1> HIDE DEF ref_cnt
<1> QED BY <1>7, <1>8, <1>9, <1>10, RecountOK, Zenon

\* A pool whose prefix cache changes while the free list stays.
LEMMA RecacheOK ==
  ASSUME NEW p, PoolOK(p), NEW q \in Pool, q.free = p.free, q.ref_cnt = p.ref_cnt,
         HashesMatch(q), ViewHolds(q)
  PROVE  PoolOK(q)
BY DEF PoolOK, FreeMatches

\* _insert_block_hash adds one key of one block, on both sides of the map.
LEMMA InsertOK ==
  ASSUME NEW p, PoolOK(p), NEW k \in Key, NEW b \in Block
  PROVE  /\ PoolOK(insert_block_hash(p, k, b))
         /\ b \in insert_block_hash(p, k, b).cached[k]
<1> DEFINE q == insert_block_hash(p, k, b)
<1>0. /\ p \in Pool /\ HashesMatch(p) /\ ViewHolds(p) /\ NoHash \notin Key
      /\ p.cached[k] \in SUBSET Block
  BY PoolAssumption DEF PoolOK, Pool
<1>1. CASE p.block_hash[b] = k \/ b \in p.cached[k]
  <2>1. q = p
    BY <1>1 DEF insert_block_hash
  <2>2. b \in p.cached[k]
    BY <1>0, <1>1 DEF HashesMatch, HashesOf
  <2> QED BY <2>1, <2>2
<1>2. CASE ~ (p.block_hash[b] = k \/ b \in p.cached[k])
  <2>1. /\ q \in Pool /\ q.free = p.free /\ q.ref_cnt = p.ref_cnt
        /\ q.view = p.view
        /\ \A c \in Block : c # b => /\ q.block_hash[c] = p.block_hash[c]
                                     /\ q.other_hashes[c] = p.other_hashes[c]
        /\ \A l \in Key : l # k => q.cached[l] = p.cached[l]
        /\ q.cached[k] = p.cached[k] \cup {b}
    BY <1>0, <1>2, ZenonT(90) DEF insert_block_hash, Pool
  <2>2. CASE p.block_hash[b] = NoHash
    <3>1. q.block_hash[b] = k /\ q.other_hashes[b] = p.other_hashes[b]
      BY <1>0, <1>2, <2>2 DEF insert_block_hash, Pool
    <3>2. p.other_hashes[b] = {}
      BY <1>0, <2>2 DEF HashesMatch
    <3> HIDE DEF q
    <3>3. \A l \in Key, c \in Block :
            l \in HashesOf(q, c) <=> l \in HashesOf(p, c) \/ (l = k /\ c = b)
      BY <1>0, <2>1, <2>2, <3>1, <3>2 DEF HashesOf
    <3>4. HashesMatch(q)
      BY <1>0, <2>1, <3>1, <3>2, <3>3 DEF HashesMatch
    <3>5. ViewHolds(q)
      BY <1>0, <2>1, Zenon DEF ViewHolds, Pool
    <3> QED BY <2>1, <3>4, <3>5, RecacheOK DEF q
  <2>3. CASE p.block_hash[b] # NoHash
    <3>1. /\ q.block_hash[b] = p.block_hash[b]
          /\ q.other_hashes[b] = p.other_hashes[b] \cup {k}
      BY <1>0, <1>2, <2>3 DEF insert_block_hash, Pool
    <3> HIDE DEF q
    <3>3. \A l \in Key, c \in Block :
            l \in HashesOf(q, c) <=> l \in HashesOf(p, c) \/ (l = k /\ c = b)
      BY <1>0, <2>1, <2>3, <3>1 DEF HashesOf
    <3>4. \A c \in Block : q.other_hashes[c] # {} =>
            q.block_hash[c] \notin {NoHash} \cup q.other_hashes[c]
      BY <1>0, <1>2, <2>1, <2>3, <3>1 DEF HashesMatch
    <3>5. HashesMatch(q)
      BY <1>0, <2>1, <3>3, <3>4 DEF HashesMatch
    <3>6. ViewHolds(q)
      BY <1>0, <2>1, Zenon DEF ViewHolds, Pool
    <3> QED BY <2>1, <3>5, <3>6, RecacheOK DEF q
  <2> QED BY <2>2, <2>3
<1> QED BY <1>1, <1>2

\* cache_partial_block drops the shorter hashes of the block, then inserts.
LEMMA CachePartialOK ==
  ASSUME NEW p, PoolOK(p), NEW b \in Block, NEW k \in Key
  PROVE  PoolOK(cache_partial_block(p, b, k))
<1> DEFINE already == p.block_hash[b] = k \/ b \in p.cached[k]
           superseded == /\ ~ already /\ p.block_hash[b] # NoHash
                         /\ NumTokens[p.block_hash[b]] < NumTokens[k]
           e == IF superseded THEN evict_blocks(p, {b}) ELSE p
           q == insert_block_hash(e, k, b)
           r == [q EXCEPT !.view = @ \cup {k}]
<1>1. PoolOK(e)
  BY EvictOK
<1>2. PoolOK(q) /\ b \in q.cached[k]
  <2> HIDE DEF e
  <2> QED BY <1>1, InsertOK
<1>3. cache_partial_block(p, b, k) = IF already THEN q ELSE r
  BY DEF cache_partial_block
<1> HIDE DEF already, q
<1>4. PoolOK(r)
  <2>1. /\ r \in Pool /\ r.free = q.free /\ r.ref_cnt = q.ref_cnt
        /\ r.block_hash = q.block_hash /\ r.other_hashes = q.other_hashes
        /\ r.cached = q.cached /\ r.view = q.view \cup {k}
    BY <1>2, Zenon DEF PoolOK, Pool
  <2> HIDE DEF r
  <2>2. HashesMatch(r)
    BY <1>2, <2>1 DEF PoolOK, HashesMatch, HashesOf
  <2>3. ViewHolds(r)
    BY <1>2, <2>1 DEF PoolOK, ViewHolds
  <2> QED BY <1>2, <2>1, <2>2, <2>3, RecacheOK
<1> QED BY <1>2, <1>3, <1>4

\* cache_full_blocks gives each new full block its key and no other.
LEMMA CacheFullOK ==
  ASSUME NEW p, PoolOK(p), NEW bs \in SUBSET Block, NEW new \in [bs -> Key]
  PROVE  PoolOK(cache_full_blocks(p, new))
<1> DEFINE q == evict_blocks(p, bs)
           r == cache_full_blocks(p, new)
<1>0. DOMAIN new = bs /\ NoHash \notin Key
  BY PoolAssumption
<1>1. PoolOK(q)
  BY EvictOK
<1>2. \A b \in bs : q.block_hash[b] = NoHash /\ q.other_hashes[b] = {}
  BY EvictFields DEF PoolOK
<1> HIDE DEF q
<1>3. /\ r \in Pool /\ r.free = q.free /\ r.ref_cnt = q.ref_cnt
      /\ r.other_hashes = q.other_hashes
      /\ r.view = q.view \cup {new[b] : b \in bs}
      /\ \A b \in Block : r.block_hash[b] = IF b \in bs THEN new[b]
                                            ELSE q.block_hash[b]
      /\ \A k \in Key : r.cached[k] = q.cached[k] \cup {b \in bs : new[b] = k}
  <2>1. r = [q EXCEPT
               !.block_hash = [b \in Block |-> IF b \in bs THEN new[b]
                                               ELSE q.block_hash[b]],
               !.cached = [k \in Key |-> q.cached[k] \cup {b \in bs : new[b] = k}],
               !.view = q.view \cup {new[b] : b \in bs}]
    BY <1>0 DEF cache_full_blocks, q
  <2> HIDE DEF r
  <2>2. q \in Pool /\ {new[b] : b \in bs} \in SUBSET Key
    BY <1>1 DEF PoolOK
  <2>3. [b \in Block |-> IF b \in bs THEN new[b] ELSE q.block_hash[b]]
          \in [Block -> Key \cup {NoHash}]
    BY <2>2 DEF Pool
  <2>4. [k \in Key |-> q.cached[k] \cup {b \in bs : new[b] = k}]
          \in [Key -> SUBSET Block]
    BY <2>2 DEF Pool
  <2>5. r \in Pool
    BY <2>1, <2>2, <2>3, <2>4, Zenon DEF Pool
  <2> QED BY <2>1, <2>2, <2>5, Zenon DEF Pool
<1> HIDE DEF r
<1>4. \A b \in Block : HashesOf(r, b) = IF b \in bs THEN {new[b]} ELSE HashesOf(q, b)
  BY <1>0, <1>2, <1>3 DEF HashesOf
<1>5. \A b \in bs : HashesOf(q, b) = {}
  BY <1>2 DEF HashesOf
<1>6. HashesMatch(r)
  <2>1. ASSUME NEW k \in Key, NEW b \in Block
        PROVE  b \in r.cached[k] <=> k \in HashesOf(r, b)
    <3>1. b \in q.cached[k] <=> k \in HashesOf(q, b)
      BY <1>1 DEF PoolOK, HashesMatch
    <3> QED BY <1>3, <1>4, <1>5, <3>1
  <2>2. ASSUME NEW b \in Block, r.other_hashes[b] # {}
        PROVE  r.block_hash[b] \notin {NoHash} \cup r.other_hashes[b]
    BY <1>1, <1>2, <1>3, <2>2 DEF PoolOK, HashesMatch
  <2> QED BY <2>1, <2>2 DEF HashesMatch
<1>7. ViewHolds(r)
  <2> SUFFICES ASSUME NEW k \in r.view PROVE r.cached[k] # {}
    BY DEF ViewHolds
  <2>1. k \in Key
    BY <1>3 DEF Pool
  <2>2. CASE k \in q.view
    BY <1>1, <1>3, <2>1, <2>2 DEF PoolOK, ViewHolds
  <2>3. CASE k \in {new[b] : b \in bs}
    BY <1>3, <2>1, <2>3
  <2> QED BY <1>3, <2>2, <2>3
<1> QED BY <1>1, <1>3, <1>6, <1>7, RecacheOK DEF r

\* move_block_hashes: every key that found src finds dst instead.
LEMMA MoveOK ==
  ASSUME NEW p, PoolOK(p), NEW src \in Block, NEW dst \in Block,
         HashesOf(p, dst) = {}
  PROVE  PoolOK(move_block_hashes(p, src, dst))
<1> DEFINE r == move_block_hashes(p, src, dst)
           hashes == HashesOf(p, src)
<1>0. /\ p \in Pool /\ HashesMatch(p) /\ ViewHolds(p) /\ NoHash \notin Key
      /\ \A b \in Block : p.other_hashes[b] \in SUBSET Key
      /\ \A b \in Block : p.block_hash[b] \in Key \cup {NoHash}
      /\ \A k \in Key : p.cached[k] \in SUBSET Block
  BY PoolAssumption DEF PoolOK, Pool
<1>1. RemovedHashes(p, {src}) = hashes
  BY <1>0 DEF RemovedHashes, HashesMatch, HashesOf
<1>2. /\ r \in Pool /\ r.free = p.free /\ r.ref_cnt = p.ref_cnt /\ r.view = p.view
      /\ r.block_hash[dst] = p.block_hash[src]
      /\ r.other_hashes[dst] = hashes \ {p.block_hash[src]}
      /\ \A b \in Block : b # dst =>
           /\ r.block_hash[b] = IF b = src THEN NoHash ELSE p.block_hash[b]
           /\ r.other_hashes[b] = IF b = src THEN {} ELSE p.other_hashes[b]
      /\ \A k \in Key : r.cached[k] = IF k \in hashes
           THEN (p.cached[k] \ {src}) \cup {dst} ELSE p.cached[k]
  <2> DEFINE q == remove_cached_block_hashes(p, {src})
  <2>1. /\ q \in Pool /\ q.free = p.free /\ q.ref_cnt = p.ref_cnt /\ q.view = p.view
        /\ \A b \in Block :
             /\ q.block_hash[b] = IF b = src THEN NoHash ELSE p.block_hash[b]
             /\ q.other_hashes[b] = IF b = src THEN {} ELSE p.other_hashes[b]
        /\ \A k \in Key : q.cached[k] = IF k \in hashes THEN p.cached[k] \ {src}
                                         ELSE p.cached[k]
    BY <1>0, Zenon DEF remove_cached_block_hashes, Pool
  <2>2. r = [q EXCEPT !.block_hash[dst] = p.block_hash[src],
                      !.other_hashes[dst] = hashes \ {p.block_hash[src]},
                      !.cached = [k \in Key |-> IF k \in hashes
                                               THEN q.cached[k] \cup {dst}
                                               ELSE q.cached[k]]]
    BY <1>1, Zenon DEF move_block_hashes
  <2>3. hashes \in SUBSET Key
    BY <1>0 DEF HashesOf
  <2> HIDE DEF q, r, hashes
  <2>4. /\ r \in Pool /\ r.free = q.free /\ r.ref_cnt = q.ref_cnt /\ r.view = q.view
        /\ r.block_hash[dst] = p.block_hash[src]
        /\ r.other_hashes[dst] = hashes \ {p.block_hash[src]}
        /\ \A b \in Block : b # dst => /\ r.block_hash[b] = q.block_hash[b]
                                       /\ r.other_hashes[b] = q.other_hashes[b]
        /\ \A k \in Key : r.cached[k] = IF k \in hashes
             THEN q.cached[k] \cup {dst} ELSE q.cached[k]
    BY <1>0, <2>1, <2>2, <2>3, ZenonT(90) DEF Pool
  <2> QED BY <2>1, <2>4, ZenonT(90)
<1> HIDE DEF r
<1>3. /\ HashesOf(r, dst) = hashes
      /\ \A b \in Block : b # dst =>
           HashesOf(r, b) = IF b = src THEN {} ELSE HashesOf(p, b)
  BY <1>0, <1>2 DEF HashesOf
<1>4. HashesMatch(r)
  <2>1. ASSUME NEW k \in Key, NEW b \in Block
        PROVE  b \in r.cached[k] <=> k \in HashesOf(r, b)
    <3>1. b \in p.cached[k] <=> k \in HashesOf(p, b)
      BY <1>0 DEF HashesMatch
    <3>2. src \in p.cached[k] <=> k \in hashes
      BY <1>0 DEF HashesMatch
    <3>3. k \notin HashesOf(p, dst)
      OBVIOUS
    <3>4. CASE b = dst
      BY <1>2, <1>3, <3>1, <3>3, <3>4, Zenon
    <3>5. CASE b # dst /\ b = src
      <4>1. b \notin r.cached[k]
        <5>1. CASE k \in hashes
          <6>1. r.cached[k] = (p.cached[k] \ {src}) \cup {dst}
            BY <1>2, <5>1, Zenon
          <6> QED BY <6>1, <3>5
        <5>2. CASE k \notin hashes
          BY <1>2, <3>5, <3>2, <5>2, Zenon
        <5> QED BY <5>1, <5>2
      <4> QED BY <1>3, <3>5, <4>1
    <3>6. CASE b # dst /\ b # src
      <4>1. \/ r.cached[k] = (p.cached[k] \ {src}) \cup {dst}
            \/ r.cached[k] = p.cached[k]
        BY <1>2, Zenon
      <4>2. b \in r.cached[k] <=> b \in p.cached[k]
        BY <4>1, <3>6
      <4> QED BY <1>3, <3>1, <3>6, <4>2
    <3> QED BY <3>4, <3>5, <3>6
  <2>2. ASSUME NEW b \in Block, r.other_hashes[b] # {}
        PROVE  r.block_hash[b] \notin {NoHash} \cup r.other_hashes[b]
    <3>1. CASE b = dst
      BY <1>0, <1>2, <2>2, <3>1 DEF HashesMatch, HashesOf
    <3>2. CASE b # dst
      BY <1>0, <1>2, <2>2, <3>2 DEF HashesMatch
    <3> QED BY <3>1, <3>2
  <2> QED BY <2>1, <2>2 DEF HashesMatch
<1>5. ViewHolds(r)
  <2> SUFFICES ASSUME NEW k \in r.view PROVE r.cached[k] # {}
    BY DEF ViewHolds
  <2>1. k \in Key /\ p.cached[k] # {}
    BY <1>0, <1>2 DEF ViewHolds, Pool
  <2> QED BY <1>2, <2>1, Zenon
<1> QED BY <1>0, <1>2, <1>4, <1>5, RecacheOK DEF r

\* The first n elements of a list, and the blocks in taken after they have gained
\* a reference and lost their keys.
FirstOf(s, n) == {s[i] : i \in 1 .. n}
Gained(p, q, taken) ==
  \A b \in Block :
    /\ q.ref_cnt[b] = IF b \in taken THEN p.ref_cnt[b] + 1 ELSE p.ref_cnt[b]
    /\ HashesOf(q, b) = IF enable_caching /\ b \in taken THEN {} ELSE HashesOf(p, b)

\* What get_new_blocks changes: the blocks it takes gain a reference and lose
\* their keys.
LEMMA GetNewBlocksChanges ==
  ASSUME NEW p, PoolOK(p), NEW n \in Nat, n <= get_num_free_blocks(p)
  PROVE  Gained(p, get_new_blocks(p, n), FirstOf(p.free, n))
<1> DEFINE taken == FirstOf(p.free, n)
           e == IF enable_caching THEN evict_blocks(p, taken) ELSE p
           q == get_new_blocks(p, n)
<1>1. taken \in SUBSET Block
  BY DEF PoolOK, Pool, get_num_free_blocks, FirstOf
<1>2. /\ e \in Pool /\ e.ref_cnt = p.ref_cnt
      /\ \A b \in Block :
           /\ e.block_hash[b] = IF enable_caching /\ b \in taken THEN NoHash
                                ELSE p.block_hash[b]
           /\ e.other_hashes[b] = IF enable_caching /\ b \in taken THEN {}
                                  ELSE p.other_hashes[b]
  BY <1>1, EvictFields DEF PoolOK
<1>3. q = [e EXCEPT !.free = SubSeq(@, n + 1, Len(@)),
                    !.ref_cnt = [b \in Block |-> IF b \in taken THEN @[b] + 1 ELSE @[b]]]
  BY DEF get_new_blocks, FirstOf
<1> HIDE DEF e, q, taken
<1>4. /\ q.ref_cnt = [b \in Block |-> IF b \in taken THEN e.ref_cnt[b] + 1
                                      ELSE e.ref_cnt[b]]
      /\ q.block_hash = e.block_hash /\ q.other_hashes = e.other_hashes
  BY <1>2, <1>3, Zenon DEF Pool
<1>5. ASSUME NEW b \in Block
      PROVE  HashesOf(q, b) = IF enable_caching /\ b \in taken THEN {}
                              ELSE HashesOf(p, b)
  BY <1>2, <1>4 DEF HashesOf
<1> QED BY <1>2, <1>4, <1>5 DEF q, Gained, taken

\* What touch changes: the reference counts of its blocks, and no key.
LEMMA TouchChanges ==
  ASSUME NEW p, PoolOK(p), NEW bs \in SUBSET Block
  PROVE  LET q == touch(p, bs) IN
         /\ q.cached = p.cached
         /\ \A b \in Block :
              /\ q.ref_cnt[b] = IF b \in bs THEN p.ref_cnt[b] + 1 ELSE p.ref_cnt[b]
              /\ HashesOf(q, b) = HashesOf(p, b)
<1> DEFINE q == touch(p, bs)
<1>1. /\ q.ref_cnt = [b \in Block |-> IF b \in bs THEN p.ref_cnt[b] + 1
                                      ELSE p.ref_cnt[b]]
      /\ q.block_hash = p.block_hash /\ q.other_hashes = p.other_hashes
      /\ q.cached = p.cached
  BY Zenon DEF PoolOK, Pool, touch
<1> HIDE DEF q
<1> QED BY <1>1 DEF HashesOf, q

\* What free_blocks changes: the reference counts of its blocks, and no key.
LEMMA FreeBlocksChanges ==
  ASSUME NEW p, PoolOK(p), NEW ordered
  PROVE  LET q == free_blocks(p, ordered) IN
         /\ q.cached = p.cached
         /\ \A b \in Block :
              /\ q.ref_cnt[b] = IF b \in Elements(ordered) THEN p.ref_cnt[b] - 1
                                ELSE p.ref_cnt[b]
              /\ HashesOf(q, b) = HashesOf(p, b)
<1> DEFINE q == free_blocks(p, ordered)
           bs == Elements(ordered) \cap Block
<1>1. /\ q.ref_cnt = [b \in Block |-> IF b \in bs THEN p.ref_cnt[b] - 1
                                      ELSE p.ref_cnt[b]]
      /\ q.block_hash = p.block_hash /\ q.other_hashes = p.other_hashes
      /\ q.cached = p.cached
  BY Zenon DEF PoolOK, Pool, free_blocks
<1> HIDE DEF q
<1> QED BY <1>1 DEF HashesOf, q

\* What cache_full_blocks changes: its blocks have their new key and no other.
LEMMA CacheFullChanges ==
  ASSUME NEW p, PoolOK(p), NEW bs \in SUBSET Block, NEW new \in [bs -> Key]
  PROVE  LET q == cache_full_blocks(p, new) IN
         /\ q.ref_cnt = p.ref_cnt
         /\ \A b \in Block : HashesOf(q, b) = IF b \in bs THEN {new[b]}
                                              ELSE HashesOf(p, b)
<1> DEFINE e == evict_blocks(p, bs)
           q == cache_full_blocks(p, new)
<1>1. /\ e \in Pool /\ e.ref_cnt = p.ref_cnt
      /\ \A b \in Block :
           /\ e.block_hash[b] = IF b \in bs THEN NoHash ELSE p.block_hash[b]
           /\ e.other_hashes[b] = IF b \in bs THEN {} ELSE p.other_hashes[b]
  BY EvictFields DEF PoolOK
<1>2. DOMAIN new = bs /\ \A b \in bs : new[b] # NoHash
  BY PoolAssumption
<1> HIDE DEF e
<1>3. /\ q.ref_cnt = e.ref_cnt /\ q.other_hashes = e.other_hashes
      /\ q.block_hash = [b \in Block |-> IF b \in bs THEN new[b] ELSE e.block_hash[b]]
  BY <1>1, <1>2, Zenon DEF cache_full_blocks, e, Pool
<1> HIDE DEF q
<1>4. ASSUME NEW b \in Block
      PROVE  HashesOf(q, b) = IF b \in bs THEN {new[b]} ELSE HashesOf(p, b)
  <2>1. CASE b \in bs
    BY <1>1, <1>2, <1>3, <2>1 DEF HashesOf
  <2>2. CASE b \notin bs
    BY <1>1, <1>3, <2>2 DEF HashesOf
  <2> QED BY <2>1, <2>2
<1> QED BY <1>1, <1>3, <1>4 DEF q

\* What cache_partial_block changes: its block may gain the key.
LEMMA CachePartialChanges ==
  ASSUME NEW p, PoolOK(p), NEW b \in Block, NEW k \in Key
  PROVE  LET q == cache_partial_block(p, b, k) IN
         /\ q.ref_cnt = p.ref_cnt
         /\ HashesOf(q, b) \subseteq HashesOf(p, b) \cup {k}
         /\ \A c \in Block : c # b => HashesOf(q, c) = HashesOf(p, c)
<1> DEFINE already == p.block_hash[b] = k \/ b \in p.cached[k]
           superseded == /\ ~ already /\ p.block_hash[b] # NoHash
                         /\ NumTokens[p.block_hash[b]] < NumTokens[k]
           e == IF superseded THEN evict_blocks(p, {b}) ELSE p
           q == insert_block_hash(e, k, b)
           r == [q EXCEPT !.view = @ \cup {k}]
<1>1. /\ e \in Pool /\ e.ref_cnt = p.ref_cnt
      /\ \A c \in Block : c # b => /\ e.block_hash[c] = p.block_hash[c]
                                   /\ e.other_hashes[c] = p.other_hashes[c]
      /\ e.block_hash[b] \in {p.block_hash[b], NoHash}
      /\ e.other_hashes[b] \subseteq p.other_hashes[b]
  <2>1. {b} \in SUBSET Block /\ p \in Pool
    BY DEF PoolOK
  <2>2. CASE superseded
    <3> HIDE DEF superseded
    <3> QED BY <2>1, <2>2, EvictFields
  <2>3. CASE ~ superseded
    <3> HIDE DEF superseded
    <3> QED BY <2>1, <2>3
  <2> QED BY ZenonT(90), <2>2, <2>3
<1> HIDE DEF e
<1>2. /\ q \in Pool /\ q.ref_cnt = e.ref_cnt
      /\ \A c \in Block : c # b => /\ q.block_hash[c] = e.block_hash[c]
                                   /\ q.other_hashes[c] = e.other_hashes[c]
      /\ q.block_hash[b] \in {e.block_hash[b], k}
      /\ q.other_hashes[b] \subseteq e.other_hashes[b] \cup {k}
  BY <1>1, ZenonT(90) DEF insert_block_hash, Pool
<1> HIDE DEF q
<1>3. /\ HashesOf(q, b) \subseteq HashesOf(p, b) \cup {k}
      /\ \A c \in Block : c # b => HashesOf(q, c) = HashesOf(p, c)
  BY <1>1, <1>2 DEF HashesOf
<1>4. /\ r.ref_cnt = q.ref_cnt /\ r.block_hash = q.block_hash
      /\ r.other_hashes = q.other_hashes
  BY <1>2, Zenon DEF Pool
<1> HIDE DEF r
<1>5. /\ HashesOf(r, b) \subseteq HashesOf(p, b) \cup {k}
      /\ \A c \in Block : c # b => HashesOf(r, c) = HashesOf(p, c)
  BY <1>3, <1>4 DEF HashesOf
<1>6. cache_partial_block(p, b, k) = IF already THEN q ELSE r
  BY DEF cache_partial_block, q, r, e
<1> QED BY <1>1, <1>2, <1>3, <1>4, <1>5, <1>6

\* reset_prefix_cache clears the cache, or does nothing.
LEMMA ResetOK ==
  ASSUME NEW p, PoolOK(p)
  PROVE  PoolOK(reset_prefix_cache(p))
<1> DEFINE r == [p EXCEPT !.block_hash = [b \in Block |-> NoHash],
                          !.other_hashes = [b \in Block |-> {}],
                          !.cached = [k \in Key |-> {}],
                          !.view = {}]
<1>1. /\ r \in Pool /\ r.free = p.free /\ r.ref_cnt = p.ref_cnt
      /\ r.view = {} /\ \A k \in Key : r.cached[k] = {}
      /\ \A b \in Block : r.block_hash[b] = NoHash /\ r.other_hashes[b] = {}
  BY Zenon DEF PoolOK, Pool
<1>2. reset_prefix_cache(p) \in {p, r}
  BY DEF reset_prefix_cache
<1> HIDE DEF r
<1>3. HashesMatch(r) /\ ViewHolds(r)
  BY <1>1 DEF HashesMatch, ViewHolds, HashesOf
<1> QED BY <1>1, <1>2, <1>3, RecacheOK

\* The pool starts consistent: every block but the null block is free.
LEMMA EmptyOK == PoolOK(EmptyPool)
<1>1. /\ EmptyPool \in Pool /\ EmptyPool.free = [i \in 1 .. num_gpu_blocks - 1 |-> i]
      /\ EmptyPool.view = {} /\ \A k \in Key : EmptyPool.cached[k] = {}
      /\ \A b \in Block : /\ EmptyPool.ref_cnt[b] = 0
                          /\ EmptyPool.block_hash[b] = NoHash
                          /\ EmptyPool.other_hashes[b] = {}
  BY PoolAssumption DEF EmptyPool, Pool, Block
<1>2. FreeMatches(EmptyPool)
  BY <1>1, PoolAssumption DEF FreeMatches, NoRepetition, Elements, Block
<1>3. HashesMatch(EmptyPool) /\ ViewHolds(EmptyPool)
  BY <1>1 DEF HashesMatch, ViewHolds, HashesOf
<1> QED BY <1>1, <1>2, <1>3 DEF PoolOK

\* The inductive invariant.
PoolInv == PoolOK(pool)

\* Every method keeps the invariant, for every number of blocks, every set of
\* keys and every sequence of calls.
LEMMA PoolInvariant == PoolSpec => []PoolInv
<1>1. PoolInit => PoolInv
  BY EmptyOK DEF PoolInit, PoolInv
<1>2. PoolInv /\ PoolNext => PoolInv'
  <2> SUFFICES ASSUME PoolOK(pool), PoolNext PROVE PoolOK(pool')
    BY DEF PoolInv
  <2>0. Held \in SUBSET Block /\ Hashed \in SUBSET Block
    BY DEF Held, Hashed
  <2>1. ASSUME NEW n \in 1 .. num_gpu_blocks - 1, GetNewBlocks(n)
        PROVE  PoolOK(pool')
    BY <2>1, GetNewBlocksOK, PoolAssumption DEF GetNewBlocks
  <2>2. ASSUME NEW bs \in SUBSET (Held \cup Hashed), Touch(bs)
        PROVE  PoolOK(pool')
    BY <2>0, <2>2, TouchOK DEF Touch
  <2>3. ASSUME NEW s \in ListsOf(Held), FreeBlocks(s) PROVE PoolOK(pool')
    <3>1. /\ s \in Seq(Block) /\ NoRepetition(s)
          /\ \A b \in Elements(s) : pool.ref_cnt[b] > 0
      <4>1. PICK n \in 1 .. num_gpu_blocks - 1 : s \in [1 .. n -> Held]
        BY DEF ListsOf
      <4>2. Len(s) = n /\ s \in Seq(Held)
        BY <4>1
      <4>3. \A i \in 1 .. Len(s) : s[i] \in Held
        BY <4>1, <4>2
      <4>4. \A b \in Elements(s) : pool.ref_cnt[b] > 0
        BY <4>3 DEF Elements, Held
      <4>5. s \in Seq(Block)
        BY <4>2, <2>0
      <4> QED BY <4>4, <4>5 DEF ListsOf
    <3>2. s \in Seq(Block \cup {null_block}) /\ NoRepetitionIn(s, Block)
      BY <3>1 DEF NoRepetition, NoRepetitionIn
    <3> QED BY <2>0, <2>3, <3>1, <3>2, FreeBlocksOK DEF FreeBlocks
  <2>4. ASSUME NEW bs \in SUBSET Held, NEW new \in [bs -> Key],
               CacheFullBlocks(new)
        PROVE  PoolOK(pool')
    BY <2>0, <2>4, CacheFullOK DEF CacheFullBlocks
  <2>5. ASSUME NEW b \in Held, NEW k \in Key, CachePartialBlock(b, k)
        PROVE  PoolOK(pool')
    BY <2>0, <2>5, CachePartialOK DEF CachePartialBlock
  <2>6. ASSUME NEW src \in Held, NEW dst \in Held \ Hashed,
               MoveBlockHashes(src, dst)
        PROVE  PoolOK(pool')
    <3>1. HashesOf(pool, dst) = {}
      BY <2>0 DEF Hashed
    <3> QED BY <2>0, <2>6, <3>1, MoveOK DEF MoveBlockHashes
  <2>7. ASSUME NEW bs \in SUBSET Block, EvictBlocks(bs) PROVE PoolOK(pool')
    BY <2>7, EvictOK DEF EvictBlocks
  <2>8. CASE ResetPrefixCache
    BY <2>8, ResetOK DEF ResetPrefixCache
  <2> QED BY <2>1, <2>2, <2>3, <2>4, <2>5, <2>6, <2>7, <2>8 DEF PoolNext
<1>3. PoolInv /\ UNCHANGED pool => PoolInv'
  BY DEF PoolInv
<1> QED BY <1>1, <1>2, <1>3, PTL DEF PoolSpec

\* BlockPool, for every number of blocks, every set of keys and every sequence
\* of calls: the free list holds exactly the unreferenced blocks, each once, so
\* get_new_blocks never hands out a block in use and none is lost.
THEOREM PoolCorrect == PoolSpec => [](PoolTypeOK /\ FreeIffUnreferenced)
<1>1. PoolInv => PoolTypeOK /\ FreeIffUnreferenced
  BY DEF PoolInv, PoolOK, PoolTypeOK, FreeIffUnreferenced
<1> QED BY <1>1, PoolInvariant, PTL

\* The hash map and the hashes recorded on the blocks name the same pairs after
\* every sequence of insertions, promotions, moves and evictions.
THEOREM CacheMapCorrect == PoolSpec => []HashMapConsistent
<1>1. PoolInv => HashMapConsistent
  BY DEF PoolInv, PoolOK, HashMapConsistent
<1> QED BY <1>1, PoolInvariant, PTL

\* A consumer that follows kv_event_queue never believes in a key that the hash
\* map does not find any more.
THEOREM EventsCorrect == PoolSpec => []EventsSound
<1>1. PoolInv => EventsSound
  BY DEF PoolInv, PoolOK, EventsSound
<1> QED BY <1>1, PoolInvariant, PTL
=============================================================================
