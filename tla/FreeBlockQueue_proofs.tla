----------------------- MODULE FreeBlockQueue_proofs -----------------------
(***************************************************************************)
(* The links of FreeKVCacheBlockQueue represent the sequence order, for    *)
(* every number of blocks.                                                 *)
(*                                                                         *)
(* Every method either takes a contiguous piece out of the list (popleft,  *)
(* popleft_n, remove) or puts a list of blocks in at one place (append,    *)
(* append_n, prepend_n).  UnlinkKeepsList and LinkKeepsList are about the  *)
(* two kinds of step.                                                      *)
(***************************************************************************)
EXTENDS FreeBlockQueue, Lists, WellFoundedInduction, TLAPS

\* The provers of the leaves that name none, in the order they are tried.
USE SMTT(90), ZenonT(20), SMTT(91), SMTT(92)

\* The inductive invariant.
IInv == TypeOK /\ ListRepresentsOrder

\* The nodes of the list are nodes, and no two positions hold the same node.
LEMMA NodesDiffer ==
  ASSUME NEW s \in Seq(Block), NoRepetition(s)
  PROVE  /\ \A i \in 0 .. Len(s) + 1 : NodeAt(s, i) \in Node
         /\ \A i, j \in 0 .. Len(s) + 1 : NodeAt(s, i) = NodeAt(s, j) => i = j
         /\ \A i \in 1 .. Len(s) : NodeAt(s, i) = s[i] /\ s[i] \in Block
<1>1. \A i \in 1 .. Len(s) : s[i] \in Block /\ i # 0 /\ i # Len(s) + 1
  OBVIOUS
<1>2. \A i \in 1 .. Len(s) : NodeAt(s, i) = s[i] /\ s[i] \in Block
  BY <1>1 DEF NodeAt
<1>3. /\ NodeAt(s, 0) = fake_free_list_head
      /\ NodeAt(s, Len(s) + 1) = fake_free_list_tail
  BY DEF NodeAt
<1>4. \A i \in 0 .. Len(s) + 1 : i = 0 \/ i = Len(s) + 1 \/ i \in 1 .. Len(s)
  OBVIOUS
<1>5. /\ fake_free_list_head \notin Block /\ fake_free_list_tail \notin Block
      /\ fake_free_list_head # fake_free_list_tail
  BY NumGpuBlocksAssumption DEF Block, fake_free_list_head, fake_free_list_tail
<1>6. \A i \in 0 .. Len(s) + 1 : NodeAt(s, i) \in Node
  BY <1>2, <1>3, <1>4 DEF Node
<1>7. ASSUME NEW i \in 0 .. Len(s) + 1, NEW j \in 0 .. Len(s) + 1,
             NodeAt(s, i) = NodeAt(s, j)
      PROVE  i = j
  <2>1. CASE i \in 1 .. Len(s) /\ j \in 1 .. Len(s)
    BY <2>1, <1>2, <1>7 DEF NoRepetition
  <2>2. CASE i \in 1 .. Len(s) /\ j \in {0, Len(s) + 1}
    BY <2>2, <1>2, <1>3, <1>5, <1>7
  <2>3. CASE i \in {0, Len(s) + 1} /\ j \in 1 .. Len(s)
    BY <2>3, <1>2, <1>3, <1>5, <1>7
  <2>4. CASE i \in {0, Len(s) + 1} /\ j \in {0, Len(s) + 1}
    BY <2>4, <1>3, <1>5, <1>7
  <2> QED BY <1>4, <2>1, <2>2, <2>3, <2>4
<1> QED BY <1>2, <1>6, <1>7

\* t is s without the d elements that follow position i.
CutOut(s, i, d, t) ==
  /\ i + d <= Len(s) /\ Len(t) = Len(s) - d
  /\ \A k \in 1 .. i : t[k] = s[k]
  /\ \A k \in i + 1 .. Len(t) : t[k] = s[k + d]

\* What is left after the first n elements.
LEMMA CutFront ==
  ASSUME NEW s \in Seq(Block), NEW n \in Nat, n <= Len(s)
  PROVE  /\ SubSeq(s, n + 1, Len(s)) \in Seq(Block)
         /\ CutOut(s, 0, n, SubSeq(s, n + 1, Len(s)))
<1> DEFINE t == SubSeq(s, n + 1, Len(s))
<1>1. t \in Seq(Block) /\ Len(t) = Len(s) - n /\ Len(s) \in Nat
  OBVIOUS
<1>2. \A k \in 1 .. Len(s) - n : t[k] = s[(n + 1) + k - 1]
  OBVIOUS
<1>3. \A k \in 1 .. Len(s) - n : (n + 1) + k - 1 = k + n
  OBVIOUS
<1> HIDE DEF t
<1>4. \A k \in 0 + 1 .. Len(t) : t[k] = s[k + n]
  BY <1>1, <1>2, <1>3
<1>5. \A k \in 1 .. 0 : t[k] = s[k]
  OBVIOUS
<1>6. 0 + n <= Len(s)
  BY <1>1
<1>7. CutOut(s, 0, n, t)
  BY <1>1, <1>4, <1>5, <1>6 DEF CutOut
<1> QED BY <1>1, <1>7 DEF t

\* What cutting does to the nodes at each position.
LEMMA CutNodes ==
  ASSUME NEW s \in Seq(Block), NEW t \in Seq(Block), NoRepetition(s),
         NEW i \in Nat, NEW d \in Nat, CutOut(s, i, d, t)
  PROVE  /\ \A k \in 0 .. i : NodeAt(t, k) = NodeAt(s, k)
         /\ \A k \in i + 1 .. Len(t) + 1 : NodeAt(t, k) = NodeAt(s, k + d)
         /\ NoRepetition(t)
<1>0. /\ Len(s) \in Nat /\ Len(t) \in Nat /\ i + d <= Len(s)
      /\ Len(t) = Len(s) - d
  BY DEF CutOut
<1>1. ASSUME NEW k \in 0 .. i PROVE NodeAt(t, k) = NodeAt(s, k)
  <2>1. CASE k = 0
    BY <2>1 DEF NodeAt
  <2>2. CASE k > 0 /\ k <= Len(t)
    BY <2>2, <1>0 DEF NodeAt, CutOut
  <2> QED BY <2>1, <2>2, <1>0
<1>2. ASSUME NEW k \in i + 1 .. Len(t) + 1
      PROVE  NodeAt(t, k) = NodeAt(s, k + d)
  <2>1. CASE k = Len(t) + 1
    BY <2>1, <1>0 DEF NodeAt
  <2>2. CASE k <= Len(t)
    <3>1. PICK m \in 1 .. Len(s) : m = k + d
      BY <2>2, <1>0
    <3>2. t[k] = s[m]
      BY <2>2, <3>1, <1>0 DEF CutOut
    <3>3. NodeAt(t, k) = t[k]
      BY <2>2, <1>0 DEF NodeAt
    <3>4. NodeAt(s, m) = s[m]
      BY <1>0 DEF NodeAt
    <3> QED BY <3>1, <3>2, <3>3, <3>4
  <2>3. k = Len(t) + 1 \/ k <= Len(t)
    BY <1>0
  <2> QED BY <2>1, <2>2, <2>3
<1>3. ASSUME NEW k \in 1 .. Len(t), NEW l \in 1 .. Len(t), t[k] = t[l]
      PROVE  k = l
  <2> DEFINE P(x) == IF x <= i THEN x ELSE x + d
  <2>1. ASSUME NEW x \in 1 .. Len(t) PROVE P(x) \in 1 .. Len(s) /\ t[x] = s[P(x)]
    <3>1. CASE x <= i
      BY <3>1, <1>0 DEF CutOut
    <3>2. CASE x > i
      BY <3>2, <1>0 DEF CutOut
    <3> QED BY <3>1, <3>2, <1>0
  <2>2. P(k) = P(l)
    <3> HIDE DEF P
    <3> QED BY <2>1, <1>3 DEF NoRepetition
  <2> QED BY <2>2, <1>0
<1> QED BY <1>1, <1>2, <1>3 DEF NoRepetition

\* Cutting the d nodes that follow position i out of the list leaves the list
\* of the other blocks.
LEMMA UnlinkKeepsList ==
  ASSUME IInv,
         NEW i \in Nat, NEW d \in Nat,
         order' \in Seq(Block), CutOut(order, i, d, order'),
         Unlink(NodeAt(order, i), NodeAt(order, i + d + 1),
                {NodeAt(order, k) : k \in i + 1 .. i + d}),
         num_free_blocks' = num_free_blocks - d
  PROVE  IInv'
<1> DEFINE s == order
           t == order'
           j == i + d + 1
           gone == {NodeAt(s, k) : k \in i + 1 .. i + d}
<1>0. /\ s \in Seq(Block) /\ Len(s) \in Nat /\ NoRepetition(s)
      /\ t \in Seq(Block) /\ Len(t) \in Nat
      /\ i + d <= Len(s) /\ Len(t) = Len(s) - d /\ CutOut(s, i, d, t)
      /\ j = i + d + 1
  BY DEF IInv, TypeOK, ListRepresentsOrder, CutOut
<1>1. /\ \A k \in 0 .. Len(s) + 1 : NodeAt(s, k) \in Node
      /\ \A k, l \in 0 .. Len(s) + 1 : NodeAt(s, k) = NodeAt(s, l) => k = l
      /\ \A k \in 1 .. Len(s) : NodeAt(s, k) = s[k] /\ s[k] \in Block
  BY <1>0, NodesDiffer, Zenon
<1>2. /\ next_free_block' = [x \in Node |-> IF x \in gone THEN None
                               ELSE IF x = NodeAt(s, i) THEN NodeAt(s, j)
                               ELSE next_free_block[x]]
      /\ prev_free_block' = [x \in Node |-> IF x \in gone THEN None
                               ELSE IF x = NodeAt(s, j) THEN NodeAt(s, i)
                               ELSE prev_free_block[x]]
  BY DEF Unlink
<1>3. /\ \A k \in 0 .. Len(s) :
            /\ next_free_block[NodeAt(s, k)] = NodeAt(s, k + 1)
            /\ prev_free_block[NodeAt(s, k + 1)] = NodeAt(s, k)
      /\ next_free_block[fake_free_list_tail] = None
      /\ prev_free_block[fake_free_list_head] = None
  BY DEF IInv, ListRepresentsOrder, LinksFollow
<1>4. \A x : x \in gone <=> \E k \in i + 1 .. i + d : x = NodeAt(s, k)
  OBVIOUS
<1>5. /\ num_free_blocks' = Len(t) /\ num_free_blocks' \in Nat
      /\ \A b \in Block : (\A k \in 1 .. Len(s) : s[k] # b) =>
            prev_free_block[b] = None /\ next_free_block[b] = None
      /\ prev_free_block \in [Node -> Node \cup {None}]
      /\ next_free_block \in [Node -> Node \cup {None}]
  BY <1>0 DEF IInv, TypeOK, ListRepresentsOrder, OthersUnlinked
<1> HIDE DEF s, t, j, gone
<1>6. /\ \A k \in 0 .. i : NodeAt(t, k) = NodeAt(s, k)
      /\ \A k \in i + 1 .. Len(t) + 1 : NodeAt(t, k) = NodeAt(s, k + d)
      /\ NoRepetition(t)
  BY <1>0, CutNodes
<1>7. \A k \in 0 .. Len(s) + 1 : NodeAt(s, k) \in gone <=> (i < k /\ k < j)
  BY <1>0, <1>1, <1>4
<1>8. ASSUME NEW k \in 0 .. Len(t)
      PROVE  /\ next_free_block'[NodeAt(t, k)] = NodeAt(t, k + 1)
             /\ prev_free_block'[NodeAt(t, k + 1)] = NodeAt(t, k)
  <2>1. CASE k < i
    <3>1. NodeAt(t, k) = NodeAt(s, k) /\ NodeAt(t, k + 1) = NodeAt(s, k + 1)
      BY <2>1, <1>0, <1>6
    <3> QED BY <2>1, <3>1, <1>0, <1>1, <1>2, <1>3, <1>7
  <2>2. CASE k = i
    <3>1. NodeAt(t, k) = NodeAt(s, i) /\ NodeAt(t, k + 1) = NodeAt(s, j)
      BY <2>2, <1>0, <1>6
    <3> QED BY <2>2, <3>1, <1>0, <1>1, <1>2, <1>7
  <2>3. CASE k > i
    <3>1. PICK m \in 0 .. Len(s) : m = k + d
      BY <2>3, <1>0
    <3>2. NodeAt(t, k) = NodeAt(s, m) /\ NodeAt(t, k + 1) = NodeAt(s, m + 1)
      BY <2>3, <3>1, <1>0, <1>6
    <3> QED BY <2>3, <3>1, <3>2, <1>0, <1>1, <1>2, <1>3, <1>7
  <2> QED BY <2>1, <2>2, <2>3, <1>0
<1>9. /\ next_free_block'[fake_free_list_tail] = None
      /\ prev_free_block'[fake_free_list_head] = None
  <2>1. /\ fake_free_list_tail = NodeAt(s, Len(s) + 1)
        /\ fake_free_list_head = NodeAt(s, 0)
    BY <1>0 DEF NodeAt
  <2> QED BY <2>1, <1>0, <1>1, <1>2, <1>3, <1>7
<1>10. LinksFollow(order)'
  BY <1>8, <1>9 DEF LinksFollow, NodeAt, t
<1>11. OthersUnlinked(order)'
  <2> SUFFICES ASSUME NEW b \in Block, \A k \in 1 .. Len(t) : t[k] # b
               PROVE  prev_free_block'[b] = None /\ next_free_block'[b] = None
    BY DEF OthersUnlinked, t
  <2>1. CASE \E k \in 1 .. Len(s) : s[k] = b
    <3>1. PICK k \in 1 .. Len(s) : s[k] = b
      BY <2>1
    <3>2. k > i
      <4> SUFFICES ASSUME k <= i PROVE FALSE
        BY <1>0
      <4>1. k \in 1 .. Len(t) /\ k \in 1 .. i
        BY <1>0
      <4>2. t[k] = s[k]
        BY <1>0, <4>1 DEF CutOut
      <4> QED BY <3>1, <4>1, <4>2
    <3>3. k <= i + d
      <4> SUFFICES ASSUME k > i + d PROVE FALSE
        BY <1>0
      <4>1. PICK m \in i + 1 .. Len(t) : m + d = k
        BY <1>0
      <4>2. t[m] = s[k]
        BY <4>1, <1>0, Zenon DEF CutOut
      <4> QED BY <4>1, <4>2, <3>1, <1>0
    <3>4. b \in gone
      BY <3>1, <3>2, <3>3, <1>1, <1>4, <1>0
    <3> QED BY <3>4, <1>2 DEF Node
  <2>2. CASE \A k \in 1 .. Len(s) : s[k] # b
    <3>1. prev_free_block[b] = None /\ next_free_block[b] = None
      BY <2>2, <1>5
    <3>2. \A k \in 0 .. Len(s) + 1 : NodeAt(s, k) # b
      <4>1. b # fake_free_list_head /\ b # fake_free_list_tail
        BY NumGpuBlocksAssumption
           DEF Block, fake_free_list_head, fake_free_list_tail
      <4> QED BY <4>1, <2>2, <1>0 DEF NodeAt
    <3>3. b \notin gone /\ b # NodeAt(s, i) /\ b # NodeAt(s, j) /\ b \in Node
      BY <3>2, <1>0, <1>4 DEF Node
    <3> QED BY <3>1, <3>3, <1>2
  <2> QED BY <2>1, <2>2
<1>12. TypeOK'
  <2>1. NodeAt(s, i) \in Node /\ NodeAt(s, j) \in Node
    BY <1>0, <1>1
  <2> QED BY <2>1, <1>2, <1>0, <1>5 DEF TypeOK, t
<1> QED BY <1>5, <1>6, <1>10, <1>11, <1>12 DEF IInv, ListRepresentsOrder, t

\* t is s with the elements of u put in after position i.
PutIn(s, i, u, t) ==
  /\ i <= Len(s) /\ Len(t) = Len(s) + Len(u)
  /\ \A k \in 1 .. i : t[k] = s[k]
  /\ \A k \in 1 .. Len(u) : t[i + k] = u[k]
  /\ \A k \in i + 1 .. Len(s) : t[k + Len(u)] = s[k]

\* s and u have no element in common.
Apart(s, u) == \A k \in 1 .. Len(s) : \A l \in 1 .. Len(u) : s[k] # u[l]

\* What putting blocks in does to the nodes at each position.
LEMMA PutNodes ==
  ASSUME NEW s \in Seq(Block), NEW t \in Seq(Block), NEW u \in Seq(Block),
         NoRepetition(s), NoRepetition(u), Apart(s, u),
         NEW i \in Nat, PutIn(s, i, u, t)
  PROVE  /\ \A k \in 0 .. i : NodeAt(t, k) = NodeAt(s, k)
         /\ \A k \in 1 .. Len(u) : NodeAt(t, i + k) = u[k]
         /\ \A k \in i + 1 .. Len(s) + 1 : NodeAt(t, k + Len(u)) = NodeAt(s, k)
         /\ NoRepetition(t)
<1>0. /\ Len(s) \in Nat /\ Len(t) \in Nat /\ Len(u) \in Nat /\ i <= Len(s)
      /\ Len(t) = Len(s) + Len(u)
  BY DEF PutIn
<1>1. ASSUME NEW k \in 0 .. i PROVE NodeAt(t, k) = NodeAt(s, k)
  <2>1. CASE k = 0
    BY <2>1 DEF NodeAt
  <2>2. CASE k > 0
    BY <2>2, <1>0 DEF NodeAt, PutIn
  <2> QED BY <2>1, <2>2, <1>0
<1>2. ASSUME NEW k \in 1 .. Len(u) PROVE NodeAt(t, i + k) = u[k]
  BY <1>0 DEF NodeAt, PutIn
<1>3. ASSUME NEW k \in i + 1 .. Len(s) + 1
      PROVE  NodeAt(t, k + Len(u)) = NodeAt(s, k)
  <2>1. CASE k = Len(s) + 1
    BY <2>1, <1>0 DEF NodeAt
  <2>2. CASE k <= Len(s)
    <3>1. PICK m \in 1 .. Len(t) : m = k + Len(u)
      BY <2>2, <1>0
    <3>2. t[m] = s[k]
      BY <2>2, <3>1, <1>0 DEF PutIn
    <3>3. NodeAt(t, m) = t[m]
      BY <1>0 DEF NodeAt
    <3>4. NodeAt(s, k) = s[k]
      BY <2>2, <1>0 DEF NodeAt
    <3> QED BY <3>1, <3>2, <3>3, <3>4
  <2> QED BY <2>1, <2>2, <1>0
<1>4. ASSUME NEW k \in 1 .. Len(t), NEW l \in 1 .. Len(t), t[k] = t[l]
      PROVE  k = l
  <2> DEFINE FromS(x) == \E m \in 1 .. Len(s) :
                 t[x] = s[m] /\ x = IF m <= i THEN m ELSE m + Len(u)
             FromU(x) == \E m \in 1 .. Len(u) : t[x] = u[m] /\ x = i + m
  <2>1. ASSUME NEW x \in 1 .. Len(t) PROVE FromS(x) \/ FromU(x)
    <3>1. CASE x <= i
      <4>1. x \in 1 .. i /\ x \in 1 .. Len(s)
        BY <3>1, <1>0
      <4>2. t[x] = s[x]
        BY <4>1, <1>0 DEF PutIn
      <4> QED BY <3>1, <4>1, <4>2
    <3>2. CASE x > i /\ x <= i + Len(u)
      <4>1. PICK m \in 1 .. Len(u) : x = i + m
        BY <3>2, <1>0
      <4> QED BY <4>1 DEF PutIn
    <3>3. CASE x > i + Len(u)
      <4>1. /\ x - Len(u) \in i + 1 .. Len(s)
            /\ x = (x - Len(u)) + Len(u)
        BY <3>3, <1>0
      <4>2. PICK m \in i + 1 .. Len(s) : x = m + Len(u)
        BY <4>1, Zenon
      <4>3. m \in 1 .. Len(s) /\ ~ (m <= i)
        BY <1>0
      <4> QED BY <4>2, <4>3 DEF PutIn
    <3> QED BY <3>1, <3>2, <3>3, <1>0
  <2>2. CASE FromS(k) /\ FromS(l)
    BY <2>2, <1>4 DEF NoRepetition
  <2>3. CASE FromU(k) /\ FromU(l)
    BY <2>3, <1>4 DEF NoRepetition
  <2>4. ~ (FromS(k) /\ FromU(l)) /\ ~ (FromU(k) /\ FromS(l))
    BY <1>4 DEF Apart
  <2> HIDE DEF FromS, FromU
  <2> QED BY <2>1, <2>2, <2>3, <2>4
<1> QED BY <1>1, <1>2, <1>3, <1>4 DEF NoRepetition

\* Putting a list of unlinked blocks in after position i leaves the list of
\* all the blocks.
LEMMA LinkKeepsList ==
  ASSUME IInv,
         NEW i \in Nat, NEW u \in Seq(Block), NoRepetition(u), Apart(order, u),
         order' \in Seq(Block), PutIn(order, i, u, order'),
         Link(<<NodeAt(order, i)>> \o u \o <<NodeAt(order, i + 1)>>),
         num_free_blocks' = num_free_blocks + Len(u)
  PROVE  IInv'
<1> DEFINE s == order
           t == order'
           m == Len(u)
           chain == <<NodeAt(s, i)>> \o u \o <<NodeAt(s, i + 1)>>
           At(x) == CHOOSE k \in 1 .. Len(chain) : chain[k] = x
<1>0. /\ s \in Seq(Block) /\ Len(s) \in Nat /\ NoRepetition(s)
      /\ t \in Seq(Block) /\ Len(t) \in Nat
      /\ m \in Nat /\ m = Len(u)
      /\ i <= Len(s) /\ Len(t) = Len(s) + m /\ PutIn(s, i, u, t) /\ Apart(s, u)
  BY DEF IInv, TypeOK, ListRepresentsOrder, PutIn
<1>1. /\ Len(chain) = m + 2
      /\ chain[1] = NodeAt(s, i) /\ chain[m + 2] = NodeAt(s, i + 1)
      /\ \A k \in 1 .. m : chain[k + 1] = u[k]
  BY <1>0
<1>2. /\ next_free_block' =
            [x \in Node |-> IF \E k \in 1 .. Len(chain) - 1 : chain[k] = x
                            THEN chain[At(x) + 1] ELSE next_free_block[x]]
      /\ prev_free_block' =
            [x \in Node |-> IF \E k \in 2 .. Len(chain) : chain[k] = x
                            THEN chain[At(x) - 1] ELSE prev_free_block[x]]
  BY DEF Link
<1>3. /\ \A k \in 0 .. Len(s) :
            /\ next_free_block[NodeAt(s, k)] = NodeAt(s, k + 1)
            /\ prev_free_block[NodeAt(s, k + 1)] = NodeAt(s, k)
      /\ next_free_block[fake_free_list_tail] = None
      /\ prev_free_block[fake_free_list_head] = None
  BY DEF IInv, ListRepresentsOrder, LinksFollow
<1>4. /\ num_free_blocks' = Len(t) /\ num_free_blocks' \in Nat
      /\ \A b \in Block : (\A k \in 1 .. Len(s) : s[k] # b) =>
            prev_free_block[b] = None /\ next_free_block[b] = None
      /\ prev_free_block \in [Node -> Node \cup {None}]
      /\ next_free_block \in [Node -> Node \cup {None}]
  BY <1>0 DEF IInv, TypeOK, ListRepresentsOrder, OthersUnlinked
<1>5. \A x : \A k \in 1 .. Len(chain) : chain[k] = x =>
         At(x) \in 1 .. Len(chain) /\ chain[At(x)] = x
  BY Zenon
<1> HIDE DEF s, t, m, chain, At
<1>6. /\ \A k \in 0 .. i : NodeAt(t, k) = NodeAt(s, k)
      /\ \A k \in 1 .. m : NodeAt(t, i + k) = u[k]
      /\ \A k \in i + 1 .. Len(s) + 1 : NodeAt(t, k + m) = NodeAt(s, k)
      /\ NoRepetition(t)
  BY <1>0, PutNodes
<1>7. /\ \A k \in 0 .. Len(t) + 1 : NodeAt(t, k) \in Node
      /\ \A k, l \in 0 .. Len(t) + 1 : NodeAt(t, k) = NodeAt(t, l) => k = l
      /\ \A k \in 1 .. Len(t) : NodeAt(t, k) = t[k] /\ t[k] \in Block
  BY <1>0, <1>6, NodesDiffer, Zenon
<1>8. \A k \in 0 .. m + 1 : chain[k + 1] = NodeAt(t, i + k)
  <2> TAKE k \in 0 .. m + 1
  <2>1. CASE k = 0
    BY <2>1, <1>0, <1>1, <1>6
  <2>2. CASE k \in 1 .. m
    BY <2>2, <1>0, <1>1, <1>6
  <2>3. CASE k = m + 1
    <3>1. NodeAt(t, (i + 1) + m) = NodeAt(s, i + 1)
      BY <1>0, <1>6
    <3>2. (i + 1) + m = i + k /\ k + 1 = m + 2
      BY <2>3, <1>0
    <3> QED BY <3>1, <3>2, <1>1
  <2> QED BY <2>1, <2>2, <2>3, <1>0
<1>9. /\ \A k \in 0 .. m + 1 : At(NodeAt(t, i + k)) = k + 1
      /\ \A k \in 0 .. Len(t) + 1 : \A l \in 1 .. m + 2 :
            chain[l] = NodeAt(t, k) => k = i + l - 1
  <2>1. \A l \in 1 .. m + 2 : chain[l] = NodeAt(t, i + l - 1)
                              /\ i + l - 1 \in 0 .. Len(t) + 1
    <3> TAKE l \in 1 .. m + 2
    <3>1. /\ l - 1 \in 0 .. m + 1 /\ (l - 1) + 1 = l /\ i + (l - 1) = i + l - 1
          /\ i + l - 1 \in 0 .. Len(t) + 1
      BY <1>0
    <3>2. chain[(l - 1) + 1] = NodeAt(t, i + (l - 1))
      BY <3>1, <1>8
    <3> QED BY <3>1, <3>2
  <2>2. \A k \in 0 .. Len(t) + 1 : \A l \in 1 .. m + 2 :
           chain[l] = NodeAt(t, k) => k = i + l - 1
    BY <2>1, <1>7
  <2>3. ASSUME NEW k \in 0 .. m + 1 PROVE At(NodeAt(t, i + k)) = k + 1
    <3> DEFINE a == At(NodeAt(t, i + k))
    <3>1. k + 1 \in 1 .. m + 2 /\ i + k \in 0 .. Len(t) + 1
      BY <1>0
    <3>2. a \in 1 .. m + 2 /\ chain[a] = NodeAt(t, i + k)
      BY <3>1, <1>1, <1>5, <1>8
    <3> HIDE DEF a
    <3>3. i + k = i + a - 1
      BY <3>1, <3>2, <2>2
    <3>4. a = k + 1
      BY <3>2, <3>3, <1>0
    <3> QED BY <3>4 DEF a
  <2> QED BY <2>2, <2>3
\* The links inside the chain are the new ones; all others are the old ones.
<1>10. \A k \in 0 .. m : /\ next_free_block'[NodeAt(t, i + k)] = NodeAt(t, i + k + 1)
                         /\ prev_free_block'[NodeAt(t, i + k + 1)] = NodeAt(t, i + k)
  <2> TAKE k \in 0 .. m
  <2>0. Len(chain) = m + 2
    BY <1>1
  <2>1. /\ k + 1 \in 1 .. Len(chain) - 1 /\ k + 2 \in 2 .. Len(chain)
        /\ k \in 0 .. m + 1 /\ k + 1 \in 0 .. m + 1 /\ (k + 1) + 1 = k + 2
        /\ i + (k + 1) = i + k + 1 /\ k + 2 - 1 = k + 1
        /\ i + k \in 0 .. Len(t) + 1 /\ i + k + 1 \in 0 .. Len(t) + 1
    BY <1>0, <2>0
  <2>2. /\ chain[k + 1] = NodeAt(t, i + k) /\ At(NodeAt(t, i + k)) = k + 1
        /\ chain[k + 2] = NodeAt(t, i + k + 1) /\ At(NodeAt(t, i + k + 1)) = k + 2
    BY <2>1, <1>8, <1>9
  <2>3. NodeAt(t, i + k) \in Node /\ NodeAt(t, i + k + 1) \in Node
    BY <2>1, <1>7
  <2>4. next_free_block'[NodeAt(t, i + k)] = chain[At(NodeAt(t, i + k)) + 1]
    BY <2>1, <2>2, <2>3, <1>2, Zenon
  <2>5. prev_free_block'[NodeAt(t, i + k + 1)] = chain[At(NodeAt(t, i + k + 1)) - 1]
    BY <2>1, <2>2, <2>3, <1>2, ZenonT(90)
  <2> QED BY <2>1, <2>2, <2>4, <2>5
<1>11. /\ \A k \in 0 .. i - 1 \cup i + m + 1 .. Len(t) + 1 :
             next_free_block'[NodeAt(t, k)] = next_free_block[NodeAt(t, k)]
       /\ \A k \in 0 .. i \cup i + m + 2 .. Len(t) + 1 :
             prev_free_block'[NodeAt(t, k)] = prev_free_block[NodeAt(t, k)]
  <2>1. ASSUME NEW k \in 0 .. i - 1 \cup i + m + 1 .. Len(t) + 1
        PROVE  next_free_block'[NodeAt(t, k)] = next_free_block[NodeAt(t, k)]
    <3>1. k \in 0 .. Len(t) + 1 /\ (k < i \/ k > i + m)
      BY <1>0
    <3>2. \A l \in 1 .. Len(chain) - 1 : chain[l] # NodeAt(t, k)
      <4> SUFFICES ASSUME NEW l \in 1 .. Len(chain) - 1, chain[l] = NodeAt(t, k)
                   PROVE  FALSE
        OBVIOUS
      <4>1. l \in 1 .. m + 2 /\ l <= m + 1
        BY <1>0, <1>1
      <4>2. k = i + l - 1
        BY <4>1, <3>1, <1>9
      <4> QED BY <4>1, <4>2, <3>1, <1>0
    <3> QED BY <3>1, <3>2, <1>2, <1>7
  <2>2. ASSUME NEW k \in 0 .. i \cup i + m + 2 .. Len(t) + 1
        PROVE  prev_free_block'[NodeAt(t, k)] = prev_free_block[NodeAt(t, k)]
    <3>1. k \in 0 .. Len(t) + 1 /\ (k <= i \/ k > i + m + 1)
      BY <1>0
    <3>2. \A l \in 2 .. Len(chain) : chain[l] # NodeAt(t, k)
      <4> SUFFICES ASSUME NEW l \in 2 .. Len(chain), chain[l] = NodeAt(t, k)
                   PROVE  FALSE
        OBVIOUS
      <4>1. l \in 1 .. m + 2 /\ l >= 2
        BY <1>0, <1>1
      <4>2. k = i + l - 1
        BY <4>1, <3>1, <1>9
      <4> QED BY <4>1, <4>2, <3>1, <1>0
    <3> QED BY <3>1, <3>2, <1>2, <1>7
  <2> QED BY <2>1, <2>2
<1>12. ASSUME NEW k \in 0 .. Len(t)
       PROVE  /\ next_free_block'[NodeAt(t, k)] = NodeAt(t, k + 1)
              /\ prev_free_block'[NodeAt(t, k + 1)] = NodeAt(t, k)
  <2>1. CASE k < i
    <3>1. /\ k \in 0 .. i - 1 \cup i + m + 1 .. Len(t) + 1
          /\ k + 1 \in 0 .. i \cup i + m + 2 .. Len(t) + 1
          /\ k \in 0 .. i /\ k + 1 \in 0 .. i /\ k \in 0 .. Len(s)
      BY <2>1, <1>0
    <3> QED BY <3>1, <1>3, <1>6, <1>11
  <2>2. CASE k >= i /\ k <= i + m
    <3>1. PICK l \in 0 .. m : k = i + l
      BY <2>2, <1>0
    <3> QED BY <3>1, <1>10
  <2>3. CASE k > i + m
    <3>1. PICK l \in i + 1 .. Len(s) : k = l + m
      <4>1. k - m \in i + 1 .. Len(s) /\ k = (k - m) + m
        BY <2>3, <1>0
      <4> QED BY <4>1
    <3>2. /\ k \in 0 .. i - 1 \cup i + m + 1 .. Len(t) + 1
          /\ k + 1 \in 0 .. i \cup i + m + 2 .. Len(t) + 1
          /\ l \in i + 1 .. Len(s) + 1 /\ l + 1 \in i + 1 .. Len(s) + 1
          /\ k + 1 = (l + 1) + m /\ l \in 0 .. Len(s)
      BY <2>3, <3>1, <1>0
    <3>3. NodeAt(t, k) = NodeAt(s, l) /\ NodeAt(t, k + 1) = NodeAt(s, l + 1)
      BY <3>1, <3>2, <1>6
    <3> QED BY <3>2, <3>3, <1>3, <1>11, ZenonT(90)
  <2> QED BY <2>1, <2>2, <2>3, <1>0
<1>13. /\ next_free_block'[fake_free_list_tail] = None
       /\ prev_free_block'[fake_free_list_head] = None
  <2>1. /\ fake_free_list_tail = NodeAt(t, Len(t) + 1)
        /\ fake_free_list_head = NodeAt(t, 0)
    BY <1>0 DEF NodeAt
  <2>2. /\ Len(t) + 1 \in 0 .. i - 1 \cup i + m + 1 .. Len(t) + 1
        /\ 0 \in 0 .. i \cup i + m + 2 .. Len(t) + 1
    BY <1>0
  <2> QED BY <2>1, <2>2, <1>3, <1>11
<1>14. LinksFollow(order)'
  BY <1>12, <1>13 DEF LinksFollow, NodeAt, t
<1>15. OthersUnlinked(order)'
  <2>0. \A k \in 0 .. Len(t) + 1 : k \in 1 .. Len(t) \/ k = 0 \/ k = Len(t) + 1
    <3>1. Len(t) \in Nat
      BY <1>0
    <3> QED BY <3>1
  <2> SUFFICES ASSUME NEW b \in Block, \A k \in 1 .. Len(t) : t[k] # b
               PROVE  prev_free_block'[b] = None /\ next_free_block'[b] = None
    BY DEF OthersUnlinked, t
  <2>1. \A k \in 0 .. Len(t) + 1 : NodeAt(t, k) # b
    <3>1. b # fake_free_list_head /\ b # fake_free_list_tail
      BY NumGpuBlocksAssumption
         DEF Block, fake_free_list_head, fake_free_list_tail
    <3> TAKE k \in 0 .. Len(t) + 1
    <3>2. CASE k \in 1 .. Len(t)
      BY <3>2, <1>7
    <3>3. CASE k = 0 \/ k = Len(t) + 1
      BY <3>1, <3>3, <1>0 DEF NodeAt
    <3> QED BY <3>2, <3>3, <2>0
  <2>2. \A l \in 1 .. Len(chain) : chain[l] # b
    <3> TAKE l \in 1 .. Len(chain)
    <3>1. /\ l - 1 \in 0 .. m + 1 /\ (l - 1) + 1 = l
          /\ i + (l - 1) \in 0 .. Len(t) + 1
      BY <1>0, <1>1
    <3> QED BY <3>1, <2>1, <1>8
  <2>3. \A k \in 1 .. Len(s) : s[k] # b
    <3> TAKE k \in 1 .. Len(s)
    <3>1. CASE k <= i
      BY <3>1, <1>0 DEF PutIn
    <3>2. CASE k > i
      <4>1. k \in i + 1 .. Len(s) /\ k + m \in 1 .. Len(t)
        BY <3>2, <1>0
      <4> QED BY <4>1, <1>0 DEF PutIn
    <3> QED BY <3>1, <3>2, <1>0
  <2>4. /\ \A l \in 1 .. Len(chain) - 1 : chain[l] # b
        /\ \A l \in 2 .. Len(chain) : chain[l] # b
    BY <2>2, <1>0, <1>1
  <2> QED BY <2>3, <2>4, <1>2, <1>4 DEF Node
<1>16. TypeOK'
  <2>1. \A k \in 1 .. Len(chain) : chain[k] \in Node
    <3> TAKE l \in 1 .. Len(chain)
    <3>1. /\ l - 1 \in 0 .. m + 1 /\ (l - 1) + 1 = l
          /\ i + (l - 1) \in 0 .. Len(t) + 1
      BY <1>0, <1>1
    <3> QED BY <3>1, <1>7, <1>8
  <2>2. ASSUME NEW x \in Node, \E k \in 1 .. Len(chain) - 1 : chain[k] = x
        PROVE  chain[At(x) + 1] \in Node
    <3>1. PICK k \in 1 .. Len(chain) - 1 : chain[k] = x
      BY <2>2
    <3>2. k - 1 \in 0 .. m + 1 /\ (k - 1) + 1 = k /\ k + 1 \in 1 .. Len(chain)
      BY <1>0, <1>1
    <3>3. At(x) = k
      BY <3>1, <3>2, <1>8, <1>9
    <3> QED BY <3>2, <3>3, <2>1
  <2>3. ASSUME NEW x \in Node, \E k \in 2 .. Len(chain) : chain[k] = x
        PROVE  chain[At(x) - 1] \in Node
    <3>1. PICK k \in 2 .. Len(chain) : chain[k] = x
      BY <2>3
    <3>2. k - 1 \in 0 .. m + 1 /\ (k - 1) + 1 = k /\ k - 1 \in 1 .. Len(chain)
      BY <1>0, <1>1
    <3>3. At(x) = k
      BY <3>1, <3>2, <1>8, <1>9
    <3> QED BY <3>2, <3>3, <2>1
  <2>4. /\ next_free_block' \in [Node -> Node \cup {None}]
        /\ prev_free_block' \in [Node -> Node \cup {None}]
    BY <2>2, <2>3, <1>2, <1>4
  <2> QED BY <2>4, <1>0, <1>4 DEF TypeOK, t
<1> QED BY <1>4, <1>6, <1>14, <1>15, <1>16 DEF IInv, ListRepresentsOrder, t

\* At initialisation the list holds all blocks in the order of their numbers.
LEMMA InitList == Init => IInv
<1> SUFFICES ASSUME Init PROVE IInv
  OBVIOUS
<1> USE NumGpuBlocksAssumption
<1>1. /\ order \in Seq(Block) /\ Len(order) = num_gpu_blocks
      /\ \A i \in 1 .. num_gpu_blocks : order[i] = i - 1
      /\ num_free_blocks = num_gpu_blocks
  BY DEF Init, Block
<1>2. NoRepetition(order)
  BY <1>1 DEF NoRepetition
<1>3. LinksFollow(order)
  <2>1. ASSUME NEW i \in 0 .. num_gpu_blocks
        PROVE  /\ next_free_block[NodeAt(order, i)] = NodeAt(order, i + 1)
               /\ prev_free_block[NodeAt(order, i + 1)] = NodeAt(order, i)
    <3>1. CASE num_gpu_blocks = 0
      BY <1>1, <3>1 DEF Init, NodeAt, Node, Block, None,
                        fake_free_list_head, fake_free_list_tail
    <3>2. CASE num_gpu_blocks > 0 /\ i = 0
      BY <1>1, <3>2 DEF Init, NodeAt, Node, Block, None,
                        fake_free_list_head, fake_free_list_tail
    <3>3. CASE num_gpu_blocks > 0 /\ i > 0 /\ i < num_gpu_blocks
      BY <1>1, <3>3 DEF Init, NodeAt, Node, Block, None,
                        fake_free_list_head, fake_free_list_tail
    <3>4. CASE num_gpu_blocks > 0 /\ i = num_gpu_blocks
      BY <1>1, <3>4 DEF Init, NodeAt, Node, Block, None,
                        fake_free_list_head, fake_free_list_tail
    <3> QED BY <3>1, <3>2, <3>3, <3>4
  <2>2. /\ next_free_block[fake_free_list_tail] = None
        /\ prev_free_block[fake_free_list_head] = None
    BY DEF Init, Node, fake_free_list_head, fake_free_list_tail
  <2> QED BY <1>1, <2>1, <2>2 DEF LinksFollow
<1>4. OthersUnlinked(order)
  <2> SUFFICES ASSUME NEW b \in Block PROVE \E i \in 1 .. Len(order) : order[i] = b
    BY DEF OthersUnlinked
  <2>1. b + 1 \in 1 .. Len(order) /\ order[b + 1] = b
    BY <1>1 DEF Block
  <2> QED BY <2>1
<1>5. TypeOK
  BY <1>1 DEF Init, TypeOK, Node, Block, None,
              fake_free_list_head, fake_free_list_tail
<1> QED BY <1>1, <1>2, <1>3, <1>4, <1>5 DEF IInv, ListRepresentsOrder

\* Every method keeps the invariant.
LEMMA NextKeepsList == IInv /\ [Next]_vars => IInv'
<1> SUFFICES ASSUME IInv, [Next]_vars PROVE IInv'
  OBVIOUS
<1> DEFINE s == order
<1>0. /\ s \in Seq(Block) /\ Len(s) \in Nat /\ NoRepetition(s)
      /\ num_free_blocks = Len(s)
      /\ \A k \in 0 .. Len(s) :
            /\ next_free_block[NodeAt(s, k)] = NodeAt(s, k + 1)
            /\ prev_free_block[NodeAt(s, k + 1)] = NodeAt(s, k)
      /\ next_free_block[fake_free_list_tail] = None
  BY DEF IInv, TypeOK, ListRepresentsOrder, LinksFollow
<1>1. /\ \A k \in 0 .. Len(s) + 1 : NodeAt(s, k) \in Node
      /\ \A k, l \in 0 .. Len(s) + 1 : NodeAt(s, k) = NodeAt(s, l) => k = l
      /\ \A k \in 1 .. Len(s) : NodeAt(s, k) = s[k] /\ s[k] \in Block
      /\ NodeAt(s, 0) = fake_free_list_head
      /\ NodeAt(s, Len(s) + 1) = fake_free_list_tail
      /\ \A k \in 0 .. Len(s) + 1 : NodeAt(s, k) # None
  <2>1. NodeAt(s, 0) = fake_free_list_head
        /\ NodeAt(s, Len(s) + 1) = fake_free_list_tail
    BY <1>0 DEF NodeAt
  <2>2. \A x \in Node : x # None
    BY NumGpuBlocksAssumption
       DEF Node, Block, None, fake_free_list_head, fake_free_list_tail
  <2> QED BY <1>0, <2>1, <2>2, NodesDiffer
<1>2. CASE popleft
  <2>1. Len(s) > 0
    BY <1>0, <1>1, <1>2 DEF popleft
  <2>2. /\ next_free_block[fake_free_list_head] = NodeAt(s, 1)
        /\ next_free_block[NodeAt(s, 1)] = NodeAt(s, 2)
    <3>1. 0 \in 0 .. Len(s) /\ 1 \in 0 .. Len(s) /\ 0 + 1 = 1 /\ 1 + 1 = 2
      BY <1>0, <2>1
    <3> QED BY <3>1, <1>0, <1>1
  <2>3. {NodeAt(s, k) : k \in 0 + 1 .. 0 + 1} = {NodeAt(s, 1)}
    <3>1. 0 + 1 .. 0 + 1 = {1}
      OBVIOUS
    <3> QED BY <3>1
  <2>4. Unlink(NodeAt(s, 0), NodeAt(s, 0 + 1 + 1),
               {NodeAt(s, k) : k \in 0 + 1 .. 0 + 1})
    <3>1. Unlink(fake_free_list_head, NodeAt(s, 2), {NodeAt(s, 1)})
      BY <1>2, <2>2 DEF popleft
    <3>2. 0 + 1 + 1 = 2
      OBVIOUS
    <3> QED BY <3>1, <3>2, <1>1, <2>3, Zenon
  <2>5. order' \in Seq(Block) /\ CutOut(order, 0, 1, order')
    <3>1. order' = Tail(order) /\ order # <<>>
      BY <1>0, <1>2, <2>1 DEF popleft
    <3>2. /\ Tail(order) \in Seq(Block) /\ Len(Tail(order)) = Len(order) - 1
          /\ \A k \in 1 .. Len(order) - 1 : Tail(order)[k] = order[k + 1]
      BY <1>0, <2>1
    <3> QED BY <3>1, <3>2, <1>0, <2>1 DEF CutOut
  <2>6. num_free_blocks' = num_free_blocks - 1
    BY <1>2 DEF popleft
  <2> QED BY <2>4, <2>5, <2>6, UnlinkKeepsList, Zenon
<1>3. ASSUME NEW n \in 1 .. num_gpu_blocks, popleft_n(n) PROVE IInv'
  <2>1. n \in Nat /\ n >= 1 /\ n <= Len(s)
    BY <1>0, <1>3, NumGpuBlocksAssumption DEF popleft_n
  <2>2. PICK ret \in [1 .. n -> Node] :
           /\ Visited(ret, n)
           /\ LET curr_block == next_free_block[ret[n]]
                  popped == {ret[i] : i \in 1 .. n}
              IN  IF curr_block # None
                  THEN Unlink(fake_free_list_head, curr_block, popped)
                  ELSE Unlink(None, None, popped)
    BY <1>3, Zenon DEF popleft_n
  <2>3. \A i \in 1 .. n : ret[i] = NodeAt(s, i)
    <3> DEFINE bad == {i \in 1 .. n : ret[i] # NodeAt(s, i)}
    <3> SUFFICES ASSUME bad # {} PROVE FALSE
      OBVIOUS
    <3>1. PICK i \in bad : \A k \in bad : i <= k
      <4>1. bad \in SUBSET Nat
        BY <2>1
      <4>2. \A x, y \in Nat : y < x => <<y, x>> \in OpToRel(<, Nat)
        BY DEF OpToRel
      <4> HIDE DEF bad
      <4>3. PICK i \in bad : \A k \in bad : ~ (<<k, i>> \in OpToRel(<, Nat))
        BY ZenonT(90), <4>1, WFMin, NatLessThanWellFounded
      <4>4. \A k \in bad : ~ (k < i)
        BY ZenonT(90), <4>1, <4>2, <4>3
      <4> QED BY <4>1, <4>4
    <3>2. i # 1
      BY <1>0, <1>1, <2>1, <2>2 DEF Visited
    <3>3. i - 1 \in 1 .. n /\ i - 1 \notin bad
      BY <3>1, <3>2, <2>1
    <3>4. ret[i - 1] = NodeAt(s, i - 1)
      BY <3>3
    <3>5. i - 1 \in 1 .. n - 1 /\ i - 1 \in 0 .. Len(s) /\ (i - 1) + 1 = i
      BY <3>3, <2>1, <1>0
    <3>6. ret[i] = next_free_block[ret[i - 1]]
      BY <3>5, <2>2 DEF Visited
    <3> QED BY <3>4, <3>5, <3>6, <1>0
  <2>4. next_free_block[ret[n]] = NodeAt(s, n + 1) /\ NodeAt(s, n + 1) # None
    <3>1. n \in 0 .. Len(s) /\ n \in 1 .. n /\ n + 1 \in 0 .. Len(s) + 1
      BY <2>1, <1>0
    <3> QED BY <3>1, <2>3, <1>0, <1>1
  <2>5. {ret[i] : i \in 1 .. n} = {NodeAt(s, k) : k \in 0 + 1 .. 0 + n}
    <3>1. 0 + 1 .. 0 + n = 1 .. n
      BY <2>1
    <3> QED BY <2>3, <3>1
  <2>6. Unlink(NodeAt(s, 0), NodeAt(s, 0 + n + 1),
               {NodeAt(s, k) : k \in 0 + 1 .. 0 + n})
    <3>1. Unlink(fake_free_list_head, NodeAt(s, n + 1), {ret[i] : i \in 1 .. n})
      BY <2>2, <2>4, Zenon
    <3>2. 0 + n + 1 = n + 1
      BY <2>1
    <3> QED BY <3>1, <3>2, <2>5, <1>1, Zenon
  <2>7. order' \in Seq(Block) /\ CutOut(order, 0, n, order')
    <3>1. order' = SubSeq(order, n + 1, Len(order))
      BY <1>3 DEF popleft_n
    <3> QED BY <3>1, <1>0, <2>1, CutFront
  <2>8. num_free_blocks' = num_free_blocks - n
    BY <1>3 DEF popleft_n
  <2> QED BY <2>1, <2>6, <2>7, <2>8, UnlinkKeepsList
<1>4. ASSUME NEW b \in Block, remove(b) PROVE IInv'
  <2>1. PICK i \in 1 .. Len(order) :
           /\ order[i] = b
           /\ order' = SubSeq(order, 1, i - 1) \o SubSeq(order, i + 1, Len(order))
    BY <1>4, Zenon DEF remove
  <2>2. PICK h \in Nat : i = h + 1 /\ h + 1 <= Len(s)
    <3>1. i - 1 \in Nat /\ i = (i - 1) + 1
      BY <1>0
    <3> QED BY <3>1, <1>0
  <2>3. /\ b = NodeAt(s, h + 1)
        /\ prev_free_block[b] = NodeAt(s, h) /\ next_free_block[b] = NodeAt(s, h + 1 + 1)
    <3>1. h \in 0 .. Len(s) /\ h + 1 \in 0 .. Len(s) /\ h + 1 \in 1 .. Len(s)
      BY <2>2, <1>0
    <3>2. b = NodeAt(s, h + 1)
      BY <2>1, <2>2, <3>1, <1>1
    <3> QED BY <3>1, <3>2, <1>0
  <2>4. {NodeAt(s, k) : k \in h + 1 .. h + 1} = {b}
    <3>1. h + 1 .. h + 1 = {h + 1}
      OBVIOUS
    <3> QED BY <3>1, <2>3
  <2>5. Unlink(NodeAt(s, h), NodeAt(s, h + 1 + 1),
               {NodeAt(s, k) : k \in h + 1 .. h + 1})
    <3>1. Unlink(NodeAt(s, h), NodeAt(s, h + 1 + 1), {b})
      BY <1>4, <2>3 DEF remove
    <3> QED BY <3>1, <2>4, Zenon
  <2>6. order' \in Seq(Block) /\ CutOut(order, h, 1, order')
    <3> DEFINE u == SubSeq(order, 1, i - 1)
               v == SubSeq(order, i + 1, Len(order))
    <3>1. /\ u \in Seq(Block) /\ Len(u) = h /\ \A k \in 1 .. h : u[k] = order[k]
          /\ v \in Seq(Block) /\ Len(v) = Len(order) - i
          /\ \A k \in 1 .. Len(order) - i : v[k] = order[k + i]
      <4> HIDE DEF IInv
      <4>1. /\ Len(order) \in Nat /\ order \in Seq(Block) /\ h = i - 1
            /\ i \in 1 .. Len(order)
        BY <1>0, <2>2
      <4>2. u \in Seq(Block) /\ Len(u) = h /\ \A k \in 1 .. h : u[k] = order[k]
        BY <4>1
      <4>3. v \in Seq(Block) /\ Len(v) = Len(order) - i
        BY <4>1
      <4>4. \A k \in 1 .. Len(order) - i : v[k] = order[k + i]
        BY <4>1
      <4> QED BY <4>2, <4>3, <4>4
    <3>2. order' = u \o v
      BY <2>1
    <3> HIDE DEF u, v
    <3>3. order' \in Seq(Block) /\ Len(order') = Len(order) - 1
      BY <3>1, <3>2, <1>0, <2>2
    <3>4. ASSUME NEW k \in 1 .. h PROVE order'[k] = order[k]
      BY <3>1, <3>2, <1>0, <2>2
    <3>5. ASSUME NEW k \in h + 1 .. Len(order') PROVE order'[k] = order[k + 1]
      <4>1. k - h \in 1 .. Len(order) - i /\ (k - h) + i = k + 1
        BY <3>3, <1>0, <2>2
      <4>2. order'[k] = v[k - h]
        BY <3>1, <3>2, <3>3, <1>0, <2>2
      <4> QED BY <4>1, <4>2, <3>1, Zenon
    <3>6. h + 1 <= Len(order)
      BY <2>2
    <3> QED BY <3>3, <3>4, <3>5, <3>6 DEF CutOut
  <2>7. num_free_blocks' = num_free_blocks - 1
    BY <1>4 DEF remove
  <2> QED BY <2>5, <2>6, <2>7, UnlinkKeepsList, Zenon
<1>5. ASSUME NEW u \in Seq(Block), NoRepetition(u),
             \A k \in 1 .. Len(u) : ~ Linked(u[k])
      PROVE  Apart(order, u)
  <2> SUFFICES ASSUME NEW k \in 1 .. Len(s), NEW l \in 1 .. Len(u), s[k] = u[l]
               PROVE  FALSE
    BY DEF Apart
  <2>1. /\ k \in 0 .. Len(s) + 1 /\ k + 1 \in 0 .. Len(s) + 1 /\ k \in 0 .. Len(s)
        /\ k - 1 \in 0 .. Len(s) + 1 /\ k - 1 \in 0 .. Len(s) /\ (k - 1) + 1 = k
    BY <1>0
  <2>2. /\ next_free_block[NodeAt(s, k)] = NodeAt(s, k + 1)
        /\ prev_free_block[NodeAt(s, k)] = NodeAt(s, k - 1)
    BY <2>1, <1>0
  <2>3. Linked(s[k])
    BY <2>1, <2>2, <1>1 DEF Linked
  <2> QED BY <2>3, <1>5
<1>6. ASSUME NEW u \in Seq(Block), NoRepetition(u),
             \A k \in 1 .. Len(u) : ~ Linked(u[k]), append_n(u)
      PROVE  IInv'
  <2>1. Apart(order, u)
    BY <1>5, <1>6
  <2>2. prev_free_block[fake_free_list_tail] = NodeAt(s, Len(s))
    BY <1>0, <1>1
  <2>3. Link(<<NodeAt(s, Len(s))>> \o u \o <<NodeAt(s, Len(s) + 1)>>)
    BY <1>6, <1>1, <2>2 DEF append_n
  <2>4. order' \in Seq(Block) /\ PutIn(order, Len(s), u, order')
    <3>1. order' = order \o u
      BY <1>6 DEF append_n
    <3>2. order' \in Seq(Block) /\ Len(order') = Len(order) + Len(u)
      BY <3>1, <1>0
    <3>3. \A k \in 1 .. Len(order) : order'[k] = order[k]
      BY <3>1, <1>0
    <3>4. \A k \in 1 .. Len(u) : order'[Len(order) + k] = u[k]
      BY <3>1, <1>0
    <3>5. Len(s) + 1 .. Len(s) = {}
      BY <1>0
    <3> QED BY <3>2, <3>3, <3>4, <3>5, <1>0 DEF PutIn
  <2>5. num_free_blocks' = num_free_blocks + Len(u)
    BY <1>6 DEF append_n
  <2> QED BY <1>0, <1>6, <2>1, <2>3, <2>4, <2>5, LinkKeepsList
<1>7. ASSUME NEW u \in Seq(Block), NoRepetition(u),
             \A k \in 1 .. Len(u) : ~ Linked(u[k]), prepend_n(u)
      PROVE  IInv'
  <2>1. Apart(order, u)
    BY <1>5, <1>7
  <2>2. next_free_block[fake_free_list_head] = NodeAt(s, 0 + 1)
    BY <1>0, <1>1
  <2>3. Link(<<NodeAt(s, 0)>> \o u \o <<NodeAt(s, 0 + 1)>>)
    BY <1>7, <1>1, <2>2 DEF prepend_n
  <2>4. order' \in Seq(Block) /\ PutIn(order, 0, u, order')
    <3>1. order' = u \o order
      BY <1>7 DEF prepend_n
    <3>2. order' \in Seq(Block) /\ Len(order') = Len(order) + Len(u)
      BY <3>1, <1>0
    <3>3. \A k \in 1 .. Len(u) : order'[0 + k] = u[k]
      BY <3>1, <1>0
    <3>4. \A k \in 1 .. Len(order) : order'[k + Len(u)] = order[k]
      BY <3>1, <1>0
    <3>5. 1 .. 0 = {} /\ 0 + 1 .. Len(order) = 1 .. Len(order)
      BY <1>0
    <3> QED BY <3>2, <3>3, <3>4, <3>5, <1>0 DEF PutIn
  <2>5. num_free_blocks' = num_free_blocks + Len(u)
    BY <1>7 DEF prepend_n
  <2> QED BY <1>0, <1>7, <2>1, <2>3, <2>4, <2>5, LinkKeepsList
<1>8. \A u \in Returnable : /\ u \in Seq(Block) /\ NoRepetition(u)
                            /\ \A k \in 1 .. Len(u) : ~ Linked(u[k])
  <2>1. \A u \in BlockList : u \in Seq(Block)
    BY NumGpuBlocksAssumption DEF BlockList
  <2> QED BY <2>1 DEF Returnable
<1>9. ASSUME NEW b \in Block, ~ Linked(b), append(b) PROVE IInv'
  <2>1. /\ <<b>> \in Seq(Block) /\ NoRepetition(<<b>>)
        /\ \A k \in 1 .. Len(<<b>>) : ~ Linked(<<b>>[k])
    BY <1>9 DEF NoRepetition
  <2> QED BY <2>1, <1>6, <1>9, Zenon DEF append
<1>10. CASE UNCHANGED vars
  BY <1>10 DEF vars, IInv, TypeOK, ListRepresentsOrder, LinksFollow,
               OthersUnlinked, NodeAt, NoRepetition
<1> QED BY <1>2, <1>3, <1>4, <1>6, <1>7, <1>8, <1>9, <1>10 DEF Next

\* Whatever methods are called, the links of FreeKVCacheBlockQueue represent
\* the sequence of free blocks, for every number of blocks (and the state is
\* type correct).
THEOREM ListCorrect == Spec => [](TypeOK /\ ListRepresentsOrder)
<1>1. Init => IInv
  BY InitList
<1>2. IInv /\ [Next]_vars => IInv'
  BY NextKeepsList
<1> QED BY <1>1, <1>2, PTL DEF Spec, IInv
=============================================================================
