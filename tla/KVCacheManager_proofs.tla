---------------------- MODULE KVCacheManager_proofs ----------------------
(***************************************************************************)
(* What the operations of the manager keep: the reference counts of the    *)
(* pool are the numbers of block-table entries that name the blocks, for   *)
(* every number of blocks, every configuration of groups and every set of  *)
(* requests.                                                               *)
(***************************************************************************)
EXTENDS KVCacheManager, BlockPool_proofs, FiniteSetTheorems, TLAPS

\* The provers of the leaves that name none, in the order they are tried.
USE SMTT(90), ZenonT(20), SMTT(91), SMTT(92)

\* Division of naturals.
LEMMA DivMod ==
  ASSUME NEW a \in Nat, NEW b \in Nat \ {0}
  PROVE  /\ a \div b \in Nat /\ a % b \in 0 .. b - 1
         /\ a = b * (a \div b) + (a % b)
OBVIOUS

\* The quotient is the only one with a remainder below the divisor.
LEMMA DivIs ==
  ASSUME NEW b \in Nat \ {0}, NEW q \in Nat, NEW x \in 0 .. b - 1
  PROVE  (b * q + x) \div b = q
OBVIOUS

\* Whole blocks of n tokens fit into n tokens.
LEMMA BlocksWithin ==
  ASSUME NEW n \in Nat, NEW b \in Nat \ {0}, NEW i \in 0 .. n \div b
  PROVE  i * b \in 0 .. n
OBVIOUS

\* cdiv, which tells how many blocks some tokens need, counts whole blocks exactly.
LEMMA CdivWhole ==
  ASSUME NEW b \in Nat \ {0}, NEW i \in Nat
  PROVE  cdiv(i * b, b) = i
BY DEF cdiv

\* A block that is begun counts as one more.
LEMMA CdivBegun ==
  ASSUME NEW n \in Nat, NEW b \in Nat \ {0}, n % b # 0
  PROVE  cdiv(n, b) = (n \div b) + 1
BY DEF cdiv

\* The blocks for n tokens include the full blocks of fewer tokens.
LEMMA CdivCovers ==
  ASSUME NEW n \in Nat, NEW t \in Nat, t <= n, NEW b \in Nat \ {0}
  PROVE  cdiv(n, b) \in Nat /\ t \div b <= cdiv(n, b)
BY DEF cdiv

-----------------------------------------------------------------------------
(***************************************************************************)
(* The invariant of the manager.  A block is named by the tables of one    *)
(* group, at one index, and that is the place its keys say: this is why a  *)
(* hit never names a block twice.                                          *)
(***************************************************************************)
TableBlock == Block \cup {null_block}

Manager == [pool : Pool,
            req_to_blocks : [Group -> [Request -> Seq(TableBlock)]],
            num_cached_block : [Group -> [Request -> Int]],
            raised : BOOLEAN]

Place(k) == <<k[1], cdiv(NumTokens[k], BlockSize(k[1]))>>
Places(m, b) == {<<e[1], e[3]>> : e \in Entries(m.req_to_blocks, b)}
                  \cup {Place(k) : k \in HashesOf(m.pool, b)}

Counted(m) ==
  \A b \in Block : /\ IsFiniteSet(Entries(m.req_to_blocks, b))
                   /\ m.pool.ref_cnt[b] = Cardinality(Entries(m.req_to_blocks, b))

OnePlace(m) == \A b \in Block : \A x, y \in Places(m, b) : x = y

ManagerOK(m) ==
  /\ m \in Manager /\ PoolOK(m.pool)
  /\ Counted(m) /\ OnePlace(m)
  /\ \A g \in Group, r \in Request : ~ Windowed(g) => m.req_to_blocks[g][r] \in Seq(Block)
  /\ ~ enable_caching => \A b \in Block : HashesOf(m.pool, b) = {}

\* The tables of request r are empty.
NoTables(m, r) == \A g \in Group : m.req_to_blocks[g][r] = <<>>

\* Induction over the groups.
LEMMA GroupInduction ==
  ASSUME NEW n \in Nat, NEW S, 0 \in S, \A i \in 1 .. n : i - 1 \in S => i \in S
  PROVE  n \in S
<1> DEFINE bad == {i \in 0 .. n : i \notin S}
<1>1. bad \in SUBSET Nat
  OBVIOUS
<1>2. ASSUME bad # {} PROVE FALSE
  <2>1. PICK i \in bad : \A j \in bad : i <= j
    <3> HIDE DEF bad
    <3> QED BY <1>1, <1>2, LeastNatural
  <2>2. i \in 1 .. n /\ i - 1 \in 0 .. n /\ ~ (i <= i - 1)
    <3>1. i \in 0 .. n /\ i \notin S
      OBVIOUS
    <3> QED BY <3>1
  <2>3. i - 1 \in S
    BY <2>1, <2>2
  <2> QED BY <2>2, <2>3
<1> QED BY <1>2

\* The constants of a group.
LEMMA GroupIs ==
  ASSUME NEW g \in Group
  PROVE  /\ BlockSize(g) \in Nat \ {0} /\ SlidingWindow(g) \in Nat
         /\ Windowed(g) <=> SlidingWindow(g) > 0
BY KVAssumption DEF Windowed

-----------------------------------------------------------------------------
(***************************************************************************)
(* The methods of the coordinator: a function that solves the equation of  *)
(* ForGroups exists, for each of the operations that go over the groups.   *)
(* They are named by op here, as a lemma cannot be about all operators.    *)
(***************************************************************************)
\* The equation of run in SlidingWindowHit.
RunBody(p, g, r, n, i, next) ==
  IF /\ i < n
     /\ Cached(p, g, r, i)
     /\ next > 0 \/ ((i + 1) * BlockSize(g)) % scheduler_block_size = 0
  THEN next + 1 ELSE 0

StepOf(op, n, g, r, a) ==
  CASE op = "remove" -> remove_skipped_of_group(n, g, r, a)
    [] op = "add" -> add_local_computed_blocks(n, g, r, a[1][g], a[2])
    [] op = "external" -> allocate_external_computed_blocks(n, g, r, a[1], a[2])
    [] op = "allocate" -> allocate_blocks_of_group(n, g, r, a)
    [] op = "cache" -> cache_blocks_of_group(n, g, r, a)
    [] op = "free" -> free_of_group(n, g, r)
    [] op = "hit" -> GroupHit(a, g, r, n)
    [] op = "run" -> RunBody(a[1], a[2], r, a[3], a[3] - g, n)

Iterates(f, op, m, r, a, n) ==
  f = [i \in 0 .. n |-> IF i = 0 THEN m ELSE StepOf(op, f[i - 1], i, r, a)]

\* The function of ForGroups, for the first n groups.
LEMMA IteratesExists ==
  ASSUME NEW op, NEW m, NEW r, NEW a, NEW n \in Nat
  PROVE  \E f : Iterates(f, op, m, r, a, n)
<1> DEFINE S == {i \in Nat : \E f : Iterates(f, op, m, r, a, i)}
<1>1. 0 \in S
  <2> DEFINE f == [i \in 0 .. 0 |-> m]
  <2>1. Iterates(f, op, m, r, a, 0)
    BY DEF Iterates
  <2> QED BY <2>1
<1>2. ASSUME NEW i \in 1 .. n, i - 1 \in S PROVE i \in S
  <2>1. i \in Nat /\ i - 1 \in Nat /\ i # 0
    OBVIOUS
  <2>2. PICK f : Iterates(f, op, m, r, a, i - 1)
    BY <1>2
  <2> DEFINE body(x) == IF x = 0 THEN m ELSE StepOf(op, f[x - 1], x, r, a)
             h == [x \in 0 .. i |-> body(x)]
  <2>3. ASSUME NEW x \in 0 .. i - 1 PROVE f[x] = body(x) /\ h[x] = body(x)
    BY <2>1, <2>2 DEF Iterates
  <2>4. ASSUME NEW x \in 0 .. i
        PROVE  h[x] = IF x = 0 THEN m ELSE StepOf(op, h[x - 1], x, r, a)
    <3>1. h[x] = body(x)
      OBVIOUS
    <3>2. CASE x = 0
      BY <3>1, <3>2
    <3>3. CASE x # 0
      <4>1. x - 1 \in 0 .. i - 1
        BY <2>1, <3>3
      <4>2. h[x - 1] = f[x - 1]
        BY ZenonT(90), <2>3, <4>1
      <4> QED BY <3>1, <3>3, <4>2
    <3> QED BY <3>2, <3>3
  <2>5. Iterates(h, op, m, r, a, i)
    <3>1. h = [x \in 0 .. i |-> h[x]]
      OBVIOUS
    <3> HIDE DEF h
    <3> QED BY <2>4, <3>1 DEF Iterates
  <2> QED BY <2>1, <2>5
<1> HIDE DEF S
<1>3. n \in S
  BY <1>1, <1>2, GroupInduction
<1> QED BY <1>3 DEF S

\* What an operation over the groups returns: f[i] is the state after i groups.
Runs(f, op, m, r, a, result) ==
  /\ f[0] = m /\ result = f[Len(Groups)]
  /\ \A i \in 1 .. Len(Groups) : f[i] = StepOf(op, f[i - 1], i, r, a)

\* The solution gives the states after each group.
LEMMA RunsFrom ==
  ASSUME NEW op, NEW m, NEW r, NEW a, NEW f, Iterates(f, op, m, r, a, Len(Groups)),
         NEW result, result = f[Len(Groups)]
  PROVE  Runs(f, op, m, r, a, result)
<1>1. Len(Groups) \in Nat
  BY KVAssumption
<1>2. \A i \in 0 .. Len(Groups) : f[i] = IF i = 0 THEN m ELSE StepOf(op, f[i - 1], i, r, a)
  BY DEF Iterates
<1> QED BY <1>1, <1>2 DEF Runs

\* remove_skipped_blocks goes over the groups.
LEMMA RemoveRuns ==
  ASSUME NEW m, NEW r, NEW a
  PROVE  \E f : Runs(f, "remove", m, r, a, remove_skipped_blocks(m, r, a))
<1> DEFINE N == Len(Groups)
           Eq(f) == f = [i \in 0 .. N |-> IF i = 0 THEN m
                                          ELSE remove_skipped_of_group(f[i - 1], i, r, a)]
           h == CHOOSE f : Eq(f)
<1>1. \A f : Iterates(f, "remove", m, r, a, N) <=> Eq(f)
  BY DEF Iterates, StepOf
<1>2. remove_skipped_blocks(m, r, a) = h[N]
  BY DEF remove_skipped_blocks, ForGroups
<1>3. Eq(h)
  <2>1. \E f : Eq(f)
    BY ZenonT(90), <1>1, IteratesExists, KVAssumption
  <2> HIDE DEF Eq
  <2> QED BY <2>1
<1> HIDE DEF Eq, h
<1> QED BY <1>1, <1>2, <1>3, RunsFrom

AddAll(m, r, hits, total) ==
  ForGroups(m, LAMBDA n, g : add_local_computed_blocks(n, g, r, hits[g], total))

\* The first phase of allocate_new_computed_blocks goes over the groups.
LEMMA AddRuns ==
  ASSUME NEW m, NEW r, NEW hits, NEW total
  PROVE  \E f : Runs(f, "add", m, r, <<hits, total>>, AddAll(m, r, hits, total))
<1> DEFINE N == Len(Groups)
           Eq(f) == f = [i \in 0 .. N |-> IF i = 0 THEN m
                                          ELSE add_local_computed_blocks(f[i - 1], i, r, hits[i], total)]
           h == CHOOSE f : Eq(f)
<1>1. \A f : Iterates(f, "add", m, r, <<hits, total>>, N) <=> Eq(f)
  BY DEF Iterates, StepOf
<1>2. AddAll(m, r, hits, total) = h[N]
  BY DEF AddAll, ForGroups
<1>3. Eq(h)
  <2>1. \E f : Eq(f)
    BY ZenonT(90), <1>1, IteratesExists, KVAssumption
  <2> HIDE DEF Eq
  <2> QED BY <2>1
<1> HIDE DEF Eq, h
<1> QED BY <1>1, <1>2, <1>3, RunsFrom

ExternalAll(m, r, total, external) ==
  ForGroups(m, LAMBDA n, g : allocate_external_computed_blocks(n, g, r, total, external))

\* The second phase of allocate_new_computed_blocks goes over the groups.
LEMMA ExternalRuns ==
  ASSUME NEW m, NEW r, NEW total, NEW external
  PROVE  \E f : Runs(f, "external", m, r, <<total, external>>, ExternalAll(m, r, total, external))
<1> DEFINE N == Len(Groups)
           Eq(f) == f = [i \in 0 .. N |-> IF i = 0 THEN m
                                          ELSE allocate_external_computed_blocks(f[i - 1], i, r, total, external)]
           h == CHOOSE f : Eq(f)
<1>1. \A f : Iterates(f, "external", m, r, <<total, external>>, N) <=> Eq(f)
  BY DEF Iterates, StepOf
<1>2. ExternalAll(m, r, total, external) = h[N]
  BY DEF ExternalAll, ForGroups
<1>3. Eq(h)
  <2>1. \E f : Eq(f)
    BY ZenonT(90), <1>1, IteratesExists, KVAssumption
  <2> HIDE DEF Eq
  <2> QED BY <2>1
<1> HIDE DEF Eq, h
<1> QED BY <1>1, <1>2, <1>3, RunsFrom

\* allocate_new_blocks goes over the groups.
LEMMA AllocateRuns ==
  ASSUME NEW m, NEW r, NEW a
  PROVE  \E f : Runs(f, "allocate", m, r, a, allocate_new_blocks(m, r, a))
<1> DEFINE N == Len(Groups)
           Eq(f) == f = [i \in 0 .. N |-> IF i = 0 THEN m
                                          ELSE allocate_blocks_of_group(f[i - 1], i, r, a)]
           h == CHOOSE f : Eq(f)
<1>1. \A f : Iterates(f, "allocate", m, r, a, N) <=> Eq(f)
  BY DEF Iterates, StepOf
<1>2. allocate_new_blocks(m, r, a) = h[N]
  BY DEF allocate_new_blocks, ForGroups
<1>3. Eq(h)
  <2>1. \E f : Eq(f)
    BY ZenonT(90), <1>1, IteratesExists, KVAssumption
  <2> HIDE DEF Eq
  <2> QED BY <2>1
<1> HIDE DEF Eq, h
<1> QED BY <1>1, <1>2, <1>3, RunsFrom

CacheAll(m, r, a) ==
  ForGroups(m, LAMBDA n, g : cache_blocks_of_group(n, g, r, a))

\* cache_blocks goes over the groups.
LEMMA CacheRuns ==
  ASSUME NEW m, NEW r, NEW a
  PROVE  \E f : Runs(f, "cache", m, r, a, CacheAll(m, r, a))
<1> DEFINE N == Len(Groups)
           Eq(f) == f = [i \in 0 .. N |-> IF i = 0 THEN m
                                          ELSE cache_blocks_of_group(f[i - 1], i, r, a)]
           h == CHOOSE f : Eq(f)
<1>1. \A f : Iterates(f, "cache", m, r, a, N) <=> Eq(f)
  BY DEF Iterates, StepOf
<1>2. CacheAll(m, r, a) = h[N]
  BY DEF CacheAll, ForGroups
<1>3. Eq(h)
  <2>1. \E f : Eq(f)
    BY ZenonT(90), <1>1, IteratesExists, KVAssumption
  <2> HIDE DEF Eq
  <2> QED BY <2>1
<1> HIDE DEF Eq, h
<1> QED BY <1>1, <1>2, <1>3, RunsFrom

\* free goes over the groups.
LEMMA FreeRuns ==
  ASSUME NEW m, NEW r
  PROVE  \E f : Runs(f, "free", m, r, 0, free(m, r))
<1> DEFINE N == Len(Groups)
           Eq(f) == f = [i \in 0 .. N |-> IF i = 0 THEN m
                                          ELSE free_of_group(f[i - 1], i, r)]
           h == CHOOSE f : Eq(f)
<1>1. \A f : Iterates(f, "free", m, r, 0, N) <=> Eq(f)
  BY DEF Iterates, StepOf
<1>2. free(m, r) = h[N]
  BY DEF free, ForGroups
<1>3. Eq(h)
  <2>1. \E f : Eq(f)
    BY ZenonT(90), <1>1, IteratesExists, KVAssumption
  <2> HIDE DEF Eq
  <2> QED BY <2>1
<1> HIDE DEF Eq, h
<1> QED BY <1>1, <1>2, <1>3, RunsFrom

HitAll(m, r, p) ==
  ForGroups(m, LAMBDA left, g : GroupHit(p, g, r, left))

\* A pass of find_longest_cache_hit goes over the groups.
LEMMA HitRuns ==
  ASSUME NEW m, NEW r, NEW p
  PROVE  \E f : Runs(f, "hit", m, r, p, HitAll(m, r, p))
<1> DEFINE N == Len(Groups)
           Eq(f) == f = [i \in 0 .. N |-> IF i = 0 THEN m
                                          ELSE GroupHit(p, i, r, f[i - 1])]
           h == CHOOSE f : Eq(f)
<1>1. \A f : Iterates(f, "hit", m, r, p, N) <=> Eq(f)
  BY DEF Iterates, StepOf
<1>2. HitAll(m, r, p) = h[N]
  BY DEF HitAll, ForGroups
<1>3. Eq(h)
  <2>1. \E f : Eq(f)
    BY ZenonT(90), <1>1, IteratesExists, KVAssumption
  <2> HIDE DEF Eq
  <2> QED BY <2>1
<1> HIDE DEF Eq, h
<1> QED BY <1>1, <1>2, <1>3, RunsFrom

\* The groups are numbered from 1.
LEMMA GroupsAre == Len(Groups) \in Nat /\ Group = 1 .. Len(Groups)
BY KVAssumption

-----------------------------------------------------------------------------
(***************************************************************************)
(* The methods of a single-type manager.                                   *)
(***************************************************************************)
\* The table of a request in a group, and the entries that name a block.
Table(m, g, r) == m.req_to_blocks[g][r]
Named(m, b) == Entries(m.req_to_blocks, b)
RefCnt(m, b) == m.pool.ref_cnt[b]
KeysOfBlock(m, b) == HashesOf(m.pool, b)

\* Only the table of request r in group g has changed.
OneTable(m, n, g, r) ==
  \A h \in Group, q \in Request : <<h, q>> # <<g, r>> => Table(n, h, q) = Table(m, h, q)

\* What an entry is.
LEMMA EntryIs ==
  ASSUME NEW m, NEW b, NEW e
  PROVE  e \in Named(m, b) <=>
           \E h \in Group, q \in Request : \E i \in Naming(Table(m, h, q), b) : e = <<h, q, i>>
<1> DEFINE part(h, q) == {<<h, q, i>> : i \in Naming(Table(m, h, q), b)}
           parts == {part(h, q) : h \in Group, q \in Request}
<1>1. Named(m, b) = UNION parts
  BY DEF Named, Entries, Table
<1>2. \A h, q : e \in part(h, q) <=> \E i \in Naming(Table(m, h, q), b) : e = <<h, q, i>>
  OBVIOUS
<1> HIDE DEF part
<1>3. e \in UNION parts <=> \E h \in Group, q \in Request : e \in part(h, q)
  OBVIOUS
<1> HIDE DEF parts
<1> QED BY <1>1, <1>2, <1>3

\* The entries of a block after one table has changed.
LEMMA EntriesAfter ==
  ASSUME NEW m, NEW n, NEW g \in Group, NEW r \in Request, OneTable(m, n, g, r),
         NEW b, NEW e
  PROVE  e \in Named(n, b) <=>
           \/ \E i \in Naming(Table(n, g, r), b) : e = <<g, r, i>>
           \/ e \in Named(m, b) /\ ~ \E i \in Naming(Table(m, g, r), b) : e = <<g, r, i>>
<1>1. e \in Named(m, b) <=>
        \E h \in Group, q \in Request : \E i \in Naming(Table(m, h, q), b) : e = <<h, q, i>>
  BY EntryIs
<1>2. e \in Named(n, b) <=>
        \E h \in Group, q \in Request : \E i \in Naming(Table(n, h, q), b) : e = <<h, q, i>>
  BY EntryIs
<1>3. \A h \in Group, q \in Request :
        <<h, q>> # <<g, r>> => Naming(Table(n, h, q), b) = Naming(Table(m, h, q), b)
  BY DEF OneTable
<1> QED BY <1>1, <1>2, <1>3

\* A table names a block at most once, and a named block is referenced.
LEMMA NamedOnce ==
  ASSUME NEW m, ManagerOK(m), NEW g \in Group, NEW r \in Request, NEW b \in Block
  PROVE  /\ \A i, j \in Naming(Table(m, g, r), b) : i = j
         /\ \A i \in Naming(Table(m, g, r), b) : <<g, i>> \in Places(m, b)
         /\ RefCnt(m, b) \in Nat
         /\ RefCnt(m, b) = 0 => Named(m, b) = {}
         /\ Named(m, b) = {} => Naming(Table(m, g, r), b) = {}
<1> DEFINE named == Naming(Table(m, g, r), b)
<1>1. ASSUME NEW i \in named PROVE <<g, r, i>> \in Named(m, b) /\ <<g, i>> \in Places(m, b)
  <2>1. <<g, r, i>> \in Named(m, b)
    BY EntryIs
  <2>2. <<g, i>> = <<<<g, r, i>>[1], <<g, r, i>>[3]>>
    OBVIOUS
  <2> QED BY <2>1, <2>2 DEF Places, Named
<1>2. \A x, y \in Places(m, b) : x = y
  BY DEF ManagerOK, OnePlace
<1>3. \A i, j \in named : i = j
  <2> SUFFICES ASSUME NEW i \in named, NEW j \in named PROVE i = j
    OBVIOUS
  <2>1. <<g, i>> = <<g, j>>
    BY ZenonT(90), <1>1, <1>2
  <2> QED BY <2>1
<1>4. IsFiniteSet(Named(m, b)) /\ RefCnt(m, b) = Cardinality(Named(m, b))
  BY DEF ManagerOK, Counted, Named, RefCnt
<1>5. Cardinality(Named(m, b)) \in Nat /\ (Cardinality(Named(m, b)) = 0 <=> Named(m, b) = {})
  BY <1>4, FS_CardinalityType, FS_EmptySet
<1> QED BY ZenonT(90), <1>1, <1>3, <1>4, <1>5

\* The table of r in g and the reference count of b change alike.
CountsAlike(m, n, g, r, b) ==
  LET old == Naming(Table(m, g, r), b)
      new == Naming(Table(n, g, r), b)
  IN  \/ new = old /\ RefCnt(n, b) = RefCnt(m, b)
      \/ /\ old = {} /\ new # {} /\ \A i, j \in new : i = j
         /\ RefCnt(n, b) = RefCnt(m, b) + 1
      \/ /\ new = {} /\ old # {} /\ \A i, j \in old : i = j
         /\ RefCnt(n, b) = RefCnt(m, b) - 1

\* The counts after one table and the reference counts have changed alike.
LEMMA CountedAfter ==
  ASSUME NEW m, Counted(m), NEW n, NEW g \in Group, NEW r \in Request,
         OneTable(m, n, g, r), \A b \in Block : CountsAlike(m, n, g, r, b)
  PROVE  Counted(n)
<1> SUFFICES ASSUME NEW b \in Block
             PROVE  /\ IsFiniteSet(Named(n, b))
                    /\ RefCnt(n, b) = Cardinality(Named(n, b))
  BY DEF Counted, Named, RefCnt
<1> DEFINE old == Naming(Table(m, g, r), b)
           new == Naming(Table(n, g, r), b)
           E == Named(m, b)
           F == Named(n, b)
<1>1. IsFiniteSet(E) /\ RefCnt(m, b) = Cardinality(E) /\ Cardinality(E) \in Nat
  BY FS_CardinalityType DEF Counted, Named, RefCnt
<1>2. \A e : e \in F <=> \/ \E i \in new : e = <<g, r, i>>
                         \/ e \in E /\ ~ \E i \in old : e = <<g, r, i>>
  BY EntriesAfter
<1>3. \A i : i \in old <=> <<g, r, i>> \in E
  BY EntryIs
<1> HIDE DEF old, new, E, F
<1>4. CASE new = old /\ RefCnt(n, b) = RefCnt(m, b)
  <2>1. \A e : e \in E <=> e \in F
    BY <1>2, <1>3, <1>4
  <2>2. E = F
    BY ZenonT(90), <2>1
  <2> QED BY <1>1, <1>4, <2>2 DEF F
<1>5. CASE /\ old = {} /\ new # {} /\ \A i, j \in new : i = j
           /\ RefCnt(n, b) = RefCnt(m, b) + 1
  <2>1. PICK i \in new : TRUE
    BY <1>5
  <2>2. F = E \cup {<<g, r, i>>} /\ <<g, r, i>> \notin E
    BY <1>2, <1>3, <1>5, <2>1
  <2>3. IsFiniteSet(F) /\ Cardinality(F) = Cardinality(E) + 1
    BY ZenonT(90), <1>1, <2>2, FS_AddElement
  <2> QED BY <1>1, <1>5, <2>3 DEF F
<1>6. CASE /\ new = {} /\ old # {} /\ \A i, j \in old : i = j
           /\ RefCnt(n, b) = RefCnt(m, b) - 1
  <2>1. PICK i \in old : TRUE
    BY <1>6
  <2>2. F = E \ {<<g, r, i>>} /\ <<g, r, i>> \in E
    BY <1>2, <1>3, <1>6, <2>1
  <2>3. IsFiniteSet(F) /\ Cardinality(F) = Cardinality(E) - 1
    BY <1>1, <2>2, FS_RemoveElement
  <2> QED BY <1>1, <1>6, <2>3 DEF F
<1> QED BY <1>4, <1>5, <1>6 DEF CountsAlike, old, new

\* Block b was in the place that the new table and its keys give it, or it is
\* new to the tables and has no keys.
PlaceKept(m, n, g, r, b) ==
  LET new == Naming(Table(n, g, r), b)
  IN  \/ /\ \A i \in new : <<g, i>> \in Places(m, b)
         /\ \A k \in KeysOfBlock(n, b) : Place(k) \in Places(m, b)
      \/ /\ Named(m, b) = {} /\ KeysOfBlock(n, b) = {}
         /\ \A i, j \in new : i = j

\* The places after one table and the keys have changed.
LEMMA OnePlaceAfter ==
  ASSUME NEW m, OnePlace(m), NEW n, NEW g \in Group, NEW r \in Request,
         OneTable(m, n, g, r), \A b \in Block : PlaceKept(m, n, g, r, b)
  PROVE  OnePlace(n)
<1> SUFFICES ASSUME NEW b \in Block, NEW x \in Places(n, b), NEW y \in Places(n, b)
             PROVE  x = y
  BY DEF OnePlace
<1> DEFINE new == Naming(Table(n, g, r), b)
<1>1. ASSUME NEW z \in Places(n, b)
      PROVE  \/ \E e \in Named(m, b) : z = <<e[1], e[3]>>
             \/ \E i \in new : z = <<g, i>>
             \/ \E k \in KeysOfBlock(n, b) : z = Place(k)
  <2>1. CASE z \in {Place(k) : k \in HashesOf(n.pool, b)}
    BY <2>1 DEF KeysOfBlock
  <2>2. CASE z \in {<<e[1], e[3]>> : e \in Entries(n.req_to_blocks, b)}
    <3>1. PICK e \in Named(n, b) : z = <<e[1], e[3]>>
      BY <2>2 DEF Named
    <3>2. e \in Named(m, b) \/ \E i \in new : e = <<g, r, i>>
      BY EntriesAfter
    <3>3. CASE e \in Named(m, b)
      BY <3>1, <3>3
    <3>4. ASSUME NEW i \in new, e = <<g, r, i>> PROVE z = <<g, i>>
      BY <3>1, <3>4
    <3> QED BY <3>2, <3>3, <3>4
  <2> QED BY <2>1, <2>2 DEF Places
<1>2. CASE /\ \A i \in new : <<g, i>> \in Places(m, b)
           /\ \A k \in KeysOfBlock(n, b) : Place(k) \in Places(m, b)
  <2>1. \A z \in Places(n, b) : z \in Places(m, b)
    BY <1>1, <1>2 DEF Places, Named
  <2> QED BY <2>1 DEF OnePlace
<1>3. CASE /\ Named(m, b) = {} /\ KeysOfBlock(n, b) = {}
           /\ \A i, j \in new : i = j
  BY <1>1, <1>3
<1> QED BY <1>2, <1>3 DEF PlaceKept

\* The manager after one table, the keys and the counts have changed.
LEMMA ManagerAfter ==
  ASSUME NEW m, ManagerOK(m), NEW n \in Manager, PoolOK(n.pool),
         NEW g \in Group, NEW r \in Request, OneTable(m, n, g, r),
         ~ Windowed(g) => Table(n, g, r) \in Seq(Block),
         ~ enable_caching => \A b \in Block : KeysOfBlock(n, b) = {},
         \A b \in Block : CountsAlike(m, n, g, r, b),
         \A b \in Block : PlaceKept(m, n, g, r, b)
  PROVE  ManagerOK(n)
<1>1. ASSUME NEW h \in Group, NEW q \in Request, ~ Windowed(h)
      PROVE  n.req_to_blocks[h][q] \in Seq(Block)
  <2>1. CASE <<h, q>> = <<g, r>>
    BY <1>1, <2>1 DEF Table
  <2>2. CASE <<h, q>> # <<g, r>>
    BY <1>1, <2>2 DEF OneTable, ManagerOK, Table
  <2> QED BY <2>1, <2>2
<1>2. Counted(n) /\ OnePlace(n)
  <2>1. Counted(m) /\ OnePlace(m)
    BY DEF ManagerOK
  <2> QED BY <2>1, CountedAfter, OnePlaceAfter, ZenonT(90)
<1> QED BY <1>1, <1>2 DEF ManagerOK, KeysOfBlock

\* The elements of a list after the first kept and up to last, backwards.
Backwards(s, kept, last) == [i \in 1 .. last - kept |-> s[last + 1 - i]]
Part(s, kept, last) == {s[j] : j \in kept + 1 .. last}

\* The list that remove_skipped_blocks and free give to free_blocks, tail blocks
\* first, has the elements of that part of the table and repeats none.
LEMMA Reversed ==
  ASSUME NEW S, NEW s \in Seq(S), NEW last \in 0 .. Len(s), NEW kept \in 0 .. last,
         NEW t, t = Backwards(s, kept, last)
  PROVE  /\ t \in Seq(S)
         /\ Elements(t) = Part(s, kept, last)
         /\ \A T : NoRepetitionIn(s, T) => NoRepetitionIn(t, T)
<1>1. /\ last - kept \in Nat /\ last \in Nat /\ Len(s) \in Nat
      /\ \A i \in 1 .. last - kept : /\ last + 1 - i \in 1 .. Len(s)
                                     /\ last + 1 - i \in kept + 1 .. last
  OBVIOUS
<1>2. t \in Seq(S) /\ Len(t) = last - kept
  BY <1>1 DEF Backwards
<1>3. \A i \in 1 .. Len(t) : t[i] = s[last + 1 - i]
  BY <1>2 DEF Backwards
<1>4. ASSUME NEW j \in kept + 1 .. last PROVE s[j] \in Elements(t)
  <2>1. last + 1 - j \in 1 .. Len(t) /\ last + 1 - (last + 1 - j) = j
    BY <1>1, <1>2
  <2> QED BY ZenonT(90), <1>3, <2>1 DEF Elements
<1>5. Elements(t) = Part(s, kept, last)
  <2>1. ASSUME NEW i \in 1 .. Len(t) PROVE t[i] \in Part(s, kept, last)
    <3>1. t[i] = s[last + 1 - i] /\ last + 1 - i \in kept + 1 .. last
      BY <1>1, <1>2, <1>3
    <3> QED BY <3>1 DEF Part
  <2>2. \A x \in Part(s, kept, last) : x \in Elements(t)
    BY <1>4 DEF Part
  <2> QED BY <2>1, <2>2 DEF Elements
<1>6. ASSUME NEW T, NoRepetitionIn(s, T) PROVE NoRepetitionIn(t, T)
  <2> SUFFICES ASSUME NEW i \in 1 .. Len(t), NEW j \in 1 .. Len(t), t[i] = t[j], t[i] \in T
               PROVE  i = j
    BY DEF NoRepetitionIn
  <2>1. last + 1 - i = last + 1 - j
    BY <1>1, <1>2, <1>3, <1>6 DEF NoRepetitionIn
  <2> QED BY <1>1, <1>2, <2>1
<1> QED BY <1>2, <1>5, <1>6

\* A table of the manager: its elements, and that it names no block twice.
LEMMA TableIs ==
  ASSUME NEW m, ManagerOK(m), NEW g \in Group, NEW r \in Request
  PROVE  /\ Table(m, g, r) \in Seq(TableBlock) /\ Len(Table(m, g, r)) \in Nat
         /\ DOMAIN Table(m, g, r) = 1 .. Len(Table(m, g, r))
         /\ NoRepetitionIn(Table(m, g, r), Block)
         /\ \A b : Naming(Table(m, g, r), b) =
                     {i \in 1 .. Len(Table(m, g, r)) : Table(m, g, r)[i] = b}
<1> DEFINE t == Table(m, g, r)
<1>1. t \in Seq(TableBlock)
  BY DEF ManagerOK, Manager, Table
<1>2. Len(t) \in Nat /\ DOMAIN t = 1 .. Len(t)
  BY <1>1
<1>3. \A b : Naming(t, b) = {i \in 1 .. Len(t) : t[i] = b}
  BY <1>2 DEF Naming
<1>4. ASSUME NEW i \in 1 .. Len(t), NEW j \in 1 .. Len(t), t[i] = t[j], t[i] \in Block
      PROVE  i = j
  <2>1. i \in Naming(t, t[i]) /\ j \in Naming(t, t[i])
    BY <1>3, <1>4
  <2> QED BY <1>4, <2>1, NamedOnce
<1> QED BY <1>1, <1>2, <1>3, <1>4 DEF NoRepetitionIn

\* One entry of a function of two arguments is replaced.
LEMMA Except2 ==
  ASSUME NEW A, NEW B, NEW C, NEW f \in [A -> [B -> C]], NEW a \in A, NEW b \in B,
         NEW c, NEW h, h = [f EXCEPT ![a][b] = c]
  PROVE  /\ h[a][b] = c
         /\ \A x \in A, y \in B : <<x, y>> # <<a, b>> => h[x][y] = f[x][y]
<1>1. h[a] = [f[a] EXCEPT ![b] = c] /\ \A x \in A : x # a => h[x] = f[x]
  OBVIOUS
<1>2. f[a] \in [B -> C]
  OBVIOUS
<1> QED BY <1>1, <1>2

\* All tables, with that of request r in group g replaced by t.
Put(f, g, r, t) == [f EXCEPT ![g][r] = t]

\* An assignment to req_to_blocks changes the table of one request in one group.
LEMMA TableReplaced ==
  ASSUME NEW m \in Manager, NEW g \in Group, NEW r \in Request, NEW t, NEW n,
         n.req_to_blocks = Put(m.req_to_blocks, g, r, t)
  PROVE  Table(n, g, r) = t /\ OneTable(m, n, g, r)
<1> DEFINE f == m.req_to_blocks
           k == n.req_to_blocks
<1>1. f \in [Group -> [Request -> Seq(TableBlock)]] /\ k = [f EXCEPT ![g][r] = t]
  BY DEF Manager, Put
<1> HIDE DEF f, k
<1>2. k[g][r] = t
  BY <1>1, Except2
<1>3. \A h \in Group, p \in Request : <<h, p>> # <<g, r>> => k[h][p] = f[h][p]
  BY <1>1, Except2
<1> QED BY <1>2, <1>3, ZenonT(90) DEF OneTable, Table, f, k

\* A manager with its pool and one table replaced, and one number of cached blocks.
Updated(m, g, r, q, t) == [m EXCEPT !.pool = q, !.req_to_blocks[g][r] = t]
UpdatedCached(m, g, r, q, t, c) ==
  [m EXCEPT !.pool = q, !.req_to_blocks[g][r] = t, !.num_cached_block[g][r] = c]

\* What replacing the pool and one table makes of a manager.
LEMMA UpdateTable ==
  ASSUME NEW m \in Manager, NEW g \in Group, NEW r \in Request,
         NEW q \in Pool, NEW t \in Seq(TableBlock), NEW n,
         n = Updated(m, g, r, q, t)
  PROVE  /\ n \in Manager /\ n.pool = q /\ n.raised = m.raised
         /\ Table(n, g, r) = t /\ OneTable(m, n, g, r)
<1>1. /\ n \in Manager /\ n.pool = q /\ n.raised = m.raised
      /\ n.req_to_blocks = Put(m.req_to_blocks, g, r, t)
  BY ZenonT(90) DEF Manager, Updated, Put
<1>2. Table(n, g, r) = t /\ OneTable(m, n, g, r)
  BY <1>1, TableReplaced
<1> QED BY <1>1, <1>2

\* The same with the number of cached blocks.
LEMMA UpdateTableCached ==
  ASSUME NEW m \in Manager, NEW g \in Group, NEW r \in Request,
         NEW q \in Pool, NEW t \in Seq(TableBlock), NEW c \in Int, NEW n,
         n = UpdatedCached(m, g, r, q, t, c)
  PROVE  /\ n \in Manager /\ n.pool = q /\ n.raised = m.raised
         /\ Table(n, g, r) = t /\ OneTable(m, n, g, r)
<1>1. /\ n \in Manager /\ n.pool = q /\ n.raised = m.raised
      /\ n.req_to_blocks = Put(m.req_to_blocks, g, r, t)
  BY ZenonT(90) DEF Manager, UpdatedCached, Put
<1>2. Table(n, g, r) = t /\ OneTable(m, n, g, r)
  BY <1>1, TableReplaced
<1> QED BY <1>1, <1>2

\* The blocks of a table can be freed.
LEMMA DropPoolOK ==
  ASSUME NEW m, ManagerOK(m), NEW g \in Group, NEW r \in Request,
         NEW ordered \in Seq(TableBlock), NoRepetitionIn(ordered, Block),
         \A b \in Elements(ordered) \cap Block : Naming(Table(m, g, r), b) # {}
  PROVE  PoolOK(free_blocks(m.pool, ordered))
<1>1. ASSUME NEW b \in Elements(ordered) \cap Block PROVE m.pool.ref_cnt[b] > 0
  <2>1. /\ RefCnt(m, b) \in Nat
        /\ RefCnt(m, b) = 0 => Named(m, b) = {}
        /\ Named(m, b) = {} => Naming(Table(m, g, r), b) = {}
    BY NamedOnce
  <2>2. RefCnt(m, b) > 0
    BY <2>1
  <2> QED BY <2>2 DEF RefCnt
<1>2. PoolOK(m.pool) /\ \A b \in Elements(ordered) \cap Block : m.pool.ref_cnt[b] > 0
  BY <1>1 DEF ManagerOK
<1> QED BY <1>2, FreeBlocksOK DEF TableBlock

\* The table of r in g has lost the blocks in ordered, and nothing else.
Dropped(m, n, g, r, ordered) ==
  \A b \in Block : IF b \in Elements(ordered)
                   THEN /\ Naming(Table(m, g, r), b) # {}
                        /\ Naming(Table(n, g, r), b) = {}
                   ELSE Naming(Table(n, g, r), b) = Naming(Table(m, g, r), b)

\* Blocks leave a table and are freed: remove_skipped_blocks and free.
LEMMA DropOK ==
  ASSUME NEW m, ManagerOK(m), NEW n \in Manager, NEW g \in Group, NEW r \in Request,
         OneTable(m, n, g, r),
         ~ Windowed(g) => Table(n, g, r) \in Seq(Block),
         NEW ordered, n.pool = free_blocks(m.pool, ordered), PoolOK(n.pool),
         Dropped(m, n, g, r, ordered)
  PROVE  ManagerOK(n) /\ n.pool.cached = m.pool.cached
<1>1. PoolOK(m.pool)
  BY DEF ManagerOK
<1>2. /\ n.pool.cached = m.pool.cached
      /\ \A b \in Block :
           /\ RefCnt(n, b) = IF b \in Elements(ordered) THEN RefCnt(m, b) - 1
                             ELSE RefCnt(m, b)
           /\ KeysOfBlock(n, b) = KeysOfBlock(m, b)
  BY <1>1, FreeBlocksChanges DEF RefCnt, KeysOfBlock
<1>3. ASSUME NEW b \in Block PROVE CountsAlike(m, n, g, r, b)
  <2>1. CASE b \in Elements(ordered)
    BY <1>2, <2>1, NamedOnce DEF CountsAlike, Dropped
  <2>2. CASE b \notin Elements(ordered)
    BY <1>2, <2>2 DEF CountsAlike, Dropped
  <2> QED BY <2>1, <2>2
<1>4. ASSUME NEW b \in Block PROVE PlaceKept(m, n, g, r, b)
  <2>1. \A i \in Naming(Table(n, g, r), b) : <<g, i>> \in Places(m, b)
    BY NamedOnce DEF Dropped
  <2>2. \A k \in KeysOfBlock(n, b) : Place(k) \in Places(m, b)
    BY <1>2 DEF Places, KeysOfBlock
  <2> QED BY <2>1, <2>2 DEF PlaceKept
<1>5. ~ enable_caching => \A b \in Block : KeysOfBlock(n, b) = {}
  BY <1>2 DEF ManagerOK, KeysOfBlock
<1> QED BY <1>2, <1>3, <1>4, <1>5, ManagerAfter

\* The number of skipped tokens, and of skipped blocks: none for full attention.
LEMMA SkippedIs ==
  ASSUME NEW g \in Group, NEW n \in Nat
  PROVE  /\ get_num_skipped_tokens(g, n) \in Nat
         /\ get_num_skipped_tokens(g, n) \div BlockSize(g) \in Nat
         /\ ~ Windowed(g) => get_num_skipped_tokens(g, n) \div BlockSize(g) = 0
<1>1. get_num_skipped_tokens(g, n) \in Nat
  BY GroupIs DEF get_num_skipped_tokens, Larger
<1>2. ~ Windowed(g) => get_num_skipped_tokens(g, n) = 0
  BY DEF get_num_skipped_tokens
<1>3. BlockSize(g) \in Nat \ {0}
  BY GroupIs
<1> HIDE DEF get_num_skipped_tokens
<1> QED BY <1>1, <1>2, <1>3, DivMod

\* A manager's remove_skipped_blocks.
LEMMA RemoveOK ==
  ASSUME NEW m, ManagerOK(m), NEW g \in Group, NEW r \in Request, NEW processed \in Nat,
         NEW n, n = remove_skipped_of_group(m, g, r, processed)
  PROVE  /\ ManagerOK(n) /\ OneTable(m, n, g, r) /\ n.pool.cached = m.pool.cached
         /\ Table(m, g, r) = <<>> => Table(n, g, r) = <<>>
<1> DEFINE old == Table(m, g, r)
           last == Smaller(get_num_skipped_tokens(g, processed) \div BlockSize(g), Len(old))
           S == {i \in 1 .. last : \E j \in i .. last : old[j] = null_block}
           kept == Cardinality(S)
           ordered == [i \in 1 .. last - kept |-> old[last + 1 - i]]
           new == [i \in DOMAIN old |-> IF i \in kept + 1 .. last THEN null_block ELSE old[i]]
           q == free_blocks(m.pool, ordered)
<1>1. /\ old \in Seq(TableBlock) /\ Len(old) \in Nat /\ DOMAIN old = 1 .. Len(old)
      /\ NoRepetitionIn(old, Block)
      /\ \A b : Naming(old, b) = {i \in 1 .. Len(old) : old[i] = b}
  BY TableIs
<1>2. last \in 0 .. Len(old) /\ (~ Windowed(g) => last = 0)
  <2> HIDE DEF old
  <2> QED BY <1>1, SkippedIs DEF Smaller
<1>3. n = Updated(m, g, r, q, new)
  BY DEF remove_skipped_of_group, Table, Updated
<1> HIDE DEF old, last
<1>4. kept \in 0 .. last
  <2>1. IsFiniteSet(1 .. last) /\ Cardinality(1 .. last) = last
    BY <1>1, <1>2, FS_Interval
  <2>2. S \subseteq 1 .. last
    OBVIOUS
  <2> HIDE DEF S
  <2>3. Cardinality(S) <= Cardinality(1 .. last) /\ IsFiniteSet(S)
    BY ZenonT(90), <2>1, <2>2, FS_Subset
  <2> QED BY <1>1, <1>2, <2>1, <2>3, FS_CardinalityType
<1> HIDE DEF kept
<1>0. ordered = Backwards(old, kept, last)
  BY DEF Backwards
<1> HIDE DEF ordered
<1>5. /\ ordered \in Seq(TableBlock) /\ Elements(ordered) = Part(old, kept, last)
      /\ NoRepetitionIn(ordered, Block)
  <2>1. /\ old \in Seq(TableBlock) /\ last \in 0 .. Len(old) /\ kept \in 0 .. last
        /\ NoRepetitionIn(old, Block)
    BY <1>1, <1>2, <1>4
  <2> QED BY <1>0, <2>1, Reversed, ZenonT(90)
<1>6. /\ new \in Seq(TableBlock) /\ Len(new) = Len(old) /\ DOMAIN new = 1 .. Len(old)
      /\ \A i \in 1 .. Len(old) : new[i] = IF i \in kept + 1 .. last THEN null_block ELSE old[i]
  <2>1. null_block \in TableBlock /\ \A i \in 1 .. Len(old) : old[i] \in TableBlock
    BY <1>1 DEF TableBlock
  <2>2. new \in [1 .. Len(old) -> TableBlock]
    BY <1>1, <2>1
  <2> QED BY <1>1, <2>2
<1> HIDE DEF new
<1>7. null_block \notin Block
  BY DEF null_block, Block
<1>8. ASSUME NEW b \in Block
      PROVE  IF b \in Elements(ordered) THEN Naming(old, b) # {} /\ Naming(new, b) = {}
             ELSE Naming(new, b) = Naming(old, b)
  <2>1. Naming(new, b) = {i \in 1 .. Len(old) : i \notin kept + 1 .. last /\ old[i] = b}
    BY <1>6, <1>7 DEF Naming
  <2>2. CASE b \in Elements(ordered)
    <3>1. PICK j \in kept + 1 .. last : b = old[j]
      BY <1>5, <2>2 DEF Part
    <3>2. j \in 1 .. Len(old)
      BY <1>1, <1>2, <1>4
    <3>3. \A i \in 1 .. Len(old) : old[i] = b => i = j
      BY <1>1, <3>1, <3>2 DEF NoRepetitionIn
    <3>4. j \in Naming(old, b)
      BY <1>1, <3>1, <3>2
    <3>5. Naming(new, b) = {}
      BY <2>1, <3>3
    <3> QED BY <2>2, <3>4, <3>5
  <2>3. CASE b \notin Elements(ordered)
    <3>1. \A j \in kept + 1 .. last : old[j] # b
      BY <1>5, <2>3 DEF Part
    <3>2. Naming(new, b) = Naming(old, b)
      BY <1>1, <2>1, <3>1
    <3> QED BY <2>3, <3>2
  <2> QED BY <2>2, <2>3
<1>9. PoolOK(q)
  BY <1>5, <1>8, DropPoolOK DEF old
<1> HIDE DEF q
<1>10. /\ n \in Manager /\ n.pool = q /\ Table(n, g, r) = new /\ OneTable(m, n, g, r)
  <2>1. m \in Manager /\ q \in Pool
    BY <1>9 DEF ManagerOK, PoolOK
  <2>2. new \in Seq(TableBlock)
    BY <1>6
  <2> QED BY <1>3, <2>1, <2>2, UpdateTable
<1>11. ASSUME ~ Windowed(g) PROVE new \in Seq(Block)
  <2>1. old \in Seq(Block)
    BY <1>11 DEF ManagerOK, old, Table
  <2>2. \A i \in 1 .. Len(old) : new[i] = old[i] /\ old[i] \in Block
    BY <1>2, <1>4, <1>6, <1>11, <2>1
  <2> QED BY <1>6, <2>2
<1>12. ManagerOK(n) /\ n.pool.cached = m.pool.cached
  <2>1. Dropped(m, n, g, r, ordered)
    BY <1>8, <1>10 DEF Dropped, old
  <2>2. n.pool = free_blocks(m.pool, ordered) /\ PoolOK(n.pool)
    BY <1>9, <1>10 DEF q
  <2> QED BY <1>10, <1>11, <2>1, <2>2, DropOK
<1>13. old = <<>> => new = <<>>
  BY <1>6
<1> QED BY <1>10, <1>12, <1>13 DEF old

\* A manager's free: the table is given back, last block first.
LEMMA FreeOK ==
  ASSUME NEW m, ManagerOK(m), NEW g \in Group, NEW r \in Request,
         NEW n, n = free_of_group(m, g, r)
  PROVE  ManagerOK(n) /\ OneTable(m, n, g, r) /\ Table(n, g, r) = <<>>
<1> DEFINE old == Table(m, g, r)
           ordered == [i \in DOMAIN old |-> old[Len(old) + 1 - i]]
           q == free_blocks(m.pool, ordered)
           none == <<>>
<1>1. /\ old \in Seq(TableBlock) /\ Len(old) \in Nat /\ DOMAIN old = 1 .. Len(old)
      /\ NoRepetitionIn(old, Block)
      /\ \A b : Naming(old, b) = {i \in 1 .. Len(old) : old[i] = b}
  BY TableIs
<1>2. n = UpdatedCached(m, g, r, q, none, Absent)
  BY DEF free_of_group, Table, UpdatedCached
<1> HIDE DEF old
<1>3. ordered = Backwards(old, 0, Len(old))
  <2>1. Len(old) - 0 = Len(old)
    BY <1>1
  <2> QED BY <1>1, <2>1 DEF Backwards
<1> HIDE DEF ordered
<1>4. /\ ordered \in Seq(TableBlock) /\ Elements(ordered) = Part(old, 0, Len(old))
      /\ NoRepetitionIn(ordered, Block)
  <2>1. 0 \in 0 .. Len(old) /\ Len(old) \in 0 .. Len(old)
    BY <1>1
  <2> QED BY <1>1, <1>3, <2>1, Reversed, ZenonT(90)
<1>5. \A b \in Block : IF b \in Elements(ordered) THEN Naming(old, b) # {} ELSE Naming(old, b) = {}
  <2>1. 0 + 1 = 1
    OBVIOUS
  <2> QED BY ZenonT(90), <1>1, <1>4, <2>1 DEF Part
<1>6. PoolOK(q)
  BY <1>4, <1>5, DropPoolOK DEF old
<1> HIDE DEF q
<1>7. none \in Seq(TableBlock) /\ none \in Seq(Block) /\ \A b : Naming(none, b) = {}
  BY DEF Naming
<1> HIDE DEF none
<1>8. /\ n \in Manager /\ n.pool = q /\ Table(n, g, r) = none /\ OneTable(m, n, g, r)
  <2>1. m \in Manager /\ q \in Pool /\ Absent \in Int
    BY <1>6 DEF ManagerOK, PoolOK, Absent
  <2> QED BY <1>2, <1>7, <2>1, UpdateTableCached
<1>9. ASSUME NEW b \in Block
      PROVE  IF b \in Elements(ordered) THEN Naming(old, b) # {} /\ Naming(Table(n, g, r), b) = {}
             ELSE Naming(Table(n, g, r), b) = Naming(old, b)
  BY ZenonT(90), <1>5, <1>7, <1>8
<1>10. ManagerOK(n)
  <2>1. Table(n, g, r) \in Seq(Block) /\ n.pool = free_blocks(m.pool, ordered) /\ PoolOK(n.pool)
    BY <1>6, <1>7, <1>8 DEF q
  <2>2. Dropped(m, n, g, r, ordered)
    BY <1>9 DEF old, Dropped
  <2> QED BY <1>8, <2>1, <2>2, DropOK
<1> QED BY <1>8, <1>10 DEF none

\* The hit of a group with null blocks for its first k entries.
Padded(hit, k) == [i \in 1 .. k |-> null_block] \o SubSeq(hit, k + 1, Len(hit))

\* add_local_computed_blocks keeps each block of the hit at its index, or puts the
\* null block there.
LEMMA PaddedIs ==
  ASSUME NEW hit \in Seq(TableBlock), NEW k \in Nat, NEW t, t = Padded(hit, k)
  PROVE  /\ t \in Seq(TableBlock) /\ Len(t) \in Nat
         /\ \A i \in 1 .. Len(t) : \/ t[i] = null_block
                                   \/ i \in 1 .. Len(hit) /\ t[i] = hit[i]
         /\ k = 0 => t = hit
<1> DEFINE nulls == [i \in 1 .. k |-> null_block]
           rest == SubSeq(hit, k + 1, Len(hit))
<1>1. Len(hit) \in Nat /\ null_block \in TableBlock
  BY DEF TableBlock
<1>2. nulls \in Seq(TableBlock) /\ Len(nulls) = k /\ \A i \in 1 .. k : nulls[i] = null_block
  BY <1>1
<1>3. /\ rest \in Seq(TableBlock) /\ Len(rest) = IF k < Len(hit) THEN Len(hit) - k ELSE 0
      /\ \A i \in 1 .. Len(rest) : rest[i] = hit[k + i]
  BY <1>1
<1>4. t = nulls \o rest
  BY DEF Padded
<1> HIDE DEF nulls, rest
<1>5. /\ t \in Seq(TableBlock) /\ Len(t) = k + Len(rest)
      /\ \A i \in 1 .. Len(t) : t[i] = IF i <= k THEN nulls[i] ELSE rest[i - k]
  <2>1. nulls \in Seq(TableBlock) /\ rest \in Seq(TableBlock) /\ Len(nulls) = k
    BY <1>2, <1>3
  <2>2. /\ nulls \o rest \in Seq(TableBlock) /\ Len(nulls \o rest) = Len(nulls) + Len(rest)
        /\ \A i \in 1 .. Len(nulls) + Len(rest) :
             (nulls \o rest)[i] = IF i <= Len(nulls) THEN nulls[i] ELSE rest[i - Len(nulls)]
    BY ZenonT(90), <2>1, ConcatIs
  <2> QED BY <1>4, <2>1, <2>2
<1>6. ASSUME NEW i \in 1 .. Len(t)
      PROVE  \/ t[i] = null_block
             \/ i \in 1 .. Len(hit) /\ t[i] = hit[i]
  <2>1. CASE i <= k
    BY <1>2, <1>5, <2>1
  <2>2. CASE ~ (i <= k)
    <3>1. i - k \in 1 .. Len(rest) /\ i \in 1 .. Len(hit) /\ k + (i - k) = i
      BY <1>1, <1>3, <1>5, <2>2
    <3> QED BY <1>3, <1>5, <2>2, <3>1
  <2> QED BY <2>1, <2>2
<1>7. ASSUME k = 0 PROVE t = hit
  <2>1. Len(t) = Len(hit) /\ \A i \in 1 .. Len(t) : t[i] = hit[i]
    BY <1>1, <1>3, <1>5, <1>7
  <2> QED BY <1>5, <2>1
<1> QED BY <1>1, <1>3, <1>5, <1>6, <1>7

\* Every real block of a hit of group g is cached under a key of its place.
HitIn(cached, g, hit) ==
  /\ hit \in Seq(TableBlock)
  /\ ~ Windowed(g) => hit \in Seq(Block)
  /\ \A i \in 1 .. Len(hit) :
       hit[i] \in Block => \E k \in Key : hit[i] \in cached[k] /\ Place(k) = <<g, i>>

\* The blocks of a table are touched that was empty and gets them, each in the
\* place of its keys.
LEMMA GainOK ==
  ASSUME NEW m, ManagerOK(m), NEW n \in Manager, NEW g \in Group, NEW r \in Request,
         OneTable(m, n, g, r), Table(m, g, r) = <<>>,
         Table(n, g, r) \in Seq(TableBlock),
         ~ Windowed(g) => Table(n, g, r) \in Seq(Block),
         n.pool = touch(m.pool, Elements(Table(n, g, r)) \cap Block),
         \A b \in Block : \A i \in Naming(Table(n, g, r), b) : <<g, i>> \in Places(m, b)
  PROVE  ManagerOK(n) /\ n.pool.cached = m.pool.cached
<1> DEFINE t == Table(n, g, r)
           bs == Elements(t) \cap Block
<1>1. PoolOK(m.pool) /\ bs \in SUBSET Block
  BY DEF ManagerOK
<1>2. /\ n.pool.cached = m.pool.cached
      /\ \A b \in Block :
           /\ RefCnt(n, b) = IF b \in bs THEN RefCnt(m, b) + 1 ELSE RefCnt(m, b)
           /\ KeysOfBlock(n, b) = KeysOfBlock(m, b)
  <2>1. n.pool = touch(m.pool, bs)
    BY ZenonT(90)
  <2> HIDE DEF bs
  <2>2. /\ touch(m.pool, bs).cached = m.pool.cached
        /\ \A b \in Block :
             /\ touch(m.pool, bs).ref_cnt[b] =
                  IF b \in bs THEN m.pool.ref_cnt[b] + 1 ELSE m.pool.ref_cnt[b]
             /\ HashesOf(touch(m.pool, bs), b) = HashesOf(m.pool, b)
    BY ZenonT(90), <1>1, TouchChanges
  <2> QED BY ZenonT(90), <2>1, <2>2 DEF RefCnt, KeysOfBlock
<1>3. PoolOK(n.pool)
  BY <1>1, TouchOK
<1>4. \A b \in Block : b \in bs <=> Naming(t, b) # {}
  BY DEF Naming, Elements
<1> HIDE DEF bs
<1>5. ASSUME NEW b \in Block PROVE CountsAlike(m, n, g, r, b)
  <2>1. Naming(Table(m, g, r), b) = {}
    BY DEF Naming
  <2>2. \A i, j \in Naming(t, b) : i = j
    <3> SUFFICES ASSUME NEW i \in Naming(t, b), NEW j \in Naming(t, b) PROVE i = j
      OBVIOUS
    <3>1. <<g, i>> \in Places(m, b) /\ <<g, j>> \in Places(m, b)
      OBVIOUS
    <3>2. <<g, i>> = <<g, j>>
      BY <3>1 DEF ManagerOK, OnePlace
    <3> QED BY <3>2
  <2>3. CASE b \in bs
    BY <1>2, <1>4, <2>1, <2>2, <2>3 DEF CountsAlike
  <2>4. CASE b \notin bs
    BY ZenonT(90), <1>2, <1>4, <2>1, <2>4 DEF CountsAlike
  <2> QED BY <2>3, <2>4
<1>6. ASSUME NEW b \in Block PROVE PlaceKept(m, n, g, r, b)
  <2>1. \A k \in KeysOfBlock(n, b) : Place(k) \in Places(m, b)
    BY ZenonT(90), <1>2 DEF Places, KeysOfBlock
  <2> QED BY <2>1 DEF PlaceKept
<1>7. ~ enable_caching => \A b \in Block : KeysOfBlock(n, b) = {}
  BY ZenonT(90), <1>2 DEF ManagerOK, KeysOfBlock
<1> QED BY <1>2, <1>3, <1>5, <1>6, <1>7, ManagerAfter

\* A manager's add_local_computed_blocks, for a request without a table.
LEMMA AddLocalOK ==
  ASSUME NEW m, ManagerOK(m), NEW g \in Group, NEW r \in Request, Table(m, g, r) = <<>>,
         NEW hit, HitIn(m.pool.cached, g, hit), NEW total \in Nat,
         NEW n, n = add_local_computed_blocks(m, g, r, hit, total)
  PROVE  /\ ManagerOK(n) /\ OneTable(m, n, g, r)
         /\ n.pool.cached = m.pool.cached /\ n.raised = m.raised
<1> DEFINE skipped == get_num_skipped_tokens(g, total) \div BlockSize(g)
           t == Padded(hit, skipped)
           q == touch(m.pool, Elements(t) \cap Block)
<1>1. skipped \in Nat /\ (~ Windowed(g) => skipped = 0)
  BY SkippedIs
<1>2. n = UpdatedCached(m, g, r, q, t, Len(t))
  BY DEF add_local_computed_blocks, Padded, UpdatedCached
<1>3. hit \in Seq(TableBlock) /\ (~ Windowed(g) => hit \in Seq(Block))
  BY DEF HitIn
<1> HIDE DEF skipped
<1>4. t = Padded(hit, skipped)
  OBVIOUS
<1> HIDE DEF t
<1>5. /\ t \in Seq(TableBlock) /\ Len(t) \in Nat
      /\ \A i \in 1 .. Len(t) : \/ t[i] = null_block
                                \/ i \in 1 .. Len(hit) /\ t[i] = hit[i]
      /\ skipped = 0 => t = hit
  BY <1>1, <1>3, <1>4, PaddedIs
<1>6. PoolOK(m.pool) /\ Elements(t) \cap Block \in SUBSET Block
  BY DEF ManagerOK
<1>7. PoolOK(q)
  BY <1>6, TouchOK
<1> HIDE DEF q
<1>8. /\ n \in Manager /\ n.pool = q /\ n.raised = m.raised
      /\ Table(n, g, r) = t /\ OneTable(m, n, g, r)
  <2>1. m \in Manager /\ q \in Pool /\ t \in Seq(TableBlock) /\ Len(t) \in Int
    BY <1>5, <1>7 DEF ManagerOK, PoolOK
  <2> QED BY <1>2, <2>1, UpdateTableCached
<1>9. ASSUME NEW b \in Block, NEW i \in Naming(t, b) PROVE <<g, i>> \in Places(m, b)
  <2>1. i \in 1 .. Len(t) /\ t[i] = b /\ b # null_block
    BY <1>5 DEF Naming, Block, null_block
  <2>2. i \in 1 .. Len(hit) /\ hit[i] = b
    BY <1>5, <2>1
  <2>3. PICK k \in Key : b \in m.pool.cached[k] /\ Place(k) = <<g, i>>
    BY <2>2 DEF HitIn
  <2>4. k \in HashesOf(m.pool, b)
    BY ZenonT(90), <1>6, <2>3 DEF PoolOK, HashesMatch
  <2> QED BY <2>3, <2>4 DEF Places
<1>10. ManagerOK(n) /\ n.pool.cached = m.pool.cached
  <2>1. /\ ~ Windowed(g) => Table(n, g, r) \in Seq(Block)
        /\ Table(n, g, r) \in Seq(TableBlock)
        /\ n.pool = touch(m.pool, Elements(Table(n, g, r)) \cap Block)
        /\ \A b \in Block : \A i \in Naming(Table(n, g, r), b) : <<g, i>> \in Places(m, b)
    BY <1>1, <1>3, <1>5, <1>8, <1>9 DEF q
  <2> QED BY ZenonT(90), <1>8, <2>1, GainOK
<1> QED BY <1>8, <1>10

\* The pool and the tables are the same.
LEMMA SameTables ==
  ASSUME NEW m, ManagerOK(m), NEW n \in Manager, n.pool = m.pool,
         n.req_to_blocks = m.req_to_blocks
  PROVE  ManagerOK(n) /\ \A g \in Group, r \in Request : Table(n, g, r) = Table(m, g, r)
BY ZenonT(90) DEF ManagerOK, Counted, OnePlace, Places, Table

\* A table that gets the first blocks of the free list.
Extended(old, s, k) == old \o SubSeq(s, 1, k)

\* Table t names the blocks in taken once, and the others where old does.
Gains(t, old, taken) ==
  /\ \A b : b \in taken /\ Naming(old, b) = {} =>
              Naming(t, b) # {} /\ \A i, j \in Naming(t, b) : i = j
  /\ \A b : b \notin taken => Naming(t, b) = Naming(old, b)

\* Appending the first k free blocks to a table names each of them once.
LEMMA ExtendedIs ==
  ASSUME NEW old \in Seq(TableBlock), NEW s \in Seq(Block), NoRepetition(s),
         NEW k \in 1 .. Len(s), NEW t, t = Extended(old, s, k)
  PROVE  /\ t \in Seq(TableBlock) /\ Len(t) = Len(old) + k
         /\ old \in Seq(Block) => t \in Seq(Block)
         /\ Gains(t, old, FirstOf(s, k))
<1> DEFINE head == SubSeq(s, 1, k)
<1>1. Len(old) \in Nat /\ Len(s) \in Nat /\ k \in Nat
  OBVIOUS
<1>2. /\ head \in Seq(Block) /\ Len(head) = k
      /\ \A i \in 1 .. k : head[i] = s[i]
  BY <1>1
<1>3. head \in Seq(TableBlock)
  BY <1>2 DEF TableBlock
<1>4. t = old \o head
  BY DEF Extended
<1> HIDE DEF head
<1>5. /\ old \o head \in Seq(TableBlock) /\ Len(old \o head) = Len(old) + Len(head)
      /\ \A i \in 1 .. Len(old) + Len(head) :
           (old \o head)[i] = IF i <= Len(old) THEN old[i] ELSE head[i - Len(old)]
  BY <1>3, ConcatIs
<1>6. /\ t \in Seq(TableBlock) /\ Len(t) = Len(old) + k
      /\ \A i \in 1 .. Len(old) : t[i] = old[i]
      /\ \A i \in 1 .. k : t[Len(old) + i] = s[i]
  <2>1. ASSUME NEW i \in 1 .. k PROVE t[Len(old) + i] = s[i]
    <3>1. /\ Len(old) + i \in 1 .. Len(old) + Len(head) /\ ~ (Len(old) + i <= Len(old))
          /\ Len(old) + i - Len(old) = i
      BY <1>1, <1>2
    <3> QED BY <1>2, <1>4, <1>5, <3>1
  <2>2. ASSUME NEW i \in 1 .. Len(old) PROVE t[i] = old[i]
    BY <1>1, <1>2, <1>4, <1>5
  <2> QED BY <1>2, <1>4, <1>5, <2>1, <2>2
<1>7. \A i \in 1 .. Len(t) : i \in 1 .. Len(old) \/ (i - Len(old) \in 1 .. k
                                                    /\ i = Len(old) + (i - Len(old)))
  BY <1>1, <1>6
<1>8. ASSUME old \in Seq(Block) PROVE t \in Seq(Block)
  <2>1. ASSUME NEW i \in 1 .. Len(t) PROVE t[i] \in Block
    <3>1. CASE i \in 1 .. Len(old)
      BY <1>6, <1>8, <3>1
    <3>2. CASE i - Len(old) \in 1 .. k /\ i = Len(old) + (i - Len(old))
      <4>1. t[i] = s[i - Len(old)] /\ i - Len(old) \in 1 .. Len(s)
        BY <1>1, <1>6, <3>2
      <4> QED BY <4>1
    <3> QED BY <1>7, <3>1, <3>2
  <2> QED BY <1>6, <2>1
<1>9. ASSUME NEW b, NEW i PROVE i \in Naming(t, b) <=>
                                  \/ i \in Naming(old, b)
                                  \/ \E j \in 1 .. k : i = Len(old) + j /\ s[j] = b
  <2>1. Naming(t, b) = {x \in 1 .. Len(t) : t[x] = b} /\ Naming(old, b) = {x \in 1 .. Len(old) : old[x] = b}
    BY <1>6 DEF Naming
  <2>2. \A j \in 1 .. k : Len(old) + j \in 1 .. Len(t)
    BY <1>1, <1>6
  <2>3. \A j \in 1 .. Len(old) : j \in 1 .. Len(t)
    BY <1>1, <1>6
  <2>4. ASSUME i \in Naming(t, b)
        PROVE  i \in Naming(old, b) \/ \E j \in 1 .. k : i = Len(old) + j /\ s[j] = b
    <3>1. i \in 1 .. Len(t) /\ t[i] = b
      BY <2>1, <2>4
    <3>2. CASE i \in 1 .. Len(old)
      BY <1>6, <2>1, <3>1, <3>2
    <3>3. CASE i - Len(old) \in 1 .. k /\ i = Len(old) + (i - Len(old))
      <4>1. t[Len(old) + (i - Len(old))] = s[i - Len(old)]
        BY <1>6, <3>3
      <4> QED BY <3>1, <3>3, <4>1
    <3> QED BY <1>7, <3>1, <3>2, <3>3
  <2>5. ASSUME NEW j \in 1 .. k, i = Len(old) + j, s[j] = b PROVE i \in Naming(t, b)
    BY <1>6, <2>1, <2>2, <2>5
  <2>6. ASSUME i \in Naming(old, b) PROVE i \in Naming(t, b)
    BY <1>6, <2>1, <2>3, <2>6
  <2> QED BY <2>4, <2>5, <2>6
<1>10. ASSUME NEW b, b \in FirstOf(s, k), Naming(old, b) = {}
       PROVE  Naming(t, b) # {} /\ \A i, j \in Naming(t, b) : i = j
  <2>1. PICK x \in 1 .. k : s[x] = b
    BY <1>10 DEF FirstOf
  <2>2. \A y \in 1 .. k : s[y] = b => y = x
    BY <1>1, <2>1 DEF NoRepetition
  <2>3. ASSUME NEW i \in Naming(t, b) PROVE i = Len(old) + x
    <3>1. PICK j \in 1 .. k : i = Len(old) + j /\ s[j] = b
      BY <1>9, <1>10
    <3> QED BY <2>2, <3>1
  <2>4. Len(old) + x \in Naming(t, b)
    BY <1>9, <2>1
  <2>5. Naming(t, b) # {}
    BY <2>4
  <2>6. \A i, j \in Naming(t, b) : i = j
    BY <2>3
  <2> QED BY <2>5, <2>6
<1>11. ASSUME NEW b, b \notin FirstOf(s, k) PROVE Naming(t, b) = Naming(old, b)
  <2>1. \A i : i \in Naming(t, b) <=> i \in Naming(old, b)
    BY <1>9, <1>11 DEF FirstOf
  <2> QED BY ZenonT(90), <2>1
<1> QED BY ZenonT(90), <1>6, <1>8, <1>10, <1>11 DEF Gains

\* get_new_blocks for a request: the blocks come from the free list, so no table
\* names them and eviction has taken their keys.
LEMMA ExtendOK ==
  ASSUME NEW m, ManagerOK(m), NEW g \in Group, NEW r \in Request, NEW num \in Int,
         NEW n, n = extend_with_new_blocks(m, g, r, num)
  PROVE  /\ ManagerOK(n) /\ OneTable(m, n, g, r)
         /\ m.raised => n.raised
         /\ n.raised \/ Len(Table(n, g, r)) >= Len(Table(m, g, r)) + num
<1> DEFINE old == Table(m, g, r)
           s == m.pool.free
<1>1. /\ m \in Manager /\ PoolOK(m.pool)
      /\ old \in Seq(TableBlock) /\ Len(old) \in Nat
  BY TableIs DEF ManagerOK
<1>2. /\ s \in Seq(Block) /\ Len(s) \in Nat /\ NoRepetition(s)
      /\ Elements(s) = {b \in Block : RefCnt(m, b) = 0}
  <2>1. m.pool \in Pool /\ FreeMatches(m.pool)
    BY ZenonT(90), <1>1 DEF PoolOK
  <2>2. s \in Seq(Block)
    BY ZenonT(90), <2>1 DEF Pool
  <2>3. NoRepetition(s) /\ Elements(s) = {b \in Block : RefCnt(m, b) = 0}
    BY ZenonT(90), <2>1 DEF FreeMatches, RefCnt
  <2> QED BY <2>2, <2>3
<1>3. CASE num <= 0
  <2>1. n = m
    BY <1>3 DEF extend_with_new_blocks
  <2> QED BY <1>1, <1>3, <2>1 DEF OneTable
<1>4. CASE ~ (num <= 0) /\ num > Len(s)
  <2>1. n = [m EXCEPT !.raised = TRUE]
    BY <1>4 DEF extend_with_new_blocks, get_num_free_blocks
  <2>2. n \in Manager /\ n.pool = m.pool /\ n.req_to_blocks = m.req_to_blocks /\ n.raised = TRUE
    BY <1>1, <2>1, ZenonT(90) DEF Manager
  <2>3. ManagerOK(n) /\ \A h \in Group, p \in Request : Table(n, h, p) = Table(m, h, p)
    BY <2>2, SameTables
  <2> QED BY <2>2, <2>3 DEF OneTable
<1>5. CASE ~ (num <= 0) /\ ~ (num > Len(s))
  <2> DEFINE t == Extended(old, s, num)
             q == get_new_blocks(m.pool, num)
             taken == FirstOf(s, num)
  <2>1. num \in 1 .. Len(s) /\ num \in Nat /\ num <= get_num_free_blocks(m.pool)
    BY <1>2, <1>5 DEF get_num_free_blocks
  <2>2. n = Updated(m, g, r, q, t)
    BY <1>5 DEF extend_with_new_blocks, get_num_free_blocks, Updated, Extended, Table
  <2>3. PoolOK(q)
    BY <1>1, <2>1, GetNewBlocksOK
  <2>4. /\ t \in Seq(TableBlock) /\ Len(t) = Len(old) + num
        /\ old \in Seq(Block) => t \in Seq(Block)
        /\ Gains(t, old, taken)
    <3>1. t = Extended(old, s, num)
      OBVIOUS
    <3> HIDE DEF old, s, t
    <3> QED BY <1>1, <1>2, <2>1, <3>1, ExtendedIs
  <2>5. \A b \in Block :
          /\ q.ref_cnt[b] = IF b \in taken THEN RefCnt(m, b) + 1 ELSE RefCnt(m, b)
          /\ HashesOf(q, b) = IF enable_caching /\ b \in taken THEN {} ELSE KeysOfBlock(m, b)
    <3>1. Gained(m.pool, q, taken)
      BY <1>1, <2>1, GetNewBlocksChanges
    <3> HIDE DEF q, taken
    <3> QED BY <3>1 DEF Gained, RefCnt, KeysOfBlock
  <2>6. \A b \in taken : b \in Block /\ RefCnt(m, b) = 0
    <3>1. \A b \in taken : b \in Elements(s)
      BY <1>2, <2>1 DEF FirstOf, Elements
    <3> HIDE DEF taken, s
    <3> QED BY <1>2, <3>1
  <2> HIDE DEF t, q, taken
  <2>7. /\ n \in Manager /\ n.pool = q /\ n.raised = m.raised
        /\ Table(n, g, r) = t /\ OneTable(m, n, g, r)
    <3>1. q \in Pool
      BY <2>3 DEF PoolOK
    <3> QED BY <1>1, <2>2, <2>4, <3>1, UpdateTable
  <2>8. ASSUME NEW b \in Block
        PROVE  /\ RefCnt(n, b) = IF b \in taken THEN RefCnt(m, b) + 1 ELSE RefCnt(m, b)
               /\ KeysOfBlock(n, b) = IF b \in taken THEN {} ELSE KeysOfBlock(m, b)
    BY ZenonT(90), <2>5, <2>7 DEF RefCnt, KeysOfBlock, ManagerOK
  <2>9. ASSUME NEW b \in taken
        PROVE  b \in Block /\ Named(m, b) = {} /\ Naming(old, b) = {}
    BY <2>6, NamedOnce
  <2> HIDE DEF old
  <2>10. ASSUME NEW b \in Block PROVE CountsAlike(m, n, g, r, b)
    <3>1. CASE b \in taken
      BY <2>4, <2>7, <2>8, <2>9, <3>1 DEF CountsAlike, Gains, old
    <3>2. CASE b \notin taken
      BY <2>4, <2>7, <2>8, <3>2 DEF CountsAlike, Gains, old
    <3> QED BY <3>1, <3>2
  <2>11. ASSUME NEW b \in Block PROVE PlaceKept(m, n, g, r, b)
    <3>1. CASE b \in taken
      BY <2>4, <2>7, <2>8, <2>9, <3>1 DEF PlaceKept, Gains
    <3>2. CASE b \notin taken
      <4>1. \A i \in Naming(Table(n, g, r), b) : <<g, i>> \in Places(m, b)
        BY <2>4, <2>7, <3>2, NamedOnce DEF Gains, old
      <4>2. \A k \in KeysOfBlock(n, b) : Place(k) \in Places(m, b)
        BY <2>8, <3>2 DEF Places, KeysOfBlock
      <4> QED BY <4>1, <4>2 DEF PlaceKept
    <3> QED BY <3>1, <3>2
  <2>12. ManagerOK(n)
    <3>1. PoolOK(n.pool) /\ (~ Windowed(g) => Table(n, g, r) \in Seq(Block))
      BY <2>3, <2>4, <2>7 DEF ManagerOK, old, Table
    <3>2. ~ enable_caching => \A b \in Block : KeysOfBlock(n, b) = {}
      BY <2>8 DEF ManagerOK, KeysOfBlock
    <3> QED BY <2>7, <2>10, <2>11, <3>1, <3>2, ManagerAfter
  <2> QED BY <1>1, <2>4, <2>7, <2>12 DEF old
<1> QED BY <1>3, <1>4, <1>5

\* A manager's allocate_external_computed_blocks.
LEMMA ExternalOK ==
  ASSUME NEW m, ManagerOK(m), NEW g \in Group, NEW r \in Request, NEW total \in Nat, NEW external,
         NEW n, n = allocate_external_computed_blocks(m, g, r, total, external)
  PROVE  ManagerOK(n) /\ OneTable(m, n, g, r) /\ (m.raised => n.raised)
<1> DEFINE num == cdiv(total, BlockSize(g)) - Len(Table(m, g, r))
<1>1. num \in Int
  <2>1. cdiv(total, BlockSize(g)) \in Nat
    BY GroupIs, CdivCovers
  <2> QED BY <2>1, TableIs
<1>2. CASE n = m
  BY <1>2 DEF OneTable
<1>3. CASE n = extend_with_new_blocks(m, g, r, num)
  <2> HIDE DEF num
  <2> QED BY <1>1, <1>3, ExtendOK
<1> QED BY <1>2, <1>3 DEF allocate_external_computed_blocks, Table

\* A manager's allocate_new_blocks: the table covers the tokens unless it raised.
LEMMA AllocateOK ==
  ASSUME NEW m, ManagerOK(m), NEW g \in Group, NEW r \in Request, NEW tokens \in Nat,
         NEW n, n = allocate_blocks_of_group(m, g, r, tokens)
  PROVE  /\ ManagerOK(n) /\ OneTable(m, n, g, r) /\ (m.raised => n.raised)
         /\ n.raised \/ Len(Table(n, g, r)) >= cdiv(tokens, BlockSize(g))
<1> DEFINE num == cdiv(tokens, BlockSize(g)) - Len(Table(m, g, r))
<1>1. num \in Int /\ Len(Table(m, g, r)) + num = cdiv(tokens, BlockSize(g))
  <2>1. cdiv(tokens, BlockSize(g)) \in Nat
    BY GroupIs, CdivCovers
  <2> QED BY <2>1, TableIs
<1>2. n = extend_with_new_blocks(m, g, r, num)
  BY DEF allocate_blocks_of_group, Table
<1> HIDE DEF num
<1>3. /\ ManagerOK(n) /\ OneTable(m, n, g, r) /\ (m.raised => n.raised)
      /\ n.raised \/ Len(Table(n, g, r)) >= Len(Table(m, g, r)) + num
  BY <1>1, <1>2, ExtendOK
<1> QED BY <1>1, <1>3

\* A key of a request: it is in Key and its place is the block it ends in.
LEMMA KeyPlace ==
  ASSUME NEW g \in Group, NEW r \in Request, NEW n \in 1 .. Len(all_token_ids[r])
  PROVE  KeyOf(g, r, n) \in Key /\ Place(KeyOf(g, r, n)) = <<g, cdiv(n, BlockSize(g))>>
<1>1. KeyOf(g, r, n) \in Key /\ NumTokens[KeyOf(g, r, n)] = n
  BY KeyAssumption
<1>2. KeyOf(g, r, n)[1] = g
  BY DEF KeyOf
<1> QED BY <1>1, <1>2 DEF Place

\* The lengths of the requests.
LEMMA LengthIs ==
  ASSUME NEW r \in Request
  PROVE  /\ Len(all_token_ids[r]) \in Nat
         /\ num_prompt_tokens[r] \in 1 .. Len(all_token_ids[r])
BY KVAssumption

\* The keys change, the tables and the counts do not.
LEMMA RecachedOK ==
  ASSUME NEW m, ManagerOK(m), NEW n \in Manager, n.req_to_blocks = m.req_to_blocks,
         PoolOK(n.pool), n.pool.ref_cnt = m.pool.ref_cnt,
         \A b \in Block : \A k \in KeysOfBlock(n, b) : Place(k) \in Places(m, b),
         ~ enable_caching => \A b \in Block : KeysOfBlock(n, b) = {}
  PROVE  ManagerOK(n)
<1>1. Counted(n)
  BY DEF ManagerOK, Counted
<1>2. OnePlace(n)
  <2>1. ASSUME NEW b \in Block, NEW z \in Places(n, b) PROVE z \in Places(m, b)
    <3>1. CASE z \in {Place(k) : k \in HashesOf(n.pool, b)}
      BY <3>1 DEF KeysOfBlock
    <3>2. CASE z \in {<<e[1], e[3]>> : e \in Entries(n.req_to_blocks, b)}
      BY <3>2 DEF Places
    <3> QED BY <3>1, <3>2 DEF Places
  <2> QED BY <2>1 DEF ManagerOK, OnePlace
<1> QED BY <1>1, <1>2 DEF ManagerOK, KeysOfBlock

\* A manager with its pool and a number of cached blocks replaced.
PoolCached(m, g, r, q, c) == [m EXCEPT !.pool = q, !.num_cached_block[g][r] = c]
PoolReplaced(m, q) == [m EXCEPT !.pool = q]

\* What replacing the pool makes of a manager: the tables stay as they are.
LEMMA UpdatePool ==
  ASSUME NEW m \in Manager, NEW g \in Group, NEW r \in Request, NEW q \in Pool, NEW c \in Int,
         NEW n, n = PoolCached(m, g, r, q, c) \/ n = PoolReplaced(m, q)
  PROVE  n \in Manager /\ n.pool = q /\ n.req_to_blocks = m.req_to_blocks /\ n.raised = m.raised
<1>1. CASE n = PoolCached(m, g, r, q, c)
  BY <1>1, ZenonT(90) DEF PoolCached, Manager
<1>2. CASE n = PoolReplaced(m, q)
  BY <1>2, ZenonT(90) DEF PoolReplaced, Manager
<1> QED BY <1>1, <1>2

\* What cache_full_blocks is given: each block under the key of its place.
NewKeys(g, r, blocks, index) ==
  [b \in {blocks[i] : i \in index} |->
     KeyOf(g, r, BlockSize(g) * CHOOSE i \in index : blocks[i] = b)]

\* The keys given to cache_full_blocks are a function on the blocks.
LEMMA NewKeysFunction ==
  ASSUME NEW g, NEW r, NEW blocks, NEW index, NEW new, new = NewKeys(g, r, blocks, index)
  PROVE  new = [b \in DOMAIN new |-> new[b]]
BY DEF NewKeys

\* cache_full_blocks is given keys of the places that the blocks have already.
LEMMA NewKeysAre ==
  ASSUME NEW m, ManagerOK(m), NEW g \in Group, NEW r \in Request,
         NEW tokens \in 0 .. Len(all_token_ids[r]), NEW index,
         index \subseteq 1 .. tokens \div BlockSize(g),
         tokens \div BlockSize(g) <= Len(Table(m, g, r)),
         \A i \in index : Table(m, g, r)[i] # null_block,
         NEW new, new = NewKeys(g, r, Table(m, g, r), index)
  PROVE  /\ DOMAIN new \in SUBSET Block /\ new \in [DOMAIN new -> Key]
         /\ \A b \in DOMAIN new : Place(new[b]) \in Places(m, b)
<1> DEFINE blocks == Table(m, g, r)
           size == BlockSize(g)
           full == tokens \div size
           bs == {blocks[i] : i \in index}
<1>1. /\ blocks \in Seq(TableBlock) /\ Len(blocks) \in Nat
      /\ \A b : Naming(blocks, b) = {i \in 1 .. Len(blocks) : blocks[i] = b}
  BY TableIs
<1>2. size \in Nat \ {0} /\ Len(all_token_ids[r]) \in Nat
  BY GroupIs, LengthIs
<1>3. tokens \in Nat /\ full \in Nat
  <2>1. tokens \in Nat
    BY <1>2
  <2> HIDE DEF size
  <2> QED BY ZenonT(90), <1>2, <2>1, DivMod
<1>4. ASSUME NEW i \in index
      PROVE  /\ i \in 1 .. Len(blocks) /\ blocks[i] \in Block
             /\ KeyOf(g, r, size * i) \in Key
             /\ Place(KeyOf(g, r, size * i)) = <<g, i>>
  <2>1. i \in 1 .. full /\ i \in 1 .. Len(blocks) /\ i \in Nat
    BY <1>1, <1>3
  <2>2. blocks[i] \in Block
    <3>1. blocks[i] \in TableBlock /\ blocks[i] # null_block
      BY <1>1, <2>1
    <3> QED BY <3>1 DEF TableBlock
  <2>3. i * size \in 0 .. tokens
    <3>1. i \in 0 .. tokens \div size
      BY <2>1, <1>3
    <3> HIDE DEF size, full
    <3> QED BY ZenonT(90), <1>2, <1>3, <3>1, BlocksWithin
  <2>4. size * i = i * size /\ size * i >= 1
    <3> HIDE DEF size, full
    <3> QED BY <1>2, <2>1
  <2>5. size * i \in 1 .. Len(all_token_ids[r]) /\ cdiv(size * i, size) = i
    <3>1. cdiv(i * size, size) = i
      <4> HIDE DEF size, full
      <4> QED BY <1>2, <2>1, CdivWhole
    <3> HIDE DEF size, full
    <3> QED BY <1>2, <1>3, <2>3, <2>4, <3>1
  <2>6. /\ KeyOf(g, r, size * i) \in Key
        /\ Place(KeyOf(g, r, size * i)) = <<g, cdiv(size * i, BlockSize(g))>>
    <3> DEFINE k == size * i
    <3>1. k \in 1 .. Len(all_token_ids[r])
      BY <2>5
    <3> HIDE DEF k
    <3>2. KeyOf(g, r, k) \in Key /\ Place(KeyOf(g, r, k)) = <<g, cdiv(k, BlockSize(g))>>
      BY <3>1, KeyPlace
    <3> QED BY <3>2 DEF k
  <2> QED BY <2>1, <2>2, <2>5, <2>6
<1>5. DOMAIN new = bs /\ \A b \in bs : new[b] = KeyOf(g, r, size * CHOOSE i \in index : blocks[i] = b)
  BY DEF NewKeys
<1>6. bs \in SUBSET Block
  BY <1>4
<1>7. ASSUME NEW b \in bs PROVE new[b] \in Key /\ Place(new[b]) \in Places(m, b)
  <2> DEFINE i == CHOOSE x \in index : blocks[x] = b
  <2>1. i \in index /\ blocks[i] = b
    BY ZenonT(90)
  <2>2. new[b] = KeyOf(g, r, size * i)
    BY ZenonT(90), <1>5
  <2> HIDE DEF i
  <2>3. i \in Naming(blocks, b) /\ b \in Block
    BY ZenonT(90), <1>1, <1>4, <2>1
  <2>4. <<g, i>> \in Places(m, b)
    BY ZenonT(90), <2>3, NamedOnce
  <2> QED BY <1>4, <2>1, <2>2, <2>4
<1>8. new = [b \in DOMAIN new |-> new[b]]
  BY NewKeysFunction
<1> QED BY ZenonT(90), <1>5, <1>6, <1>7, <1>8

\* The blocks in the domain of new have the key new gives them and no other.
Recached(p, q, new) ==
  /\ q.ref_cnt = p.ref_cnt
  /\ \A b \in Block : HashesOf(q, b) = IF b \in DOMAIN new THEN {new[b]} ELSE HashesOf(p, b)

\* cache_full_blocks keeps the pool's invariant and gives the blocks their keys.
LEMMA FullKeys ==
  ASSUME NEW p, PoolOK(p), NEW new, DOMAIN new \in SUBSET Block, new \in [DOMAIN new -> Key]
  PROVE  LET q == cache_full_blocks(p, new) IN PoolOK(q) /\ Recached(p, q, new)
<1> DEFINE bs == DOMAIN new
           q == cache_full_blocks(p, new)
<1>1. bs \in SUBSET Block /\ new \in [bs -> Key]
  OBVIOUS
<1>2. DOMAIN new = bs
  OBVIOUS
<1> HIDE DEF bs
<1>3. /\ q.ref_cnt = p.ref_cnt
      /\ \A b \in Block : HashesOf(q, b) = IF b \in bs THEN {new[b]} ELSE HashesOf(p, b)
  BY <1>1, CacheFullChanges
<1>4. PoolOK(q)
  BY <1>1, CacheFullOK
<1> QED BY <1>2, <1>3, <1>4 DEF Recached

\* A manager's cache_blocks for whole blocks.
LEMMA CacheWholeOK ==
  ASSUME enable_caching, NEW m, ManagerOK(m), NEW g \in Group, NEW r \in Request,
         NEW tokens \in 0 .. Len(all_token_ids[r]),
         tokens \div BlockSize(g) <= Len(Table(m, g, r)),
         NEW n, n = cache_whole_blocks(m, g, r, tokens)
  PROVE  ManagerOK(n) /\ n.req_to_blocks = m.req_to_blocks
<1> DEFINE cached == Larger(m.num_cached_block[g][r], 0)
           full == tokens \div BlockSize(g)
           blocks == Table(m, g, r)
           index == {i \in cached + 1 .. full :
                       blocks[i] # null_block /\ reachable_block_mask(g, i - 1)}
           new == NewKeys(g, r, blocks, index)
<1>1. m \in Manager /\ PoolOK(m.pool) /\ cached \in Nat /\ full \in Nat
  <2>1. m \in Manager /\ PoolOK(m.pool) /\ m.num_cached_block[g][r] \in Int
    BY ZenonT(90) DEF ManagerOK, Manager
  <2>2. BlockSize(g) \in Nat \ {0} /\ tokens \in Nat
    BY GroupIs, LengthIs
  <2>3. cached \in Nat
    BY <2>1 DEF Larger
  <2>4. full \in Nat
    <3> DEFINE size == BlockSize(g)
    <3>1. size \in Nat \ {0} /\ tokens \in Nat
      BY <2>2
    <3> HIDE DEF size
    <3>2. tokens \div size \in Nat
      BY ZenonT(90), <3>1, DivMod
    <3> QED BY <3>2 DEF size
  <2> QED BY <2>1, <2>3, <2>4
<1>2. CASE n = m
  BY <1>2
<1>3. CASE n = [m EXCEPT !.raised = TRUE]
  <2>1. n \in Manager /\ n.pool = m.pool /\ n.req_to_blocks = m.req_to_blocks
    BY <1>1, <1>3, ZenonT(90) DEF Manager
  <2> QED BY <2>1, SameTables
<1>4. CASE n = PoolCached(m, g, r, cache_full_blocks(m.pool, new), full)
  <2> HIDE DEF cached
  <2>1. index \subseteq 1 .. full /\ \A i \in index : blocks[i] # null_block
    BY <1>1
  <2> HIDE DEF index
  <2>2. new = NewKeys(g, r, blocks, index)
    OBVIOUS
  <2> HIDE DEF new
  <2>3. /\ DOMAIN new \in SUBSET Block /\ new \in [DOMAIN new -> Key]
        /\ \A b \in DOMAIN new : Place(new[b]) \in Places(m, b)
    BY <2>1, <2>2, NewKeysAre
  <2> DEFINE q == cache_full_blocks(m.pool, new)
             bs == DOMAIN new
  <2>4. PoolOK(q) /\ Recached(m.pool, q, new)
    BY <1>1, <2>3, FullKeys
  <2>5. /\ q.ref_cnt = m.pool.ref_cnt
        /\ \A b \in Block : HashesOf(q, b) = IF b \in bs THEN {new[b]} ELSE HashesOf(m.pool, b)
    <3> HIDE DEF q
    <3> QED BY <2>4 DEF Recached
  <2> HIDE DEF q, bs
  <2>6. n \in Manager /\ n.pool = q /\ n.req_to_blocks = m.req_to_blocks
    <3>1. q \in Pool /\ full \in Int /\ n = PoolCached(m, g, r, q, full)
      BY <1>1, <1>4, <2>4 DEF PoolOK, q
    <3> HIDE DEF full
    <3> QED BY <1>1, <3>1, UpdatePool
  <2>7. ASSUME NEW b \in Block, NEW k \in KeysOfBlock(n, b) PROVE Place(k) \in Places(m, b)
    <3>1. CASE b \in bs
      BY <2>3, <2>5, <2>6, <3>1 DEF KeysOfBlock, bs
    <3>2. CASE b \notin bs
      BY <2>5, <2>6, <3>2 DEF KeysOfBlock, Places
    <3> QED BY <3>1, <3>2
  <2> QED BY <2>4, <2>5, <2>6, <2>7, RecachedOK
<1> QED BY ZenonT(90), <1>2, <1>3, <1>4 DEF cache_whole_blocks, NewKeys, PoolCached, Table

\* FullAttentionManager's entry for the partial block at the end of a prompt.
LEMMA CachePartialTailOK ==
  ASSUME enable_caching, NEW m, ManagerOK(m), NEW g \in Group, NEW r \in Request,
         NEW tokens \in 0 .. Len(all_token_ids[r]),
         NEW n, n = cache_partial_tail_block(m, g, r, tokens)
  PROVE  ManagerOK(n) /\ n.req_to_blocks = m.req_to_blocks
<1> DEFINE prompt == num_prompt_tokens[r]
           boundary == prompt - (prompt % hash_block_size)
           idx == boundary \div BlockSize(g)
           blocks == Table(m, g, r)
           b == blocks[idx + 1]
           k == KeyOf(g, r, boundary)
           q == cache_partial_block(m.pool, b, k)
<1>1. m \in Manager /\ PoolOK(m.pool) /\ Len(blocks) \in Nat
      /\ \A c : Naming(blocks, c) = {i \in 1 .. Len(blocks) : blocks[i] = c}
  BY TableIs DEF ManagerOK
<1>2. /\ prompt \in Nat /\ hash_block_size \in Nat \ {0} /\ BlockSize(g) \in Nat \ {0}
      /\ Len(all_token_ids[r]) \in Nat /\ tokens \in Nat
  BY LengthIs, GroupIs, KVAssumption
<1>3. boundary \in Nat
  <2> HIDE DEF prompt
  <2>1. prompt % hash_block_size \in 0 .. hash_block_size - 1
        /\ prompt \div hash_block_size \in Nat
        /\ prompt = hash_block_size * (prompt \div hash_block_size) + (prompt % hash_block_size)
    BY ZenonT(90), <1>2, DivMod
  <2>2. hash_block_size * (prompt \div hash_block_size) \in Nat
    BY <1>2, <2>1
  <2> QED BY <1>2, <2>1, <2>2
<1> HIDE DEF boundary
<1>4. idx \in Nat
  BY ZenonT(90), <1>2, <1>3, DivMod
<1>5. CASE n = m
  BY <1>5
<1>6. CASE /\ ~ Windowed(g) /\ boundary # 0 /\ ~ (boundary > tokens)
           /\ boundary % BlockSize(g) # 0 /\ ~ (idx >= Len(blocks))
           /\ n = PoolReplaced(m, q)
  <2>1. idx + 1 \in 1 .. Len(blocks)
    BY <1>1, <1>4, <1>6
  <2>2. b \in Block /\ idx + 1 \in Naming(blocks, b)
    <3>1. blocks \in Seq(Block)
      BY ZenonT(90), <1>6 DEF ManagerOK, Table
    <3> HIDE DEF blocks, idx
    <3> QED BY <1>1, <2>1, <3>1
  <2>3. k \in Key /\ Place(k) = <<g, idx + 1>>
    <3>1. boundary \in 1 .. Len(all_token_ids[r])
      BY <1>2, <1>3, <1>6
    <3>2. cdiv(boundary, BlockSize(g)) = idx + 1
      BY <1>2, <1>3, <1>6, CdivBegun
    <3>3. k \in Key /\ Place(k) = <<g, cdiv(boundary, BlockSize(g))>>
      BY <3>1, KeyPlace
    <3> QED BY <3>2, <3>3
  <2> HIDE DEF k, b, idx, blocks
  <2>4. <<g, idx + 1>> \in Places(m, b)
    BY <2>2, NamedOnce DEF blocks
  <2>5. PoolOK(q)
    BY <1>1, <2>2, <2>3, CachePartialOK
  <2>6. /\ q.ref_cnt = m.pool.ref_cnt
        /\ HashesOf(q, b) \subseteq HashesOf(m.pool, b) \cup {k}
        /\ \A c \in Block : c # b => HashesOf(q, c) = HashesOf(m.pool, c)
    BY <1>1, <2>2, <2>3, CachePartialChanges
  <2> HIDE DEF q
  <2>7. n \in Manager /\ n.pool = q /\ n.req_to_blocks = m.req_to_blocks
    <3>1. q \in Pool /\ 0 \in Int /\ n = PoolReplaced(m, q)
      BY <1>6, <2>5 DEF PoolOK
    <3> QED BY <1>1, <3>1, UpdatePool
  <2>8. ASSUME NEW c \in Block, NEW x \in KeysOfBlock(n, c) PROVE Place(x) \in Places(m, c)
    <3>1. CASE x \in HashesOf(m.pool, c)
      BY <3>1 DEF Places
    <3>2. CASE c = b /\ x = k
      BY <2>3, <2>4, <3>2
    <3> QED BY ZenonT(90), <2>6, <2>7, <3>1, <3>2 DEF KeysOfBlock
  <2> QED BY <2>5, <2>6, <2>7, <2>8, RecachedOK
<1> QED BY ZenonT(90), <1>5, <1>6 DEF cache_partial_tail_block, PoolReplaced, Table, boundary

\* A manager's cache_blocks.
LEMMA CacheGroupOK ==
  ASSUME enable_caching, NEW m, ManagerOK(m), NEW g \in Group, NEW r \in Request,
         NEW tokens \in 0 .. Len(all_token_ids[r]),
         tokens \div BlockSize(g) <= Len(Table(m, g, r)),
         NEW n, n = cache_blocks_of_group(m, g, r, tokens)
  PROVE  ManagerOK(n) /\ n.req_to_blocks = m.req_to_blocks
<1> DEFINE w == cache_whole_blocks(m, g, r, tokens)
<1>1. ManagerOK(w) /\ w.req_to_blocks = m.req_to_blocks
  BY CacheWholeOK
<1> HIDE DEF w
<1>2. n = w \/ n = cache_partial_tail_block(w, g, r, tokens)
  BY DEF cache_blocks_of_group, w
<1> QED BY <1>1, <1>2, CachePartialTailOK
=============================================================================
