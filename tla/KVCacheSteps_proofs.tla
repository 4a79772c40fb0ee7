------------------------- MODULE KVCacheSteps_proofs -------------------------
(***************************************************************************)
(* The steps of the requests keep the invariant of the manager, so that    *)
(* the reference counts are right in every reachable state.                *)
(***************************************************************************)
EXTENDS KVCacheSteps, KVCacheManager_proofs

\* The provers of the leaves that name none, in the order they are tried.
USE SMTT(90), ZenonT(20), SMTT(91), SMTT(92)

\* The invariant: that of the manager, and what the requests know of it.
KVInv ==
  /\ ManagerOK(manager)
  /\ num_computed_tokens \in [Request -> Nat]
  /\ num_scheduled_tokens \in [Request -> Nat]
  /\ \A r \in Request : num_tokens[r] \in 1 .. Len(all_token_ids[r])
  /\ \A r \in Request : ~ Admitted(r) => NoTables(manager, r)

\* Only the tables of request r have changed.
OthersKept(m, n, r) ==
  \A g \in Group, q \in Request : q # r => Table(n, g, q) = Table(m, g, q)

\* A change of one table of r keeps those of the others.
LEMMA OthersAfter ==
  ASSUME NEW m, NEW n, NEW x, NEW g \in Group, NEW r \in Request,
         OthersKept(m, x, r), OneTable(x, n, g, r)
  PROVE  OthersKept(m, n, r)
BY DEF OthersKept, OneTable

\* remove_skipped_blocks of the coordinator.
LEMMA RemoveAllOK ==
  ASSUME NEW m, ManagerOK(m), NEW r \in Request, NEW processed \in Nat,
         NEW n, n = remove_skipped_blocks(m, r, processed)
  PROVE  /\ ManagerOK(n) /\ OthersKept(m, n, r) /\ n.pool.cached = m.pool.cached
         /\ NoTables(m, r) => NoTables(n, r)
<1> DEFINE N == Len(Groups)
<1>1. PICK f : Runs(f, "remove", m, r, processed, n)
  BY RemoveRuns
<1> DEFINE Stage(x) == /\ ManagerOK(x) /\ OthersKept(m, x, r) /\ x.pool.cached = m.pool.cached
                       /\ NoTables(m, r) => NoTables(x, r)
           S == {i \in 0 .. N : Stage(f[i])}
<1>2. N \in Nat /\ Group = 1 .. N
  BY GroupsAre
<1>3. 0 \in S
  BY <1>1, <1>2 DEF Runs, OthersKept
<1>4. ASSUME NEW i \in 1 .. N, i - 1 \in S PROVE i \in S
  <2> DEFINE x == f[i - 1]
             y == f[i]
  <2>1. i \in Group /\ i \in 0 .. N /\ Stage(x)
    BY <1>2, <1>4
  <2>2. y = remove_skipped_of_group(x, i, r, processed)
    BY <1>1 DEF Runs, StepOf
  <2> HIDE DEF x, y
  <2>3. /\ ManagerOK(y) /\ OneTable(x, y, i, r) /\ y.pool.cached = x.pool.cached
        /\ Table(x, i, r) = <<>> => Table(y, i, r) = <<>>
    BY <2>1, <2>2, RemoveOK
  <2>4. OthersKept(m, y, r)
    BY <2>1, <2>3, OthersAfter
  <2>5. NoTables(x, r) => NoTables(y, r)
    BY <2>3 DEF NoTables, OneTable, Table
  <2>6. Stage(y)
    BY <2>1, <2>3, <2>4, <2>5
  <2> QED BY <2>1, <2>6 DEF y
<1> HIDE DEF S
<1>5. N \in S
  BY <1>2, <1>3, <1>4, GroupInduction
<1> QED BY <1>1, <1>5 DEF S, Runs

\* The hits of all groups are touched and enter the tables of a request that
\* had none.
LEMMA AddAllOK ==
  ASSUME NEW m, ManagerOK(m), NEW r \in Request, NoTables(m, r), NEW total \in Nat,
         NEW hits, \A g \in Group : HitIn(m.pool.cached, g, hits[g]),
         NEW n, n = AddAll(m, r, hits, total)
  PROVE  ManagerOK(n) /\ OthersKept(m, n, r)
<1> DEFINE N == Len(Groups)
<1>1. PICK f : Runs(f, "add", m, r, <<hits, total>>, n)
  BY AddRuns
<1> DEFINE Stage(x, i) == /\ ManagerOK(x) /\ OthersKept(m, x, r) /\ x.pool.cached = m.pool.cached
                          /\ \A g \in i + 1 .. N : Table(x, g, r) = <<>>
           S == {i \in 0 .. N : Stage(f[i], i)}
<1>2. N \in Nat /\ Group = 1 .. N
  BY GroupsAre
<1>3. 0 \in S
  BY <1>1, <1>2 DEF Runs, OthersKept, NoTables, Table
<1>4. ASSUME NEW i \in 1 .. N, i - 1 \in S PROVE i \in S
  <2> DEFINE x == f[i - 1]
             y == f[i]
  <2>1. i \in Group /\ i \in 0 .. N /\ Stage(x, i - 1) /\ i \in (i - 1) + 1 .. N
    BY <1>2, <1>4
  <2>2. y = add_local_computed_blocks(x, i, r, hits[i], total)
    BY <1>1 DEF Runs, StepOf
  <2> HIDE DEF x, y
  <2>3. HitIn(x.pool.cached, i, hits[i]) /\ Table(x, i, r) = <<>>
    BY <2>1
  <2>4. ManagerOK(y) /\ OneTable(x, y, i, r) /\ y.pool.cached = x.pool.cached
    BY <2>1, <2>2, <2>3, AddLocalOK
  <2>5. OthersKept(m, y, r)
    BY <2>1, <2>4, OthersAfter
  <2>6. ASSUME NEW g \in i + 1 .. N PROVE Table(y, g, r) = <<>>
    <3>1. g \in Group /\ g \in (i - 1) + 1 .. N /\ <<g, r>> # <<i, r>>
      BY <1>2, <2>1
    <3> QED BY <2>1, <2>4, <3>1 DEF OneTable
  <2>7. Stage(y, i)
    BY <2>1, <2>4, <2>5, <2>6
  <2> QED BY ZenonT(90), <2>1, <2>7 DEF y
<1> HIDE DEF S
<1>5. N \in S
  BY <1>2, <1>3, <1>4, GroupInduction
<1> QED BY ZenonT(90), <1>1, <1>5 DEF S, Runs

\* The blocks for externally computed tokens, in all groups.
LEMMA ExternalAllOK ==
  ASSUME NEW m, ManagerOK(m), NEW r \in Request, NEW total \in Nat, NEW external,
         NEW n, n = ExternalAll(m, r, total, external)
  PROVE  ManagerOK(n) /\ OthersKept(m, n, r)
<1> DEFINE N == Len(Groups)
<1>1. PICK f : Runs(f, "external", m, r, <<total, external>>, n)
  BY ExternalRuns
<1> DEFINE Stage(x) == ManagerOK(x) /\ OthersKept(m, x, r)
           S == {i \in 0 .. N : Stage(f[i])}
<1>2. N \in Nat /\ Group = 1 .. N
  BY GroupsAre
<1>3. 0 \in S
  BY <1>1, <1>2 DEF Runs, OthersKept
<1>4. ASSUME NEW i \in 1 .. N, i - 1 \in S PROVE i \in S
  <2> DEFINE x == f[i - 1]
             y == f[i]
  <2>1. i \in Group /\ i \in 0 .. N /\ Stage(x)
    BY <1>2, <1>4
  <2>2. y = allocate_external_computed_blocks(x, i, r, total, external)
    BY <1>1 DEF Runs, StepOf
  <2> HIDE DEF x, y
  <2>3. ManagerOK(y) /\ OneTable(x, y, i, r)
    BY ZenonT(90), <2>1, <2>2, ExternalOK
  <2>4. OthersKept(m, y, r)
    BY <2>1, <2>3, OthersAfter
  <2> QED BY <2>1, <2>3, <2>4 DEF y
<1> HIDE DEF S
<1>5. N \in S
  BY <1>2, <1>3, <1>4, GroupInduction
<1> QED BY <1>1, <1>5 DEF S, Runs

\* allocate_new_blocks of the coordinator: the tables cover the tokens, unless
\* a manager raised.
LEMMA AllocateAllOK ==
  ASSUME NEW m, ManagerOK(m), NEW r \in Request, NEW tokens \in Nat,
         NEW n, n = allocate_new_blocks(m, r, tokens)
  PROVE  /\ ManagerOK(n) /\ OthersKept(m, n, r)
         /\ n.raised \/ \A g \in Group : Len(Table(n, g, r)) >= cdiv(tokens, BlockSize(g))
<1> DEFINE N == Len(Groups)
<1>1. PICK f : Runs(f, "allocate", m, r, tokens, n)
  BY AllocateRuns
<1> DEFINE Stage(x, i) == /\ ManagerOK(x) /\ OthersKept(m, x, r)
                          /\ \/ x.raised
                             \/ \A g \in 1 .. i : Len(Table(x, g, r)) >= cdiv(tokens, BlockSize(g))
           S == {i \in 0 .. N : Stage(f[i], i)}
<1>2. N \in Nat /\ Group = 1 .. N
  BY GroupsAre
<1>3. 0 \in S
  BY <1>1, <1>2 DEF Runs, OthersKept
<1>4. ASSUME NEW i \in 1 .. N, i - 1 \in S PROVE i \in S
  <2> DEFINE x == f[i - 1]
             y == f[i]
  <2>1. i \in Group /\ i \in 0 .. N /\ Stage(x, i - 1)
    BY <1>2, <1>4
  <2>2. y = allocate_blocks_of_group(x, i, r, tokens)
    BY <1>1 DEF Runs, StepOf
  <2> HIDE DEF x, y
  <2>3. /\ ManagerOK(y) /\ OneTable(x, y, i, r) /\ (x.raised => y.raised)
        /\ y.raised \/ Len(Table(y, i, r)) >= cdiv(tokens, BlockSize(i))
    BY ZenonT(90), <2>1, <2>2, AllocateOK
  <2>4. OthersKept(m, y, r)
    BY <2>1, <2>3, OthersAfter
  <2>5. ASSUME ~ y.raised, NEW g \in 1 .. i
        PROVE  Len(Table(y, g, r)) >= cdiv(tokens, BlockSize(g))
    <3>1. CASE g = i
      BY <2>3, <2>5, <3>1
    <3>2. CASE g # i
      <4>1. g \in Group /\ g \in 1 .. i - 1 /\ <<g, r>> # <<i, r>>
        BY <1>2, <2>1, <3>2
      <4>2. Table(y, g, r) = Table(x, g, r)
        BY <2>3, <4>1 DEF OneTable
      <4> QED BY <2>1, <2>3, <2>5, <4>1, <4>2
    <3> QED BY <3>1, <3>2
  <2>6. Stage(y, i)
    BY <2>3, <2>4, <2>5
  <2> QED BY ZenonT(90), <2>1, <2>6 DEF y
<1> HIDE DEF S
<1>5. N \in S
  BY <1>2, <1>3, <1>4, GroupInduction
<1> QED BY <1>1, <1>2, <1>5 DEF S, Runs

\* The tables of r have the whole blocks of its first tokens.
Covered(m, r, tokens) == \A g \in Group : tokens \div BlockSize(g) <= Len(Table(m, g, r))

\* cache_blocks of the coordinator, for tokens that the tables cover.
LEMMA CacheAllOK ==
  ASSUME enable_caching, NEW m, ManagerOK(m), NEW r \in Request,
         NEW tokens \in 0 .. Len(all_token_ids[r]), Covered(m, r, tokens),
         NEW n, n = CacheAll(m, r, tokens)
  PROVE  ManagerOK(n) /\ n.req_to_blocks = m.req_to_blocks
<1> DEFINE N == Len(Groups)
<1>1. PICK f : Runs(f, "cache", m, r, tokens, n)
  BY CacheRuns
<1> DEFINE Stage(x) == ManagerOK(x) /\ x.req_to_blocks = m.req_to_blocks
           S == {i \in 0 .. N : Stage(f[i])}
<1>2. N \in Nat /\ Group = 1 .. N
  BY GroupsAre
<1>3. 0 \in S
  BY <1>1, <1>2 DEF Runs
<1>4. ASSUME NEW i \in 1 .. N, i - 1 \in S PROVE i \in S
  <2> DEFINE x == f[i - 1]
             y == f[i]
  <2>1. i \in Group /\ i \in 0 .. N /\ Stage(x)
    BY <1>2, <1>4
  <2>2. y = cache_blocks_of_group(x, i, r, tokens)
    BY <1>1 DEF Runs, StepOf
  <2> HIDE DEF x, y
  <2>3. tokens \div BlockSize(i) <= Len(Table(x, i, r))
    <3>1. Table(x, i, r) = Table(m, i, r)
      BY <2>1 DEF Table
    <3> QED BY <2>1, <3>1 DEF Covered
  <2>4. ManagerOK(y) /\ y.req_to_blocks = x.req_to_blocks
    BY <2>1, <2>2, <2>3, CacheGroupOK
  <2> QED BY <2>1, <2>4 DEF y
<1> HIDE DEF S
<1>5. N \in S
  BY <1>2, <1>3, <1>4, GroupInduction
<1> QED BY <1>1, <1>5 DEF S, Runs

\* free of the coordinator.
LEMMA FreeAllOK ==
  ASSUME NEW m, ManagerOK(m), NEW r \in Request, NEW n, n = free(m, r)
  PROVE  ManagerOK(n) /\ OthersKept(m, n, r) /\ NoTables(n, r)
<1> DEFINE N == Len(Groups)
<1>1. PICK f : Runs(f, "free", m, r, 0, n)
  BY FreeRuns
<1> DEFINE Stage(x, i) == /\ ManagerOK(x) /\ OthersKept(m, x, r)
                          /\ \A g \in 1 .. i : Table(x, g, r) = <<>>
           S == {i \in 0 .. N : Stage(f[i], i)}
<1>2. N \in Nat /\ Group = 1 .. N
  BY GroupsAre
<1>3. 0 \in S
  BY <1>1, <1>2 DEF Runs, OthersKept
<1>4. ASSUME NEW i \in 1 .. N, i - 1 \in S PROVE i \in S
  <2> DEFINE x == f[i - 1]
             y == f[i]
  <2>1. i \in Group /\ i \in 0 .. N /\ Stage(x, i - 1)
    BY <1>2, <1>4
  <2>2. y = free_of_group(x, i, r)
    BY <1>1 DEF Runs, StepOf
  <2> HIDE DEF x, y
  <2>3. ManagerOK(y) /\ OneTable(x, y, i, r) /\ Table(y, i, r) = <<>>
    BY <2>1, <2>2, FreeOK
  <2>4. OthersKept(m, y, r)
    BY <2>1, <2>3, OthersAfter
  <2>5. ASSUME NEW g \in 1 .. i PROVE Table(y, g, r) = <<>>
    <3>1. CASE g = i
      BY <2>3, <3>1
    <3>2. CASE g # i
      <4>1. g \in Group /\ g \in 1 .. i - 1 /\ <<g, r>> # <<i, r>>
        BY <1>2, <2>1, <3>2
      <4> QED BY <2>1, <2>3, <4>1 DEF OneTable
    <3> QED BY <3>1, <3>2
  <2>6. Stage(y, i)
    BY <2>3, <2>4, <2>5
  <2> QED BY <2>1, <2>6 DEF y
<1> HIDE DEF S
<1>5. N \in S
  BY <1>2, <1>3, <1>4, GroupInduction
<1> QED BY <1>1, <1>2, <1>5 DEF S, Runs, NoTables, Table

-----------------------------------------------------------------------------
(***************************************************************************)
(* The search for a cache hit: it ends with a length within the maximum.   *)
(***************************************************************************)
\* Rounding down stays between zero and the number.
LEMMA AlignDown ==
  ASSUME NEW a \in Nat, NEW b \in Nat \ {0}
  PROVE  a - (a % b) \in 0 .. a
<1>1. /\ a \div b \in Nat /\ a % b \in 0 .. b - 1
      /\ a = b * (a \div b) + (a % b)
  BY ZenonT(90), DivMod
<1>2. b * (a \div b) \in Nat
  BY <1>1
<1> QED BY <1>1, <1>2

\* The hit of a full-attention group.
LEMMA FullHitIs ==
  ASSUME NEW p, NEW g \in Group, NEW r, NEW max \in Nat
  PROVE  FullAttentionHit(p, g, r, max) \in 0 .. max
<1> DEFINE bs == BlockSize(g)
           top == max \div bs
           Ends(k) == /\ \A i \in 0 .. k - 1 : Cached(p, g, r, i)
                      /\ k = top \/ ~ Cached(p, g, r, k)
           n == CHOOSE k \in 0 .. top : Ends(k)
           C == {k \in 0 .. top : k = top \/ ~ Cached(p, g, r, k)}
<1>1. bs \in Nat \ {0} /\ scheduler_block_size \in Nat \ {0}
  BY GroupIs, KVAssumption
<1>2. FullAttentionHit(p, g, r, max) = (n * bs) - ((n * bs) % scheduler_block_size)
  BY DEF FullAttentionHit
<1> HIDE DEF bs
<1>3. top \in Nat
  BY <1>1, DivMod
<1>4. C \in SUBSET Nat /\ C # {}
  <2>1. top \in 0 .. top
    BY <1>3
  <2> QED BY <1>3, <2>1
<1>5. PICK k \in C : \A j \in C : k <= j
  <2> HIDE DEF C
  <2> QED BY <1>4, LeastNatural
<1>6. k \in 0 .. top /\ Ends(k)
  <2>1. ASSUME NEW i \in 0 .. k - 1 PROVE Cached(p, g, r, i)
    <3>1. i \in 0 .. top /\ ~ (k <= i)
      BY <1>3, <1>5
    <3> QED BY <1>5, <3>1
  <2> QED BY <1>5, <2>1
<1>7. n \in 0 .. top
  <2> HIDE DEF Ends
  <2> QED BY <1>6
<1> HIDE DEF n
<1>8. n * bs \in 0 .. max
  BY <1>1, <1>3, <1>7, BlocksWithin
<1> DEFINE y == n * bs
<1>9. y \in Nat /\ y <= max
  BY <1>8
<1> HIDE DEF y
<1>10. y - (y % scheduler_block_size) \in 0 .. y
  BY <1>1, <1>9, AlignDown
<1>11. y - (y % scheduler_block_size) \in 0 .. max
  BY <1>9, <1>10
<1> QED BY <1>2, <1>11 DEF y

\* The run of cached blocks that a sliding-window group looks for.
LEMMA ContiguousIs ==
  ASSUME NEW g \in Group, Windowed(g)
  PROVE  ContiguousBlocks(g) \in Nat \ {0}
<1>1. BlockSize(g) \in Nat \ {0} /\ SlidingWindow(g) - 1 \in Nat
  BY GroupIs
<1>2. contiguous_blocks_for_hit(g) \in Nat
  BY <1>1, CdivCovers DEF contiguous_blocks_for_hit
<1> QED BY <1>2 DEF ContiguousBlocks, Larger

RunSolves(f, p, g, r, n) == f = [i \in 0 .. n |-> RunBody(p, g, r, n, i, f[i + 1])]

\* The equation of run in SlidingWindowHit has a solution.
LEMMA RunExists ==
  ASSUME NEW p, NEW g, NEW r, NEW n \in Nat
  PROVE  \E f : RunSolves(f, p, g, r, n)
<1>1. PICK up : Iterates(up, "run", 0, r, <<p, g, n>>, n)
  BY IteratesExists
<1>2. \A j \in 0 .. n : up[j] = IF j = 0 THEN 0 ELSE RunBody(p, g, r, n, n - j, up[j - 1])
  BY ZenonT(90), <1>1 DEF Iterates, StepOf
<1> DEFINE f == [i \in 0 .. n |-> up[n - i]]
<1>3. ASSUME NEW i \in 0 .. n PROVE f[i] = RunBody(p, g, r, n, i, f[i + 1])
  <2>1. n - i \in 0 .. n /\ n - (n - i) = i
    OBVIOUS
  <2>2. f[i] = up[n - i]
    OBVIOUS
  <2>3. CASE i = n
    BY <1>2, <2>1, <2>2, <2>3 DEF RunBody
  <2>4. CASE i # n
    <3>1. n - i # 0 /\ i + 1 \in 0 .. n /\ n - (i + 1) = (n - i) - 1
      BY <2>4
    <3>2. f[i + 1] = up[(n - i) - 1]
      BY <3>1
    <3> QED BY <1>2, <2>1, <2>2, <3>1, <3>2
  <2> QED BY <2>3, <2>4
<1>4. f = [i \in 0 .. n |-> f[i]]
  OBVIOUS
<1> HIDE DEF f
<1>5. RunSolves(f, p, g, r, n)
  BY ZenonT(90), <1>3, <1>4 DEF RunSolves
<1> QED BY <1>5

\* A run that begins at block i ends within the n blocks.
LEMMA RunWithin ==
  ASSUME NEW p, NEW g, NEW r, NEW n \in Nat, NEW f, RunSolves(f, p, g, r, n)
  PROVE  \A i \in 0 .. n : f[i] \in 0 .. n - i
<1> DEFINE S == {j \in 0 .. n : f[n - j] \in 0 .. j}
<1>1. \A i \in 0 .. n : f[i] = RunBody(p, g, r, n, i, f[i + 1])
  BY DEF RunSolves
<1>2. 0 \in S
  <2>1. f[n] = RunBody(p, g, r, n, n, f[n + 1]) /\ n - 0 = n
    BY <1>1
  <2> QED BY <2>1 DEF RunBody
<1>3. ASSUME NEW k \in Nat, NEW j \in 1 .. k, k <= n, j - 1 \in S PROVE j \in S
  <2>1. n - j \in 0 .. n /\ (n - j) + 1 = n - (j - 1) /\ j \in 0 .. n
    BY <1>3
  <2>2. f[(n - j) + 1] \in 0 .. j - 1
    BY <1>3, <2>1
  <2>3. f[n - j] = RunBody(p, g, r, n, n - j, f[(n - j) + 1])
    BY <1>1, <2>1
  <2>4. f[n - j] \in 0 .. j
    BY <2>2, <2>3 DEF RunBody
  <2> QED BY <2>1, <2>4
<1>4. ASSUME NEW k \in 0 .. n PROVE k \in S
  <2>1. k \in Nat /\ k <= n
    OBVIOUS
  <2> HIDE DEF S
  <2>2. \A j \in 1 .. k : j - 1 \in S => j \in S
    BY <1>3, <2>1
  <2> QED BY <1>2, <2>1, <2>2, GroupInduction
<1> SUFFICES ASSUME NEW i \in 0 .. n PROVE f[i] \in 0 .. n - i
  OBVIOUS
<1>5. n - i \in 0 .. n /\ n - (n - i) = i
  OBVIOUS
<1>6. n - i \in S
  BY <1>4, <1>5
<1> QED BY <1>5, <1>6

\* The hit of a sliding-window group.
LEMMA SlidingHitIs ==
  ASSUME NEW p, NEW g \in Group, Windowed(g), NEW r, NEW max \in Nat
  PROVE  SlidingWindowHit(p, g, r, max) \in 0 .. max
<1> DEFINE bs == BlockSize(g)
           n == max \div bs
           run == CHOOSE f : RunSolves(f, p, g, r, n)
           size == ContiguousBlocks(g)
           matches == {i \in 0 .. n : run[i] = size}
           first == CHOOSE i \in matches : \A j \in matches : j <= i
<1>1. SlidingWindowHit(p, g, r, max) =
        IF matches = {} THEN run[0] * bs ELSE (first + size) * bs
  BY DEF SlidingWindowHit, RunSolves, RunBody
<1>2. bs \in Nat \ {0} /\ size \in Nat \ {0}
  BY GroupIs, ContiguousIs
<1> HIDE DEF bs, size
<1>3. n \in Nat
  BY <1>2, DivMod
<1>4. RunSolves(run, p, g, r, n)
  <2> HIDE DEF n
  <2>1. \E f : RunSolves(f, p, g, r, n)
    BY <1>3, RunExists
  <2> QED BY <2>1
<1> HIDE DEF run
<1>5. \A i \in 0 .. n : run[i] \in 0 .. n - i
  <2> HIDE DEF n
  <2> QED BY <1>3, <1>4, RunWithin
<1>6. ASSUME matches = {} PROVE run[0] * bs \in 0 .. max
  <2>1. run[0] \in 0 .. n
    BY <1>3, <1>5
  <2> QED BY <1>2, <2>1, BlocksWithin
<1>7. ASSUME matches # {} PROVE (first + size) * bs \in 0 .. max
  <2> DEFINE back == {n - i : i \in matches}
  <2>1. back \in SUBSET Nat /\ back # {}
    BY <1>3, <1>7
  <2>2. PICK k \in back : \A j \in back : k <= j
    <3> HIDE DEF back
    <3> QED BY <2>1, LeastNatural
  <2>3. PICK i \in matches : k = n - i
    BY <2>2
  <2>4. \A j \in matches : j <= i
    <3> SUFFICES ASSUME NEW j \in matches PROVE j <= i
      OBVIOUS
    <3>1. n - i <= n - j
      BY <2>2, <2>3
    <3>2. i \in 0 .. n /\ j \in 0 .. n
      OBVIOUS
    <3> HIDE DEF n
    <3> QED BY <1>3, <3>1, <3>2
  <2>5. first \in matches
    <3> HIDE DEF matches
    <3> QED BY <2>4
  <2>6. first \in 0 .. n /\ run[first] = size
    BY <2>5
  <2> HIDE DEF first
  <2>7. first + size \in 0 .. n
    <3>1. size \in 0 .. n - first
      BY <1>5, <2>6
    <3> HIDE DEF n
    <3> QED BY <1>2, <1>3, <2>6, <3>1
  <2> DEFINE total == first + size
  <2>8. total \in 0 .. max \div bs
    BY <2>7
  <2> HIDE DEF total
  <2>9. total * bs \in 0 .. max
    BY <1>2, <2>8, BlocksWithin
  <2> QED BY <2>9 DEF total
<1> QED BY <1>1, <1>6, <1>7

\* The hit of a group.
LEMMA GroupHitIs ==
  ASSUME NEW p, NEW g \in Group, NEW r, NEW max \in Nat
  PROVE  GroupHit(p, g, r, max) \in 0 .. max
BY FullHitIs, SlidingHitIs DEF GroupHit

\* A pass over the groups never makes the candidate longer.
LEMMA PassIs ==
  ASSUME NEW p, NEW r, NEW length \in Nat
  PROVE  HitAll(length, r, p) \in 0 .. length
<1> DEFINE N == Len(Groups)
           n == HitAll(length, r, p)
<1>1. PICK f : Runs(f, "hit", length, r, p, n)
  BY HitRuns
<1> DEFINE S == {i \in 0 .. N : f[i] \in 0 .. length}
<1>2. N \in Nat /\ Group = 1 .. N
  BY GroupsAre
<1>3. 0 \in S
  BY <1>1, <1>2 DEF Runs
<1>4. ASSUME NEW i \in 1 .. N, i - 1 \in S PROVE i \in S
  <2> DEFINE x == f[i - 1]
             y == f[i]
  <2>1. i \in Group /\ i \in 0 .. N /\ x \in 0 .. length
    BY <1>2, <1>4
  <2>2. y = GroupHit(p, i, r, x)
    BY <1>1 DEF Runs, StepOf
  <2> HIDE DEF x, y
  <2>3. x \in Nat
    BY <2>1
  <2>4. y \in 0 .. x
    BY <2>1, <2>2, <2>3, GroupHitIs
  <2>5. y \in 0 .. length
    BY <2>1, <2>4
  <2> QED BY <2>1, <2>5 DEF y
<1> HIDE DEF S
<1>5. N \in S
  BY <1>2, <1>3, <1>4, GroupInduction
<1> QED BY <1>1, <1>5 DEF S, Runs

\* The equation of hit_length has a solution: a candidate that is tried again
\* is shorter.
HitBody(p, r, length, f) ==
  IF HitAll(length, r, p) >= length \/ OnePass THEN HitAll(length, r, p)
  ELSE f[HitAll(length, r, p)]
HitSolves(f, p, r, n) == f = [length \in 0 .. n |-> HitBody(p, r, length, f)]

\* The search of find_longest_cache_hit, which tries a shorter length each time, has
\* a result.
LEMMA HitExists ==
  ASSUME NEW p, NEW r, NEW n \in Nat
  PROVE  \E f : HitSolves(f, p, r, n)
<1> DEFINE S == {i \in Nat : \E f : HitSolves(f, p, r, i)}
<1>1. 0 \in S
  <2> DEFINE f == [l \in 0 .. 0 |-> HitAll(l, r, p)]
  <2>1. ASSUME NEW l \in 0 .. 0 PROVE f[l] = HitBody(p, r, l, f)
    <3>1. l = 0 /\ HitAll(l, r, p) \in 0 .. 0
      BY PassIs
    <3> QED BY <3>1 DEF HitBody
  <2>2. f = [l \in 0 .. 0 |-> f[l]]
    OBVIOUS
  <2> HIDE DEF f
  <2>3. HitSolves(f, p, r, 0)
    BY <2>1, <2>2 DEF HitSolves
  <2> QED BY <2>3
<1>2. ASSUME NEW i \in 1 .. n, i - 1 \in S PROVE i \in S
  <2>1. i \in Nat /\ i - 1 \in Nat
    OBVIOUS
  <2>2. PICK f : HitSolves(f, p, r, i - 1)
    BY <1>2
  <2> DEFINE h == [l \in 0 .. i |-> HitBody(p, r, l, f)]
  <2>3. ASSUME NEW l \in 0 .. i - 1 PROVE h[l] = f[l]
    <3>1. l \in 0 .. i
      BY <2>1
    <3> QED BY <2>2, <3>1 DEF HitSolves
  <2>4. ASSUME NEW l \in 0 .. i PROVE h[l] = HitBody(p, r, l, h)
    <3>1. h[l] = HitBody(p, r, l, f)
      OBVIOUS
    <3> HIDE DEF h
    <3>2. CASE HitAll(l, r, p) >= l \/ OnePass
      BY <3>1, <3>2 DEF HitBody
    <3>3. CASE ~ (HitAll(l, r, p) >= l \/ OnePass)
      <4> DEFINE k == HitAll(l, r, p)
      <4>1. k \in 0 .. l
        BY PassIs
      <4>2. k \in 0 .. i - 1
        BY <3>3, <4>1
      <4>3. h[k] = f[k]
        BY <2>3, <4>2
      <4> QED BY <3>1, <3>3, <4>3 DEF HitBody
    <3> QED BY <3>2, <3>3
  <2>5. h = [l \in 0 .. i |-> h[l]]
    OBVIOUS
  <2> HIDE DEF h
  <2>6. HitSolves(h, p, r, i)
    BY <2>4, <2>5 DEF HitSolves
  <2> QED BY <2>1, <2>6
<1> HIDE DEF S
<1>3. n \in S
  BY <1>1, <1>2, GroupInduction
<1> QED BY <1>3 DEF S

\* find_longest_cache_hit ends, with a length within the maximum.
LEMMA FindHitIs ==
  ASSUME NEW p, NEW r, NEW max \in Nat
  PROVE  find_longest_cache_hit(p, r, max) \in 0 .. max
<1> DEFINE f == CHOOSE f : HitSolves(f, p, r, max)
<1>1. find_longest_cache_hit(p, r, max) = f[max]
  BY DEF find_longest_cache_hit, HitSolves, HitBody, HitAll
<1>2. HitSolves(f, p, r, max)
  BY HitExists
<1> HIDE DEF f
<1>3. \A l \in 0 .. max : f[l] = HitBody(p, r, l, f)
  BY <1>2 DEF HitSolves
<1> DEFINE bad == {l \in 0 .. max : f[l] \notin 0 .. l}
<1>4. ASSUME bad # {} PROVE FALSE
  <2>1. bad \in SUBSET Nat
    OBVIOUS
  <2>2. PICK l \in bad : \A j \in bad : l <= j
    <3> HIDE DEF bad
    <3> QED BY <1>4, <2>1, LeastNatural
  <2>3. l \in 0 .. max /\ f[l] \notin 0 .. l
    OBVIOUS
  <2> DEFINE k == HitAll(l, r, p)
  <2>4. k \in 0 .. l
    BY <2>3, PassIs
  <2>5. CASE k >= l \/ OnePass
    BY <1>3, <2>3, <2>4, <2>5 DEF HitBody
  <2>6. CASE ~ (k >= l \/ OnePass)
    <3>1. f[l] = f[k]
      BY <1>3, <2>3, <2>6 DEF HitBody
    <3> HIDE DEF k
    <3>2. k \in 0 .. max /\ ~ (l <= k)
      BY <2>3, <2>4, <2>6
    <3>3. f[k] \in 0 .. k
      BY <2>2, <3>2
    <3> QED BY <2>3, <2>4, <3>1, <3>3
  <2> QED BY <2>5, <2>6
<1>5. max \in 0 .. max
  OBVIOUS
<1> QED BY <1>1, <1>4, <1>5

-----------------------------------------------------------------------------
\* The blocks of a hit are in the places of their keys.
LEMMA HitsIn ==
  ASSUME NEW m, ManagerOK(m), NEW g \in Group, NEW r \in Request,
         NEW length \in 0 .. Len(all_token_ids[r]),
         NEW hit \in HitTables(m.pool, g, r, length)
  PROVE  HitIn(m.pool.cached, g, hit)
<1> DEFINE size == BlockSize(g)
           n == length \div size
           first == IF Windowed(g) THEN Larger(n - ContiguousBlocks(g), 0) ELSE 0
           found(i) == IF i <= first THEN {null_block}
                       ELSE m.pool.cached[KeyOf(g, r, i * size)]
<1>1. size \in Nat \ {0} /\ Len(all_token_ids[r]) \in Nat /\ length \in Nat
  BY GroupIs, LengthIs
<1>2. n \in Nat
  BY ZenonT(90), <1>1, DivMod
<1>3. DOMAIN hit = 1 .. n /\ hit = [i \in 1 .. n |-> hit[i]] /\ \A i \in 1 .. n : hit[i] \in found(i)
  BY DEF HitTables
<1>4. m.pool.cached \in [Key -> SUBSET Block]
  BY ZenonT(90) DEF ManagerOK, PoolOK, Pool
<1>5. ~ Windowed(g) => first = 0
  OBVIOUS
<1> HIDE DEF size, first
<1>6. ASSUME NEW i \in 1 .. n
      PROVE  /\ KeyOf(g, r, i * size) \in Key /\ Place(KeyOf(g, r, i * size)) = <<g, i>>
  <2>1. i \in Nat /\ i >= 1 /\ i \in 0 .. length \div size
    BY <1>2
  <2>2. i * size \in 0 .. length
    BY <1>1, <2>1, BlocksWithin
  <2> DEFINE k == i * size
  <2>3. k \in 1 .. Len(all_token_ids[r])
    <3>1. i * size >= 1
      BY <1>1, <2>1
    <3> QED BY <1>1, <2>2, <3>1
  <2>4. cdiv(k, size) = i
    BY <1>1, <2>1, CdivWhole
  <2> HIDE DEF k
  <2>5. KeyOf(g, r, k) \in Key /\ Place(KeyOf(g, r, k)) = <<g, cdiv(k, BlockSize(g))>>
    BY <2>3, KeyPlace
  <2> QED BY <2>4, <2>5 DEF k, size
<1>7. ASSUME NEW i \in 1 .. n
      PROVE  \/ hit[i] = null_block /\ i <= first
             \/ hit[i] \in Block /\ hit[i] \in m.pool.cached[KeyOf(g, r, i * size)]
  BY <1>3, <1>4, <1>6
<1> HIDE DEF n, found
<1>8. \A i \in 1 .. n : hit[i] \in TableBlock
  BY <1>7 DEF TableBlock
<1>9. hit \in Seq(TableBlock) /\ Len(hit) = n
  BY <1>2, <1>3, <1>8
<1>10. ASSUME ~ Windowed(g) PROVE hit \in Seq(Block)
  <2>1. \A i \in 1 .. n : hit[i] \in Block
    BY <1>2, <1>5, <1>7, <1>10
  <2> QED BY <1>2, <1>3, <2>1
<1>11. ASSUME NEW i \in 1 .. Len(hit), hit[i] \in Block
       PROVE  \E k \in Key : hit[i] \in m.pool.cached[k] /\ Place(k) = <<g, i>>
  <2>1. hit[i] # null_block /\ i \in 1 .. n
    BY <1>9, <1>11 DEF Block, null_block
  <2> QED BY <1>6, <1>7, <2>1
<1> QED BY <1>9, <1>10, <1>11 DEF HitIn

\* What a caller of allocate_slots hands over: nothing computed, or a request
\* without tables and the blocks of its hit.
HitsFor(m, r, hits, external) ==
  \/ external = 0 /\ \A g \in Group : hits[g] = <<>>
  \/ NoTables(m, r) /\ \A g \in Group : HitIn(m.pool.cached, g, hits[g])

\* allocate_new_computed_blocks of the coordinator.
LEMMA ComputedOK ==
  ASSUME NEW m, ManagerOK(m), NEW r \in Request, NoTables(m, r),
         NEW hits, \A g \in Group : HitIn(m.pool.cached, g, hits[g]),
         NEW local \in Nat, NEW external \in Nat,
         NEW n, n = allocate_new_computed_blocks(m, r, hits, local, external)
  PROVE  ManagerOK(n) /\ OthersKept(m, n, r)
<1> DEFINE total == local + external
           t == AddAll(m, r, hits, total)
<1>1. total \in Nat
  OBVIOUS
<1>2. ManagerOK(t) /\ OthersKept(m, t, r)
  <2> HIDE DEF total
  <2> QED BY <1>1, AddAllOK
<1>3. n = m \/ n = t \/ n = ExternalAll(t, r, total, external)
  BY ZenonT(90) DEF allocate_new_computed_blocks, AddAll, ExternalAll
<1> HIDE DEF t, total
<1>4. CASE n = m
  BY <1>4 DEF OthersKept
<1>5. CASE n = t
  BY <1>2, <1>5
<1>6. CASE n = ExternalAll(t, r, total, external)
  <2>1. ManagerOK(n) /\ OthersKept(t, n, r)
    BY <1>1, <1>2, <1>6, ExternalAllOK
  <2> QED BY <1>2, <2>1 DEF OthersKept
<1> QED BY <1>3, <1>4, <1>5, <1>6

\* The tokens that are cached: whole multiples of the alignment, within what the
\* request has and within the slots that were allocated.
LEMMA CachedTokens ==
  ASSUME NEW r \in Request, num_tokens[r] \in 1 .. Len(all_token_ids[r]),
         NEW total \in Nat, NEW new \in Nat, NEW slots,
         slots = Smaller(total + new + num_lookahead_tokens, max_model_len),
         NEW computed, computed = Smaller(total + new, num_tokens[r]),
         NEW tokens, tokens = computed - (computed % scheduler_block_size)
  PROVE  tokens \in 0 .. Len(all_token_ids[r]) /\ tokens <= slots /\ slots \in Nat
<1>1. /\ num_lookahead_tokens \in Nat /\ max_model_len \in Nat /\ scheduler_block_size \in Nat \ {0}
      /\ Len(all_token_ids[r]) \in 0 .. max_model_len
  BY KVAssumption
<1>2. computed \in Nat /\ computed <= total + new /\ computed <= num_tokens[r]
  BY <1>1 DEF Smaller
<1>3. tokens \in 0 .. computed
  BY <1>1, <1>2, AlignDown
<1> QED BY <1>1, <1>2, <1>3 DEF Smaller

\* allocate_slots once the skipped blocks are removed.
LEMMA AllocateInOK ==
  ASSUME NEW m, ManagerOK(m), NEW r \in Request, num_tokens[r] \in 1 .. Len(all_token_ids[r]),
         NEW new \in Nat, NEW local \in Nat, NEW external \in Nat, NEW spare,
         NEW hits, HitsFor(m, r, hits, external),
         NEW n, n = AllocateIn(m, r, new, hits, local, external, FALSE, spare).m
  PROVE  ManagerOK(n) /\ OthersKept(m, n, r)
<1> DEFINE total == Smaller(local + external, max_model_len)
           slots == Smaller(total + new + num_lookahead_tokens, max_model_len)
           with_hits == IF external > 0 \/ \E g \in Group : hits[g] # <<>>
                        THEN allocate_new_computed_blocks(m, r, hits, local, external) ELSE m
           a == allocate_new_blocks(with_hits, r, slots)
           computed == Smaller(total + new, num_tokens[r])
           tokens == computed - (computed % scheduler_block_size)
<1>1. \/ n = m
      \/ n = a
      \/ enable_caching /\ ~ a.raised /\ n = CacheAll(a, r, tokens)
  BY ZenonT(90) DEF AllocateIn, cache_blocks, CacheAll
<1>2. ManagerOK(with_hits) /\ OthersKept(m, with_hits, r)
  <2>1. CASE with_hits = m
    BY ZenonT(90), <2>1 DEF OthersKept
  <2>2. CASE with_hits # m
    <3>1. ~ (external = 0 /\ \A g \in Group : hits[g] = <<>>)
      BY <2>2
    <3>2. NoTables(m, r) /\ \A g \in Group : HitIn(m.pool.cached, g, hits[g])
      BY ZenonT(90), <3>1 DEF HitsFor
    <3>3. with_hits = allocate_new_computed_blocks(m, r, hits, local, external)
      BY ZenonT(90), <2>2
    <3> HIDE DEF with_hits
    <3> QED BY <3>2, <3>3, ComputedOK
  <2> QED BY ZenonT(90), <2>1, <2>2
<1> HIDE DEF with_hits
<1>3. total \in Nat
  BY KVAssumption DEF Smaller
<1> HIDE DEF total
<1>4. tokens \in 0 .. Len(all_token_ids[r]) /\ tokens <= slots /\ slots \in Nat
  BY <1>3, CachedTokens
<1> HIDE DEF slots, tokens, computed
<1>5. /\ ManagerOK(a) /\ OthersKept(with_hits, a, r)
      /\ a.raised \/ \A g \in Group : Len(Table(a, g, r)) >= cdiv(slots, BlockSize(g))
  BY ZenonT(90), <1>2, <1>4, AllocateAllOK
<1> HIDE DEF a
<1>6. OthersKept(m, a, r)
  BY <1>2, <1>5 DEF OthersKept
<1>7. CASE n = m
  BY ZenonT(90), <1>7 DEF OthersKept
<1>8. CASE n = a
  BY ZenonT(90), <1>5, <1>6, <1>8
<1>9. CASE enable_caching /\ ~ a.raised /\ n = CacheAll(a, r, tokens)
  <2>1. ASSUME NEW g \in Group PROVE tokens \div BlockSize(g) <= Len(Table(a, g, r))
    <3>1. tokens \in Nat /\ BlockSize(g) \in Nat \ {0}
      BY <1>4, LengthIs, GroupIs
    <3>2. cdiv(slots, BlockSize(g)) \in Nat /\ tokens \div BlockSize(g) <= cdiv(slots, BlockSize(g))
      BY ZenonT(90), <1>4, <3>1, CdivCovers
    <3>3. Len(Table(a, g, r)) >= cdiv(slots, BlockSize(g)) /\ Len(Table(a, g, r)) \in Nat
      BY <1>5, <1>9, TableIs
    <3>4. tokens \div BlockSize(g) \in Nat
      BY ZenonT(90), <3>1, DivMod
    <3> QED BY <3>2, <3>3, <3>4
  <2>2. Covered(a, r, tokens)
    BY <2>1 DEF Covered
  <2>3. /\ enable_caching /\ ManagerOK(a) /\ tokens \in 0 .. Len(all_token_ids[r])
        /\ n = CacheAll(a, r, tokens)
    BY <1>4, <1>5, <1>9, ZenonT(90)
  <2>4. ASSUME NEW t \in 0 .. Len(all_token_ids[r]), Covered(a, r, t), NEW c, c = CacheAll(a, r, t)
        PROVE  ManagerOK(c) /\ c.req_to_blocks = a.req_to_blocks
    BY <2>3, <2>4, CacheAllOK
  <2>5. ManagerOK(n) /\ n.req_to_blocks = a.req_to_blocks
    BY <2>2, <2>3, <2>4, ZenonT(90)
  <2> QED BY ZenonT(90), <1>6, <2>5 DEF OthersKept, Table
<1> QED BY ZenonT(90), <1>1, <1>7, <1>8, <1>9

\* allocate_slots: the skipped blocks are removed first, if the request fits.
LEMMA AllocateSlotsOK ==
  ASSUME NEW m, ManagerOK(m), NEW r \in Request, num_tokens[r] \in 1 .. Len(all_token_ids[r]),
         NEW new \in Nat, NEW local \in Nat, NEW external \in Nat,
         NEW hits, HitsFor(m, r, hits, external), NEW waiting, NEW others,
         NEW n, n = allocate_slots(m, r, new, hits, local, external, 0, waiting, others, FALSE, 0).m
  PROVE  ManagerOK(n) /\ OthersKept(m, n, r)
<1> DEFINE total == Smaller(local + external, max_model_len)
           processed == Larger(0, total - 0)
           trimmed == remove_skipped_blocks(m, r, processed)
           watermark == IF waiting /\ others THEN watermark_blocks ELSE 0
           spare == watermark + 0
<1>1. n = m \/ n = AllocateIn(trimmed, r, new, hits, local, external, FALSE, spare).m
  BY ZenonT(90) DEF allocate_slots
<1>2. processed \in Nat
  BY KVAssumption DEF Smaller, Larger
<1> HIDE DEF processed, spare
<1>3. /\ ManagerOK(trimmed) /\ OthersKept(m, trimmed, r) /\ trimmed.pool.cached = m.pool.cached
      /\ NoTables(m, r) => NoTables(trimmed, r)
  BY <1>2, RemoveAllOK
<1> HIDE DEF trimmed
<1>4. HitsFor(trimmed, r, hits, external)
  BY ZenonT(90), <1>3 DEF HitsFor
<1>5. CASE n = m
  BY ZenonT(90), <1>5 DEF OthersKept
<1>6. CASE n = AllocateIn(trimmed, r, new, hits, local, external, FALSE, spare).m
  <2>1. ManagerOK(n) /\ OthersKept(trimmed, n, r)
    BY ZenonT(90), <1>3, <1>4, <1>6, AllocateInOK
  <2> QED BY ZenonT(90), <1>3, <2>1 DEF OthersKept
<1> QED BY ZenonT(90), <1>1, <1>5, <1>6

\* The length of the hit of a request.
LEMMA HitLengthIs ==
  ASSUME NEW p, NEW r \in Request, num_tokens[r] \in 1 .. Len(all_token_ids[r])
  PROVE  HitLength(p, r) \in 0 .. Len(all_token_ids[r])
<1>1. Len(all_token_ids[r]) \in Nat /\ num_tokens[r] - 1 \in Nat
  BY LengthIs
<1>2. find_longest_cache_hit(p, r, num_tokens[r] - 1) \in 0 .. num_tokens[r] - 1
  BY <1>1, FindHitIs
<1> QED BY <1>1, <1>2 DEF HitLength

\* What get_computed_blocks returns can be handed to allocate_slots.
LEMMA ComputedHits ==
  ASSUME NEW m, ManagerOK(m), NEW r \in Request, num_tokens[r] \in 1 .. Len(all_token_ids[r]),
         NoTables(m, r), NEW hits \in get_computed_blocks(m.pool, r), NEW external
  PROVE  HitsFor(m, r, hits, external)
<1> DEFINE length == HitLength(m.pool, r)
<1>1. length \in 0 .. Len(all_token_ids[r])
  BY HitLengthIs
<1>2. \A g \in Group : hits[g] \in HitTables(m.pool, g, r, length)
  BY DEF get_computed_blocks, HitBlocks
<1> HIDE DEF length
<1>3. \A g \in Group : HitIn(m.pool.cached, g, hits[g])
  BY <1>1, <1>2, HitsIn
<1> QED BY <1>3 DEF HitsFor

\* reset_prefix_cache of the manager.
LEMMA ResetManagerOK ==
  ASSUME NEW m, ManagerOK(m), NEW n, n = PoolReplaced(m, reset_prefix_cache(m.pool))
  PROVE  ManagerOK(n) /\ n.req_to_blocks = m.req_to_blocks
<1> DEFINE p == m.pool
           q == reset_prefix_cache(p)
<1>1. m \in Manager /\ PoolOK(p)
  BY DEF ManagerOK
<1>2. PoolOK(q)
  BY <1>1, ResetOK
<1>3. /\ q.ref_cnt = p.ref_cnt
      /\ \A b \in Block : HashesOf(q, b) = HashesOf(p, b) \/ HashesOf(q, b) = {}
  <2>1. p \in Pool
    BY <1>1 DEF PoolOK
  <2> DEFINE c == [p EXCEPT !.block_hash = [b \in Block |-> NoHash],
                            !.other_hashes = [b \in Block |-> {}],
                            !.cached = [k \in Key |-> {}],
                            !.view = {}]
  <2>2. c.ref_cnt = p.ref_cnt /\ \A b \in Block : c.block_hash[b] = NoHash /\ c.other_hashes[b] = {}
    BY <2>1, ZenonT(90) DEF Pool
  <2>3. q = p \/ q = c
    BY DEF reset_prefix_cache
  <2> HIDE DEF c, q
  <2> QED BY ZenonT(90), <2>2, <2>3 DEF HashesOf
<1> HIDE DEF q
<1>4. n \in Manager /\ n.pool = q /\ n.req_to_blocks = m.req_to_blocks
  BY <1>1, <1>2, ZenonT(90) DEF PoolReplaced, Manager, PoolOK, q
<1>5. \A b \in Block : \A k \in KeysOfBlock(n, b) : Place(k) \in Places(m, b)
  BY <1>3, <1>4 DEF KeysOfBlock, Places
<1>6. ~ enable_caching => \A b \in Block : KeysOfBlock(n, b) = {}
  BY <1>3, <1>4 DEF KeysOfBlock, ManagerOK
<1>7. PoolOK(n.pool) /\ n.pool.ref_cnt = m.pool.ref_cnt
  BY ZenonT(90), <1>2, <1>3, <1>4
<1> QED BY <1>4, <1>5, <1>6, <1>7, RecachedOK

-----------------------------------------------------------------------------
(***************************************************************************)
(* The steps of the engine.                                                *)
(***************************************************************************)
\* The state of the manager after a step.
LEMMA BecomesIs ==
  ASSUME NEW n \in Manager, Becomes(n)
  PROVE  manager' = n
BY DEF Becomes, manager, Manager

\* What the invariant needs of a step of request r.
LEMMA StepOK ==
  ASSUME KVInv, NEW r \in Request, NEW n, ManagerOK(n), OthersKept(manager, n, r), Becomes(n),
         UNCHANGED num_tokens,
         num_computed_tokens' \in [Request -> Nat], num_scheduled_tokens' \in [Request -> Nat],
         \A q \in Request \ {r} : /\ num_computed_tokens'[q] = num_computed_tokens[q]
                                  /\ num_scheduled_tokens'[q] = num_scheduled_tokens[q],
         Admitted(r)' \/ NoTables(n, r)
  PROVE  KVInv'
<1>1. manager' = n
  BY ZenonT(90), BecomesIs DEF ManagerOK
<1>2. ASSUME NEW q \in Request, ~ Admitted(q)' PROVE NoTables(n, q)
  <2>1. CASE q = r
    BY <1>2, <2>1
  <2>2. CASE q # r
    <3>1. ~ Admitted(q)
      BY ZenonT(90), <1>2, <2>2 DEF Admitted, Scheduled
    <3>2. NoTables(manager, q)
      BY <3>1 DEF KVInv
    <3> QED BY ZenonT(90), <2>2, <3>2 DEF OthersKept, NoTables, Table
  <2> QED BY ZenonT(90), <2>1, <2>2
<1>3. \A q \in Request : num_tokens'[q] \in 1 .. Len(all_token_ids[q])
  BY DEF KVInv
<1>4. ManagerOK(manager') /\ \A q \in Request : ~ Admitted(q)' => NoTables(manager', q)
  BY ZenonT(90), <1>1, <1>2
<1> QED BY <1>3, <1>4 DEF KVInv

\* The manager starts consistent.
LEMMA InitOK ==
  ASSUME KVInit
  PROVE  KVInv
<1>1. /\ pool = EmptyPool /\ req_to_blocks = [g \in Group |-> [r \in Request |-> <<>>]]
      /\ num_cached_block = [g \in Group |-> [r \in Request |-> Absent]] /\ raised = FALSE
      /\ num_tokens = num_prompt_tokens
      /\ num_computed_tokens = [r \in Request |-> 0] /\ num_scheduled_tokens = [r \in Request |-> 0]
  BY DEF KVInit, ManagerInit, PoolInit
<1>2. PoolOK(pool)
  BY <1>1, EmptyOK
<1>3. \A b \in Block : pool.ref_cnt[b] = 0 /\ HashesOf(pool, b) = {}
  BY <1>1 DEF EmptyPool, HashesOf
<1>4. manager \in Manager
  <2>1. <<>> \in Seq(TableBlock) /\ Absent \in Int
    BY DEF Absent
  <2>2. /\ req_to_blocks \in [Group -> [Request -> Seq(TableBlock)]]
        /\ num_cached_block \in [Group -> [Request -> Int]] /\ raised \in BOOLEAN
    BY ZenonT(90), <1>1, <2>1
  <2> QED BY <1>2, <2>2, ZenonT(90) DEF manager, Manager, PoolOK
<1>5. /\ manager.pool = pool /\ manager.req_to_blocks = req_to_blocks
  BY DEF manager
<1>6. \A g \in Group, r \in Request : req_to_blocks[g][r] = <<>>
  BY <1>1
<1>7. ASSUME NEW b PROVE Named(manager, b) = {}
  <2>1. \A g \in Group, r \in Request : Naming(Table(manager, g, r), b) = {}
    BY <1>5, <1>6 DEF Naming, Table
  <2> QED BY <2>1, EntryIs
<1> HIDE DEF manager
<1>8. Counted(manager)
  BY ZenonT(90), <1>3, <1>5, <1>7, FS_EmptySet DEF Counted, Named
<1>9. OnePlace(manager)
  <2>1. ASSUME NEW b \in Block PROVE Places(manager, b) = {}
    <3>1. Entries(manager.req_to_blocks, b) = {} /\ HashesOf(manager.pool, b) = {}
      BY <1>3, <1>5, <1>7 DEF Named
    <3> QED BY <3>1 DEF Places
  <2> QED BY <2>1 DEF OnePlace
<1>10. ManagerOK(manager)
  <2>1. \A g \in Group, r \in Request : manager.req_to_blocks[g][r] \in Seq(Block)
    <3>1. <<>> \in Seq(Block)
      OBVIOUS
    <3> QED BY ZenonT(90), <1>5, <1>6, <3>1
  <2>2. PoolOK(manager.pool) /\ \A b \in Block : HashesOf(manager.pool, b) = {}
    BY <1>2, <1>3, <1>5
  <2> QED BY <1>4, <1>8, <1>9, <2>1, <2>2, ZenonT(90) DEF ManagerOK
<1>11. \A r \in Request : num_tokens[r] \in 1 .. Len(all_token_ids[r])
  BY <1>1, KVAssumption
<1>12. \A r \in Request : NoTables(manager, r)
  BY <1>5, <1>6 DEF NoTables
<1> QED BY <1>1, <1>10, <1>11, <1>12 DEF KVInv

\* A waiting request is admitted.
LEMMA AdmitStep ==
  ASSUME KVInv, NEW r \in Request, NEW external \in 0 .. MaxExternal, NEW new \in Chunk,
         AdmitRequest(r, external, new)
  PROVE  KVInv'
<1> DEFINE local == HitLength(pool, r)
           others == \E q \in Request : Admitted(q)
<1>1. PICK hits \in get_computed_blocks(pool, r) :
        Becomes(allocate_slots(manager, r, new, hits, local, external, 0, TRUE, others, FALSE, 0).m)
  BY ZenonT(90) DEF AdmitRequest
<1> DEFINE n == allocate_slots(manager, r, new, hits, local, external, 0, TRUE, others, FALSE, 0).m
<1>2. /\ UNCHANGED num_tokens
      /\ num_computed_tokens' = [num_computed_tokens EXCEPT ![r] = local + external]
      /\ num_scheduled_tokens' = [num_scheduled_tokens EXCEPT ![r] = new]
      /\ ~ Admitted(r)
  BY DEF AdmitRequest
<1>3. /\ ManagerOK(manager) /\ NoTables(manager, r) /\ num_tokens[r] \in 1 .. Len(all_token_ids[r])
      /\ num_computed_tokens \in [Request -> Nat] /\ num_scheduled_tokens \in [Request -> Nat]
  BY <1>2 DEF KVInv
<1>4. local \in Nat
  BY <1>3, HitLengthIs, LengthIs
<1>5. external \in Nat /\ new \in Nat /\ new > 0
  BY KVAssumption DEF Chunk
<1>6. manager.pool = pool
  BY DEF manager
<1> HIDE DEF local, others
<1>7. HitsFor(manager, r, hits, external)
  BY <1>3, <1>6, ComputedHits
<1>8. ManagerOK(n) /\ OthersKept(manager, n, r)
  BY ZenonT(90), <1>3, <1>4, <1>5, <1>7, AllocateSlotsOK
<1>9. Becomes(n)
  BY ZenonT(90), <1>1
<1> HIDE DEF n
<1>10. /\ num_computed_tokens' \in [Request -> Nat] /\ num_scheduled_tokens' \in [Request -> Nat]
       /\ \A q \in Request \ {r} : /\ num_computed_tokens'[q] = num_computed_tokens[q]
                                   /\ num_scheduled_tokens'[q] = num_scheduled_tokens[q]
       /\ num_scheduled_tokens'[r] > 0
  BY <1>2, <1>3, <1>4, <1>5
<1>11. Admitted(r)'
  BY <1>10 DEF Admitted, Scheduled
<1> QED BY <1>2, <1>8, <1>9, <1>10, <1>11, StepOK

\* A running request gets slots, or only loses its skipped blocks.
LEMMA RunningStep ==
  ASSUME KVInv, NEW r \in Request, NEW new \in Chunk, ScheduleRunning(r, new)
  PROVE  KVInv'
<1> DEFINE hits == [g \in Group |-> <<>>]
           result == allocate_slots(manager, r, new, hits, num_computed_tokens[r], 0, 0,
                                    FALSE, FALSE, FALSE, 0)
           n == result.m
<1>1. /\ UNCHANGED <<num_tokens, num_computed_tokens>> /\ Becomes(n)
      /\ num_scheduled_tokens' = [num_scheduled_tokens EXCEPT ![r] = IF result.ok THEN new ELSE 0]
      /\ Admitted(r) /\ ~ Scheduled(r)
  BY ZenonT(90) DEF ScheduleRunning
<1>2. /\ ManagerOK(manager) /\ num_tokens[r] \in 1 .. Len(all_token_ids[r])
      /\ num_computed_tokens \in [Request -> Nat] /\ num_scheduled_tokens \in [Request -> Nat]
  BY DEF KVInv
<1>3. num_computed_tokens[r] \in Nat /\ 0 \in Nat /\ new \in Nat
  BY <1>2, KVAssumption DEF Chunk
<1>4. HitsFor(manager, r, hits, 0)
  BY DEF HitsFor
<1> HIDE DEF hits, result
<1>5. ManagerOK(n) /\ OthersKept(manager, n, r)
  BY ZenonT(90), <1>2, <1>3, <1>4, AllocateSlotsOK DEF result
<1> HIDE DEF n
<1>6. /\ num_computed_tokens' \in [Request -> Nat] /\ num_scheduled_tokens' \in [Request -> Nat]
      /\ \A q \in Request \ {r} : /\ num_computed_tokens'[q] = num_computed_tokens[q]
                                  /\ num_scheduled_tokens'[q] = num_scheduled_tokens[q]
  BY <1>1, <1>2, <1>3
<1>7. Admitted(r)'
  BY <1>1 DEF Admitted, Scheduled
<1> QED BY <1>1, <1>5, <1>6, <1>7, StepOK

\* A request gives its blocks back.
LEMMA ReleaseStep ==
  ASSUME KVInv, NEW r \in Request, Release(r)
  PROVE  KVInv'
<1> DEFINE n == free(manager, r)
<1>1. /\ UNCHANGED <<num_tokens, num_scheduled_tokens>> /\ Becomes(n)
      /\ num_computed_tokens' = [num_computed_tokens EXCEPT ![r] = 0]
  BY DEF Release
<1>2. /\ ManagerOK(manager)
      /\ num_computed_tokens \in [Request -> Nat] /\ num_scheduled_tokens \in [Request -> Nat]
  BY DEF KVInv
<1>3. ManagerOK(n) /\ OthersKept(manager, n, r) /\ NoTables(n, r)
  BY <1>2, FreeAllOK
<1> HIDE DEF n
<1>4. /\ num_computed_tokens' \in [Request -> Nat] /\ num_scheduled_tokens' \in [Request -> Nat]
      /\ \A q \in Request \ {r} : /\ num_computed_tokens'[q] = num_computed_tokens[q]
                                  /\ num_scheduled_tokens'[q] = num_scheduled_tokens[q]
  BY <1>1, <1>2
<1> QED BY <1>1, <1>3, <1>4, StepOK

\* The step executes: the tables stay.
LEMMA ExecuteKeeps ==
  ASSUME KVInv, ExecuteStep
  PROVE  KVInv'
<1>1. /\ num_computed_tokens' = [r \in Request |-> num_computed_tokens[r] + num_scheduled_tokens[r]]
      /\ num_tokens' = [r \in Request |->
           IF Scheduled(r) /\ num_computed_tokens'[r] = num_tokens[r]
           THEN Smaller(num_tokens[r] + 1, Len(all_token_ids[r])) ELSE num_tokens[r]]
      /\ num_scheduled_tokens' = [r \in Request |-> 0]
      /\ UNCHANGED <<pool, req_to_blocks, num_cached_block, raised>>
  BY ZenonT(90) DEF ExecuteStep
<1>2. manager' = manager
  BY <1>1 DEF manager
<1>3. /\ num_computed_tokens \in [Request -> Nat] /\ num_scheduled_tokens \in [Request -> Nat]
      /\ \A r \in Request : num_tokens[r] \in 1 .. Len(all_token_ids[r])
      /\ \A r \in Request : ~ Admitted(r) => NoTables(manager, r)
      /\ ManagerOK(manager)
  BY DEF KVInv
<1>4. num_computed_tokens' \in [Request -> Nat] /\ num_scheduled_tokens' \in [Request -> Nat]
  BY <1>1, <1>3
<1>5. \A r \in Request : num_tokens'[r] \in 1 .. Len(all_token_ids[r])
  BY <1>1, <1>3, LengthIs DEF Smaller
<1>6. ASSUME NEW r \in Request, ~ Admitted(r)' PROVE NoTables(manager, r)
  <2>1. ~ Admitted(r)
    BY <1>1, <1>3, <1>6 DEF Admitted, Scheduled
  <2> QED BY <1>3, <2>1
<1>7. ManagerOK(manager') /\ \A r \in Request : ~ Admitted(r)' => NoTables(manager', r)
  BY <1>2, <1>3, <1>6
<1> QED BY <1>4, <1>5, <1>7 DEF KVInv

\* The prefix cache is reset: the tables stay.
LEMMA ResetKeeps ==
  ASSUME KVInv, KVResetPrefixCache
  PROVE  KVInv'
<1> DEFINE n == PoolReplaced(manager, reset_prefix_cache(manager.pool))
<1>1. /\ Becomes(n)
      /\ UNCHANGED <<num_tokens, num_computed_tokens, num_scheduled_tokens>>
  BY DEF KVResetPrefixCache, PoolReplaced
<1>2. ManagerOK(n) /\ n.req_to_blocks = manager.req_to_blocks
  BY ResetManagerOK DEF KVInv
<1> HIDE DEF n
<1>3. manager' = n
  BY <1>1, <1>2, BecomesIs DEF ManagerOK
<1>4. \A r \in Request : (Admitted(r)' <=> Admitted(r)) /\ (NoTables(n, r) <=> NoTables(manager, r))
  BY <1>1, <1>2 DEF Admitted, Scheduled, NoTables
<1>5. ManagerOK(manager') /\ \A r \in Request : ~ Admitted(r)' => NoTables(manager', r)
  BY <1>2, <1>3, <1>4 DEF KVInv
<1> QED BY <1>1, <1>5 DEF KVInv

\* Every step of the engine keeps the invariant.
LEMMA KVInvariant == KVSpec => []KVInv
<1>1. KVInit => KVInv
  BY InitOK
<1>2. ASSUME KVInv, [KVNext]_kvVars PROVE KVInv'
  <2>1. ASSUME NEW r \in Request, NEW e \in 0 .. MaxExternal, NEW n \in Chunk,
               AdmitRequest(r, e, n)
        PROVE  KVInv'
    BY <1>2, <2>1, AdmitStep
  <2>2. ASSUME NEW r \in Request, NEW n \in Chunk, ScheduleRunning(r, n) PROVE KVInv'
    BY <1>2, <2>2, RunningStep
  <2>3. CASE ExecuteStep
    BY <1>2, <2>3, ExecuteKeeps
  <2>4. ASSUME NEW r \in Request, Preempt(r) \/ Finish(r) PROVE KVInv'
    BY <1>2, <2>4, ReleaseStep DEF Preempt, Finish
  <2>5. CASE KVResetPrefixCache
    BY <1>2, <2>5, ResetKeeps
  <2>6. CASE UNCHANGED kvVars
    <3>1. /\ manager' = manager /\ UNCHANGED <<num_tokens, num_computed_tokens, num_scheduled_tokens>>
      BY <2>6 DEF kvVars, manager
    <3> QED BY <1>2, <3>1 DEF KVInv, Admitted, Scheduled
  <2> QED BY <1>2, <2>1, <2>2, <2>3, <2>4, <2>5, <2>6 DEF KVNext
<1> QED BY <1>1, <1>2, PTL DEF KVSpec

\* The reference count of a block is the number of block-table entries that name
\* it, for every number of blocks, every set of requests and every configuration
\* of groups: no block leaks when requests are admitted with cached prefixes,
\* leave their window, are preempted or finish, and none is given to another
\* request while a table still names it.
THEOREM RefCountsCorrect == KVSpec => []RefCntCountsHolders
<1>1. KVInv => RefCntCountsHolders
  <2> SUFFICES ASSUME KVInv, NEW b \in Block PROVE pool.ref_cnt[b] = Holders(b)
    BY DEF RefCntCountsHolders
  <2>1. manager.pool = pool /\ manager.req_to_blocks = req_to_blocks
    BY DEF manager
  <2>2. Counted(manager)
    BY ZenonT(90) DEF KVInv, ManagerOK
  <2> HIDE DEF manager
  <2> QED BY <2>1, <2>2 DEF Counted, Holders
<1> QED BY <1>1, KVInvariant, PTL

\* The manager keeps its side of the contract with the pool (it frees and caches
\* only blocks it holds, touches only cached ones), so that the free list and the
\* hash map stay right under it.
THEOREM PoolUnderManager == KVSpec => [](FreeIffUnreferenced /\ HashMapConsistent)
<1>1. KVInv => FreeIffUnreferenced /\ HashMapConsistent
  <2> SUFFICES ASSUME KVInv PROVE FreeMatches(pool) /\ HashesMatch(pool)
    BY DEF FreeIffUnreferenced, HashMapConsistent
  <2>1. manager.pool = pool
    BY DEF manager
  <2>2. PoolOK(manager.pool)
    BY DEF KVInv, ManagerOK
  <2> QED BY <2>1, <2>2 DEF PoolOK
<1> QED BY <1>1, KVInvariant, PTL
=============================================================================
