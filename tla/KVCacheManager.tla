--------------------------- MODULE KVCacheManager ---------------------------
(***************************************************************************)
(* KVCacheManager of vllm/v1/core/kv_cache_manager.py with its coordinator *)
(* (kv_cache_coordinator.py) and the full-attention and sliding-window     *)
(* managers (single_type_kv_cache_manager.py): which blocks of the pool a  *)
(* request holds in every KV cache group, which of them it finds in the    *)
(* prefix cache, and when they are allocated, cached and given back.       *)
(*                                                                         *)
(* The manager is a record m, each method an operator on it, and a method  *)
(* of the coordinator is that of the single-type managers applied group by *)
(* group.  A block hash is chained over the whole prefix, so the prefix    *)
(* itself stands for it.                                                   *)
(*                                                                         *)
(* content says which KV entry each slot of a block holds.  The code never *)
(* reads it, the properties do.  KVCacheSteps and Scheduler are the state  *)
(* machines over these operators.                                          *)
(***************************************************************************)
EXTENDS BlockPool, FiniteSets

CONSTANTS Groups,                 \* the KV cache groups, full attention first
          hash_block_size,        \* tokens per block hash
          scheduler_block_size,   \* a multiple of the groups' block sizes
          Request,                \* request ids
          all_token_ids,          \* the tokens of a request, outputs included
          num_prompt_tokens,      \* how many of them are its prompt
          max_model_len,
          max_in_flight_tokens,   \* tokens of a step
          num_lookahead_tokens,   \* slots kept for draft tokens
          watermark_blocks,       \* blocks kept free when a request is admitted
          full_sequence_must_fit  \* scheduler_reserve_full_isl

VARIABLES req_to_blocks, num_cached_block, num_tokens, num_computed_tokens,
          content, raised

Group == DOMAIN Groups
BlockSize(g) == Groups[g].block_size
SlidingWindow(g) == Groups[g].sliding_window   \* 0: full attention
Windowed(g) == SlidingWindow(g) > 0

ASSUME KVAssumption ==
  /\ Len(Groups) \in Nat \ {0} /\ Group = 1 .. Len(Groups)
  /\ hash_block_size \in Nat \ {0} /\ scheduler_block_size \in Nat \ {0}
  /\ \A g \in Group : /\ BlockSize(g) \in Nat \ {0} /\ SlidingWindow(g) \in Nat
                      /\ BlockSize(g) % hash_block_size = 0
                      /\ scheduler_block_size % BlockSize(g) = 0
                      /\ Windowed(g) => \A h \in 1 .. g - 1 : Groups[h] # Groups[g]
                      /\ ~ Windowed(g) => g = 1
  /\ max_model_len \in Nat /\ num_lookahead_tokens \in Nat
  /\ max_in_flight_tokens \in Nat /\ watermark_blocks \in Nat
  /\ \A r \in Request : /\ Len(all_token_ids[r]) \in 0 .. max_model_len
                        /\ num_prompt_tokens[r] \in 1 .. Len(all_token_ids[r])

Absent == -1   \* the request is no key of num_cached_block

cdiv(a, b) == (a + b - 1) \div b
Larger(a, b) == IF a >= b THEN a ELSE b
Smaller(a, b) == IF a <= b THEN a ELSE b

\* The hash of the first n tokens of a request, and its key in group g.
BlockHash(r, n) == SubSeq(all_token_ids[r], 1, n)
KeyOf(g, r, n) == <<g, BlockHash(r, n)>>

\* A key names its group and covers the tokens that were hashed.
ASSUME KeyAssumption ==
  /\ \A k \in Key : k[1] \in Group
  /\ \A g \in Group, r \in Request : \A n \in 1 .. Len(all_token_ids[r]) :
       KeyOf(g, r, n) \in Key /\ NumTokens[KeyOf(g, r, n)] = n

\* A method of the coordinator: the managers in the order of their groups.
ForGroups(m, Op(_, _)) ==
  LET after[i \in 0 .. Len(Groups)] == IF i = 0 THEN m ELSE Op(after[i - 1], i)
  IN  after[Len(Groups)]
-----------------------------------------------------------------------------
(***************************************************************************)
(* The longest cache hit.  Block i (from 0) of a group is found when its   *)
(* chained hash is a key of the cache; a hit ends on the alignment.        *)
(***************************************************************************)
Cached(p, g, r, i) == p.cached[KeyOf(g, r, (i + 1) * BlockSize(g))] # {}

FullAttentionHit(p, g, r, max_length) ==
  LET bs == BlockSize(g)
      n == CHOOSE k \in 0 .. max_length \div bs :
             /\ \A i \in 0 .. k - 1 : Cached(p, g, r, i)
             /\ k = max_length \div bs \/ ~ Cached(p, g, r, k)
  IN  (n * bs) - ((n * bs) % scheduler_block_size)

contiguous_blocks_for_hit(g) == cdiv(SlidingWindow(g) - 1, BlockSize(g))

\* The scan tests the length of a run after it has found a block.
ContiguousBlocks(g) == Larger(contiguous_blocks_for_hit(g), 1)

\* run[i]: num_contiguous_blocks once the scan from the right has seen block i.
SlidingWindowHit(p, g, r, max_length) ==
  LET bs == BlockSize(g)
      n == max_length \div bs
      run[i \in 0 .. n] ==
        IF /\ i < n
           /\ Cached(p, g, r, i)
           /\ run[i + 1] > 0 \/ ((i + 1) * bs) % scheduler_block_size = 0
        THEN run[i + 1] + 1 ELSE 0
      matches == {i \in 0 .. n : run[i] = ContiguousBlocks(g)}
  IN  IF matches = {} THEN run[0] * bs
      ELSE ((CHOOSE i \in matches : \A j \in matches : j <= i) + ContiguousBlocks(g)) * bs

GroupHit(p, g, r, max_length) ==
  IF Windowed(g) THEN SlidingWindowHit(p, g, r, max_length)
                 ELSE FullAttentionHit(p, g, r, max_length)

\* The unitary coordinator, and is_simple_hybrid: one pass suffices.
OnePass == Len(Groups) = 1 \/ (Len(Groups) = 2 /\ ~ Windowed(1))

\* Mutant: each group searches from the maximum, whatever the others found.
find_hit_of_last_group(p, r, max_length) == GroupHit(p, Len(Groups), r, max_length)

\* The fixed point of the coordinator: every group accepts the candidate or
\* lowers it, and a lowered one is tried again.
find_longest_cache_hit(p, r, max_length) ==
  LET pass(length) == ForGroups(length, LAMBDA left, g : GroupHit(p, g, r, left))
      hit_length[length \in 0 .. max_length] ==
        LET accepted(curr) == IF curr >= length \/ OnePass THEN curr ELSE hit_length[curr]
        IN  accepted(pass(length))
  IN  hit_length[max_length]

\* The hit as block tables: a sliding-window group takes null blocks for the
\* part that its window has left behind.
HitTables(p, g, r, hit_length) ==
  LET n == hit_length \div BlockSize(g)
      first == IF Windowed(g) THEN Larger(n - ContiguousBlocks(g), 0) ELSE 0
      found(i) == IF i <= first THEN {null_block} ELSE p.cached[KeyOf(g, r, i * BlockSize(g))]
  IN  {s \in [1 .. n -> UNION {found(i) : i \in 1 .. n}] : \A i \in 1 .. n : s[i] \in found(i)}

HitLength(p, r) == IF enable_caching
                   THEN find_longest_cache_hit(p, r, num_tokens[r] - 1) ELSE 0

HitBlocks(p, r, length) ==
  LET tables == [g \in Group |-> HitTables(p, g, r, length)]
  IN  {h \in [Group -> UNION {tables[g] : g \in Group}] : \A g \in Group : h[g] \in tables[g]}

get_computed_blocks(p, r) == HitBlocks(p, r, HitLength(p, r))
-----------------------------------------------------------------------------
(***************************************************************************)
(* allocate_slots and the methods it calls.                                *)
(***************************************************************************)
\* Mutant: the window is taken to start one token later than it does.
get_num_skipped_tokens_off_by_one(g, n) ==
  IF Windowed(g) THEN Larger(0, n - SlidingWindow(g) + 2) ELSE 0

get_num_skipped_tokens(g, n) ==
  IF Windowed(g) THEN Larger(0, n - SlidingWindow(g) + 1) ELSE 0

max_admission_blocks_per_request(g) ==
  cdiv(Smaller(SlidingWindow(g) - 1 + max_in_flight_tokens, max_model_len), BlockSize(g)) + 1

\* Mutant: cache hits in the free list are not counted.
num_blocks_to_allocate_without_evictable(m, g, r, tokens, hits, total, capped) ==
  LET required == IF capped /\ Windowed(g)
                  THEN Smaller(cdiv(tokens, BlockSize(g)), max_admission_blocks_per_request(g))
                  ELSE cdiv(tokens, BlockSize(g))
      held == Len(m.req_to_blocks[g][r])
      skipped == get_num_skipped_tokens(g, total) \div BlockSize(g)
  IN  Larger(required - Larger(skipped, Len(hits[g]) + held), 0)

\* A manager's get_num_blocks_to_allocate.  A hit that is in the free list leaves
\* it when it is touched, so it counts.
num_blocks_to_allocate(m, g, r, tokens, hits, total, capped) ==
  LET required == IF capped /\ Windowed(g)
                  THEN Smaller(cdiv(tokens, BlockSize(g)), max_admission_blocks_per_request(g))
                  ELSE cdiv(tokens, BlockSize(g))
      held == Len(m.req_to_blocks[g][r])
      skipped == get_num_skipped_tokens(g, total) \div BlockSize(g)
      touched == SubSeq(hits[g], Larger(0, skipped - held) + 1, Len(hits[g]))
      evictable == {b \in Elements(touched) \cap Block : m.pool.ref_cnt[b] = 0}
  IN  IF m.num_cached_block[g][r] # Absent THEN Larger(required - held, 0)
      ELSE Larger(required - Larger(skipped, Len(hits[g]) + held), 0) + Cardinality(evictable)

get_num_blocks_to_allocate(m, r, tokens, hits, total, capped) ==
  ForGroups(0, LAMBDA sum, g :
                 sum + num_blocks_to_allocate(m, g, r, tokens, hits, total, capped))

\* Mutant: out-of-window blocks are kept.
remove_no_blocks(m, r, processed) == m

\* Mutant: a freed block stays in the block table.
remove_blocks_keeping_table(m, r, processed) ==
  ForGroups(m, LAMBDA n, g :
    LET blocks == n.req_to_blocks[g][r]
        last == Smaller(get_num_skipped_tokens(g, processed) \div BlockSize(g), Len(blocks))
    IN  [n EXCEPT !.pool = free_blocks(@, [i \in 1 .. last |-> blocks[last + 1 - i]])])

\* A manager's remove_skipped_blocks and _remove_blocks_in_range: backward from
\* the last skipped block, until a block that was removed before.
remove_skipped_of_group(m, g, r, processed) ==
  LET blocks == m.req_to_blocks[g][r]
      last == Smaller(get_num_skipped_tokens(g, processed) \div BlockSize(g), Len(blocks))
      kept == Cardinality({i \in 1 .. last : \E j \in i .. last : blocks[j] = null_block})
  IN  [m EXCEPT
         !.pool = free_blocks(@, [i \in 1 .. last - kept |-> blocks[last + 1 - i]]),
         !.req_to_blocks[g][r] = [i \in DOMAIN blocks |->
            IF i \in kept + 1 .. last THEN null_block ELSE blocks[i]]]

remove_skipped_blocks(m, r, processed) ==
  ForGroups(m, LAMBDA n, g : remove_skipped_of_group(n, g, r, processed))

add_local_computed_blocks(m, g, r, hit, total) ==
  LET skipped == get_num_skipped_tokens(g, total) \div BlockSize(g)
      table == [i \in 1 .. skipped |-> null_block] \o SubSeq(hit, skipped + 1, Len(hit))
  IN  [m EXCEPT !.pool = touch(@, Elements(table) \cap Block),
                !.req_to_blocks[g][r] = table,
                !.num_cached_block[g][r] = Len(table)]

\* block_pool.get_new_blocks for a request: it raises ValueError when the pool
\* has too few free blocks.
extend_with_new_blocks(m, g, r, n) ==
  IF n <= 0 THEN m
  ELSE IF n > get_num_free_blocks(m.pool) THEN [m EXCEPT !.raised = TRUE]
  ELSE [m EXCEPT !.pool = get_new_blocks(@, n),
                 !.req_to_blocks[g][r] = @ \o SubSeq(m.pool.free, 1, n)]

allocate_external_computed_blocks(m, g, r, total, external) ==
  IF Smaller(total - get_num_skipped_tokens(g, total), external) <= 0 THEN m
  ELSE extend_with_new_blocks(m, g, r,
         cdiv(total, BlockSize(g)) - Len(m.req_to_blocks[g][r]))

\* Mutant: a group allocates its external blocks before the next group's hits
\* are touched.
allocate_new_computed_blocks_one_phase(m, r, hits, local, external) ==
  ForGroups(m, LAMBDA n, g :
    LET added == add_local_computed_blocks(n, g, r, hits[g], local + external)
    IN  IF external = 0 THEN added
        ELSE allocate_external_computed_blocks(added, g, r, local + external, external))

\* Two phases: every group's hits are touched before any block is allocated.
allocate_new_computed_blocks(m, r, hits, local, external) ==
  LET total == local + external
      touched == ForGroups(m, LAMBDA n, g :
                   add_local_computed_blocks(n, g, r, hits[g], total))
  IN  IF \E g \in Group : m.num_cached_block[g][r] # Absent THEN m
      ELSE IF external = 0 THEN touched
      ELSE ForGroups(touched, LAMBDA n, g :
             allocate_external_computed_blocks(n, g, r, total, external))

allocate_blocks_of_group(m, g, r, tokens) ==
  extend_with_new_blocks(m, g, r, cdiv(tokens, BlockSize(g)) - Len(m.req_to_blocks[g][r]))

allocate_new_blocks(m, r, tokens) ==
  ForGroups(m, LAMBDA n, g : allocate_blocks_of_group(n, g, r, tokens))

\* reachable_block_mask: of every aligned segment only the tail can serve a hit.
reachable_block_mask(g, i) ==
  LET per_segment == scheduler_block_size \div BlockSize(g)
      need == contiguous_blocks_for_hit(g)
  IN  \/ ~ Windowed(g)
      \/ need >= per_segment
      \/ i % per_segment >= per_segment - need

\* FullAttentionManager._cache_partial_tail_block.
cache_partial_tail_block(m, g, r, tokens) ==
  LET boundary == num_prompt_tokens[r] - (num_prompt_tokens[r] % hash_block_size)
      idx == boundary \div BlockSize(g)
  IN  IF \/ Windowed(g)
         \/ boundary = 0 \/ boundary > tokens
         \/ boundary % BlockSize(g) = 0
         \/ idx >= Len(m.req_to_blocks[g][r])
      THEN m
      ELSE [m EXCEPT !.pool = cache_partial_block(@, m.req_to_blocks[g][r][idx + 1],
                                                  KeyOf(g, r, boundary))]

\* Mutant: a block counts as full as soon as it is begun.
cache_begun_blocks(m, g, r, tokens) ==
  LET cached == Larger(m.num_cached_block[g][r], 0)
      full == Smaller(cdiv(tokens + 1, BlockSize(g)), Len(m.req_to_blocks[g][r]))
      blocks == m.req_to_blocks[g][r]
      index == {i \in cached + 1 .. full :
                  /\ blocks[i] # null_block /\ reachable_block_mask(g, i - 1)
                  /\ i * BlockSize(g) <= Len(all_token_ids[r])}
      new == [b \in {blocks[i] : i \in index} |->
                KeyOf(g, r, BlockSize(g) * CHOOSE i \in index : blocks[i] = b)]
  IN  IF cached >= full THEN m
      ELSE [m EXCEPT !.pool = cache_full_blocks(@, new), !.num_cached_block[g][r] = full]

\* A manager's cache_blocks for whole blocks.  A block that has a hash already
\* must be a partial one, or cache_full_blocks fails its assertion.
cache_whole_blocks(m, g, r, tokens) ==
  LET cached == Larger(m.num_cached_block[g][r], 0)
      full == tokens \div BlockSize(g)
      blocks == m.req_to_blocks[g][r]
      index == {i \in cached + 1 .. full :
                  blocks[i] # null_block /\ reachable_block_mask(g, i - 1)}
      new == [b \in {blocks[i] : i \in index} |->
                KeyOf(g, r, BlockSize(g) * CHOOSE i \in index : blocks[i] = b)]
  IN  IF cached >= full THEN m
      ELSE IF ~ Promotable(m.pool, new) THEN [m EXCEPT !.raised = TRUE]
      ELSE [m EXCEPT !.pool = cache_full_blocks(@, new), !.num_cached_block[g][r] = full]

cache_blocks_of_group(m, g, r, tokens) ==
  LET tail(n) == IF BlockSize(g) = hash_block_size THEN n
                 ELSE cache_partial_tail_block(n, g, r, tokens)
  IN  tail(cache_whole_blocks(m, g, r, tokens))

cache_blocks(m, r, computed) ==
  LET tokens == computed - (computed % scheduler_block_size)
  IN  ForGroups(m, LAMBDA n, g : cache_blocks_of_group(n, g, r, tokens))

\* allocate_slots once the skipped blocks are removed; spare free blocks are left
\* alone.  With load_kv_async nothing is cached yet and no lookahead slots are
\* allocated.
AllocateIn(trimmed, r, new, hits, local, external, load_kv_async, spare) ==
  LET total == Smaller(local + external, max_model_len)
      lookahead == IF load_kv_async THEN 0 ELSE num_lookahead_tokens
      need_slot == Smaller(total + new + lookahead, max_model_len)
      with_hits == IF external > 0 \/ \E g \in Group : hits[g] # <<>>
                   THEN allocate_new_computed_blocks(trimmed, r, hits, local, external)
                   ELSE trimmed
      cached(m) == IF enable_caching /\ ~ load_kv_async /\ ~ m.raised
                   THEN cache_blocks(m, r, Smaller(total + new, num_tokens[r])) ELSE m
  IN  IF get_num_blocks_to_allocate(trimmed, r, need_slot, hits, local + external, FALSE)
           + spare > get_num_free_blocks(trimmed.pool)
      THEN [ok |-> FALSE, m |-> trimmed]
      ELSE [ok |-> TRUE, m |-> cached(allocate_new_blocks(with_hits, r, need_slot))]

\* The result is the new state of the manager and whether slots were allocated.
\* The skipped blocks are removed even when they were not.  The watermark and
\* the reserved blocks are left to other requests.
allocate_slots(m, r, new, hits, local, external, in_flight, waiting, others, load_kv_async, reserved) ==
  LET total == Smaller(local + external, max_model_len)
      watermark == IF waiting /\ others THEN watermark_blocks ELSE 0
      whole == get_num_blocks_to_allocate(m, r, Smaller(num_tokens[r], max_model_len),
                                          hits, total, TRUE)
  IN  IF /\ waiting /\ full_sequence_must_fit
         /\ whole + watermark > get_num_free_blocks(m.pool)
      THEN [ok |-> FALSE, m |-> m]
      ELSE AllocateIn(remove_skipped_blocks(m, r, Larger(0, total - in_flight)), r, new, hits,
                      local, external, load_kv_async, watermark + reserved)

\* Mutant: the tables are dropped and the blocks stay referenced.
free_leaking(m, r) ==
  ForGroups(m, LAMBDA n, g : [n EXCEPT !.req_to_blocks[g][r] = <<>>,
                                       !.num_cached_block[g][r] = Absent])

\* free: a manager after the other gives the request's blocks back, last first.
free_of_group(m, g, r) ==
  LET blocks == m.req_to_blocks[g][r]
  IN  [m EXCEPT !.pool = free_blocks(@, [i \in DOMAIN blocks |-> blocks[Len(blocks) + 1 - i]]),
                !.req_to_blocks[g][r] = <<>>,
                !.num_cached_block[g][r] = Absent]

free(m, r) == ForGroups(m, LAMBDA n, g : free_of_group(n, g, r))
-----------------------------------------------------------------------------
(***************************************************************************)
(* The state of the manager, and what the slots of the blocks hold.        *)
(***************************************************************************)
manager == [pool |-> pool, req_to_blocks |-> req_to_blocks,
            num_cached_block |-> num_cached_block, raised |-> raised]

Becomes(m) == /\ pool' = m.pool
              /\ req_to_blocks' = m.req_to_blocks
              /\ num_cached_block' = m.num_cached_block
              /\ raised' = m.raised

\* The slot of a position in a block table, and the blocks' contents c after the
\* requests have written the KV entries of the positions writes[r].  The entries
\* of a request in garbage were computed from wrong ones.
SlotOf(table, g, pos) == <<table[(pos \div BlockSize(g)) + 1], pos % BlockSize(g)>>
Overwritten(c, tables, writes, garbage) ==
  LET entries == {<<SlotOf(tables[w[1]][w[2]], w[1], w[3]),
                    IF w[2] \in garbage THEN NoHash ELSE KeyOf(w[1], w[2], w[3] + 1)>> :
                    w \in UNION {Group \X {r} \X writes[r] : r \in Request}}
  IN  [b \in Block |-> [o \in 0 .. scheduler_block_size - 1 |->
         LET values == {e[2] : e \in {e \in entries : e[1] = <<b, o>>}}
         IN  IF values = {} THEN c[b][o]
             ELSE IF Cardinality(values) = 1 THEN CHOOSE v \in values : TRUE ELSE NoHash]]

\* A block that is free and not cached holds nothing that can be used.
Blank == [o \in 0 .. scheduler_block_size - 1 |-> NoHash]
Usable(p, c) == [b \in Block |-> IF p.ref_cnt[b] = 0 /\ HashesOf(p, b) = {} THEN Blank ELSE c[b]]

ManagerInit ==
  /\ PoolInit
  /\ req_to_blocks = [g \in Group |-> [r \in Request |-> <<>>]]
  /\ num_cached_block = [g \in Group |-> [r \in Request |-> Absent]]
  /\ num_tokens = num_prompt_tokens
  /\ num_computed_tokens = [r \in Request |-> 0]
  /\ content = [b \in Block |-> Blank]
  /\ raised = FALSE

\* The types of the manager: tables name blocks of the pool, and no more tokens
\* are computed than the model may have.
ManagerTypeOK ==
  /\ PoolTypeOK
  /\ req_to_blocks \in [Group -> [Request -> Seq(Block \cup {null_block})]]
  /\ num_cached_block \in [Group -> [Request -> Absent .. max_model_len]]
  /\ \A r \in Request : /\ num_tokens[r] \in num_prompt_tokens[r] .. Len(all_token_ids[r])
                        /\ num_computed_tokens[r] \in 0 .. max_model_len
  /\ content \in [Block -> [0 .. scheduler_block_size - 1 -> Key \cup {NoHash}]]
  /\ raised \in BOOLEAN

\* The entries of the block tables that name a block: group, request, index.
Naming(table, b) == {i \in DOMAIN table : table[i] = b}
Entries(tables, b) ==
  UNION {{<<g, r, i>> : i \in Naming(tables[g][r], b)} : g \in Group, r \in Request}
Holders(b) == Cardinality(Entries(req_to_blocks, b))

\* Every block found under a key holds the KV entries of exactly that prefix.
CacheHolds(c) ==
  LET start(g, n) == ((n - 1) \div BlockSize(g)) * BlockSize(g)
  IN  \A k \in Key : \A b \in pool.cached[k] :
        \A pos \in start(k[1], Len(k[2])) .. Len(k[2]) - 1 :
          c[b][pos - start(k[1], Len(k[2]))] = <<k[1], SubSeq(k[2], 1, pos + 1)>>
=============================================================================
