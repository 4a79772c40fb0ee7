----------------------------- MODULE BlockPool -----------------------------
(***************************************************************************)
(* BlockPool and BlockHashToBlockMap of vllm/v1/core/block_pool.py: the    *)
(* reference counts of the KV cache blocks, the free blocks in eviction    *)
(* order, and the prefix cache that finds a block by the hash of the       *)
(* tokens it holds.                                                        *)
(*                                                                         *)
(* The pool is a record, and each method an operator from pools to pools,  *)
(* so that the callers (KVCacheManager) can be written as the sequences of *)
(* calls they are.  The free list is the sequence that FreeBlockQueue      *)
(* shows the linked list to represent.  A hash key (block hash and group)  *)
(* is an element of Key and covers NumTokens[key] tokens.  The null block  *)
(* has no reference count, as the code never reads it.                     *)
(*                                                                         *)
(* KV events are modelled by what a consumer that applies them in order    *)
(* believes: view holds the keys stored and not removed since.             *)
(***************************************************************************)
EXTENDS Lists

CONSTANTS num_gpu_blocks,   \* number of blocks, the null block included
          enable_caching,   \* whether prefix caching is on
          Key,              \* hash keys
          NoHash,           \* the block_hash of a block without one
          NumTokens,        \* the number of prefix tokens a key covers
          MaxRefCnt         \* bound on the reference counts of PoolNext

ASSUME PoolAssumption ==
  /\ num_gpu_blocks \in Nat \ {0}
  /\ enable_caching \in BOOLEAN
  /\ NoHash \notin Key
  /\ NumTokens \in [Key -> Nat]
  /\ MaxRefCnt \in Nat

VARIABLE pool

null_block == 0
Block == 1 .. num_gpu_blocks - 1   \* all blocks but the null block

Pool == [free : Seq(Block),
         ref_cnt : [Block -> Nat],
         block_hash : [Block -> Key \cup {NoHash}],
         other_hashes : [Block -> SUBSET Key],  \* cached_block_hashes_by_block
         cached : [Key -> SUBSET Block],        \* cached_block_hash_to_block
         view : SUBSET Key]                     \* what KV events tell

EmptyPool == [free |-> [i \in 1 .. num_gpu_blocks - 1 |-> i],
              ref_cnt |-> [b \in Block |-> 0],
              block_hash |-> [b \in Block |-> NoHash],
              other_hashes |-> [b \in Block |-> {}],
              cached |-> [k \in Key |-> {}],
              view |-> {}]

HashesOf(p, b) == ({p.block_hash[b]} \ {NoHash}) \cup p.other_hashes[b]

get_num_free_blocks(p) == Len(p.free)
-----------------------------------------------------------------------------
\* The keys that pop() finds when the hashes of the blocks in bs are removed.
RemovedHashes(p, bs) ==
  {k \in Key : \E b \in bs : k \in HashesOf(p, b) /\ b \in p.cached[k]}

\* Mutant: the keys in cached_block_hashes_by_block are forgotten.
remove_primary_hashes(p, bs) ==
  [p EXCEPT !.block_hash = [b \in Block |-> IF b \in bs THEN NoHash ELSE @[b]],
            !.cached = [k \in Key |-> @[k] \ {b \in bs : k = p.block_hash[b]}]]

remove_cached_block_hashes(p, bs) ==
  [p EXCEPT !.block_hash = [b \in Block |-> IF b \in bs THEN NoHash ELSE @[b]],
            !.other_hashes = [b \in Block |-> IF b \in bs THEN {} ELSE @[b]],
            !.cached = [k \in Key |-> @[k] \ {b \in bs : k \in HashesOf(p, b)}]]

\* _maybe_evict_cached_block for each block of bs, and its BlockRemoved events.
evict_blocks(p, bs) ==
  [remove_cached_block_hashes(p, bs) EXCEPT !.view = @ \ RemovedHashes(p, bs)]

\* _insert_block_hash: the first key of a block is its primary hash.
insert_block_hash(p, k, b) ==
  IF p.block_hash[b] = k \/ b \in p.cached[k] THEN p
  ELSE IF p.block_hash[b] = NoHash
  THEN [p EXCEPT !.block_hash[b] = k, !.cached[k] = @ \cup {b}]
  ELSE [p EXCEPT !.other_hashes[b] = @ \cup {k}, !.cached[k] = @ \cup {b}]

get_new_blocks(p, n) ==
  LET taken == {p.free[i] : i \in 1 .. n}
      q == IF enable_caching THEN evict_blocks(p, taken) ELSE p
  IN  [q EXCEPT !.free = SubSeq(@, n + 1, Len(@)),
                !.ref_cnt = [b \in Block |-> IF b \in taken THEN @[b] + 1
                                             ELSE @[b]]]

\* Mutant: a touched block stays in the free list.
touch_in_free_list(p, bs) ==
  [p EXCEPT !.ref_cnt = [b \in Block |-> IF b \in bs THEN @[b] + 1 ELSE @[b]]]

touch(p, bs) ==
  [p EXCEPT !.free = Filter(@, Block \ {b \in bs : p.ref_cnt[b] = 0}),
            !.ref_cnt = [b \in Block |-> IF b \in bs THEN @[b] + 1 ELSE @[b]]]

\* ordered_blocks names no block twice, the null block apart.
free_blocks(p, ordered_blocks) ==
  LET bs == Elements(ordered_blocks) \cap Block
      unused == {b \in bs : p.ref_cnt[b] = 1}
      without_hash == {b \in unused : p.block_hash[b] = NoHash /\ enable_caching}
  IN  [p EXCEPT !.ref_cnt = [b \in Block |-> IF b \in bs THEN @[b] - 1 ELSE @[b]],
                !.free = Filter(ordered_blocks, without_hash) \o @
                         \o Filter(ordered_blocks, unused \ without_hash)]

\* Mutant: promotion drops the partial keys without BlockRemoved events.
cache_full_blocks_without_removed_event(p, new) ==
  LET q == remove_cached_block_hashes(p, DOMAIN new)
  IN  [q EXCEPT !.block_hash = [b \in Block |-> IF b \in DOMAIN new THEN new[b]
                                                ELSE @[b]],
                !.cached = [k \in Key |-> @[k] \cup {b \in DOMAIN new : new[b] = k}],
                !.view = @ \cup {new[b] : b \in DOMAIN new}]

\* new gives each block that is cached now the key of its full prefix.
cache_full_blocks(p, new) ==
  LET q == evict_blocks(p, DOMAIN new)
  IN  [q EXCEPT !.block_hash = [b \in Block |-> IF b \in DOMAIN new THEN new[b]
                                                ELSE @[b]],
                !.cached = [k \in Key |-> @[k] \cup {b \in DOMAIN new : new[b] = k}],
                !.view = @ \cup {new[b] : b \in DOMAIN new}]

\* The assertion of cache_full_blocks: a block that has a hash already is
\* promoted from a shorter, partial entry.
Promotable(p, new) ==
  \A b \in DOMAIN new : p.block_hash[b] # NoHash =>
     NumTokens[p.block_hash[b]] < NumTokens[new[b]]

cache_partial_block(p, b, k) ==
  LET already_cached == p.block_hash[b] = k \/ b \in p.cached[k]
      superseded == /\ ~ already_cached /\ p.block_hash[b] # NoHash
                    /\ NumTokens[p.block_hash[b]] < NumTokens[k]
      q == insert_block_hash(IF superseded THEN evict_blocks(p, {b}) ELSE p, k, b)
  IN  IF already_cached THEN q ELSE [q EXCEPT !.view = @ \cup {k}]

\* The first hash removed from src, the primary one, is the first one inserted.
move_block_hashes(p, src, dst) ==
  LET hashes == RemovedHashes(p, {src})
      q == remove_cached_block_hashes(p, {src})
  IN  [q EXCEPT !.block_hash[dst] = p.block_hash[src],
                !.other_hashes[dst] = hashes \ {p.block_hash[src]},
                !.cached = [k \in Key |-> IF k \in hashes THEN @[k] \cup {dst}
                                          ELSE @[k]]]

reset_prefix_cache(p) ==
  IF num_gpu_blocks - get_num_free_blocks(p) # 1 THEN p
  ELSE [p EXCEPT !.block_hash = [b \in Block |-> NoHash],
                 !.other_hashes = [b \in Block |-> {}],
                 !.cached = [k \in Key |-> {}],
                 !.view = {}]
-----------------------------------------------------------------------------
(***************************************************************************)
(* The pool under arbitrary callers that keep their side: they free and    *)
(* cache only blocks they hold, touch blocks that are held or cached, and  *)
(* hand move_block_hashes a destination without hashes.                    *)
(***************************************************************************)
Held == {b \in Block : pool.ref_cnt[b] > 0}
Hashed == {b \in Block : HashesOf(pool, b) # {}}

PoolInit == pool = EmptyPool

GetNewBlocks(n) == /\ n <= get_num_free_blocks(pool)
                   /\ pool' = get_new_blocks(pool, n)

Touch(bs) == /\ \A b \in bs : pool.ref_cnt[b] < MaxRefCnt
             /\ pool' = touch(pool, bs)

FreeBlocks(s) == pool' = free_blocks(pool, s)

CacheFullBlocks(new) == /\ Promotable(pool, new)
                        /\ pool' = cache_full_blocks(pool, new)

CachePartialBlock(b, k) == pool' = cache_partial_block(pool, b, k)

MoveBlockHashes(src, dst) == pool' = move_block_hashes(pool, src, dst)

EvictBlocks(bs) == pool' = evict_blocks(pool, bs)

ResetPrefixCache == pool' = reset_prefix_cache(pool)

\* Lists without repetitions of the blocks in bs.
ListsOf(bs) == {s \in UNION {[1 .. n -> bs] : n \in 1 .. num_gpu_blocks - 1} :
                  NoRepetition(s)}

PoolNext ==
  \/ \E n \in 1 .. num_gpu_blocks - 1 : GetNewBlocks(n)
  \/ \E bs \in SUBSET (Held \cup Hashed) : Touch(bs)
  \/ \E s \in ListsOf(Held) : FreeBlocks(s)
  \/ \E bs \in SUBSET Held : \E new \in [bs -> Key] : CacheFullBlocks(new)
  \/ \E b \in Held, k \in Key : CachePartialBlock(b, k)
  \/ \E src \in Held, dst \in Held \ Hashed : MoveBlockHashes(src, dst)
  \/ \E bs \in SUBSET Block : EvictBlocks(bs)
  \/ ResetPrefixCache

PoolSpec == PoolInit /\ [][PoolNext]_pool
-----------------------------------------------------------------------------
\* The pool has its type; the null block is never in the free list nor cached.
PoolTypeOK == pool \in Pool

FreeMatches(p) == /\ NoRepetition(p.free)
                  /\ Elements(p.free) = {b \in Block : p.ref_cnt[b] = 0}

HashesMatch(p) ==
  /\ \A k \in Key, b \in Block : b \in p.cached[k] <=> k \in HashesOf(p, b)
  /\ \A b \in Block : p.other_hashes[b] # {} =>
        p.block_hash[b] \notin {NoHash} \cup p.other_hashes[b]

ViewHolds(p) == \A k \in p.view : p.cached[k] # {}

\* The free list holds exactly the blocks that nobody references, each once
\* (BlockPool.touch and free_blocks move blocks in and out of it by looking at
\* ref_cnt alone).  So get_new_blocks never hands out a block in use, its
\* assertion ref_cnt == 0 holds, no unreferenced block is lost to the pool, and
\* the list operations meet the obligations of FreeBlockQueue.
FreeIffUnreferenced == FreeMatches(pool)

\* The hash map and the hashes recorded on the blocks (the primary block_hash
\* and cached_block_hashes_by_block) name the same pairs, through insertion,
\* promotion of a partial entry, moves and eviction.  So the removal of a
\* block's hashes leaves no key behind that still finds the block.
HashMapConsistent == HashesMatch(pool)

\* A consumer of the KV events never believes that a key is cached when no
\* block is cached under it any more (BlockStored, BlockRemoved and
\* AllBlocksCleared in kv_event_queue).
EventsSound == ViewHolds(pool)
=============================================================================
