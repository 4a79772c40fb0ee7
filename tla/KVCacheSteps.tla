---------------------------- MODULE KVCacheSteps ----------------------------
(***************************************************************************)
(* KVCacheManager as the scheduler uses it, one step of the engine at a    *)
(* time: any number of allocations, one for each request scheduled in the  *)
(* step, and then its execution, which writes the KV entries of the        *)
(* scheduled tokens.  A request is admitted with what the prefix cache and *)
(* a KV connector supply, gets slots for further chunks of tokens, and     *)
(* loses its blocks when it finishes or is preempted (then it keeps its    *)
(* tokens).  A request of the step being put together keeps its blocks     *)
(* until the step has executed.  Which request is scheduled or preempted,  *)
(* and with how many tokens, is left open here; Scheduler decides it.      *)
(***************************************************************************)
EXTENDS KVCacheManager

CONSTANTS MaxExternal,      \* bound on the tokens a KV connector supplies
          MaxPreemptions    \* bound on the preemptions of a request

VARIABLES num_scheduled_tokens, num_external_tokens, num_preemptions, finished

kvVars == <<pool, req_to_blocks, num_cached_block, num_tokens, num_computed_tokens,
            num_scheduled_tokens, num_external_tokens, num_preemptions, finished,
            content, raised>>

Scheduled(r) == num_scheduled_tokens[r] > 0
Admitted(r) == Scheduled(r) \/ num_computed_tokens[r] > 0

\* What the step being put together writes: the KV entries of the scheduled
\* tokens, and of the tokens a connector loads.
Writes(r) == IF Scheduled(r)
             THEN (num_computed_tokens[r] - num_external_tokens[r]) ..
                    (num_computed_tokens[r] + num_scheduled_tokens[r] - 1)
             ELSE {}
Written == Overwritten(content, req_to_blocks, [r \in Request |-> Writes(r)], {})

KVInit ==
  /\ ManagerInit
  /\ num_scheduled_tokens = [r \in Request |-> 0]
  /\ num_external_tokens = [r \in Request |-> 0]
  /\ num_preemptions = [r \in Request |-> 0]
  /\ finished = {}

\* A waiting request: get_computed_blocks, then allocate_slots for new tokens.
AdmitRequest(r, external, new) ==
  /\ r \notin finished /\ ~ Admitted(r)
  /\ LET local == HitLength(pool, r)
     IN  /\ new <= num_tokens[r] - local - external
         /\ \E hits \in get_computed_blocks(pool, r) :
              LET result == allocate_slots(manager, r, new, hits, local, external, 0, TRUE,
                                           \E q \in Request : Admitted(q), FALSE, 0)
              IN  /\ result.ok
                  /\ Becomes(result.m)
                  /\ content' = Usable(result.m.pool, content)
         /\ num_computed_tokens' = [num_computed_tokens EXCEPT ![r] = local + external]
         /\ num_external_tokens' = [num_external_tokens EXCEPT ![r] = external]
         /\ num_scheduled_tokens' = [num_scheduled_tokens EXCEPT ![r] = new]
  /\ UNCHANGED <<num_tokens, num_preemptions, finished>>

\* A running request: allocate_slots may fail and have removed skipped blocks.
ScheduleRunning(r, new) ==
  /\ Admitted(r) /\ ~ Scheduled(r)
  /\ new <= num_tokens[r] - num_computed_tokens[r]
  /\ LET result == allocate_slots(manager, r, new, [g \in Group |-> <<>>],
                                  num_computed_tokens[r], 0, 0, FALSE, FALSE, FALSE, 0)
     IN  /\ Becomes(result.m)
         /\ content' = Usable(result.m.pool, content)
         /\ num_scheduled_tokens' =
              [num_scheduled_tokens EXCEPT ![r] = IF result.ok THEN new ELSE 0]
  /\ UNCHANGED <<num_tokens, num_computed_tokens, num_external_tokens,
                 num_preemptions, finished>>

\* A request whose known tokens are all computed gets a new one.
ExecuteStep ==
  /\ \E r \in Request : Scheduled(r)
  /\ content' = Written
  /\ num_computed_tokens' = [r \in Request |-> num_computed_tokens[r] + num_scheduled_tokens[r]]
  /\ num_tokens' = [r \in Request |->
       IF Scheduled(r) /\ num_computed_tokens'[r] = num_tokens[r]
       THEN Smaller(num_tokens[r] + 1, Len(all_token_ids[r])) ELSE num_tokens[r]]
  /\ num_scheduled_tokens' = [r \in Request |-> 0]
  /\ num_external_tokens' = [r \in Request |-> 0]
  /\ UNCHANGED <<pool, req_to_blocks, num_cached_block, num_preemptions, finished, raised>>

Release(r) ==
  /\ Admitted(r) /\ ~ Scheduled(r)
  /\ Becomes(free(manager, r))
  /\ content' = Usable(free(manager, r).pool, content)
  /\ num_computed_tokens' = [num_computed_tokens EXCEPT ![r] = 0]
  /\ UNCHANGED <<num_tokens, num_scheduled_tokens, num_external_tokens>>

Preempt(r) == /\ Release(r)
              /\ num_preemptions[r] < MaxPreemptions
              /\ num_preemptions' = [num_preemptions EXCEPT ![r] = @ + 1]
              /\ UNCHANGED finished

Finish(r) == /\ Release(r)
             /\ finished' = finished \cup {r}
             /\ UNCHANGED num_preemptions

KVResetPrefixCache ==
  /\ Becomes([manager EXCEPT !.pool = reset_prefix_cache(@)])
  /\ content' = Usable(reset_prefix_cache(pool), content)
  /\ UNCHANGED <<num_tokens, num_computed_tokens, num_scheduled_tokens, num_external_tokens,
                 num_preemptions, finished>>

Chunk == 1 .. max_in_flight_tokens - num_lookahead_tokens

KVNext ==
  \/ \E r \in Request, e \in 0 .. MaxExternal, n \in Chunk : AdmitRequest(r, e, n)
  \/ \E r \in Request, n \in Chunk : ScheduleRunning(r, n)
  \/ ExecuteStep
  \/ \E r \in Request : Preempt(r) \/ Finish(r)
  \/ KVResetPrefixCache

KVSpec == KVInit /\ [][KVNext]_kvVars
-----------------------------------------------------------------------------
\* The types of the manager and its callers: no token is scheduled twice.
KVTypeOK ==
  /\ ManagerTypeOK
  /\ \A r \in Request : /\ num_computed_tokens[r] <= num_tokens[r]
                        /\ num_scheduled_tokens[r] \in 0 .. num_tokens[r] - num_computed_tokens[r]
                        /\ num_external_tokens[r] \in 0 .. MaxExternal
                        /\ num_preemptions[r] \in 0 .. MaxPreemptions
  /\ finished \subseteq Request

\* The reference count of a block is the number of block-table entries that
\* name it: touch for the hits of add_local_computed_blocks, get_new_blocks,
\* remove_skipped_blocks and free change both sides alike, so no block leaks and
\* none is freed while a request still holds it.
RefCntCountsHolders == \A b \in Block : pool.ref_cnt[b] = Holders(b)

\* When a step executes, every scheduled request finds in its block tables the
\* KV entries of its own prefix, as far as the window of each group reaches back
\* from its first scheduled token, and a slot for every scheduled token: the
\* hits were those of its tokens, sharing never overwrites, out-of-window removal
\* removes nothing that is still read, and chunks continue each other.
StepReadsOwnPrefix ==
  LET written == Written
      last(r) == num_computed_tokens[r] + num_scheduled_tokens[r] - 1
      attended(g, r) == {pos \in 0 .. last(r) :
                           Windowed(g) => pos > num_computed_tokens[r] - SlidingWindow(g)}
  IN  \A r \in {q \in Request : Scheduled(q)}, g \in Group :
        /\ Len(req_to_blocks[g][r]) * BlockSize(g) > last(r)
        /\ \A pos \in attended(g, r) :
             LET slot == SlotOf(req_to_blocks[g][r], g, pos)
             IN  slot[1] # null_block /\ written[slot[1]][slot[2]] = KeyOf(g, r, pos + 1)

\* A block found under a key holds the KV entries of exactly that prefix once
\* the current step has executed (cache_blocks registers blocks before the
\* step that fills them has run).
PrefixCacheSound == CacheHolds(Written)

\* No exception leaves the manager: once allocate_slots has found enough free
\* blocks, get_new_blocks never runs out of them (the check counts the hits that
\* leave the free list, over all groups), and cache_full_blocks never meets a
\* block that is cached as something else.
AllocationNeverRaises == ~ raised

\* What the fixed-point search over the groups finds is the longest aligned
\* prefix that every group can serve: all its blocks for full attention, the
\* blocks of the last window for a sliding-window group.
HitIsLongest ==
  enable_caching => \A r \in Request :
    LET serves(g, length) ==
          LET n == length \div BlockSize(g)
              first == IF Windowed(g) THEN Larger(n - ContiguousBlocks(g), 0) ELSE 0
          IN  \A i \in first .. n - 1 : Cached(pool, g, r, i)
        hits == {n \in 0 .. num_tokens[r] - 1 : /\ n % scheduler_block_size = 0
                                                /\ \A g \in Group : serves(g, n)}
    IN  HitLength(pool, r) \in hits /\ \A n \in hits : n <= HitLength(pool, r)

\* A request never holds more real blocks of a sliding-window group than
\* max_admission_blocks_per_request, the number that the admission check and the
\* sizing of the pool reserve for it.
HeldWithinAdmissionCap ==
  \A g \in Group, r \in Request : Windowed(g) =>
    Cardinality({i \in DOMAIN req_to_blocks[g][r] : req_to_blocks[g][r][i] # null_block})
      <= max_admission_blocks_per_request(g)
=============================================================================
