--------------------------- MODULE SchedulerState ---------------------------
(***************************************************************************)
(* The state of Scheduler and AsyncScheduler (vllm/v1/core/sched), and how *)
(* blocks are given back.  The scheduler is a record s and each method an  *)
(* operator on it.  KVConnector adds what the transfers of a KV connector  *)
(* do to it, Scheduler the engine's calls.                                 *)
(***************************************************************************)
EXTENDS KVCacheManager

CONSTANTS policy,                    \* "fcfs" or "priority"
          priority,                  \* of a request; smaller goes first
          max_num_running_reqs,
          max_num_scheduled_tokens,  \* token budget of a step
          long_prefill_token_threshold,
          async_scheduling,
          max_concurrent_batches,
          defer_block_free,          \* the engine consumes KV of a connector
          requires_kv_delivery,
          LoadKVAsync,               \* how the connector may load: sync, async
          remote_tokens,             \* prompt tokens that it can load
          delays_free,               \* it sends the blocks of a stopped request
          recompute_kv_load_failures,
          FailingLoads,              \* the loads of LoadKVAsync that may fail
          MaxLoadFailures,           \* bound on the failed loads
          MaxResets                  \* bound on the calls of reset_prefix_cache

VARIABLES waiting, skipped_waiting, running, requests, finished_req_ids, batch_queue,
          deferred_frees, connector, num_resets

INSTANCE RequestQueue

schedVars == <<pool, req_to_blocks, num_cached_block, num_tokens, num_computed_tokens,
               content, raised, waiting, skipped_waiting, running, requests,
               finished_req_ids, batch_queue, deferred_frees, connector, num_resets>>

ASSUME SchedulerAssumption ==
  /\ policy \in {"fcfs", "priority"}
  /\ \A r, q \in Request : priority[r] = priority[q] => r = q
  /\ max_in_flight_tokens = max_concurrent_batches * max_num_scheduled_tokens
  /\ \A r \in Request : /\ Len(all_token_ids[r]) <= max_model_len
                        /\ remote_tokens[r] \in 0 .. num_prompt_tokens[r]
  /\ LoadKVAsync \subseteq BOOLEAN /\ FailingLoads \subseteq LoadKVAsync
  /\ FailingLoads # {} => Len(Groups) = 1
  /\ FALSE \in LoadKVAsync => max_concurrent_batches = 1

RequestStatus == {"NEW", "WAITING", "WAITING_FOR_REMOTE_KVS", "RUNNING", "PREEMPTED",
                  "FINISHED"}
NewRequest == [status |-> "NEW", num_in_flight_tokens |-> 0, num_stale_output_tokens |-> 0,
               drop_stale_output |-> FALSE, num_output_placeholders |-> 0]

scheduler == [kv |-> manager, num_computed_tokens |-> num_computed_tokens,
              num_tokens |-> num_tokens, waiting |-> waiting,
              skipped_waiting |-> skipped_waiting, running |-> running,
              requests |-> requests, finished_req_ids |-> finished_req_ids,
              batch_queue |-> batch_queue, deferred_frees |-> deferred_frees,
              connector |-> connector]

\* The next state of the scheduler, and of the slots whose contents were c.
SchedulerBecomes(s, c) ==
  /\ Becomes(s.kv)
  /\ content' = Usable(s.kv.pool, c)
  /\ num_computed_tokens' = s.num_computed_tokens /\ num_tokens' = s.num_tokens
  /\ waiting' = s.waiting /\ skipped_waiting' = s.skipped_waiting /\ running' = s.running
  /\ requests' = s.requests /\ finished_req_ids' = s.finished_req_ids
  /\ batch_queue' = s.batch_queue /\ deferred_frees' = s.deferred_frees
  /\ connector' = s.connector
-----------------------------------------------------------------------------
(***************************************************************************)
(* Giving blocks back.  Steps are counted relative to the last one whose   *)
(* output was processed, empty ones left out: a fence n opens when n more  *)
(* steps are processed, and a request has an unprocessed step if one in    *)
(* batch_queue names it.                                                   *)
(***************************************************************************)
InFlight(s, r) == \E i \in DOMAIN s.batch_queue : r \in DOMAIN s.batch_queue[i].tokens

NumSteps(s) == Cardinality({i \in DOMAIN s.batch_queue : s.batch_queue[i].order # <<>>})

pop_blocks_for_free(kv, r) ==
  [kv EXCEPT !.req_to_blocks = [g \in Group |-> [@[g] EXCEPT ![r] = <<>>]],
             !.num_cached_block = [g \in Group |-> [@[g] EXCEPT ![r] = Absent]]]
BlocksOf(kv, r) == ForGroups(<<>>, LAMBDA blocks, g : blocks \o kv.req_to_blocks[g][r])

\* Mutant: blocks go back to the pool while a step that writes them is in flight.
free_request_blocks_at_once(s, r) == [s EXCEPT !.kv = free(@, r)]

free_request_blocks(s, r) ==
  IF ~ defer_block_free \/ ~ InFlight(s, r) THEN [s EXCEPT !.kv = free(@, r)]
  ELSE [s EXCEPT !.kv = pop_blocks_for_free(@, r),
                 !.deferred_frees =
                   IF BlocksOf(s.kv, r) = <<>> THEN @
                   ELSE Append(@, [fence |-> NumSteps(s), blocks |-> BlocksOf(s.kv, r)])]

\* Mutant: an entry of the queue is dropped and its blocks stay referenced.
drain_deferred_frees_leaking(s) ==
  LET frees == s.deferred_frees
      closed == SelectSeq(frees, LAMBDA e : e.fence > 1)
  IN  [s EXCEPT !.deferred_frees = [i \in DOMAIN closed |-> [closed[i] EXCEPT !.fence = @ - 1]]]

\* Mutant: a fence opens one step late.
drain_deferred_frees_late(s) ==
  LET frees == s.deferred_frees
      open == {i \in DOMAIN frees : frees[i].fence <= 0}
      n == Cardinality(open)
      drained[i \in 0 .. n] ==
        IF i = 0 THEN s.kv.pool
        ELSE LET blocks == frees[i].blocks
             IN  free_blocks(drained[i - 1],
                             [j \in DOMAIN blocks |-> blocks[Len(blocks) + 1 - j]])
  IN  [s EXCEPT !.kv.pool = drained[n],
                !.deferred_frees = [i \in 1 .. Len(frees) - n |->
                                      [frees[n + i] EXCEPT !.fence = @ - 1]]]

\* One more step is processed: the entries up to the first closed fence are freed.
drain_deferred_frees(s) ==
  LET frees == s.deferred_frees
      n == CHOOSE k \in 0 .. Len(frees) : /\ \A i \in 1 .. k : frees[i].fence <= 1
                                          /\ k = Len(frees) \/ frees[k + 1].fence > 1
      drained[i \in 0 .. n] ==
        IF i = 0 THEN s.kv.pool
        ELSE LET blocks == frees[i].blocks
             IN  free_blocks(drained[i - 1],
                             [j \in DOMAIN blocks |-> blocks[Len(blocks) + 1 - j]])
  IN  [s EXCEPT !.kv.pool = drained[n],
                !.deferred_frees = [i \in 1 .. Len(frees) - n |->
                                      [frees[n + i] EXCEPT !.fence = @ - 1]]]

\* Mutant: the outputs of the steps in flight are not marked stale.
preempt_request_without_stale(s, r, drop) ==
  LET freed == free_request_blocks(s, r)
  IN  [freed EXCEPT !.num_computed_tokens[r] = 0,
                    !.requests[r].status = "PREEMPTED",
                    !.requests[r].num_output_placeholders = 0,
                    !.connector.inflight_prefills = @ \ {r},
                    !.waiting = prepend_request(@, r)]

preempt_request(s, r, drop) ==
  LET q == s.requests[r]
      freed == free_request_blocks(s, r)
  IN  [freed EXCEPT
         !.num_computed_tokens[r] = 0,
         !.requests[r] = [q EXCEPT
            !.status = "PREEMPTED",
            !.drop_stale_output = drop \/ (@ /\ q.num_stale_output_tokens > 0),
            !.num_stale_output_tokens = q.num_in_flight_tokens,
            !.num_output_placeholders = 0],
         !.connector.inflight_prefills = @ \ {r},
         !.waiting = prepend_request(@, r)]
=============================================================================
