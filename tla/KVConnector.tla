---------------------------- MODULE KVConnector ----------------------------
(***************************************************************************)
(* The scheduler's side of a KV connector: loading KV entries of a prompt  *)
(* from a remote cache, with the step that computes the rest (sync) or     *)
(* before it (async, status WAITING_FOR_REMOTE_KVS); sending the blocks of *)
(* a request that stopped; and loads that fail.  Blocks of a transfer stay *)
(* with their request until the workers report that it has finished.       *)
(*                                                                         *)
(* connector holds the scheduler's sets of request ids and the transfers   *)
(* of the workers.  An async load names the blocks it was given: they are  *)
(* written when it is done, whoever holds them then.                       *)
(***************************************************************************)
EXTENDS SchedulerState
LOCAL INSTANCE FiniteSetsExt
LOCAL INSTANCE Functions
LOCAL INSTANCE SequencesExt

NoTransfers == [loading |-> <<>>, sending |-> {}, sent |-> {},
                finished_recving_kv_req_ids |-> {}, failed_recving_kv_req_ids |-> {},
                inflight_prefills |-> {}, num_failures |-> 0]

HasConnector == LoadKVAsync # {} \/ defer_block_free \/ requires_kv_delivery

\* The connector's answers: how many tokens after the local ones it can load, and
\* whether asynchronously.  A sync load leaves a token to compute.
get_num_new_matched_tokens(s, r, local) ==
  LET tokens(async) == Smaller(remote_tokens[r], s.num_tokens[r] - (IF async THEN 0 ELSE 1))
      answers == {[external |-> tokens(async) - local, async |-> async] :
                    async \in {a \in LoadKVAsync : tokens(a) > local}}
  IN  IF answers = {} THEN {[external |-> 0, async |-> FALSE]} ELSE answers

request_remaining_blocks(s, r) ==
  get_num_blocks_to_allocate(s.kv, r, Smaller(s.num_tokens[r], max_model_len),
                             [g \in Group |-> <<>>], s.num_computed_tokens[r], TRUE)

inflight_prefill_reserved_blocks(s) ==
  MapThenSumSet(LAMBDA r : request_remaining_blocks(s, r), s.connector.inflight_prefills)

\* Only requests that an async load could wait for are tracked.
TrackPrefill(s, r, prefilling) ==
  IF ~ prefilling \/ TRUE \notin LoadKVAsync THEN s
  ELSE [s EXCEPT !.connector.inflight_prefills = @ \union {r}]

\* An admitted request whose KV entries first .. last - 1 are loaded asynchronously.
start_loading(s, r, first, last) ==
  LET load == [status |-> s.requests[r].status,
               tables |-> [g \in Group |-> s.kv.req_to_blocks[g][r]],
               first |-> first, last |-> last, done |-> FALSE, failed |-> {}, invalid |-> {}]
  IN  TrackPrefill([s EXCEPT !.requests[r].status = "WAITING_FOR_REMOTE_KVS",
                             !.num_computed_tokens[r] = last,
                             !.connector.loading = [q \in DOMAIN @ \union {r} |->
                                IF q = r THEN load ELSE @[q]]], r, TRUE)

\* The blocks that a load writes, and what it writes: all but the failed blocks.
LoadBlocks(load) ==
  {SlotOf(load.tables[g], g, pos)[1] : g \in Group, pos \in load.first .. load.last - 1}
    \ {null_block}
LoadedPositions(load) ==
  {pos \in load.first .. load.last - 1 : SlotOf(load.tables[1], 1, pos)[1] \notin load.failed}

\* _update_waiting_for_remote_kv: the loaded blocks are cached now, and of a
\* prompt that is all there the last token is computed again.
update_waiting_for_remote_kv(s, r) ==
  LET computed == s.num_computed_tokens[r]
      failed == r \in s.connector.failed_recving_kv_req_ids
      whole == ~ failed /\ computed = s.num_tokens[r]
  IN  [s EXCEPT !.kv = IF failed /\ computed = 0 THEN free(@, r)
                       ELSE IF enable_caching THEN cache_blocks(@, r, computed) ELSE @,
                !.num_computed_tokens[r] = IF whole THEN computed - 1 ELSE computed,
                !.connector.failed_recving_kv_req_ids = @ \ {r},
                !.connector.finished_recving_kv_req_ids = @ \ {r}]

\* Mutant: a request goes on without waiting for its load.
Blocked_never(s, r) == FALSE

Blocked(s, r) == /\ s.requests[r].status = "WAITING_FOR_REMOTE_KVS"
                 /\ r \notin s.connector.finished_recving_kv_req_ids

\* num_preemptions says which of the two statuses the request had.
try_promote_blocked_waiting_request(s, r) ==
  IF s.requests[r].status # "WAITING_FOR_REMOTE_KVS" \/ Blocked(s, r) THEN s
  ELSE LET loaded == update_waiting_for_remote_kv(s, r)
       IN  [loaded EXCEPT !.requests[r].status = s.connector.loading[r].status,
                          !.connector.loading = Restrict(@, DOMAIN @ \ {r})]
-----------------------------------------------------------------------------
(***************************************************************************)
(* Finishing a request.                                                    *)
(***************************************************************************)
\* request_finished(): the connector may keep the blocks of a request that has
\* stopped, to send them.  Blocks out of the window are freed before.
connector_finished(s, r) ==
  IF ~ HasConnector THEN s
  ELSE LET processed == s.num_computed_tokens[r] - s.requests[r].num_in_flight_tokens
       IN  [s EXCEPT !.kv = remove_skipped_blocks(@, r, Larger(0, processed))]

\* _free_blocks: the request is forgotten.
forget_request(s, r) ==
  [free_request_blocks(s, r) EXCEPT !.connector.loading = Restrict(@, DOMAIN @ \ {r})]

\* Mutant: a preempted request that stops stays in its queue.
finish_request_in_queue(s, r, stopped) ==
  [forget_request([s EXCEPT !.requests[r].status = "FINISHED"], r) EXCEPT
     !.running = remove_requests(@, {r}),
     !.finished_req_ids = @ \union {r}]

\* Mutant: the blocks of an async load are freed while it writes them.
finish_request_at_once(s, r, stopped) ==
  LET left == [s EXCEPT !.running = remove_requests(@, {r}),
                        !.waiting = remove_requests(@, {r}),
                        !.skipped_waiting = remove_requests(@, {r}),
                        !.requests[r].status = "FINISHED",
                        !.finished_req_ids = @ \union {r},
                        !.connector.finished_recving_kv_req_ids = @ \ {r},
                        !.connector.failed_recving_kv_req_ids = @ \ {r},
                        !.connector.inflight_prefills = @ \ {r}]
  IN  free_request_blocks(connector_finished(left, r), r)

\* finish_requests and _free_request: the blocks stay while a load is writing
\* them or the connector sends them.
finish_request(s, r, stopped) ==
  LET left == [s EXCEPT !.running = remove_requests(@, {r}),
                        !.waiting = remove_requests(@, {r}),
                        !.skipped_waiting = remove_requests(@, {r}),
                        !.requests[r].status = "FINISHED",
                        !.finished_req_ids = @ \union {r},
                        !.connector.finished_recving_kv_req_ids = @ \ {r},
                        !.connector.failed_recving_kv_req_ids = @ \ {r},
                        !.connector.inflight_prefills = @ \ {r}]
      done == connector_finished(left, r)
  IN  IF Blocked(s, r) THEN done
      ELSE IF stopped /\ delays_free THEN [done EXCEPT !.connector.sending = @ \union {r}]
      ELSE forget_request(done, r)

\* The finished requests that are still in self.requests.
RetainedRequests(s) ==
  {r \in DOMAIN s.connector.loading : s.requests[r].status = "FINISHED"}
    \union s.connector.sending \union s.connector.sent
-----------------------------------------------------------------------------
(***************************************************************************)
(* What the workers report with the output of a step: blocks whose load    *)
(* has failed, and finished transfers.                                     *)
(***************************************************************************)
\* A request loses the tokens from its first invalid block on.  Of requests that
\* share the block only the first does: it will compute it again for them.
update_requests_with_invalid_blocks(s, reqs, invalid, tokens) ==
  LET after[i \in 0 .. Len(reqs)] ==
        IF i = 0 THEN [s |-> s, marked |-> {}, affected |-> {}, evict |-> {}]
        ELSE LET t == after[i - 1]
                 r == reqs[i]
                 blocks == t.s.kv.req_to_blocks[1][r]
                 computed == t.s.num_computed_tokens[r]
                               - (IF r \in DOMAIN tokens THEN tokens[r] ELSE 0)
                 bad == {j \in 1 .. Smaller(cdiv(computed, BlockSize(1)), Len(blocks)) :
                           blocks[j] \in invalid}
                 fresh == {j \in bad : blocks[j] \notin t.marked}
                 valid == IF fresh = {} THEN computed ELSE (Min(fresh) - 1) * BlockSize(1)
             IN  IF bad = {} THEN t
                 ELSE [s |-> [t.s EXCEPT !.num_computed_tokens[r] = valid],
                       marked |-> t.marked \union {blocks[j] : j \in fresh},
                       affected |-> t.affected \union {r},
                       evict |-> IF fresh = {} THEN t.evict
                                 ELSE t.evict \union
                                        {blocks[j] : j \in Min(fresh) .. Len(blocks)}]
  IN  after[Len(reqs)]

\* What follows for the requests that wait for a load, and for the running ones:
\* the state after, and the requests that the rest of update_from_output skips.
InvalidHandled(async, sync) ==
  IF recompute_kv_load_failures
  THEN [s |-> [sync.s EXCEPT !.connector.failed_recving_kv_req_ids = @ \union async.affected],
        failed |-> sync.affected]
  ELSE [s |-> [sync.s EXCEPT !.kv.pool = evict_blocks(@, sync.evict \cap Block)],
        failed |-> async.affected \union sync.affected]

\* Mutant: only running requests are looked at.
handle_invalid_blocks_of_running(s, invalid, tokens) ==
  InvalidHandled([affected |-> {}],
                 update_requests_with_invalid_blocks(s, s.running, invalid, tokens))

handle_invalid_blocks(s, invalid, tokens) ==
  LET loading == {r \in Request : s.requests[r].status = "WAITING_FOR_REMOTE_KVS"}
      and_running(async) == InvalidHandled(async,
        update_requests_with_invalid_blocks(async.s, s.running, invalid, tokens))
  IN  and_running(update_requests_with_invalid_blocks(
                    s, Filter(s.skipped_waiting, loading), invalid, tokens))

\* Mutant: the end of the load of an aborted request is ignored.
update_from_kv_xfer_finished_unless_aborted(s) ==
  LET loaded == {r \in DOMAIN s.connector.loading : s.connector.loading[r].done}
      ended == SetToSeq(s.connector.sent)
      after[i \in 0 .. Len(ended)] ==
        IF i = 0 THEN [s EXCEPT !.connector.finished_recving_kv_req_ids =
                                   @ \union (loaded \ RetainedRequests(s)),
                                !.connector.sent = {}]
        ELSE forget_request(after[i - 1], ended[i])
  IN  after[Len(ended)]

\* _update_from_kv_xfer_finished.
update_from_kv_xfer_finished(s) ==
  LET loaded == {r \in DOMAIN s.connector.loading : s.connector.loading[r].done}
      waiting_for_it == loaded \ RetainedRequests(s)
      ended == SetToSeq((loaded \intersect RetainedRequests(s)) \union s.connector.sent)
      after[i \in 0 .. Len(ended)] ==
        IF i = 0 THEN [s EXCEPT !.connector.finished_recving_kv_req_ids = @ \union waiting_for_it,
                                !.connector.sent = {}]
        ELSE forget_request(after[i - 1], ended[i])
  IN  after[Len(ended)]
=============================================================================
