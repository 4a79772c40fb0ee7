----------------------------- MODULE Scheduler -----------------------------
(***************************************************************************)
(* Scheduler and AsyncScheduler of vllm/v1/core/sched, with the engine's   *)
(* batch queue (engine/core.py): schedule() puts a step together and sends *)
(* it off, up to max_concurrent_batches steps are in flight, and           *)
(* update_from_output() takes their results in the order of the steps.     *)
(*                                                                         *)
(* The actions are the calls that the engine's loop makes, and what the    *)
(* workers' transfers do meanwhile.  Workers execute the steps in the      *)
(* order they were scheduled in, so content is updated when a step is sent *)
(* off.  The token a step samples is the next one of all_token_ids.        *)
(***************************************************************************)
EXTENDS KVConnector
LOCAL INSTANCE SequencesExt

(***************************************************************************)
(* schedule().  A pass over the running requests, then one over the        *)
(* waiting ones; t is the scheduler with the step being put together, and  *)
(* one iteration is one call of allocate_slots and what it leads to.       *)
(***************************************************************************)
NoRequest == "none"
EmptyStep(s) == [s |-> s, order |-> <<>>, tokens |-> [r \in Request |-> 0],
                 budget |-> max_num_scheduled_tokens, req_index |-> 1, trying |-> NoRequest,
                 num_new_tokens |-> 0, preempted |-> FALSE, stop |-> FALSE,
                 step_skipped_waiting |-> <<>>, loaded |-> [r \in Request |-> {}]]

\* The last step that can be needed has been scheduled: the outputs in flight
\* reach max_tokens even if every draft token among them is rejected.
ReachesMaxTokens(s, r) ==
  LET placeholders == s.requests[r].num_output_placeholders
  IN  placeholders > 0 /\ s.num_computed_tokens[r] + 2 - placeholders >= Len(all_token_ids[r])

\* next_decode_eligible_step: with a pipeline of pp_size stages a request that
\* samples a token is not scheduled in the next pp_size - 1 steps, which are
\* still in batch_queue.
pp_size == max_concurrent_batches - 1
DecodeTooSoon(s, r) ==
  async_scheduling /\ \E i \in DOMAIN s.batch_queue :
    /\ i > Len(s.batch_queue) + 1 - pp_size
    /\ r \in DOMAIN s.batch_queue[i].position

WithinThreshold(n) == IF long_prefill_token_threshold \in 1 .. n - 1
                      THEN long_prefill_token_threshold ELSE n

NumNewTokens(t, r) ==
  LET computed == t.s.num_computed_tokens[r]
      missing == t.s.num_tokens[r] + t.s.requests[r].num_output_placeholders - computed
  IN  Smaller(Smaller(WithinThreshold(missing), t.budget), max_model_len - computed - 1)

LowestPriority(s) == CHOOSE r \in Elements(s.running) :
                       \A q \in Elements(s.running) : priority[q] <= priority[r]

\* Mutant: the request that has run longest is preempted.
preempt_for_first(t, r) ==
  LET victim == t.s.running[1]
      part == victim \in Elements(t.order)
      without == [t.s EXCEPT !.running = remove_requests(@, {victim})]
  IN  [t EXCEPT !.s = preempt_request(without, victim, requires_kv_delivery),
                !.budget = @ + t.tokens[victim],
                !.tokens[victim] = 0,
                !.order = remove_requests(@, {victim}),
                !.req_index = IF part THEN @ - 1 ELSE @,
                !.trying = IF victim = r THEN NoRequest ELSE r,
                !.stop = victim = r,
                !.preempted = TRUE]

\* The victim of a preemption; one that is already part of the step is taken
\* out of it again, which only happens under the priority policy.
preempt_for(t, r) ==
  LET victim == IF policy = "priority" THEN LowestPriority(t.s) ELSE t.s.running[Len(t.s.running)]
      part == victim \in Elements(t.order)
      without == [t.s EXCEPT !.running = remove_requests(@, {victim})]
  IN  [t EXCEPT !.s = preempt_request(without, victim, requires_kv_delivery),
                !.budget = @ + t.tokens[victim],
                !.tokens[victim] = 0,
                !.order = remove_requests(@, {victim}),
                !.req_index = IF part THEN @ - 1 ELSE @,
                !.trying = IF victim = r THEN NoRequest ELSE r,
                !.stop = victim = r,
                !.preempted = TRUE]

\* With its slots a running request is part of the step; without them one is
\* preempted.
ScheduleTried(t, r, new, result) ==
  LET tried == [t EXCEPT !.s.kv = result.m, !.num_new_tokens = new]
  IN  IF ~ result.ok THEN preempt_for(tried, r)
      ELSE [tried EXCEPT !.order = Append(@, r), !.tokens[r] = new, !.budget = @ - new,
                         !.req_index = @ + 1, !.trying = NoRequest]

schedule_running_request(t) ==
  LET fresh == t.trying = NoRequest
      r == IF fresh THEN t.s.running[t.req_index] ELSE t.trying
      new == IF fresh THEN NumNewTokens(t, r) ELSE t.num_new_tokens
  IN  IF t.stop \/ (fresh /\ (t.req_index > Len(t.s.running) \/ t.budget = 0)) THEN t
      ELSE IF fresh /\ (ReachesMaxTokens(t.s, r) \/ DecodeTooSoon(t.s, r) \/ new = 0)
      THEN [t EXCEPT !.req_index = @ + 1]
      ELSE ScheduleTried(t, r, new,
             allocate_slots(t.s.kv, r, new, [g \in Group |-> <<>>], t.s.num_computed_tokens[r],
                            0, t.s.requests[r].num_in_flight_tokens, FALSE, FALSE, FALSE, 0))

\* Every iteration passes over a running request, schedules it or preempts one.
schedule_running(s) ==
  LET after[i \in 0 .. 2 * Cardinality(Request)] ==
        IF i = 0 THEN EmptyStep(s) ELSE schedule_running_request(after[i - 1])
  IN  after[2 * Cardinality(Request)]

\* Stale outputs that will be delivered are still in flight.
AwaitsStaleOutput(q) == q.num_stale_output_tokens > 0 /\ ~ q.drop_stale_output

\* With its slots a waiting request starts to run, or to load.
AdmitTried(t, queue, r, new, local, total, async, result) ==
  LET allocated == [t EXCEPT !.s[queue] = Tail(@), !.s.kv = result.m]
      admitted == [allocated EXCEPT
        !.s.running = Append(@, r),
        !.s.requests[r].status = "RUNNING",
        !.s.num_computed_tokens[r] = total,
        !.loaded[r] = local .. total - 1,
        !.order = Append(@, r), !.tokens[r] = new, !.budget = @ - new]
  IN  IF ~ result.ok THEN [t EXCEPT !.s.kv = result.m, !.stop = TRUE]
      ELSE IF async
      THEN [allocated EXCEPT !.s = start_loading(@, r, local, total),
                             !.step_skipped_waiting = prepend_request(@, r)]
      ELSE [admitted EXCEPT !.s = TrackPrefill(@, r, total + new < t.s.num_tokens[r])]

\* Mutant: an async load may take the blocks that prefills in flight still need.
admit_without_reservation(t, queue, r, hits, local, match) ==
  LET total == local + match.external
      new == IF match.async THEN 0
             ELSE Smaller(WithinThreshold(t.s.num_tokens[r] - total), t.budget)
  IN  AdmitTried(t, queue, r, new, local, total, match.async,
        allocate_slots(t.s.kv, r, new, hits, local, match.external,
                       t.s.requests[r].num_in_flight_tokens, TRUE,
                       t.s.running # <<>>, match.async, 0))

\* A waiting request asks for its slots.
admit(t, queue, r, hits, local, match) ==
  LET total == local + match.external
      new == IF match.async THEN 0
             ELSE Smaller(WithinThreshold(t.s.num_tokens[r] - total), t.budget)
      reserved == IF match.async THEN inflight_prefill_reserved_blocks(t.s) ELSE 0
  IN  AdmitTried(t, queue, r, new, local, total, match.async,
        allocate_slots(t.s.kv, r, new, hits, local, match.external,
                       t.s.requests[r].num_in_flight_tokens, TRUE,
                       t.s.running # <<>>, match.async, reserved))

\* A request that has computed tokens was loaded: its blocks are its own.
AdmitOne(t, queue, r) ==
  LET computed == t.s.num_computed_tokens[r]
      with_hit(local) == {admit(t, queue, r, hits, local, match) :
                            hits \in HitBlocks(t.s.kv.pool, r, local),
                            match \in get_num_new_matched_tokens(t.s, r, local)}
  IN  IF AwaitsStaleOutput(t.s.requests[r])
      THEN {[t EXCEPT !.s[queue] = Tail(@), !.step_skipped_waiting = prepend_request(@, r)]}
      ELSE IF computed > 0
      THEN {admit(t, queue, r, [g \in Group |-> <<>>], computed,
                  [external |-> 0, async |-> FALSE])}
      ELSE with_hit(HitLength(t.s.kv.pool, r))

\* No request is admitted in a step that has preempted one.
schedule_waiting_request(t) ==
  LET queue == select_waiting_queue(t.s)
      r == Head(t.s[queue])
  IN  IF \/ t.stop \/ t.preempted \/ t.budget = 0
         \/ t.s.waiting = <<>> /\ t.s.skipped_waiting = <<>>
         \/ Len(t.s.running) >= max_num_running_reqs
      THEN {t}
      ELSE IF Blocked(t.s, r)
      THEN {[t EXCEPT !.s[queue] = Tail(@), !.step_skipped_waiting = prepend_request(@, r)]}
      ELSE AdmitOne([t EXCEPT !.s = try_promote_blocked_waiting_request(@, r)], queue, r)

schedule_waiting(t) ==
  LET after[i \in 0 .. Cardinality(Request)] ==
        IF i = 0 THEN {t} ELSE UNION {schedule_waiting_request(u) : u \in after[i - 1]}
  IN  {[u EXCEPT !.s.skipped_waiting = prepend_requests(@, u.step_skipped_waiting)] :
         u \in after[Cardinality(Request)]}

\* The blocks that a step reads or writes for a request: from the window of its
\* first new token to the last one.
BlocksUsed(t, r) ==
  LET computed == t.s.num_computed_tokens[r]
      first(g) == IF Windowed(g) THEN Larger(0, computed + 1 - SlidingWindow(g)) ELSE 0
  IN  UNION {{SlotOf(t.s.kv.req_to_blocks[g][r], g, pos)[1] :
                pos \in first(g) .. computed + t.tokens[r] - 1} : g \in Group}

\* The slots that the next token of a request attends to hold its KV entries.
ReadsOwnEntries(kv, c, r, computed) ==
  \A g \in Group : \A pos \in 0 .. computed - 1 :
    (Windowed(g) => pos > computed - SlidingWindow(g)) =>
      LET slot == SlotOf(kv.req_to_blocks[g][r], g, pos)
      IN  slot[1] # null_block /\ c[slot[1]][slot[2]] = KeyOf(g, r, pos + 1)

\* The contents after the workers have executed a step: what it loads, but for
\* the invalid blocks, and the entries of the scheduled tokens.  Entries that
\* are computed from wrong ones are garbage; a request can read entries that
\* one scheduled before it writes in the same step.
Executed(t, invalid) ==
  LET computed == t.s.num_computed_tokens
      tables == t.s.kv.req_to_blocks
      loads == [r \in Request |->
                  {pos \in t.loaded[r] : SlotOf(tables[1][r], 1, pos)[1] \notin invalid}]
      writes == [r \in Request |-> computed[r] .. computed[r] + t.tokens[r] - 1]
      before == Overwritten(content, tables, loads, {})
      earlier(i) == [r \in Request |-> IF r \in Elements(SubSeq(t.order, 1, i)) THEN writes[r]
                                       ELSE {}]
      garbage[i \in 0 .. Len(t.order)] ==
        IF i = 0 THEN {}
        ELSE LET c == Overwritten(before, tables, earlier(i - 1), garbage[i - 1])
                 r == t.order[i]
             IN  IF ReadsOwnEntries(t.s.kv, c, r, computed[r]) THEN garbage[i - 1]
                 ELSE garbage[i - 1] \union {r}
  IN  Overwritten(before, tables, writes, garbage[Len(t.order)])

\* The blocks that fail to load with a step: none or any one.
FailingBlocks(t) ==
  {{}} \union (IF FALSE \notin FailingLoads \/ t.s.connector.num_failures >= MaxLoadFailures THEN {}
              ELSE UNION {{{SlotOf(t.s.kv.req_to_blocks[1][r], 1, pos)[1]} : pos \in t.loaded[r]} :
                            r \in Request})

\* _update_after_schedule of both schedulers.  A request that has caught up with
\* its tokens samples the next one, at the position it has then computed.
update_after_schedule(t, invalid) ==
  LET scheduled == Elements(t.order)
      computed == [r \in Request |-> t.s.num_computed_tokens[r] + t.tokens[r]]
      samples == {r \in scheduled : computed[r] >= t.s.num_tokens[r]
                                                     + t.s.requests[r].num_output_placeholders}
      step == [order |-> t.order, tokens |-> [r \in scheduled |-> t.tokens[r]],
               position |-> [r \in samples |-> computed[r]],
               blocks |-> UNION {BlocksUsed(t, r) : r \in scheduled}, invalid |-> invalid]
      prefilling == {r \in scheduled : computed[r] < t.s.num_tokens[r]
                                                        + t.s.requests[r].num_output_placeholders}
  IN  [t.s EXCEPT
         !.num_computed_tokens = computed,
         !.requests = [r \in Request |-> [@[r] EXCEPT
            !.num_in_flight_tokens = @ + t.tokens[r],
            !.num_output_placeholders = IF async_scheduling /\ r \in samples THEN @ + 1 ELSE @]],
         !.finished_req_ids = {},
         !.connector.inflight_prefills = @ \ (scheduled \ prefilling),
         !.connector.num_failures = @ + Cardinality(invalid),
         !.batch_queue = Append(@, step)]
-----------------------------------------------------------------------------
(***************************************************************************)
(* update_from_output().  eos is the set of requests whose new token ends  *)
(* them before max_tokens.                                                 *)
(***************************************************************************)
\* Mutant: a stale output takes back a placeholder of the resumed request.
update_request_with_output_stale(s, r, stale, stopped) ==
  LET running_before == s.requests[r].status = "RUNNING"
      taken == [s EXCEPT !.num_tokens[r] = @ + 1,
                         !.requests[r].num_output_placeholders =
                            IF async_scheduling THEN @ - 1 ELSE @]
      computed == s.num_computed_tokens[r] - taken.requests[r].num_output_placeholders
      cached == IF async_scheduling /\ running_before /\ enable_caching
                THEN [taken EXCEPT !.kv = cache_blocks(@, r, computed)] ELSE taken
  IN  IF stopped THEN finish_request(cached, r, TRUE) ELSE cached

update_request_with_output(s, r, stale, stopped) ==
  LET running_before == s.requests[r].status = "RUNNING"
      taken == [s EXCEPT !.num_tokens[r] = @ + 1,
                         !.requests[r].num_output_placeholders =
                            IF async_scheduling /\ ~ stale THEN @ - 1 ELSE @]
      computed == s.num_computed_tokens[r] - taken.requests[r].num_output_placeholders
      cached == IF async_scheduling /\ running_before /\ enable_caching
                THEN [taken EXCEPT !.kv = cache_blocks(@, r, computed)] ELSE taken
  IN  IF stopped THEN finish_request(cached, r, TRUE) ELSE cached

check_stop(s, r, eos) == r \in eos \/ s.num_tokens[r] + 1 >= Len(all_token_ids[r])

\* The result of a step for one of its requests.
update_request(s, step, r, eos, failed) ==
  LET n == step.tokens[r]
      q == s.requests[r]
      stale == q.num_stale_output_tokens > 0
      counted == [s EXCEPT
        !.requests[r].num_in_flight_tokens = @ - n,
        !.requests[r].num_stale_output_tokens = IF stale THEN @ - n ELSE @]
  IN  IF \/ q.status = "FINISHED" \/ r \in failed
         \/ (stale /\ q.drop_stale_output) \/ r \notin DOMAIN step.position
      THEN counted
      ELSE update_request_with_output(counted, r, stale, check_stop(s, r, eos))

\* The outputs of a step; the requests that failed to load end in an error.
TakeOutputs(handled, step, eos) ==
  LET after[i \in 0 .. Len(step.order)] ==
        IF i = 0 THEN handled.s
        ELSE update_request(after[i - 1], step, step.order[i], eos, handled.failed)
      errors == IF recompute_kv_load_failures THEN <<>> ELSE SetToSeq(handled.failed)
      finished[i \in 0 .. Len(errors)] ==
        IF i = 0 THEN after[Len(step.order)] ELSE finish_request(finished[i - 1], errors[i], FALSE)
  IN  finished[Len(errors)]

\* Failed blocks are handled before the outputs, finished transfers after them.
update_from_output(s, eos) ==
  LET step == Head(s.batch_queue)
      loading == s.connector.loading
      popped == [s EXCEPT !.batch_queue = Tail(@),
                          !.connector.loading = [r \in DOMAIN @ |-> [@[r] EXCEPT !.invalid = {}]]]
      drained == IF step.order = <<>> THEN popped ELSE drain_deferred_frees(popped)
      invalid == step.invalid \union UNION {loading[r].invalid : r \in DOMAIN loading}
  IN  update_from_kv_xfer_finished(
        TakeOutputs(handle_invalid_blocks(drained, invalid, step.tokens), step, eos))
-----------------------------------------------------------------------------
(***************************************************************************)
(* The calls of the engine core.                                           *)
(***************************************************************************)
SchedulerInit ==
  /\ ManagerInit
  /\ waiting = <<>> /\ skipped_waiting = <<>> /\ running = <<>>
  /\ requests = [r \in Request |-> NewRequest]
  /\ finished_req_ids = {} /\ batch_queue = <<>> /\ deferred_frees = <<>> /\ num_resets = 0
  /\ connector = NoTransfers

Unfinished == {r \in Request : requests[r].status \notin {"NEW", "FINISHED"}}

\* step_with_batch_queue schedules a step, which may be empty, whenever there are
\* requests, and then takes the output of the oldest step if the queue is full
\* or nothing is left to schedule.  Only aborts are handled in between.
HasRequests == \/ Unfinished # {} \/ finished_req_ids # {}
               \/ RetainedRequests(scheduler) # {}
CanSchedule == HasRequests /\ Len(batch_queue) < max_concurrent_batches
CanUpdate == batch_queue # <<>> /\ (~ HasRequests \/ Len(batch_queue) = max_concurrent_batches)
BetweenSteps == Len(batch_queue) < max_concurrent_batches

AddRequest(r) ==
  /\ BetweenSteps /\ requests[r].status = "NEW"
  /\ requests' = [requests EXCEPT ![r].status = "WAITING"]
  /\ waiting' = add_request(waiting, r)
  /\ UNCHANGED <<pool, req_to_blocks, num_cached_block, num_tokens, num_computed_tokens, content,
                 raised, skipped_waiting, running, finished_req_ids, batch_queue, deferred_frees,
                 connector, num_resets>>

Schedule ==
  /\ CanSchedule
  /\ \E u \in schedule_waiting(schedule_running(scheduler)) :
       LET t == IF u.s.kv.raised THEN EmptyStep(u.s) ELSE u   \* nothing is sent off
       IN  \E invalid \in FailingBlocks(t) :
             SchedulerBecomes(update_after_schedule(t, invalid), Executed(t, invalid))
  /\ UNCHANGED num_resets

UpdateFromOutput ==
  /\ CanUpdate
  /\ \E eos \in SUBSET DOMAIN Head(batch_queue).position :
       SchedulerBecomes(update_from_output(scheduler, eos), content)
  /\ UNCHANGED num_resets

FinishRequest(r) ==
  /\ r \in Unfinished
  /\ SchedulerBecomes(finish_request(scheduler, r, FALSE), content)
  /\ UNCHANGED num_resets

\* Mutant: the first running request keeps its blocks.
ResetPrefixCache_but_first(reset_running_requests) ==
  LET n == IF reset_running_requests /\ running # <<>> THEN Len(running) - 1 ELSE 0
      after[i \in 0 .. n] ==
        IF i = 0 THEN [scheduler EXCEPT !.running = SubSeq(@, 1, Len(@) - n)]
        ELSE preempt_request(after[i - 1], running[Len(running) + 1 - i], TRUE)
  IN  /\ BetweenSteps /\ num_resets < MaxResets
      /\ SchedulerBecomes([after[n] EXCEPT !.kv.pool = reset_prefix_cache(@)], content)
      /\ num_resets' = num_resets + 1

\* reset_prefix_cache, with every running request preempted first or with none.
SchedulerResetPrefixCache(reset_running_requests) ==
  LET n == IF reset_running_requests THEN Len(running) ELSE 0
      after[i \in 0 .. n] ==
        IF i = 0 THEN [scheduler EXCEPT !.running = SubSeq(@, 1, Len(@) - n)]
        ELSE preempt_request(after[i - 1], running[n + 1 - i], TRUE)
  IN  /\ BetweenSteps /\ num_resets < MaxResets
      /\ SchedulerBecomes([after[n] EXCEPT !.kv.pool = reset_prefix_cache(@)], content)
      /\ num_resets' = num_resets + 1

\* An async load: blocks may fail, which is reported no later than its end.
LoadFails(r) ==
  /\ TRUE \in FailingLoads /\ r \in DOMAIN connector.loading
  /\ ~ connector.loading[r].done /\ connector.loading[r].failed = {}
  /\ connector.num_failures < MaxLoadFailures
  /\ \E b \in LoadBlocks(connector.loading[r]) :
       connector' = [connector EXCEPT !.loading[r].failed = {b}, !.loading[r].invalid = {b},
                                      !.num_failures = @ + 1]
  /\ UNCHANGED <<pool, req_to_blocks, num_cached_block, num_tokens, num_computed_tokens, content,
                 raised, waiting, skipped_waiting, running, requests, finished_req_ids,
                 batch_queue, deferred_frees, num_resets>>

LoadDone(r) ==
  /\ r \in DOMAIN connector.loading /\ ~ connector.loading[r].done
  /\ connector' = [connector EXCEPT !.loading[r].done = TRUE]
  /\ content' = LET load == connector.loading[r]
                IN  Overwritten(content, [g \in Group |-> [q \in Request |-> load.tables[g]]],
                      [q \in Request |-> IF q = r THEN LoadedPositions(load) ELSE {}], {})
  /\ UNCHANGED <<pool, req_to_blocks, num_cached_block, num_tokens, num_computed_tokens,
                 raised, waiting, skipped_waiting, running, requests, finished_req_ids,
                 batch_queue, deferred_frees, num_resets>>

SendDone(r) ==
  /\ r \in connector.sending
  /\ connector' = [connector EXCEPT !.sending = @ \ {r}, !.sent = @ \union {r}]
  /\ UNCHANGED <<pool, req_to_blocks, num_cached_block, num_tokens, num_computed_tokens, content,
                 raised, waiting, skipped_waiting, running, requests, finished_req_ids,
                 batch_queue, deferred_frees, num_resets>>

SchedulerNext ==
  \/ \E r \in Request : AddRequest(r) \/ FinishRequest(r)
  \/ \E r \in Request : LoadFails(r) \/ LoadDone(r) \/ SendDone(r)
  \/ Schedule
  \/ UpdateFromOutput
  \/ \E reset_running_requests \in BOOLEAN : SchedulerResetPrefixCache(reset_running_requests)

SchedulerSpec == SchedulerInit /\ [][SchedulerNext]_schedVars

\* What Schedule and UpdateFromOutput do to the batch queue, whenever their
\* guards hold: one appends a step and the other takes the oldest.  (Appending
\* an empty step is one way to do so, which is all that ENABLED has to find.)
StepScheduled == /\ CanSchedule
                 /\ \/ batch_queue' = Append(batch_queue, <<>>)
                    \/ Len(batch_queue') = Len(batch_queue) + 1
OutputTaken == CanUpdate /\ batch_queue' = Tail(batch_queue)

\* The engine core runs its loop for ever, the workers answer, and every
\* transfer ends.
Fairness == /\ WF_batch_queue(StepScheduled) /\ WF_batch_queue(OutputTaken)
            /\ \A r \in Request : WF_connector(LoadDone(r)) /\ WF_connector(SendDone(r))

FairSchedulerSpec == SchedulerSpec /\ Fairness
-----------------------------------------------------------------------------
\* The scheduler's state has its types: no counter of tokens in flight, stale or
\* reserved goes below zero, and no fence lies beyond the steps in flight.
SchedulerTypeOK ==
  /\ ManagerTypeOK
  /\ waiting \in Seq(Request) /\ skipped_waiting \in Seq(Request) /\ running \in Seq(Request)
  /\ Len(running) <= max_num_running_reqs
  /\ requests \in [Request -> [status : RequestStatus, drop_stale_output : BOOLEAN,
                               num_in_flight_tokens : Nat, num_stale_output_tokens : Nat,
                               num_output_placeholders : Nat]]
  /\ finished_req_ids \subseteq Request
  /\ Len(batch_queue) <= max_concurrent_batches
  /\ DOMAIN connector = DOMAIN NoTransfers
  /\ \A r \in DOMAIN connector.loading : r \in Request /\ connector.loading[r].done \in BOOLEAN
  /\ connector.finished_recving_kv_req_ids \subseteq DOMAIN connector.loading
  /\ connector.inflight_prefills \subseteq Unfinished
  /\ \A i \in DOMAIN deferred_frees : deferred_frees[i].fence \in 1 .. NumSteps(scheduler)

\* Every request is in the queue that its status names, once: preemption, stale
\* outputs that stop a preempted request, and aborts move it between the queues.
QueuesMatchStatus ==
  /\ NoRepetition(running) /\ NoRepetition(waiting \o skipped_waiting)
  /\ Elements(running) = {r \in Request : requests[r].status = "RUNNING"}
  /\ Elements(waiting \o skipped_waiting)
       = {r \in Request : requests[r].status
                            \in {"WAITING", "WAITING_FOR_REMOTE_KVS", "PREEMPTED"}}

\* The blocks of the pool are accounted for: what the tables name and what
\* deferred_frees retains is exactly what is referenced.
RefCntCountsRetained ==
  \A b \in Block : pool.ref_cnt[b] = Holders(b) +
    Cardinality({e \in (DOMAIN deferred_frees) \X (1 .. max_model_len * Len(Groups)) :
                   /\ e[2] \in DOMAIN deferred_frees[e[1]].blocks
                   /\ deferred_frees[e[1]].blocks[e[2]] = b})

\* No step in flight has failed to load a block.
LoadsReported == \A i \in DOMAIN batch_queue : batch_queue[i].invalid = {}

\* A request's block tables hold the KV entries of all its computed tokens that
\* its next token attends to, those of the steps in flight included: the blocks
\* it found cached or was given again after a preemption are right.
ComputedTokensInTable ==
  \A r \in Elements(running) :
    LoadsReported => ReadsOwnEntries(manager, content, r, num_computed_tokens[r])

\* A block in the prefix cache holds the prefix it is cached as, once the steps
\* that have been sent off are done.
SchedulerCacheSound == LoadsReported => CacheHolds(content)

\* The outputs in flight that will be delivered to a request are its next tokens,
\* in order and without a gap: nothing is sampled twice and nothing lost when
\* it is preempted, reset and resumed while its steps are in flight.
OutputsInOrder ==
  \A r \in Unfinished :
    LET steps == {i \in DOMAIN batch_queue : r \in DOMAIN batch_queue[i].tokens}
        before[i \in 0 .. Len(batch_queue)] ==    \* tokens of r in the first i steps
          IF i = 0 THEN 0
          ELSE before[i - 1] + (IF i \in steps THEN batch_queue[i].tokens[r] ELSE 0)
        dropped == {i \in steps : requests[r].drop_stale_output
                                   /\ before[i] <= requests[r].num_stale_output_tokens}
        delivered == {i \in steps \ dropped : r \in DOMAIN batch_queue[i].position}
    IN  /\ before[Len(batch_queue)] = requests[r].num_in_flight_tokens
        /\ \A i \in delivered : batch_queue[i].position[r] =
             num_tokens[r] + Cardinality({j \in delivered : j < i})

\* With a KV connector that loads into freed blocks, no step in flight uses a
\* block that has been given back to the pool: neither preemption, finishing nor
\* the sliding window frees it before the step's output is processed.
InFlightBlocksHeld ==
  defer_block_free =>
    \A i \in DOMAIN batch_queue : \A b \in batch_queue[i].blocks :
      b # null_block /\ pool.ref_cnt[b] > 0

\* While a load writes blocks they belong to its request alone and cannot be
\* found in the prefix cache, even if the request is aborted, fails or the cache
\* is reset in the meantime.
LoadingBlocksHeld ==
  \A r \in DOMAIN connector.loading : ~ connector.loading[r].done =>
    \A b \in LoadBlocks(connector.loading[r]) :
      /\ \E g \in Group : b \in Elements(req_to_blocks[g][r])
      /\ pool.ref_cnt[b] = 1 /\ HashesOf(pool, b) = {}

\* reset_prefix_cache(reset_running_requests=True) always succeeds: preempting
\* all running requests leaves no block referenced.
ResetSucceeds ==
  [][SchedulerResetPrefixCache(TRUE) => \A k \in Key : pool'.cached[k] = {}]_schedVars

\* No exception leaves schedule(): allocate_slots finds enough blocks for what it
\* has promised, although hits leave the free list and deferred frees hold some.
SchedulerNeverRaises == ~ raised

\* Every request that was added finishes: preemption, deferred frees and stale
\* outputs never keep it waiting for ever.
EveryRequestFinishes ==
  \A r \in Request : (requests[r].status = "WAITING") ~> (requests[r].status = "FINISHED")

\* The blocks of a finished request go back to the pool, however long a load, a
\* send or a step in flight has kept them.
BlocksReturned ==
  \A r \in Request : (requests[r].status = "FINISHED") ~>
                       (deferred_frees = <<>> /\ \A g \in Group : req_to_blocks[g][r] = <<>>)
=============================================================================
