---------------------------- MODULE EncoderCache ----------------------------
(***************************************************************************)
(* The cache of encoder outputs (image embeddings): EncoderCacheManager of *)
(* vllm/v1/core/encoder_cache_manager.py, the part of the scheduler that   *)
(* drives it (vllm/v1/core/sched/scheduler.py), and the outputs that the   *)
(* model runner keeps (vllm/v1/worker/gpu_model_runner.py).                *)
(*                                                                         *)
(* The scheduler decides what is cached before the workers have computed   *)
(* or dropped anything.  Workers execute the steps in the order they were  *)
(* scheduled in, so what a step does to their cache is applied when it is  *)
(* sent off.  A request has a prompt with images and generates one token.  *)
(* KV blocks are abstracted to whether allocate_slots finds enough, and    *)
(* the prefix cache to how many tokens of an admitted request it holds.    *)
(***************************************************************************)
EXTENDS FiniteSets, Lists
LOCAL INSTANCE FiniteSetsExt

CONSTANTS Request,
          mm_features,                  \* request -> its inputs, sorted by offset
          num_prompt_tokens,            \* request -> length of its prompt
          priority,                     \* request -> priority, larger is less urgent
          policy,                       \* "fcfs" or "priority"
          cache_size,                   \* capacity of the cache, in embeddings
          max_num_encoder_input_tokens, \* encoder budget of a step, in embeddings
          max_num_scheduled_tokens,     \* token budget of a step
          max_concurrent_batches,       \* steps in flight, 1 without async scheduling
          shift_computed_tokens,        \* 1 with an EAGLE-like drafter, else 0
          disable_chunked_mm_input,
          PrefixHits,                   \* the prefix lengths that may be cached
          MaxFailures, MaxResets        \* bounds: allocate_slots failing, resets

Input(r) == DOMAIN mm_features[r]
Identifier(r, i) == mm_features[r][i].identifier
get_num_encoder_embeds(r, i) == Cardinality(mm_features[r][i].is_embed)
mm_hash == UNION {{Identifier(r, i) : i \in Input(r)} : r \in Request}

\* An identifier stands for one item, which fits in the cache and in the budget.
Embeds(h) == LET f == CHOOSE p \in UNION {{r} \X Input(r) : r \in Request} :
                        Identifier(p[1], p[2]) = h
             IN  get_num_encoder_embeds(f[1], f[2])

ASSUME EncoderAssumption ==
  /\ \A r \in Request : \A i \in Input(r) :
       /\ get_num_encoder_embeds(r, i) = Embeds(Identifier(r, i))
       /\ Embeds(Identifier(r, i)) <= cache_size
       /\ Embeds(Identifier(r, i)) <= max_num_encoder_input_tokens
  /\ \A q, r \in Request : priority[q] = priority[r] => q = r

VARIABLES manager,         \* the EncoderCacheManager
          waiting, skipped_waiting, running,
          requests,        \* request -> status and counters
          batch_queue,     \* steps in flight, oldest first
          encoder_cache,   \* model runner: the outputs it holds
          misses,          \* history: outputs that a step needed and lacked
          num_failures, num_resets

encVars == <<manager, waiting, skipped_waiting, running, requests, batch_queue, encoder_cache,
             misses, num_failures, num_resets>>

INSTANCE RequestQueue

Smaller(a, b) == IF a < b THEN a ELSE b
Larger(a, b) == IF a < b THEN b ELSE a
Without(q, x) == Filter(q, Elements(q) \ {x})
-----------------------------------------------------------------------------
(***************************************************************************)
(* EncoderCacheManager.  m is its state; cached maps the identifiers that  *)
(* have an entry to the requests that refer to it.                         *)
(***************************************************************************)
EmptyManager ==
  [num_free_slots |-> cache_size, num_freeable_slots |-> cache_size,
   cached |-> [h \in {} |-> {}], request_cached_ids |-> [r \in Request |-> {}],
   freeable |-> <<>>, freed |-> {}]

WithEntry(cached, h, refs) == [g \in DOMAIN cached \union {h} |-> IF g = h THEN refs ELSE cached[g]]

\* Mutant: a hit does not refer to the entry.
check_and_update_cache_unreferenced(m, r, i) == m

\* A hit: the request refers to the entry, which can no longer be evicted.
check_and_update_cache(m, r, i) ==
  LET h == Identifier(r, i)
      unused == m.cached[h] = {}
  IN  [m EXCEPT !.freeable = IF unused THEN Without(@, h) ELSE @,
                !.num_freeable_slots = IF unused THEN @ - Embeds(h) ELSE @,
                !.cached[h] = @ \union {r},
                !.request_cached_ids[r] = @ \union {i}]

\* Mutant: the workers are not told of what is evicted.
evict_unreported(m, num_embeds) ==
  LET after[k \in 0 .. Len(m.freeable)] ==
        IF k = 0 \/ num_embeds <= after[k - 1].num_free_slots
        THEN IF k = 0 THEN m ELSE after[k - 1]
        ELSE LET n == after[k - 1]
                 h == Head(n.freeable)
             IN  [n EXCEPT !.freeable = Tail(@), !.num_free_slots = @ + Embeds(h),
                           !.cached = [g \in DOMAIN @ \ {h} |-> @[g]]]
  IN  after[Len(m.freeable)]

\* The oldest entries without a reference are evicted until there is room.
evict(m, num_embeds) ==
  LET after[k \in 0 .. Len(m.freeable)] ==
        IF k = 0 THEN m
        ELSE LET n == after[k - 1]
                 h == Head(n.freeable)
             IN  IF num_embeds <= n.num_free_slots THEN n
                 ELSE [n EXCEPT !.freeable = Tail(@), !.num_free_slots = @ + Embeds(h),
                                !.freed = @ \union {h},
                                !.cached = [g \in DOMAIN @ \ {h} |-> @[g]]]
  IN  after[Len(m.freeable)]

can_allocate(m, r, i, encoder_compute_budget, num_embeds_to_schedule) ==
  LET num_embeds == get_num_encoder_embeds(r, i) + num_embeds_to_schedule
      ok == /\ get_num_encoder_embeds(r, i) <= encoder_compute_budget
            /\ num_embeds <= m.num_free_slots \/ num_embeds <= m.num_freeable_slots
  IN  [ok |-> ok, m |-> IF ok THEN evict(m, num_embeds) ELSE m]

allocate(m, r, i) ==
  LET h == Identifier(r, i)
      refs == IF h \in DOMAIN m.cached THEN m.cached[h] ELSE {}
  IN  [m EXCEPT !.cached = WithEntry(@, h, refs \union {r}),
                !.request_cached_ids[r] = @ \union {i},
                !.num_free_slots = @ - get_num_encoder_embeds(r, i),
                !.num_freeable_slots = @ - get_num_encoder_embeds(r, i)]

\* Mutant: every release of an input adds its entry to the freeable ones.
free_encoder_input_again(m, r, i) ==
  LET h == Identifier(r, i)
      left == IF h \in DOMAIN m.cached THEN m.cached[h] \ {r} ELSE {}
      clean == [m EXCEPT !.request_cached_ids[r] = @ \ {i}]
  IN  IF h \notin DOMAIN m.cached THEN clean
      ELSE IF left # {} THEN [clean EXCEPT !.cached[h] = left]
      ELSE [clean EXCEPT !.cached[h] = {}, !.freeable = Append(@, h),
                         !.num_freeable_slots = @ + get_num_encoder_embeds(r, i)]

\* An entry without a reference stays, at the end of the freeable ones.
free_encoder_input(m, r, i) ==
  LET h == Identifier(r, i)
      referenced == h \in DOMAIN m.cached /\ m.cached[h] # {}
      clean == [m EXCEPT !.request_cached_ids[r] = @ \ {i}]
  IN  IF ~ referenced THEN clean
      ELSE IF m.cached[h] \ {r} # {} THEN [clean EXCEPT !.cached[h] = @ \ {r}]
      ELSE [clean EXCEPT !.cached[h] = {}, !.freeable = Append(@, h),
                         !.num_freeable_slots = @ + get_num_encoder_embeds(r, i)]

FreeInputs(m, r, inputs) ==
  LET after[i \in 0 .. Len(mm_features[r])] ==
        IF i = 0 THEN m
        ELSE IF i \in inputs \cap m.request_cached_ids[r]
        THEN free_encoder_input(after[i - 1], r, i) ELSE after[i - 1]
  IN  after[Len(mm_features[r])]

free(m, r) == FreeInputs(m, r, Input(r))
-----------------------------------------------------------------------------
(***************************************************************************)
(* The scheduler.  _try_schedule_encoder_inputs passes over the inputs in  *)
(* the window of a step; x is the state of that pass.                      *)
(***************************************************************************)
get_mm_features_in_window(r, start, end) ==
  {i \in Input(r) : LET f == mm_features[r][i]
                    IN  f.offset + f.length > start /\ f.offset < end}

\* The embeddings of an input that the tokens from start to end - 1 use.
EmbedsInRange(r, i, start, end) ==
  {p \in mm_features[r][i].is_embed : mm_features[r][i].offset + p \in start .. end - 1}

schedule_encoder_input(x, r, computed, i) ==
  LET f == mm_features[r][i]
      before == Larger(0, f.offset - (computed + shift_computed_tokens))
      room == can_allocate(x.m, r, i, x.encoder_compute_budget, x.num_embeds)
  IN  IF x.stop \/ f.identifier \in x.mm_hashes THEN x
      ELSE IF f.identifier \in DOMAIN x.m.cached
      THEN [x EXCEPT !.m = check_and_update_cache(@, r, i)]
      ELSE IF \/ /\ disable_chunked_mm_input /\ computed < f.offset
                 /\ computed + x.num_new_tokens < f.offset + f.length
              \/ ~ room.ok
      THEN [x EXCEPT !.num_new_tokens = before, !.stop = TRUE]
      ELSE IF EmbedsInRange(r, i, computed, computed + x.num_new_tokens) = {}
      THEN [x EXCEPT !.m = room.m]
      ELSE [x EXCEPT !.m = room.m, !.inputs = @ \union {i},
                     !.mm_hashes = @ \union {f.identifier},
                     !.num_embeds = @ + get_num_encoder_embeds(r, i),
                     !.encoder_compute_budget = @ - get_num_encoder_embeds(r, i)]

try_schedule_encoder_inputs(m, r, computed, num_new_tokens, encoder_compute_budget) ==
  LET window == get_mm_features_in_window(r, computed,
                                          computed + num_new_tokens + shift_computed_tokens)
      after[i \in 0 .. Len(mm_features[r])] ==
        IF i = 0
        THEN [m |-> m, num_new_tokens |-> num_new_tokens, inputs |-> {}, mm_hashes |-> {},
              num_embeds |-> 0, encoder_compute_budget |-> encoder_compute_budget, stop |-> FALSE]
        ELSE IF i \in window THEN schedule_encoder_input(after[i - 1], r, computed, i)
        ELSE after[i - 1]
  IN  IF num_new_tokens = 0 THEN after[0] ELSE after[Len(mm_features[r])]

\* The step being put together: t.inputs are the encoder inputs it computes.
EmptyStep(fails) ==
  [m |-> manager, waiting |-> waiting, skipped_waiting |-> skipped_waiting,
   step_skipped_waiting |-> <<>>, running |-> running, requests |-> requests, order |-> <<>>,
   tokens |-> [r \in Request |-> 0], inputs |-> [r \in Request |-> {}],
   budget |-> max_num_scheduled_tokens, encoder_budget |-> max_num_encoder_input_tokens,
   req_index |-> 1, fails |-> fails, preempted |-> FALSE, stop |-> FALSE]

\* allocate() for the inputs that the step computes for r.
Scheduled(t, r, x) ==
  LET after[i \in 0 .. Len(mm_features[r])] ==
        IF i = 0 THEN x.m
        ELSE IF i \in x.inputs THEN allocate(after[i - 1], r, i) ELSE after[i - 1]
  IN  [t EXCEPT !.m = after[Len(mm_features[r])], !.inputs[r] = x.inputs,
                !.order = Append(@, r), !.tokens[r] = x.num_new_tokens,
                !.budget = @ - x.num_new_tokens,
                !.encoder_budget = IF x.inputs = {} THEN @ ELSE x.encoder_compute_budget]

\* _preempt_request, and taking the victim out of the step under the priority
\* policy.
preempt_request(t, victim) ==
  LET part == victim \in Elements(t.order)
      q == t.requests[victim]
  IN  [t EXCEPT !.m = free(@, victim),
                !.running = Without(@, victim), !.waiting = prepend_request(@, victim),
                !.requests[victim] =
                   [@ EXCEPT !.status = "WAITING", !.num_computed_tokens = 0,
                             !.num_output_placeholders = 0,
                             !.num_stale_output_tokens = q.num_in_flight_tokens],
                !.order = Without(@, victim), !.tokens[victim] = 0, !.inputs[victim] = {},
                !.budget = @ + t.tokens[victim],
                !.encoder_budget = @ + MapThenSumSet(
                    LAMBDA i : get_num_encoder_embeds(victim, i), t.inputs[victim]),
                !.req_index = IF part THEN @ - 1 ELSE @, !.preempted = TRUE]

Victim(t) ==
  IF policy = "fcfs" THEN t.running[Len(t.running)]
  ELSE CHOOSE r \in Elements(t.running) : \A q \in Elements(t.running) : priority[q] <= priority[r]

\* The window's encoder inputs for the tokens that r has still to compute.
TryInputs(t, r, computed) ==
  try_schedule_encoder_inputs(t.m, r, computed,
    Smaller(num_prompt_tokens[r] - computed, t.budget), t.encoder_budget)

\* Another request may be preempted first, for the blocks of r.
ScheduleTried(t, r, x) ==
  IF x.num_new_tokens = 0 THEN [t EXCEPT !.m = x.m, !.req_index = @ + 1]
  ELSE IF t.fails[r] = 1 /\ Victim(t) = r
  THEN [preempt_request([t EXCEPT !.m = x.m, !.fails[r] = 0], r) EXCEPT !.stop = TRUE]
  ELSE LET u == IF t.fails[r] = 0 THEN [t EXCEPT !.m = x.m]
                ELSE preempt_request([t EXCEPT !.m = x.m, !.fails[r] = 0], Victim(t))
       IN  [Scheduled(u, r, [x EXCEPT !.m = u.m]) EXCEPT !.req_index = @ + 1]

schedule_running_request(t) ==
  IF t.stop \/ t.req_index > Len(t.running) \/ t.budget = 0 THEN t
  ELSE LET r == t.running[t.req_index]
       IN  ScheduleTried(t, r, TryInputs(t, r, t.requests[r].num_computed_tokens))

schedule_running(fails) ==
  LET after[i \in 0 .. Cardinality(Request)] ==
        IF i = 0 THEN EmptyStep(fails) ELSE schedule_running_request(after[i - 1])
  IN  after[Cardinality(Request)]

admit(t, r, computed, x) ==
  [Scheduled(t, r, x) EXCEPT
     !.waiting = Without(@, r), !.skipped_waiting = Without(@, r), !.running = Append(@, r),
     !.requests[r].status = "RUNNING", !.requests[r].num_computed_tokens = computed]

\* A request is passed over while outputs from before its preemption are in
\* flight.  One that does not get its blocks gives its encoder inputs back.
AdmitTried(t, r, computed, x) ==
  IF x.num_new_tokens = 0 THEN [t EXCEPT !.m = x.m, !.stop = TRUE]
  ELSE IF t.fails[r] > 0 THEN [t EXCEPT !.m = free(x.m, r), !.stop = TRUE]
  ELSE admit(t, r, computed, x)

schedule_waiting_request(t, hits) ==
  LET queue == select_waiting_queue(t)
      r == Head(t[queue])
      computed == Smaller(hits[r], num_prompt_tokens[r] - 1)
  IN  IF t.stop \/ t.preempted \/ t.budget = 0 \/ t[queue] = <<>> THEN t
      ELSE IF t.requests[r].num_stale_output_tokens > 0
      THEN [t EXCEPT ![queue] = Tail(@), !.step_skipped_waiting = prepend_request(@, r)]
      ELSE AdmitTried(t, r, computed, TryInputs(t, r, computed))

\* No request is admitted in a step that has preempted one.
schedule_waiting(t, hits) ==
  LET after[i \in 0 .. Cardinality(Request)] ==
        IF i = 0 THEN t ELSE schedule_waiting_request(after[i - 1], hits)
  IN  after[Cardinality(Request)]

\* _update_after_schedule.  A request that has computed its prompt samples.
update_after_schedule(t) ==
  [r \in Request |->
     LET computed == t.requests[r].num_computed_tokens + t.tokens[r]
         samples == t.tokens[r] > 0 /\ computed = num_prompt_tokens[r]
     IN  [t.requests[r] EXCEPT
            !.num_computed_tokens = computed, !.num_in_flight_tokens = @ + t.tokens[r],
            !.num_output_placeholders =
               IF max_concurrent_batches > 1 /\ samples THEN @ + 1 ELSE @]]
-----------------------------------------------------------------------------
(***************************************************************************)
(* The model runner.  It drops what the scheduler evicted, computes the    *)
(* encoder inputs of the step and gathers what the tokens need.            *)
(***************************************************************************)
execute_mm_encoder(t) ==
  (encoder_cache \ t.m.freed)
    \union UNION {{Identifier(r, i) : i \in t.inputs[r]} : r \in Request}

\* What the tokens of a step need from the cache, and with a drafter what the
\* tokens one further need, unless the input starts after the step's tokens (the
\* drafter then makes do with token embeddings).
gather_mm_embeddings(t) ==
  UNION {LET start == t.requests[r].num_computed_tokens
             end == start + t.tokens[r]
         IN  {Identifier(r, i) : i \in {j \in get_mm_features_in_window(r, start, end) :
                \E shift \in 0 .. shift_computed_tokens :
                  EmbedsInRange(r, j, start + shift, end + shift) # {}}} :
           r \in Elements(t.order)}
-----------------------------------------------------------------------------
(***************************************************************************)
(* The calls of the engine core.                                           *)
(***************************************************************************)
EncoderInit ==
  /\ manager = EmptyManager
  /\ waiting = <<>> /\ skipped_waiting = <<>> /\ running = <<>> /\ batch_queue = <<>>
  /\ requests = [r \in Request |->
       [status |-> "NEW", num_computed_tokens |-> 0, num_in_flight_tokens |-> 0,
        num_stale_output_tokens |-> 0, num_output_placeholders |-> 0]]
  /\ encoder_cache = {} /\ misses = {} /\ num_failures = 0 /\ num_resets = 0

Unfinished == {r \in Request : requests[r].status \in {"WAITING", "RUNNING"}}
CanSchedule == Unfinished # {} /\ Len(batch_queue) < max_concurrent_batches
CanUpdate == batch_queue # <<>> /\ (Unfinished = {} \/ Len(batch_queue) = max_concurrent_batches)
BetweenSteps == Len(batch_queue) < max_concurrent_batches

AddRequest(r) ==
  /\ BetweenSteps /\ requests[r].status = "NEW"
  /\ requests' = [requests EXCEPT ![r].status = "WAITING"]
  /\ waiting' = add_request(waiting, r)
  /\ UNCHANGED <<manager, skipped_waiting, running, batch_queue, encoder_cache, misses,
                 num_failures, num_resets>>

\* The end of schedule(), and the workers' execution of the step.
StepSent(t) ==
  /\ manager' = [t.m EXCEPT !.freed = {}]
  /\ waiting' = t.waiting
  /\ skipped_waiting' = prepend_requests(t.skipped_waiting, t.step_skipped_waiting)
  /\ running' = t.running /\ requests' = update_after_schedule(t)
  /\ batch_queue' = Append(batch_queue,
       [order |-> t.order, tokens |-> [r \in Elements(t.order) |-> t.tokens[r]],
        sampling |-> {r \in Elements(t.order) :
          t.requests[r].num_computed_tokens + t.tokens[r] = num_prompt_tokens[r]}])
  /\ encoder_cache' = execute_mm_encoder(t)
  /\ misses' = misses \union (gather_mm_embeddings(t) \ encoder_cache')

Schedule ==
  /\ CanSchedule
  /\ \E fails \in [Request -> {0, 1}], hits \in [Request -> PrefixHits] :
       /\ num_failures' = num_failures + Cardinality({r \in Unfinished : fails[r] = 1})
       /\ num_failures' <= MaxFailures
       /\ \A r \in Request \ Unfinished : fails[r] = 0
       /\ \A r \in Request \ Elements(waiting \o skipped_waiting) : hits[r] = 0
       /\ StepSent(schedule_waiting(schedule_running(fails), hits))
  /\ UNCHANGED num_resets

\* _free_request for a request in either queue.
finish_request(s, r) ==
  [s EXCEPT !.m = free(@, r), !.waiting = Without(@, r), !.skipped_waiting = Without(@, r),
            !.running = Without(@, r), !.requests[r].status = "FINISHED"]

\* Mutant: an input is released one token too late.
free_encoder_inputs_late(s, r) ==
  LET q == s.requests[r]
      done == {i \in Input(r) : mm_features[r][i].offset + mm_features[r][i].length
                 + shift_computed_tokens < q.num_computed_tokens - q.num_output_placeholders}
  IN  [s EXCEPT !.m = FreeInputs(@, r, done)]

\* The inputs that the drafter's look-ahead has passed are released.
free_encoder_inputs(s, r) ==
  LET q == s.requests[r]
      done == {i \in Input(r) : mm_features[r][i].offset + mm_features[r][i].length
                 + shift_computed_tokens <= q.num_computed_tokens - q.num_output_placeholders}
  IN  [s EXCEPT !.m = FreeInputs(@, r, done)]

update_request(s, step, r) ==
  LET n == step.tokens[r]
      q == s.requests[r]
      counted == [s EXCEPT
        !.requests[r].num_in_flight_tokens = @ - n,
        !.requests[r].num_stale_output_tokens = IF @ > 0 THEN @ - n ELSE @]
      freed == free_encoder_inputs(counted, r)
  IN  IF q.status = "FINISHED" THEN s
      ELSE IF r \in step.sampling THEN finish_request(freed, r) ELSE freed

scheduler == [m |-> manager, waiting |-> waiting, skipped_waiting |-> skipped_waiting,
              running |-> running, requests |-> requests]

SchedulerBecomes(s) ==
  /\ manager' = s.m /\ waiting' = s.waiting /\ skipped_waiting' = s.skipped_waiting
  /\ running' = s.running /\ requests' = s.requests

UpdateFromOutput ==
  /\ CanUpdate
  /\ LET step == Head(batch_queue)
         after[i \in 0 .. Len(step.order)] ==
           IF i = 0 THEN scheduler ELSE update_request(after[i - 1], step, step.order[i])
     IN  SchedulerBecomes(after[Len(step.order)])
  /\ batch_queue' = Tail(batch_queue)
  /\ UNCHANGED <<encoder_cache, misses, num_failures, num_resets>>

FinishRequest(r) ==
  /\ r \in Unfinished
  /\ SchedulerBecomes(finish_request(scheduler, r))
  /\ UNCHANGED <<batch_queue, encoder_cache, misses, num_failures, num_resets>>

\* reset_encoder_cache, on both sides.
ResetEncoderCache ==
  /\ BetweenSteps /\ num_resets < MaxResets
  /\ manager' = EmptyManager /\ encoder_cache' = {}
  /\ num_resets' = num_resets + 1
  /\ UNCHANGED <<waiting, skipped_waiting, running, requests, batch_queue, misses, num_failures>>

EncoderNext == \/ \E r \in Request : AddRequest(r) \/ FinishRequest(r)
               \/ Schedule \/ UpdateFromOutput \/ ResetEncoderCache

EncoderSpec == EncoderInit /\ [][EncoderNext]_encVars

\* What Schedule and UpdateFromOutput do to the batch queue.  (Appending an empty
\* step is one way to do so, which is all that ENABLED has to find.)
StepScheduled == /\ CanSchedule
                 /\ \/ batch_queue' = Append(batch_queue, <<>>)
                    \/ Len(batch_queue') = Len(batch_queue) + 1
OutputTaken == CanUpdate /\ batch_queue' = Tail(batch_queue)

\* The engine core runs its loop for ever and the workers answer.
FairEncoderSpec ==
  EncoderSpec /\ WF_batch_queue(StepScheduled) /\ WF_batch_queue(OutputTaken)
-----------------------------------------------------------------------------
\* The state has its types: allocate() never takes more slots than there are,
\* which its assertions are about.
EncoderTypeOK ==
  /\ manager.num_free_slots \in 0 .. cache_size
  /\ manager.num_freeable_slots \in manager.num_free_slots .. cache_size
  /\ DOMAIN manager.cached \subseteq mm_hash
  /\ \A h \in DOMAIN manager.cached : manager.cached[h] \subseteq Request
  /\ \A r \in Request : manager.request_cached_ids[r] \subseteq Input(r)
  /\ waiting \o skipped_waiting \in Seq(Request) /\ running \in Seq(Request)
  /\ encoder_cache \subseteq mm_hash
  /\ Len(batch_queue) <= max_concurrent_batches

TotalEmbeds(S) == MapThenSumSet(Embeds, S)

\* The cache never exceeds its size, its two counters say what its entries say,
\* and exactly the entries nobody refers to can be evicted, once each: an item that
\* two inputs of one request, or several requests, share is neither counted nor
\* freed twice.
SlotsAccounted ==
  LET freeable == Elements(manager.freeable)
  IN  /\ manager.num_free_slots >= 0
      /\ manager.num_free_slots = cache_size - TotalEmbeds(DOMAIN manager.cached)
      /\ manager.num_freeable_slots = manager.num_free_slots + TotalEmbeds(freeable)
      /\ freeable = {h \in DOMAIN manager.cached : manager.cached[h] = {}}
      /\ NoRepetition(manager.freeable)

\* Every encoder output that the scheduled tokens need is there when the step
\* executes ("Encoder cache miss" is never raised), although the scheduler
\* promises outputs before they are computed, shares them between requests, and
\* evicts them while steps that use them are in flight.
OutputsPresent == misses = {}

\* The model runner holds the outputs that the manager has entries for and no
\* others: what is evicted, reset or never computed after all does not stay, so
\* its memory is bounded by cache_size.
CachesAgree == encoder_cache = DOMAIN manager.cached

\* Every request that was added finishes: none waits for ever for room in the
\* encoder cache, whoever holds it.
EncodersMakeRoom ==
  \A r \in Request : (requests[r].status = "WAITING") ~> (requests[r].status = "FINISHED")
=============================================================================
