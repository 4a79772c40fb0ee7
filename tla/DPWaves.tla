------------------------------ MODULE DPWaves -------------------------------
(***************************************************************************)
(* The waves of data-parallel engines.  The ranks of a mixture-of-experts  *)
(* model exchange tokens in every forward pass, so a rank without requests *)
(* runs dummy passes as long as another rank has some.  The ranks agree to *)
(* stop in an all-reduce every SyncInterval passes; the coordinator counts *)
(* these waves and wakes the ranks when a front-end sends a request.       *)
(*                                                                         *)
(* Front-ends (DPLBAsyncMPClient), the coordinator (DPCoordinatorProc) and *)
(* the ranks (DPEngineCoreProc) talk over ZMQ: every connection is a FIFO  *)
(* queue, and nothing orders two of them.  A message may be taken at any   *)
(* time after it was sent, which stands for its delay.                     *)
(***************************************************************************)
EXTENDS FiniteSets, Lists

CONSTANTS dp_size,       \* number of ranks
          Client,        \* front-end processes
          Request,
          num_passes,    \* forward passes that each request takes
          SyncInterval,  \* passes between two all-reduces (32 in the code)
          PauseMode,     \* modes of pause_scheduler that are called
          MaxPauses,     \* bound on calls of pause_scheduler
          MaxDropped,    \* bound on requests aborted or failing preprocessing
          MaxCalls       \* bound on requests, aborts and pauses together

ASSUME DPAssumption ==
  /\ dp_size \in Nat \ {0, 1} /\ SyncInterval \in Nat \ {0}
  /\ num_passes \in [Request -> Nat \ {0}]
  /\ PauseMode \subseteq {"keep", "wait", "abort"}
  /\ MaxPauses \in Nat /\ MaxDropped \in Nat /\ MaxCalls \in Nat

VARIABLES engines,      \* the state of each rank's busy loop
          clients,      \* what each front-end believes of the waves
          coordinator,  \* the coordinator's current_wave and engines_running
          inputs,       \* from each front-end to each rank
          first_req,    \* from each front-end to its own stats task
          notices,      \* from each front-end to the coordinator
          start_waves,  \* START_DP_WAVE, from the coordinator to each rank
          outputs,      \* from each rank to the coordinator
          published,    \* from the coordinator to each front-end
          requests,     \* where each request was sent, and its passes to go
          pause,        \* the pause_scheduler or resume_scheduler call under way
          slips         \* races met so far that can leave a rank asleep (history)

vars == <<engines, clients, coordinator, inputs, first_req, notices, start_waves,
          outputs, published, requests, pause, slips>>

Engine == 0 .. dp_size - 1
None == -1

Init ==
  /\ engines = [e \in Engine |->
       [pc |-> "input", current_wave |-> 0, step_counter |-> 0, engines_running |-> FALSE,
        pause_state |-> "UNPAUSED", pending_pause |-> FALSE,
        ignore_start_dp_wave |-> FALSE, idle_state_callbacks |-> FALSE,
        waiting |-> {}, running |-> {}]]
  /\ clients = [c \in Client |-> [current_wave |-> 0, engines_running |-> FALSE]]
  /\ coordinator = [current_wave |-> 0, engines_running |-> FALSE]
  /\ inputs = [c \in Client |-> [e \in Engine |-> <<>>]]
  /\ first_req = [c \in Client |-> <<>>]
  /\ notices = [c \in Client |-> <<>>]
  /\ start_waves = [e \in Engine |-> <<>>]
  /\ outputs = [e \in Engine |-> <<>>]
  /\ published = [c \in Client |-> <<>>]
  /\ requests = [r \in Request |->
       [status |-> "new", client |-> None, engine |-> None, left |-> num_passes[r]]]
  /\ pause = [state |-> "none", replies |-> {}, calls |-> 0]
  /\ slips = {}

-----------------------------------------------------------------------------
(* Front-ends. *)

NumDropped == Cardinality({r \in Request : requests[r].status = "dropped"})
NumCalls ==
  Cardinality({r \in Request : requests[r].status # "new"}) + NumDropped + pause.calls

\* add_request_async: the request carries the wave the front-end believes in.
AddRequest(c, r, e) ==
  /\ requests[r].status = "new" /\ NumCalls < MaxCalls
  /\ requests' = [requests EXCEPT ![r].status = "sent", ![r].client = c, ![r].engine = e]
  /\ inputs' = [inputs EXCEPT ![c][e] =
       Append(@, [type |-> "ADD", request |-> r, wave |-> clients[c].current_wave])]
  /\ first_req' = IF clients[c].engines_running THEN first_req
                  ELSE [first_req EXCEPT ![c] = Append(@, e)]
  /\ UNCHANGED <<engines, clients, coordinator, notices, start_waves, outputs, published,
                 pause, slips>>

\* abort_requests_async, to the rank that was sent the request.
AbortRequest(c, r) ==
  /\ requests[r].status = "sent" /\ requests[r].client = c
  /\ NumDropped < MaxDropped /\ NumCalls < MaxCalls
  /\ requests' = [requests EXCEPT ![r].status = "dropped"]
  /\ inputs' = [inputs EXCEPT ![c][requests[r].engine] =
       Append(@, [type |-> "ABORT", request |-> r])]
  /\ UNCHANGED <<engines, clients, coordinator, first_req, notices, start_waves, outputs,
                 published, pause, slips>>

\* The stats task forwards a FIRST_REQ with the wave it believes in by then.
NotifyCoordinator(c) ==
  /\ first_req[c] # <<>>
  /\ first_req' = [first_req EXCEPT ![c] = Tail(@)]
  /\ notices' = [notices EXCEPT ![c] =
       Append(@, [engine |-> Head(first_req[c]), wave |-> clients[c].current_wave])]
  /\ clients' = [clients EXCEPT ![c].engines_running = TRUE]
  /\ UNCHANGED <<engines, coordinator, inputs, start_waves, outputs, published, requests,
                 pause, slips>>

\* The stats task drains the messages that have arrived and keeps the last.
ReadPublished(c) ==
  \E n \in 1 .. Len(published[c]) :
    /\ first_req[c] = <<>> \/ clients[c].engines_running
    /\ clients' = [clients EXCEPT ![c] = published[c][n]]
    /\ published' = [published EXCEPT ![c] = SubSeq(@, n + 1, Len(@))]
    /\ slips' = IF first_req[c] # <<>> /\ clients'[c].current_wave # clients[c].current_wave
                THEN slips \cup {"restamped"} ELSE slips
    /\ UNCHANGED <<engines, coordinator, inputs, first_req, notices, start_waves, outputs,
                   requests, pause>>

\* call_utility_async sends a utility call to every rank, and awaits them all.
CallAll(c, message) ==
  inputs' = [inputs EXCEPT ![c] = [e \in Engine |-> Append(@[e], message)]]

PauseScheduler(c, mode) ==
  /\ pause.state = "none" /\ pause.calls < MaxPauses /\ NumCalls < MaxCalls
  /\ pause' = [pause EXCEPT !.state = "pausing", !.calls = @ + 1]
  /\ CallAll(c, [type |-> "PAUSE", mode |-> mode])
  /\ UNCHANGED <<engines, clients, coordinator, first_req, notices, start_waves, outputs,
                 published, requests, slips>>

ResumeScheduler(c) ==
  /\ pause.state = "pausing" /\ pause.replies = Engine
  /\ pause' = [pause EXCEPT !.state = "resuming", !.replies = {}]
  /\ CallAll(c, [type |-> "RESUME"])
  /\ UNCHANGED <<engines, clients, coordinator, first_req, notices, start_waves, outputs,
                 published, requests, slips>>

-----------------------------------------------------------------------------
(* The coordinator: process_input_socket, one message or timeout at a time. *)

send_start_wave(wave, exclude) ==
  start_waves' = [e \in Engine |-> Append(start_waves[e], [wave |-> wave, exclude |-> exclude])]

Publish(state) == published' = [c \in Client |-> Append(published[c], state)]

\* Mutant: the rank of a stale request is excluded as well.
FrontMessage_excluding(c) ==
  /\ notices[c] # <<>>
  /\ notices' = [notices EXCEPT ![c] = Tail(@)]
  /\ IF coordinator.engines_running THEN UNCHANGED <<coordinator, start_waves, published>>
     ELSE /\ coordinator' = [coordinator EXCEPT !.engines_running = TRUE]
          /\ send_start_wave(coordinator.current_wave, Head(notices[c]).engine)
          /\ Publish(coordinator')
  /\ UNCHANGED <<engines, clients, inputs, first_req, outputs, requests, pause, slips>>

\* A front-end sends a request while the engines are paused: wake the others.
FrontMessage(c) ==
  /\ notices[c] # <<>>
  /\ notices' = [notices EXCEPT ![c] = Tail(@)]
  /\ LET notice == Head(notices[c])
         exclude == IF notice.wave < coordinator.current_wave THEN None ELSE notice.engine
     IN  IF coordinator.engines_running THEN UNCHANGED <<coordinator, start_waves, published>>
         ELSE /\ coordinator' = [coordinator EXCEPT !.engines_running = TRUE]
              /\ send_start_wave(coordinator.current_wave, exclude)
              /\ Publish(coordinator')
  /\ UNCHANGED <<engines, clients, inputs, first_req, outputs, requests, pause, slips>>

\* Mutant: the wave that completes must be older than the current one.
EngineOutput_of_older(e) ==
  /\ outputs[e] # <<>>
  /\ outputs' = [outputs EXCEPT ![e] = Tail(@)]
  /\ LET output == Head(outputs[e])
     IN  IF output.type = "wave_complete" /\ coordinator.current_wave < output.wave
         THEN /\ coordinator' = [current_wave |-> output.wave + 1, engines_running |-> FALSE]
              /\ Publish(coordinator')
         ELSE UNCHANGED <<coordinator, published>>
  /\ UNCHANGED <<engines, clients, inputs, first_req, notices, start_waves, requests, pause,
                 slips>>

\* wave_complete from rank 0, or start_wave from a rank with a stale request.
EngineOutput(e) ==
  /\ outputs[e] # <<>>
  /\ outputs' = [outputs EXCEPT ![e] = Tail(@)]
  /\ LET output == Head(outputs[e])
         starts == \/ output.wave > coordinator.current_wave
                   \/ output.wave = coordinator.current_wave /\ ~ coordinator.engines_running
     IN  CASE output.type = "wave_complete" /\ coordinator.current_wave <= output.wave ->
                /\ coordinator' = [current_wave |-> output.wave + 1, engines_running |-> FALSE]
                /\ Publish(coordinator')
                /\ UNCHANGED start_waves
           [] output.type = "start_wave" /\ starts ->
                /\ coordinator' = [current_wave |-> output.wave, engines_running |-> TRUE]
                /\ send_start_wave(output.wave, e)
                /\ Publish(coordinator')
           [] OTHER -> UNCHANGED <<coordinator, start_waves, published>>
  /\ UNCHANGED <<engines, clients, inputs, first_req, notices, requests, pause, slips>>

\* The poller times out: the state is published again with the request counts.
\* Two of these in a row tell a front-end nothing new, so one is queued at most.
PublishCounts ==
  /\ \A c \in Client : published[c] = <<>>
  /\ Publish(coordinator)
  /\ UNCHANGED <<engines, clients, coordinator, inputs, first_req, notices, start_waves,
                 outputs, requests, pause, slips>>

-----------------------------------------------------------------------------
(* The busy loop of a rank: it takes messages at "input", and waits for the   *)
(* other ranks in a forward pass, in the all-reduce of every SyncInterval-th  *)
(* pass, and in the all-reduce of resume_scheduler.                           *)

\* has_unfinished_requests: a paused scheduler does not count what it holds.
HasUnfinished(eng) ==
  CASE eng.pause_state = "UNPAUSED" -> eng.waiting \cup eng.running # {}
    [] eng.pause_state = "PAUSED_NEW" -> eng.running # {}
    [] OTHER -> FALSE

has_work(eng) == eng.engines_running \/ HasUnfinished(eng)

\* Mutant: a request for a completed wave is not told from another.
IsStale_never(eng, wave) == FALSE

\* A request for a completed wave that an unpaused, idle rank takes restarts the
\* engines.
IsStale(eng, wave) ==
  wave < eng.current_wave /\ ~ eng.engines_running /\ eng.pause_state = "UNPAUSED"

add_request(eng, r, wave) ==
  [eng EXCEPT !.waiting = @ \cup {r},
              !.current_wave = IF wave > @ THEN wave ELSE @,
              !.engines_running = @ \/ IsStale(eng, wave)]

finish_requests(eng, rs) == [eng EXCEPT !.waiting = @ \ rs, !.running = @ \ rs]

\* pause_scheduler and the first phase of _pause_complete.
pause_scheduler(eng, mode) ==
  [(IF mode = "abort" THEN finish_requests(eng, Request) ELSE eng)
     EXCEPT !.pause_state = IF mode = "keep" THEN "PAUSED_ALL" ELSE "PAUSED_NEW",
            !.pending_pause = TRUE, !.engines_running = TRUE,
            !.idle_state_callbacks = TRUE]

\* _handle_client_request.
HandleInput(c, e) ==
  /\ engines[e].pc = "input" /\ inputs[c][e] # <<>>
  /\ inputs' = [inputs EXCEPT ![c][e] = Tail(@)]
  /\ LET message == Head(inputs[c][e])
         eng == engines[e]
     IN  \/ /\ message.type = "ADD"
            /\ engines' = [engines EXCEPT ![e] = add_request(@, message.request, message.wave)]
            /\ outputs' = IF ~ IsStale(eng, message.wave) THEN outputs
                          ELSE [outputs EXCEPT ![e] =
                                  Append(@, [type |-> "start_wave", wave |-> eng.current_wave])]
            /\ UNCHANGED <<requests, pause>>
         \/ /\ message.type = "ABORT"
            /\ engines' = [engines EXCEPT ![e] = finish_requests(@, {message.request})]
            /\ UNCHANGED <<outputs, requests, pause>>
         \/ /\ message.type = "PAUSE"
            /\ engines' = [engines EXCEPT ![e] = pause_scheduler(@, message.mode)]
            /\ requests' = [r \in Request |->
                 IF message.mode = "abort" /\ r \in eng.waiting \cup eng.running
                 THEN [requests[r] EXCEPT !.status = "dropped"] ELSE requests[r]]
            /\ UNCHANGED <<outputs, pause>>
         \/ /\ message.type = "RESUME"
            /\ IF eng.engines_running
               THEN pause' = [pause EXCEPT !.replies = @ \cup {e}] /\ UNCHANGED engines
               ELSE /\ engines' = [engines EXCEPT ![e].pause_state = "UNPAUSED",
                                     ![e].ignore_start_dp_wave = FALSE, ![e].pc = "resume"]
                    /\ UNCHANGED pause
            /\ UNCHANGED <<outputs, requests>>
  /\ UNCHANGED <<clients, coordinator, first_req, notices, start_waves, published, slips>>

\* The input thread rejects a request whose preprocessing raises.
PreprocessingFails(c, e) ==
  /\ inputs[c][e] # <<>> /\ NumDropped < MaxDropped /\ NumCalls < MaxCalls
  /\ LET message == Head(inputs[c][e])
     IN  /\ message.type = "ADD" /\ requests[message.request].status = "sent"
         /\ requests' = [requests EXCEPT ![message.request].status = "dropped"]
  /\ inputs' = [inputs EXCEPT ![c][e] = Tail(@)]
  /\ UNCHANGED <<engines, clients, coordinator, first_req, notices, start_waves, outputs,
                 published, pause, slips>>

\* START_DP_WAVE.
HandleStartWave(e) ==
  /\ engines[e].pc = "input" /\ start_waves[e] # <<>>
  /\ start_waves' = [start_waves EXCEPT ![e] = Tail(@)]
  /\ LET start == Head(start_waves[e])
         eng == engines[e]
     IN  engines' = IF \/ eng.ignore_start_dp_wave \/ start.exclude = e
                       \/ start.wave < eng.current_wave
                    THEN engines
                    ELSE [engines EXCEPT ![e].current_wave = start.wave,
                                         ![e].engines_running = TRUE]
  /\ slips' = IF engines[e].ignore_start_dp_wave THEN slips \cup {"ignored"} ELSE slips
  /\ UNCHANGED <<clients, coordinator, inputs, first_req, notices, outputs, published,
                 requests, pause>>

\* The loop leaves _process_input_queue for a forward pass, a dummy one if the
\* rank has nothing to run.
EnterPass(e) ==
  /\ engines[e].pc = "input" /\ has_work(engines[e])
  /\ engines' = [engines EXCEPT ![e].pc = "pass"]
  /\ UNCHANGED <<clients, coordinator, inputs, first_req, notices, start_waves, outputs,
                 published, requests, pause, slips>>

\* _process_aborts_queue: a step with requests takes the aborts that came in.
AbortInStep(e, r) ==
  /\ engines[e].pc = "pass" /\ r \in engines[e].waiting \cup engines[e].running
  /\ \E c \in Client : [type |-> "ABORT", request |-> r] \in Elements(inputs[c][e])
  /\ engines' = [engines EXCEPT ![e] = finish_requests(@, {r})]
  /\ UNCHANGED <<clients, coordinator, inputs, first_req, notices, start_waves, outputs,
                 published, requests, pause, slips>>

\* The requests that a step of the scheduler runs.
Scheduled(eng) ==
  CASE eng.pause_state = "UNPAUSED" -> eng.waiting \cup eng.running
    [] eng.pause_state = "PAUSED_NEW" -> eng.running
    [] OTHER -> {}

Finished == {r \in Request : requests[r].left = 1 /\ \E e \in Engine : r \in Scheduled(engines[e])}

\* Mutant: a dummy pass is not counted.
after_pass_uncounted(eng) ==
  LET counter == (eng.step_counter + 1) % SyncInterval
  IN  IF Scheduled(eng) = {} THEN [eng EXCEPT !.pc = "input", !.engines_running = TRUE]
      ELSE [eng EXCEPT !.waiting = @ \ Scheduled(eng),
                       !.running = (@ \cup Scheduled(eng)) \ Finished,
                       !.step_counter = counter,
                       !.pc = IF counter = 0 THEN "sync" ELSE "input",
                       !.engines_running = @ \/ counter # 0]

\* What a rank does after a pass, up to the next all-reduce.
after_pass(eng) ==
  LET counter == (eng.step_counter + 1) % SyncInterval
  IN  [eng EXCEPT !.waiting = @ \ Scheduled(eng),
                  !.running = (@ \cup Scheduled(eng)) \ Finished,
                  !.step_counter = counter,
                  !.pc = IF counter = 0 THEN "sync" ELSE "input",
                  !.engines_running = @ \/ counter # 0]

PassCompletes ==
  /\ \A e \in Engine : engines[e].pc = "pass"
  /\ engines' = [e \in Engine |-> after_pass(engines[e])]
  /\ requests' = [r \in Request |->
       IF \E e \in Engine : r \in Scheduled(engines[e])
       THEN [requests[r] EXCEPT !.left = @ - 1,
                                !.status = IF r \in Finished /\ @ = "sent" THEN "finished" ELSE @]
       ELSE requests[r]]
  /\ UNCHANGED <<clients, coordinator, inputs, first_req, notices, start_waves, outputs,
                 published, pause, slips>>

PendingPauses == Cardinality({e \in Engine : engines[e].pending_pause})

\* sync_dp_state, and what a rank does with its result.
has_unfinished_global ==
  (\E e \in Engine : HasUnfinished(engines[e])) \/ PendingPauses % dp_size # 0

\* Mutant: a rank without requests stops, whatever the others have.
after_sync_alone(eng) ==
  LET consensus == PendingPauses = dp_size
      unfinished == HasUnfinished(eng) \/ PendingPauses % dp_size # 0
  IN  [eng EXCEPT !.pc = "input",
                  !.engines_running = unfinished,
                  !.ignore_start_dp_wave = @ \/ consensus,
                  !.pending_pause = @ /\ ~ consensus,
                  !.current_wave = IF unfinished THEN @ ELSE @ + 1]

after_sync(eng) ==
  LET consensus == PendingPauses = dp_size
  IN  [eng EXCEPT !.pc = "input",
                  !.engines_running = has_unfinished_global,
                  !.ignore_start_dp_wave = @ \/ consensus,
                  !.pending_pause = @ /\ ~ consensus,
                  !.current_wave = IF has_unfinished_global THEN @ ELSE @ + 1]

SyncCompletes ==
  /\ \A e \in Engine : engines[e].pc = "sync"
  /\ engines' = [e \in Engine |-> after_sync(engines[e])]
  /\ outputs' = IF has_unfinished_global THEN outputs
                ELSE [outputs EXCEPT ![0] =
                        Append(@, [type |-> "wave_complete", wave |-> engines[0].current_wave])]
  /\ UNCHANGED <<clients, coordinator, inputs, first_req, notices, start_waves, published,
                 requests, pause, slips>>

\* The all-reduce of resume_scheduler.
ResumeCompletes ==
  /\ \A e \in Engine : engines[e].pc = "resume"
  /\ LET unfinished == \E e \in Engine : HasUnfinished(engines[e])
     IN  engines' = [e \in Engine |-> [engines[e] EXCEPT !.pc = "input",
                                                       !.engines_running = @ \/ unfinished]]
  /\ pause' = [pause EXCEPT !.state = "none"]
  /\ UNCHANGED <<clients, coordinator, inputs, first_req, notices, start_waves, outputs,
                 published, requests, slips>>

\* _notify_idle_state_callbacks completes the future of pause_scheduler.
IdleCallback(e) ==
  /\ engines[e].pc = "input" /\ engines[e].idle_state_callbacks /\ ~ has_work(engines[e])
  /\ engines' = [engines EXCEPT ![e].idle_state_callbacks = FALSE]
  /\ pause' = [pause EXCEPT !.replies = @ \cup {e}]
  /\ UNCHANGED <<clients, coordinator, inputs, first_req, notices, start_waves, outputs,
                 published, requests, slips>>

Next ==
  \/ \E c \in Client :
       \/ \E r \in Request : (\E e \in Engine : AddRequest(c, r, e)) \/ AbortRequest(c, r)
       \/ NotifyCoordinator(c) \/ ReadPublished(c) \/ FrontMessage(c)
       \/ (\E mode \in PauseMode : PauseScheduler(c, mode)) \/ ResumeScheduler(c)
       \/ \E e \in Engine : HandleInput(c, e) \/ PreprocessingFails(c, e)
  \/ \E e \in Engine :
       \/ EngineOutput(e) \/ HandleStartWave(e) \/ EnterPass(e) \/ IdleCallback(e)
       \/ \E r \in Request : AbortInStep(e, r)
  \/ PublishCounts \/ PassCompletes \/ SyncCompletes \/ ResumeCompletes

Spec == Init /\ [][Next]_vars

\* Every message is delivered and every process keeps running.  A rank drains
\* its input queue in every turn of the loop, so a message it could take again
\* and again is taken.
Fairness ==
  /\ \A c \in Client : WF_vars(NotifyCoordinator(c)) /\ WF_vars(FrontMessage(c))
  /\ \A e \in Engine : /\ WF_vars(EngineOutput(e)) /\ WF_vars(EnterPass(e))
                       /\ WF_vars(IdleCallback(e)) /\ SF_vars(HandleStartWave(e))
                       /\ \A c \in Client : SF_vars(HandleInput(c, e))
  /\ WF_vars(PassCompletes) /\ WF_vars(SyncCompletes) /\ WF_vars(ResumeCompletes)
  /\ WF_vars(\E c \in Client : ResumeScheduler(c))

FairSpec == Spec /\ Fairness

-----------------------------------------------------------------------------
\* The processes have their types: a request takes no more passes than it has,
\* as a finished one has left the queues of its rank.
DPTypeOK ==
  /\ engines \in [Engine -> [pc : {"input", "pass", "sync", "resume"}, current_wave : Nat,
        step_counter : 0 .. SyncInterval - 1, engines_running : BOOLEAN,
        pause_state : {"UNPAUSED", "PAUSED_NEW", "PAUSED_ALL"}, pending_pause : BOOLEAN,
        ignore_start_dp_wave : BOOLEAN, idle_state_callbacks : BOOLEAN,
        waiting : SUBSET Request, running : SUBSET Request]]
  /\ clients \in [Client -> [current_wave : Nat, engines_running : BOOLEAN]]
  /\ coordinator \in [current_wave : Nat, engines_running : BOOLEAN]
  /\ \A r \in Request : requests[r].left \in 0 .. num_passes[r]
  /\ pause.replies \subseteq Engine
  /\ slips \subseteq {"restamped", "ignored"}

Waits(e) == engines[e].pc # "input"

\* Ranks that wait in a collective operation wait in the same one: no rank is in
\* a forward pass of run_busy_loop while another is in an all-reduce, and their
\* step counters agree, so all of them reach the next all-reduce together.
CollectivesMatch ==
  \A e, f \in Engine : Waits(e) /\ Waits(f) =>
    /\ engines[e].pc = engines[f].pc
    /\ engines[e].step_counter = engines[f].step_counter

\* All ranks count the same waves, the coordinator is never ahead of them and no
\* front-end is ahead of the coordinator.  The branches of add_request and of the
\* coordinator for a wave from the future wait for ranks that join later.
WavesOrdered ==
  /\ \A e, f \in Engine : engines[e].current_wave = engines[f].current_wave
  /\ \A e \in Engine : coordinator.current_wave <= engines[e].current_wave
  /\ \A c \in Client : clients[c].current_wave <= coordinator.current_wave

Quiet ==
  /\ \A e \in Engine : /\ ~ Waits(e) /\ ~ has_work(engines[e])
                       /\ start_waves[e] = <<>> /\ outputs[e] = <<>>
  /\ \A c \in Client : /\ first_req[c] = <<>> /\ notices[c] = <<>> /\ published[c] = <<>>
                       /\ \A e \in Engine : inputs[c][e] = <<>>
  /\ pause.state = "none"

\* Three races can leave a rank asleep while the coordinator takes the engines to
\* be running: a request that is dropped after the coordinator excluded its rank
\* from START_DP_WAVE, a FIRST_REQ that the stats task stamps with a later wave
\* than its request's, and a START_DP_WAVE that a paused rank ignores.
Slipped == slips # {} \/ NumDropped > 0

\* When every rank is idle and no message is under way, the coordinator and the
\* front-ends know that the engines are paused, unless paused ranks ignored a
\* START_DP_WAVE.  Otherwise the next request would wake only the rank it is
\* sent to.
PausedKnown ==
  Quiet /\ "ignored" \notin slips =>
    ~ coordinator.engines_running /\ \A c \in Client : clients[c] = coordinator

\* But for the three races, every request that add_request_async sends is run to its end,
\* across pauses and the change of waves.
RequestsFinish ==
  \A r \in Request : requests[r].status = "sent" ~> requests[r].status # "sent" \/ Slipped

\* But for these, the ranks stop running dummy passes when the requests are done.
EnginesPause ==
  []<>(\/ Slipped \/ (\E r \in Request : requests[r].status = "sent")
       \/ \A e \in Engine : ~ engines[e].engines_running)

\* "Engines will move into running state when receiving a new request or
\* START_DP_WAVE message": a rank that enters a forward pass is joined by all the
\* others, and leaves it.  With a slip it is not (README, further disagreements),
\* so no run checks this.
PassesComplete == \A e \in Engine : Waits(e) ~> ~ Waits(e)
=============================================================================
