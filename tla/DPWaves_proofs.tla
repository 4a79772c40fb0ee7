--------------------------- MODULE DPWaves_proofs ---------------------------
(***************************************************************************)
(* For every number of ranks, front-ends, requests, pauses and dropped     *)
(* requests: the ranks meet in the same collective operations, all parties *)
(* agree on the order of the waves, and all of them know when the engines  *)
(* are paused.                                                             *)
(***************************************************************************)
EXTENDS DPWaves_step_proofs, FiniteSetTheorems

\* The provers of the leaves that name none, in the order they are tried.
USE SMTT(90), ZenonT(20), SMTT(91), SMTT(92)

-----------------------------------------------------------------------------
(* The steps that the ranks take together. *)

\* The step counter wraps at the interval of the all-reduce.
LEMMA CounterTyped ==
  ASSUME NEW n \in 0 .. SyncInterval - 1
  PROVE  (n + 1) % SyncInterval \in 0 .. SyncInterval - 1
BY DPAssumption

\* What a rank does after a pass keeps its type.
LEMMA AfterPassTyped ==
  ASSUME NEW eng \in EngineState
  PROVE  after_pass(eng) \in EngineState
<1>1. Scheduled(eng) \in SUBSET Request
  BY DEF Scheduled, EngineState
<1>2. (eng.step_counter + 1) % SyncInterval \in 0 .. SyncInterval - 1
  BY CounterTyped DEF EngineState
<1> QED
  BY <1>1, <1>2, ZenonT(90) DEF after_pass, EngineState

\* What a rank does after a pass: nothing that a pause depends on.
LEMMA AfterPassKeeps ==
  ASSUME NEW eng \in EngineState
  PROVE  LET new == after_pass(eng)
         IN  /\ new.current_wave = eng.current_wave
             /\ new.step_counter = (eng.step_counter + 1) % SyncInterval
             /\ new.pc = IF new.step_counter = 0 THEN "sync" ELSE "input"
             /\ new.pause_state = eng.pause_state
             /\ new.pending_pause = eng.pending_pause
             /\ new.ignore_start_dp_wave = eng.ignore_start_dp_wave
             /\ new.idle_state_callbacks = eng.idle_state_callbacks
             /\ eng.engines_running => new.engines_running
BY DEF after_pass, EngineState

\* A pass ends at all ranks at once: their step counters, which agreed, agree
\* again, so either all of them go on to the all-reduce or none does.
LEMMA PassCompletesStep ==
  ASSUME DPInv, PassCompletes
  PROVE  DPInv'
<1> USE DEF DPInv
<1>1. /\ \A e \in Engine : engines[e].pc = "pass"
      /\ engines' = [e \in Engine |-> after_pass(engines[e])]
      /\ UNCHANGED <<clients, coordinator, inputs, first_req, notices, start_waves, outputs,
                     published, pause>>
  BY ZenonT(90) DEF PassCompletes
<1>2. ASSUME NEW e \in Engine
      PROVE  /\ engines[e] \in EngineState /\ engines'[e] \in EngineState
             /\ engines'[e].current_wave = engines[e].current_wave
             /\ engines'[e].step_counter = (engines[e].step_counter + 1) % SyncInterval
             /\ engines'[e].pc = IF engines'[e].step_counter = 0 THEN "sync" ELSE "input"
             /\ engines'[e].pause_state = engines[e].pause_state
             /\ engines'[e].pending_pause = engines[e].pending_pause
             /\ engines'[e].ignore_start_dp_wave = engines[e].ignore_start_dp_wave
             /\ engines'[e].idle_state_callbacks = engines[e].idle_state_callbacks
             /\ engines[e].engines_running => engines'[e].engines_running
  <2>1. engines[e] \in EngineState /\ engines'[e] = after_pass(engines[e])
    BY <1>1 DEF Typed
  <2> QED
    BY <2>1, AfterPassTyped, AfterPassKeeps
<1>3. Typed'
  <2>1. /\ requests' \in [Request -> RequestState]
        /\ \A r \in Request : requests'[r].status = "sent" => requests'[r].engine \in Engine
    <3> DEFINE run(r) == \E e \in Engine : r \in Scheduled(engines[e])
               passed(r) == [requests[r] EXCEPT !.left = @ - 1,
                               !.status = IF r \in Finished /\ @ = "sent" THEN "finished" ELSE @]
    <3>1. requests' = [r \in Request |-> IF run(r) THEN passed(r) ELSE requests[r]]
      BY Zenon DEF PassCompletes
    <3>2. ASSUME NEW r \in Request
          PROVE  /\ passed(r) \in RequestState /\ passed(r).engine = requests[r].engine
                 /\ passed(r).status = "sent" => requests[r].status = "sent"
      <4>1. requests[r] \in RequestState
        BY DEF Typed
      <4> DEFINE status == IF r \in Finished /\ requests[r].status = "sent"
                           THEN "finished" ELSE requests[r].status
                 left == requests[r].left - 1
      <4>2. /\ status \in {"new", "sent", "finished", "dropped"} /\ left \in Int
            /\ status = "sent" => requests[r].status = "sent"
        BY <4>1 DEF RequestState
      <4>3. passed(r) = [requests[r] EXCEPT !.left = left, !.status = status]
        OBVIOUS
      <4> HIDE DEF status, left, passed
      <4> QED
        BY <4>1, <4>2, <4>3, ZenonT(90) DEF RequestState
    <3> HIDE DEF run, passed
    <3>3. ASSUME NEW r \in Request
          PROVE  /\ requests'[r] \in RequestState
                 /\ requests'[r].status = "sent" => requests'[r].engine \in Engine
      BY <3>1, <3>2 DEF Typed
    <3> QED
      BY <3>1, <3>3
  <2>2. engines' \in [Engine -> EngineState]
    BY <1>1, <1>2
  <2> QED
    BY <1>1, <2>1, <2>2 DEF Typed
<1>4. WavesBounded'
  BY <1>1, <1>2, WavesFrame
<1>5. InStep'
  BY <1>2 DEF InStep
<1>6. PauseInOrder'
  <2>1. \A e \in Engine : KeepsPhase(e)
    BY <1>1, <1>2, ZenonT(90) DEF KeepsPhase, Stopped
  <2>2. \A e \in Engine : AddsNoCall(e)
    BY <1>1, ZenonT(90) DEF AddsNoCall, PauseInOrder, CallOf
  <2> QED
    BY <1>1, <2>1, <2>2, PauseFrame
<1> QED
  BY <1>3, <1>4, <1>5, <1>6

\* Some pauses, but not all of them, keep the ranks running: their number is
\* not a multiple of dp_size.
LEMMA SomePausesPending ==
  ASSUME NEW e \in Engine, engines[e].pending_pause, PendingPauses # dp_size
  PROVE  has_unfinished_global
<1> DEFINE S == {f \in Engine : engines[f].pending_pause}
<1>1. IsFiniteSet(Engine) /\ Cardinality(Engine) = dp_size
  BY FS_Interval, DPAssumption DEF Engine
<1>2. S \subseteq Engine /\ e \in S
  OBVIOUS
<1> HIDE DEF S
<1>3. IsFiniteSet(S) /\ Cardinality(S) <= dp_size
  BY <1>1, <1>2, FS_Subset
<1>4. Cardinality(S) \in Nat /\ Cardinality(S) # 0
  BY <1>2, <1>3, FS_CardinalityType, FS_EmptySet
<1>5. Cardinality(S) % dp_size # 0
  <2>1. PendingPauses = Cardinality(S)
    BY DEF PendingPauses, S
  <2>2. Cardinality(S) \in 1 .. dp_size - 1
    BY <1>3, <1>4, <2>1, DPAssumption
  <2> HIDE DEF S
  <2> QED
    BY <2>2, DPAssumption
<1> QED
  BY <1>5 DEF has_unfinished_global, PendingPauses, S

\* What a rank does after the all-reduce keeps its type.
LEMMA AfterSyncTyped ==
  ASSUME NEW eng \in EngineState
  PROVE  after_sync(eng) \in EngineState
<1> DEFINE consensus == PendingPauses = dp_size
           unfinished == has_unfinished_global
<1>1. consensus \in BOOLEAN /\ unfinished \in BOOLEAN
  BY DEF has_unfinished_global
<1>2. after_sync(eng) =
        [eng EXCEPT !.pc = "input", !.engines_running = unfinished,
                    !.ignore_start_dp_wave = @ \/ consensus,
                    !.pending_pause = @ /\ ~ consensus,
                    !.current_wave = IF unfinished THEN @ ELSE @ + 1]
  BY DEF after_sync
<1> HIDE DEF consensus, unfinished
<1>3. /\ (eng.ignore_start_dp_wave \/ consensus) \in BOOLEAN
      /\ (eng.pending_pause /\ ~ consensus) \in BOOLEAN
      /\ (IF unfinished THEN eng.current_wave ELSE eng.current_wave + 1) \in Nat
  BY DEF EngineState
<1> QED
  BY <1>1, <1>2, <1>3, ZenonT(90), ZenonT(90) DEF EngineState

\* What a rank does after the all-reduce depends on the result alone.
LEMMA AfterSyncKeeps ==
  ASSUME NEW eng \in EngineState
  PROVE  LET new == after_sync(eng)
             consensus == PendingPauses = dp_size
         IN  /\ new.pc = "input" /\ new.step_counter = eng.step_counter
             /\ new.current_wave = IF has_unfinished_global THEN eng.current_wave
                                                            ELSE eng.current_wave + 1
             /\ new.engines_running = has_unfinished_global
             /\ new.pause_state = eng.pause_state
             /\ new.pending_pause <=> eng.pending_pause /\ ~ consensus
             /\ new.ignore_start_dp_wave <=> eng.ignore_start_dp_wave \/ consensus
             /\ new.idle_state_callbacks = eng.idle_state_callbacks
BY ZenonT(90) DEF after_sync, EngineState

\* All ranks leave the all-reduce with the same result, so they stay in the same
\* wave, and a pause stays pending at all of them or at none.
LEMMA SyncCompletesStep ==
  ASSUME DPInv, SyncCompletes
  PROVE  DPInv'
<1> USE DEF DPInv
<1> DEFINE done == [type |-> "wave_complete", wave |-> engines[0].current_wave]
           consensus == PendingPauses = dp_size
<1>1. /\ \A e \in Engine : engines[e].pc = "sync"
      /\ engines' = [e \in Engine |-> after_sync(engines[e])]
      /\ outputs' = IF has_unfinished_global THEN outputs
                    ELSE [outputs EXCEPT ![0] = Append(@, done)]
      /\ UNCHANGED <<clients, coordinator, inputs, first_req, notices, start_waves,
                     published, requests, pause>>
  BY DEF SyncCompletes
<1>2. ASSUME NEW e \in Engine
      PROVE  /\ engines[e] \in EngineState /\ engines'[e] \in EngineState
             /\ engines'[e].pc = "input" /\ engines'[e].step_counter = engines[e].step_counter
             /\ engines'[e].current_wave = IF has_unfinished_global THEN engines[e].current_wave
                                           ELSE engines[e].current_wave + 1
             /\ engines'[e].engines_running = has_unfinished_global
             /\ engines'[e].pause_state = engines[e].pause_state
             /\ engines'[e].pending_pause <=> engines[e].pending_pause /\ ~ consensus
             /\ engines'[e].ignore_start_dp_wave <=> engines[e].ignore_start_dp_wave \/ consensus
             /\ engines'[e].idle_state_callbacks = engines[e].idle_state_callbacks
  <2>1. engines[e] \in EngineState /\ engines'[e] = after_sync(engines[e])
    BY <1>1 DEF Typed
  <2> QED
    BY <2>1, AfterSyncTyped, AfterSyncKeeps
<1>3. 0 \in Engine
  BY DPAssumption DEF Engine
<1>4. done \in Output /\ done.type = "wave_complete" /\ done.wave = engines[0].current_wave
  BY <1>2, <1>3 DEF Output, EngineState
<1> HIDE DEF done
<1>5. /\ outputs' \in [Engine -> Seq(Output)]
      /\ \A f \in Engine : \A k \in Elements(outputs'[f]) :
           k \in Elements(outputs[f]) \/ (k = done /\ f = 0 /\ ~ has_unfinished_global)
  <2>1. CASE has_unfinished_global
    BY <1>1, <2>1 DEF Typed
  <2>2. CASE ~ has_unfinished_global
    <3>1. /\ Append(outputs[0], done) \in Seq(Output)
          /\ Elements(Append(outputs[0], done)) = Elements(outputs[0]) \cup {done}
      BY <1>3, <1>4, AppendElements DEF Typed
    <3>2. outputs' = [outputs EXCEPT ![0] = Append(@, done)]
      BY <1>1, <2>2
    <3> QED
      BY <1>3, <2>2, <3>1, <3>2 DEF Typed
  <2> QED
    BY <2>1, <2>2, ZenonT(90)
<1>6. Typed'
  <2>1. engines' \in [Engine -> EngineState]
    BY <1>1, <1>2
  <2> QED
    BY <1>1, <1>5, <2>1, ZenonT(90) DEF Typed
<1>7. \A e \in Engine : /\ engines[e].current_wave \in Nat /\ engines'[e].current_wave \in Nat
                        /\ engines[e].current_wave <= engines'[e].current_wave
                        /\ ~ has_unfinished_global =>
                             engines[e].current_wave < engines'[e].current_wave
  BY <1>2 DEF EngineState
<1>8. WavesBounded'
  <2>1. WavesOrdered'
    <3>1. \A e, f \in Engine : engines'[e].current_wave = engines'[f].current_wave
      BY <1>2 DEF WavesBounded, WavesOrdered
    <3>2. coordinator.current_wave \in Nat
      BY DEF Typed, View
    <3>3. \A e \in Engine : coordinator.current_wave <= engines'[e].current_wave
      BY <1>7, <3>2 DEF WavesBounded, WavesOrdered
    <3> QED
      BY <1>1, <3>1, <3>3, ZenonT(90) DEF WavesBounded, WavesOrdered
  <2>2. ASSUME NEW f \in Engine, NEW m \in Elements(outputs'[f])
        PROVE  IF m.type = "wave_complete" THEN m.wave < engines'[f].current_wave
                                           ELSE m.wave <= engines'[f].current_wave
    <3>1. CASE m \in Elements(outputs[f])
      <4>1. m \in Output
        BY <3>1, ElementTyped, ZenonT(90) DEF Typed
      <4> QED
        BY <1>7, <3>1, <4>1 DEF WavesBounded, Output
    <3>2. CASE m = done /\ f = 0 /\ ~ has_unfinished_global
      BY <1>4, <1>7, <3>2
    <3> QED
      BY <1>5, <3>1, <3>2
  <2> QED
    BY <1>1, <2>1, <2>2, ZenonT(90) DEF WavesBounded
<1>9. InStep'
  BY <1>2 DEF InStep
<1>10. PauseInOrder'
  <2> SUFFICES ASSUME NEW e \in Engine PROVE CallOf(e)' /\ PhaseOf(e)'
    BY DEF PauseInOrder
  <2>1. /\ CallOf(e) /\ PhaseOf(e) /\ ~ Stopped(e) /\ engines[e].pc = "sync"
        /\ pause.state # "resuming" /\ e \notin pause.replies
    BY <1>1, ZenonT(90) DEF PauseInOrder, PhaseOf, Stopped
  <2>2. CallOf(e)'
    BY <1>1, <1>2, <2>1, ZenonT(90) DEF CallOf
  <2>3. engines'[e].pending_pause => engines'[e].engines_running
    BY <1>2, SomePausesPending
  <2>4. PhaseOf(e)'
    BY <1>1, <1>2, <2>1, <2>3, ZenonT(90) DEF PhaseOf
  <2> QED
    BY <2>2, <2>4
<1> QED
  BY <1>6, <1>8, <1>9, <1>10

\* The all-reduce of resume_scheduler ends the call at all ranks at once.
LEMMA ResumeCompletesStep ==
  ASSUME DPInv, ResumeCompletes
  PROVE  DPInv'
<1> USE DEF DPInv
<1> DEFINE unfinished == \E e \in Engine : HasUnfinished(engines[e])
<1>1. /\ \A e \in Engine : engines[e].pc = "resume"
      /\ engines' = [e \in Engine |-> [engines[e] EXCEPT !.pc = "input",
                                                       !.engines_running = @ \/ unfinished]]
      /\ pause' = [pause EXCEPT !.state = "none"]
      /\ UNCHANGED <<clients, coordinator, inputs, first_req, notices, start_waves, outputs,
                     published, requests>>
  BY Zenon DEF ResumeCompletes
<1>2. unfinished \in BOOLEAN
  OBVIOUS
<1> HIDE DEF unfinished
<1>3. ASSUME NEW e \in Engine
      PROVE  /\ engines[e] \in EngineState /\ engines'[e] \in EngineState
             /\ engines'[e].pc = "input" /\ engines'[e].step_counter = engines[e].step_counter
             /\ engines'[e].current_wave = engines[e].current_wave
             /\ engines'[e].pending_pause = engines[e].pending_pause
             /\ engines'[e].idle_state_callbacks = engines[e].idle_state_callbacks
             /\ engines[e].engines_running => engines'[e].engines_running
  <2>1. /\ engines[e] \in EngineState
        /\ engines'[e] = [engines[e] EXCEPT !.pc = "input", !.engines_running = @ \/ unfinished]
    BY <1>1, Zenon DEF Typed
  <2> QED
    BY <1>2, <2>1, ZenonT(90) DEF EngineState
<1>4. /\ pause' \in [state : {"none", "pausing", "resuming"}, replies : SUBSET Engine, calls : Nat]
      /\ pause'.state = "none" /\ pause'.replies = pause.replies
  BY <1>1, Zenon DEF Typed
<1>5. Typed'
  <2>1. engines' \in [Engine -> EngineState]
    BY <1>1, <1>3, Zenon
  <2> QED
    BY <1>1, <1>4, <2>1, ZenonT(90) DEF Typed
<1>6. WavesBounded'
  BY <1>1, <1>3, WavesFrame, ZenonT(90)
<1>7. InStep'
  BY <1>3 DEF InStep
<1>8. PauseInOrder'
  <2> SUFFICES ASSUME NEW e \in Engine PROVE CallOf(e)' /\ PhaseOf(e)'
    BY DEF PauseInOrder
  <2>1. /\ CallOf(e) /\ PhaseOf(e) /\ pause.state = "resuming" /\ e \notin pause.replies
        /\ \A c \in Client : NoCall(inputs[c][e]) /\ ~ engines[e].idle_state_callbacks
    BY <1>1, Zenon DEF PauseInOrder, PhaseOf
  <2>2. CallOf(e)'
    BY <1>1, <2>1, Zenon DEF CallOf, NoCall, IsCall
  <2>3. PhaseOf(e)'
    BY <1>1, <1>3, <1>4, <2>1, ZenonT(90) DEF PhaseOf
  <2> QED
    BY <2>2, <2>3
<1> QED
  BY <1>5, <1>6, <1>7, <1>8

-----------------------------------------------------------------------------
(* The invariant holds in every behaviour. *)

\* Every step preserves the invariant.
LEMMA NextInv == DPInv /\ [Next]_vars => DPInv'
<1> SUFFICES ASSUME DPInv, [Next]_vars PROVE DPInv'
  OBVIOUS
<1>1. CASE UNCHANGED vars
  <2>1. Typed' /\ WavesBounded'
    BY <1>1, ZenonT(90) DEF DPInv, vars, Typed, WavesBounded, WavesOrdered
  <2> QED
    BY <1>1, <2>1, OutsideFrame DEF DPInv, vars
<1>2. CASE Next
  BY <1>2, AddRequestStep, AbortRequestStep, NotifyCoordinatorStep, ReadPublishedStep,
     FrontMessageStep, PauseSchedulerStep, ResumeSchedulerStep, HandleInputStep,
     PreprocessingFailsStep, EngineOutputStep, HandleStartWaveStep, EnterPassStep,
     IdleCallbackStep, AbortInStepStep, PublishCountsStep, PassCompletesStep,
     SyncCompletesStep, ResumeCompletesStep
     DEF Next
<1> QED
  BY <1>1, <1>2

\* The inductive invariant holds in every behaviour.
LEMMA DPInvariant == Spec => []DPInv
<1> QED
  BY InitInv, NextInv, PTL DEF Spec

\* Whatever the number of ranks, front-ends and requests, and whichever requests
\* are dropped or pauses called, ranks that wait in a collective operation wait in
\* the same one: of the forward pass, the all-reduce of _has_global_unfinished_reqs
\* and the all-reduce of resume_scheduler, no two are mixed.
THEOREM CollectivesCorrect == Spec => []CollectivesMatch
<1>1. DPInv => CollectivesMatch
  <2> SUFFICES ASSUME DPInv, NEW e \in Engine, NEW f \in Engine, Waits(e), Waits(f)
               PROVE  engines[e].pc = engines[f].pc
    BY DEF CollectivesMatch, DPInv, InStep
  <2>1. engines[e].pc \in {"pass", "sync", "resume"} /\ engines[f].pc \in {"pass", "sync", "resume"}
    BY DEF DPInv, Typed, EngineState, Waits
  <2>2. engines[e].pc = "sync" <=> engines[f].pc = "sync"
    BY ZenonT(90) DEF DPInv, InStep
  <2>3. engines[e].pc = "resume" => engines[f].pc = "resume"
    BY DEF DPInv, PauseInOrder, PhaseOf, Stopped, Waits
  <2>4. engines[f].pc = "resume" => engines[e].pc = "resume"
    BY DEF DPInv, PauseInOrder, PhaseOf, Stopped, Waits
  <2> QED
    BY <2>1, <2>2, <2>3, <2>4
<1> QED
  BY <1>1, DPInvariant, PTL

\* The ranks agree on the wave that they are in after every all-reduce, and no
\* message makes the coordinator or a front-end believe in a later wave.
THEOREM WavesCorrect == Spec => []WavesOrdered
<1>1. DPInv => WavesOrdered
  BY DEF DPInv, WavesBounded
<1> QED
  BY <1>1, DPInvariant, PTL

-----------------------------------------------------------------------------
(* Who knows that the engines are paused. *)

\* The last state published to a front-end is the coordinator's; a front-end that
\* has read it may have gone ahead with a FIRST_REQ that is still under way.
Heard(c) ==
  IF published[c] # <<>> THEN published[c][Len(published[c])] = coordinator
  ELSE /\ clients[c].current_wave = coordinator.current_wave
       /\ \/ clients[c].engines_running = coordinator.engines_running
          \/ clients[c].engines_running /\ notices[c] # <<>>

\* A coordinator that is behind the ranks will be told of their last wave.
CompletionSent ==
  coordinator.current_wave < engines[0].current_wave =>
    \E m \in Elements(outputs[0]) :
      m.type = "wave_complete" /\ m.wave + 1 = engines[0].current_wave

\* A rank that asked for its wave to be started runs until the wave ends.
StartersRun ==
  \A e \in Engine : \A m \in Elements(outputs[e]) :
    m.type = "start_wave" /\ m.wave = engines[e].current_wave => engines[e].engines_running

\* A rank that runs, or will once it takes a START_DP_WAVE.
Woken(e) ==
  \/ engines[e].engines_running
  \/ \E m \in Elements(start_waves[e]) : m.wave = coordinator.current_wave /\ m.exclude # e

\* When the coordinator takes the wave that the ranks are in to be running, then
\* some rank runs, unless a rank has ignored a START_DP_WAVE.
SomeRankRuns ==
  /\ coordinator.engines_running /\ coordinator.current_wave = engines[0].current_wave
  /\ "ignored" \notin slips
  => \E e \in Engine : Woken(e)

KnownInv == (\A c \in Client : Heard(c)) /\ CompletionSent /\ StartersRun /\ SomeRankRuns

\* A step that neither ends a wave nor stops a rank.
RanksGoOn ==
  \A e \in Engine : /\ engines'[e].current_wave = engines[e].current_wave
                    /\ engines[e].engines_running => engines'[e].engines_running

\* Rank 0 and another rank than a given one exist.
LEMMA TwoRanks ==
  /\ 0 \in Engine
  /\ \A x : \E e \in Engine : e # x
<1>1. 0 \in Engine /\ 1 \in Engine
  BY DPAssumption DEF Engine
<1> QED
  BY <1>1

\* A step that leaves what the front-ends are told alone.
LEMMA HeardFrame ==
  ASSUME \A c \in Client : Heard(c), UNCHANGED <<clients, coordinator, notices, published>>
  PROVE  \A c \in Client : Heard(c)'
BY DEF Heard

\* A step in which the ranks go on and nothing passes between them and the
\* coordinator.
LEMMA RanksFrame ==
  ASSUME KnownInv, RanksGoOn, UNCHANGED <<coordinator, start_waves, outputs>>,
         slips \subseteq slips'
  PROVE  CompletionSent' /\ StartersRun' /\ SomeRankRuns'
<1> USE DEF KnownInv
<1>1. CompletionSent'
  BY TwoRanks DEF CompletionSent, RanksGoOn
<1>2. StartersRun'
  BY DEF StartersRun, RanksGoOn
<1>3. \A e \in Engine : Woken(e) => Woken(e)'
  BY DEF Woken, RanksGoOn
<1>4. SomeRankRuns'
  BY <1>3, TwoRanks DEF SomeRankRuns, RanksGoOn
<1> QED
  BY <1>1, <1>2, <1>4

\* One rank changes, and stays in its wave.
LEMMA OneRankGoesOn ==
  ASSUME Typed, NEW e \in Engine, NEW new, engines' = [engines EXCEPT ![e] = new],
         new.current_wave = engines[e].current_wave,
         engines[e].engines_running => new.engines_running
  PROVE  RanksGoOn
BY DEF RanksGoOn, Typed

\* What Publish does: every front-end will hear of the state last.
LEMMA PublishHeard ==
  ASSUME Typed, coordinator' \in View, Publish(coordinator')
  PROVE  \A c \in Client : Heard(c)'
<1> TAKE c \in Client
<1>1. published[c] \in Seq(View) /\ published'[c] = Append(published[c], coordinator')
  BY DEF Publish, Typed
<1>2. published'[c] # <<>> /\ published'[c][Len(published'[c])] = coordinator'
  BY <1>1
<1> QED
  BY <1>2 DEF Heard

\* No wave has started, and all have heard of it.
LEMMA InitKnown == Init => KnownInv
<1> SUFFICES ASSUME Init PROVE KnownInv
  OBVIOUS
<1>1. \A c \in Client : Heard(c)
  <2>1. /\ coordinator = [current_wave |-> 0, engines_running |-> FALSE]
        /\ \A c \in Client : published[c] = <<>> /\ clients[c] = coordinator
    BY DEF Init
  <2> QED
    BY <2>1, ZenonT(90) DEF Heard
<1>2. CompletionSent /\ StartersRun /\ SomeRankRuns
  BY TwoRanks, EmptyElements DEF Init, CompletionSent, StartersRun, SomeRankRuns
<1> QED
  BY <1>1, <1>2 DEF KnownInv

\* The steps of a front-end other than those of its stats task send no message
\* to the coordinator.
LEMMA FrontEndKnown ==
  ASSUME KnownInv, NEW c \in Client,
         \/ \E r \in Request : (\E e \in Engine : AddRequest(c, r, e)) \/ AbortRequest(c, r)
         \/ (\E mode \in PauseMode : PauseScheduler(c, mode)) \/ ResumeScheduler(c)
         \/ \E e \in Engine : PreprocessingFails(c, e)
  PROVE  KnownInv'
<1>1. UNCHANGED <<engines, clients, coordinator, notices, start_waves, outputs, published, slips>>
  BY Zenon DEF AddRequest, AbortRequest, PauseScheduler, ResumeScheduler, PreprocessingFails
<1>2. RanksGoOn
  BY <1>1 DEF RanksGoOn
<1> QED
  BY <1>1, <1>2, HeardFrame, RanksFrame DEF KnownInv

\* The stats task forwards a FIRST_REQ: its front-end takes the engines to be
\* running while the notice is under way.
LEMMA NotifyCoordinatorKnown ==
  ASSUME Typed, KnownInv, NEW c \in Client, NotifyCoordinator(c)
  PROVE  KnownInv'
<1> DEFINE notice == [engine |-> Head(first_req[c]), wave |-> clients[c].current_wave]
           new == [clients[c] EXCEPT !.engines_running = TRUE]
<1>1. /\ notices' = [notices EXCEPT ![c] = Append(@, notice)]
      /\ clients' = [clients EXCEPT ![c] = new]
      /\ UNCHANGED <<engines, coordinator, start_waves, outputs, published, slips>>
  BY Zenon DEF NotifyCoordinator, Typed
<1>2. RanksGoOn
  BY <1>1 DEF RanksGoOn
<1>3. notice \in Notice
  BY TailElements DEF NotifyCoordinator, Typed, Notice, View
<1>4. new.engines_running /\ new.current_wave = clients[c].current_wave
  BY DEF Typed, View
<1> HIDE DEF notice, new
<1>5. notices'[c] # <<>> /\ clients'[c] = new
  <2>1. notices[c] \in Seq(Notice)
    BY DEF Typed
  <2>2. Append(notices[c], notice) # <<>>
    BY <1>3, <2>1
  <2> QED
    BY <1>1, <2>2, Zenon DEF Typed
<1>6. \A d \in Client : d # c => notices'[d] = notices[d] /\ clients'[d] = clients[d]
  BY <1>1 DEF Typed
<1>7. \A d \in Client : Heard(d)'
  BY <1>1, <1>4, <1>5, <1>6 DEF Heard, KnownInv
<1> QED
  BY <1>1, <1>2, <1>7, RanksFrame DEF KnownInv

\* A member of a queue is its first or stays when that one is taken.
LEMMA HeadOrTail ==
  ASSUME NEW S, NEW q \in Seq(S), q # <<>>
  PROVE  \A m \in Elements(q) : m = Head(q) \/ m \in Elements(Tail(q))
<1> TAKE m \in Elements(q)
<1>1. PICK i \in 1 .. Len(q) : m = q[i]
  BY DEF Elements
<1>2. CASE i = 1
  BY <1>1, <1>2
<1>3. CASE i # 1
  <2>1. i - 1 \in 1 .. Len(Tail(q)) /\ Tail(q)[i - 1] = m
    BY <1>1, <1>3
  <2> QED
    BY <2>1, ZenonT(90) DEF Elements
<1> QED
  BY <1>2, <1>3

\* The last member of a suffix.
LEMMA SuffixLast ==
  ASSUME NEW S, NEW q \in Seq(S), NEW n \in 1 .. Len(q), n # Len(q)
  PROVE  /\ SubSeq(q, n + 1, Len(q)) # <<>>
         /\ SubSeq(q, n + 1, Len(q))[Len(SubSeq(q, n + 1, Len(q)))] = q[Len(q)]
<1> DEFINE rest == SubSeq(q, n + 1, Len(q))
<1>1. rest \in Seq(S) /\ Len(rest) = Len(q) - n
  OBVIOUS
<1>2. \A i \in 1 .. Len(q) - n : rest[i] = q[(n + 1) + i - 1]
  OBVIOUS
<1> HIDE DEF rest
<1>3. /\ Len(q) - n \in 1 .. Len(q) - n /\ (n + 1) + (Len(q) - n) - 1 = Len(q)
      /\ Len(q) - n # 0
  OBVIOUS
<1>4. rest # <<>> /\ rest[Len(rest)] = q[Len(q)]
  BY <1>1, <1>2, <1>3
<1> QED
  BY <1>4, Zenon DEF rest

\* The stats task reads published states: the last one it reads is the
\* coordinator's, or more are under way.
LEMMA ReadPublishedKnown ==
  ASSUME Typed, KnownInv, NEW c \in Client, ReadPublished(c)
  PROVE  KnownInv'
<1>1. PICK n \in 1 .. Len(published[c]) :
        /\ clients' = [clients EXCEPT ![c] = published[c][n]]
        /\ published' = [published EXCEPT ![c] = SubSeq(@, n + 1, Len(@))]
  BY Zenon DEF ReadPublished
<1>2. UNCHANGED <<engines, coordinator, notices, start_waves, outputs>> /\ slips \subseteq slips'
  BY DEF ReadPublished
<1>3. RanksGoOn
  BY <1>2 DEF RanksGoOn
<1>4. \A d \in Client : d # c => published'[d] = published[d] /\ clients'[d] = clients[d]
  BY <1>1 DEF Typed
<1>5. Heard(c)'
  <2> DEFINE q == published[c]
             rest == SubSeq(q, n + 1, Len(q))
  <2>1. /\ q \in Seq(View) /\ q # <<>> /\ q[Len(q)] = coordinator /\ coordinator' = coordinator
        /\ published'[c] = rest /\ clients'[c] = q[n] /\ n \in 1 .. Len(q)
    BY <1>1, <1>2 DEF Typed, KnownInv, Heard
  <2> HIDE DEF q, rest
  <2>2. CASE n = Len(q)
    <3>1. published'[c] = <<>> /\ clients'[c] = coordinator'
      BY <2>1, <2>2 DEF rest
    <3> QED
      BY <3>1 DEF Heard
  <2>3. CASE n # Len(q)
    <3>1. rest # <<>> /\ rest[Len(rest)] = q[Len(q)]
      BY <2>1, <2>3, SuffixLast, ZenonT(90) DEF rest
    <3> QED
      BY <2>1, <3>1 DEF Heard
  <2> QED
    BY <2>2, <2>3
<1>6. \A d \in Client : Heard(d)'
  BY <1>2, <1>4, <1>5 DEF Heard, KnownInv
<1> QED
  BY <1>2, <1>3, <1>6, RanksFrame DEF KnownInv

\* A poll that times out publishes the coordinator's state again.
LEMMA PublishCountsKnown ==
  ASSUME Typed, KnownInv, PublishCounts
  PROVE  KnownInv'
<1>1. /\ Publish(coordinator) /\ coordinator' = coordinator
      /\ UNCHANGED <<engines, start_waves, outputs, slips>>
  BY DEF PublishCounts
<1>2. \A c \in Client : Heard(c)'
  BY <1>1, PublishHeard DEF Typed
<1>3. RanksGoOn
  BY <1>1 DEF RanksGoOn
<1> QED
  BY <1>1, <1>2, <1>3, RanksFrame DEF KnownInv

\* A FIRST_REQ starts the wave at all ranks but one at most, and there are two.
LEMMA FrontMessageKnown ==
  ASSUME Typed, KnownInv, NEW c \in Client, FrontMessage(c)
  PROVE  KnownInv'
<1> DEFINE notice == Head(notices[c])
           exclude == IF notice.wave < coordinator.current_wave THEN None ELSE notice.engine
<1>1. /\ notices[c] # <<>> /\ notices' = [notices EXCEPT ![c] = Tail(@)]
      /\ UNCHANGED <<engines, clients, outputs, slips>>
  BY DEF FrontMessage
<1>2. RanksGoOn
  BY <1>1 DEF RanksGoOn
<1>3. CASE coordinator.engines_running
  <2>1. UNCHANGED <<coordinator, start_waves, published>>
    BY <1>3 DEF FrontMessage
  <2>2. coordinator.engines_running = TRUE
    BY <1>3 DEF Typed, View
  <2>3. ASSUME NEW d \in Client PROVE Heard(d)'
    <3>1. Heard(d) /\ clients[d] \in View
      BY DEF KnownInv, Typed
    <3>2. clients[d].engines_running \in BOOLEAN
      BY <3>1 DEF View
    <3> QED
      BY <1>1, <2>1, <2>2, <3>1, <3>2, ZenonT(90) DEF Heard
  <2> QED
    BY <1>1, <1>2, <2>1, <2>3, RanksFrame DEF KnownInv
<1>4. CASE ~ coordinator.engines_running
  <2>1. /\ coordinator' = [coordinator EXCEPT !.engines_running = TRUE]
        /\ send_start_wave(coordinator.current_wave, exclude) /\ Publish(coordinator')
    BY <1>4 DEF FrontMessage
  <2>2. /\ coordinator' \in View /\ coordinator.current_wave \in Nat
        /\ coordinator'.current_wave = coordinator.current_wave
    BY <2>1, Zenon DEF Typed, View
  <2>3. exclude \in Engine \cup {None}
    <3>1. notice \in Notice
      BY <1>1, TailElements DEF Typed
    <3> HIDE DEF notice
    <3> QED
      BY <3>1 DEF Notice
  <2> HIDE DEF exclude
  <2>4. \A d \in Client : Heard(d)'
    BY <2>1, <2>2, PublishHeard
  <2>5. CompletionSent' /\ StartersRun'
    BY <1>1, <2>2, ZenonT(90) DEF KnownInv, CompletionSent, StartersRun
  <2>6. PICK e \in Engine : e # exclude
    BY TwoRanks
  <2>7. Woken(e)'
    <3> DEFINE start == [wave |-> coordinator.current_wave, exclude |-> exclude]
    <3>1. start_waves'[e] = Append(start_waves[e], start) /\ start \in Start
      BY <2>1, <2>2, <2>3 DEF send_start_wave, Start
    <3>2. start \in Elements(start_waves'[e])
      BY <3>1, AppendElements DEF Typed
    <3>3. start.wave = coordinator'.current_wave /\ start.exclude # e
      BY <2>2, <2>6
    <3> QED
      BY <3>2, <3>3 DEF Woken
  <2> QED
    BY <2>4, <2>5, <2>7 DEF KnownInv, SomeRankRuns
<1> QED
  BY <1>3, <1>4

\* wave_complete brings the coordinator to the wave after it, paused; start_wave
\* brings it to the wave of a rank that runs.
LEMMA EngineOutputKnown ==
  ASSUME DPInv, KnownInv, NEW e \in Engine, EngineOutput(e)
  PROVE  KnownInv'
<1> USE DEF DPInv
<1> DEFINE output == Head(outputs[e])
           starts == \/ output.wave > coordinator.current_wave
                     \/ output.wave = coordinator.current_wave /\ ~ coordinator.engines_running
<1>1. /\ outputs' = [outputs EXCEPT ![e] = Tail(@)] /\ outputs[e] # <<>>
      /\ UNCHANGED <<engines, clients, notices, slips>>
  BY DEF EngineOutput
<1>2. /\ outputs[e] \in Seq(Output) /\ output \in Output /\ output \in Elements(outputs[e])
      /\ Elements(Tail(outputs[e])) \subseteq Elements(outputs[e])
      /\ \A m \in Elements(outputs[e]) : m = output \/ m \in Elements(Tail(outputs[e]))
  <2>1. outputs[e] \in Seq(Output)
    BY DEF Typed
  <2> QED
    BY <1>1, <2>1, TailElements, HeadOrTail
<1>3. \A f \in Engine : /\ Elements(outputs'[f]) \subseteq Elements(outputs[f])
                        /\ \A m \in Elements(outputs[f]) :
                             (m = output /\ f = e) \/ m \in Elements(outputs'[f])
  BY <1>1, <1>2 DEF Typed
<1>4. \/ /\ UNCHANGED <<coordinator, start_waves, published>>
         /\ ~ (output.type = "wave_complete" /\ coordinator.current_wave <= output.wave)
      \/ /\ output.type = "wave_complete" /\ coordinator.current_wave <= output.wave
         /\ coordinator' = [current_wave |-> output.wave + 1, engines_running |-> FALSE]
         /\ Publish(coordinator')
      \/ /\ output.type = "start_wave" /\ starts
         /\ coordinator' = [current_wave |-> output.wave, engines_running |-> TRUE]
         /\ Publish(coordinator')
  BY DEF EngineOutput
<1>5. /\ output.wave \in Nat /\ 0 \in Engine
      /\ output.type = "wave_complete" => output.wave < engines[0].current_wave
      /\ engines[e].current_wave = engines[0].current_wave
      /\ engines[0].current_wave \in Nat /\ coordinator.current_wave \in Nat
      /\ coordinator.current_wave <= engines[0].current_wave
  BY <1>2, TwoRanks DEF Output, WavesBounded, WavesOrdered, Typed, EngineState, View
<1> HIDE DEF output
<1>6. StartersRun'
  BY <1>1, <1>3, ZenonT(90) DEF KnownInv, StartersRun
<1>7. CASE /\ UNCHANGED <<coordinator, start_waves, published>>
           /\ ~ (output.type = "wave_complete" /\ coordinator.current_wave <= output.wave)
  <2>1. \A c \in Client : Heard(c)'
    BY <1>1, <1>7, HeardFrame DEF KnownInv
  <2>2. CompletionSent'
    <3> SUFFICES ASSUME coordinator.current_wave < engines[0].current_wave
                 PROVE  \E m \in Elements(outputs'[0]) :
                          m.type = "wave_complete" /\ m.wave + 1 = engines[0].current_wave
      BY <1>1, <1>7 DEF CompletionSent
    <3>1. PICK m \in Elements(outputs[0]) :
            m.type = "wave_complete" /\ m.wave + 1 = engines[0].current_wave
      BY DEF KnownInv, CompletionSent
    <3>2. m # output
      BY <1>5, <1>7, <3>1
    <3> QED
      BY <1>3, <1>5, <3>1, <3>2
  <2>3. SomeRankRuns'
    BY <1>1, <1>7, ZenonT(90) DEF KnownInv, SomeRankRuns, Woken
  <2> QED
    BY <1>6, <2>1, <2>2, <2>3 DEF KnownInv
<1>8. CASE /\ output.type = "wave_complete" /\ coordinator.current_wave <= output.wave
           /\ coordinator' = [current_wave |-> output.wave + 1, engines_running |-> FALSE]
           /\ Publish(coordinator')
  <2>1. /\ coordinator' \in View /\ coordinator'.current_wave = output.wave + 1
        /\ ~ coordinator'.engines_running
    BY <1>5, <1>8 DEF View
  <2>2. \A c \in Client : Heard(c)'
    BY <1>8, <2>1, PublishHeard
  <2>3. CompletionSent'
    <3> SUFFICES ASSUME output.wave + 1 < engines[0].current_wave
                 PROVE  \E m \in Elements(outputs'[0]) :
                          m.type = "wave_complete" /\ m.wave + 1 = engines[0].current_wave
      BY <1>1, <2>1 DEF CompletionSent
    <3>1. PICK m \in Elements(outputs[0]) :
            m.type = "wave_complete" /\ m.wave + 1 = engines[0].current_wave
      BY <1>5, <1>8 DEF KnownInv, CompletionSent
    <3>2. m # output
      BY <1>5, <3>1
    <3> QED
      BY <1>3, <1>5, <3>1, <3>2
  <2> QED
    BY <1>6, <2>1, <2>2, <2>3 DEF KnownInv, SomeRankRuns
<1>9. CASE /\ output.type = "start_wave" /\ starts
           /\ coordinator' = [current_wave |-> output.wave, engines_running |-> TRUE]
           /\ Publish(coordinator')
  <2>1. coordinator' \in View /\ coordinator'.current_wave = output.wave
    BY <1>5, <1>9 DEF View
  <2>2. \A c \in Client : Heard(c)'
    BY <1>9, <2>1, PublishHeard
  <2>3. CompletionSent'
    <3> SUFFICES ASSUME output.wave < engines[0].current_wave
                 PROVE  \E m \in Elements(outputs'[0]) :
                          m.type = "wave_complete" /\ m.wave + 1 = engines[0].current_wave
      BY <1>1, <2>1 DEF CompletionSent
    <3>1. coordinator.current_wave < engines[0].current_wave
      BY <1>5, <1>9
    <3>2. PICK m \in Elements(outputs[0]) :
            m.type = "wave_complete" /\ m.wave + 1 = engines[0].current_wave
      BY <3>1 DEF KnownInv, CompletionSent
    <3>3. m # output
      BY <1>9, <3>2
    <3> QED
      BY <1>3, <1>5, <3>2, <3>3
  <2>4. output.wave = engines[0].current_wave => Woken(e)'
    BY <1>1, <1>2, <1>5, <1>9 DEF Woken, KnownInv, StartersRun
  <2> QED
    BY <1>1, <1>6, <2>1, <2>2, <2>3, <2>4 DEF KnownInv, SomeRankRuns
<1> QED
  BY <1>4, <1>7, <1>8, <1>9

\* A rank takes a message: it stays in its wave and does not stop, and if it asks
\* for its wave to be started, it runs.
LEMMA HandleInputKnown ==
  ASSUME DPInv, KnownInv, NEW c \in Client, NEW e \in Engine, HandleInput(c, e)
  PROVE  KnownInv'
<1> USE DEF DPInv
<1> DEFINE message == Head(inputs[c][e])
<1>1. /\ inputs[c][e] # <<>> /\ inputs' = [inputs EXCEPT ![c][e] = Tail(@)]
      /\ UNCHANGED <<clients, coordinator, notices, start_waves, published, slips>>
  BY DEF HandleInput
<1>2. engines[e] \in EngineState /\ message \in Message /\ message \in Elements(inputs[c][e])
  BY <1>1, TakeInput, ZenonT(90) DEF Typed
<1>3. \A d \in Client : Heard(d)'
  BY <1>1, HeardFrame DEF KnownInv
<1>4. CASE message.type = "ADD"
  <2> DEFINE new == add_request(engines[e], message.request, message.wave)
             start == [type |-> "start_wave", wave |-> engines[e].current_wave]
  <2>1. /\ engines' = [engines EXCEPT ![e] = new]
        /\ \/ outputs' = outputs
           \/ /\ IsStale(engines[e], message.wave)
              /\ outputs' = [outputs EXCEPT ![e] = Append(@, start)]
    BY ZenonT(90), <1>4 DEF HandleInput
  <2>2. /\ message.request \in Request /\ message.wave \in Nat
        /\ message.wave <= engines[e].current_wave
    <3>1. message.request \in Request /\ message.wave \in Nat
      BY <1>2, <1>4, MessageFields, ZenonT(90)
    <3>2. /\ message.wave <= coordinator.current_wave
          /\ coordinator.current_wave <= engines[e].current_wave
      BY <1>2, <1>4, ZenonT(90) DEF WavesBounded, WavesOrdered
    <3> QED
      BY <1>2, <3>1, <3>2 DEF Typed, EngineState, View
  <2> HIDE DEF message
  <2>3. /\ new.current_wave = engines[e].current_wave
        /\ engines[e].engines_running => new.engines_running
    BY <1>2, <2>2, AddRequestKeeps
  <2>4. IsStale(engines[e], message.wave) => new.engines_running
    BY <1>2, Zenon DEF add_request, EngineState
  <2> HIDE DEF new
  <2>5. RanksGoOn /\ engines'[e] = new
    <3>1. engines'[e] = new
      BY <2>1 DEF Typed
    <3> QED
      BY <2>1, <2>3, <3>1, OneRankGoesOn, ZenonT(90)
  <2>6. CASE outputs' = outputs
    BY <1>1, <1>3, <2>5, <2>6, RanksFrame DEF KnownInv
  <2>7. CASE /\ IsStale(engines[e], message.wave)
             /\ outputs' = [outputs EXCEPT ![e] = Append(@, start)]
    <3>1. start \in Output /\ start.type = "start_wave"
      BY <1>2, ZenonT(90) DEF Output, EngineState
    <3> HIDE DEF start
    <3>2. \A f \in Engine : /\ Elements(outputs[f]) \subseteq Elements(outputs'[f])
                            /\ \A k \in Elements(outputs'[f]) :
                                 k \in Elements(outputs[f]) \/ (k = start /\ f = e)
      <4>1. Elements(Append(outputs[e], start)) = Elements(outputs[e]) \cup {start}
        BY <3>1, AppendElements DEF Typed
      <4>2. /\ outputs'[e] = Append(outputs[e], start)
            /\ \A f \in Engine : f # e => outputs'[f] = outputs[f]
        BY <2>7 DEF Typed
      <4>3. ASSUME NEW f \in Engine
            PROVE  /\ Elements(outputs[f]) \subseteq Elements(outputs'[f])
                   /\ \A k \in Elements(outputs'[f]) :
                        k \in Elements(outputs[f]) \/ (k = start /\ f = e)
        <5>1. CASE f = e
          BY <4>1, <4>2, <5>1, ZenonT(90)
        <5>2. CASE f # e
          BY <4>2, <5>2, ZenonT(90)
        <5> QED
          BY <5>1, <5>2, ZenonT(90)
      <4> QED
        BY <4>3, ZenonT(90)
    <3>3. CompletionSent'
      BY <1>1, <2>5, <3>2, TwoRanks DEF KnownInv, CompletionSent, RanksGoOn
    <3>4. StartersRun'
      BY <2>4, <2>5, <2>7, <3>2 DEF KnownInv, StartersRun, RanksGoOn
    <3>5. SomeRankRuns'
      <4>1. \A f \in Engine : Woken(f) => Woken(f)'
        BY <1>1, <2>5 DEF Woken, RanksGoOn
      <4> QED
        BY <1>1, <2>5, <4>1, TwoRanks DEF KnownInv, SomeRankRuns, RanksGoOn
    <3> QED
      BY <1>3, <3>3, <3>4, <3>5 DEF KnownInv
  <2> QED
    BY <2>1, <2>6, <2>7
<1>5. CASE message.type # "ADD"
  <2>1. /\ outputs' = outputs
        /\ \/ engines' = [engines EXCEPT ![e] = finish_requests(@, {message.request})]
           \/ /\ message.type = "PAUSE"
              /\ engines' = [engines EXCEPT ![e] = pause_scheduler(@, message.mode)]
           \/ engines' = engines
           \/ engines' = [engines EXCEPT ![e].pause_state = "UNPAUSED",
                            ![e].ignore_start_dp_wave = FALSE, ![e].pc = "resume"]
    BY <1>5 DEF HandleInput
  <2> HIDE DEF message
  <2>2. RanksGoOn
    <3>1. CASE engines' = [engines EXCEPT ![e] = finish_requests(@, {message.request})]
      <4> DEFINE new == finish_requests(engines[e], {message.request})
      <4>1. /\ engines' = [engines EXCEPT ![e] = new]
            /\ new.current_wave = engines[e].current_wave
            /\ new.engines_running = engines[e].engines_running
        BY <1>2, <3>1, FinishRequestsKeeps
      <4> HIDE DEF new
      <4> QED
        BY <4>1, OneRankGoesOn, ZenonT(90)
    <3>2. CASE /\ message.type = "PAUSE"
               /\ engines' = [engines EXCEPT ![e] = pause_scheduler(@, message.mode)]
      <4> DEFINE new == pause_scheduler(engines[e], message.mode)
      <4>1. /\ engines' = [engines EXCEPT ![e] = new]
            /\ new.current_wave = engines[e].current_wave /\ new.engines_running
        BY <1>2, <3>2, MessageFields, PauseSchedulerKeeps
      <4> HIDE DEF new
      <4> QED
        BY <4>1, OneRankGoesOn, ZenonT(90)
    <3>3. CASE engines' = engines
      BY <3>3 DEF RanksGoOn
    <3>4. CASE engines' = [engines EXCEPT ![e].pause_state = "UNPAUSED",
                             ![e].ignore_start_dp_wave = FALSE, ![e].pc = "resume"]
      <4> DEFINE new == [engines[e] EXCEPT !.pause_state = "UNPAUSED",
                           !.ignore_start_dp_wave = FALSE, !.pc = "resume"]
      <4>1. engines' = [engines EXCEPT ![e] = new]
        BY <3>4, Zenon DEF Typed
      <4>2. /\ new.current_wave = engines[e].current_wave
            /\ new.engines_running = engines[e].engines_running
        BY <1>2, Zenon DEF EngineState
      <4> HIDE DEF new
      <4> QED
        BY <4>1, <4>2, OneRankGoesOn, Zenon
    <3> QED
      BY <2>1, <3>1, <3>2, <3>3, <3>4
  <2> QED
    BY <1>1, <1>3, <2>1, <2>2, RanksFrame DEF KnownInv
<1> QED
  BY <1>4, <1>5

\* A rank that START_DP_WAVE was sent to runs when it takes the message, unless
\* it ignores it.
LEMMA HandleStartWaveKnown ==
  ASSUME DPInv, KnownInv, NEW e \in Engine, HandleStartWave(e)
  PROVE  KnownInv'
<1> USE DEF DPInv
<1> DEFINE start == Head(start_waves[e])
           new == [engines[e] EXCEPT !.current_wave = start.wave, !.engines_running = TRUE]
           ignores == \/ engines[e].ignore_start_dp_wave \/ start.exclude = e
                      \/ start.wave < engines[e].current_wave
<1>1. /\ start_waves[e] # <<>> /\ start_waves' = [start_waves EXCEPT ![e] = Tail(@)]
      /\ engines' = IF ignores THEN engines ELSE [engines EXCEPT ![e] = new]
      /\ slips' = IF engines[e].ignore_start_dp_wave THEN slips \cup {"ignored"} ELSE slips
      /\ UNCHANGED <<clients, coordinator, notices, outputs, published>>
  BY Zenon DEF HandleStartWave, Typed
<1>2. /\ start_waves[e] \in Seq(Start) /\ start \in Start /\ start \in Elements(start_waves[e])
      /\ \A m \in Elements(start_waves[e]) : m = start \/ m \in Elements(Tail(start_waves[e]))
  <2>1. start_waves[e] \in Seq(Start)
    BY DEF Typed
  <2> QED
    BY <1>1, <2>1, TailElements, HeadOrTail
<1>3. /\ \A f \in Engine : \A m \in Elements(start_waves[f]) :
           (m = start /\ f = e) \/ m \in Elements(start_waves'[f])
  BY <1>1, <1>2 DEF Typed
<1>4. /\ start.wave \in Nat /\ coordinator.current_wave <= engines[e].current_wave
      /\ start.wave <= coordinator.current_wave /\ coordinator.current_wave \in Nat
      /\ engines[e] \in EngineState /\ engines[e].current_wave \in Nat /\ 0 \in Engine
      /\ engines[e].current_wave = engines[0].current_wave
  <2>1. /\ start.wave \in Nat /\ engines[e] \in EngineState /\ engines[e].current_wave \in Nat
        /\ coordinator.current_wave \in Nat
    BY <1>2 DEF Start, Typed, EngineState, View
  <2> QED
    BY <1>2, <2>1, TwoRanks, ZenonT(90) DEF WavesBounded, WavesOrdered
<1> HIDE DEF start
<1>5. RanksGoOn
  <2>1. CASE ignores
    BY <1>1, <2>1 DEF RanksGoOn
  <2>2. CASE ~ ignores
    <3>1. new.current_wave = start.wave /\ new.engines_running
      BY <1>4, ZenonT(90) DEF EngineState
    <3>2. start.wave = engines[e].current_wave
      BY <1>4, <2>2
    <3>3. engines' = [engines EXCEPT ![e] = new]
      BY <1>1, <2>2
    <3> HIDE DEF new
    <3> QED
      BY <3>1, <3>2, <3>3, OneRankGoesOn, ZenonT(90)
  <2> QED
    BY <2>1, <2>2
<1>6. \A d \in Client : Heard(d)'
  BY <1>1, HeardFrame DEF KnownInv
<1>7. CompletionSent' /\ StartersRun'
  BY <1>1, <1>4, <1>5, ZenonT(90) DEF KnownInv, CompletionSent, StartersRun, RanksGoOn
<1>8. SomeRankRuns'
  <2> SUFFICES ASSUME /\ coordinator.engines_running /\ "ignored" \notin slips'
                      /\ coordinator.current_wave = engines[0].current_wave
               PROVE  \E f \in Engine : Woken(f)'
    BY <1>1, <1>4, <1>5, ZenonT(90) DEF SomeRankRuns, RanksGoOn
  <2>1. ~ engines[e].ignore_start_dp_wave /\ "ignored" \notin slips
    BY <1>1
  <2>2. PICK f \in Engine : Woken(f)
    BY <2>1 DEF KnownInv, SomeRankRuns
  <2>3. CASE engines[f].engines_running
    BY <1>5, <2>3 DEF RanksGoOn, Woken
  <2>4. CASE ~ engines[f].engines_running
    <3>1. PICK m \in Elements(start_waves[f]) : /\ m.wave = coordinator.current_wave
                                                /\ m.exclude # f
      BY <2>2, <2>4 DEF Woken
    <3>2. CASE m \in Elements(start_waves'[f])
      BY <1>1, <3>1, <3>2 DEF Woken
    <3>3. CASE m = start /\ f = e
      <4>1. ~ ignores
        BY <1>4, <2>1, <3>1, <3>3
      <4>2. engines' = [engines EXCEPT ![e] = new] /\ new.engines_running
        BY <1>1, <1>4, <4>1, ZenonT(90) DEF EngineState
      <4> HIDE DEF new
      <4> QED
        BY <3>3, <4>2 DEF Woken, Typed
    <3> QED
      BY <1>3, <3>1, <3>2, <3>3
  <2> QED
    BY <2>3, <2>4
<1> QED
  BY <1>6, <1>7, <1>8 DEF KnownInv

\* In the other steps of one rank, and in a pass that completes, the ranks go on.
LEMMA LoopStepKnown ==
  ASSUME DPInv, KnownInv,
         \/ \E e \in Engine : EnterPass(e) \/ IdleCallback(e) \/ \E r \in Request : AbortInStep(e, r)
         \/ PassCompletes \/ ResumeCompletes
  PROVE  KnownInv'
<1> USE DEF DPInv
<1>1. UNCHANGED <<clients, coordinator, notices, start_waves, outputs, published, slips>>
  BY Zenon DEF EnterPass, IdleCallback, AbortInStep, PassCompletes, ResumeCompletes
<1>2. RanksGoOn
  <2>1. ASSUME NEW e \in Engine, EnterPass(e) PROVE RanksGoOn
    <3> DEFINE new == [engines[e] EXCEPT !.pc = "pass"]
    <3>1. engines' = [engines EXCEPT ![e] = new]
      BY <2>1, Zenon DEF EnterPass, Typed
    <3>2. /\ new.current_wave = engines[e].current_wave
          /\ new.engines_running = engines[e].engines_running
      <4>1. engines[e] \in EngineState
        BY DEF Typed
      <4> QED
        BY <4>1, ZenonT(90) DEF EngineState
    <3> HIDE DEF new
    <3> QED
      BY <3>1, <3>2, OneRankGoesOn, Zenon
  <2>2. ASSUME NEW e \in Engine, IdleCallback(e) PROVE RanksGoOn
    <3> DEFINE new == [engines[e] EXCEPT !.idle_state_callbacks = FALSE]
    <3>1. engines' = [engines EXCEPT ![e] = new]
      BY <2>2, Zenon DEF IdleCallback, Typed
    <3>2. /\ new.current_wave = engines[e].current_wave
          /\ new.engines_running = engines[e].engines_running
      <4>1. engines[e] \in EngineState
        BY DEF Typed
      <4> QED
        BY <4>1, ZenonT(90) DEF EngineState
    <3> HIDE DEF new
    <3> QED
      BY <3>1, <3>2, OneRankGoesOn, Zenon
  <2>3. ASSUME NEW e \in Engine, NEW r \in Request, AbortInStep(e, r) PROVE RanksGoOn
    <3> DEFINE new == finish_requests(engines[e], {r})
    <3>1. engines' = [engines EXCEPT ![e] = new]
      BY <2>3, ZenonT(90) DEF AbortInStep
    <3>2. /\ new.current_wave = engines[e].current_wave
          /\ new.engines_running = engines[e].engines_running
      BY ZenonT(90), FinishRequestsKeeps DEF Typed
    <3> HIDE DEF new
    <3> QED
      BY <3>1, <3>2, OneRankGoesOn, Zenon
  <2>4. ASSUME PassCompletes PROVE RanksGoOn
    <3>1. \A e \in Engine : engines[e] \in EngineState /\ engines'[e] = after_pass(engines[e])
      BY <2>4, ZenonT(90) DEF PassCompletes, Typed
    <3> QED
      BY ZenonT(90), <3>1, AfterPassKeeps DEF RanksGoOn
  <2>5. ASSUME ResumeCompletes PROVE RanksGoOn
    <3> DEFINE unfinished == \E e \in Engine : HasUnfinished(engines[e])
    <3>1. engines' = [e \in Engine |-> [engines[e] EXCEPT !.pc = "input",
                                          !.engines_running = @ \/ unfinished]]
      BY <2>5, Zenon DEF ResumeCompletes
    <3> HIDE DEF unfinished
    <3>2. ASSUME NEW e \in Engine
          PROVE  /\ engines'[e].current_wave = engines[e].current_wave
                 /\ engines[e].engines_running => engines'[e].engines_running
      <4>1. /\ engines[e] \in EngineState
            /\ engines'[e] = [engines[e] EXCEPT !.pc = "input",
                                                !.engines_running = @ \/ unfinished]
        BY <3>1, Zenon DEF Typed
      <4> QED
        BY <4>1, ZenonT(90) DEF EngineState
    <3> QED
      BY <3>2 DEF RanksGoOn
  <2> QED
    BY <2>1, <2>2, <2>3, <2>4, <2>5
<1> QED
  BY <1>1, <1>2, HeardFrame, RanksFrame DEF KnownInv

\* The all-reduce either lets all ranks run on, or ends the wave, of which rank 0
\* tells the coordinator.
LEMMA SyncCompletesKnown ==
  ASSUME DPInv, KnownInv, SyncCompletes
  PROVE  KnownInv'
<1> USE DEF DPInv
<1> DEFINE done == [type |-> "wave_complete", wave |-> engines[0].current_wave]
<1>1. /\ engines' = [e \in Engine |-> after_sync(engines[e])]
      /\ outputs' = IF has_unfinished_global THEN outputs
                    ELSE [outputs EXCEPT ![0] = Append(@, done)]
      /\ UNCHANGED <<clients, coordinator, notices, start_waves, published, slips>>
  BY DEF SyncCompletes
<1>2. ASSUME NEW e \in Engine
      PROVE  /\ engines[e].current_wave \in Nat
             /\ engines'[e].current_wave = IF has_unfinished_global THEN engines[e].current_wave
                                           ELSE engines[e].current_wave + 1
             /\ engines'[e].engines_running = has_unfinished_global
  <2>1. engines[e] \in EngineState /\ engines'[e] = after_sync(engines[e])
    BY <1>1 DEF Typed
  <2>2. engines[e].current_wave \in Nat
    BY <2>1 DEF EngineState
  <2> QED
    BY <2>1, <2>2, AfterSyncKeeps
<1>3. \A c \in Client : Heard(c)'
  BY <1>1, HeardFrame DEF KnownInv
<1>4. CASE has_unfinished_global
  <2>1. RanksGoOn
    BY <1>2, <1>4, ZenonT(90) DEF RanksGoOn
  <2> QED
    BY <1>1, <1>3, <1>4, <2>1, RanksFrame DEF KnownInv
<1>5. CASE ~ has_unfinished_global
  <2>1. done \in Output /\ done.type = "wave_complete" /\ done.wave = engines[0].current_wave
    BY <1>2, TwoRanks DEF Output
  <2> HIDE DEF done
  <2>2. /\ outputs'[0] = Append(outputs[0], done)
        /\ \A f \in Engine : f # 0 => outputs'[f] = outputs[f]
    BY <1>1, <1>5, TwoRanks DEF Typed
  <2>3. Elements(outputs'[0]) = Elements(outputs[0]) \cup {done}
    BY <2>1, <2>2, TwoRanks, AppendElements DEF Typed
  <2>4. CompletionSent'
    BY <1>2, <1>5, <2>1, <2>3, TwoRanks DEF CompletionSent
  <2>5. StartersRun'
    <3> SUFFICES ASSUME NEW e \in Engine, NEW m \in Elements(outputs'[e]), m.type = "start_wave"
                 PROVE  m.wave # engines'[e].current_wave
      BY DEF StartersRun
    <3>1. m \in Elements(outputs[e])
      <4>1. CASE e = 0
        BY <2>1, <2>3, <4>1
      <4>2. CASE e # 0
        BY <2>2, <4>2
      <4> QED
        BY <4>1, <4>2
    <3>2. m \in Output /\ m.wave <= engines[e].current_wave
      BY <3>1, ElementTyped DEF Typed, WavesBounded
    <3> QED
      BY <1>2, <1>5, <3>2 DEF Output
  <2>6. SomeRankRuns'
    <3>1. coordinator.current_wave \in Nat /\ coordinator.current_wave <= engines[0].current_wave
      BY TwoRanks DEF Typed, View, WavesBounded, WavesOrdered
    <3>2. coordinator'.current_wave # engines'[0].current_wave
      BY <1>1, <1>2, <1>5, <3>1, TwoRanks
    <3> QED
      BY <3>2 DEF SomeRankRuns
  <2> QED
    BY <1>3, <2>4, <2>5, <2>6 DEF KnownInv
<1> QED
  BY <1>4, <1>5

\* Every step preserves what is known of the waves.
LEMMA NextKnown == DPInv /\ KnownInv /\ [Next]_vars => KnownInv'
<1> SUFFICES ASSUME DPInv, KnownInv, [Next]_vars PROVE KnownInv'
  OBVIOUS
<1>1. CASE UNCHANGED vars
  <2>1. RanksGoOn
    BY <1>1 DEF vars, RanksGoOn
  <2> QED
    BY <1>1, <2>1, HeardFrame, RanksFrame DEF vars, KnownInv
<1>2. CASE Next
  <2>1. Typed
    BY DEF DPInv
  <2> QED
    BY <1>2, <2>1, FrontEndKnown, NotifyCoordinatorKnown, ReadPublishedKnown, FrontMessageKnown,
       HandleInputKnown, EngineOutputKnown, HandleStartWaveKnown, LoopStepKnown,
       PublishCountsKnown, SyncCompletesKnown
       DEF Next
<1> QED
  BY <1>1, <1>2

\* Whatever the number of ranks, front-ends, requests and pauses, and whichever
\* messages are delayed: once the ranks are idle and all messages have been taken,
\* the coordinator and every front-end know that the engines are paused, unless a
\* paused rank ignored a START_DP_WAVE.
THEOREM PauseIsKnown == Spec => []PausedKnown
<1>1. DPInv /\ KnownInv => PausedKnown
  <2> SUFFICES ASSUME DPInv, KnownInv, Quiet, "ignored" \notin slips
               PROVE  /\ ~ coordinator.engines_running
                      /\ \A c \in Client : clients[c] = coordinator
    BY DEF PausedKnown
  <2>1. /\ 0 \in Engine /\ coordinator \in View
        /\ coordinator.current_wave \in Nat /\ engines[0].current_wave \in Nat
        /\ coordinator.current_wave <= engines[0].current_wave
    BY TwoRanks DEF DPInv, Typed, View, EngineState, WavesBounded, WavesOrdered
  <2>2. coordinator.current_wave = engines[0].current_wave
    <3>1. outputs[0] = <<>>
      BY <2>1, ZenonT(90) DEF Quiet
    <3>2. ~ coordinator.current_wave < engines[0].current_wave
      BY <3>1, EmptyElements DEF KnownInv, CompletionSent
    <3> QED
      BY <2>1, <3>2
  <2>3. \A e \in Engine : ~ Woken(e)
    BY EmptyElements DEF Quiet, Woken, has_work
  <2>4. ~ coordinator.engines_running
    BY <2>2, <2>3 DEF KnownInv, SomeRankRuns
  <2>5. ASSUME NEW c \in Client PROVE clients[c] = coordinator
    <3>1. clients[c] \in View
      BY DEF DPInv, Typed
    <3>2. /\ clients[c].current_wave = coordinator.current_wave
          /\ clients[c].engines_running = coordinator.engines_running
      BY Zenon DEF Quiet, KnownInv, Heard
    <3> QED
      BY <2>1, <3>1, <3>2 DEF View
  <2> QED
    BY <2>4, <2>5
<1> QED
  BY <1>1, InitInv, NextInv, InitKnown, NextKnown, PTL DEF Spec
=============================================================================
