------------------------ MODULE DPWaves_step_proofs -------------------------
(***************************************************************************)
(* The inductive invariant of the data-parallel waves, that it holds       *)
(* initially, the facts its proof rests on, and that the steps of the      *)
(* front-ends, of the coordinator and of one rank alone preserve it.       *)
(***************************************************************************)
EXTENDS DPWaves, TLAPS

\* The provers of the leaves that name none, in the order they are tried.
USE SMTT(90), ZenonT(20), SMTT(91), SMTT(92)

-----------------------------------------------------------------------------
(* The inductive invariant. *)

View == [current_wave : Nat, engines_running : BOOLEAN]

EngineState ==
  [pc : {"input", "pass", "sync", "resume"}, current_wave : Nat,
   step_counter : 0 .. SyncInterval - 1, engines_running : BOOLEAN,
   pause_state : {"UNPAUSED", "PAUSED_NEW", "PAUSED_ALL"}, pending_pause : BOOLEAN,
   ignore_start_dp_wave : BOOLEAN, idle_state_callbacks : BOOLEAN,
   waiting : SUBSET Request, running : SUBSET Request]

RequestState ==
  [status : {"new", "sent", "finished", "dropped"}, client : Client \cup {None},
   engine : Engine \cup {None}, left : Int]

Message ==
  [type : {"ADD"}, request : Request, wave : Nat]
    \cup [type : {"ABORT"}, request : Request]
    \cup [type : {"PAUSE"}, mode : PauseMode] \cup [type : {"RESUME"}]

Notice == [engine : Engine, wave : Nat]
Start == [wave : Nat, exclude : Engine \cup {None}]
Output == [type : {"wave_complete", "start_wave"}, wave : Nat]

Typed ==
  /\ engines \in [Engine -> EngineState]
  /\ clients \in [Client -> View] /\ coordinator \in View
  /\ inputs \in [Client -> [Engine -> Seq(Message)]]
  /\ first_req \in [Client -> Seq(Engine)] /\ notices \in [Client -> Seq(Notice)]
  /\ start_waves \in [Engine -> Seq(Start)] /\ outputs \in [Engine -> Seq(Output)]
  /\ published \in [Client -> Seq(View)]
  /\ requests \in [Request -> RequestState]
  /\ \A r \in Request : requests[r].status = "sent" => requests[r].engine \in Engine
  /\ pause \in [state : {"none", "pausing", "resuming"}, replies : SUBSET Engine, calls : Nat]

\* No message is of a wave that its receiver does not know of yet.
WavesBounded ==
  /\ WavesOrdered
  /\ \A c \in Client : \A v \in Elements(published[c]) :
       v.current_wave <= coordinator.current_wave
  /\ \A c \in Client, e \in Engine : \A m \in Elements(inputs[c][e]) :
       m.type = "ADD" => m.wave <= coordinator.current_wave
  /\ \A e \in Engine : \A m \in Elements(start_waves[e]) :
       m.wave <= coordinator.current_wave
  /\ \A e \in Engine : \A m \in Elements(outputs[e]) :
       IF m.type = "wave_complete" THEN m.wave < engines[e].current_wave
                                   ELSE m.wave <= engines[e].current_wave

\* The ranks count their passes together.
InStep ==
  /\ \A e, f \in Engine : engines[e].step_counter = engines[f].step_counter
  /\ \A e, f \in Engine : engines[e].pc = "sync" => engines[f].pc = "sync"

IsCall(m) == m.type \in {"PAUSE", "RESUME"}
NoCall(q) == \A m \in Elements(q) : ~ IsCall(m)
OneCall(q) == \A i, j \in 1 .. Len(q) : IsCall(q[i]) /\ IsCall(q[j]) => i = j

\* A rank that completed its part of a pause: nothing but RESUME makes it run.
Stopped(e) ==
  /\ engines[e].pc = "input" /\ ~ engines[e].engines_running
  /\ engines[e].ignore_start_dp_wave
  /\ \/ engines[e].pause_state = "PAUSED_ALL"
     \/ engines[e].pause_state = "PAUSED_NEW" /\ engines[e].running = {}

\* A rank and the call that is on its way to it.
CallOf(e) ==
  /\ \A c \in Client : OneCall(inputs[c][e])
  /\ \A c, d \in Client : c = d \/ NoCall(inputs[c][e]) \/ NoCall(inputs[d][e])
  /\ \A c \in Client : \A m \in Elements(inputs[c][e]) :
       /\ m.type = "PAUSE" => /\ pause.state = "pausing" /\ e \notin pause.replies
                              /\ ~ engines[e].idle_state_callbacks
       /\ m.type = "RESUME" => pause.state = "resuming" /\ Stopped(e)

\* A rank and the phase of the pause that it is in.
PhaseOf(e) ==
  /\ engines[e].idle_state_callbacks =>
       /\ pause.state = "pausing" /\ e \notin pause.replies
       /\ engines[e].pause_state # "UNPAUSED"
       /\ engines[e].pending_pause \/ engines[e].ignore_start_dp_wave
  /\ engines[e].pending_pause => engines[e].engines_running
  /\ e \in pause.replies => pause.state = "pausing" /\ Stopped(e)
  /\ pause.state = "resuming" => Stopped(e) \/ engines[e].pc = "resume"
  /\ engines[e].pc = "resume" =>
       pause.state = "resuming" /\ \A c \in Client : NoCall(inputs[c][e])

PauseInOrder == \A e \in Engine : CallOf(e) /\ PhaseOf(e)

DPInv == Typed /\ WavesBounded /\ InStep /\ PauseInOrder

-----------------------------------------------------------------------------
(* Facts about queues. *)

\* What Append does to the members of a queue.
LEMMA AppendElements ==
  ASSUME NEW S, NEW q \in Seq(S), NEW x \in S
  PROVE  Append(q, x) \in Seq(S) /\ Elements(Append(q, x)) = Elements(q) \cup {x}
BY DEF Elements

\* The same of Head and Tail.
LEMMA TailElements ==
  ASSUME NEW S, NEW q \in Seq(S), q # <<>>
  PROVE  /\ Tail(q) \in Seq(S) /\ Head(q) \in S /\ Head(q) \in Elements(q)
         /\ Elements(Tail(q)) \subseteq Elements(q)
BY DEF Elements

\* The same of SubSeq.
LEMMA SuffixElements ==
  ASSUME NEW S, NEW q \in Seq(S), NEW n \in 1 .. Len(q)
  PROVE  /\ q[n] \in S /\ q[n] \in Elements(q)
         /\ SubSeq(q, n + 1, Len(q)) \in Seq(S)
         /\ Elements(SubSeq(q, n + 1, Len(q))) \subseteq Elements(q)
BY DEF Elements

\* The members of a queue are of its type.
LEMMA ElementTyped ==
  ASSUME NEW S, NEW q \in Seq(S), NEW x \in Elements(q)
  PROVE  x \in S
BY DEF Elements

\* The fields that a message has, by its type.
LEMMA MessageFields ==
  ASSUME NEW m \in Message
  PROVE  /\ m.type \in {"ADD", "ABORT", "PAUSE", "RESUME"}
         /\ m.type = "ADD" => m.request \in Request /\ m.wave \in Nat
         /\ m.type = "ABORT" => m.request \in Request
         /\ m.type = "PAUSE" => m.mode \in PauseMode
BY DEF Message

\* The empty queue.
LEMMA EmptyElements ==
  ASSUME NEW S
  PROVE  <<>> \in Seq(S) /\ Elements(<<>>) = {} /\ OneCall(<<>>)
BY DEF Elements, OneCall

\* A call appended to a queue without one is its only call.
LEMMA OneCallAppend ==
  ASSUME NEW S, NEW q \in Seq(S), NEW x \in S, OneCall(q), NoCall(q) \/ ~ IsCall(x)
  PROVE  OneCall(Append(q, x))
BY DEF OneCall, NoCall, Elements

\* Taking the only call leaves a queue without one.
LEMMA OneCallTail ==
  ASSUME NEW S, NEW q \in Seq(S), q # <<>>, OneCall(q)
  PROVE  OneCall(Tail(q)) /\ (IsCall(Head(q)) => NoCall(Tail(q)))
BY DEF OneCall, NoCall, Elements

-----------------------------------------------------------------------------
(* The initial states. *)

\* All processes start in wave 0, idle and unpaused, with empty queues.
LEMMA InitInv == Init => DPInv
<1> SUFFICES ASSUME Init PROVE DPInv
  OBVIOUS
<1>1. Typed
  BY DPAssumption DEF Init, Typed, EngineState, View, RequestState, None, Engine
<1>2. WavesBounded
  BY EmptyElements DEF Init, WavesBounded, WavesOrdered
<1>3. InStep
  BY DEF Init, InStep
<1>4. PauseInOrder
  BY EmptyElements DEF Init, PauseInOrder, CallOf, PhaseOf, NoCall
<1> QED
  BY <1>1, <1>2, <1>3, <1>4 DEF DPInv

-----------------------------------------------------------------------------
(* What a step leaves alone. *)

\* A step that leaves a rank in the phase of the pause that it is in.
KeepsPhase(e) ==
  /\ engines'[e].idle_state_callbacks = engines[e].idle_state_callbacks
  /\ engines'[e].pause_state = engines[e].pause_state
  /\ engines'[e].pending_pause = engines[e].pending_pause
  /\ engines'[e].ignore_start_dp_wave = engines[e].ignore_start_dp_wave
  /\ engines[e].engines_running => engines'[e].engines_running
  /\ engines'[e].pc = "resume" <=> engines[e].pc = "resume"
  /\ Stopped(e) => Stopped(e)'

\* A step that puts no call into the queues of a rank.
AddsNoCall(e) ==
  \A c \in Client : /\ OneCall(inputs'[c][e])
                     /\ \A m \in Elements(inputs'[c][e]) : IsCall(m) => m \in Elements(inputs[c][e])

\* A step that keeps every rank's phase and adds no call keeps the pause in order.
LEMMA PauseFrame ==
  ASSUME PauseInOrder, pause' = pause, \A e \in Engine : KeepsPhase(e) /\ AddsNoCall(e)
  PROVE  PauseInOrder'
<1> SUFFICES ASSUME NEW e \in Engine PROVE CallOf(e)' /\ PhaseOf(e)'
  BY DEF PauseInOrder
<1>1. KeepsPhase(e) /\ AddsNoCall(e) /\ CallOf(e) /\ PhaseOf(e)
  BY DEF PauseInOrder
<1>2. \A c \in Client : NoCall(inputs[c][e]) => NoCall(inputs'[c][e])
  BY <1>1 DEF AddsNoCall, NoCall
<1>3. CallOf(e)'
  BY <1>1, <1>2 DEF CallOf, KeepsPhase, AddsNoCall, IsCall
<1>4. PhaseOf(e)'
  BY <1>1, <1>2 DEF PhaseOf, KeepsPhase
<1> QED
  BY <1>3, <1>4

\* A rank that does not change keeps its phase.
LEMMA UnchangedKeepsPhase ==
  ASSUME NEW e \in Engine, engines'[e] = engines[e]
  PROVE  KeepsPhase(e)
BY DEF KeepsPhase, Stopped

\* A rank that another rank's step leaves alone.
LEMMA OtherRank ==
  ASSUME PauseInOrder, NEW e \in Engine, engines'[e] = engines[e],
         \A c \in Client : inputs'[c][e] = inputs[c][e],
         pause'.state = pause.state, e \in pause'.replies <=> e \in pause.replies
  PROVE  CallOf(e)' /\ PhaseOf(e)'
<1>1. CallOf(e) /\ PhaseOf(e) /\ (Stopped(e) <=> Stopped(e)')
  BY DEF PauseInOrder, Stopped
<1>2. CallOf(e)'
  BY <1>1 DEF CallOf
<1>3. PhaseOf(e)'
  BY <1>1 DEF PhaseOf
<1> QED
  BY <1>2, <1>3

\* A step that changes neither the ranks, nor their queues, nor the pause.
LEMMA OutsideFrame ==
  ASSUME InStep, PauseInOrder, UNCHANGED <<engines, inputs, pause>>
  PROVE  InStep' /\ PauseInOrder'
<1>1. InStep'
  BY DEF InStep
<1>2. PauseInOrder'
  BY PauseFrame, UnchangedKeepsPhase DEF AddsNoCall, PauseInOrder, CallOf
<1> QED
  BY <1>1, <1>2

\* A step that leaves the waves of the ranks alone and sends nothing new.
LEMMA WavesFrame ==
  ASSUME WavesBounded, \A e \in Engine : engines'[e].current_wave = engines[e].current_wave,
         \A c \in Client, e \in Engine : Elements(inputs'[c][e]) \subseteq Elements(inputs[c][e]),
         \A e \in Engine : Elements(start_waves'[e]) \subseteq Elements(start_waves[e]),
         UNCHANGED <<clients, coordinator, outputs, published>>
  PROVE  WavesBounded'
<1>1. WavesOrdered'
  BY Zenon DEF WavesBounded, WavesOrdered
<1>2. \A c \in Client, e \in Engine : \A m \in Elements(inputs'[c][e]) :
        m.type = "ADD" => m.wave <= coordinator.current_wave
  BY DEF WavesBounded
<1> QED
  BY <1>1, <1>2 DEF WavesBounded

\* A step of one rank that is not in an all-reduce and does not enter one.
LEMMA InStepFrame ==
  ASSUME InStep, Typed, NEW e \in Engine, NEW new,
         engines' = [engines EXCEPT ![e] = new], engines[e].pc # "sync", new.pc # "sync",
         new.step_counter = engines[e].step_counter
  PROVE  InStep'
<1>1. \A f \in Engine : engines[f].pc # "sync"
  BY DEF InStep
<1>2. \A f \in Engine : /\ engines'[f].pc # "sync"
                        /\ engines'[f].step_counter = engines[f].step_counter
  BY <1>1 DEF Typed
<1> QED
  BY <1>2 DEF InStep

\* A request that is dropped keeps the type of the requests.
LEMMA RequestDropped ==
  ASSUME Typed, NEW r \in Request, requests' = [requests EXCEPT ![r].status = "dropped"]
  PROVE  /\ requests' \in [Request -> RequestState]
         /\ \A x \in Request : requests'[x].status = "sent" => requests'[x].engine \in Engine
<1> DEFINE dropped == [requests[r] EXCEPT !.status = "dropped"]
<1>1. requests' = [requests EXCEPT ![r] = dropped]
  BY DEF Typed
<1>2. dropped \in RequestState /\ dropped.status = "dropped"
  BY ZenonT(90) DEF Typed, RequestState
<1> HIDE DEF dropped
<1> QED
  BY <1>1, <1>2, ZenonT(90) DEF Typed

-----------------------------------------------------------------------------
(* The steps of the front-ends. *)

\* add_request_async: the request bears the wave that the front-end believes in,
\* which is no later than the coordinator's.
LEMMA AddRequestStep ==
  ASSUME DPInv, NEW c \in Client, NEW r \in Request, NEW e \in Engine, AddRequest(c, r, e)
  PROVE  DPInv'
<1> DEFINE m == [type |-> "ADD", request |-> r, wave |-> clients[c].current_wave]
<1> USE DEF DPInv
<1>1. m \in Message /\ ~ IsCall(m) /\ m.type = "ADD" /\ m.wave <= coordinator.current_wave
  BY DEF Typed, View, Message, IsCall, WavesBounded, WavesOrdered
<1>2. inputs' = [inputs EXCEPT ![c][e] = Append(@, m)]
  BY DEF AddRequest
<1>3. /\ inputs[c][e] \in Seq(Message) /\ Append(inputs[c][e], m) \in Seq(Message)
      /\ Elements(Append(inputs[c][e], m)) = Elements(inputs[c][e]) \cup {m}
  BY <1>1, AppendElements DEF Typed
<1> HIDE DEF m
<1>4. Typed'
  <2>1. inputs' \in [Client -> [Engine -> Seq(Message)]]
    BY <1>2, <1>3 DEF Typed
  <2>2. first_req' \in [Client -> Seq(Engine)]
    BY AppendElements DEF AddRequest, Typed
  <2> DEFINE sent == [requests[r] EXCEPT !.status = "sent", !.client = c, !.engine = e]
  <2>a. requests' = [requests EXCEPT ![r] = sent]
    BY Zenon DEF AddRequest, Typed
  <2>b. sent \in RequestState /\ sent.engine \in Engine
    BY ZenonT(90) DEF Typed, RequestState
  <2> HIDE DEF sent
  <2>3. requests' \in [Request -> RequestState]
    BY <2>a, <2>b DEF Typed
  <2>4. \A x \in Request : requests'[x].status = "sent" => requests'[x].engine \in Engine
    BY <2>a, <2>b DEF Typed
  <2> QED
    BY <2>1, <2>2, <2>3, <2>4 DEF AddRequest, Typed
<1>5. WavesBounded'
  BY <1>1, <1>2, <1>3 DEF AddRequest, WavesBounded, WavesOrdered, Typed
<1>6. InStep'
  BY DEF AddRequest, InStep
<1>7. PauseInOrder'
  <2>1. \A x \in Engine : KeepsPhase(x)
    BY UnchangedKeepsPhase DEF AddRequest
  <2>2. \A x \in Engine : AddsNoCall(x)
    BY <1>1, <1>2, <1>3, OneCallAppend, Zenon DEF AddsNoCall, PauseInOrder, CallOf, Typed
  <2> QED
    BY <2>1, <2>2, PauseFrame DEF AddRequest
<1> QED
  BY <1>4, <1>5, <1>6, <1>7

\* abort_requests_async: the message bears no wave and is no call.
LEMMA AbortRequestStep ==
  ASSUME DPInv, NEW c \in Client, NEW r \in Request, AbortRequest(c, r)
  PROVE  DPInv'
<1> DEFINE m == [type |-> "ABORT", request |-> r]
           e == requests[r].engine
<1> USE DEF DPInv
<1>1. e \in Engine /\ m \in Message /\ m.type = "ABORT" /\ ~ IsCall(m)
  BY DEF AbortRequest, Typed, Message, IsCall
<1>2. inputs' = [inputs EXCEPT ![c][e] = Append(@, m)]
  BY DEF AbortRequest
<1>3. /\ inputs[c][e] \in Seq(Message) /\ Append(inputs[c][e], m) \in Seq(Message)
      /\ Elements(Append(inputs[c][e], m)) = Elements(inputs[c][e]) \cup {m}
  BY <1>1, AppendElements DEF Typed
<1> HIDE DEF m, e
<1>4. Typed'
  <2>1. inputs' \in [Client -> [Engine -> Seq(Message)]]
    BY <1>1, <1>2, <1>3 DEF Typed
  <2>2. /\ requests' \in [Request -> RequestState]
        /\ \A x \in Request : requests'[x].status = "sent" => requests'[x].engine \in Engine
    BY RequestDropped, Zenon DEF AbortRequest
  <2> QED
    BY <2>1, <2>2 DEF AbortRequest, Typed
<1>5. WavesBounded'
  <2>1. \A x \in Client, y \in Engine :
          Elements(inputs'[x][y]) \subseteq Elements(inputs[x][y]) \cup {m}
    BY <1>1, <1>2, <1>3 DEF Typed
  <2>2. \A x \in Client, y \in Engine : \A k \in Elements(inputs'[x][y]) :
          k.type = "ADD" => k.wave <= coordinator.current_wave
    BY <1>1, <2>1 DEF WavesBounded
  <2> QED
    BY <2>2 DEF AbortRequest, WavesBounded, WavesOrdered
<1>6. InStep'
  BY DEF AbortRequest, InStep
<1>7. PauseInOrder'
  <2>1. \A x \in Engine : KeepsPhase(x)
    BY UnchangedKeepsPhase DEF AbortRequest
  <2>2. \A x \in Engine : AddsNoCall(x)
    BY <1>1, <1>2, <1>3, OneCallAppend DEF AddsNoCall, PauseInOrder, CallOf, Typed
  <2> QED
    BY <2>1, <2>2, PauseFrame DEF AbortRequest
<1> QED
  BY <1>4, <1>5, <1>6, <1>7

\* The stats task forwards FIRST_REQ: only a belief of its front-end changes.
LEMMA NotifyCoordinatorStep ==
  ASSUME DPInv, NEW c \in Client, NotifyCoordinator(c)
  PROVE  DPInv'
<1> USE DEF DPInv
<1>1. /\ Tail(first_req[c]) \in Seq(Engine)
      /\ [engine |-> Head(first_req[c]), wave |-> clients[c].current_wave] \in Notice
  BY TailElements DEF NotifyCoordinator, Typed, Notice, View
<1>2. Typed'
  BY <1>1, AppendElements, Zenon DEF NotifyCoordinator, Typed, View
<1>3. WavesBounded'
  BY DEF NotifyCoordinator, WavesBounded, WavesOrdered, Typed, View
<1> QED
  BY <1>2, <1>3, OutsideFrame DEF NotifyCoordinator

\* The stats task takes over a published state, of a wave of the coordinator's.
LEMMA ReadPublishedStep ==
  ASSUME DPInv, NEW c \in Client, ReadPublished(c)
  PROVE  DPInv'
<1> USE DEF DPInv
<1>1. PICK n \in 1 .. Len(published[c]) :
        /\ clients' = [clients EXCEPT ![c] = published[c][n]]
        /\ published' = [published EXCEPT ![c] = SubSeq(@, n + 1, Len(@))]
  BY Zenon DEF ReadPublished
<1>2. /\ published[c][n] \in View /\ published[c][n] \in Elements(published[c])
      /\ SubSeq(published[c], n + 1, Len(published[c])) \in Seq(View)
      /\ Elements(SubSeq(published[c], n + 1, Len(published[c]))) \subseteq Elements(published[c])
  BY SuffixElements DEF Typed
<1>3. Typed'
  BY <1>1, <1>2, Zenon DEF ReadPublished, Typed
<1>4. WavesBounded'
  <2>1. \A d \in Client : clients'[d].current_wave <= coordinator.current_wave
    BY <1>1, <1>2 DEF WavesBounded, WavesOrdered, Typed
  <2>2. \A d \in Client : Elements(published'[d]) \subseteq Elements(published[d])
    BY <1>1, <1>2 DEF Typed
  <2> QED
    BY <2>1, <2>2, ZenonT(90) DEF ReadPublished, WavesBounded, WavesOrdered
<1> QED
  BY <1>3, <1>4, OutsideFrame DEF ReadPublished

\* A utility call goes to every rank, after what the front-end sent before.
LEMMA CallAllQueues ==
  ASSUME Typed, NEW c \in Client, NEW m \in Message, IsCall(m), CallAll(c, m)
  PROVE  /\ inputs' \in [Client -> [Engine -> Seq(Message)]]
         /\ \A e \in Engine : /\ inputs'[c][e] = Append(inputs[c][e], m)
                              /\ Elements(inputs'[c][e]) = Elements(inputs[c][e]) \cup {m}
         /\ \A d \in Client \ {c} : inputs'[d] = inputs[d]
         /\ \A d \in Client, e \in Engine : \A k \in Elements(inputs'[d][e]) :
              k \in Elements(inputs[d][e]) \/ k = m
<1>1. \A e \in Engine : /\ Append(inputs[c][e], m) \in Seq(Message)
                        /\ Elements(Append(inputs[c][e], m)) = Elements(inputs[c][e]) \cup {m}
  BY AppendElements DEF Typed
<1>2. inputs' = [inputs EXCEPT ![c] = [e \in Engine |-> Append(inputs[c][e], m)]]
  BY DEF CallAll
<1>3. inputs'[c] = [e \in Engine |-> Append(inputs[c][e], m)]
  BY <1>2 DEF Typed
<1>4. \A d \in Client \ {c} : inputs'[d] = inputs[d]
  BY <1>2 DEF Typed
<1>5. inputs' \in [Client -> [Engine -> Seq(Message)]]
  BY <1>1, <1>2 DEF Typed
<1>6. \A e \in Engine : /\ inputs'[c][e] = Append(inputs[c][e], m)
                        /\ Elements(inputs'[c][e]) = Elements(inputs[c][e]) \cup {m}
  BY <1>1, <1>3, ZenonT(90)
<1> QED
  BY <1>4, <1>5, <1>6, ZenonT(90)

\* It bears no wave.
LEMMA CallAllWaves ==
  ASSUME Typed, WavesBounded, NEW c \in Client, NEW m \in Message, IsCall(m), CallAll(c, m),
         UNCHANGED <<engines, clients, coordinator, start_waves, outputs, published>>
  PROVE  WavesBounded'
<1>1. \A x \in Client, y \in Engine : \A k \in Elements(inputs'[x][y]) :
        k.type = "ADD" => k.wave <= coordinator.current_wave
  <2> TAKE x \in Client, y \in Engine
  <2> TAKE k \in Elements(inputs'[x][y])
  <2>1. k \in Elements(inputs[x][y]) \/ k = m
    BY CallAllQueues, Zenon
  <2> QED
    BY <2>1 DEF WavesBounded, IsCall
<1> QED
  BY <1>1 DEF WavesBounded, WavesOrdered

\* It is the only call in the queues of the ranks that had none.
LEMMA CallAllCalls ==
  ASSUME Typed, NEW c \in Client, NEW m \in Message, IsCall(m), CallAll(c, m), NEW e \in Engine,
         \A d \in Client : OneCall(inputs[d][e]) /\ NoCall(inputs[d][e])
  PROVE  /\ \A d \in Client : OneCall(inputs'[d][e])
         /\ \A d \in Client \ {c} : NoCall(inputs'[d][e])
         /\ \A d \in Client : \A k \in Elements(inputs'[d][e]) : IsCall(k) => k = m
<1>1. inputs'[c][e] = Append(inputs[c][e], m) /\ inputs[c][e] \in Seq(Message)
  BY CallAllQueues DEF Typed
<1>2. OneCall(inputs'[c][e])
  BY <1>1, OneCallAppend
<1>3. \A d \in Client \ {c} : inputs'[d] = inputs[d]
  BY CallAllQueues
<1>4. ASSUME NEW d \in Client, NEW k \in Elements(inputs'[d][e]), IsCall(k) PROVE k = m
  <2>1. k \in Elements(inputs[d][e]) \/ k = m
    BY CallAllQueues, Zenon
  <2> QED
    BY <1>4, <2>1 DEF NoCall
<1> QED
  BY <1>2, <1>3, <1>4

\* pause_scheduler is called when no other call is under way, so the PAUSE of each
\* rank is the only call in its queues.
LEMMA PauseSchedulerStep ==
  ASSUME DPInv, NEW c \in Client, NEW mode \in PauseMode, PauseScheduler(c, mode)
  PROVE  DPInv'
<1> DEFINE m == [type |-> "PAUSE", mode |-> mode]
<1> USE DEF DPInv
<1>1. m \in Message /\ IsCall(m) /\ m.type = "PAUSE" /\ CallAll(c, m)
  BY DEF Message, IsCall, PauseScheduler
<1> HIDE DEF m
<1>2. pause.state = "none" /\ pause'.state = "pausing" /\ pause'.replies = pause.replies
  BY DEF PauseScheduler, Typed
<1>3. Typed'
  <2>1. pause' \in [state : {"none", "pausing", "resuming"}, replies : SUBSET Engine, calls : Nat]
    <3>1. pause' = [pause EXCEPT !.state = "pausing", !.calls = @ + 1]
      BY DEF PauseScheduler
    <3>2. pause \in [state : {"none", "pausing", "resuming"}, replies : SUBSET Engine, calls : Nat]
      BY DEF Typed
    <3>3. pause.calls + 1 \in Nat
      BY <3>2
    <3> QED
      BY <3>1, <3>2, <3>3, Zenon
  <2> QED
    BY <1>1, <2>1, CallAllQueues DEF PauseScheduler, Typed
<1>4. WavesBounded'
  BY <1>1, CallAllWaves DEF PauseScheduler
<1>5. InStep'
  BY DEF PauseScheduler, InStep
<1>6. PauseInOrder'
  <2> SUFFICES ASSUME NEW e \in Engine PROVE CallOf(e)' /\ PhaseOf(e)'
    BY DEF PauseInOrder
  <2>1. /\ CallOf(e) /\ PhaseOf(e) /\ engines'[e] = engines[e]
        /\ e \notin pause.replies /\ ~ engines[e].idle_state_callbacks
        /\ engines[e].pc # "resume" /\ \A d \in Client : NoCall(inputs[d][e])
    BY <1>2 DEF PauseInOrder, CallOf, PhaseOf, PauseScheduler, NoCall, IsCall
  <2>2. /\ \A d \in Client : OneCall(inputs'[d][e])
        /\ \A d \in Client \ {c} : NoCall(inputs'[d][e])
        /\ \A d \in Client : \A k \in Elements(inputs'[d][e]) : IsCall(k) => k = m
    BY <1>1, <2>1, CallAllCalls DEF CallOf
  <2>3. CallOf(e)'
    BY <1>1, <1>2, <2>1, <2>2 DEF CallOf, IsCall
  <2>4. PhaseOf(e)'
    BY <1>2, <2>1 DEF PhaseOf
  <2> QED
    BY <2>3, <2>4
<1> QED
  BY <1>3, <1>4, <1>5, <1>6

\* resume_scheduler is called when all ranks replied to the pause, so RESUME finds
\* each of them stopped.
LEMMA ResumeSchedulerStep ==
  ASSUME DPInv, NEW c \in Client, ResumeScheduler(c)
  PROVE  DPInv'
<1> DEFINE m == [type |-> "RESUME"]
<1> USE DEF DPInv
<1>1. m \in Message /\ IsCall(m) /\ m.type = "RESUME" /\ CallAll(c, m)
  BY DEF Message, IsCall, ResumeScheduler
<1> HIDE DEF m
<1>2. /\ pause.state = "pausing" /\ pause.replies = Engine
      /\ pause'.state = "resuming" /\ pause'.replies = {}
  BY DEF ResumeScheduler, Typed
<1>3. Typed'
  <2>1. pause' \in [state : {"none", "pausing", "resuming"}, replies : SUBSET Engine, calls : Nat]
    BY Zenon DEF ResumeScheduler, Typed
  <2> QED
    BY <1>1, <2>1, CallAllQueues DEF ResumeScheduler, Typed
<1>4. WavesBounded'
  BY <1>1, CallAllWaves DEF ResumeScheduler
<1>5. InStep'
  BY DEF ResumeScheduler, InStep
<1>6. PauseInOrder'
  <2> SUFFICES ASSUME NEW e \in Engine PROVE CallOf(e)' /\ PhaseOf(e)'
    BY DEF PauseInOrder
  <2>1. /\ CallOf(e) /\ PhaseOf(e) /\ engines'[e] = engines[e] /\ Stopped(e)
        /\ ~ engines[e].idle_state_callbacks
        /\ engines[e].pc # "resume" /\ \A d \in Client : NoCall(inputs[d][e])
    BY <1>2 DEF PauseInOrder, CallOf, PhaseOf, ResumeScheduler, NoCall, IsCall, Stopped
  <2>2. /\ \A d \in Client : OneCall(inputs'[d][e])
        /\ \A d \in Client \ {c} : NoCall(inputs'[d][e])
        /\ \A d \in Client : \A k \in Elements(inputs'[d][e]) : IsCall(k) => k = m
    BY <1>1, <2>1, CallAllCalls DEF CallOf
  <2>3. Stopped(e)'
    BY <2>1 DEF Stopped
  <2>4. CallOf(e)'
    BY <1>1, <1>2, <2>1, <2>2, <2>3 DEF CallOf, IsCall
  <2>5. PhaseOf(e)'
    BY <1>2, <2>1, <2>3 DEF PhaseOf
  <2> QED
    BY <2>4, <2>5
<1> QED
  BY <1>3, <1>4, <1>5, <1>6

-----------------------------------------------------------------------------
(* The steps of the coordinator. *)

\* What is published is the state it is called with.
LEMMA PublishQueues ==
  ASSUME Typed, NEW v \in View, Publish(v)
  PROVE  /\ published' \in [Client -> Seq(View)]
         /\ \A c \in Client : \A k \in Elements(published'[c]) :
              k \in Elements(published[c]) \/ k = v
<1>1. \A c \in Client : /\ Append(published[c], v) \in Seq(View)
                        /\ Elements(Append(published[c], v)) = Elements(published[c]) \cup {v}
  BY AppendElements DEF Typed
<1>2. published' = [c \in Client |-> Append(published[c], v)]
  BY DEF Publish
<1> QED
  BY <1>1, <1>2, Zenon

\* _send_start_wave sends its wave to every rank.
LEMMA StartWaveQueues ==
  ASSUME Typed, NEW wave \in Nat, NEW x \in Engine \cup {None}, send_start_wave(wave, x)
  PROVE  /\ start_waves' \in [Engine -> Seq(Start)]
         /\ \A e \in Engine : \A k \in Elements(start_waves'[e]) :
              k \in Elements(start_waves[e]) \/ k.wave = wave
<1> DEFINE m == [wave |-> wave, exclude |-> x]
<1>1. m \in Start /\ m.wave = wave
  BY DEF Start
<1>2. start_waves' = [e \in Engine |-> Append(start_waves[e], m)]
  BY DEF send_start_wave
<1> HIDE DEF m
<1>3. \A e \in Engine : /\ Append(start_waves[e], m) \in Seq(Start)
                        /\ Elements(Append(start_waves[e], m)) = Elements(start_waves[e]) \cup {m}
  BY <1>1, AppendElements DEF Typed
<1> QED
  BY <1>1, <1>2, <1>3, Zenon

\* The coordinator moves to a wave of the ranks, no older than its own.
LEMMA CoordinatorFrame ==
  ASSUME WavesBounded, Typed, coordinator' \in View,
         coordinator.current_wave <= coordinator'.current_wave,
         \A e \in Engine : coordinator'.current_wave <= engines[e].current_wave,
         \A c \in Client : \A k \in Elements(published'[c]) :
           k \in Elements(published[c]) \/ k = coordinator',
         \A e \in Engine : \A k \in Elements(start_waves'[e]) :
           k \in Elements(start_waves[e]) \/ k.wave = coordinator'.current_wave,
         \A e \in Engine : Elements(outputs'[e]) \subseteq Elements(outputs[e]),
         UNCHANGED <<engines, clients, inputs>>
  PROVE  WavesBounded'
<1> DEFINE old == coordinator.current_wave
           new == coordinator'.current_wave
<1>1. old \in Nat /\ new \in Nat
  BY DEF Typed, View
<1>2. WavesOrdered'
  BY <1>1 DEF WavesBounded, WavesOrdered, Typed, View
<1>3. \A c \in Client : \A k \in Elements(published'[c]) : k.current_wave <= new
  <2> SUFFICES ASSUME NEW c \in Client, NEW k \in Elements(published'[c])
               PROVE  k.current_wave <= new
    OBVIOUS
  <2>1. CASE k = coordinator'
    BY <1>1, <2>1
  <2>2. CASE k \in Elements(published[c])
    <3>1. k \in View
      BY <2>2, ElementTyped DEF Typed
    <3> QED
      BY <1>1, <2>2, <3>1 DEF WavesBounded, View
  <2> QED
    BY <2>1, <2>2
<1>4. \A c \in Client, e \in Engine : \A m \in Elements(inputs[c][e]) :
        m.type = "ADD" => m.wave <= new
  <2> SUFFICES ASSUME NEW c \in Client, NEW e \in Engine, NEW m \in Elements(inputs[c][e]),
                      m.type = "ADD"
               PROVE  m.wave <= new
    OBVIOUS
  <2>1. m \in Message
    BY DEF Typed, Elements
  <2> QED
    BY <1>1, <2>1, MessageFields DEF WavesBounded
<1>5. \A e \in Engine : \A k \in Elements(start_waves'[e]) : k.wave <= new
  <2> SUFFICES ASSUME NEW e \in Engine, NEW k \in Elements(start_waves'[e])
               PROVE  k.wave <= new
    OBVIOUS
  <2>1. CASE k.wave = new
    BY <1>1, <2>1
  <2>2. CASE k \in Elements(start_waves[e])
    <3>1. k \in Start
      BY <2>2, ElementTyped DEF Typed
    <3> QED
      BY <1>1, <2>2, <3>1 DEF WavesBounded, Start
  <2> QED
    BY <2>1, <2>2
<1> QED
  BY <1>2, <1>3, <1>4, <1>5 DEF WavesBounded

\* A FIRST_REQ wakes the ranks in the wave that the coordinator is in.
LEMMA FrontMessageStep ==
  ASSUME DPInv, NEW c \in Client, FrontMessage(c)
  PROVE  DPInv'
<1> USE DEF DPInv
<1> DEFINE notice == Head(notices[c])
           exclude == IF notice.wave < coordinator.current_wave THEN None ELSE notice.engine
<1>1. /\ notices' = [notices EXCEPT ![c] = Tail(@)] /\ notices[c] # <<>>
      /\ UNCHANGED <<engines, clients, inputs, first_req, outputs, requests, pause, slips>>
  BY DEF FrontMessage
<1>2. notices' \in [Client -> Seq(Notice)] /\ exclude \in Engine \cup {None}
  <2>1. Tail(notices[c]) \in Seq(Notice) /\ notice \in Notice
    BY <1>1, TailElements DEF Typed
  <2> HIDE DEF notice
  <2>2. exclude \in Engine \cup {None}
    BY <2>1 DEF Notice
  <2> QED
    BY <1>1, <2>1, <2>2 DEF Typed
<1>3. CASE coordinator.engines_running
  <2>1. UNCHANGED <<coordinator, start_waves, published>>
    BY <1>3 DEF FrontMessage
  <2>2. Typed' /\ WavesBounded'
    BY <1>1, <1>2, <2>1, Zenon DEF Typed, WavesBounded, WavesOrdered
  <2> QED
    BY <1>1, <2>2, OutsideFrame
<1>4. CASE ~ coordinator.engines_running
  <2>1. /\ coordinator' = [coordinator EXCEPT !.engines_running = TRUE]
        /\ send_start_wave(coordinator.current_wave, exclude) /\ Publish(coordinator')
    BY <1>4 DEF FrontMessage
  <2>2. /\ coordinator' \in View /\ coordinator.current_wave \in Nat
        /\ coordinator'.current_wave = coordinator.current_wave
    BY <2>1, Zenon DEF Typed, View
  <2> HIDE DEF exclude
  <2>3. Typed'
    BY <1>1, <1>2, <2>1, <2>2, PublishQueues, StartWaveQueues DEF Typed
  <2>4. WavesBounded'
    <3>1. \A e \in Engine : coordinator'.current_wave <= engines[e].current_wave
      BY <2>2 DEF WavesBounded, WavesOrdered
    <3>2. /\ \A d \in Client : \A k \in Elements(published'[d]) :
               k \in Elements(published[d]) \/ k = coordinator'
          /\ \A e \in Engine : \A k \in Elements(start_waves'[e]) :
               k \in Elements(start_waves[e]) \/ k.wave = coordinator'.current_wave
      BY <1>2, <2>1, <2>2, PublishQueues, StartWaveQueues, ZenonT(90)
    <3> QED
      BY <1>1, <2>2, <3>1, <3>2, CoordinatorFrame
  <2> QED
    BY <1>1, <2>3, <2>4, OutsideFrame
<1> QED
  BY <1>3, <1>4

\* wave_complete and start_wave bear waves that the ranks have been in: the
\* coordinator catches up with them, and never overtakes.
LEMMA EngineOutputStep ==
  ASSUME DPInv, NEW e \in Engine, EngineOutput(e)
  PROVE  DPInv'
<1> USE DEF DPInv
<1> DEFINE output == Head(outputs[e])
           starts == \/ output.wave > coordinator.current_wave
                     \/ output.wave = coordinator.current_wave /\ ~ coordinator.engines_running
<1>1. /\ outputs' = [outputs EXCEPT ![e] = Tail(@)] /\ outputs[e] # <<>>
      /\ UNCHANGED <<engines, clients, inputs, first_req, notices, requests, pause, slips>>
  BY DEF EngineOutput
<1>2. /\ Tail(outputs[e]) \in Seq(Output) /\ output \in Output
      /\ output \in Elements(outputs[e])
      /\ Elements(Tail(outputs[e])) \subseteq Elements(outputs[e])
  BY <1>1, TailElements DEF Typed
<1>3. /\ outputs' \in [Engine -> Seq(Output)]
      /\ \A f \in Engine : Elements(outputs'[f]) \subseteq Elements(outputs[f])
  BY <1>1, <1>2 DEF Typed
<1>4. \/ UNCHANGED <<coordinator, start_waves, published>>
      \/ /\ output.type = "wave_complete" /\ coordinator.current_wave <= output.wave
         /\ coordinator' = [current_wave |-> output.wave + 1, engines_running |-> FALSE]
         /\ Publish(coordinator') /\ UNCHANGED start_waves
      \/ /\ output.type = "start_wave" /\ starts
         /\ coordinator' = [current_wave |-> output.wave, engines_running |-> TRUE]
         /\ send_start_wave(output.wave, e) /\ Publish(coordinator')
  BY DEF EngineOutput
<1>5. /\ output.wave \in Nat
      /\ output.type = "wave_complete" => output.wave < engines[e].current_wave
      /\ output.type = "start_wave" => output.wave <= engines[e].current_wave
      /\ \A f \in Engine : engines[f].current_wave = engines[e].current_wave
      /\ engines[e].current_wave \in Nat /\ coordinator.current_wave \in Nat
  BY <1>2 DEF Output, WavesBounded, WavesOrdered, Typed, EngineState, View
<1> HIDE DEF output
<1>6. CASE UNCHANGED <<coordinator, start_waves, published>>
  <2>1. Typed'
    BY <1>1, <1>3, <1>6 DEF Typed
  <2>2. WavesBounded'
    BY <1>1, <1>3, <1>6 DEF WavesBounded, WavesOrdered
  <2> QED
    BY <1>1, <2>1, <2>2, OutsideFrame
<1>7. CASE /\ output.type = "wave_complete" /\ coordinator.current_wave <= output.wave
           /\ coordinator' = [current_wave |-> output.wave + 1, engines_running |-> FALSE]
           /\ Publish(coordinator') /\ UNCHANGED start_waves
  <2>1. /\ coordinator' \in View /\ coordinator.current_wave <= coordinator'.current_wave
        /\ \A f \in Engine : coordinator'.current_wave <= engines[f].current_wave
    BY <1>5, <1>7 DEF View
  <2>2. /\ published' \in [Client -> Seq(View)]
        /\ \A d \in Client : \A k \in Elements(published'[d]) :
             k \in Elements(published[d]) \/ k = coordinator'
    BY <1>7, <2>1, PublishQueues, ZenonT(90)
  <2>3. Typed'
    BY <1>1, <1>3, <1>7, <2>1, <2>2 DEF Typed
  <2>4. WavesBounded'
    BY ZenonT(90), <1>1, <1>3, <1>7, <2>1, <2>2, CoordinatorFrame
  <2> QED
    BY <1>1, <2>3, <2>4, OutsideFrame
<1>8. CASE /\ output.type = "start_wave" /\ starts
           /\ coordinator' = [current_wave |-> output.wave, engines_running |-> TRUE]
           /\ send_start_wave(output.wave, e) /\ Publish(coordinator')
  <2>1. /\ coordinator' \in View /\ coordinator.current_wave <= coordinator'.current_wave
        /\ coordinator'.current_wave = output.wave
        /\ \A f \in Engine : coordinator'.current_wave <= engines[f].current_wave
    BY <1>5, <1>8 DEF View
  <2>2. /\ published' \in [Client -> Seq(View)]
        /\ \A d \in Client : \A k \in Elements(published'[d]) :
             k \in Elements(published[d]) \/ k = coordinator'
    BY <1>8, <2>1, PublishQueues, ZenonT(90)
  <2>3. /\ start_waves' \in [Engine -> Seq(Start)]
        /\ \A f \in Engine : \A k \in Elements(start_waves'[f]) :
             k \in Elements(start_waves[f]) \/ k.wave = coordinator'.current_wave
    BY <1>5, <1>8, <2>1, StartWaveQueues
  <2>4. Typed'
    BY <1>1, <1>3, <2>1, <2>2, <2>3 DEF Typed
  <2>5. WavesBounded'
    BY ZenonT(90), <1>1, <1>3, <2>1, <2>2, <2>3, CoordinatorFrame
  <2> QED
    BY <1>1, <2>4, <2>5, OutsideFrame
<1> QED
  BY <1>4, <1>6, <1>7, <1>8

\* Publishing the request counts repeats the coordinator's state.
LEMMA PublishCountsStep ==
  ASSUME DPInv, PublishCounts
  PROVE  DPInv'
<1> USE DEF DPInv
<1>1. coordinator' = coordinator /\ coordinator \in View /\ coordinator.current_wave \in Nat
  BY DEF PublishCounts, Typed, View
<1>2. /\ published' \in [Client -> Seq(View)]
      /\ \A d \in Client : \A k \in Elements(published'[d]) :
           k \in Elements(published[d]) \/ k = coordinator
  BY <1>1, PublishQueues, Zenon DEF PublishCounts
<1>3. Typed'
  BY <1>1, <1>2 DEF PublishCounts, Typed
<1>4. WavesBounded'
  BY <1>1, <1>2 DEF PublishCounts, WavesBounded, WavesOrdered
<1> QED
  BY <1>3, <1>4, OutsideFrame DEF PublishCounts

-----------------------------------------------------------------------------
(* Facts about the steps of one rank. *)

\* The operations on a rank's state keep its type.
LEMMA AddRequestTyped ==
  ASSUME NEW eng \in EngineState, NEW r \in Request, NEW wave \in Nat
  PROVE  add_request(eng, r, wave) \in EngineState
BY Zenon DEF add_request, EngineState, IsStale

\* The same of finish_requests.
LEMMA FinishRequestsTyped ==
  ASSUME NEW eng \in EngineState, NEW rs
  PROVE  finish_requests(eng, rs) \in EngineState
BY Zenon DEF finish_requests, EngineState

\* The same of pause_scheduler.
LEMMA PauseSchedulerTyped ==
  ASSUME NEW eng \in EngineState, NEW mode \in PauseMode
  PROVE  pause_scheduler(eng, mode) \in EngineState
BY ZenonT(90) DEF pause_scheduler, finish_requests, EngineState

\* What a rank keeps when it takes, or finishes, requests.
LEMMA AddRequestKeeps ==
  ASSUME NEW eng \in EngineState, NEW r \in Request, NEW wave \in Nat, wave <= eng.current_wave
  PROVE  LET new == add_request(eng, r, wave)
         IN  /\ new.pc = eng.pc /\ new.current_wave = eng.current_wave
             /\ new.step_counter = eng.step_counter /\ new.pause_state = eng.pause_state
             /\ new.pending_pause = eng.pending_pause
             /\ new.ignore_start_dp_wave = eng.ignore_start_dp_wave
             /\ new.idle_state_callbacks = eng.idle_state_callbacks
             /\ new.running = eng.running
             /\ eng.engines_running => new.engines_running
             /\ eng.pause_state # "UNPAUSED" /\ new.engines_running => eng.engines_running
BY DEF add_request, IsStale, EngineState

\* The same when it finishes them.
LEMMA FinishRequestsKeeps ==
  ASSUME NEW eng \in EngineState, NEW rs
  PROVE  LET new == finish_requests(eng, rs)
         IN  /\ new.pc = eng.pc /\ new.current_wave = eng.current_wave
             /\ new.step_counter = eng.step_counter /\ new.pause_state = eng.pause_state
             /\ new.pending_pause = eng.pending_pause
             /\ new.ignore_start_dp_wave = eng.ignore_start_dp_wave
             /\ new.idle_state_callbacks = eng.idle_state_callbacks
             /\ new.running \subseteq eng.running
             /\ new.engines_running = eng.engines_running
BY DEF finish_requests, EngineState

\* pause_scheduler keeps the wave and the step counter, and makes the rank run.
LEMMA PauseSchedulerKeeps ==
  ASSUME NEW eng \in EngineState, NEW mode \in PauseMode
  PROVE  LET new == pause_scheduler(eng, mode)
         IN  /\ new.pc = eng.pc /\ new.current_wave = eng.current_wave
             /\ new.step_counter = eng.step_counter /\ new.pause_state # "UNPAUSED"
             /\ new.pending_pause /\ new.engines_running /\ new.idle_state_callbacks
BY DEF pause_scheduler, finish_requests, EngineState

\* A rank that has stopped does not enter a forward pass.
LEMMA StoppedHasNoWork ==
  ASSUME Typed, NEW e \in Engine, Stopped(e)
  PROVE  ~ has_work(engines[e])
BY DEF Stopped, has_work, HasUnfinished, Typed, EngineState

-----------------------------------------------------------------------------
(* The messages that a rank takes. *)

\* Of the queues of a rank, one loses its first message.
LEMMA TakeInput ==
  ASSUME Typed, PauseInOrder, NEW c \in Client, NEW e \in Engine, inputs[c][e] # <<>>,
         inputs' = [inputs EXCEPT ![c][e] = Tail(@)]
  PROVE  /\ inputs' \in [Client -> [Engine -> Seq(Message)]]
         /\ Head(inputs[c][e]) \in Message /\ Head(inputs[c][e]) \in Elements(inputs[c][e])
         /\ \A d \in Client, f \in Engine :
              Elements(inputs'[d][f]) \subseteq Elements(inputs[d][f])
         /\ \A f \in Engine : AddsNoCall(f)
         /\ IsCall(Head(inputs[c][e])) => \A d \in Client : NoCall(inputs'[d][e])
         /\ \A d \in Client, f \in Engine \ {e} : inputs'[d][f] = inputs[d][f]
<1>1. /\ inputs[c][e] \in Seq(Message) /\ Tail(inputs[c][e]) \in Seq(Message)
      /\ Head(inputs[c][e]) \in Message /\ Head(inputs[c][e]) \in Elements(inputs[c][e])
      /\ Elements(Tail(inputs[c][e])) \subseteq Elements(inputs[c][e])
  BY TailElements DEF Typed
<1>2. /\ OneCall(Tail(inputs[c][e]))
      /\ IsCall(Head(inputs[c][e])) => NoCall(Tail(inputs[c][e]))
  BY <1>1, OneCallTail DEF PauseInOrder, CallOf
<1>3. /\ inputs'[c][e] = Tail(inputs[c][e])
      /\ \A d \in Client, f \in Engine : d # c \/ f # e => inputs'[d][f] = inputs[d][f]
  BY DEF Typed
<1>4. inputs' \in [Client -> [Engine -> Seq(Message)]]
  BY <1>1 DEF Typed
<1>5. \A d \in Client, f \in Engine : Elements(inputs'[d][f]) \subseteq Elements(inputs[d][f])
  BY <1>1, <1>3
<1>6. \A d \in Client, f \in Engine : OneCall(inputs'[d][f])
  BY <1>2, <1>3 DEF PauseInOrder, CallOf
<1>7. \A f \in Engine : AddsNoCall(f)
  BY <1>5, <1>6 DEF AddsNoCall
<1>8. IsCall(Head(inputs[c][e])) => \A d \in Client : NoCall(inputs'[d][e])
  BY <1>1, <1>2, <1>3 DEF PauseInOrder, CallOf, NoCall
<1> QED
  BY <1>1, <1>3, <1>4, <1>5, <1>7, <1>8

\* A request of no later wave than the rank's leaves the rank in its wave, and a
\* paused rank does not restart the engines for it.
LEMMA HandleAddStep ==
  ASSUME DPInv, NEW c \in Client, NEW e \in Engine, HandleInput(c, e),
         Head(inputs[c][e]).type = "ADD"
  PROVE  DPInv'
<1> USE DEF DPInv
<1> DEFINE message == Head(inputs[c][e])
           new == add_request(engines[e], message.request, message.wave)
           start == [type |-> "start_wave", wave |-> engines[e].current_wave]
<1>1. /\ engines[e].pc = "input" /\ inputs[c][e] # <<>>
      /\ inputs' = [inputs EXCEPT ![c][e] = Tail(@)]
      /\ engines' = [engines EXCEPT ![e] = new]
      /\ outputs' = outputs \/ outputs' = [outputs EXCEPT ![e] = Append(@, start)]
      /\ UNCHANGED <<clients, coordinator, first_req, notices, start_waves, published,
                     requests, pause>>
  BY DEF HandleInput
<1>2. /\ message \in Message /\ message \in Elements(inputs[c][e])
      /\ inputs' \in [Client -> [Engine -> Seq(Message)]]
      /\ \A d \in Client, f \in Engine : Elements(inputs'[d][f]) \subseteq Elements(inputs[d][f])
      /\ \A f \in Engine : AddsNoCall(f)
  BY <1>1, TakeInput, ZenonT(90)
<1>3. /\ message.request \in Request /\ message.wave \in Nat /\ engines[e] \in EngineState
      /\ message.wave <= engines[e].current_wave
  <2>1. message.request \in Request /\ message.wave \in Nat /\ engines[e] \in EngineState
    BY <1>2, MessageFields, Zenon DEF Typed
  <2>2. /\ message.wave <= coordinator.current_wave
        /\ coordinator.current_wave <= engines[e].current_wave
    BY <1>2, Zenon DEF WavesBounded, WavesOrdered
  <2> QED
    BY <2>1, <2>2 DEF Typed, EngineState, View
<1> HIDE DEF message
<1>4. /\ new \in EngineState
      /\ new.pc = engines[e].pc /\ new.current_wave = engines[e].current_wave
      /\ new.step_counter = engines[e].step_counter /\ new.pause_state = engines[e].pause_state
      /\ new.pending_pause = engines[e].pending_pause
      /\ new.ignore_start_dp_wave = engines[e].ignore_start_dp_wave
      /\ new.idle_state_callbacks = engines[e].idle_state_callbacks
      /\ new.running = engines[e].running
      /\ engines[e].engines_running => new.engines_running
      /\ engines[e].pause_state # "UNPAUSED" /\ new.engines_running => engines[e].engines_running
  <2>1. new \in EngineState
    BY <1>3, AddRequestTyped
  <2> QED
    BY <1>3, <2>1, AddRequestKeeps, ZenonT(90)
<1> HIDE DEF new
<1>5. start \in Output /\ start.type = "start_wave" /\ start.wave = engines[e].current_wave
  BY <1>3, Zenon DEF Output, EngineState
<1> HIDE DEF start
<1>6. /\ outputs' \in [Engine -> Seq(Output)]
      /\ \A f \in Engine : \A k \in Elements(outputs'[f]) :
           k \in Elements(outputs[f]) \/ (k = start /\ f = e)
  <2>1. CASE outputs' = outputs
    BY <2>1 DEF Typed
  <2>2. CASE outputs' = [outputs EXCEPT ![e] = Append(@, start)]
    <3>1. /\ Append(outputs[e], start) \in Seq(Output)
          /\ Elements(Append(outputs[e], start)) = Elements(outputs[e]) \cup {start}
      BY <1>5, AppendElements DEF Typed
    <3> QED
      BY <2>2, <3>1 DEF Typed
  <2> QED
    BY <1>1, <2>1, <2>2, Zenon
<1>7. engines' \in [Engine -> EngineState] /\ engines'[e] = new
  BY <1>1, <1>4 DEF Typed
<1>8. \A f \in Engine : engines'[f].current_wave = engines[f].current_wave
  BY <1>1, <1>4 DEF Typed
<1>9. Typed'
  BY <1>1, <1>2, <1>6, <1>7 DEF Typed
<1>10. WavesBounded'
  <2>1. WavesOrdered'
    BY <1>1, <1>8 DEF WavesBounded, WavesOrdered
  <2>2. \A d \in Client, f \in Engine : \A m \in Elements(inputs'[d][f]) :
          m.type = "ADD" => m.wave <= coordinator.current_wave
    BY <1>2, ZenonT(90) DEF WavesBounded
  <2>3. \A f \in Engine : \A m \in Elements(outputs'[f]) :
          IF m.type = "wave_complete" THEN m.wave < engines'[f].current_wave
                                      ELSE m.wave <= engines'[f].current_wave
    BY <1>3, <1>5, <1>6, <1>8 DEF WavesBounded, EngineState
  <2> QED
    BY <1>1, <2>1, <2>2, <2>3 DEF WavesBounded
<1>11. InStep'
  BY <1>1, <1>4, InStepFrame, Zenon
<1>12. PauseInOrder'
  <2>1. KeepsPhase(e)
    BY <1>1, <1>4, <1>7 DEF KeepsPhase, Stopped
  <2>2. \A f \in Engine \ {e} : KeepsPhase(f)
    BY <1>1, UnchangedKeepsPhase DEF Typed
  <2> QED
    BY <1>1, <1>2, <2>1, <2>2, PauseFrame
<1> QED
  BY <1>9, <1>10, <1>11, <1>12

\* A rank finishes requests, and may have taken a message that is no call.
LEMMA FinishStep ==
  ASSUME DPInv, NEW e \in Engine, NEW rs, engines[e].pc # "sync",
         engines' = [engines EXCEPT ![e] = finish_requests(@, rs)],
         inputs' \in [Client -> [Engine -> Seq(Message)]],
         \A d \in Client, f \in Engine : Elements(inputs'[d][f]) \subseteq Elements(inputs[d][f]),
         \A f \in Engine : AddsNoCall(f),
         UNCHANGED <<clients, coordinator, first_req, notices, start_waves, outputs, published,
                     requests, pause>>
  PROVE  DPInv'
<1> USE DEF DPInv
<1> DEFINE new == finish_requests(engines[e], rs)
<1>1. /\ new \in EngineState
      /\ new.pc = engines[e].pc /\ new.current_wave = engines[e].current_wave
      /\ new.step_counter = engines[e].step_counter /\ new.pause_state = engines[e].pause_state
      /\ new.pending_pause = engines[e].pending_pause
      /\ new.ignore_start_dp_wave = engines[e].ignore_start_dp_wave
      /\ new.idle_state_callbacks = engines[e].idle_state_callbacks
      /\ new.running \subseteq engines[e].running
      /\ new.engines_running = engines[e].engines_running
  <2>1. engines[e] \in EngineState
    BY DEF Typed
  <2> QED
    BY <2>1, FinishRequestsTyped, FinishRequestsKeeps
<1>2. engines' = [engines EXCEPT ![e] = new]
  BY Zenon
<1> HIDE DEF new
<1>3. engines' \in [Engine -> EngineState] /\ engines'[e] = new
  BY <1>1, <1>2, ZenonT(90) DEF Typed
<1>4. Typed'
  BY <1>3 DEF Typed
<1>5. \A f \in Engine : engines'[f].current_wave = engines[f].current_wave
  BY <1>1, <1>2, Zenon DEF Typed
<1>6. WavesBounded'
  BY <1>5, WavesFrame, Zenon
<1>7. InStep'
  BY <1>1, <1>2, InStepFrame, Zenon
<1>8. KeepsPhase(e)
  BY <1>1, <1>3, ZenonT(90) DEF KeepsPhase, Stopped
<1>9. \A f \in Engine \ {e} : KeepsPhase(f)
  BY <1>2, UnchangedKeepsPhase DEF Typed
<1>10. PauseInOrder'
  BY <1>8, <1>9, PauseFrame
<1> QED
  BY <1>4, <1>6, <1>7, <1>10, ZenonT(90)

\* PAUSE reaches a rank that is in no other pause: its callback is registered,
\* and it runs until the ranks agree.
LEMMA HandlePauseStep ==
  ASSUME DPInv, NEW c \in Client, NEW e \in Engine, HandleInput(c, e),
         Head(inputs[c][e]).type = "PAUSE"
  PROVE  DPInv'
<1> USE DEF DPInv
<1> DEFINE message == Head(inputs[c][e])
           new == pause_scheduler(engines[e], message.mode)
           aborted == {r \in Request : message.mode = "abort"
                                       /\ r \in engines[e].waiting \cup engines[e].running}
<1>1. /\ engines[e].pc = "input" /\ inputs[c][e] # <<>>
      /\ inputs' = [inputs EXCEPT ![c][e] = Tail(@)]
      /\ engines' = [engines EXCEPT ![e] = new]
      /\ UNCHANGED <<clients, coordinator, first_req, notices, start_waves, published, outputs,
                     pause>>
  BY DEF HandleInput
<1>2. requests' = [r \in Request |->
        IF r \in aborted THEN [requests[r] EXCEPT !.status = "dropped"] ELSE requests[r]]
  BY Zenon DEF HandleInput
<1>3. /\ message \in Message /\ message \in Elements(inputs[c][e]) /\ IsCall(message)
      /\ inputs' \in [Client -> [Engine -> Seq(Message)]]
      /\ \A d \in Client, f \in Engine : Elements(inputs'[d][f]) \subseteq Elements(inputs[d][f])
      /\ \A f \in Engine : AddsNoCall(f)
      /\ \A d \in Client : NoCall(inputs'[d][e])
      /\ \A d \in Client, f \in Engine \ {e} : inputs'[d][f] = inputs[d][f]
  BY <1>1, TakeInput, ZenonT(90) DEF IsCall
<1>4. message.mode \in PauseMode /\ engines[e] \in EngineState
  BY <1>3, MessageFields, Zenon DEF Typed
<1>5. pause.state = "pausing" /\ e \notin pause.replies
  <2>1. CallOf(e)
    BY DEF PauseInOrder
  <2> QED
    BY <1>3, <2>1 DEF CallOf
<1> HIDE DEF message, aborted
<1>6. /\ new \in EngineState
      /\ new.pc = engines[e].pc /\ new.current_wave = engines[e].current_wave
      /\ new.step_counter = engines[e].step_counter /\ new.pause_state # "UNPAUSED"
      /\ new.pending_pause /\ new.engines_running /\ new.idle_state_callbacks
  BY <1>4, PauseSchedulerTyped, PauseSchedulerKeeps
<1> HIDE DEF new
<1>7. engines' \in [Engine -> EngineState] /\ engines'[e] = new
  BY <1>1, <1>6 DEF Typed
<1>8. Typed'
  <2>1. /\ requests' \in [Request -> RequestState]
        /\ \A r \in Request : requests'[r].status = "sent" => requests'[r].engine \in Engine
    <3>1. ASSUME NEW r \in Request
          PROVE  LET dropped == [requests[r] EXCEPT !.status = "dropped"]
                 IN  dropped \in RequestState /\ dropped.status = "dropped"
      BY ZenonT(90) DEF Typed, RequestState
    <3>2. ASSUME NEW r \in Request
          PROVE  /\ requests'[r] \in RequestState
                 /\ requests'[r].status = "sent" => requests'[r].engine \in Engine
      BY <1>2, <3>1 DEF Typed
    <3> QED
      BY <1>2, <3>2, Zenon
  <2> QED
    BY <1>1, <1>3, <1>7, <2>1 DEF Typed
<1>9. \A f \in Engine : engines'[f].current_wave = engines[f].current_wave
  BY <1>1, <1>6 DEF Typed
<1>10. WavesBounded'
  BY <1>1, <1>3, <1>9, WavesFrame, Zenon
<1>11. InStep'
  BY <1>1, <1>6, InStepFrame, Zenon
<1>12. PauseInOrder'
  <2>1. CallOf(e)'
    BY <1>3 DEF CallOf, NoCall, IsCall, AddsNoCall
  <2>2. PhaseOf(e)'
    BY <1>1, <1>3, <1>5, <1>6, <1>7, ZenonT(90) DEF PhaseOf
  <2>3. \A f \in Engine \ {e} : engines'[f] = engines[f]
    BY <1>1 DEF Typed
  <2>4. ASSUME NEW f \in Engine \ {e} PROVE CallOf(f)' /\ PhaseOf(f)'
    BY <1>1, <1>3, <2>3, OtherRank
  <2> QED
    BY <2>1, <2>2, <2>4 DEF PauseInOrder
<1> QED
  BY <1>8, <1>10, <1>11, <1>12

\* RESUME reaches a rank that has stopped, so it goes on to the all-reduce.
LEMMA HandleResumeStep ==
  ASSUME DPInv, NEW c \in Client, NEW e \in Engine, HandleInput(c, e),
         Head(inputs[c][e]).type = "RESUME"
  PROVE  DPInv'
<1> USE DEF DPInv
<1> DEFINE message == Head(inputs[c][e])
           new == [engines[e] EXCEPT !.pause_state = "UNPAUSED",
                                     !.ignore_start_dp_wave = FALSE, !.pc = "resume"]
<1>1. inputs[c][e] # <<>> /\ inputs' = [inputs EXCEPT ![c][e] = Tail(@)]
  BY DEF HandleInput
<1>2. /\ message \in Message /\ message \in Elements(inputs[c][e]) /\ IsCall(message)
      /\ inputs' \in [Client -> [Engine -> Seq(Message)]]
      /\ \A d \in Client, f \in Engine : Elements(inputs'[d][f]) \subseteq Elements(inputs[d][f])
      /\ \A f \in Engine : AddsNoCall(f)
      /\ \A d \in Client : NoCall(inputs'[d][e])
      /\ \A d \in Client, f \in Engine \ {e} : inputs'[d][f] = inputs[d][f]
  BY <1>1, TakeInput, ZenonT(90) DEF IsCall
<1>3. pause.state = "resuming" /\ Stopped(e) /\ engines[e] \in EngineState
  BY <1>2 DEF PauseInOrder, CallOf, Typed
<1>4. /\ engines[e].pc = "input" /\ engines' = [engines EXCEPT ![e] = new]
      /\ UNCHANGED <<clients, coordinator, first_req, notices, start_waves, published, outputs,
                     requests, pause>>
  BY <1>3, Zenon DEF HandleInput, Stopped, Typed
<1>5. /\ new \in EngineState /\ new.pc = "resume" /\ new.current_wave = engines[e].current_wave
      /\ new.step_counter = engines[e].step_counter
      /\ new.pending_pause = engines[e].pending_pause
      /\ new.idle_state_callbacks = engines[e].idle_state_callbacks
      /\ new.engines_running = engines[e].engines_running
  BY <1>3, ZenonT(90) DEF EngineState
<1> HIDE DEF new, message
<1>6. engines' \in [Engine -> EngineState] /\ engines'[e] = new
  BY <1>4, <1>5 DEF Typed
<1>7. Typed'
  BY <1>2, <1>4, <1>6 DEF Typed
<1>8. \A f \in Engine : engines'[f].current_wave = engines[f].current_wave
  BY <1>4, <1>5 DEF Typed
<1>9. WavesBounded'
  BY <1>2, <1>4, <1>8, WavesFrame, Zenon
<1>10. InStep'
  BY <1>4, <1>5, InStepFrame, Zenon
<1>11. PauseInOrder'
  <2>1. CallOf(e)'
    BY <1>2 DEF CallOf, NoCall, IsCall, AddsNoCall
  <2>2. PhaseOf(e)'
    BY <1>2, <1>3, <1>4, <1>5, <1>6, ZenonT(90) DEF PhaseOf, PauseInOrder
  <2>3. \A f \in Engine \ {e} : engines'[f] = engines[f]
    BY <1>4 DEF Typed
  <2>4. ASSUME NEW f \in Engine \ {e} PROVE CallOf(f)' /\ PhaseOf(f)'
    BY ZenonT(90), <1>2, <1>4, <2>3, OtherRank
  <2> QED
    BY <2>1, <2>2, <2>4 DEF PauseInOrder
<1> QED
  BY <1>7, <1>9, <1>10, <1>11

\* _handle_client_request, by the type of the message.
LEMMA HandleInputStep ==
  ASSUME DPInv, NEW c \in Client, NEW e \in Engine, HandleInput(c, e)
  PROVE  DPInv'
<1> DEFINE message == Head(inputs[c][e])
<1>1. /\ engines[e].pc = "input" /\ inputs[c][e] # <<>>
      /\ inputs' = [inputs EXCEPT ![c][e] = Tail(@)]
  BY DEF HandleInput
<1>2. message \in Message
  BY <1>1, TakeInput, Zenon DEF DPInv
<1>3. CASE message.type = "ABORT"
  <2>1. /\ engines' = [engines EXCEPT ![e] = finish_requests(@, {message.request})]
        /\ UNCHANGED <<clients, coordinator, first_req, notices, start_waves, outputs, published,
                       requests, pause>>
    BY <1>3 DEF HandleInput
  <2>2. /\ inputs' \in [Client -> [Engine -> Seq(Message)]]
        /\ \A d \in Client, f \in Engine : Elements(inputs'[d][f]) \subseteq Elements(inputs[d][f])
        /\ \A f \in Engine : AddsNoCall(f)
    BY <1>1, TakeInput, Zenon DEF DPInv
  <2> HIDE DEF message
  <2> QED
    BY <1>1, <2>1, <2>2, FinishStep, ZenonT(90)
<1> QED
  BY <1>2, <1>3, MessageFields, HandleAddStep, HandlePauseStep, HandleResumeStep

\* A request whose preprocessing raises leaves its queue and changes no rank.
LEMMA PreprocessingFailsStep ==
  ASSUME DPInv, NEW c \in Client, NEW e \in Engine, PreprocessingFails(c, e)
  PROVE  DPInv'
<1> USE DEF DPInv
<1> DEFINE r == Head(inputs[c][e]).request
<1>1. /\ inputs[c][e] # <<>> /\ inputs' = [inputs EXCEPT ![c][e] = Tail(@)]
      /\ Head(inputs[c][e]).type = "ADD"
      /\ requests' = [requests EXCEPT ![r].status = "dropped"]
      /\ UNCHANGED <<engines, clients, coordinator, first_req, notices, start_waves, outputs,
                     published, pause>>
  BY DEF PreprocessingFails
<1>2. /\ Head(inputs[c][e]) \in Message
      /\ inputs' \in [Client -> [Engine -> Seq(Message)]]
      /\ \A d \in Client, f \in Engine : Elements(inputs'[d][f]) \subseteq Elements(inputs[d][f])
      /\ \A f \in Engine : AddsNoCall(f)
  BY <1>1, TakeInput, Zenon
<1>3. r \in Request
  BY <1>1, <1>2, MessageFields
<1> HIDE DEF r
<1>4. Typed'
  <2>1. /\ requests' \in [Request -> RequestState]
        /\ \A x \in Request : requests'[x].status = "sent" => requests'[x].engine \in Engine
    BY <1>1, <1>3, RequestDropped, Zenon
  <2> QED
    BY <1>1, <1>2, <2>1 DEF Typed
<1>5. WavesBounded'
  BY <1>1, <1>2, WavesFrame, Zenon
<1>6. InStep'
  BY <1>1 DEF InStep
<1>7. PauseInOrder'
  BY <1>1, <1>2, UnchangedKeepsPhase, PauseFrame
<1> QED
  BY <1>4, <1>5, <1>6, <1>7

\* START_DP_WAVE is of no later wave than the rank's, so it moves no rank to
\* another wave; a rank that has stopped ignores it.
LEMMA HandleStartWaveStep ==
  ASSUME DPInv, NEW e \in Engine, HandleStartWave(e)
  PROVE  DPInv'
<1> USE DEF DPInv
<1> DEFINE start == Head(start_waves[e])
           new == [engines[e] EXCEPT !.current_wave = start.wave, !.engines_running = TRUE]
<1>1. /\ engines[e].pc = "input" /\ start_waves[e] # <<>>
      /\ start_waves' = [start_waves EXCEPT ![e] = Tail(@)]
      /\ \/ engines' = engines
         \/ /\ ~ engines[e].ignore_start_dp_wave /\ ~ start.wave < engines[e].current_wave
            /\ engines' = [engines EXCEPT ![e] = new]
      /\ UNCHANGED <<clients, coordinator, inputs, first_req, notices, outputs, published,
                     requests, pause>>
  BY Zenon DEF HandleStartWave, Typed
<1>2. /\ start \in Start /\ start \in Elements(start_waves[e])
      /\ Tail(start_waves[e]) \in Seq(Start)
      /\ Elements(Tail(start_waves[e])) \subseteq Elements(start_waves[e])
  BY <1>1, TailElements DEF Typed
<1>3. /\ start_waves' \in [Engine -> Seq(Start)]
      /\ \A f \in Engine : Elements(start_waves'[f]) \subseteq Elements(start_waves[f])
  BY <1>1, <1>2 DEF Typed
<1>4. /\ start.wave \in Nat /\ start.wave <= engines[e].current_wave
      /\ engines[e] \in EngineState /\ engines[e].current_wave \in Nat
  <2>1. /\ start.wave \in Nat /\ engines[e] \in EngineState /\ engines[e].current_wave \in Nat
        /\ coordinator.current_wave \in Nat
    BY <1>2 DEF Start, Typed, EngineState, View
  <2>2. /\ start.wave <= coordinator.current_wave
        /\ coordinator.current_wave <= engines[e].current_wave
    BY <1>2, Zenon DEF WavesBounded, WavesOrdered
  <2> QED
    BY <2>1, <2>2
<1> HIDE DEF start
<1>5. CASE engines' = engines
  <2>1. Typed'
    BY <1>1, <1>3, <1>5 DEF Typed
  <2>2. WavesBounded'
    BY <1>1, <1>3, <1>5, WavesFrame
  <2> QED
    BY <1>1, <1>5, <2>1, <2>2, OutsideFrame
<1>6. CASE /\ ~ engines[e].ignore_start_dp_wave /\ ~ start.wave < engines[e].current_wave
           /\ engines' = [engines EXCEPT ![e] = new]
  <2>1. /\ new \in EngineState /\ new.pc = engines[e].pc
        /\ new.step_counter = engines[e].step_counter /\ new.pause_state = engines[e].pause_state
        /\ new.pending_pause = engines[e].pending_pause
        /\ new.ignore_start_dp_wave = engines[e].ignore_start_dp_wave
        /\ new.idle_state_callbacks = engines[e].idle_state_callbacks
        /\ new.engines_running
    BY <1>4, Zenon DEF EngineState
  <2>2. new.current_wave = engines[e].current_wave
    BY <1>4, <1>6 DEF EngineState
  <2> HIDE DEF new
  <2>3. engines' \in [Engine -> EngineState] /\ engines'[e] = new
    BY <1>6, <2>1 DEF Typed
  <2>4. Typed'
    BY <1>1, <1>3, <2>3 DEF Typed
  <2>5. \A f \in Engine : engines'[f].current_wave = engines[f].current_wave
    BY <1>6, <2>2 DEF Typed
  <2>6. WavesBounded'
    BY <1>1, <1>3, <2>5, WavesFrame
  <2>7. InStep'
    BY <1>1, <1>6, <2>1, InStepFrame, ZenonT(90)
  <2>8. KeepsPhase(e)
    BY ZenonT(90), <1>6, <2>1, <2>3 DEF KeepsPhase, Stopped
  <2>9. \A f \in Engine \ {e} : KeepsPhase(f)
    BY <1>6, UnchangedKeepsPhase DEF Typed
  <2>10. \A f \in Engine : AddsNoCall(f)
    BY <1>1, Zenon DEF AddsNoCall, PauseInOrder, CallOf
  <2>11. PauseInOrder'
    BY <1>1, <2>8, <2>9, <2>10, PauseFrame
  <2> QED
    BY <2>4, <2>6, <2>7, <2>11
<1> QED
  BY <1>1, <1>5, <1>6

-----------------------------------------------------------------------------
(* The steps of the busy loop. *)

\* A rank that enters a forward pass has work, so it has not stopped.
LEMMA EnterPassStep ==
  ASSUME DPInv, NEW e \in Engine, EnterPass(e)
  PROVE  DPInv'
<1> USE DEF DPInv
<1> DEFINE new == [engines[e] EXCEPT !.pc = "pass"]
<1>1. /\ engines[e].pc = "input" /\ has_work(engines[e])
      /\ engines' = [engines EXCEPT ![e] = new]
      /\ UNCHANGED <<clients, coordinator, inputs, first_req, notices, start_waves, outputs,
                     published, requests, pause>>
  BY DEF EnterPass, Typed
<1>2. /\ new \in EngineState /\ new.pc = "pass"
      /\ new.current_wave = engines[e].current_wave
      /\ new.step_counter = engines[e].step_counter /\ new.pause_state = engines[e].pause_state
      /\ new.pending_pause = engines[e].pending_pause
      /\ new.ignore_start_dp_wave = engines[e].ignore_start_dp_wave
      /\ new.idle_state_callbacks = engines[e].idle_state_callbacks
      /\ new.engines_running = engines[e].engines_running
  <2>1. engines[e] \in EngineState
    BY DEF Typed
  <2> QED
    BY <2>1 DEF EngineState
<1> HIDE DEF new
<1>3. engines' \in [Engine -> EngineState] /\ engines'[e] = new
  BY <1>1, <1>2 DEF Typed
<1>4. Typed'
  BY <1>1, <1>3 DEF Typed
<1>5. \A f \in Engine : engines'[f].current_wave = engines[f].current_wave
  BY <1>1, <1>2 DEF Typed
<1>6. WavesBounded'
  BY <1>1, <1>5, WavesFrame, Zenon
<1>7. InStep'
  BY <1>1, <1>2, InStepFrame, Zenon
<1>8. KeepsPhase(e)
  BY <1>1, <1>2, <1>3, StoppedHasNoWork DEF KeepsPhase
<1>9. \A f \in Engine \ {e} : KeepsPhase(f)
  BY <1>1, UnchangedKeepsPhase DEF Typed
<1>10. \A f \in Engine : AddsNoCall(f)
  BY <1>1, Zenon DEF AddsNoCall, PauseInOrder, CallOf
<1>11. PauseInOrder'
  BY <1>1, <1>8, <1>9, <1>10, PauseFrame
<1> QED
  BY <1>4, <1>6, <1>7, <1>11

\* Aborts that a step takes only shrink the rank's requests.
LEMMA AbortInStepStep ==
  ASSUME DPInv, NEW e \in Engine, NEW r \in Request, AbortInStep(e, r)
  PROVE  DPInv'
<1>1. /\ engines[e].pc = "pass" /\ engines' = [engines EXCEPT ![e] = finish_requests(@, {r})]
      /\ UNCHANGED <<clients, coordinator, inputs, first_req, notices, start_waves, outputs,
                     published, requests, pause>>
  BY DEF AbortInStep
<1>2. \A f \in Engine : AddsNoCall(f)
  BY <1>1, ZenonT(90) DEF AddsNoCall, DPInv, PauseInOrder, CallOf
<1>3. inputs' \in [Client -> [Engine -> Seq(Message)]]
  BY <1>1 DEF DPInv, Typed
<1> QED
  BY <1>1, <1>2, <1>3, FinishStep, ZenonT(90)

\* A rank that is idle and awaits the end of a pause has stopped: its pause is
\* not pending, since a rank with a pending pause runs.
LEMMA IdleCallbackStep ==
  ASSUME DPInv, NEW e \in Engine, IdleCallback(e)
  PROVE  DPInv'
<1> USE DEF DPInv
<1> DEFINE new == [engines[e] EXCEPT !.idle_state_callbacks = FALSE]
<1>1. /\ engines[e].pc = "input" /\ engines[e].idle_state_callbacks /\ ~ has_work(engines[e])
      /\ engines' = [engines EXCEPT ![e] = new]
      /\ pause' = [pause EXCEPT !.replies = @ \cup {e}]
      /\ UNCHANGED <<clients, coordinator, inputs, first_req, notices, start_waves, outputs,
                     published, requests>>
  BY DEF IdleCallback, Typed
<1>2. /\ new \in EngineState /\ new.pc = "input"
      /\ new.current_wave = engines[e].current_wave
      /\ new.step_counter = engines[e].step_counter /\ new.pause_state = engines[e].pause_state
      /\ new.pending_pause = engines[e].pending_pause
      /\ new.ignore_start_dp_wave = engines[e].ignore_start_dp_wave
      /\ ~ new.idle_state_callbacks
      /\ new.engines_running = engines[e].engines_running /\ new.running = engines[e].running
  BY <1>1, ZenonT(90) DEF Typed, EngineState
<1> HIDE DEF new
<1>3. engines' \in [Engine -> EngineState] /\ engines'[e] = new
  BY <1>1, <1>2 DEF Typed
<1>4. /\ pause' \in [state : {"none", "pausing", "resuming"}, replies : SUBSET Engine, calls : Nat]
      /\ pause'.state = pause.state /\ pause'.replies = pause.replies \cup {e}
  BY <1>1, Zenon DEF Typed
<1>5. Typed'
  BY <1>1, <1>3, <1>4 DEF Typed
<1>6. \A f \in Engine : engines'[f].current_wave = engines[f].current_wave
  BY <1>1, <1>2 DEF Typed
<1>7. WavesBounded'
  BY <1>1, <1>6, WavesFrame
<1>8. InStep'
  BY <1>1, <1>2, InStepFrame, Zenon
<1>9. PauseInOrder'
  <2>1. /\ PhaseOf(e) /\ CallOf(e) /\ pause.state = "pausing"
        /\ ~ engines[e].engines_running /\ engines[e].ignore_start_dp_wave
    BY <1>1 DEF PauseInOrder, PhaseOf, has_work
  <2>2. Stopped(e)'
    BY <1>1, <1>2, <1>3, <2>1, ZenonT(90)
       DEF Stopped, PhaseOf, has_work, HasUnfinished, Typed, EngineState
  <2>3. CallOf(e)'
    BY <1>1, <1>4, <2>1 DEF CallOf
  <2>4. PhaseOf(e)'
    BY <1>1, <1>2, <1>3, <1>4, <2>1, <2>2 DEF PhaseOf
  <2>5. \A f \in Engine \ {e} : /\ engines'[f] = engines[f]
                                /\ f \in pause'.replies <=> f \in pause.replies
    BY <1>1, <1>4 DEF Typed
  <2>6. ASSUME NEW f \in Engine \ {e} PROVE CallOf(f)' /\ PhaseOf(f)'
    BY <1>1, <1>4, <2>5, OtherRank
  <2> QED
    BY <2>3, <2>4, <2>6 DEF PauseInOrder
<1> QED
  BY <1>5, <1>7, <1>8, <1>9
=============================================================================
