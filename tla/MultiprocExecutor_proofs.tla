---------------------- MODULE MultiprocExecutor_proofs ----------------------
(***************************************************************************)
(* A result of collective_rpc is made of the responses to its own call,    *)
(* as long as no earlier call has failed: for any number of workers, calls *)
(* in flight, errors and deaths, although no response names its call.      *)
(*                                                                         *)
(* The argument is a bookkeeping of the responses on their way.  Futures   *)
(* are waited for in the order of their calls, every worker replies in     *)
(* that order, and while no future has ended with an exception a worker's  *)
(* queues hold exactly its responses that no future has read yet.  So the  *)
(* head of the queue that get_response reads belongs to the call it is     *)
(* waiting for.                                                            *)
(***************************************************************************)
EXTENDS MultiprocExecutor, TLAPS

\* The provers of the leaves that name none, in the order they are tried.
USE SMTT(90), ZenonT(20), SMTT(91), SMTT(92)

\* How many futures have left futures_queue; the last may be waited for now.
Popped == Len(future) - Len(futures_queue)
Waiting == main.pc = "get_response"
Clean == \A d \in DOMAIN future : future[d].status # "exception"

\* The responses of worker w on their way to the executor, oldest first.
OnTheWay(w) == response_mq[w] \o async_output_queue[w]

\* No future has read the response of worker w to call d.
ReadFrom == {ReplyRank(main.current, i) : i \in 0 .. Len(main.from) - 1}
Unread(w, d) == d > Popped \/ (Waiting /\ d = Popped /\ w \notin ReadFrom)

Typed ==
  /\ sent \in Nat /\ received \in [Reader -> Seq(Nat)]
  /\ calls \in Seq([output_rank : OutputRank, non_block : BOOLEAN])
  /\ main \in [pc : {"idle", "enqueue", "result", "get_response"},
               target : Nat, current : Nat, from : Seq(Nat)]
  /\ futures_queue \in Seq(Nat)
  /\ future \in Seq([status : {"pending", "result", "exception"},
                     replies : Nat, from : Seq(Nat)])
  /\ async_output_queue \in [Worker -> Seq([call : Nat, success : BOOLEAN])]
  /\ response_mq \in [Worker -> Seq([call : Nat, success : BOOLEAN])]
  /\ is_failed \in BOOLEAN /\ shut_down \in BOOLEAN
  /\ alive \in [Worker -> BOOLEAN]

\* Calls are broadcast one by one, and a worker never runs ahead of them.  Only
\* a call that finds the executor shut down has no future.
CallsInStep ==
  /\ \A w \in Worker : Len(received[w]) <= sent
  /\ IF main.pc = "enqueue"
     THEN sent = Len(future) /\ Len(calls) = Len(future) + 1
     ELSE sent = Len(calls) /\ Len(future) <= sent /\ (Len(future) = sent \/ shut_down)
  /\ shut_down => is_failed
  /\ is_failed => \A w \in Worker : ~ alive[w]

\* The queue holds the youngest futures, which are pending, in order.
FuturesInOrder ==
  /\ Len(futures_queue) <= Len(future)
  /\ \A i \in DOMAIN futures_queue : futures_queue[i] = Popped + i
  /\ \A d \in DOMAIN future : future[d].status = "pending" <=>
                                 d > Popped \/ (Waiting /\ d = Popped)
  /\ main.pc \in {"result", "get_response"} => main.target \in DOMAIN future
  /\ IF Waiting THEN /\ main.current = Popped /\ Popped > 0
                     /\ Len(main.from) <= future[Popped].replies
     ELSE main.from = <<>>

\* A future waits for the replies of its call, or for none when shutdown() came
\* first; then no worker receives the call any more.
RepliesSet ==
  \A d \in DOMAIN future :
     \/ future[d].replies = NumReplies(d)
     \/ /\ future[d].replies = 0 /\ shut_down
        /\ \A w \in Worker : Len(received[w]) < d

\* A worker replies in the order of the calls, only to those it has received.
RepliesInOrder ==
  \A w \in Worker :
     /\ ~ use_async_scheduling => async_output_queue[w] = <<>>
     /\ \A i, j \in 1 .. Len(OnTheWay(w)) :
           i < j => OnTheWay(w)[i].call < OnTheWay(w)[j].call
     /\ \A i \in 1 .. Len(OnTheWay(w)) :
           /\ OnTheWay(w)[i].call \in 1 .. Len(received[w])
           /\ Replies(w, OnTheWay(w)[i].call)

\* Until a call fails, the queues hold exactly the responses not read yet.
QueuesMatchFutures ==
  Clean =>
    /\ \A w \in Worker :
         /\ \A i \in 1 .. Len(OnTheWay(w)) : Unread(w, OnTheWay(w)[i].call)
         /\ \A d \in 1 .. Len(received[w]) : Replies(w, d) /\ Unread(w, d) =>
              \E i \in 1 .. Len(OnTheWay(w)) : OnTheWay(w)[i].call = d
         /\ \A d \in DOMAIN future : Replies(w, d) /\ ~ Unread(w, d) =>
              d <= Len(received[w]) \/ future[d].replies = 0
    /\ \A i \in 1 .. Len(main.from) : main.from[i] = main.current

\* The inductive invariant.
ExecutorInv == /\ Typed /\ CallsInStep /\ FuturesInOrder /\ RepliesSet
               /\ RepliesInOrder /\ QueuesMatchFutures
               /\ ResultsOfOwnCallUntilError
-----------------------------------------------------------------------------
(***************************************************************************)
(* Sequences.                                                              *)
(***************************************************************************)
\* An element of a sequence.
LEMMA ElementOf ==
  ASSUME NEW S, NEW s \in Seq(S), NEW i \in 1 .. Len(s)
  PROVE  s[i] \in S
OBVIOUS

\* What EXCEPT does to the queue of one worker.
LEMMA AtWorker ==
  ASSUME NEW S, NEW f \in [Worker -> S], NEW w \in Worker, NEW e \in S
  PROVE  LET g == [f EXCEPT ![w] = e]
         IN  /\ g \in [Worker -> S] /\ g[w] = e
             /\ \A v \in Worker \ {w} : g[v] = f[v]
OBVIOUS

\* The output thread moves a response from one queue of its worker to the
\* other, so it stays on its way in the same place.
LEMMA MoveHead ==
  ASSUME NEW S, NEW s \in Seq(S), NEW t \in Seq(S), t # <<>>
  PROVE  Append(s, Head(t)) \o Tail(t) = s \o t
OBVIOUS

\* Taking the head of a worker's response queue takes the oldest response on
\* its way.
LEMMA TakeHead ==
  ASSUME NEW S, NEW s \in Seq(S), NEW t \in Seq(S), s # <<>>
  PROVE  /\ Tail(s) \o t = Tail(s \o t) /\ Head(s \o t) = Head(s)
         /\ s \o t # <<>>
OBVIOUS

\* What the worker appends to the output queue comes last.
LEMMA AppendLast ==
  ASSUME NEW S, NEW s \in Seq(S), NEW t \in Seq(S), NEW e \in S
  PROVE  s \o Append(t, e) = Append(s \o t, e)
OBVIOUS

\* Without an output thread it is the last of the response queue.
LEMMA AppendOnly ==
  ASSUME NEW S, NEW s \in Seq(S), NEW e \in S
  PROVE  Append(s, e) \o <<>> = Append(s \o <<>>, e)
OBVIOUS

-----------------------------------------------------------------------------
(***************************************************************************)
(* The steps that leave calls, futures and responses alone.                *)
(***************************************************************************)
\* The initial state satisfies the invariant: nothing is called yet.
LEMMA InitOK == ExecutorInit => ExecutorInv
<1> SUFFICES ASSUME ExecutorInit PROVE ExecutorInv
  OBVIOUS
<1> USE ExecutorAssumption DEF ExecutorInit, Init, Worker
<1>1. Typed
  <2>1. \A S : <<>> \in Seq(S)
    OBVIOUS
  <2>2. main \in [pc : {"idle", "enqueue", "result", "get_response"},
               target : Nat, current : Nat, from : Seq(Nat)]
    BY <2>1
  <2> QED BY ZenonT(90), <2>1, <2>2 DEF Typed
<1>2. /\ Len(future) = 0 /\ Len(futures_queue) = 0 /\ DOMAIN future = {}
      /\ DOMAIN futures_queue = {} /\ main.pc = "idle" /\ Len(main.from) = 0
      /\ \A w \in Worker : Len(received[w]) = 0 /\ Len(OnTheWay(w)) = 0
  BY DEF OnTheWay
<1>3. CallsInStep /\ FuturesInOrder /\ RepliesSet
  BY <1>2 DEF CallsInStep, FuturesInOrder, RepliesSet, Waiting, Popped
<1>4. RepliesInOrder /\ QueuesMatchFutures /\ ResultsOfOwnCallUntilError
  BY <1>2 DEF RepliesInOrder, QueuesMatchFutures, ResultsOfOwnCallUntilError
<1> QED BY <1>1, <1>3, <1>4 DEF ExecutorInv

\* The lengths that the invariant compares.
LEMMA Lengths ==
  ASSUME ExecutorInv
  PROVE  /\ sent \in Nat
         /\ Len(calls) \in Nat /\ DOMAIN calls = 1 .. Len(calls)
         /\ Len(future) \in Nat /\ DOMAIN future = 1 .. Len(future)
         /\ Len(futures_queue) \in Nat
         /\ DOMAIN futures_queue = 1 .. Len(futures_queue)
         /\ Popped \in 0 .. Len(future)
         /\ sent <= Len(calls) /\ Len(future) <= Len(calls)
         /\ \A w \in Worker : Len(received[w]) \in 0 .. Len(calls)
         /\ main.from \in Seq(Nat) /\ Len(main.from) \in Nat
<1>1. /\ DOMAIN calls = 1 .. Len(calls) /\ DOMAIN future = 1 .. Len(future)
      /\ DOMAIN futures_queue = 1 .. Len(futures_queue)
      /\ main.from \in Seq(Nat) /\ Len(main.from) \in Nat
  BY DEF ExecutorInv, Typed
<1>2. sent \in Nat /\ Len(calls) \in Nat /\ Len(future) \in Nat
  BY DEF ExecutorInv, Typed
<1>3. sent <= Len(calls) /\ Len(future) <= Len(calls)
  <2>1. /\ main.pc = "enqueue" => sent = Len(future) /\ Len(calls) = Len(future) + 1
        /\ main.pc # "enqueue" => sent = Len(calls) /\ Len(future) <= sent
    BY Zenon DEF ExecutorInv, CallsInStep
  <2> QED BY <1>2, <2>1
<1>4. Len(futures_queue) \in Nat /\ Popped \in 0 .. Len(future)
  <2>1. Len(futures_queue) \in Nat /\ Len(futures_queue) <= Len(future)
    BY DEF ExecutorInv, Typed, FuturesInOrder
  <2> QED BY <1>2, <2>1 DEF Popped
<1>5. ASSUME NEW w \in Worker PROVE Len(received[w]) \in 0 .. Len(calls)
  <2>1. Len(received[w]) \in Nat
    BY DEF ExecutorInv, Typed, Worker
  <2>2. Len(received[w]) <= sent
    BY Zenon DEF ExecutorInv, CallsInStep
  <2> QED BY <1>2, <1>3, <2>1, <2>2
<1> QED BY <1>1, <1>2, <1>3, <1>4, <1>5

\* The responses on their way and the futures that read them are as before.
Undisturbed ==
  /\ \A c \in 1 .. Len(calls) : calls'[c] = calls[c]
  /\ UNCHANGED <<received, future>>
  /\ \A w \in Worker : /\ OnTheWay(w)' = OnTheWay(w)
                       /\ ~ use_async_scheduling => async_output_queue'[w] = <<>>
  /\ \A w \in Worker, d \in Nat : Unread(w, d)' <=> Unread(w, d)
  /\ main'.from = main.from
  /\ main.from # <<>> => main'.current = main.current
  /\ shut_down => shut_down'

\* Such a step keeps what the invariant says about the responses.
LEMMA UndisturbedOK ==
  ASSUME ExecutorInv, Undisturbed
  PROVE  RepliesSet' /\ RepliesInOrder' /\ QueuesMatchFutures' /\ ResultsOfOwnCallUntilError'
<1>1. /\ \A d \in DOMAIN future : d \in 1 .. Len(calls) /\ d \in Nat
      /\ \A w \in Worker : /\ Len(received[w]) \in Nat
                           /\ \A d \in 1 .. Len(received[w]) : d \in 1 .. Len(calls)
  BY Lengths
<1>2. /\ \A c \in 1 .. Len(calls) : NumReplies(c)' = NumReplies(c)
      /\ \A c \in 1 .. Len(calls) : OwnResponses(c)' = OwnResponses(c)
      /\ \A c \in 1 .. Len(calls), w \in Worker : Replies(w, c)' <=> Replies(w, c)
  BY DEF Undisturbed, NumReplies, OwnResponses, Replies
<1>3. received' = received /\ future' = future /\ (shut_down => shut_down')
  BY DEF Undisturbed
<1>4. RepliesSet'
  BY <1>1, <1>2, <1>3 DEF RepliesSet, ExecutorInv
<1>5. RepliesInOrder'
  <2> SUFFICES ASSUME NEW w \in Worker
      PROVE /\ ~ use_async_scheduling => async_output_queue'[w] = <<>>
            /\ \A i, j \in 1 .. Len(OnTheWay(w)') :
                  i < j => OnTheWay(w)'[i].call < OnTheWay(w)'[j].call
            /\ \A i \in 1 .. Len(OnTheWay(w)') :
                  /\ OnTheWay(w)'[i].call \in 1 .. Len(received'[w])
                  /\ Replies(w, OnTheWay(w)[i].call)'
    BY DEF RepliesInOrder
  <2>1. OnTheWay(w)' = OnTheWay(w) /\ (~ use_async_scheduling => async_output_queue'[w] = <<>>)
    BY DEF Undisturbed
  <2>2. \A i \in 1 .. Len(OnTheWay(w)) : OnTheWay(w)[i].call \in 1 .. Len(calls)
    BY <1>1 DEF ExecutorInv, RepliesInOrder
  <2> QED BY <1>2, <1>3, <2>1, <2>2 DEF ExecutorInv, RepliesInOrder
<1>6. QueuesMatchFutures'
  <2> SUFFICES ASSUME Clean' PROVE
        /\ \A w \in Worker :
             /\ \A i \in 1 .. Len(OnTheWay(w)') : Unread(w, OnTheWay(w)[i].call)'
             /\ \A d \in 1 .. Len(received'[w]) : Replies(w, d)' /\ Unread(w, d)' =>
                  \E i \in 1 .. Len(OnTheWay(w)') : OnTheWay(w)'[i].call = d
             /\ \A d \in DOMAIN future' : Replies(w, d)' /\ ~ Unread(w, d)' =>
                  d <= Len(received'[w]) \/ future'[d].replies = 0
        /\ \A i \in 1 .. Len(main'.from) : main'.from[i] = main'.current
    BY DEF QueuesMatchFutures
  <2>0. Clean
    BY <1>3 DEF Clean
  <2>1. ASSUME NEW w \in Worker PROVE
             /\ \A i \in 1 .. Len(OnTheWay(w)') : Unread(w, OnTheWay(w)[i].call)'
             /\ \A d \in 1 .. Len(received'[w]) : Replies(w, d)' /\ Unread(w, d)' =>
                  \E i \in 1 .. Len(OnTheWay(w)') : OnTheWay(w)'[i].call = d
             /\ \A d \in DOMAIN future' : Replies(w, d)' /\ ~ Unread(w, d)' =>
                  d <= Len(received'[w]) \/ future'[d].replies = 0
    <3>1. /\ OnTheWay(w)' = OnTheWay(w)
          /\ \A d \in Nat : Unread(w, d)' <=> Unread(w, d)
      BY DEF Undisturbed
    <3>2. \A i \in 1 .. Len(OnTheWay(w)) : OnTheWay(w)[i].call \in Nat
      BY <1>1 DEF ExecutorInv, RepliesInOrder
    <3>3. \A i \in 1 .. Len(OnTheWay(w)') : Unread(w, OnTheWay(w)[i].call)'
      BY <2>0, <3>1, <3>2 DEF ExecutorInv, QueuesMatchFutures
    <3>4. \A d \in 1 .. Len(received'[w]) : Replies(w, d)' /\ Unread(w, d)' =>
                  \E i \in 1 .. Len(OnTheWay(w)') : OnTheWay(w)'[i].call = d
      BY <1>1, <1>2, <1>3, <2>0, <3>1 DEF ExecutorInv, QueuesMatchFutures
    <3>5. \A d \in DOMAIN future' : Replies(w, d)' /\ ~ Unread(w, d)' =>
                  d <= Len(received'[w]) \/ future'[d].replies = 0
      BY <1>1, <1>2, <1>3, <2>0, <3>1 DEF ExecutorInv, QueuesMatchFutures
    <3> QED BY <3>3, <3>4, <3>5
  <2>2. \A i \in 1 .. Len(main'.from) : main'.from[i] = main'.current
    BY <2>0 DEF Undisturbed, ExecutorInv, QueuesMatchFutures, Typed
  <2> QED BY <2>1, <2>2
<1>7. ResultsOfOwnCallUntilError'
  BY <1>1, <1>2, <1>3 DEF ResultsOfOwnCallUntilError, ExecutorInv
<1> QED BY <1>4, <1>5, <1>6, <1>7

\* The types of a future.
LEMMA FutureTypes ==
  ASSUME ExecutorInv, NEW d \in 1 .. Len(future)
  PROVE  /\ future[d] \in [status : {"pending", "result", "exception"},
                           replies : Nat, from : Seq(Nat)]
         /\ future[d].replies \in Nat /\ future[d].from \in Seq(Nat)
<1>1. future \in Seq([status : {"pending", "result", "exception"},
                     replies : Nat, from : Seq(Nat)])
  BY DEF ExecutorInv, Typed
<1>2. future[d] \in [status : {"pending", "result", "exception"},
                    replies : Nat, from : Seq(Nat)]
  BY ZenonT(90), <1>1, ElementOf
<1> QED BY <1>2

\* result() on a future, and its return, change where the main thread is.
LEMMA MoveOn ==
  ASSUME ExecutorInv,
         UNCHANGED <<channel, calls, futures, outputs, process, errors>>,
         main.pc \in {"idle", "result"}, main'.pc \in {"idle", "result"},
         NEW pc, NEW target \in Nat,
         main' = [main EXCEPT !.pc = pc, !.target = target],
         main'.pc = "result" => target \in DOMAIN future
  PROVE  ExecutorInv'
<1> USE DEF channel, futures, outputs, process
<1>1. main \in [pc : {"idle", "enqueue", "result", "get_response"},
                target : Nat, current : Nat, from : Seq(Nat)]
  BY DEF ExecutorInv, Typed
<1>2. /\ main'.target = target /\ main'.from = main.from
      /\ main'.current = main.current
      /\ main' \in [pc : {"idle", "enqueue", "result", "get_response"},
                    target : Nat, current : Nat, from : Seq(Nat)]
  BY <1>1, Zenon
<1>3. Popped' = Popped /\ ~ Waiting /\ ~ Waiting'
  BY DEF Popped, Waiting
<1>4. Undisturbed
  BY ZenonT(90), <1>2, <1>3 DEF Undisturbed, OnTheWay, Unread, ExecutorInv, RepliesInOrder
<1>5. Typed'
  BY <1>2 DEF ExecutorInv, Typed
<1>6. CallsInStep' /\ FuturesInOrder'
  BY <1>2, <1>3 DEF ExecutorInv, CallsInStep, FuturesInOrder
<1> QED BY <1>4, <1>5, <1>6, UndisturbedOK DEF ExecutorInv

\* A call appends to the calls made, and nobody has heard of it yet.
LEMMA CollectiveRpcOK ==
  ASSUME ExecutorInv, NEW output_rank \in OutputRank, NEW non_block \in BOOLEAN,
         collective_rpc(output_rank, non_block)
  PROVE  ExecutorInv'
<1> DEFINE c == [output_rank |-> output_rank, non_block |-> non_block]
<1>0. /\ main.pc = "idle" /\ ~ is_failed /\ calls' = Append(calls, c)
      /\ main' = [main EXCEPT !.pc = "enqueue"]
      /\ sent' = sent /\ received' = received
      /\ futures_queue' = futures_queue /\ future' = future
      /\ async_output_queue' = async_output_queue /\ response_mq' = response_mq
      /\ is_failed' = is_failed /\ shut_down' = shut_down /\ alive' = alive
  BY DEF collective_rpc, channel, futures, outputs, process
<1>1. main \in [pc : {"idle", "enqueue", "result", "get_response"},
                target : Nat, current : Nat, from : Seq(Nat)]
  BY DEF ExecutorInv, Typed
<1>2. /\ main'.pc = "enqueue" /\ main'.target = main.target
      /\ main'.from = main.from /\ main'.current = main.current
      /\ main' \in [pc : {"idle", "enqueue", "result", "get_response"},
                    target : Nat, current : Nat, from : Seq(Nat)]
  BY <1>0, <1>1, Zenon
<1>3. Popped' = Popped /\ ~ Waiting /\ ~ Waiting'
  BY <1>0, <1>2 DEF Popped, Waiting
<1>4. /\ calls' \in Seq([output_rank : OutputRank, non_block : BOOLEAN])
      /\ Len(calls') = Len(calls) + 1
      /\ \A d \in 1 .. Len(calls) : calls'[d] = calls[d]
  <2>1. calls \in Seq([output_rank : OutputRank, non_block : BOOLEAN])
    BY DEF ExecutorInv, Typed
  <2>2. c \in [output_rank : OutputRank, non_block : BOOLEAN]
    OBVIOUS
  <2> HIDE DEF c
  <2> QED BY <1>0, <2>1, <2>2
<1>5. Undisturbed
  BY ZenonT(90), <1>0, <1>2, <1>3, <1>4 DEF Undisturbed, OnTheWay, Unread, ExecutorInv, RepliesInOrder
<1>6. Typed'
  BY <1>0, <1>2, <1>4 DEF ExecutorInv, Typed
<1>7. CallsInStep'
  <2>1. ~ shut_down
    BY <1>0, Zenon DEF ExecutorInv, CallsInStep
  <2>2. sent = Len(calls) /\ Len(future) = sent
    BY <1>0, <2>1, Zenon DEF ExecutorInv, CallsInStep
  <2>3. sent' = Len(future') /\ Len(calls') = Len(future') + 1
    BY <1>0, <1>4, <2>2
  <2> QED BY <1>0, <1>2, <2>3, Zenon DEF ExecutorInv, CallsInStep
<1>8. FuturesInOrder'
  BY <1>0, <1>2, <1>3 DEF ExecutorInv, FuturesInOrder
<1> QED BY <1>5, <1>6, <1>7, <1>8, UndisturbedOK DEF ExecutorInv

\* A worker dies, the monitor notices, shutdown() drops the queues: the calls,
\* the futures and the responses on their way stay.
LEMMA ProcessOK ==
  ASSUME ExecutorInv,
         UNCHANGED <<channel, calls, main, futures, outputs, errors>>,
         is_failed' \in BOOLEAN, shut_down' \in BOOLEAN,
         alive' \in [Worker -> BOOLEAN],
         shut_down => shut_down', shut_down' => is_failed',
         is_failed' => \A w \in Worker : ~ alive'[w]
  PROVE  ExecutorInv'
<1> USE DEF channel, futures, outputs
<1>1. Popped' = Popped /\ (Waiting' <=> Waiting) /\ ReadFrom' = ReadFrom
  BY DEF Popped, Waiting, ReadFrom, ReplyRank
<1>2. Undisturbed
  BY ZenonT(90), <1>1 DEF Undisturbed, OnTheWay, Unread, ExecutorInv, RepliesInOrder
<1>3. Typed'
  BY DEF ExecutorInv, Typed
<1>4. CallsInStep'
  BY Zenon DEF ExecutorInv, CallsInStep
<1>5. FuturesInOrder'
  BY <1>1, Zenon DEF ExecutorInv, FuturesInOrder
<1> QED BY <1>2, <1>3, <1>4, <1>5, UndisturbedOK DEF ExecutorInv

\* The output thread passes a response on.
LEMMA EnqueueOutputOK ==
  ASSUME ExecutorInv, NEW w \in Worker, enqueue_output(w)
  PROVE  ExecutorInv'
<1> DEFINE R == [call : Nat, success : BOOLEAN]
<1>0. /\ async_output_queue[w] # <<>>
      /\ response_mq' = [response_mq EXCEPT ![w] = Append(@, Head(async_output_queue[w]))]
      /\ async_output_queue' = [async_output_queue EXCEPT ![w] = Tail(@)]
      /\ sent' = sent /\ received' = received /\ calls' = calls /\ main' = main
      /\ futures_queue' = futures_queue /\ future' = future
      /\ is_failed' = is_failed /\ shut_down' = shut_down /\ alive' = alive
  BY DEF enqueue_output, channel, process
<1>1. /\ response_mq \in [Worker -> Seq(R)] /\ async_output_queue \in [Worker -> Seq(R)]
  BY DEF ExecutorInv, Typed
<1> HIDE DEF R
<1>2. /\ response_mq' \in [Worker -> Seq(R)] /\ async_output_queue' \in [Worker -> Seq(R)]
      /\ response_mq'[w] = Append(response_mq[w], Head(async_output_queue[w]))
      /\ async_output_queue'[w] = Tail(async_output_queue[w])
      /\ \A v \in Worker \ {w} : /\ response_mq'[v] = response_mq[v]
                                 /\ async_output_queue'[v] = async_output_queue[v]
  <2>1. /\ Append(response_mq[w], Head(async_output_queue[w])) \in Seq(R)
        /\ Tail(async_output_queue[w]) \in Seq(R)
    BY <1>0, <1>1
  <2> QED BY <1>0, <1>1, <2>1, AtWorker, ZenonT(90)
<1>3. \A v \in Worker : OnTheWay(v)' = OnTheWay(v)
  <2>2. response_mq[w] \in Seq(R) /\ async_output_queue[w] \in Seq(R)
    BY <1>1
  <2>3. response_mq'[w] \o async_output_queue'[w] = response_mq[w] \o async_output_queue[w]
    BY <1>0, <1>2, <2>2, MoveHead
  <2> QED BY <1>2, <2>3, Zenon DEF OnTheWay
<1>4. Popped' = Popped /\ (Waiting' <=> Waiting) /\ ReadFrom' = ReadFrom
  BY <1>0 DEF Popped, Waiting, ReadFrom, ReplyRank
<1>5. use_async_scheduling
  BY <1>0, Zenon DEF ExecutorInv, RepliesInOrder
<1>6. Undisturbed
  BY <1>0, <1>3, <1>4, <1>5 DEF Undisturbed, Unread
<1>7. Typed'
  BY <1>0, <1>2 DEF ExecutorInv, Typed, R
<1>8. CallsInStep'
  BY <1>0, Zenon DEF ExecutorInv, CallsInStep
<1>9. FuturesInOrder'
  BY <1>0, <1>4, Zenon DEF ExecutorInv, FuturesInOrder
<1> QED BY <1>6, <1>7, <1>8, <1>9, UndisturbedOK DEF ExecutorInv

\* The future popped is the oldest pending one, and none of its responses has
\* been read.
LEMMA PopFutureOK ==
  ASSUME ExecutorInv, pop_future
  PROVE  ExecutorInv'
<1>0. /\ main.pc = "result" /\ future[main.target].status = "pending"
      /\ main' = [main EXCEPT !.pc = "get_response", !.current = Head(futures_queue)]
      /\ futures_queue' = Tail(futures_queue)
      /\ sent' = sent /\ received' = received /\ calls' = calls /\ future' = future
      /\ async_output_queue' = async_output_queue /\ response_mq' = response_mq
      /\ is_failed' = is_failed /\ shut_down' = shut_down /\ alive' = alive
  BY DEF pop_future, channel, outputs, process
<1>1. /\ main \in [pc : {"idle", "enqueue", "result", "get_response"},
                   target : Nat, current : Nat, from : Seq(Nat)]
      /\ futures_queue \in Seq(Nat)
  BY DEF ExecutorInv, Typed
<1>2. /\ main.target \in DOMAIN future /\ ~ Waiting /\ main.from = <<>>
      /\ \A i \in DOMAIN futures_queue : futures_queue[i] = Popped + i
      /\ \A d \in DOMAIN future : future[d].status = "pending" <=> d > Popped
  BY <1>0, Zenon DEF ExecutorInv, FuturesInOrder, Waiting
<1>3. /\ Popped \in Nat /\ Len(future) \in Nat /\ Popped < Len(future)
      /\ Len(futures_queue) = Len(future) - Popped
  <2>1. main.target > Popped
    BY <1>0, <1>2
  <2> QED BY <1>2, <2>1, Lengths DEF Popped
<1>4. /\ futures_queue # <<>> /\ Head(futures_queue) = Popped + 1
      /\ futures_queue' \in Seq(Nat) /\ Len(futures_queue') = Len(futures_queue) - 1
      /\ \A i \in 1 .. Len(futures_queue') : futures_queue'[i] = (Popped + 1) + i
  <2>1. /\ futures_queue # <<>> /\ Len(futures_queue) \in Nat
        /\ \A i \in 1 .. Len(futures_queue) : futures_queue[i] = Popped + i
    <3>1. DOMAIN futures_queue = 1 .. Len(futures_queue)
      BY <1>1
    <3>2. \A i \in 1 .. Len(futures_queue) : futures_queue[i] = Popped + i
      BY <1>2, <3>1, Zenon
    <3>3. Len(futures_queue) \in Nat /\ Len(futures_queue) # 0
      BY <1>3
    <3> QED BY <3>2, <3>3
  <2>2. /\ Tail(futures_queue) \in Seq(Nat)
        /\ Len(Tail(futures_queue)) = Len(futures_queue) - 1
        /\ \A i \in 1 .. Len(futures_queue) - 1 : Tail(futures_queue)[i] = futures_queue[i + 1]
    BY <1>1, <2>1
  <2>3. Head(futures_queue) = Popped + 1
    BY <1>1, <1>3, <2>1
  <2>4. ASSUME NEW i \in 1 .. Len(futures_queue) - 1
        PROVE  Tail(futures_queue)[i] = (Popped + 1) + i
    <3>1. i + 1 \in 1 .. Len(futures_queue) /\ Popped + (i + 1) = (Popped + 1) + i
      BY <1>3
    <3> QED BY <2>1, <2>2, <3>1
  <2> QED BY <1>0, <2>1, <2>2, <2>3, <2>4
<1>5. /\ main'.pc = "get_response" /\ main'.target = main.target /\ main'.from = <<>>
      /\ main'.current = Popped + 1
      /\ main' \in [pc : {"idle", "enqueue", "result", "get_response"},
                    target : Nat, current : Nat, from : Seq(Nat)]
  <2>1. Popped + 1 \in Nat
    BY <1>3
  <2> QED BY <1>0, <1>1, <1>2, <1>4, <2>1, Zenon
<1>6. Popped' = Popped + 1 /\ Waiting' /\ ReadFrom' = {}
  <2>1. Len(main'.from) = 0
    BY <1>5
  <2>2. 0 .. Len(main'.from) - 1 = {}
    BY <2>1
  <2>3. ReadFrom' = {}
    BY <2>2, Zenon DEF ReadFrom
  <2>4. Popped' = Popped + 1
    BY <1>0, <1>3, <1>4 DEF Popped
  <2> QED BY <1>5, <2>3, <2>4 DEF Waiting
<1>7. Undisturbed
  <2>1. \A w \in Worker, d \in Nat : Unread(w, d)' <=> Unread(w, d)
    BY <1>2, <1>3, <1>6 DEF Unread
  <2> QED BY ZenonT(90), <1>0, <1>2, <1>5, <2>1 DEF Undisturbed, OnTheWay, ExecutorInv, RepliesInOrder
<1>8. Typed'
  BY ZenonT(90), <1>0, <1>4, <1>5 DEF ExecutorInv, Typed
<1>9. CallsInStep'
  BY <1>0, <1>5, Zenon DEF ExecutorInv, CallsInStep
<1>10. FuturesInOrder'
  <2>1. Len(futures_queue') <= Len(future')
    BY <1>0, <1>3, <1>4
  <2>2. \A i \in DOMAIN futures_queue' : futures_queue'[i] = Popped' + i
    BY <1>4, <1>6
  <2>3. \A d \in DOMAIN future' : future'[d].status = "pending" <=>
                                 d > Popped' \/ (Waiting' /\ d = Popped')
    BY <1>0, <1>2, <1>3, <1>6, Lengths
  <2>4. future[Popped + 1].replies \in Nat
    BY <1>3, FutureTypes
  <2>5. /\ main'.current = Popped' /\ Popped' > 0
        /\ Len(main'.from) <= future'[Popped'].replies
    BY <1>0, <1>3, <1>5, <1>6, <2>4
  <2> QED BY <1>0, <1>2, <1>5, <1>6, <2>1, <2>2, <2>3, <2>5, Zenon DEF FuturesInOrder
<1> QED BY <1>7, <1>8, <1>9, <1>10, UndisturbedOK DEF ExecutorInv

-----------------------------------------------------------------------------
(***************************************************************************)
(* A call gets its future.                                                 *)
(***************************************************************************)
\* The broadcast of a call that finds the executor shut down creates no future.
LEMMA EnqueueRaisesOK ==
  ASSUME ExecutorInv, enqueue_call, shut_down, calls[Len(calls)].output_rank # None
  PROVE  ExecutorInv'
<1>0. /\ main.pc = "enqueue" /\ main' = [main EXCEPT !.pc = "idle"]
      /\ sent' = sent + 1 /\ received' = received /\ calls' = calls
      /\ futures_queue' = futures_queue /\ future' = future
      /\ async_output_queue' = async_output_queue /\ response_mq' = response_mq
      /\ is_failed' = is_failed /\ shut_down' = shut_down /\ alive' = alive
  BY Zenon DEF enqueue_call, Enqueue, futures, process
<1>1. main \in [pc : {"idle", "enqueue", "result", "get_response"},
                target : Nat, current : Nat, from : Seq(Nat)]
  BY DEF ExecutorInv, Typed
<1>2. /\ main'.pc = "idle" /\ main'.target = main.target
      /\ main'.from = main.from /\ main'.current = main.current
      /\ main' \in [pc : {"idle", "enqueue", "result", "get_response"},
                    target : Nat, current : Nat, from : Seq(Nat)]
  BY <1>0, <1>1, Zenon
<1>3. Popped' = Popped /\ ~ Waiting /\ ~ Waiting'
  BY <1>0, <1>2 DEF Popped, Waiting
<1>5. Undisturbed
  BY ZenonT(90), <1>0, <1>2, <1>3 DEF Undisturbed, OnTheWay, Unread, ExecutorInv, RepliesInOrder
<1>6. Typed'
  BY <1>0, <1>2 DEF ExecutorInv, Typed
<1>7. CallsInStep'
  <2>1. sent = Len(future) /\ Len(calls) = Len(future) + 1
    BY <1>0, Zenon DEF ExecutorInv, CallsInStep
  <2>2. sent' = Len(calls') /\ Len(future') <= sent' /\ sent <= sent'
    BY <1>0, <2>1, Lengths
  <2>3. ASSUME NEW w \in Worker PROVE Len(received'[w]) <= sent'
    <3>1. Len(received[w]) <= sent
      BY Zenon DEF ExecutorInv, CallsInStep
    <3> QED BY <1>0, <2>2, <3>1, Lengths
  <2> QED BY <1>0, <1>2, <2>2, <2>3, Zenon DEF ExecutorInv, CallsInStep
<1>8. FuturesInOrder'
  BY <1>0, <1>2, <1>3 DEF ExecutorInv, FuturesInOrder
<1> QED BY <1>5, <1>6, <1>7, <1>8, UndisturbedOK DEF ExecutorInv

\* Otherwise its future joins the queue as the youngest.
LEMMA CreateFutureOK ==
  ASSUME ExecutorInv, enqueue_call, ~ (shut_down /\ calls[Len(calls)].output_rank # None)
  PROVE  ExecutorInv'
<1> DEFINE F == [status : {"pending", "result", "exception"}, replies : Nat, from : Seq(Nat)]
           c == Len(calls)
           f == [Pending EXCEPT !.replies = IF shut_down THEN 0 ELSE NumReplies(c)]
<1>0. /\ main.pc = "enqueue" /\ sent' = sent + 1 /\ received' = received /\ calls' = calls
      /\ futures_queue' = Append(futures_queue, c) /\ future' = Append(future, f)
      /\ main' = IF calls[c].non_block THEN [main EXCEPT !.pc = "idle"]
                 ELSE [main EXCEPT !.pc = "result", !.target = c]
      /\ async_output_queue' = async_output_queue /\ response_mq' = response_mq
      /\ is_failed' = is_failed /\ shut_down' = shut_down /\ alive' = alive
  BY Zenon DEF enqueue_call, create_future, Enqueue, process
<1>1. /\ main \in [pc : {"idle", "enqueue", "result", "get_response"},
                   target : Nat, current : Nat, from : Seq(Nat)]
      /\ futures_queue \in Seq(Nat) /\ future \in Seq(F)
  BY DEF ExecutorInv, Typed
<1>2. /\ sent = Len(future) /\ c = Len(future) + 1 /\ c \in Nat /\ Len(future) \in Nat
  <2>1. sent = Len(future) /\ c = Len(future) + 1
    BY <1>0, Zenon DEF ExecutorInv, CallsInStep
  <2> QED BY <2>1, Lengths
<1>3. /\ main'.pc \in {"idle", "result"} /\ (main'.pc = "result" => main'.target = c)
      /\ main'.from = main.from /\ main'.current = main.current
      /\ main' \in [pc : {"idle", "enqueue", "result", "get_response"},
                    target : Nat, current : Nat, from : Seq(Nat)]
  <2>1. CASE calls[c].non_block
    <3>1. main' = [main EXCEPT !.pc = "idle"]
      BY <1>0, <2>1
    <3> QED BY <3>1, <1>1, Zenon
  <2>2. CASE ~ calls[c].non_block
    <3>1. main' = [main EXCEPT !.pc = "result", !.target = c]
      BY <1>0, <2>2
    <3> QED BY <3>1, <1>1, <1>2, Zenon
  <2> QED BY <2>1, <2>2
<1>4. /\ f.status = "pending" /\ f.replies = (IF shut_down THEN 0 ELSE NumReplies(c)) /\ f \in F
  <2>1. Pending \in F /\ Pending.status = "pending"
    <3>1. Pending.from \in Seq(Nat)
      BY DEF Pending
    <3> QED BY <3>1, Zenon DEF Pending
  <2>2. (IF shut_down THEN 0 ELSE NumReplies(c)) \in Nat
    BY ExecutorAssumption DEF NumReplies
  <2> QED BY <2>1, <2>2, Zenon
<1> HIDE DEF F, f
<1>5. /\ future' \in Seq(F) /\ Len(future') = c
      /\ \A d \in 1 .. Len(future) : future'[d] = future[d]
      /\ future'[c] = f
  BY <1>0, <1>1, <1>2, <1>4
<1>6. /\ futures_queue' \in Seq(Nat) /\ Len(futures_queue') = Len(futures_queue) + 1
      /\ \A i \in 1 .. Len(futures_queue) : futures_queue'[i] = futures_queue[i]
      /\ futures_queue'[Len(futures_queue) + 1] = c
  BY <1>0, <1>1, <1>2
<1>7. Popped' = Popped /\ ~ Waiting /\ ~ Waiting' /\ Popped \in Nat /\ c > Popped
  <2>1. Popped' = Popped
    BY <1>2, <1>5, <1>6, Lengths DEF Popped
  <2> QED BY <1>0, <1>2, <1>3, <2>1, Lengths DEF Waiting
<1>8. Typed'
  <2>1. future' \in Seq(F) /\ sent' \in Nat
    BY <1>0, <1>2, <1>5
  <2> QED BY <1>0, <1>3, <1>6, <2>1, Zenon DEF ExecutorInv, Typed, F
<1>9. CallsInStep'
  <2>2. sent' = Len(calls') /\ Len(future') = sent' /\ sent <= sent' /\ Len(future') <= sent'
    BY <1>0, <1>2, <1>5
  <2>3. ASSUME NEW w \in Worker PROVE Len(received'[w]) <= sent'
    <3>1. Len(received[w]) <= sent
      BY Zenon DEF ExecutorInv, CallsInStep
    <3> QED BY <1>0, <2>2, <3>1, Lengths
  <2>4. main'.pc # "enqueue"
    BY <1>3
  <2> QED BY <1>0, <2>2, <2>3, <2>4, Zenon DEF ExecutorInv, CallsInStep
<1>10. FuturesInOrder'
  <2>1. Len(futures_queue') <= Len(future')
    <3>1. Len(futures_queue) <= Len(future)
      BY Zenon DEF ExecutorInv, FuturesInOrder
    <3> QED BY <1>2, <1>5, <1>6, <3>1, Lengths
  <2>2. ASSUME NEW i \in DOMAIN futures_queue' PROVE futures_queue'[i] = Popped' + i
    <3>0. /\ Len(futures_queue) \in Nat /\ DOMAIN futures_queue' = 1 .. Len(futures_queue')
          /\ Popped + (Len(futures_queue) + 1) = c
      BY <1>2, <1>6, Lengths DEF Popped
    <3>1. CASE i \in 1 .. Len(futures_queue)
      <4>1. futures_queue[i] = Popped + i
        <5>1. i \in DOMAIN futures_queue
          BY <3>1, Lengths
        <5> QED BY <5>1, Zenon DEF ExecutorInv, FuturesInOrder
      <4> QED BY <1>6, <1>7, <3>1, <4>1
    <3>2. CASE i = Len(futures_queue) + 1
      BY <1>6, <1>7, <3>0, <3>2
    <3>3. i \in 1 .. Len(futures_queue) \/ i = Len(futures_queue) + 1
      BY <1>6, <3>0
    <3> QED BY <3>1, <3>2, <3>3
  <2>3. ASSUME NEW d \in DOMAIN future'
        PROVE  future'[d].status = "pending" <=> d > Popped' \/ (Waiting' /\ d = Popped')
    <3>1. DOMAIN future' = 1 .. c
      BY <1>5
    <3>2. CASE d = c
      BY <1>4, <1>5, <1>7, <3>2
    <3>3. CASE d \in 1 .. Len(future)
      <4>1. future[d].status = "pending" <=> d > Popped
        <5>1. d \in DOMAIN future
          BY <3>3, Lengths
        <5> QED BY <1>7, <5>1, Zenon DEF ExecutorInv, FuturesInOrder
      <4> QED BY <1>5, <1>7, <3>3, <4>1
    <3>4. d = c \/ d \in 1 .. Len(future)
      BY <1>2, <3>1
    <3> QED BY <3>2, <3>3, <3>4
  <2>4. main'.pc \in {"result", "get_response"} => main'.target \in DOMAIN future'
    <3>1. c \in DOMAIN future'
      BY <1>2, <1>5
    <3> QED BY <1>3, <3>1
  <2>5. main'.from = <<>>
    BY <1>3, <1>7, Zenon DEF ExecutorInv, FuturesInOrder
  <2> QED BY <1>7, <2>1, <2>2, <2>3, <2>4, <2>5, Zenon DEF FuturesInOrder
<1>11. RepliesSet'
  <2> SUFFICES ASSUME NEW d \in DOMAIN future'
      PROVE  \/ future'[d].replies = NumReplies(d)'
             \/ /\ future'[d].replies = 0 /\ shut_down'
                /\ \A w \in Worker : Len(received'[w]) < d
    BY Zenon DEF RepliesSet
  <2>1. d = c \/ d \in 1 .. Len(future)
    <3>1. DOMAIN future' = 1 .. c
      BY <1>5
    <3> QED BY <1>2, <3>1
  <2>2. NumReplies(d)' = NumReplies(d)
    BY <1>0 DEF NumReplies
  <2>3. CASE d = c
    <3>1. ASSUME NEW w \in Worker PROVE Len(received[w]) < c
      <4>1. Len(received[w]) <= sent
        BY Zenon DEF ExecutorInv, CallsInStep
      <4> QED BY <1>2, <4>1, Lengths
    <3> QED BY <1>0, <1>4, <1>5, <2>2, <2>3, <3>1
  <2>4. CASE d \in 1 .. Len(future)
    <3>1. d \in DOMAIN future
      BY <2>4, Lengths
    <3>2. future'[d] = future[d]
      BY <1>5, <2>4
    <3> QED BY <1>0, <2>2, <3>1, <3>2, Zenon DEF ExecutorInv, RepliesSet
  <2> QED BY <2>1, <2>3, <2>4
<1>12. /\ \A w \in Worker : OnTheWay(w)' = OnTheWay(w)
       /\ \A w, d : Replies(w, d)' <=> Replies(w, d)
       /\ \A w, d : Unread(w, d)' <=> Unread(w, d)
  BY <1>0, <1>7 DEF OnTheWay, Replies, Unread
<1>13. RepliesInOrder'
  BY <1>0, <1>12 DEF ExecutorInv, RepliesInOrder
<1>14. QueuesMatchFutures'
  <2> SUFFICES ASSUME Clean' PROVE
        /\ \A w \in Worker :
             /\ \A i \in 1 .. Len(OnTheWay(w)') : Unread(w, OnTheWay(w)[i].call)'
             /\ \A d \in 1 .. Len(received'[w]) : Replies(w, d)' /\ Unread(w, d)' =>
                  \E i \in 1 .. Len(OnTheWay(w)') : OnTheWay(w)'[i].call = d
             /\ \A d \in DOMAIN future' : Replies(w, d)' /\ ~ Unread(w, d)' =>
                  d <= Len(received'[w]) \/ future'[d].replies = 0
        /\ \A i \in 1 .. Len(main'.from) : main'.from[i] = main'.current
    BY DEF QueuesMatchFutures
  <2>0. /\ DOMAIN future' = 1 .. c /\ DOMAIN future = 1 .. Len(future)
        /\ \A d \in 1 .. c : d = c \/ d \in 1 .. Len(future)
        /\ \A d \in 1 .. Len(future) : d \in 1 .. c
    BY <1>2, <1>5, Lengths
  <2>1. Clean
    BY <1>5, <2>0, Zenon DEF Clean
  <2>2. ASSUME NEW w \in Worker PROVE
             /\ \A i \in 1 .. Len(OnTheWay(w)') : Unread(w, OnTheWay(w)[i].call)'
             /\ \A d \in 1 .. Len(received'[w]) : Replies(w, d)' /\ Unread(w, d)' =>
                  \E i \in 1 .. Len(OnTheWay(w)') : OnTheWay(w)'[i].call = d
    BY <1>0, <1>12, <2>1 DEF ExecutorInv, QueuesMatchFutures
  <2>3. ASSUME NEW w \in Worker, NEW d \in DOMAIN future', Replies(w, d)', ~ Unread(w, d)'
        PROVE  d <= Len(received'[w]) \/ future'[d].replies = 0
    <3>1. d # c
      BY <1>7, <2>3 DEF Unread
    <3>2. d \in DOMAIN future /\ future'[d] = future[d]
      BY ZenonT(90), <1>5, <2>0, <3>1
    <3> QED BY <1>0, <1>12, <2>1, <2>3, <3>2, Zenon DEF ExecutorInv, QueuesMatchFutures
  <2>4. \A i \in 1 .. Len(main'.from) : main'.from[i] = main'.current
    BY <1>3, <2>1, Zenon DEF ExecutorInv, QueuesMatchFutures
  <2> QED BY <2>2, <2>3, <2>4
<1>15. ResultsOfOwnCallUntilError'
  <2> SUFFICES ASSUME NEW d \in DOMAIN future', future'[d].status = "result",
                      \A e \in 1 .. d - 1 : future'[e].status # "exception"
      PROVE  \/ future'[d].from = OwnResponses(d)'
             \/ shut_down' /\ future'[d].from = <<>>
    BY Zenon DEF ResultsOfOwnCallUntilError
  <2>1. DOMAIN future' = 1 .. c
    BY <1>5
  <2>2. d # c
    BY <1>4, <1>5
  <2>3. d \in 1 .. Len(future) /\ d \in DOMAIN future
    BY <1>2, <2>1, <2>2, Lengths
  <2>4. \A e \in 1 .. d - 1 : e \in 1 .. Len(future)
    BY <1>2, <2>3
  <2>5. OwnResponses(d)' = OwnResponses(d)
    BY <1>0 DEF OwnResponses, NumReplies
  <2> QED BY <1>0, <1>5, <2>3, <2>4, <2>5, Zenon DEF ExecutorInv, ResultsOfOwnCallUntilError
<1> QED BY <1>8, <1>9, <1>10, <1>11, <1>13, <1>14, <1>15 DEF ExecutorInv

-----------------------------------------------------------------------------
(***************************************************************************)
(* A worker executes a call.                                               *)
(***************************************************************************)
\* The response to the call, if the worker has to reply, is its last one on the
\* way, and nobody has read it.
LEMMA ExecuteOK ==
  ASSUME ExecutorInv, NEW w \in Worker, NEW success \in BOOLEAN, execute(w, success)
  PROVE  ExecutorInv'
<1> DEFINE R == [call : Nat, success : BOOLEAN]
           c == Len(received[w]) + 1
           e == [call |-> c, success |-> success]
<1>0. /\ alive[w] /\ Len(received[w]) < sent /\ sent' = sent
      /\ received' = [received EXCEPT ![w] = Append(@, Len(@) + 1)]
      /\ calls' = calls /\ main' = main /\ futures_queue' = futures_queue
      /\ future' = future
      /\ is_failed' = is_failed /\ shut_down' = shut_down /\ alive' = alive
  BY Zenon DEF execute, Dequeue, process
<1>1. IF ~ Replies(w, c) THEN UNCHANGED outputs
      ELSE IF use_async_scheduling
      THEN /\ async_output_queue' = [async_output_queue EXCEPT ![w] = Append(@, e)]
           /\ UNCHANGED response_mq
      ELSE /\ response_mq' = [response_mq EXCEPT ![w] = Append(@, e)]
           /\ UNCHANGED async_output_queue
  BY Zenon DEF execute
<1>2. /\ received \in [Worker -> Seq(Nat)] /\ response_mq \in [Worker -> Seq(R)]
      /\ async_output_queue \in [Worker -> Seq(R)]
  BY DEF ExecutorInv, Typed, Worker
<1>3. /\ Len(received[w]) \in Nat /\ c \in Nat /\ c <= Len(calls) /\ c \in 1 .. Len(calls)
      /\ c <= sent
  BY <1>0, Lengths
<1>4. e \in R /\ e.call = c
  BY <1>3
<1> HIDE DEF e, R
<1>5. /\ received' \in [Worker -> Seq(Nat)] /\ Len(received'[w]) = c
      /\ \A v \in Worker \ {w} : received'[v] = received[v]
  <2>1. Append(received[w], c) \in Seq(Nat) /\ Len(Append(received[w], c)) = c
    BY <1>2, <1>3
  <2>2. received' = [received EXCEPT ![w] = Append(received[w], c)]
    BY <1>0, Zenon
  <2> QED BY <1>2, <2>1, <2>2, AtWorker, Zenon
<1>6. ~ shut_down
  BY <1>0, Zenon DEF ExecutorInv, CallsInStep
<1>7. /\ response_mq' \in [Worker -> Seq(R)] /\ async_output_queue' \in [Worker -> Seq(R)]
      /\ ~ use_async_scheduling => \A v \in Worker : async_output_queue'[v] = <<>>
      /\ \A v \in Worker \ {w} : OnTheWay(v)' = OnTheWay(v)
      /\ OnTheWay(w)' = IF Replies(w, c) THEN Append(OnTheWay(w), e) ELSE OnTheWay(w)
  <2>0. ~ use_async_scheduling => \A v \in Worker : async_output_queue[v] = <<>>
    BY Zenon DEF ExecutorInv, RepliesInOrder
  <2>1. CASE ~ Replies(w, c)
    BY <1>1, <1>2, <2>0, <2>1, Zenon DEF outputs, OnTheWay
  <2>2. CASE Replies(w, c) /\ use_async_scheduling
    <3>1. /\ async_output_queue' = [async_output_queue EXCEPT ![w] = Append(async_output_queue[w], e)]
          /\ response_mq' = response_mq
      BY <1>1, <2>2, Zenon
    <3>2. Append(async_output_queue[w], e) \in Seq(R)
      BY <1>2, <1>4
    <3>3. /\ async_output_queue' \in [Worker -> Seq(R)]
          /\ async_output_queue'[w] = Append(async_output_queue[w], e)
          /\ \A v \in Worker \ {w} : async_output_queue'[v] = async_output_queue[v]
      BY <1>2, <3>1, <3>2, AtWorker, Zenon
    <3>4. response_mq[w] \o Append(async_output_queue[w], e)
            = Append(response_mq[w] \o async_output_queue[w], e)
      BY <1>2, <1>4, AppendLast
    <3> QED BY <1>2, <2>2, <3>1, <3>3, <3>4, Zenon DEF OnTheWay
  <2>3. CASE Replies(w, c) /\ ~ use_async_scheduling
    <3>1. /\ response_mq' = [response_mq EXCEPT ![w] = Append(response_mq[w], e)]
          /\ async_output_queue' = async_output_queue
      BY <1>1, <2>3, Zenon
    <3>2. Append(response_mq[w], e) \in Seq(R)
      BY <1>2, <1>4
    <3>3. /\ response_mq' \in [Worker -> Seq(R)]
          /\ response_mq'[w] = Append(response_mq[w], e)
          /\ \A v \in Worker \ {w} : response_mq'[v] = response_mq[v]
      BY <1>2, <3>1, <3>2, AtWorker, Zenon
    <3>4. Append(response_mq[w], e) \o <<>> = Append(response_mq[w] \o <<>>, e)
      BY <1>2, <1>4, AppendOnly
    <3> QED BY <1>2, <2>0, <2>3, <3>1, <3>3, <3>4, Zenon DEF OnTheWay
  <2> QED BY <2>1, <2>2, <2>3
<1>8. /\ Popped' = Popped /\ (Waiting' <=> Waiting) /\ ReadFrom' = ReadFrom /\ (Clean' <=> Clean)
      /\ \A v, d : Unread(v, d)' <=> Unread(v, d)
      /\ \A v, d : Replies(v, d)' <=> Replies(v, d)
      /\ \A d : NumReplies(d)' = NumReplies(d) /\ OwnResponses(d)' = OwnResponses(d)
  BY <1>0, Zenon DEF Popped, Waiting, ReadFrom, ReplyRank, Unread, Replies, NumReplies,
     OwnResponses, Clean
<1>9. Typed'
  BY <1>0, <1>5, <1>7, Zenon DEF ExecutorInv, Typed, Worker, R
<1>10. CallsInStep'
  <2>1. ASSUME NEW v \in Worker PROVE Len(received'[v]) <= sent'
    <3>1. Len(received[v]) <= sent
      BY Zenon DEF ExecutorInv, CallsInStep
    <3> QED BY <1>0, <1>3, <1>5, <3>1
  <2> QED BY <1>0, <2>1, Zenon DEF ExecutorInv, CallsInStep
<1>11. FuturesInOrder'
  BY <1>0, <1>8, Zenon DEF ExecutorInv, FuturesInOrder
<1>12. \A d \in DOMAIN future : future[d].replies = NumReplies(d)
  BY <1>6, Zenon DEF ExecutorInv, RepliesSet
<1>13. RepliesSet'
  BY <1>0, <1>8, <1>12, Zenon DEF RepliesSet
<1>14. OnTheWay(w) \in Seq(R) /\ Len(OnTheWay(w)) \in Nat
  BY <1>2 DEF OnTheWay
<1>15. /\ Replies(w, c) => /\ Len(OnTheWay(w)') = Len(OnTheWay(w)) + 1
                           /\ OnTheWay(w)'[Len(OnTheWay(w)) + 1] = e
       /\ ~ Replies(w, c) => OnTheWay(w)' = OnTheWay(w)
       /\ \A i \in 1 .. Len(OnTheWay(w)) : OnTheWay(w)'[i] = OnTheWay(w)[i]
  <2> DEFINE q == OnTheWay(w)
  <2>1. q \in Seq(R) /\ e \in R
    BY <1>4, <1>14
  <2> HIDE DEF q
  <2>2. /\ Len(Append(q, e)) = Len(q) + 1 /\ Append(q, e)[Len(q) + 1] = e
        /\ \A i \in 1 .. Len(q) : Append(q, e)[i] = q[i]
    BY <2>1
  <2> QED BY <1>7, <2>2, Zenon DEF q
<1>16. RepliesInOrder'
  <2> SUFFICES ASSUME NEW v \in Worker
      PROVE /\ ~ use_async_scheduling => async_output_queue'[v] = <<>>
            /\ \A i, j \in 1 .. Len(OnTheWay(v)') :
                  i < j => OnTheWay(v)'[i].call < OnTheWay(v)'[j].call
            /\ \A i \in 1 .. Len(OnTheWay(v)') :
                  /\ OnTheWay(v)'[i].call \in 1 .. Len(received'[v])
                  /\ Replies(v, OnTheWay(v)[i].call)'
    BY DEF RepliesInOrder
  <2>1. CASE v # w
    BY ZenonT(90), <1>5, <1>7, <1>8, <2>1 DEF ExecutorInv, RepliesInOrder
  <2>2. CASE v = w
    <3>0. /\ \A i, j \in 1 .. Len(OnTheWay(w)) :
               i < j => OnTheWay(w)[i].call < OnTheWay(w)[j].call
          /\ \A i \in 1 .. Len(OnTheWay(w)) :
               /\ OnTheWay(w)[i].call \in 1 .. Len(received[w])
               /\ Replies(w, OnTheWay(w)[i].call)
      BY Zenon DEF ExecutorInv, RepliesInOrder
    <3>1. \A i \in 1 .. Len(OnTheWay(w)) : OnTheWay(w)[i].call \in 1 .. c
                                           /\ OnTheWay(w)[i].call < c
      BY <1>3, <3>0
    <3>2. CASE ~ Replies(w, c)
      BY <1>5, <1>7, <1>8, <1>15, <2>2, <3>0, <3>1, <3>2
    <3>3. CASE Replies(w, c)
      <4>1. /\ \A i \in 1 .. Len(OnTheWay(w)') :
                 i \in 1 .. Len(OnTheWay(w)) \/ i = Len(OnTheWay(w)) + 1
            /\ \A i, j \in 1 .. Len(OnTheWay(w)') : i < j => i \in 1 .. Len(OnTheWay(w))
        BY <1>14, <1>15, <3>3
      <4>2. \A i, j \in 1 .. Len(OnTheWay(w)') :
               i < j => OnTheWay(w)'[i].call < OnTheWay(w)'[j].call
        BY <1>4, <1>15, <3>0, <3>1, <3>3, <4>1
      <4>3. \A i \in 1 .. Len(OnTheWay(w)') : OnTheWay(w)'[i].call \in 1 .. c
                                              /\ Replies(w, OnTheWay(w)'[i].call)
        BY <1>3, <1>4, <1>15, <3>0, <3>1, <3>3, <4>1
      <4> QED BY ZenonT(90), <1>5, <1>7, <1>8, <2>2, <4>2, <4>3
    <3> QED BY <3>2, <3>3
  <2> QED BY <2>1, <2>2
<1>17. QueuesMatchFutures'
  <2> SUFFICES ASSUME Clean PROVE
        /\ \A v \in Worker :
             /\ \A i \in 1 .. Len(OnTheWay(v)') : Unread(v, OnTheWay(v)[i].call)'
             /\ \A d \in 1 .. Len(received'[v]) : Replies(v, d)' /\ Unread(v, d)' =>
                  \E i \in 1 .. Len(OnTheWay(v)') : OnTheWay(v)'[i].call = d
             /\ \A d \in DOMAIN future' : Replies(v, d)' /\ ~ Unread(v, d)' =>
                  d <= Len(received'[v]) \/ future'[d].replies = 0
        /\ \A i \in 1 .. Len(main'.from) : main'.from[i] = main'.current
    BY <1>8 DEF QueuesMatchFutures
  <2>0. /\ \A v \in Worker :
             /\ \A i \in 1 .. Len(OnTheWay(v)) : Unread(v, OnTheWay(v)[i].call)
             /\ \A d \in 1 .. Len(received[v]) : Replies(v, d) /\ Unread(v, d) =>
                  \E i \in 1 .. Len(OnTheWay(v)) : OnTheWay(v)[i].call = d
             /\ \A d \in DOMAIN future : Replies(v, d) /\ ~ Unread(v, d) =>
                  d <= Len(received[v]) \/ future[d].replies = 0
        /\ \A i \in 1 .. Len(main.from) : main.from[i] = main.current
    BY ZenonT(90) DEF ExecutorInv, QueuesMatchFutures
  <2>1. ASSUME NEW v \in Worker, v # w PROVE
             /\ \A i \in 1 .. Len(OnTheWay(v)') : Unread(v, OnTheWay(v)[i].call)'
             /\ \A d \in 1 .. Len(received'[v]) : Replies(v, d)' /\ Unread(v, d)' =>
                  \E i \in 1 .. Len(OnTheWay(v)') : OnTheWay(v)'[i].call = d
             /\ \A d \in DOMAIN future' : Replies(v, d)' /\ ~ Unread(v, d)' =>
                  d <= Len(received'[v]) \/ future'[d].replies = 0
    <3>1. received'[v] = received[v] /\ OnTheWay(v)' = OnTheWay(v) /\ future' = future
      BY <1>0, <1>5, <1>7, <2>1
    <3>2. /\ \A d : Unread(v, d)' <=> Unread(v, d)
          /\ \A d : Replies(v, d)' <=> Replies(v, d)
      BY <1>8
    <3>3. \A i \in 1 .. Len(OnTheWay(v)') : Unread(v, OnTheWay(v)[i].call)'
      BY <2>0, <3>1, <3>2
    <3> QED BY <2>0, <3>1, <3>2, <3>3
  <2>2. Replies(w, c) => Unread(w, c)
    <3> SUFFICES ASSUME Replies(w, c), ~ Unread(w, c) PROVE FALSE
      OBVIOUS
    <3>1. c <= Popped
      BY <1>3, Lengths DEF Unread
    <3>2. c \in DOMAIN future
      BY <1>3, <3>1, Lengths
    <3>3. future[c].replies # 0
      BY <1>12, <3>2, ExecutorAssumption DEF NumReplies
    <3> QED BY <1>3, <2>0, <3>2, <3>3
  <2>3. /\ \A i \in 1 .. Len(OnTheWay(w)') :
             \/ i \in 1 .. Len(OnTheWay(w))
             \/ Replies(w, c) /\ OnTheWay(w)'[i] = e
        /\ \A i \in 1 .. Len(OnTheWay(w)) : i \in 1 .. Len(OnTheWay(w)')
        /\ Replies(w, c) => Len(OnTheWay(w)) + 1 \in 1 .. Len(OnTheWay(w)')
    <3>1. CASE Replies(w, c)
      BY <1>14, <1>15, <3>1
    <3>2. CASE ~ Replies(w, c)
      BY <1>15, <3>2
    <3> QED BY <3>1, <3>2
  <2>4. \A i \in 1 .. Len(OnTheWay(w)') : Unread(w, OnTheWay(w)[i].call)'
    BY <1>4, <1>8, <1>15, <2>0, <2>2, <2>3
  <2>5. ASSUME NEW d \in 1 .. Len(received'[w]), Replies(w, d), Unread(w, d)
        PROVE  \E i \in 1 .. Len(OnTheWay(w)') : OnTheWay(w)'[i].call = d
    <3>1. CASE d = c
      BY <1>4, <1>15, <2>3, <2>5, <3>1
    <3>2. CASE d # c
      <4>1. d \in 1 .. Len(received[w])
        BY <1>3, <1>5, <3>2
      <4>2. PICK i \in 1 .. Len(OnTheWay(w)) : OnTheWay(w)[i].call = d
        BY <2>0, <2>5, <4>1
      <4> QED BY <1>15, <2>3, <4>2
    <3> QED BY <3>1, <3>2
  <2>6. ASSUME NEW d \in DOMAIN future, Replies(w, d), ~ Unread(w, d)
        PROVE  d <= Len(received'[w]) \/ future[d].replies = 0
    <3>1. d <= Len(received[w]) \/ future[d].replies = 0
      BY <2>0, <2>6
    <3>2. d \in Nat
      BY Lengths
    <3> QED BY <1>3, <1>5, <3>1, <3>2
  <2>7. /\ \A d \in 1 .. Len(received'[w]) : Replies(w, d)' /\ Unread(w, d)' =>
             \E i \in 1 .. Len(OnTheWay(w)') : OnTheWay(w)'[i].call = d
        /\ \A d \in DOMAIN future' : Replies(w, d)' /\ ~ Unread(w, d)' =>
             d <= Len(received'[w]) \/ future'[d].replies = 0
    <3>1. future' = future
      BY <1>0
    <3> QED BY <1>8, <2>5, <2>6, <3>1
  <2>8. \A i \in 1 .. Len(main'.from) : main'.from[i] = main'.current
    BY <1>0, <2>0, Zenon
  <2> QED BY <2>1, <2>4, <2>7, <2>8
<1>18. ResultsOfOwnCallUntilError'
  BY <1>0, <1>8, Zenon DEF ExecutorInv, ResultsOfOwnCallUntilError
<1> QED BY <1>9, <1>10, <1>11, <1>13, <1>16, <1>17, <1>18 DEF ExecutorInv

-----------------------------------------------------------------------------
(***************************************************************************)
(* The main thread waits for a future.                                     *)
(***************************************************************************)
\* The future waited for is the last one popped.
LEMMA WaitedFor ==
  ASSUME ExecutorInv, Waiting
  PROVE  /\ main.current = Popped /\ Popped \in 1 .. Len(future) /\ Popped \in 1 .. Len(calls)
         /\ future[Popped].status = "pending"
         /\ Len(main.from) <= future[Popped].replies
         /\ main.target \in 1 .. Len(future)
<1>1. /\ main.current = Popped /\ Popped > 0 /\ Len(main.from) <= future[Popped].replies
      /\ main.target \in DOMAIN future
      /\ \A d \in DOMAIN future : d = Popped => future[d].status = "pending"
  BY Zenon DEF ExecutorInv, FuturesInOrder, Waiting
<1>2. Popped \in 1 .. Len(future) /\ Popped \in 1 .. Len(calls)
  BY <1>1, Lengths
<1> QED BY <1>1, <1>2, Lengths

\* While it lacks replies, get_response reads the queue of a worker that has to
\* reply and whose reply it has not read.
LEMMA Awaited ==
  ASSUME ExecutorInv, Waiting, Len(main.from) < future[main.current].replies
  PROVE  /\ AwaitedReply \in Worker /\ Replies(AwaitedReply, Popped)
         /\ AwaitedReply \notin ReadFrom
<1>1. /\ main.current = Popped /\ Popped \in 1 .. Len(future) /\ Popped \in 1 .. Len(calls)
  BY WaitedFor
<1>2. Len(main.from) \in Nat /\ future[Popped].replies \in Nat
  BY <1>1, Lengths, FutureTypes
<1>3. Len(main.from) < NumReplies(Popped)
  <2>1. Popped \in DOMAIN future
    BY <1>1, Lengths
  <2>2. future[Popped].replies = NumReplies(Popped) \/ future[Popped].replies = 0
    BY <2>1, Zenon DEF ExecutorInv, RepliesSet
  <2> QED BY <1>1, <1>2, <2>2
<1>4. calls[Popped].output_rank \in OutputRank
  <2>1. calls[Popped] \in [output_rank : OutputRank, non_block : BOOLEAN]
    BY ZenonT(90), <1>1, ElementOf DEF ExecutorInv, Typed
  <2> QED BY <2>1
<1>5. CASE calls[Popped].output_rank = None
  <2>1. AwaitedReply = Len(main.from) /\ \A i : ReplyRank(main.current, i) = i
    BY <1>1, <1>5 DEF AwaitedReply, ReplyRank
  <2>2. Len(main.from) \in 0 .. n_worker - 1
    BY <1>2, <1>3, <1>5, ExecutorAssumption DEF NumReplies
  <2>3. Len(main.from) \notin ReadFrom
    BY <1>2, <2>1 DEF ReadFrom
  <2> QED BY <1>5, <2>1, <2>2, <2>3, ExecutorAssumption DEF Worker, Replies
<1>6. CASE calls[Popped].output_rank # None
  <2>1. AwaitedReply = calls[Popped].output_rank
    BY <1>1, <1>6 DEF AwaitedReply, ReplyRank
  <2>2. calls[Popped].output_rank \in Reader
    BY ZenonT(90), <1>4, <1>6, ExecutorAssumption
  <2>3. Len(main.from) = 0
    BY <1>2, <1>3, <1>6 DEF NumReplies
  <2>4. 0 .. Len(main.from) - 1 = {}
    BY <2>3
  <2>5. ReadFrom = {}
    BY <2>4, Zenon DEF ReadFrom
  <2> QED BY <2>1, <2>2, <2>5 DEF Worker, Replies
<1> QED BY <1>5, <1>6

\* The end of a wait: what the invariant says of the calls and the futures
\* holds again, and no other future changes.
LEMMA ResolveOK ==
  ASSUME ExecutorInv, Waiting,
         NEW status \in {"result", "exception"}, NEW from \in Seq(Nat),
         Resolve(status, from), response_mq' \in [Worker -> Seq([call : Nat, success : BOOLEAN])],
         UNCHANGED <<channel, calls, futures_queue, async_output_queue, process>>
  PROVE  /\ Typed' /\ CallsInStep' /\ FuturesInOrder' /\ RepliesSet'
         /\ Popped' = Popped /\ ~ Waiting' /\ main'.from = <<>>
         /\ Len(future') = Len(future) /\ DOMAIN future' = DOMAIN future
         /\ future'[Popped].status = status /\ future'[Popped].from = from
         /\ future'[Popped].replies = future[Popped].replies
         /\ \A d \in DOMAIN future \ {Popped} : future'[d] = future[d]
<1> DEFINE F == [status : {"pending", "result", "exception"}, replies : Nat, from : Seq(Nat)]
           k == Popped
           f == [future[k] EXCEPT !.status = status, !.from = from]
<1>0. /\ future' = [future EXCEPT ![main.current].status = status,
                                  ![main.current].from = from]
      /\ main' = [main EXCEPT !.pc = "result", !.current = 0, !.from = <<>>]
      /\ sent' = sent /\ received' = received /\ calls' = calls
      /\ futures_queue' = futures_queue /\ async_output_queue' = async_output_queue
      /\ is_failed' = is_failed /\ shut_down' = shut_down /\ alive' = alive
  BY ZenonT(90) DEF Resolve, channel, process
<1>1. /\ main \in [pc : {"idle", "enqueue", "result", "get_response"},
                   target : Nat, current : Nat, from : Seq(Nat)]
      /\ future \in Seq(F)
  BY DEF ExecutorInv, Typed
<1>2. /\ main.current = k /\ k \in 1 .. Len(future) /\ future[k].status = "pending"
      /\ main.target \in 1 .. Len(future)
  BY WaitedFor
<1>3. /\ main'.pc = "result" /\ main'.from = <<>> /\ main'.target = main.target
      /\ main' \in [pc : {"idle", "enqueue", "result", "get_response"},
                    target : Nat, current : Nat, from : Seq(Nat)]
  <2>1. <<>> \in Seq(Nat) /\ 0 \in Nat
    OBVIOUS
  <2> QED BY <1>0, <1>1, <2>1, Zenon
<1>4. future[k] \in F
  BY ZenonT(90), <1>1, <1>2, ElementOf
<1>5. /\ f \in F /\ f.status = status /\ f.from = from /\ f.replies = future[k].replies
  BY <1>4, Zenon
<1>6. future' = [future EXCEPT ![k] = f]
  BY <1>0, <1>2, Zenon
<1> HIDE DEF F, f, k
<1>7. /\ future' \in Seq(F) /\ Len(future') = Len(future) /\ DOMAIN future' = DOMAIN future
      /\ future'[k] = f /\ \A d \in DOMAIN future \ {k} : future'[d] = future[d]
  BY <1>1, <1>2, <1>5, <1>6
<1>8. k' = k /\ ~ Waiting'
  BY <1>0, <1>3, <1>7 DEF Popped, Waiting, k
<1>9. Typed'
  BY <1>0, <1>3, <1>7, Zenon DEF ExecutorInv, Typed, F
<1>10. CallsInStep'
  <2>1. main.pc # "enqueue" /\ main'.pc # "enqueue"
    BY <1>3 DEF Waiting
  <2> QED BY <1>0, <1>7, <2>1, Zenon DEF ExecutorInv, CallsInStep
<1>11. FuturesInOrder'
  <2>0. k \in Nat /\ \A d \in DOMAIN future : d \in Nat
    BY <1>2, Lengths
  <2>1. ASSUME NEW d \in DOMAIN future'
        PROVE  future'[d].status = "pending" <=> d > k
    <3>1. CASE d = k
      BY <1>5, <1>7, <2>0, <3>1
    <3>2. CASE d # k
      <4>1. future'[d] = future[d] /\ d \in DOMAIN future
        BY <1>7, <3>2
      <4>2. future[d].status = "pending" <=> d > k
        BY <3>2, <4>1, Zenon DEF ExecutorInv, FuturesInOrder, k
      <4> QED BY <4>1, <4>2
    <3> QED BY <3>1, <3>2
  <2>2. Len(futures_queue') <= Len(future')
    BY <1>0, <1>7, Zenon DEF ExecutorInv, FuturesInOrder
  <2>3. \A i \in DOMAIN futures_queue' : futures_queue'[i] = k' + i
    BY <1>0, <1>8, Zenon DEF ExecutorInv, FuturesInOrder, k
  <2>4. main'.target \in DOMAIN future'
    BY <1>2, <1>3, <1>7, Lengths
  <2> QED BY <1>3, <1>8, <2>1, <2>2, <2>3, <2>4, Zenon DEF FuturesInOrder, k
<1>12. RepliesSet'
  <2>1. \A d \in DOMAIN future : future'[d].replies = future[d].replies
    BY <1>5, <1>7
  <2>2. \A d : NumReplies(d)' = NumReplies(d)
    BY <1>0 DEF NumReplies
  <2> QED BY <1>0, <1>7, <2>1, <2>2, ZenonT(90) DEF ExecutorInv, RepliesSet
<1> QED BY <1>3, <1>5, <1>7, <1>8, <1>9, <1>10, <1>11, <1>12 DEF k

\* Reading a response takes the oldest one of a worker off its way.
LEMMA TakeOldest ==
  ASSUME ExecutorInv, NEW a \in Worker, response_mq[a] # <<>>,
         response_mq' = [response_mq EXCEPT ![a] = Tail(@)],
         UNCHANGED <<received, calls, async_output_queue>>
  PROVE  /\ response_mq' \in [Worker -> Seq([call : Nat, success : BOOLEAN])]
         /\ \A v \in Worker \ {a} : OnTheWay(v)' = OnTheWay(v)
         /\ Len(OnTheWay(a)) \in Nat \ {0} /\ Len(OnTheWay(a)') = Len(OnTheWay(a)) - 1
         /\ OnTheWay(a)[1] = Head(response_mq[a])
         /\ \A i \in 1 .. Len(OnTheWay(a)') : /\ i + 1 \in 1 .. Len(OnTheWay(a))
                                              /\ OnTheWay(a)'[i] = OnTheWay(a)[i + 1]
         /\ RepliesInOrder'
<1> DEFINE R == [call : Nat, success : BOOLEAN]
           q == OnTheWay(a)
<1>1. response_mq \in [Worker -> Seq(R)] /\ async_output_queue \in [Worker -> Seq(R)]
  BY DEF ExecutorInv, Typed
<1> HIDE DEF R
<1>2. response_mq[a] \in Seq(R) /\ async_output_queue[a] \in Seq(R) /\ Tail(response_mq[a]) \in Seq(R)
  BY <1>1
<1>3. /\ response_mq' \in [Worker -> Seq(R)] /\ response_mq'[a] = Tail(response_mq[a])
      /\ \A v \in Worker \ {a} : response_mq'[v] = response_mq[v]
  BY <1>1, <1>2, AtWorker, Zenon
<1>4. /\ \A v \in Worker \ {a} : OnTheWay(v)' = OnTheWay(v)
      /\ OnTheWay(a)' = Tail(q) /\ Head(q) = Head(response_mq[a]) /\ q # <<>> /\ q \in Seq(R)
  <2>1. /\ Tail(response_mq[a]) \o async_output_queue[a]
             = Tail(response_mq[a] \o async_output_queue[a])
        /\ Head(response_mq[a] \o async_output_queue[a]) = Head(response_mq[a])
        /\ response_mq[a] \o async_output_queue[a] # <<>>
    BY ZenonT(90), <1>2, TakeHead
  <2>2. response_mq[a] \o async_output_queue[a] \in Seq(R)
    BY <1>2
  <2> QED BY <1>3, <2>1, <2>2, Zenon DEF OnTheWay
<1> HIDE DEF q
<1>5. /\ Len(q) \in Nat \ {0} /\ Len(Tail(q)) = Len(q) - 1 /\ q[1] = Head(q)
      /\ \A i \in 1 .. Len(q) - 1 : i + 1 \in 1 .. Len(q) /\ Tail(q)[i] = q[i + 1]
  BY <1>4
<1>6. RepliesInOrder'
  <2> SUFFICES ASSUME NEW v \in Worker
      PROVE /\ ~ use_async_scheduling => async_output_queue'[v] = <<>>
            /\ \A i, j \in 1 .. Len(OnTheWay(v)') :
                  i < j => OnTheWay(v)'[i].call < OnTheWay(v)'[j].call
            /\ \A i \in 1 .. Len(OnTheWay(v)') :
                  /\ OnTheWay(v)'[i].call \in 1 .. Len(received'[v])
                  /\ Replies(v, OnTheWay(v)[i].call)'
    BY DEF RepliesInOrder
  <2>0. \A u, d : Replies(u, d)' <=> Replies(u, d)
    BY DEF Replies
  <2>1. CASE v # a
    <3>1. OnTheWay(v)' = OnTheWay(v)
      BY <1>4, <2>1
    <3> QED BY <2>0, <3>1 DEF ExecutorInv, RepliesInOrder
  <2>2. CASE v = a
    <3>0. /\ ~ use_async_scheduling => async_output_queue[a] = <<>>
          /\ \A i, j \in 1 .. Len(q) : i < j => q[i].call < q[j].call
          /\ \A i \in 1 .. Len(q) : q[i].call \in 1 .. Len(received[a]) /\ Replies(a, q[i].call)
      BY Zenon DEF ExecutorInv, RepliesInOrder, q
    <3>1. OnTheWay(a)' = Tail(q)
      BY <1>4
    <3>2. \A i, j \in 1 .. Len(Tail(q)) : i < j => Tail(q)[i].call < Tail(q)[j].call
      BY <1>5, <3>0
    <3>3. \A i \in 1 .. Len(Tail(q)) :
             Tail(q)[i].call \in 1 .. Len(received[a]) /\ Replies(a, Tail(q)[i].call)
      BY <1>5, <3>0
    <3> QED BY <2>0, <2>2, <3>0, <3>1, <3>2, <3>3
  <2> QED BY <2>1, <2>2
<1> QED BY <1>3, <1>4, <1>5, <1>6 DEF q, R

\* Nothing is claimed of the responses on their way once a future has ended with
\* an exception: a failed response, a timeout or a cancelled wait.
LEMMA ExceptionOK ==
  ASSUME ExecutorInv, Waiting, Resolve("exception", <<>>), RepliesInOrder',
         response_mq' \in [Worker -> Seq([call : Nat, success : BOOLEAN])],
         UNCHANGED <<channel, calls, futures_queue, async_output_queue, process>>
  PROVE  ExecutorInv'
<1>0. <<>> \in Seq(Nat)
  OBVIOUS
<1>1. /\ Typed' /\ CallsInStep' /\ FuturesInOrder' /\ RepliesSet'
      /\ DOMAIN future' = DOMAIN future /\ future'[Popped].status = "exception"
      /\ \A d \in DOMAIN future \ {Popped} : future'[d] = future[d]
  BY ZenonT(90), <1>0, ResolveOK
<1>2. Popped \in 1 .. Len(future) /\ Popped \in DOMAIN future
  BY WaitedFor, Lengths
<1>3. QueuesMatchFutures'
  <2>1. ~ Clean'
    BY <1>1, <1>2 DEF Clean
  <2> QED BY <2>1, Zenon DEF QueuesMatchFutures
<1>4. ResultsOfOwnCallUntilError'
  <2> SUFFICES ASSUME NEW d \in DOMAIN future', future'[d].status = "result",
                      \A e \in 1 .. d - 1 : future'[e].status # "exception"
      PROVE  \/ future'[d].from = OwnResponses(d)'
             \/ shut_down' /\ future'[d].from = <<>>
    BY Zenon DEF ResultsOfOwnCallUntilError
  <2>1. d # Popped /\ Popped \notin 1 .. d - 1 /\ d \in DOMAIN future
    BY <1>1
  <2>2. d \in 1 .. Len(future) /\ \A e \in 1 .. d - 1 : e \in DOMAIN future
    BY <2>1, Lengths
  <2>3. future'[d] = future[d] /\ \A e \in 1 .. d - 1 : future'[e] = future[e]
    BY <1>1, <2>1, <2>2
  <2>4. OwnResponses(d)' = OwnResponses(d) /\ shut_down' = shut_down
    BY DEF OwnResponses, NumReplies, process
  <2> QED BY <2>1, <2>3, <2>4, Zenon DEF ExecutorInv, ResultsOfOwnCallUntilError
<1> QED BY <1>1, <1>3, <1>4 DEF ExecutorInv

\* A future that has all its replies has read each worker that has to reply.
LEMMA AllRead ==
  ASSUME ExecutorInv, Waiting, Len(main.from) = NumReplies(Popped),
         NEW w \in Worker, Replies(w, Popped)
  PROVE  w \in ReadFrom
<1>1. main.current = Popped
  BY WaitedFor
<1>2. CASE calls[Popped].output_rank = None
  <2>1. Len(main.from) = n_worker /\ ReplyRank(main.current, w) = w
    BY <1>1, <1>2 DEF NumReplies, ReplyRank
  <2>2. w \in 0 .. n_worker - 1
    BY ExecutorAssumption DEF Worker
  <2> QED BY <2>1, <2>2 DEF ReadFrom
<1>3. CASE calls[Popped].output_rank # None
  <2>1. Len(main.from) = 1 /\ ReplyRank(main.current, 0) = calls[Popped].output_rank
    BY <1>1, <1>3 DEF NumReplies, ReplyRank
  <2>2. w = calls[Popped].output_rank
    BY <1>3 DEF Replies
  <2>3. 0 \in 0 .. Len(main.from) - 1
    BY <2>1
  <2> QED BY <2>1, <2>2, <2>3 DEF ReadFrom
<1> QED BY <1>2, <1>3

\* A list of equal numbers.
LEMMA EqualElements ==
  ASSUME NEW s \in Seq(Nat), NEW k, \A i \in 1 .. Len(s) : s[i] = k
  PROVE  s = [i \in 1 .. Len(s) |-> k]
OBVIOUS

\* The wait ends with all replies: they are those to the call, if no earlier
\* call failed, and what is left on the way is for later calls.
LEMMA GotResponsesOK ==
  ASSUME ExecutorInv, got_responses
  PROVE  ExecutorInv'
<1> DEFINE k == Popped
<1>0. /\ Waiting /\ Len(main.from) = future[main.current].replies
      /\ Resolve("result", main.from)
      /\ UNCHANGED <<channel, calls, futures_queue, async_output_queue, process>>
      /\ sent' = sent /\ received' = received /\ calls' = calls
      /\ async_output_queue' = async_output_queue /\ response_mq' = response_mq
      /\ shut_down' = shut_down
  BY Zenon DEF got_responses, Waiting, channel, outputs, process
<1>1. /\ main.current = k /\ k \in 1 .. Len(future) /\ future[k].status = "pending"
      /\ k \in DOMAIN future /\ k \in Nat /\ \A d \in DOMAIN future : d \in Nat
  BY <1>0, WaitedFor, Lengths
<1>2. /\ main.from \in Seq(Nat)
      /\ response_mq' \in [Worker -> Seq([call : Nat, success : BOOLEAN])]
  BY <1>0, Lengths DEF ExecutorInv, Typed
<1>3. /\ Typed' /\ CallsInStep' /\ FuturesInOrder' /\ RepliesSet'
      /\ Popped' = k /\ ~ Waiting' /\ main'.from = <<>> /\ DOMAIN future' = DOMAIN future
      /\ future'[k].status = "result" /\ future'[k].from = main.from
      /\ future'[k].replies = future[k].replies
      /\ \A d \in DOMAIN future \ {k} : future'[d] = future[d]
  BY <1>0, <1>2, ResolveOK, ZenonT(90)
<1> HIDE DEF k
<1>4. /\ \A w \in Worker : OnTheWay(w)' = OnTheWay(w)
      /\ \A w, d : Replies(w, d)' <=> Replies(w, d)
      /\ \A d : NumReplies(d)' = NumReplies(d) /\ OwnResponses(d)' = OwnResponses(d)
  BY <1>0 DEF OnTheWay, Replies, NumReplies, OwnResponses
<1>5. RepliesInOrder'
  BY <1>0, <1>4 DEF ExecutorInv, RepliesInOrder
<1>6. /\ \A w \in Worker : \A d : Unread(w, d)' <=> d > k
      /\ \A w \in Worker : \A d : Unread(w, d) <=> d > k \/ (d = k /\ w \notin ReadFrom)
  BY <1>0, <1>3 DEF Unread, k
<1>7. \/ future[k].replies = NumReplies(k)
      \/ /\ future[k].replies = 0 /\ shut_down
         /\ \A w \in Worker : Len(received[w]) < k
  BY <1>1, Zenon DEF ExecutorInv, RepliesSet
<1>8. ASSUME NEW w \in Worker, Replies(w, k), w \notin ReadFrom
      PROVE  future[k].replies = 0 /\ Len(received[w]) < k
  <2>1. future[k].replies # NumReplies(k)
    BY <1>0, <1>1, <1>8, AllRead DEF k
  <2> QED BY <1>7, <2>1
<1>9. QueuesMatchFutures'
  <2> SUFFICES ASSUME Clean' PROVE
        /\ \A w \in Worker :
             /\ \A i \in 1 .. Len(OnTheWay(w)') : Unread(w, OnTheWay(w)[i].call)'
             /\ \A d \in 1 .. Len(received'[w]) : Replies(w, d)' /\ Unread(w, d)' =>
                  \E i \in 1 .. Len(OnTheWay(w)') : OnTheWay(w)'[i].call = d
             /\ \A d \in DOMAIN future' : Replies(w, d)' /\ ~ Unread(w, d)' =>
                  d <= Len(received'[w]) \/ future'[d].replies = 0
        /\ \A i \in 1 .. Len(main'.from) : main'.from[i] = main'.current
    BY ZenonT(90) DEF QueuesMatchFutures
  <2>1. Clean
    BY <1>1, <1>3 DEF Clean
  <2>2. \A w \in Worker :
             /\ \A i \in 1 .. Len(OnTheWay(w)) : Unread(w, OnTheWay(w)[i].call)
             /\ \A d \in 1 .. Len(received[w]) : Replies(w, d) /\ Unread(w, d) =>
                  \E i \in 1 .. Len(OnTheWay(w)) : OnTheWay(w)[i].call = d
             /\ \A d \in DOMAIN future : Replies(w, d) /\ ~ Unread(w, d) =>
                  d <= Len(received[w]) \/ future[d].replies = 0
    BY <2>1, Zenon DEF ExecutorInv, QueuesMatchFutures
  <2>3. ASSUME NEW w \in Worker, NEW i \in 1 .. Len(OnTheWay(w))
        PROVE  OnTheWay(w)[i].call > k
    <3>1. /\ OnTheWay(w)[i].call \in 1 .. Len(received[w])
          /\ Replies(w, OnTheWay(w)[i].call) /\ Unread(w, OnTheWay(w)[i].call)
      BY <2>2, Zenon DEF ExecutorInv, RepliesInOrder
    <3>2. Len(received[w]) \in Nat
      BY Lengths
    <3>3. CASE OnTheWay(w)[i].call = k /\ w \notin ReadFrom
      BY <1>1, <1>8, <3>1, <3>2, <3>3
    <3> QED BY <1>6, <3>1, <3>3
  <2>4. ASSUME NEW w \in Worker, NEW d \in DOMAIN future, Replies(w, d), ~ (d > k)
        PROVE  d <= Len(received[w]) \/ future'[d].replies = 0
    <3>1. CASE Unread(w, d)
      BY <1>3, <1>6, <1>8, <2>4, <3>1
    <3>2. CASE ~ Unread(w, d)
      <4>1. future'[d].replies = future[d].replies
        BY <1>3
      <4> QED BY ZenonT(90), <2>2, <2>4, <3>2, <4>1
    <3> QED BY <3>1, <3>2
  <2>5. ASSUME NEW w \in Worker
        PROVE  \A i \in 1 .. Len(OnTheWay(w)') : Unread(w, OnTheWay(w)[i].call)'
    BY <1>4, <1>6, <2>3
  <2>6. ASSUME NEW w \in Worker, NEW d \in 1 .. Len(received[w]), Replies(w, d), d > k
        PROVE  \E i \in 1 .. Len(OnTheWay(w)) : OnTheWay(w)[i].call = d
    BY <1>6, <2>2, <2>6
  <2>7. Len(main'.from) = 0
    BY <1>3
  <2>8. ASSUME NEW w \in Worker PROVE
        /\ \A d \in 1 .. Len(received'[w]) : Replies(w, d)' /\ Unread(w, d)' =>
             \E i \in 1 .. Len(OnTheWay(w)') : OnTheWay(w)'[i].call = d
        /\ \A d \in DOMAIN future' : Replies(w, d)' /\ ~ Unread(w, d)' =>
             d <= Len(received'[w]) \/ future'[d].replies = 0
    <3>1. received' = received /\ DOMAIN future' = DOMAIN future
      BY <1>0, <1>3
    <3> QED BY <1>4, <1>6, <2>4, <2>6, <3>1
  <2>9. \A i \in 1 .. Len(main'.from) : main'.from[i] = main'.current
    BY <2>7
  <2> QED BY <2>5, <2>8, <2>9
<1>10. ResultsOfOwnCallUntilError'
  <2> SUFFICES ASSUME NEW d \in DOMAIN future', future'[d].status = "result",
                      \A e \in 1 .. d - 1 : future'[e].status # "exception"
      PROVE  \/ future'[d].from = OwnResponses(d)'
             \/ shut_down' /\ future'[d].from = <<>>
    BY Zenon DEF ResultsOfOwnCallUntilError
  <2>1. d \in 1 .. Len(future) /\ \A e \in 1 .. d - 1 : e \in DOMAIN future /\ e # d
    BY <1>3, Lengths
  <2>2. CASE d # k
    <3>1. \A e \in 1 .. d - 1 : future[e].status # "exception"
      BY <1>1, <1>3, <2>1
    <3> QED BY <1>0, <1>3, <1>4, <2>2, <3>1, ZenonT(90) DEF ExecutorInv, ResultsOfOwnCallUntilError
  <2>3. CASE d = k
    <3>1. Clean
      <4> SUFFICES ASSUME NEW e \in DOMAIN future PROVE future[e].status # "exception"
        BY DEF Clean
      <4>1. CASE e < k
        <5>1. e \in 1 .. k - 1
          BY <1>1, <4>1, Lengths
        <5>2. future'[e].status # "exception"
          BY <2>3, <5>1
        <5>3. future'[e] = future[e]
          BY <1>1, <1>3, <4>1
        <5> QED BY <5>2, <5>3
      <4>2. CASE e = k
        BY <1>1, <4>2
      <4>3. CASE e > k
        <5>1. future[e].status = "pending"
          BY <4>3, Zenon DEF ExecutorInv, FuturesInOrder, k
        <5> QED BY <5>1
      <4> QED BY <1>1, <4>1, <4>2, <4>3
    <3>2. \A i \in 1 .. Len(main.from) : main.from[i] = k
      BY <1>1, <3>1, Zenon DEF ExecutorInv, QueuesMatchFutures
    <3>3. main.from = [i \in 1 .. Len(main.from) |-> k]
      BY ZenonT(90), <1>2, <3>2, EqualElements
    <3>4. CASE future[k].replies = NumReplies(k)
      BY <1>0, <1>1, <1>3, <1>4, <2>3, <3>3, <3>4 DEF OwnResponses
    <3>5. CASE future[k].replies = 0 /\ shut_down
      <4>1. main.from = <<>>
        BY <1>0, <1>1, <1>2, <3>5
      <4> QED BY <1>0, <1>3, <2>3, <3>5, <4>1
    <3> QED BY <1>7, <3>4, <3>5
  <2> QED BY <2>2, <2>3
<1> QED BY <1>3, <1>5, <1>9, <1>10 DEF ExecutorInv

\* A successful response is read.  Until a call fails it is the response to the
\* call waited for: the oldest one on the way cannot be for an earlier call, as
\* all those have been read, and the response to this call is on the way.
LEMMA ReadResponseOK ==
  ASSUME ExecutorInv, get_response, Head(response_mq[AwaitedReply]).success
  PROVE  ExecutorInv'
<1> DEFINE k == Popped
<1>a. Waiting /\ Len(main.from) < future[main.current].replies
  BY Zenon DEF get_response, Waiting
<1>b. PICK a \in Worker : a = AwaitedReply
  BY <1>a, Awaited
<1> DEFINE q == OnTheWay(a)
           x == Head(response_mq[a]).call
<1>0. /\ Waiting /\ Len(main.from) < future[main.current].replies
      /\ response_mq[a] # <<>> /\ response_mq' = [response_mq EXCEPT ![a] = Tail(@)]
      /\ main' = [main EXCEPT !.from = Append(main.from, x)] /\ future' = future
      /\ sent' = sent /\ received' = received /\ calls' = calls
      /\ futures_queue' = futures_queue /\ async_output_queue' = async_output_queue
      /\ is_failed' = is_failed /\ shut_down' = shut_down /\ alive' = alive
  BY <1>b, Zenon DEF get_response, Waiting, channel, process
<1>1. a \in Worker /\ Replies(a, k) /\ a \notin ReadFrom
  BY <1>a, <1>b, Awaited
<1>2. /\ main.current = k /\ k \in 1 .. Len(future) /\ k \in Nat
      /\ main.target \in 1 .. Len(future)
  BY <1>0, WaitedFor
<1>3. /\ response_mq' \in [Worker -> Seq([call : Nat, success : BOOLEAN])]
      /\ \A v \in Worker \ {a} : OnTheWay(v)' = OnTheWay(v)
      /\ Len(q) \in Nat \ {0} /\ Len(OnTheWay(a)') = Len(q) - 1
      /\ q[1].call = x
      /\ \A i \in 1 .. Len(OnTheWay(a)') : i + 1 \in 1 .. Len(q) /\ OnTheWay(a)'[i] = q[i + 1]
      /\ RepliesInOrder'
  BY ZenonT(90), <1>0, <1>1, TakeOldest
<1>4. /\ \A i, j \in 1 .. Len(q) : i < j => q[i].call < q[j].call
      /\ \A i \in 1 .. Len(q) : q[i].call \in 1 .. Len(received[a]) /\ Replies(a, q[i].call)
  BY <1>1, Zenon DEF ExecutorInv, RepliesInOrder
<1>5. x \in Nat /\ x <= Len(received[a]) /\ Len(received[a]) \in Nat
  <2>1. 1 \in 1 .. Len(q)
    BY <1>3
  <2> QED BY <1>1, <1>3, <1>4, <2>1, Lengths
<1>6. main \in [pc : {"idle", "enqueue", "result", "get_response"},
                target : Nat, current : Nat, from : Seq(Nat)]
  BY DEF ExecutorInv, Typed
<1> HIDE DEF k, q, x
<1>7. /\ main'.from = Append(main.from, x) /\ main'.current = k
      /\ main'.pc = "get_response" /\ main'.target = main.target
      /\ main' \in [pc : {"idle", "enqueue", "result", "get_response"},
                    target : Nat, current : Nat, from : Seq(Nat)]
  <2>1. Append(main.from, x) \in Seq(Nat)
    BY <1>5, <1>6
  <2> QED BY <1>0, <1>2, <1>6, <2>1, Zenon DEF Waiting
<1>8. /\ Len(main'.from) = Len(main.from) + 1 /\ Len(main.from) \in Nat
      /\ \A i \in 1 .. Len(main.from) : main'.from[i] = main.from[i]
      /\ main'.from[Len(main.from) + 1] = x
  BY <1>5, <1>6, <1>7, Lengths
<1>9. /\ k' = k /\ Waiting' /\ (Clean' <=> Clean)
      /\ \A w, d : Replies(w, d)' <=> Replies(w, d)
      /\ \A d : NumReplies(d)' = NumReplies(d) /\ OwnResponses(d)' = OwnResponses(d)
      /\ \A d, i : ReplyRank(d, i)' = ReplyRank(d, i)
  BY <1>0, <1>7 DEF k, Popped, Waiting, Clean, Replies, NumReplies, OwnResponses, ReplyRank
<1>10. ReadFrom' = ReadFrom \cup {a}
  <2>1. 0 .. Len(main'.from) - 1 = (0 .. Len(main.from) - 1) \cup {Len(main.from)}
    BY <1>8
  <2>2. a = ReplyRank(k, Len(main.from))
    BY <1>2, <1>b DEF AwaitedReply
  <2>3. /\ ReadFrom = {ReplyRank(k, i) : i \in 0 .. Len(main.from) - 1}
        /\ ReadFrom' = {ReplyRank(k, i) : i \in 0 .. Len(main'.from) - 1}
    BY <1>0, <1>2, <1>7 DEF ReadFrom, ReplyRank
  <2> QED BY <2>1, <2>2, <2>3
<1>11. /\ \A w \in Worker : \A d : Unread(w, d) <=> d > k \/ (d = k /\ w \notin ReadFrom)
       /\ \A w \in Worker : \A d : Unread(w, d)' <=> d > k \/ (d = k /\ w \notin ReadFrom /\ w # a)
  BY <1>0, <1>9, <1>10, Zenon DEF Unread, k
<1>12. Typed'
  BY <1>0, <1>3, <1>7, Zenon DEF ExecutorInv, Typed
<1>13. CallsInStep'
  <2>1. main.pc # "enqueue" /\ main'.pc # "enqueue"
    BY <1>0, <1>7 DEF Waiting
  <2> QED BY <1>0, <2>1, Zenon DEF ExecutorInv, CallsInStep
<1>14. FuturesInOrder'
  <2>1. Len(main'.from) <= future'[k].replies
    <3>1. future[k].replies \in Nat
      BY <1>2, FutureTypes
    <3> QED BY <1>0, <1>2, <1>8, <3>1
  <2>2. main'.target \in DOMAIN future' /\ k > 0
    BY <1>0, <1>2, <1>7, Lengths
  <2> QED BY <1>0, <1>7, <1>9, <2>1, <2>2, Zenon DEF ExecutorInv, FuturesInOrder, k
<1>15. RepliesSet'
  BY <1>0, <1>9, Zenon DEF ExecutorInv, RepliesSet
<1>16. ResultsOfOwnCallUntilError'
  BY <1>0, <1>9, Zenon DEF ExecutorInv, ResultsOfOwnCallUntilError
<1>17. QueuesMatchFutures'
  <2> SUFFICES ASSUME Clean PROVE
        /\ \A w \in Worker :
             /\ \A i \in 1 .. Len(OnTheWay(w)') : Unread(w, OnTheWay(w)[i].call)'
             /\ \A d \in 1 .. Len(received'[w]) : Replies(w, d)' /\ Unread(w, d)' =>
                  \E i \in 1 .. Len(OnTheWay(w)') : OnTheWay(w)'[i].call = d
             /\ \A d \in DOMAIN future' : Replies(w, d)' /\ ~ Unread(w, d)' =>
                  d <= Len(received'[w]) \/ future'[d].replies = 0
        /\ \A i \in 1 .. Len(main'.from) : main'.from[i] = main'.current
    BY <1>9 DEF QueuesMatchFutures
  <2>1. \A w \in Worker :
             /\ \A i \in 1 .. Len(OnTheWay(w)) : Unread(w, OnTheWay(w)[i].call)
             /\ \A d \in 1 .. Len(received[w]) : Replies(w, d) /\ Unread(w, d) =>
                  \E i \in 1 .. Len(OnTheWay(w)) : OnTheWay(w)[i].call = d
             /\ \A d \in DOMAIN future : Replies(w, d) /\ ~ Unread(w, d) =>
                  d <= Len(received[w]) \/ future[d].replies = 0
    BY Zenon DEF ExecutorInv, QueuesMatchFutures
  <2>2. x = k
    <3>1. 1 \in 1 .. Len(q)
      BY <1>3
    <3>2. Unread(a, x)
      BY ZenonT(90), <1>1, <1>3, <2>1, <3>1 DEF q
    <3>3. x >= k
      BY <1>1, <1>2, <1>5, <1>11, <3>2
    <3>4. k \in 1 .. Len(received[a]) /\ Unread(a, k)
      BY <1>1, <1>2, <1>5, <1>11, <3>3
    <3>5. PICK i \in 1 .. Len(q) : q[i].call = k
      BY <1>1, <2>1, <3>4 DEF q
    <3>6. x <= k
      BY <1>2, <1>3, <1>4, <1>5, <3>1, <3>5
    <3> QED BY <1>2, <1>5, <3>3, <3>6
  <2>3. ASSUME NEW w \in Worker, w # a PROVE
             /\ \A i \in 1 .. Len(OnTheWay(w)') : Unread(w, OnTheWay(w)[i].call)'
             /\ \A d \in 1 .. Len(received'[w]) : Replies(w, d)' /\ Unread(w, d)' =>
                  \E i \in 1 .. Len(OnTheWay(w)') : OnTheWay(w)'[i].call = d
             /\ \A d \in DOMAIN future' : Replies(w, d)' /\ ~ Unread(w, d)' =>
                  d <= Len(received'[w]) \/ future'[d].replies = 0
    <3>1. received' = received /\ OnTheWay(w)' = OnTheWay(w) /\ future' = future
      BY <1>0, <1>3, <2>3
    <3>2. /\ \A d : Unread(w, d)' <=> Unread(w, d)
          /\ \A d : Replies(w, d)' <=> Replies(w, d)
      BY <1>9, <1>11, <2>3
    <3>3. \A i \in 1 .. Len(OnTheWay(w)') : Unread(w, OnTheWay(w)[i].call)'
      BY <2>1, <3>1, <3>2
    <3>4. \A d \in 1 .. Len(received'[w]) : Replies(w, d)' /\ Unread(w, d)' =>
             \E i \in 1 .. Len(OnTheWay(w)') : OnTheWay(w)'[i].call = d
      BY <2>1, <3>1, <3>2
    <3>5. \A d \in DOMAIN future' : Replies(w, d)' /\ ~ Unread(w, d)' =>
             d <= Len(received'[w]) \/ future'[d].replies = 0
      BY <2>1, <3>1, <3>2
    <3> QED BY <3>3, <3>4, <3>5, ZenonT(90)
  <2>4. ASSUME NEW i \in 1 .. Len(OnTheWay(a)')
        PROVE  OnTheWay(a)'[i].call > k
    <3>1. i + 1 \in 1 .. Len(q) /\ OnTheWay(a)'[i] = q[i + 1] /\ 1 \in 1 .. Len(q) /\ 1 < i + 1
      BY <1>3
    <3>2. q[1].call < q[i + 1].call
      BY <1>4, <3>1
    <3> QED BY <1>2, <1>3, <2>2, <3>1, <3>2
  <2>5. \A i \in 1 .. Len(OnTheWay(a)') : Unread(a, OnTheWay(a)[i].call)'
    BY <1>1, <1>11, <2>4
  <2>6. ASSUME NEW d \in 1 .. Len(received[a]), Replies(a, d), Unread(a, d)'
        PROVE  \E i \in 1 .. Len(OnTheWay(a)') : OnTheWay(a)'[i].call = d
    <3>1. d > k /\ Unread(a, d)
      BY <1>1, <1>11, <2>6
    <3>2. PICK j \in 1 .. Len(q) : q[j].call = d
      BY <1>1, <2>1, <2>6, <3>1 DEF q
    <3>3. j # 1
      BY <1>2, <1>3, <2>2, <3>1, <3>2
    <3>4. j - 1 \in 1 .. Len(OnTheWay(a)') /\ (j - 1) + 1 = j
      BY <1>3, <3>3
    <3> QED BY ZenonT(90), <1>3, <3>2, <3>4
  <2>7. ASSUME NEW d \in DOMAIN future, Replies(a, d), ~ Unread(a, d)'
        PROVE  d <= Len(received[a]) \/ future[d].replies = 0
    <3>1. CASE ~ Unread(a, d)
      BY <1>1, <2>1, <2>7, <3>1
    <3>2. CASE Unread(a, d)
      <4>1. d = k
        BY <1>1, <1>11, <2>7, <3>2
      <4> QED BY <1>5, <2>2, <4>1
    <3> QED BY <3>1, <3>2
  <2>8. \A i \in 1 .. Len(main'.from) : main'.from[i] = main'.current
    <3>1. \A i \in 1 .. Len(main.from) : main.from[i] = k
      BY <1>2, Zenon DEF ExecutorInv, QueuesMatchFutures
    <3>2. \A i \in 1 .. Len(main'.from) : i \in 1 .. Len(main.from) \/ i = Len(main.from) + 1
      BY <1>8
    <3> QED BY <1>7, <1>8, <2>2, <3>1, <3>2
  <2> QED BY <1>0, <1>9, <2>3, <2>5, <2>6, <2>7, <2>8
<1> QED BY <1>3, <1>12, <1>13, <1>14, <1>15, <1>16, <1>17 DEF ExecutorInv

-----------------------------------------------------------------------------
\* A step that leaves the responses alone keeps their order.
LEMMA SameOrder ==
  ASSUME ExecutorInv, UNCHANGED <<received, calls, async_output_queue, response_mq>>
  PROVE  /\ RepliesInOrder'
         /\ response_mq' \in [Worker -> Seq([call : Nat, success : BOOLEAN])]
<1>1. /\ \A w \in Worker : OnTheWay(w)' = OnTheWay(w)
      /\ \A w, d : Replies(w, d)' <=> Replies(w, d)
  BY DEF OnTheWay, Replies
<1>2. RepliesInOrder'
  BY <1>1 DEF ExecutorInv, RepliesInOrder
<1> QED BY <1>2 DEF ExecutorInv, Typed

\* One iteration of get_response, with a success or with a failure.
LEMMA GetResponseOK ==
  ASSUME ExecutorInv, get_response
  PROVE  ExecutorInv'
<1>1. CASE Head(response_mq[AwaitedReply]).success
  BY <1>1, ReadResponseOK
<1>2. CASE ~ Head(response_mq[AwaitedReply]).success
  <2>1. /\ Waiting /\ Len(main.from) < future[main.current].replies
        /\ Resolve("exception", <<>>) /\ response_mq[AwaitedReply] # <<>>
        /\ response_mq' = [response_mq EXCEPT ![AwaitedReply] = Tail(@)]
        /\ UNCHANGED <<channel, calls, futures_queue, async_output_queue, process>>
    BY <1>2, Zenon DEF get_response, Waiting, process
  <2>2. PICK a \in Worker : a = AwaitedReply
    BY <2>1, Awaited
  <2>3. UNCHANGED <<received, calls, async_output_queue>>
    BY <2>1 DEF channel
  <2>4. response_mq[a] # <<>> /\ response_mq' = [response_mq EXCEPT ![a] = Tail(@)]
    BY <2>1, <2>2, Zenon
  <2>5. RepliesInOrder' /\ response_mq' \in [Worker -> Seq([call : Nat, success : BOOLEAN])]
    BY ZenonT(90), <2>3, <2>4, TakeOldest
  <2> QED BY <2>1, <2>5, ExceptionOK
<1> QED BY <1>1, <1>2

\* Every step keeps the invariant.
LEMMA NextOK == ExecutorInv /\ [ExecutorNext]_allVars => ExecutorInv'
<1> SUFFICES ASSUME ExecutorInv, [ExecutorNext]_allVars PROVE ExecutorInv'
  OBVIOUS
<1>0. /\ is_failed \in BOOLEAN /\ shut_down \in BOOLEAN /\ alive \in [Worker -> BOOLEAN]
      /\ shut_down => is_failed
      /\ is_failed => \A w \in Worker : ~ alive[w]
  BY Zenon DEF ExecutorInv, Typed, CallsInStep
<1>1. ASSUME NEW output_rank \in OutputRank, NEW non_block \in BOOLEAN,
             collective_rpc(output_rank, non_block)
      PROVE  ExecutorInv'
  BY <1>1, CollectiveRpcOK
<1>2. ASSUME NEW c \in DOMAIN future, result(c) PROVE ExecutorInv'
  <2>1. /\ UNCHANGED <<channel, calls, futures, outputs, process, errors>>
        /\ main.pc = "idle" /\ main' = [main EXCEPT !.pc = "result", !.target = c]
    BY <1>2, Zenon DEF result
  <2>2. c \in Nat /\ c \in DOMAIN future
    BY Lengths
  <2>3. main'.pc = "result"
    BY <2>1 DEF ExecutorInv, Typed
  <2> QED BY ZenonT(90), <2>1, <2>2, <2>3, MoveOn
<1>3. CASE enqueue_call
  BY <1>3, EnqueueRaisesOK, CreateFutureOK
<1>4. CASE pop_future
  BY <1>4, PopFutureOK
<1>5. CASE return_result
  <2>1. /\ UNCHANGED <<channel, calls, futures, outputs, process, errors>>
        /\ main.pc = "result" /\ main' = [main EXCEPT !.pc = "idle", !.target = 0]
    BY <1>5, Zenon DEF return_result
  <2>2. main'.pc = "idle"
    BY <2>1 DEF ExecutorInv, Typed
  <2> QED BY ZenonT(90), <2>1, <2>2, MoveOn
<1>6. CASE get_response
  BY <1>6, GetResponseOK
<1>7. CASE got_responses
  BY <1>7, GotResponsesOK
<1>8. CASE cancel_response \/ response_timeout
  <2>1. /\ Waiting /\ Resolve("exception", <<>>)
        /\ UNCHANGED <<channel, calls, futures_queue, outputs, process>>
    BY <1>8, Zenon DEF cancel_response, response_timeout, NoResponse, Waiting
  <2>2. UNCHANGED <<received, calls, async_output_queue, response_mq>>
    BY <2>1 DEF channel, outputs
  <2> QED BY <2>1, <2>2, SameOrder, ExceptionOK
<1>9. ASSUME NEW w \in Worker, NEW success \in BOOLEAN, execute(w, success)
      PROVE  ExecutorInv'
  BY <1>9, ExecuteOK
<1>10. ASSUME NEW w \in Worker, enqueue_output(w) PROVE ExecutorInv'
  BY <1>10, EnqueueOutputOK
<1>11. ASSUME NEW w \in Worker, die(w) PROVE ExecutorInv'
  <2>1. /\ UNCHANGED <<channel, calls, main, futures, outputs, errors>>
        /\ ~ is_failed /\ is_failed' = is_failed /\ shut_down' = shut_down
        /\ alive' \in [Worker -> BOOLEAN]
    BY <1>0, <1>11 DEF die
  <2> QED BY <1>0, <2>1, ProcessOK
<1>12. CASE monitor_workers
  <2>1. /\ UNCHANGED <<channel, calls, main, futures, outputs, errors>>
        /\ is_failed' = TRUE /\ shut_down' = shut_down
        /\ alive' = [w \in Worker |-> FALSE]
    BY <1>12 DEF monitor_workers
  <2>2. is_failed' \in BOOLEAN /\ shut_down' \in BOOLEAN
    BY <1>0, <2>1, Zenon
  <2>3. alive' \in [Worker -> BOOLEAN] /\ \A w \in Worker : ~ alive'[w]
    BY <2>1, Zenon
  <2>4. (shut_down => shut_down') /\ (shut_down' => is_failed')
    BY <2>1, Zenon
  <2> QED BY <2>1, <2>2, <2>3, <2>4, ProcessOK, Zenon
<1>13. CASE shutdown
  <2>1. /\ UNCHANGED <<channel, calls, main, futures, outputs, errors>>
        /\ is_failed /\ is_failed' = is_failed /\ shut_down' = TRUE /\ alive' = alive
    BY <1>13 DEF shutdown
  <2>2. /\ is_failed' \in BOOLEAN /\ shut_down' \in BOOLEAN
        /\ alive' \in [Worker -> BOOLEAN] /\ \A w \in Worker : ~ alive'[w]
    BY <1>0, <2>1, Zenon
  <2>3. (shut_down => shut_down') /\ (shut_down' => is_failed')
    BY <2>1, Zenon
  <2> QED BY <2>1, <2>2, <2>3, ProcessOK, Zenon
<1>14. CASE UNCHANGED allVars
  <2>1. /\ UNCHANGED <<channel, calls, main, futures, outputs, errors>>
        /\ is_failed' = is_failed /\ shut_down' = shut_down /\ alive' = alive
    BY <1>14 DEF allVars, execVars, process
  <2> QED BY <1>0, <2>1, ProcessOK, Zenon
<1> QED
  BY <1>1, <1>2, <1>3, <1>4, <1>5, <1>6, <1>7, <1>8, <1>9, <1>10, <1>11, <1>12, <1>13,
     <1>14, Zenon DEF ExecutorNext, main_step

\* As long as no earlier call has failed or timed out, the result that
\* collective_rpc returns, at once or through its future, is made of the
\* responses to that very call: with any number of workers, calls in flight,
\* output threads, errors and deaths, and whatever the order in which results
\* are asked for.
THEOREM ResultsMatchCalls == ExecutorSpec => []ResultsOfOwnCallUntilError
<1>1. ExecutorInv => ResultsOfOwnCallUntilError
  BY DEF ExecutorInv
<1> QED BY InitOK, NextOK, <1>1, PTL DEF ExecutorSpec
=============================================================================
