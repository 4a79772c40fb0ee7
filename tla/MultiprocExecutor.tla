------------------------- MODULE MultiprocExecutor --------------------------
(***************************************************************************)
(* Remote procedure calls of vllm/v1/executor/multiproc_executor.py: the   *)
(* executor broadcasts a call to the worker processes (rpc_broadcast_mq),  *)
(* and each worker that has to reply does so on a message queue of its     *)
(* own.  The message queues are the channels that Broadcast specifies and  *)
(* ShmBroadcast implements.  Call n is the n-th object of the broadcast.   *)
(*                                                                         *)
(* Nothing in a response names its call: a future takes whatever comes     *)
(* next on the response queues.                                            *)
(*                                                                         *)
(* Faults: a worker raises in a call, the executor times out on a          *)
(* response, a worker process dies and the monitor thread shuts the        *)
(* executor down.                                                          *)
(***************************************************************************)
EXTENDS Broadcast, FiniteSets

CONSTANTS n_worker,               \* number of worker processes
          use_async_scheduling,   \* worker outputs go through a thread
          OutputRank,             \* who may be asked to reply, None: all
          None,
          MaxCalls,               \* bound: number of calls
          MaxErrors,              \* bound: failed and timed out responses
          MaxDeaths               \* bound: worker processes that die

ASSUME ExecutorAssumption ==
  /\ use_async_scheduling \in BOOLEAN
  /\ n_worker \in Nat \ {0} /\ Capacity \in Nat \ {0}
  /\ Reader = 0 .. n_worker - 1
  /\ None \notin Reader /\ OutputRank \subseteq Reader \cup {None}
  /\ MaxCalls \in Nat /\ MaxErrors \in Nat /\ MaxDeaths \in Nat

VARIABLES calls,                \* the calls made: output_rank and non_block
          main,                 \* control state of the executor's main thread
          futures_queue,        \* calls whose futures are not waited for yet
          future,               \* call -> state of its future
          async_output_queue,   \* worker -> outputs for its output thread
          response_mq,          \* worker -> responses for the executor
          is_failed,            \* the monitor has seen a worker die
          shut_down,            \* shutdown() has dropped the queues
          alive,                \* worker -> its process runs
          errors                \* number of failures and timeouts so far

futures == <<futures_queue, future>>
outputs == <<async_output_queue, response_mq>>
process == <<is_failed, shut_down, alive>>
channel == <<sent, received>>
execVars == <<calls, main, futures, outputs, process, errors>>
allVars == <<channel, execVars>>

Worker == Reader
Call == 1 .. MaxCalls
Response == [call : Call, success : BOOLEAN]
Pending == [status |-> "pending", replies |-> 0, from |-> <<>>]

\* The state has its types, and a future leaves futures_queue before it is done.
ExecutorTypeOK ==
  /\ sent \in Nat /\ received \in [Reader -> Seq(Nat)]
  /\ calls \in Seq([output_rank : OutputRank, non_block : BOOLEAN])
  /\ main \in [pc : {"idle", "enqueue", "result", "get_response"},
               target : 0 .. MaxCalls, current : 0 .. MaxCalls,
               from : Seq(Call)]
  /\ futures_queue \in Seq(Call)
  /\ \A i \in DOMAIN futures_queue : future[futures_queue[i]].status = "pending"
  /\ future \in Seq([status : {"pending", "result", "exception"},
                     replies : 0 .. n_worker, from : Seq(Call)])
  /\ async_output_queue \in [Worker -> Seq(Response)]
  /\ response_mq \in [Worker -> Seq(Response)]
  /\ is_failed \in BOOLEAN /\ shut_down \in BOOLEAN
  /\ alive \in [Worker -> BOOLEAN]
  /\ errors \in 0 .. MaxErrors

ExecutorInit ==
  /\ Init
  /\ calls = <<>>
  /\ main = [pc |-> "idle", target |-> 0, current |-> 0, from |-> <<>>]
  /\ futures_queue = <<>>
  /\ future = <<>>
  /\ async_output_queue = [w \in Worker |-> <<>>]
  /\ response_mq = [w \in Worker |-> <<>>]
  /\ is_failed = FALSE /\ shut_down = FALSE
  /\ alive = [w \in Worker |-> TRUE]
  /\ errors = 0

Replies(w, c) == calls[c].output_rank \in {None, w}
NumReplies(c) == IF calls[c].output_rank = None THEN n_worker ELSE 1
\* The worker whose response mq get_response reads after k others.
ReplyRank(c, k) ==
  IF calls[c].output_rank = None THEN k ELSE calls[c].output_rank
-----------------------------------------------------------------------------
(***************************************************************************)
(* The executor's main thread.                                             *)
(***************************************************************************)
collective_rpc(output_rank, non_block) ==
  /\ main.pc = "idle" /\ ~ is_failed /\ Len(calls) < MaxCalls
  /\ calls' = Append(calls, [output_rank |-> output_rank,
                             non_block |-> non_block])
  /\ main' = [main EXCEPT !.pc = "enqueue"]
  /\ UNCHANGED <<channel, futures, outputs, process, errors>>

create_future(c) ==
  /\ futures_queue' = Append(futures_queue, c)
  /\ future' = Append(future, [Pending EXCEPT !.replies = IF shut_down THEN 0
                                                         ELSE NumReplies(c)])
  /\ main' = IF calls[c].non_block THEN [main EXCEPT !.pc = "idle"]
             ELSE [main EXCEPT !.pc = "result", !.target = c]

\* rpc_broadcast_mq.enqueue has a free chunk.  response_mqs is read after it:
\* once shutdown() has emptied that list, picking a rank raises IndexError, and
\* a call to all ranks returns without a response.
enqueue_call ==
  LET c == Len(calls)
  IN  /\ main.pc = "enqueue"
      /\ Enqueue
      /\ IF shut_down /\ calls[c].output_rank # None
         THEN main' = [main EXCEPT !.pc = "idle"] /\ UNCHANGED futures
         ELSE create_future(c)
      /\ UNCHANGED <<calls, async_output_queue, response_mq,
                     process, errors>>

\* result() on the future of call c, of a call made with non_block.
result(c) ==
  /\ main.pc = "idle" /\ future[c].status = "pending"
  /\ main' = [main EXCEPT !.pc = "result", !.target = c]
  /\ UNCHANGED <<channel, calls, futures, outputs, process, errors>>

\* Mutant: the future does not wait for the futures ahead of it.
pop_future_own ==
  /\ main.pc = "result" /\ future[main.target].status = "pending"
  /\ main' = [main EXCEPT !.pc = "get_response", !.current = main.target]
  /\ futures_queue' = SelectSeq(futures_queue, LAMBDA c : c # main.target)
  /\ UNCHANGED <<channel, calls, future, outputs, process, errors>>

\* result() waits for the oldest future of the queue, until its own is done.
pop_future ==
  /\ main.pc = "result" /\ future[main.target].status = "pending"
  /\ main' = [main EXCEPT !.pc = "get_response", !.current = Head(futures_queue)]
  /\ futures_queue' = Tail(futures_queue)
  /\ UNCHANGED <<channel, calls, future, outputs, process, errors>>

return_result ==
  /\ main.pc = "result" /\ future[main.target].status # "pending"
  /\ main' = [main EXCEPT !.pc = "idle", !.target = 0]
  /\ UNCHANGED <<channel, calls, futures, outputs, process, errors>>

\* _wait_for_response ends with set_result or set_exception.
Resolve(status, from) ==
  /\ future' = [future EXCEPT ![main.current].status = status,
                               ![main.current].from = from]
  /\ main' = [main EXCEPT !.pc = "result", !.current = 0, !.from = <<>>]

AwaitedReply == ReplyRank(main.current, Len(main.from))

\* get_response has a response from each of its queues.
got_responses ==
  /\ main.pc = "get_response" /\ Len(main.from) = future[main.current].replies
  /\ Resolve("result", main.from)
  /\ UNCHANGED <<channel, calls, futures_queue, outputs, process, errors>>

\* One iteration of the loop of get_response over the response queues.
get_response ==
  /\ main.pc = "get_response" /\ Len(main.from) < future[main.current].replies
  /\ response_mq[AwaitedReply] # <<>>
  /\ LET response == Head(response_mq[AwaitedReply])
     IN  IF response.success
         THEN /\ main' = [main EXCEPT !.from = Append(@, response.call)]
              /\ UNCHANGED future
         ELSE Resolve("exception", <<>>)
  /\ response_mq' = [response_mq EXCEPT ![AwaitedReply] = Tail(@)]
  /\ UNCHANGED <<channel, calls, futures_queue, async_output_queue,
                 process, errors>>

\* dequeue finds the response queue empty.
NoResponse == /\ main.pc = "get_response"
              /\ Len(main.from) < future[main.current].replies
              /\ response_mq[AwaitedReply] = <<>>

\* dequeue raises TimeoutError: the deadline of the call has passed.
response_timeout ==
  /\ NoResponse /\ errors < MaxErrors
  /\ Resolve("exception", <<>>)
  /\ errors' = errors + 1
  /\ UNCHANGED <<channel, calls, futures_queue, outputs, process>>

\* Mutant: shutdown() leaves a reader that waits on a response queue asleep.
response_never_cancelled == FALSE

\* dequeue raises "cancelled": shutdown() has been called on the queue.
response_cancelled == shut_down

cancel_response ==
  /\ NoResponse /\ response_cancelled
  /\ Resolve("exception", <<>>)
  /\ UNCHANGED <<channel, calls, futures_queue, outputs, process, errors>>
-----------------------------------------------------------------------------
(***************************************************************************)
(* The workers: worker_busy_loop and the output thread.                    *)
(***************************************************************************)
\* The worker takes the next call off the broadcast and runs it; the method
\* returns (success) or raises, and handle_output follows if it has to reply.
execute(w, success) ==
  LET c == Len(received[w]) + 1
      response == [call |-> c, success |-> success]
  IN  /\ alive[w]
      /\ Dequeue(w)
      /\ IF success THEN UNCHANGED errors
         ELSE errors < MaxErrors /\ errors' = errors + 1
      /\ IF ~ Replies(w, c) THEN UNCHANGED outputs
         ELSE IF use_async_scheduling
         THEN /\ async_output_queue' = [async_output_queue EXCEPT
                                          ![w] = Append(@, response)]
              /\ UNCHANGED response_mq
         ELSE /\ response_mq' = [response_mq EXCEPT ![w] = Append(@, response)]
              /\ UNCHANGED async_output_queue
      /\ UNCHANGED <<calls, main, futures_queue, future, process>>

enqueue_output(w) ==
  /\ alive[w] /\ async_output_queue[w] # <<>>
  /\ response_mq' = [response_mq EXCEPT
                       ![w] = Append(@, Head(async_output_queue[w]))]
  /\ async_output_queue' = [async_output_queue EXCEPT ![w] = Tail(@)]
  /\ UNCHANGED <<channel, calls, main, futures_queue, future, process, errors>>

\* The process of worker w dies, at any point of its loop.
die(w) ==
  /\ alive[w] /\ ~ is_failed
  /\ Cardinality({v \in Worker : ~ alive[v]}) < MaxDeaths
  /\ alive' = [alive EXCEPT ![w] = FALSE]
  /\ UNCHANGED <<channel, calls, main, futures, outputs, is_failed, shut_down, errors>>

\* The monitor marks the executor failed, and shutdown() ends the workers.
monitor_workers ==
  /\ ~ is_failed /\ \E w \in Worker : ~ alive[w]
  /\ is_failed' = TRUE
  /\ alive' = [w \in Worker |-> FALSE]
  /\ UNCHANGED <<channel, calls, main, futures, outputs, shut_down, errors>>

\* With the workers gone, shutdown() cancels the queues and drops them.
shutdown ==
  /\ is_failed /\ ~ shut_down
  /\ shut_down' = TRUE
  /\ UNCHANGED <<channel, calls, main, futures, outputs, is_failed, alive, errors>>
-----------------------------------------------------------------------------
main_step == \/ enqueue_call \/ pop_future \/ return_result \/ get_response
             \/ got_responses \/ cancel_response

ExecutorNext ==
  \/ \E output_rank \in OutputRank, non_block \in BOOLEAN :
        collective_rpc(output_rank, non_block)
  \/ \E c \in DOMAIN future : result(c)
  \/ main_step
  \/ response_timeout
  \/ \E w \in Worker : \/ \E success \in BOOLEAN : execute(w, success)
                       \/ enqueue_output(w) \/ die(w)
  \/ monitor_workers \/ shutdown

ExecutorSpec == ExecutorInit /\ [][ExecutorNext]_allVars

\* The main thread, the workers' threads and the monitor keep running.  Nobody
\* has to make a call, to ask for a result, to fail or to die.
ExecutorFairness ==
  /\ WF_allVars(main_step)
  /\ \A w \in Worker : /\ WF_allVars(execute(w, TRUE))
                       /\ WF_allVars(enqueue_output(w))
  /\ WF_allVars(monitor_workers \/ shutdown)

FairExecutorSpec == ExecutorSpec /\ ExecutorFairness
-----------------------------------------------------------------------------
\* The responses of call c, in the order in which get_response reads them.
OwnResponses(c) == [i \in 1 .. NumReplies(c) |-> c]

\* What collective_rpc is documented to return: the result of a call is made
\* of the responses to that call.  As a response does not name its call, this
\* fails after a timeout (README, further disagreements), so no run checks it.
ResultsOfOwnCall ==
  \A c \in DOMAIN future :
     future[c].status = "result" => future[c].from = OwnResponses(c)

\* As long as no earlier call failed or timed out, the result of a call is made
\* of the responses to that call, with calls in flight, replies from one or from
\* all workers, futures asked for in any order, and output threads.  Only a call
\* that shutdown() overtakes between its enqueue and its read of response_mqs
\* returns with no response at all.
ResultsOfOwnCallUntilError ==
  \A c \in DOMAIN future :
     /\ future[c].status = "result"
     /\ \A d \in 1 .. c - 1 : future[d].status # "exception"
     => \/ future[c].from = OwnResponses(c)
        \/ shut_down /\ future[c].from = <<>>

\* A call that the main thread makes, and a result it waits for, ends: with the
\* responses, or with an exception when a worker fails or dies.  The one way to
\* get stuck is acquire_write on a full ring that a dead worker does not read.
CallsReturn ==
  main.pc # "idle" ~> \/ main.pc = "idle"
                      \/ main.pc = "enqueue" /\ \E w \in Worker : ~ alive[w]
=============================================================================
