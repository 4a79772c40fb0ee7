---------------------------- MODULE RequestQueue ----------------------------
(***************************************************************************)
(* FCFSRequestQueue and PriorityRequestQueue of                            *)
(* vllm/v1/core/sched/request_queue.py, and the choice between the two     *)
(* queues of waiting requests.  A heap is kept as its elements in order;   *)
(* priority stands for priority and arrival time together.                 *)
(***************************************************************************)
LOCAL INSTANCE Lists

CONSTANTS Request, policy, priority

InOrder(q, r) == Filter(q, {x \in Request : priority[x] < priority[r]}) \o <<r>>
                   \o Filter(q, {x \in Request : priority[x] > priority[r]})
add_request(q, r) == IF policy = "priority" THEN InOrder(q, r) ELSE Append(q, r)
prepend_request(q, r) == IF policy = "priority" THEN InOrder(q, r) ELSE <<r>> \o q

\* extendleft: the front of requests ends up last.
prepend_requests(q, new) ==
  LET after[i \in 0 .. Len(new)] ==
        IF i = 0 THEN q ELSE prepend_request(after[i - 1], new[i])
  IN  after[Len(new)]

remove_requests(q, S) == Filter(q, Request \ S)

select_waiting_queue(s) ==
  IF policy = "fcfs" THEN IF s.skipped_waiting # <<>> THEN "skipped_waiting" ELSE "waiting"
  ELSE IF s.waiting # <<>> /\ s.skipped_waiting # <<>>
  THEN IF priority[Head(s.waiting)] < priority[Head(s.skipped_waiting)]
       THEN "waiting" ELSE "skipped_waiting"
  ELSE IF s.waiting # <<>> THEN "waiting" ELSE "skipped_waiting"
=============================================================================
