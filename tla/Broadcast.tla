----------------------------- MODULE Broadcast ------------------------------
(***************************************************************************)
(* What MessageQueue (vllm/distributed/device_communicators/               *)
(* shm_broadcast.py) promises: every reader gets every object that the     *)
(* writer enqueued, once and in order, and the writer never runs ahead of  *)
(* a reader by more than Capacity objects.  The n-th object enqueued is    *)
(* the number n.                                                           *)
(***************************************************************************)
EXTENDS Naturals, Sequences

CONSTANTS Reader, Capacity

VARIABLES sent,       \* how many objects have been enqueued
          received    \* reader -> the objects it has dequeued

Init == sent = 0 /\ received = [r \in Reader |-> <<>>]

Enqueue == /\ \A r \in Reader : sent - Len(received[r]) < Capacity
           /\ sent' = sent + 1
           /\ UNCHANGED received

Dequeue(r) == /\ Len(received[r]) < sent
              /\ received' = [received EXCEPT ![r] = Append(@, Len(@) + 1)]
              /\ UNCHANGED sent

Next == Enqueue \/ \E r \in Reader : Dequeue(r)

Spec == Init /\ [][Next]_<<sent, received>>
=============================================================================
