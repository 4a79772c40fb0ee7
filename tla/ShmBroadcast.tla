---------------------------- MODULE ShmBroadcast ----------------------------
(***************************************************************************)
(* MessageQueue and ShmRingBuffer of vllm/distributed/device_communicators *)
(* /shm_broadcast.py with local readers: one writer broadcasts objects     *)
(* through a ring of shared memory chunks.  A chunk has a written flag and *)
(* one read flag per reader.  An object too large for a chunk leaves only  *)
(* a mark there and travels over a socket.  An idle reader parks on a      *)
(* notification socket whose messages may be dropped.                      *)
(*                                                                         *)
(* Each load or store of a flag that another process can observe is a step *)
(* of its own, in program order: the memory fences of the code are what    *)
(* justifies that order.  The n-th object enqueued is the number n.        *)
(***************************************************************************)
EXTENDS Integers, Sequences

CONSTANTS n_reader,     \* number of (local) readers
          max_chunks,   \* number of chunks of the ring
          MaxObjects    \* bound: number of objects enqueued

ASSUME RingAssumption ==
  n_reader \in Nat /\ max_chunks \in Nat \ {0} /\ MaxObjects \in Nat

VARIABLES written_flag,   \* chunk -> BOOLEAN
          read_flag,      \* chunk -> reader -> BOOLEAN
          data,           \* chunk -> object, OverflowMark or Torn
          local_socket,   \* reader -> large objects under way to it
          notified,       \* reader -> a notification waits for it
          writer,         \* control state of the writer
          reader,         \* reader -> its control state
          sent,           \* history: number of objects published
          received        \* history: reader -> objects it dequeued

ringVars == <<written_flag, read_flag, data, local_socket, notified, writer,
              reader, sent, received>>

Reader == 0 .. n_reader - 1
Chunk == 0 .. max_chunks - 1
Torn == 0              \* not written, or being written
OverflowMark == -1     \* first byte 1: the object comes over the socket

\* The state has its types: indices stay in the ring, flags stay boolean.
RingTypeOK ==
  /\ written_flag \in [Chunk -> BOOLEAN]
  /\ read_flag \in [Chunk -> [Reader -> BOOLEAN]]
  /\ data \in [Chunk -> {Torn, OverflowMark} \cup 1 .. sent + 1]
  /\ local_socket \in [Reader -> Seq(1 .. sent)]
  /\ notified \in [Reader -> BOOLEAN]
  /\ writer \in [pc : {"idle", "acquire", "write", "reset", "send", "notify"},
                 current_idx : Chunk, overflow : BOOLEAN, next : 0 .. n_reader]
  /\ reader \in [Reader -> [pc : {"idle", "check", "load", "poll", "read",
                                  "mark", "recv"},
                            current_idx : Chunk, unreadable : BOOLEAN,
                            obj : {Torn, OverflowMark} \cup 1 .. sent]]
  /\ sent \in Nat
  /\ received \in [Reader -> Seq(Nat)]

RingInit ==
  /\ written_flag = [i \in Chunk |-> FALSE]
  /\ read_flag = [i \in Chunk |-> [r \in Reader |-> FALSE]]
  /\ data = [i \in Chunk |-> Torn]
  /\ local_socket = [r \in Reader |-> <<>>]
  /\ notified = [r \in Reader |-> FALSE]
  /\ writer = [pc |-> "idle", current_idx |-> 0, overflow |-> FALSE, next |-> 0]
  /\ reader = [r \in Reader |-> [pc |-> "idle", current_idx |-> 0,
                                 unreadable |-> FALSE, obj |-> Torn]]
  /\ sent = 0
  /\ received = [r \in Reader |-> <<>>]

Advance(idx) == (idx + 1) % max_chunks
-----------------------------------------------------------------------------
(***************************************************************************)
(* The writer: enqueue, around acquire_write.                              *)
(***************************************************************************)
enqueue(overflow) ==
  /\ writer.pc = "idle" /\ sent < MaxObjects
  /\ writer' = [writer EXCEPT !.pc = "acquire", !.overflow = overflow]
  /\ UNCHANGED <<written_flag, read_flag, data, local_socket, notified, reader,
                 sent, received>>

\* Mutant: check() is satisfied when one reader has read the chunk.
can_write_after_one_reader(i) ==
  ~ written_flag[i] \/ \E r \in Reader : read_flag[i][r]

\* check() of acquire_write.
can_write(i) == ~ written_flag[i] \/ \A r \in Reader : read_flag[i][r]

acquire_write ==
  /\ writer.pc = "acquire" /\ can_write(writer.current_idx)
  /\ written_flag' = [written_flag EXCEPT ![writer.current_idx] = FALSE]
  /\ data' = [data EXCEPT ![writer.current_idx] = Torn]
  /\ writer' = [writer EXCEPT !.pc = "write"]
  /\ UNCHANGED <<read_flag, local_socket, notified, reader, sent, received>>

write_chunk ==
  /\ writer.pc = "write"
  /\ data' = [data EXCEPT ![writer.current_idx] =
                IF writer.overflow THEN OverflowMark ELSE sent + 1]
  /\ writer' = [writer EXCEPT !.pc = "reset", !.next = 0]
  /\ UNCHANGED <<written_flag, read_flag, local_socket, notified, reader, sent,
                 received>>

reset_read_flag ==
  /\ writer.pc = "reset" /\ writer.next < n_reader
  /\ read_flag' = [read_flag EXCEPT ![writer.current_idx][writer.next] = FALSE]
  /\ writer' = [writer EXCEPT !.next = @ + 1]
  /\ UNCHANGED <<written_flag, data, local_socket, notified, reader, sent, received>>

\* The chunk is marked written once all read flags are reset.
mark_written ==
  /\ writer.pc = "reset" /\ writer.next = n_reader
  /\ written_flag' = [written_flag EXCEPT ![writer.current_idx] = TRUE]
  /\ writer' = [writer EXCEPT !.pc = IF writer.overflow THEN "send" ELSE "notify",
                              !.current_idx = Advance(@)]
  /\ sent' = sent + 1
  /\ UNCHANGED <<read_flag, data, local_socket, notified, reader, received>>

send_multipart ==
  /\ writer.pc = "send"
  /\ local_socket' = [r \in Reader |-> Append(local_socket[r], sent)]
  /\ writer' = [writer EXCEPT !.pc = "notify"]
  /\ UNCHANGED <<written_flag, read_flag, data, notified, reader, sent, received>>

\* The notification reaches the readers in rs; for the others it is dropped
\* (SNDHWM = 1).  A reader keeps only the last one (CONFLATE).
notify(rs) ==
  /\ writer.pc = "notify"
  /\ notified' = [r \in Reader |-> notified[r] \/ r \in rs]
  /\ writer' = [writer EXCEPT !.pc = "idle"]
  /\ UNCHANGED <<written_flag, read_flag, data, local_socket, reader, sent, received>>
-----------------------------------------------------------------------------
(***************************************************************************)
(* A reader: dequeue, around acquire_read.                                 *)
(***************************************************************************)
dequeue(r) ==
  /\ reader[r].pc = "idle"
  /\ reader' = [reader EXCEPT ![r].pc = "check"]
  /\ UNCHANGED <<written_flag, read_flag, data, local_socket, notified, writer,
                 sent, received>>

\* Mutant: check() loads the written flag first, then the read flag.
Unreadable_swapped(r, n) ==
  IF n = 1 THEN ~ written_flag[reader[r].current_idx]
  ELSE read_flag[reader[r].current_idx][r]

\* What the n-th load of check() in acquire_read tells: TRUE means that the
\* chunk was read by this reader (first load) or is not written (second).
Unreadable(r, n) ==
  IF n = 1 THEN read_flag[reader[r].current_idx][r]
  ELSE ~ written_flag[reader[r].current_idx]

load_first_flag(r) ==
  /\ reader[r].pc = "check"
  /\ reader' = [reader EXCEPT ![r].pc = "load", ![r].unreadable = Unreadable(r, 1)]
  /\ UNCHANGED <<written_flag, read_flag, data, local_socket, notified, writer,
                 sent, received>>

\* Without a chunk to read, SpinCondition.wait returns at once after a recent
\* read, and parks otherwise.
load_second_flag(r) ==
  /\ reader[r].pc = "load"
  /\ IF ~ reader[r].unreadable /\ ~ Unreadable(r, 2)
     THEN reader' = [reader EXCEPT ![r].pc = "read"]
     ELSE \E pc \in {"check", "poll"} :
            reader' = [reader EXCEPT ![r].pc = pc, ![r].unreadable = FALSE]
  /\ UNCHANGED <<written_flag, read_flag, data, local_socket, notified, writer,
                 sent, received>>

wake(r) ==
  /\ reader[r].pc = "poll" /\ notified[r]
  /\ notified' = [notified EXCEPT ![r] = FALSE]
  /\ reader' = [reader EXCEPT ![r].pc = "check"]
  /\ UNCHANGED <<written_flag, read_flag, data, local_socket, writer, sent, received>>

\* Mutant: without a recheck interval the poll ends only with a notification.
recheck_never(r) == wake(r)

\* The poll ends after SHM_READER_RECHECK_INTERVAL_MS at the latest.
recheck(r) ==
  /\ reader[r].pc = "poll" /\ ~ notified[r]
  /\ reader' = [reader EXCEPT ![r].pc = "check"]
  /\ UNCHANGED <<written_flag, read_flag, data, local_socket, notified, writer,
                 sent, received>>

read_chunk(r) ==
  /\ reader[r].pc = "read"
  /\ reader' = [reader EXCEPT ![r].pc = "mark", ![r].obj = data[reader[r].current_idx]]
  /\ UNCHANGED <<written_flag, read_flag, data, local_socket, notified, writer,
                 sent, received>>

\* The chunk is marked read and left before a large object is received.
mark_read(r) ==
  /\ reader[r].pc = "mark"
  /\ read_flag' = [read_flag EXCEPT ![reader[r].current_idx][r] = TRUE]
  /\ reader' = [reader EXCEPT ![r].current_idx = Advance(@), ![r].obj = Torn,
                  ![r].pc = IF reader[r].obj = OverflowMark THEN "recv" ELSE "idle"]
  /\ received' = IF reader[r].obj = OverflowMark THEN received
                 ELSE [received EXCEPT ![r] = Append(@, reader[r].obj)]
  /\ UNCHANGED <<written_flag, data, local_socket, notified, writer, sent>>

recv(r) ==
  /\ reader[r].pc = "recv" /\ local_socket[r] # <<>>
  /\ received' = [received EXCEPT ![r] = Append(@, Head(local_socket[r]))]
  /\ local_socket' = [local_socket EXCEPT ![r] = Tail(@)]
  /\ reader' = [reader EXCEPT ![r].pc = "idle"]
  /\ UNCHANGED <<written_flag, read_flag, data, notified, writer, sent>>
-----------------------------------------------------------------------------
WriterStep == \/ acquire_write \/ write_chunk \/ reset_read_flag \/ mark_written
              \/ send_multipart \/ \E rs \in SUBSET Reader : notify(rs)

ReaderStep(r) == \/ load_first_flag(r) \/ load_second_flag(r) \/ wake(r)
                 \/ recheck(r) \/ read_chunk(r) \/ mark_read(r) \/ recv(r)

RingNext == \/ \E overflow \in BOOLEAN : enqueue(overflow)
            \/ WriterStep
            \/ \E r \in Reader : dequeue(r) \/ ReaderStep(r)

RingSpec == RingInit /\ [][RingNext]_ringVars

\* An enqueue once begun runs to its end, and the readers (the busy loops of the
\* workers) keep dequeuing.  Nobody has to enqueue, and no notification has to
\* arrive.
FairRingSpec ==
  /\ RingSpec
  /\ WF_ringVars(WriterStep)
  /\ \A r \in Reader : WF_ringVars(dequeue(r) \/ ReaderStep(r))
-----------------------------------------------------------------------------
\* While a reader has a chunk open (between a successful check() and the read
\* flag it sets afterwards), the chunk holds the object the reader is due, or
\* the mark that stands for it: the writer never writes under a reader, and a
\* reader never enters a chunk that is half written or left from the last lap.
ReaderOwnsChunk ==
  \A r \in Reader : reader[r].pc \in {"read", "mark"} =>
     /\ data[reader[r].current_idx] \in {OverflowMark, Len(received[r]) + 1}
     /\ written_flag[reader[r].current_idx]

Channel == INSTANCE Broadcast WITH Capacity <- max_chunks + 1

\* The ring implements the broadcast channel: every reader gets every object
\* once and in order, whatever the overlap of laps, large objects and lost
\* notifications.  A reader that left a chunk to receive a large object is one
\* object further behind than the ring has chunks.
ImplementsBroadcast == Channel!Spec

\* Every object published reaches every reader, and an enqueue that waits for a
\* chunk gets it, although a reader may park just before the write and its
\* notification may be dropped: the recheck interval bounds the loss.
ObjectsArrive ==
  /\ \A r \in Reader, n \in 1 .. MaxObjects :
        sent >= n ~> Len(received[r]) >= n
  /\ writer.pc # "idle" ~> writer.pc = "idle"
=============================================================================
