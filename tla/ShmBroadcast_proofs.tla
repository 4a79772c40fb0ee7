------------------------ MODULE ShmBroadcast_proofs -------------------------
(***************************************************************************)
(* The ring of chunks implements the broadcast channel, for every number   *)
(* of readers, chunks and objects.                                         *)
(***************************************************************************)
EXTENDS ShmBroadcast, Lists, TLAPS

\* The provers of the leaves that name none, in the order they are tried.
USE SMTT(90), ZenonT(20), SMTT(91), SMTT(92)

-----------------------------------------------------------------------------
(* The inductive invariant.  Objects are counted from 0 here: object k is in *)
(* chunk Slot(k), and is the number k + 1 of the histories.                  *)

Slot(k) == k % max_chunks

\* How many chunks a reader has left behind.
Consumed(r) == Len(received[r]) + (IF reader[r].pc = "recv" THEN 1 ELSE 0)

\* The writer owns the chunk of the next object.
Filling == writer.pc \in {"write", "reset"}

\* The objects whose chunk has not been taken back by the writer.
Live == {k \in 0 .. sent - 1 : sent <= k + max_chunks /\ (Filling => sent # k + max_chunks)}

WriterState == [pc : {"idle", "acquire", "write", "reset", "send", "notify"},
                current_idx : Chunk, overflow : BOOLEAN, next : 0 .. n_reader]

ReaderState == [pc : {"idle", "check", "load", "poll", "read", "mark", "recv"},
                current_idx : Chunk, unreadable : BOOLEAN, obj : Int]

RingTyped ==
  /\ written_flag \in [Chunk -> BOOLEAN]
  /\ read_flag \in [Chunk -> [Reader -> BOOLEAN]]
  /\ data \in [Chunk -> Int]
  /\ local_socket \in [Reader -> Seq(Nat)]
  /\ notified \in [Reader -> BOOLEAN]
  /\ writer \in WriterState
  /\ reader \in [Reader -> ReaderState]
  /\ sent \in Nat
  /\ received \in [Reader -> Seq(Int)]

\* The positions follow from the counts, and no reader is lapped.
Positions ==
  /\ writer.current_idx = Slot(sent)
  /\ \A r \in Reader : /\ reader[r].current_idx = Slot(Consumed(r))
                       /\ Consumed(r) <= sent /\ sent <= Consumed(r) + max_chunks
                       /\ Filling => sent # Consumed(r) + max_chunks

\* What the flags and the data of a chunk that holds an object say.
Chunks ==
  \A k \in Live : /\ written_flag[Slot(k)]
                  /\ data[Slot(k)] \in {OverflowMark, k + 1}
                  /\ \A r \in Reader : read_flag[Slot(k)][r] <=> k < Consumed(r)

\* The chunks of the first lap that are still to be filled, and the chunk that
\* the writer is filling.
Unwritten ==
  /\ \A k \in sent .. max_chunks - 1 :
       ~ written_flag[k] /\ \A r \in Reader : ~ read_flag[k][r]
  /\ Filling => ~ written_flag[Slot(sent)]
  /\ writer.pc = "reset" =>
       /\ data[Slot(sent)] = IF writer.overflow THEN OverflowMark ELSE sent + 1
       /\ \A r \in Reader : r < writer.next => ~ read_flag[Slot(sent)][r]

\* What a reader knows from the flags it has loaded.
Readers ==
  \A r \in Reader :
    /\ reader[r].pc = "load" /\ ~ reader[r].unreadable =>
         Consumed(r) < sent \/ ~ written_flag[Slot(sent)]
    /\ reader[r].pc \in {"read", "mark"} => Consumed(r) < sent
    /\ reader[r].pc = "mark" => reader[r].obj = data[reader[r].current_idx]

\* Object k is a large one that reader r still has to receive.
Due(r, k) ==
  /\ k \in 0 .. sent - 1 /\ Len(received[r]) <= k
  /\ k < Consumed(r) \/ data[Slot(k)] = OverflowMark

\* The socket of a reader holds the large objects it has to receive, in order,
\* but for the one that the writer is about to send.
Sockets ==
  \A r \in Reader :
    /\ \A i, j \in 1 .. Len(local_socket[r]) : i < j => local_socket[r][i] < local_socket[r][j]
    /\ \A n \in Elements(local_socket[r]) :
         Due(r, n - 1) /\ (writer.pc = "send" => n # sent)
    /\ \A k \in 0 .. sent - 1 : Due(r, k) =>
         k + 1 \in Elements(local_socket[r]) \/ (writer.pc = "send" /\ k + 1 = sent)
    /\ writer.pc = "send" => Due(r, sent - 1)

RingInv == RingTyped /\ Positions /\ Chunks /\ Unwritten /\ Readers /\ Sockets

-----------------------------------------------------------------------------
(* The chunks as a ring. *)

\* A number is determined by its quotient and its remainder.
LEMMA Quotient ==
  ASSUME NEW a \in Nat
  PROVE  /\ a \div max_chunks \in Int /\ a % max_chunks \in 0 .. max_chunks - 1
         /\ a = max_chunks * (a \div max_chunks) + (a % max_chunks)
BY RingAssumption

\* The converse: a quotient with a remainder in range gives that remainder.
LEMMA Remainder ==
  ASSUME NEW q \in Int, NEW i \in 0 .. max_chunks - 1, NEW a \in Int, a = max_chunks * q + i
  PROVE  a % max_chunks = i
BY RingAssumption

\* Object k is in a chunk of the ring, k itself in the first lap.
LEMMA SlotTyped ==
  ASSUME NEW k \in Nat
  PROVE  Slot(k) \in Chunk /\ (k < max_chunks => Slot(k) = k)
BY RingAssumption DEF Slot, Chunk

\* Advance goes on to the chunk of the next object.
LEMMA SlotNext ==
  ASSUME NEW k \in Nat
  PROVE  Slot(k + 1) = Advance(Slot(k))
<1> DEFINE q == k \div max_chunks
           i == k % max_chunks
<1>1. q \in Int /\ i \in 0 .. max_chunks - 1 /\ k = max_chunks * q + i
  BY Quotient
<1> HIDE DEF q, i
<1>2. CASE i + 1 < max_chunks
  <2>1. (k + 1) % max_chunks = i + 1
    BY <1>1, <1>2, Remainder, RingAssumption
  <2>2. (i + 1) % max_chunks = i + 1
    BY <1>1, <1>2, RingAssumption
  <2> QED
    BY <2>1, <2>2 DEF Slot, Advance, i
<1>3. CASE i + 1 = max_chunks
  <2>1. k + 1 = max_chunks * (q + 1) + 0
    BY <1>1, <1>3, RingAssumption
  <2>2. (k + 1) % max_chunks = 0
    BY <1>1, <2>1, Remainder, RingAssumption
  <2>3. (i + 1) % max_chunks = 0
    BY <1>1, <1>3, RingAssumption
  <2> QED
    BY <2>2, <2>3 DEF Slot, Advance, i
<1> QED
  BY <1>1, <1>2, <1>3, RingAssumption

\* Object k shares its chunk with the object one lap later,
LEMMA SlotLap ==
  ASSUME NEW k \in Nat
  PROVE  Slot(k + max_chunks) = Slot(k)
<1> DEFINE q == k \div max_chunks
           i == k % max_chunks
<1>1. q \in Int /\ i \in 0 .. max_chunks - 1 /\ k = max_chunks * q + i
  BY Quotient
<1> HIDE DEF q, i
<1>2. k + max_chunks = max_chunks * (q + 1) + i
  BY <1>1, RingAssumption
<1>3. (k + max_chunks) % max_chunks = i
  BY <1>1, <1>2, Remainder, RingAssumption
<1> QED
  BY <1>3 DEF Slot, i

\* and with none in between.
LEMMA SlotApart ==
  ASSUME NEW k \in Nat, NEW j \in Nat, k < j, j < k + max_chunks
  PROVE  Slot(k) # Slot(j)
<1> SUFFICES ASSUME Slot(k) = Slot(j) PROVE FALSE
  OBVIOUS
<1> DEFINE p == k \div max_chunks
           q == j \div max_chunks
           i == k % max_chunks
<1>1. /\ p \in Int /\ q \in Int /\ i \in 0 .. max_chunks - 1
      /\ k = max_chunks * p + i /\ j = max_chunks * q + i
  BY Quotient DEF Slot
<1> HIDE DEF p, q, i
<1>2. j - k = max_chunks * (q - p)
  BY <1>1, RingAssumption
<1>3. CASE q - p >= 1
  <2>1. max_chunks * (q - p) >= max_chunks
    BY <1>1, <1>3, RingAssumption
  <2> QED
    BY <1>2, <2>1, RingAssumption
<1>4. CASE q - p <= 0
  <2>1. max_chunks * (q - p) <= 0
    BY <1>1, <1>4, RingAssumption
  <2> QED
    BY <1>2, <2>1
<1> QED
  BY <1>1, <1>3, <1>4

-----------------------------------------------------------------------------
(* The initial states, and steps that only change a process's control state. *)

\* The counts are natural numbers.
LEMMA Counts ==
  ASSUME RingTyped
  PROVE  /\ sent \in Nat
         /\ \A r \in Reader : /\ Len(received[r]) \in Nat /\ Consumed(r) \in Nat
                               /\ Len(received[r]) <= Consumed(r)
                               /\ Consumed(r) <= Len(received[r]) + 1
BY DEF RingTyped, Consumed

\* The ring starts empty, with every process at chunk 0.
LEMMA RingInitInv == RingInit => RingInv
<1> SUFFICES ASSUME RingInit PROVE RingInv
  OBVIOUS
<1>1. RingTyped
  BY RingAssumption DEF RingInit, RingTyped, Torn, Chunk, WriterState, ReaderState
<1>2. \A r \in Reader : Consumed(r) = 0
  BY DEF RingInit, Consumed
<1>3. Slot(0) = 0
  BY SlotTyped, RingAssumption
<1>4. Positions
  BY <1>2, <1>3, RingAssumption DEF RingInit, Positions, Filling
<1>5. Chunks
  BY DEF RingInit, Chunks, Live
<1>6. Unwritten
  BY DEF RingInit, Unwritten, Filling, Chunk
<1>7. Readers
  BY DEF RingInit, Readers
<1>8. Sockets
  BY DEF RingInit, Sockets, Elements
<1> QED
  BY <1>1, <1>4, <1>5, <1>6, <1>7, <1>8 DEF RingInv

\* A step of a reader that neither takes nor leaves a chunk.
LEMMA ReaderFrame ==
  ASSUME RingInv, RingTyped', Readers',
         UNCHANGED <<written_flag, read_flag, data, local_socket, writer, sent, received>>,
         \A r \in Reader : /\ reader'[r].current_idx = reader[r].current_idx
                           /\ reader'[r].pc = "recv" <=> reader[r].pc = "recv"
  PROVE  RingInv'
<1>1. \A r \in Reader : Consumed(r)' = Consumed(r)
  BY ZenonT(90) DEF Consumed
<1>2. (Live' = Live) /\ (Filling' <=> Filling)
  BY DEF Live, Filling
<1>3. Positions'
  BY <1>1, <1>2 DEF RingInv, Positions, Slot
<1>4. Chunks'
  BY <1>1, <1>2 DEF RingInv, Chunks, Slot
<1>5. Unwritten'
  BY <1>2 DEF RingInv, Unwritten, Slot
<1>6. \A r \in Reader : \A k : Due(r, k)' <=> Due(r, k)
  BY <1>1 DEF Due, Slot
<1>7. Sockets'
  BY <1>6 DEF RingInv, Sockets
<1> QED
  BY <1>3, <1>4, <1>5, <1>7 DEF RingInv

\* A step of the writer outside of a chunk.
LEMMA WriterFrame ==
  ASSUME RingInv, RingTyped', writer'.current_idx = writer.current_idx,
         UNCHANGED <<written_flag, read_flag, data, local_socket, reader, sent, received>>,
         writer.pc \notin {"write", "reset", "send"}, writer'.pc \notin {"write", "reset", "send"}
  PROVE  RingInv'
<1>1. \A r \in Reader : Consumed(r)' = Consumed(r)
  BY DEF Consumed
<1>2. (Live' = Live) /\ ~ Filling /\ ~ Filling'
  BY DEF Live, Filling
<1>3. Positions'
  BY <1>1, <1>2 DEF RingInv, Positions, Slot
<1>4. Chunks'
  BY <1>1, <1>2 DEF RingInv, Chunks, Slot
<1>5. Unwritten'
  BY <1>2 DEF RingInv, Unwritten, Slot
<1>6. Readers'
  BY <1>1 DEF RingInv, Readers, Slot
<1>7. \A r \in Reader : \A k : Due(r, k)' <=> Due(r, k)
  BY <1>1 DEF Due, Slot
<1>8. Sockets'
  BY <1>7 DEF RingInv, Sockets
<1> QED
  BY <1>3, <1>4, <1>5, <1>6, <1>8 DEF RingInv


\* A reader with a new control state, at the same chunk.
LEMMA ReaderMoves ==
  ASSUME RingInv, NEW r \in Reader, NEW new \in ReaderState,
         reader' = [reader EXCEPT ![r] = new],
         UNCHANGED <<written_flag, read_flag, data, local_socket, writer, sent, received>>,
         notified' \in [Reader -> BOOLEAN],
         new.current_idx = reader[r].current_idx, new.pc # "recv", reader[r].pc # "recv",
         new.pc = "load" /\ ~ new.unreadable => Consumed(r) < sent \/ ~ written_flag[Slot(sent)],
         new.pc \in {"read", "mark"} => Consumed(r) < sent,
         new.pc = "mark" => new.obj = data[new.current_idx]
  PROVE  RingInv'
<1>1. reader'[r] = new /\ \A s \in Reader \ {r} : reader'[s] = reader[s]
  BY DEF RingInv, RingTyped
<1>2. RingTyped'
  BY ZenonT(90) DEF RingInv, RingTyped
<1>3. \A s \in Reader : Consumed(s)' = Consumed(s)
  BY ZenonT(90), <1>1 DEF Consumed
<1>4. Readers'
  BY <1>1, <1>3 DEF RingInv, Readers, Slot
<1>5. \A s \in Reader : /\ reader'[s].current_idx = reader[s].current_idx
                        /\ reader'[s].pc = "recv" <=> reader[s].pc = "recv"
  BY <1>1
<1> QED
  BY <1>2, <1>4, <1>5, ReaderFrame

-----------------------------------------------------------------------------
(* The steps of the readers. *)

\* dequeue, wake and recheck only move a reader on to its check.
LEMMA MoveStep ==
  ASSUME RingInv, NEW r \in Reader, dequeue(r) \/ wake(r) \/ recheck(r)
  PROVE  RingInv'
<1> DEFINE new == [reader[r] EXCEPT !.pc = "check"]
<1>1. reader[r] \in ReaderState /\ notified \in [Reader -> BOOLEAN]
  BY DEF RingInv, RingTyped
<1>2. new \in ReaderState /\ new.pc = "check" /\ new.current_idx = reader[r].current_idx
  BY <1>1 DEF ReaderState
<1>3. /\ reader' = [reader EXCEPT ![r] = new] /\ reader[r].pc \in {"idle", "poll"}
      /\ UNCHANGED <<written_flag, read_flag, data, local_socket, writer, sent, received>>
      /\ notified' = notified \/ notified' = [notified EXCEPT ![r] = FALSE]
  BY DEF dequeue, wake, recheck
<1>4. notified' \in [Reader -> BOOLEAN]
  BY ZenonT(90), <1>1, <1>3
<1> HIDE DEF new
<1> QED
  BY ZenonT(90), <1>2, <1>3, <1>4, ReaderMoves

\* A reader that finds its read flag reset knows that its chunk is not left from
\* the last lap: the object it is due is there, or the chunk is not written.
LEMMA FirstFlagStep ==
  ASSUME RingInv, NEW r \in Reader, load_first_flag(r)
  PROVE  RingInv'
<1> DEFINE flag == read_flag[reader[r].current_idx][r]
           new == [reader[r] EXCEPT !.pc = "load", !.unreadable = flag]
<1>1. /\ reader[r] \in ReaderState /\ notified \in [Reader -> BOOLEAN]
      /\ read_flag \in [Chunk -> [Reader -> BOOLEAN]]
      /\ reader[r].current_idx = Slot(Consumed(r))
  BY DEF RingInv, RingTyped, Positions
<1>2. flag \in BOOLEAN
  BY <1>1 DEF ReaderState
<1>3. /\ reader' = [reader EXCEPT ![r] = new] /\ reader[r].pc = "check"
      /\ UNCHANGED <<written_flag, read_flag, data, local_socket, notified, writer, sent,
                     received>>
  BY ZenonT(90) DEF load_first_flag, Unreadable
<1>4. flag = read_flag[Slot(Consumed(r))][r]
  BY <1>1
<1> HIDE DEF flag
<1>5. /\ new \in ReaderState /\ new.pc = "load" /\ new.unreadable = flag
      /\ new.current_idx = reader[r].current_idx
  BY ZenonT(90), <1>1, <1>2 DEF ReaderState
<1> HIDE DEF new
<1>6. ~ flag => Consumed(r) < sent \/ ~ written_flag[Slot(sent)]
  <2> SUFFICES ASSUME ~ read_flag[Slot(sent)][r], Consumed(r) = sent, ~ Filling
               PROVE  ~ written_flag[Slot(sent)]
    BY <1>4, Counts DEF RingInv, Positions, Unwritten
  <2>1. sent \in Nat /\ max_chunks \in Nat
    BY Counts, RingAssumption DEF RingInv
  <2>2. CASE sent < max_chunks
    BY <2>1, <2>2, SlotTyped DEF RingInv, Unwritten
  <2>3. CASE max_chunks <= sent
    <3> DEFINE k == sent - max_chunks
    <3>1. k \in Live /\ Slot(k) = Slot(sent) /\ k < Consumed(r)
      <4>1. k \in Nat /\ k + max_chunks = sent
        BY <2>1, <2>3
      <4>2. Slot(k + max_chunks) = Slot(k)
        BY <4>1, SlotLap
      <4> QED
        BY <2>1, <4>1, <4>2, RingAssumption DEF Live
    <3> QED
      BY <3>1 DEF RingInv, Chunks
  <2> QED
    BY <2>1, <2>2, <2>3
<1> QED
  BY ZenonT(90), <1>1, <1>3, <1>5, <1>6, ReaderMoves

\* A reader that then finds the chunk written has an object to read.
LEMMA SecondFlagStep ==
  ASSUME RingInv, NEW r \in Reader, load_second_flag(r)
  PROVE  RingInv'
<1>1. /\ reader[r] \in ReaderState /\ notified \in [Reader -> BOOLEAN]
      /\ reader[r].pc = "load" /\ reader[r].current_idx = Slot(Consumed(r))
      /\ Consumed(r) <= sent
      /\ UNCHANGED <<written_flag, read_flag, data, local_socket, notified, writer, sent,
                     received>>
  BY DEF load_second_flag, RingInv, RingTyped, Positions
<1>2. CASE ~ reader[r].unreadable /\ ~ Unreadable(r, 2)
  <2> DEFINE new == [reader[r] EXCEPT !.pc = "read"]
  <2>1. reader' = [reader EXCEPT ![r] = new]
    BY <1>2 DEF load_second_flag
  <2>2. new \in ReaderState /\ new.pc = "read" /\ new.current_idx = reader[r].current_idx
    BY <1>1 DEF ReaderState
  <2> HIDE DEF new
  <2>3. Consumed(r) < sent
    BY <1>1, <1>2, Counts DEF RingInv, Readers, Unreadable
  <2> QED
    BY ZenonT(90), <1>1, <2>1, <2>2, <2>3, ReaderMoves
<1>3. CASE ~ (~ reader[r].unreadable /\ ~ Unreadable(r, 2))
  <2>1. PICK pc \in {"check", "poll"} :
          reader' = [reader EXCEPT ![r].pc = pc, ![r].unreadable = FALSE]
    BY <1>3 DEF load_second_flag
  <2> DEFINE new == [reader[r] EXCEPT !.pc = pc, !.unreadable = FALSE]
  <2>2. reader' = [reader EXCEPT ![r] = new]
    BY ZenonT(90), <2>1 DEF RingInv, RingTyped
  <2>3. new \in ReaderState /\ new.pc = pc /\ new.current_idx = reader[r].current_idx
    BY ZenonT(90), <1>1 DEF ReaderState
  <2> HIDE DEF new
  <2> QED
    BY ZenonT(90), <1>1, <2>2, <2>3, ReaderMoves
<1> QED
  BY <1>2, <1>3

\* The object that a reader takes is the one in its chunk.
LEMMA ReadChunkStep ==
  ASSUME RingInv, NEW r \in Reader, read_chunk(r)
  PROVE  RingInv'
<1> DEFINE got == data[reader[r].current_idx]
           new == [reader[r] EXCEPT !.pc = "mark", !.obj = got]
<1>1. /\ reader[r] \in ReaderState /\ notified \in [Reader -> BOOLEAN]
      /\ data \in [Chunk -> Int] /\ reader[r].pc = "read" /\ Consumed(r) < sent
      /\ UNCHANGED <<written_flag, read_flag, data, local_socket, notified, writer, sent,
                     received>>
  BY DEF read_chunk, RingInv, RingTyped, Readers
<1>2. got \in Int
  BY <1>1 DEF ReaderState
<1>3. reader' = [reader EXCEPT ![r] = new]
  BY ZenonT(90) DEF read_chunk, RingInv, RingTyped
<1>4. /\ new \in ReaderState /\ new.pc = "mark" /\ new.obj = got
      /\ new.current_idx = reader[r].current_idx
  BY ZenonT(90), <1>1, <1>2 DEF ReaderState
<1> HIDE DEF new
<1> QED
  BY ZenonT(90), <1>1, <1>3, <1>4, ReaderMoves

-----------------------------------------------------------------------------
(* The steps of the writer. *)

\* enqueue and notify leave the ring alone.
LEMMA OutsideStep ==
  ASSUME RingInv, (\E overflow \in BOOLEAN : enqueue(overflow))
                  \/ (\E rs \in SUBSET Reader : notify(rs))
  PROVE  RingInv'
<1>1. writer \in WriterState /\ notified \in [Reader -> BOOLEAN]
  BY DEF RingInv, RingTyped
<1>2. CASE \E overflow \in BOOLEAN : enqueue(overflow)
  <2>1. PICK overflow \in BOOLEAN : enqueue(overflow)
    BY <1>2
  <2>2. /\ writer' \in WriterState /\ writer'.current_idx = writer.current_idx
        /\ writer.pc = "idle" /\ writer'.pc = "acquire"
    BY ZenonT(90), <1>1, <2>1 DEF enqueue, WriterState
  <2>3. UNCHANGED <<written_flag, read_flag, data, local_socket, notified, reader, sent,
                    received>>
    BY ZenonT(90), <2>1 DEF enqueue
  <2>4. RingTyped'
    BY <2>2, <2>3 DEF RingInv, RingTyped
  <2> QED
    BY <2>2, <2>3, <2>4, WriterFrame
<1>3. CASE \E rs \in SUBSET Reader : notify(rs)
  <2>1. PICK rs \in SUBSET Reader : notify(rs)
    BY <1>3
  <2>2. /\ writer' \in WriterState /\ writer'.current_idx = writer.current_idx
        /\ writer.pc = "notify" /\ writer'.pc = "idle"
    BY <1>1, <2>1 DEF notify, WriterState
  <2>3. /\ UNCHANGED <<written_flag, read_flag, data, local_socket, reader, sent, received>>
        /\ notified' \in [Reader -> BOOLEAN]
    BY <1>1, <2>1 DEF notify
  <2>4. RingTyped'
    BY <2>2, <2>3 DEF RingInv, RingTyped
  <2> QED
    BY <2>2, <2>3, <2>4, WriterFrame
<1> QED
  BY <1>2, <1>3

\* A step of the writer that fills the chunk of the next object.  No reader has
\* an object there, and every other chunk is left alone.
LEMMA FillFrame ==
  ASSUME RingInv, RingTyped', writer.pc # "send", writer'.pc \in {"write", "reset"},
         writer'.current_idx = writer.current_idx,
         UNCHANGED <<local_socket, reader, sent, received>>,
         \A r \in Reader : sent # Consumed(r) + max_chunks,
         \A i \in Chunk \ {Slot(sent)} : /\ written_flag'[i] = written_flag[i]
                                         /\ data'[i] = data[i]
                                         /\ read_flag'[i] = read_flag[i],
         \A r \in Reader : read_flag'[Slot(sent)][r] => read_flag[Slot(sent)][r],
         ~ written_flag'[Slot(sent)],
         writer'.pc = "reset" =>
           /\ data'[Slot(sent)] = IF writer'.overflow THEN OverflowMark ELSE sent + 1
           /\ \A r \in Reader : r < writer'.next => ~ read_flag'[Slot(sent)][r]
  PROVE  RingInv'
<1>1. /\ \A r \in Reader : Consumed(r)' = Consumed(r)
      /\ Filling' /\ \A k : Slot(k)' = Slot(k)
  BY DEF Consumed, Filling, Slot
<1>2. sent \in Nat /\ max_chunks \in Nat \ {0} /\ \A r \in Reader : Consumed(r) \in Nat
  BY Counts, RingAssumption DEF RingInv
<1>3. Positions'
  BY <1>1 DEF RingInv, Positions
<1>4. \A k \in 0 .. sent - 1 : sent < k + max_chunks =>
        Slot(k) \in Chunk /\ Slot(k) # Slot(sent)
  BY <1>2, SlotTyped, SlotApart
<1>5. \A k \in Live' : k \in Live /\ k \in 0 .. sent - 1 /\ sent < k + max_chunks
  BY <1>1, <1>2 DEF Live
<1>6. Chunks'
  BY <1>1, <1>4, <1>5 DEF RingInv, Chunks
<1>7. Unwritten'
  <2>1. ASSUME NEW k \in sent .. max_chunks - 1
        PROVE  ~ written_flag'[k] /\ \A r \in Reader : ~ read_flag'[k][r]
    <3>1. k \in Chunk /\ ~ written_flag[k] /\ \A r \in Reader : ~ read_flag[k][r]
      BY <1>2 DEF Chunk, RingInv, Unwritten
    <3> QED
      BY <3>1
  <2> QED
    BY <1>1, <2>1 DEF Unwritten
<1>8. \A r \in Reader : \A k \in 0 .. sent - 1 : Consumed(r) <= k =>
        data'[Slot(k)] = data[Slot(k)]
  BY <1>2, <1>4 DEF RingInv, Positions
<1>9. Readers'
  <2>1. \A r \in Reader : reader[r].pc \in {"read", "mark"} =>
          data'[Slot(Consumed(r))] = data[Slot(Consumed(r))]
    <3>1. ASSUME NEW r \in Reader, reader[r].pc \in {"read", "mark"}
          PROVE  Consumed(r) \in 0 .. sent - 1 /\ Consumed(r) <= Consumed(r)
      <4>1. Consumed(r) < sent /\ Consumed(r) \in Nat /\ sent \in Nat
        BY <1>2, <3>1 DEF RingInv, Readers
      <4> QED
        BY <4>1
    <3> QED
      BY <1>8, <3>1
  <2> QED
    BY <1>1, <2>1 DEF RingInv, Readers, Positions
<1>10. \A r \in Reader : \A k : Due(r, k)' <=> Due(r, k)
  BY <1>1, <1>2, <1>8 DEF Due
<1>11. Sockets'
  BY <1>10 DEF RingInv, Sockets
<1> QED
  BY <1>3, <1>6, <1>7, <1>9, <1>11 DEF RingInv

\* The writer takes a chunk back only from readers that have all read it.
LEMMA AcquireStep ==
  ASSUME RingInv, acquire_write
  PROVE  RingInv'
<1>1. /\ writer \in WriterState /\ writer.current_idx = Slot(sent) /\ writer.pc = "acquire"
      /\ sent \in Nat /\ max_chunks \in Nat \ {0} /\ \A r \in Reader : Consumed(r) \in Nat
      /\ Slot(sent) \in Chunk
  BY Counts, RingAssumption, SlotTyped DEF acquire_write, RingInv, RingTyped, Positions
<1>2. /\ writer' \in WriterState /\ writer'.pc = "write"
      /\ writer'.current_idx = writer.current_idx
  BY <1>1 DEF acquire_write, WriterState
<1>3. /\ written_flag' = [written_flag EXCEPT ![Slot(sent)] = FALSE]
      /\ data' = [data EXCEPT ![Slot(sent)] = Torn]
      /\ UNCHANGED <<read_flag, local_socket, notified, reader, sent, received>>
  BY <1>1 DEF acquire_write
<1>4. RingTyped'
  BY <1>1, <1>2, <1>3 DEF RingInv, RingTyped, Torn
<1>5. ASSUME NEW r \in Reader, sent = Consumed(r) + max_chunks
      PROVE  FALSE
  <2>1. Slot(Consumed(r)) = Slot(sent)
    BY <1>1, <1>5, SlotLap
  <2>2. Consumed(r) \in Live
    BY <1>1, <1>5 DEF Live, Filling
  <2> QED
    BY <1>1, <2>1, <2>2 DEF acquire_write, can_write, RingInv, Chunks
<1>6. /\ \A i \in Chunk \ {Slot(sent)} : /\ written_flag'[i] = written_flag[i]
                                         /\ data'[i] = data[i]
      /\ ~ written_flag'[Slot(sent)]
  BY <1>1, <1>3 DEF RingInv, RingTyped
<1> QED
  BY <1>1, <1>2, <1>3, <1>4, <1>5, <1>6, FillFrame

\* The object, or the mark of a large one, goes into the chunk that was taken.
LEMMA WriteStep ==
  ASSUME RingInv, write_chunk
  PROVE  RingInv'
<1>1. /\ writer \in WriterState /\ writer.current_idx = Slot(sent) /\ writer.pc = "write"
      /\ sent \in Nat /\ Slot(sent) \in Chunk
      /\ ~ written_flag[Slot(sent)] /\ \A r \in Reader : sent # Consumed(r) + max_chunks
  BY Counts, SlotTyped DEF write_chunk, RingInv, RingTyped, Positions, Unwritten, Filling
<1>2. /\ writer' \in WriterState /\ writer'.pc = "reset" /\ writer'.next = 0
      /\ writer'.current_idx = writer.current_idx /\ writer'.overflow = writer.overflow
  <2>1. 0 \in 0 .. n_reader
    BY RingAssumption
  <2> QED
    BY ZenonT(90), <1>1, <2>1 DEF write_chunk, WriterState
<1>3. /\ data' = [data EXCEPT ![Slot(sent)] =
                    IF writer.overflow THEN OverflowMark ELSE sent + 1]
      /\ UNCHANGED <<written_flag, read_flag, local_socket, notified, reader, sent, received>>
  BY <1>1 DEF write_chunk
<1>4. RingTyped'
  BY <1>1, <1>2, <1>3 DEF RingInv, RingTyped, OverflowMark
<1>5. /\ \A i \in Chunk \ {Slot(sent)} : data'[i] = data[i]
      /\ data'[Slot(sent)] = IF writer'.overflow THEN OverflowMark ELSE sent + 1
      /\ \A r \in Reader : ~ (r < writer'.next)
  BY <1>1, <1>2, <1>3 DEF RingInv, RingTyped, Reader
<1> QED
  BY <1>1, <1>2, <1>3, <1>4, <1>5, FillFrame

\* The read flags of the chunk are reset one by one.
LEMMA ResetStep ==
  ASSUME RingInv, reset_read_flag
  PROVE  RingInv'
<1>1. /\ writer \in WriterState /\ writer.current_idx = Slot(sent) /\ writer.pc = "reset"
      /\ sent \in Nat /\ Slot(sent) \in Chunk
      /\ ~ written_flag[Slot(sent)] /\ \A r \in Reader : sent # Consumed(r) + max_chunks
      /\ data[Slot(sent)] = IF writer.overflow THEN OverflowMark ELSE sent + 1
      /\ \A r \in Reader : r < writer.next => ~ read_flag[Slot(sent)][r]
  BY Counts, SlotTyped DEF reset_read_flag, RingInv, RingTyped, Positions, Unwritten, Filling
<1>2. /\ writer' \in WriterState /\ writer'.pc = "reset" /\ writer'.next = writer.next + 1
      /\ writer'.current_idx = writer.current_idx /\ writer'.overflow = writer.overflow
      /\ writer.next \in Reader
  BY <1>1, RingAssumption DEF reset_read_flag, WriterState, Reader
<1>3. /\ read_flag' = [read_flag EXCEPT ![Slot(sent)][writer.next] = FALSE]
      /\ UNCHANGED <<written_flag, data, local_socket, notified, reader, sent, received>>
  BY <1>1 DEF reset_read_flag
<1>4. RingTyped'
  BY <1>1, <1>2, <1>3 DEF RingInv, RingTyped
<1>5. /\ \A i \in Chunk \ {Slot(sent)} : read_flag'[i] = read_flag[i]
      /\ ~ read_flag'[Slot(sent)][writer.next]
      /\ \A r \in Reader \ {writer.next} : read_flag'[Slot(sent)][r] = read_flag[Slot(sent)][r]
  BY ZenonT(90), <1>1, <1>2, <1>3 DEF RingInv, RingTyped
<1>6. \A r \in Reader : r < writer'.next => ~ read_flag'[Slot(sent)][r]
  BY <1>1, <1>2, <1>5 DEF Reader
<1> QED
  BY <1>1, <1>2, <1>3, <1>4, <1>5, <1>6, FillFrame

\* The chunk that is marked written holds the next object, which no reader has
\* read.
LEMMA MarkWrittenStep ==
  ASSUME RingInv, mark_written
  PROVE  RingInv'
<1>0. /\ writer \in WriterState /\ writer.current_idx = Slot(sent) /\ writer.pc = "reset"
      /\ sent \in Nat /\ max_chunks \in Nat \ {0}
      /\ \A r \in Reader : Len(received[r]) \in Nat /\ Consumed(r) \in Nat
  BY Counts, RingAssumption DEF mark_written, RingInv, RingTyped, Positions
<1>1. /\ writer \in WriterState /\ writer.current_idx = Slot(sent) /\ writer.pc = "reset"
      /\ sent \in Nat /\ max_chunks \in Nat \ {0}
      /\ \A r \in Reader : Len(received[r]) \in Nat /\ Consumed(r) \in Nat
      /\ Slot(sent + 1) = Advance(Slot(sent)) /\ Slot(sent + 1) \in Chunk
      /\ Slot(sent) \in Chunk
  <2>1. sent \in Nat /\ sent + 1 \in Nat
    BY <1>0
  <2> QED
    BY <1>0, <2>1, SlotTyped, SlotNext
<1>2. /\ data[Slot(sent)] = IF writer.overflow THEN OverflowMark ELSE sent + 1
      /\ \A r \in Reader : ~ read_flag[Slot(sent)][r]
  <2>1. \A r \in Reader : r < writer.next
    BY RingAssumption DEF mark_written, Reader
  <2> QED
    BY <1>1, <2>1 DEF RingInv, Unwritten
<1>3. /\ writer' \in WriterState /\ writer'.current_idx = Slot(sent + 1)
      /\ writer'.pc = IF writer.overflow THEN "send" ELSE "notify"
  BY ZenonT(90), <1>1 DEF mark_written, WriterState
<1>4. /\ written_flag' = [written_flag EXCEPT ![Slot(sent)] = TRUE] /\ sent' = sent + 1
      /\ UNCHANGED <<read_flag, data, local_socket, notified, reader, received>>
  BY <1>1 DEF mark_written
<1>5. RingTyped'
  BY <1>1, <1>3, <1>4 DEF RingInv, RingTyped
<1>6. written_flag'[Slot(sent)] /\
      \A i \in Chunk \ {Slot(sent)} : written_flag'[i] = written_flag[i]
  BY <1>1, <1>4 DEF RingInv, RingTyped
<1>7. /\ \A r \in Reader : Consumed(r)' = Consumed(r)
      /\ Filling /\ ~ Filling' /\ \A k : Slot(k)' = Slot(k)
  BY <1>1, <1>3, <1>4 DEF Consumed, Filling, Slot
<1>8. \A r \in Reader : Consumed(r) <= sent /\ sent < Consumed(r) + max_chunks
  BY <1>1, <1>7 DEF RingInv, Positions
<1>9. Positions'
  BY <1>1, <1>3, <1>4, <1>7, <1>8 DEF RingInv, Positions
<1>10. Chunks'
  <2> SUFFICES ASSUME NEW k \in Live'
               PROVE  /\ written_flag'[Slot(k)] /\ data[Slot(k)] \in {OverflowMark, k + 1}
                      /\ \A r \in Reader : read_flag[Slot(k)][r] <=> k < Consumed(r)
    BY <1>4, <1>7 DEF Chunks
  <2>1. k \in Nat /\ k <= sent /\ sent < k + max_chunks
    BY <1>1, <1>4, <1>7 DEF Live
  <2>2. CASE k = sent
    BY <1>1, <1>2, <1>6, <1>8, <2>2
  <2>3. CASE k < sent
    <3>1. k \in Live /\ Slot(k) \in Chunk /\ Slot(k) # Slot(sent)
      BY <1>1, <2>1, <2>3, SlotTyped, SlotApart DEF Live
    <3> QED
      BY <1>6, <3>1 DEF RingInv, Chunks
  <2> QED
    BY <1>1, <2>1, <2>2, <2>3
<1>11. Unwritten'
  <2>1. ASSUME NEW k \in sent + 1 .. max_chunks - 1
        PROVE  ~ written_flag'[k] /\ \A r \in Reader : ~ read_flag[k][r]
    <3>1. k \in sent .. max_chunks - 1 /\ k \in Chunk /\ k # Slot(sent)
      BY <1>1, SlotTyped DEF Chunk
    <3> QED
      BY <1>6, <3>1 DEF RingInv, Unwritten
  <2>2. writer'.pc # "reset"
    BY <1>3
  <2> QED
    BY <1>4, <1>7, <2>1, <2>2 DEF Unwritten
<1>12. Readers'
  BY <1>1, <1>4, <1>7, <1>8 DEF RingInv, Readers
<1>13. Sockets'
  <2>0. PICK last \in Nat : last = sent
    BY <1>1
  <2> SUFFICES ASSUME NEW r \in Reader
               PROVE  /\ \A n \in Elements(local_socket[r]) :
                           Due(r, n - 1)' /\ (writer'.pc = "send" => n # last + 1)
                      /\ \A k \in 0 .. last : Due(r, k)' =>
                           \/ k + 1 \in Elements(local_socket[r])
                           \/ writer'.pc = "send" /\ k = last
                      /\ writer'.pc = "send" => Due(r, last)'
    <3>1. sent' = last + 1 /\ sent' - 1 = last /\ local_socket' = local_socket
      BY <1>4, <2>0
    <3>2. \A k \in 0 .. last : k = last => k + 1 = sent'
      BY <3>1
    <3> QED
      BY <3>1, <3>2 DEF RingInv, Sockets
  <2>1. \A k \in 0 .. last - 1 : Due(r, k)' <=> Due(r, k)
    BY <1>1, <1>4, <1>7, <2>0 DEF Due
  <2>2. Due(r, last)' <=> writer.overflow
    <3>1. Len(received[r]) <= last
      BY <1>1, <1>8, <2>0, Counts DEF RingInv
    <3>2. Due(r, last)' <=> data[Slot(last)] = OverflowMark
      BY <1>1, <1>4, <1>7, <1>8, <2>0, <3>1 DEF Due
    <3> QED
      BY <1>1, <1>2, <2>0, <3>2 DEF OverflowMark, WriterState
  <2>3. \A n \in Elements(local_socket[r]) : n - 1 \in 0 .. last - 1 /\ Due(r, n - 1)
    BY <2>0 DEF RingInv, Sockets, Due
  <2>4. \A k \in 0 .. last - 1 : Due(r, k) => k + 1 \in Elements(local_socket[r])
    BY <1>1, <2>0 DEF RingInv, Sockets
  <2>5. \A k \in 0 .. last : k \in 0 .. last - 1 \/ k = last
    OBVIOUS
  <2>6. \A n \in Elements(local_socket[r]) : n # last + 1
    BY <2>3
  <2> QED
    BY <1>3, <2>1, <2>2, <2>3, <2>4, <2>5, <2>6
<1> QED
  BY <1>5, <1>9, <1>10, <1>11, <1>12, <1>13 DEF RingInv

\* Append adds one member to a socket, and keeps its order for a larger one.
LEMMA SocketAppend ==
  ASSUME NEW q \in Seq(Nat), NEW x \in Nat
  PROVE  /\ Append(q, x) \in Seq(Nat)
         /\ \A n : n \in Elements(Append(q, x)) <=> n \in Elements(q) \/ n = x
         /\ (\A i, j \in 1 .. Len(q) : i < j => q[i] < q[j]) /\ (\A n \in Elements(q) : n < x) =>
              \A i, j \in 1 .. Len(Append(q, x)) : i < j => Append(q, x)[i] < Append(q, x)[j]
BY DEF Elements

\* Taking the head of a socket in order leaves the larger members, in order.
LEMMA SocketTail ==
  ASSUME NEW q \in Seq(Nat), q # <<>>, \A i, j \in 1 .. Len(q) : i < j => q[i] < q[j]
  PROVE  /\ Tail(q) \in Seq(Nat) /\ Head(q) \in Nat /\ Head(q) \in Elements(q)
         /\ \A n \in Elements(q) : Head(q) <= n
         /\ \A n : n \in Elements(Tail(q)) <=> n \in Elements(q) /\ n # Head(q)
         /\ \A i, j \in 1 .. Len(Tail(q)) : i < j => Tail(q)[i] < Tail(q)[j]
<1>1. /\ Len(q) \in Nat \ {0} /\ Tail(q) \in Seq(Nat) /\ Head(q) = q[1]
      /\ Len(Tail(q)) = Len(q) - 1 /\ \A i \in 1 .. Len(q) : q[i] \in Nat
      /\ \A i \in 1 .. Len(q) - 1 : Tail(q)[i] = q[i + 1]
  OBVIOUS
<1> DEFINE t == Tail(q)
<1> HIDE DEF t
<1>2. Len(t) = Len(q) - 1 /\ \A i \in 1 .. Len(q) - 1 : t[i] = q[i + 1]
  BY <1>1 DEF t
<1>3. Head(q) \in Nat /\ Head(q) \in Elements(q) /\ \A n \in Elements(q) : Head(q) <= n
  BY <1>1 DEF Elements
<1>4. \A i, j \in 1 .. Len(t) : i < j => t[i] < t[j]
  BY <1>1, <1>2
<1>5. \A n \in Elements(t) : n \in Elements(q) /\ n # Head(q)
  BY <1>1, <1>2 DEF Elements
<1>6. ASSUME NEW n \in Elements(q), n # Head(q)
      PROVE  n \in Elements(t)
  <2>1. PICK i \in 1 .. Len(q) : n = q[i]
    BY DEF Elements
  <2>2. i # 1 /\ i - 1 \in 1 .. Len(t) /\ t[i - 1] = n
    BY <1>1, <1>2, <1>6, <2>1
  <2> QED
    BY <2>2 DEF Elements
<1> QED
  BY <1>1, <1>3, <1>4, <1>5, <1>6 DEF t

\* A large object follows its mark over the socket of every reader.
LEMMA SendStep ==
  ASSUME RingInv, send_multipart
  PROVE  RingInv'
<1>1. /\ writer \in WriterState /\ writer.pc = "send" /\ sent \in Nat
      /\ local_socket \in [Reader -> Seq(Nat)]
  BY DEF send_multipart, RingInv, RingTyped
<1>2. /\ writer' \in WriterState /\ writer'.pc = "notify"
      /\ writer'.current_idx = writer.current_idx
  BY <1>1 DEF send_multipart, WriterState
<1>3. /\ local_socket' = [r \in Reader |-> Append(local_socket[r], sent)]
      /\ UNCHANGED <<written_flag, read_flag, data, notified, reader, sent, received>>
  BY DEF send_multipart
<1>4. RingTyped'
  <2>1. local_socket' \in [Reader -> Seq(Nat)]
    BY <1>1, <1>3, SocketAppend
  <2> QED
    BY <1>2, <1>3, <2>1 DEF RingInv, RingTyped
<1>5. \A r \in Reader : Consumed(r)' = Consumed(r)
  BY <1>3 DEF Consumed
<1>6. (Live' = Live) /\ ~ Filling /\ ~ Filling' /\ \A k : Slot(k)' = Slot(k)
  BY <1>1, <1>2, <1>3 DEF Live, Filling, Slot
<1>7. Positions'
  BY <1>2, <1>3, <1>5, <1>6 DEF RingInv, Positions
<1>8. Chunks'
  BY <1>3, <1>5, <1>6 DEF RingInv, Chunks
<1>9. Unwritten'
  BY <1>2, <1>3, <1>6 DEF RingInv, Unwritten
<1>10. Readers'
  BY <1>3, <1>5, <1>6 DEF RingInv, Readers
<1>11. \A r \in Reader : \A k : Due(r, k)' <=> Due(r, k)
  BY <1>3, <1>5, <1>6 DEF Due
<1>12. Sockets'
  <2> SUFFICES ASSUME NEW r \in Reader
               PROVE  LET q == Append(local_socket[r], sent)
                      IN  /\ \A i, j \in 1 .. Len(q) : i < j => q[i] < q[j]
                          /\ \A n \in Elements(q) : Due(r, n - 1)
                          /\ \A k \in 0 .. sent - 1 : Due(r, k) => k + 1 \in Elements(q)
    BY <1>2, <1>3, <1>11 DEF Sockets
  <2>1. /\ local_socket[r] \in Seq(Nat)
        /\ \A n \in Elements(local_socket[r]) : n \in Nat /\ n < sent /\ Due(r, n - 1)
    <3>1. local_socket[r] \in Seq(Nat) /\ \A n \in Elements(local_socket[r]) : n \in Nat
      BY <1>1 DEF Elements
    <3>2. \A n \in Elements(local_socket[r]) : n # sent /\ n - 1 \in 0 .. sent - 1 /\ Due(r, n - 1)
      BY <1>1 DEF RingInv, Sockets, Due
    <3> QED
      BY <1>1, <3>1, <3>2
  <2>2. /\ \A i, j \in 1 .. Len(local_socket[r]) :
             i < j => local_socket[r][i] < local_socket[r][j]
        /\ \A k \in 0 .. sent - 1 : Due(r, k) =>
             k + 1 \in Elements(local_socket[r]) \/ k + 1 = sent
        /\ Due(r, sent - 1)
    BY <1>1 DEF RingInv, Sockets
  <2> QED
    BY ZenonT(90), <1>1, <2>1, <2>2, SocketAppend
<1> QED
  BY <1>4, <1>7, <1>8, <1>9, <1>10, <1>12 DEF RingInv

-----------------------------------------------------------------------------
(* A reader leaves a chunk, and receives a large object. *)

\* A reader that marks its chunk read had the object it is due, or its mark.
LEMMA TakenObject ==
  ASSUME RingInv, NEW r \in Reader, reader[r].pc \in {"read", "mark"}
  PROVE  /\ Consumed(r) = Len(received[r]) /\ Consumed(r) \in Live
         /\ reader[r].current_idx = Slot(Consumed(r))
         /\ written_flag[Slot(Consumed(r))]
         /\ data[Slot(Consumed(r))] \in {OverflowMark, Len(received[r]) + 1}
<1>1. /\ sent \in Nat /\ max_chunks \in Nat \ {0} /\ Consumed(r) \in Nat
      /\ Consumed(r) = Len(received[r])
  <2>1. Consumed(r) = Len(received[r]) + 0
    BY ZenonT(90) DEF Consumed
  <2> QED
    BY <2>1, Counts, RingAssumption DEF RingInv
<1>2. Consumed(r) \in Live
  BY <1>1 DEF RingInv, Positions, Readers, Live
<1> QED
  BY <1>1, <1>2 DEF RingInv, Positions, Chunks

\* A reader that marks its chunk read goes on to the next one, and all that
\* changes for the others is that flag.
LEMMA MarkReadStep ==
  ASSUME RingInv, NEW r \in Reader, mark_read(r)
  PROVE  /\ RingInv'
         /\ received' # received =>
              received' = [received EXCEPT ![r] = Append(@, Len(@) + 1)]
<1> DEFINE large == reader[r].obj = OverflowMark
           new == [reader[r] EXCEPT !.current_idx = Advance(@), !.obj = Torn,
                                    !.pc = IF large THEN "recv" ELSE "idle"]
           C == Consumed(r)
<1>1. reader[r] \in ReaderState /\ reader[r].pc = "mark"
  BY DEF mark_read, RingInv, RingTyped
<1>2. /\ C = Len(received[r]) /\ C \in Live /\ reader[r].current_idx = Slot(C)
      /\ reader[r].obj = data[Slot(C)] /\ reader[r].obj \in {OverflowMark, C + 1}
  BY <1>1, TakenObject DEF RingInv, Readers
<1>3. /\ sent \in Nat /\ max_chunks \in Nat \ {0} /\ \A s \in Reader : Consumed(s) \in Nat
      /\ C \in Nat /\ C < sent /\ sent <= C + max_chunks
      /\ Filling => sent < C + max_chunks
  BY <1>2, Counts, RingAssumption DEF RingInv, Live
<1>4. Slot(C + 1) = Advance(Slot(C)) /\ Slot(C + 1) \in Chunk /\ Slot(C) \in Chunk
  <2>1. C \in Nat /\ C + 1 \in Nat
    BY <1>3
  <2> HIDE DEF C
  <2> QED
    BY <2>1, SlotNext, SlotTyped
<1>5. /\ reader' = [reader EXCEPT ![r] = new]
      /\ read_flag' = [read_flag EXCEPT ![Slot(C)][r] = TRUE]
      /\ received' = IF large THEN received
                     ELSE [received EXCEPT ![r] = Append(@, C + 1)]
      /\ UNCHANGED <<written_flag, data, local_socket, notified, writer, sent>>
  <2>1. ~ large => reader[r].obj = C + 1
    BY <1>2
  <2> QED
    BY ZenonT(90), <1>2, <2>1 DEF mark_read, RingInv, RingTyped
<1>6. /\ new \in ReaderState /\ new.current_idx = Slot(C + 1)
      /\ new.pc = IF large THEN "recv" ELSE "idle"
  <2> DEFINE idx == Advance(reader[r].current_idx)
             pc == IF large THEN "recv" ELSE "idle"
  <2>1. idx = Slot(C + 1) /\ idx \in Chunk /\ pc \in {"recv", "idle"}
    BY <1>2, <1>4
  <2>2. new = [reader[r] EXCEPT !.current_idx = idx, !.obj = Torn, !.pc = pc]
    OBVIOUS
  <2> HIDE DEF idx, pc, new, C
  <2>3. Torn \in Int
    BY DEF Torn
  <2>4. new = [pc |-> pc, current_idx |-> idx, unreadable |-> reader[r].unreadable,
               obj |-> Torn]
    BY ZenonT(90), <1>1, <2>2 DEF ReaderState
  <2> QED
    BY <1>1, <2>1, <2>3, <2>4 DEF pc, ReaderState
<1> HIDE DEF new, C, large
<1>7. /\ reader'[r] = new /\ \A s \in Reader \ {r} : reader'[s] = reader[s]
      /\ \A s \in Reader \ {r} : received'[s] = received[s]
      /\ Len(received'[r]) = IF large THEN C ELSE C + 1
      /\ received' \in [Reader -> Seq(Int)] /\ reader' \in [Reader -> ReaderState]
  BY <1>2, <1>3, <1>5, <1>6 DEF RingInv, RingTyped
<1>8. Consumed(r)' = C + 1 /\ \A s \in Reader \ {r} : Consumed(s)' = Consumed(s)
  <2>1. Consumed(r)' = C + 1
    BY <1>3, <1>6, <1>7 DEF Consumed
  <2> QED
    BY ZenonT(90), <1>7, <2>1 DEF Consumed
<1>9. /\ read_flag'[Slot(C)][r]
      /\ \A i \in Chunk \ {Slot(C)} : read_flag'[i] = read_flag[i]
      /\ \A i \in Chunk : \A s \in Reader \ {r} : read_flag'[i][s] = read_flag[i][s]
      /\ read_flag' \in [Chunk -> [Reader -> BOOLEAN]]
  BY <1>4, <1>5 DEF RingInv, RingTyped
<1>10. RingTyped'
  BY <1>5, <1>7, <1>9 DEF RingInv, RingTyped
<1>11. (Live' = Live) /\ (Filling' <=> Filling) /\ \A k : Slot(k)' = Slot(k)
  BY <1>5 DEF Live, Filling, Slot
<1>12. Positions'
  BY <1>3, <1>5, <1>6, <1>7, <1>8, <1>11 DEF RingInv, Positions
<1>13. Chunks'
  <2> SUFFICES ASSUME NEW k \in Live, NEW s \in Reader
               PROVE  read_flag'[Slot(k)][s] <=> k < Consumed(s)'
    BY <1>5, <1>11 DEF RingInv, Chunks
  <2>1. k \in Nat /\ k < sent /\ sent <= k + max_chunks /\ Slot(k) \in Chunk
    BY <1>3, SlotTyped DEF Live
  <2>2. read_flag[Slot(k)][s] <=> k < Consumed(s)
    BY DEF RingInv, Chunks
  <2>3. CASE s # r
    BY <1>8, <1>9, <2>1, <2>2, <2>3
  <2>4. CASE s = r /\ k = C
    BY <1>3, <1>8, <1>9, <2>4
  <2>5. CASE s = r /\ k # C
    <3>1. Slot(k) # Slot(C)
      BY <1>3, <2>1, <2>5, SlotApart
    <3>2. k < C <=> k < C + 1
      BY <1>3, <2>1, <2>5
    <3> QED
      BY <1>8, <1>9, <2>1, <2>2, <2>5, <3>1, <3>2 DEF C
  <2> QED
    BY <2>3, <2>4, <2>5
<1>14. Unwritten'
  <2>1. ASSUME NEW k \in sent .. max_chunks - 1
        PROVE  ~ written_flag[k] /\ \A s \in Reader : ~ read_flag'[k][s]
    <3>1. k \in Chunk /\ k # Slot(C)
      BY <1>3, SlotTyped DEF Chunk
    <3> QED
      BY <1>9, <3>1 DEF RingInv, Unwritten
  <2>2. Filling => Slot(sent) \in Chunk \ {Slot(C)}
    BY <1>3, SlotTyped, SlotApart
  <2>3. writer.pc = "reset" => Filling
    BY DEF Filling
  <2> QED
    BY <1>5, <1>9, <1>11, <2>1, <2>2, <2>3 DEF RingInv, Unwritten
<1>15. Readers'
  <2>1. new.pc \notin {"load", "read", "mark"}
    BY <1>6
  <2> QED
    BY <1>5, <1>7, <1>8, <1>11, <2>1 DEF RingInv, Readers
<1>16. \A s \in Reader : \A k : Due(s, k)' <=> Due(s, k)
  <2>1. ASSUME NEW s \in Reader \ {r}, NEW k
        PROVE  Due(s, k)' <=> Due(s, k)
    BY <1>5, <1>7, <1>8, <1>11 DEF Due
  <2>2. ASSUME NEW k \in 0 .. sent - 1
        PROVE  Due(r, k)' <=> Due(r, k)
    <3>1. Due(r, k) <=> C <= k /\ data[Slot(k)] = OverflowMark
      BY <1>2, <1>3 DEF Due, C
    <3>2. Due(r, k)' <=> /\ (IF large THEN C ELSE C + 1) <= k
                         /\ k < C + 1 \/ data[Slot(k)] = OverflowMark
      BY <1>5, <1>7, <1>8, <1>11 DEF Due
    <3>3. large <=> data[Slot(C)] = OverflowMark
      BY <1>2 DEF large
    <3> QED
      BY <1>3, <3>1, <3>2, <3>3
  <2>3. \A k : k \notin 0 .. sent - 1 => ~ Due(r, k) /\ ~ Due(r, k)'
    BY <1>5 DEF Due
  <2> QED
    BY <2>1, <2>2, <2>3
<1>17. Sockets'
  BY <1>5, <1>16 DEF RingInv, Sockets
<1> QED
  BY <1>2, <1>5, <1>10, <1>12, <1>13, <1>14, <1>15, <1>17 DEF RingInv

\* The large object at the head of its socket is the one a reader is due.
LEMMA RecvStep ==
  ASSUME RingInv, NEW r \in Reader, recv(r)
  PROVE  /\ RingInv'
         /\ received' = [received EXCEPT ![r] = Append(@, Len(@) + 1)]
<1> DEFINE L == Len(received[r])
           q == local_socket[r]
           new == [reader[r] EXCEPT !.pc = "idle"]
<1>1. /\ reader[r] \in ReaderState /\ reader[r].pc = "recv" /\ q # <<>> /\ q \in Seq(Nat)
      /\ sent \in Nat /\ L \in Nat /\ Consumed(r) = L + 1 /\ L < sent
  <2>1. Consumed(r) = L + 1 /\ L \in Nat /\ sent \in Nat
    BY Counts DEF Consumed, recv, RingInv
  <2> QED
    BY <2>1 DEF recv, RingInv, RingTyped, Positions
<1>2. \A i, j \in 1 .. Len(q) : i < j => q[i] < q[j]
  BY DEF RingInv, Sockets
<1>3. /\ \A n \in Elements(q) : Due(r, n - 1) /\ (writer.pc = "send" => n # sent)
      /\ \A k \in 0 .. sent - 1 : Due(r, k) =>
           k + 1 \in Elements(q) \/ (writer.pc = "send" /\ k + 1 = sent)
      /\ writer.pc = "send" => Due(r, sent - 1)
  BY DEF RingInv, Sockets
<1>4. Due(r, L)
  BY <1>1 DEF Due
<1> HIDE DEF q
<1>5. /\ Tail(q) \in Seq(Nat) /\ Head(q) \in Nat /\ Head(q) \in Elements(q)
      /\ \A n \in Elements(q) : Head(q) <= n
      /\ \A n : n \in Elements(Tail(q)) <=> n \in Elements(q) /\ n # Head(q)
      /\ \A i, j \in 1 .. Len(Tail(q)) : i < j => Tail(q)[i] < Tail(q)[j]
  BY <1>1, <1>2, SocketTail
<1>6. /\ Head(q) - 1 \in 0 .. sent - 1 /\ L <= Head(q) - 1
      /\ writer.pc = "send" => Head(q) # sent
  BY <1>3, <1>5 DEF Due
<1>7. Head(q) = L + 1 /\ (writer.pc = "send" => L + 1 # sent)
  <2>1. L + 1 \in Elements(q) \/ (writer.pc = "send" /\ L + 1 = sent)
    BY <1>1, <1>3, <1>4
  <2>2. CASE L + 1 \in Elements(q)
    BY <1>1, <1>5, <1>6, <2>2
  <2>3. CASE writer.pc = "send" /\ L + 1 = sent
    BY <1>1, <1>5, <1>6, <2>3
  <2> QED
    BY <2>1, <2>2, <2>3
<1>8. /\ reader' = [reader EXCEPT ![r] = new]
      /\ received' = [received EXCEPT ![r] = Append(@, L + 1)]
      /\ local_socket' = [local_socket EXCEPT ![r] = Tail(q)]
      /\ UNCHANGED <<written_flag, read_flag, data, notified, writer, sent>>
  BY ZenonT(90), <1>7 DEF recv, q
<1>9. new \in ReaderState /\ new.pc = "idle" /\ new.current_idx = reader[r].current_idx
  BY <1>1 DEF ReaderState
<1> HIDE DEF new, L
<1>10. /\ reader'[r] = new /\ \A s \in Reader \ {r} : reader'[s] = reader[s]
       /\ local_socket'[r] = Tail(q)
       /\ \A s \in Reader \ {r} : /\ received'[s] = received[s]
                                  /\ local_socket'[s] = local_socket[s]
       /\ Len(received'[r]) = L + 1
       /\ received' \in [Reader -> Seq(Int)] /\ reader' \in [Reader -> ReaderState]
       /\ local_socket' \in [Reader -> Seq(Nat)]
  BY <1>1, <1>5, <1>8, <1>9 DEF RingInv, RingTyped, L
<1>11. \A s \in Reader : Consumed(s)' = Consumed(s)
  <2>1. Consumed(r)' = L + 1
    BY <1>1, <1>9, <1>10 DEF Consumed
  <2> QED
    BY ZenonT(90), <1>1, <1>10, <2>1 DEF Consumed
<1>12. RingTyped'
  BY <1>8, <1>10 DEF RingInv, RingTyped
<1>13. (Live' = Live) /\ (Filling' <=> Filling) /\ \A k : Slot(k)' = Slot(k)
  BY <1>8 DEF Live, Filling, Slot
<1>14. Positions'
  <2>1. Positions
    BY DEF RingInv
  <2>2. ASSUME NEW s \in Reader PROVE reader'[s].current_idx = reader[s].current_idx
    BY <1>9, <1>10, Zenon
  <2> QED
    BY <1>8, <1>11, <1>13, <2>1, <2>2 DEF Positions
<1>15. Chunks'
  <2>1. Chunks
    BY DEF RingInv
  <2>2. ASSUME NEW k \in Live
        PROVE  /\ written_flag[Slot(k)] /\ data[Slot(k)] \in {OverflowMark, k + 1}
               /\ \A s \in Reader : read_flag[Slot(k)][s] <=> k < Consumed(s)
    BY <2>1 DEF Chunks
  <2>3. ASSUME NEW k \in Live
        PROVE  /\ written_flag'[Slot(k)] /\ data'[Slot(k)] \in {OverflowMark, k + 1}
               /\ \A s \in Reader : read_flag'[Slot(k)][s] <=> k < Consumed(s)'
    BY <1>8, <1>11, <2>2
  <2> QED
    BY <1>13, <2>3 DEF Chunks
<1>16. Unwritten'
  BY <1>8, <1>13 DEF RingInv, Unwritten
<1>17. Readers'
  BY <1>8, <1>9, <1>10, <1>11, <1>13 DEF RingInv, Readers
<1>18. \A k : /\ \A s \in Reader \ {r} : Due(s, k)' <=> Due(s, k)
              /\ Due(r, k)' <=> Due(r, k) /\ k # L
  <2>1. ASSUME NEW k, NEW s \in Reader \ {r}
        PROVE  Due(s, k)' <=> Due(s, k)
    BY <1>8, <1>10, <1>11, <1>13 DEF Due
  <2>2. ASSUME NEW k \in 0 .. sent - 1
        PROVE  Due(r, k)' <=> Due(r, k) /\ k # L
    <3>1. Len(received[r]) = L
      BY DEF L
    <3> QED
      BY <1>1, <1>8, <1>10, <1>11, <1>13, <3>1 DEF Due
  <2>3. \A k : k \notin 0 .. sent - 1 => ~ Due(r, k) /\ ~ Due(r, k)'
    BY <1>8 DEF Due
  <2> QED
    BY <2>1, <2>2, <2>3
<1>19. Sockets'
  <2>1. ASSUME NEW s \in Reader \ {r}
        PROVE  /\ \A i, j \in 1 .. Len(local_socket'[s]) :
                    i < j => local_socket'[s][i] < local_socket'[s][j]
               /\ \A n \in Elements(local_socket'[s]) :
                    Due(s, n - 1)' /\ (writer'.pc = "send" => n # sent')
               /\ \A k \in 0 .. sent' - 1 : Due(s, k)' =>
                    k + 1 \in Elements(local_socket'[s]) \/ (writer'.pc = "send" /\ k + 1 = sent')
               /\ writer'.pc = "send" => Due(s, sent - 1)'
    BY ZenonT(90), <1>8, <1>10, <1>18 DEF RingInv, Sockets
  <2>2. /\ \A n \in Elements(Tail(q)) :
             Due(r, n - 1)' /\ (writer.pc = "send" => n # sent)
        /\ \A k \in 0 .. sent - 1 : Due(r, k)' =>
             k + 1 \in Elements(Tail(q)) \/ (writer.pc = "send" /\ k + 1 = sent)
        /\ writer.pc = "send" => Due(r, sent - 1)'
    <3>1. \A n \in Elements(Tail(q)) : n \in Elements(q) /\ n - 1 # L
      <4>1. \A n \in Elements(q) : n \in Nat
        BY <1>1 DEF Elements
      <4> QED
        BY <1>1, <1>5, <1>7, <4>1
    <3>2. \A k \in 0 .. sent - 1 : Due(r, k)' =>
             k + 1 \in Elements(Tail(q)) \/ (writer.pc = "send" /\ k + 1 = sent)
      BY <1>1, <1>3, <1>5, <1>7, <1>18
    <3>3. writer.pc = "send" => Due(r, sent - 1)'
      <4>1. writer.pc = "send" => Due(r, sent - 1) /\ sent - 1 # L /\ sent' = sent
        BY <1>1, <1>3, <1>7, <1>8
      <4> QED
        BY <1>18, <4>1
    <3> QED
      BY <1>3, <1>18, <3>1, <3>2, <3>3
  <2> QED
    BY <1>5, <1>8, <1>10, <2>1, <2>2 DEF Sockets
<1> QED
  BY <1>8, <1>12, <1>14, <1>15, <1>16, <1>17, <1>19 DEF RingInv, L

-----------------------------------------------------------------------------
(* The theorems. *)

\* A step of RingNext that publishes an object is an Enqueue of the channel, one
\* that a reader dequeues an object with is a Dequeue, and no other step shows.
LEMMA RingStep ==
  ASSUME RingInv, RingNext
  PROVE  RingInv' /\ (Channel!Next \/ UNCHANGED <<sent, received>>)
<1>1. CASE (\E overflow \in BOOLEAN : enqueue(overflow)) \/ \E rs \in SUBSET Reader : notify(rs)
  BY ZenonT(90), <1>1, OutsideStep DEF enqueue, notify
<1>2. CASE acquire_write
  BY <1>2, AcquireStep DEF acquire_write
<1>3. CASE write_chunk
  BY <1>3, WriteStep DEF write_chunk
<1>4. CASE reset_read_flag
  BY <1>4, ResetStep DEF reset_read_flag
<1>5. CASE mark_written
  <2>1. \A r \in Reader : /\ Len(received[r]) \in Nat /\ Consumed(r) \in Nat
                          /\ Consumed(r) <= Len(received[r]) + 1
                          /\ sent <= Consumed(r) + max_chunks
                          /\ sent # Consumed(r) + max_chunks
    BY <1>5, Counts DEF mark_written, RingInv, Positions, Filling
  <2>2. sent \in Nat /\ max_chunks \in Nat
    BY Counts, RingAssumption DEF RingInv
  <2>3. \A r \in Reader : sent - Len(received[r]) < max_chunks + 1
    BY <2>1, <2>2
  <2>4. Channel!Next
    BY <1>5, <2>3 DEF mark_written, Channel!Next, Channel!Enqueue
  <2> QED
    BY <1>5, <2>4, MarkWrittenStep
<1>6. CASE send_multipart
  BY <1>6, SendStep DEF send_multipart
<1>7. ASSUME NEW r \in Reader, dequeue(r) \/ wake(r) \/ recheck(r)
      PROVE  RingInv' /\ UNCHANGED <<sent, received>>
  BY <1>7, MoveStep DEF dequeue, wake, recheck
<1>8. ASSUME NEW r \in Reader, load_first_flag(r)
      PROVE  RingInv' /\ UNCHANGED <<sent, received>>
  BY ZenonT(90), <1>8, FirstFlagStep DEF load_first_flag
<1>9. ASSUME NEW r \in Reader, load_second_flag(r)
      PROVE  RingInv' /\ UNCHANGED <<sent, received>>
  BY <1>9, SecondFlagStep DEF load_second_flag
<1>10. ASSUME NEW r \in Reader, read_chunk(r)
       PROVE  RingInv' /\ UNCHANGED <<sent, received>>
  BY ZenonT(90), <1>10, ReadChunkStep DEF read_chunk
<1>11. ASSUME NEW r \in Reader, mark_read(r)
       PROVE  RingInv' /\ (Channel!Next \/ UNCHANGED <<sent, received>>)
  <2>1. Len(received[r]) < sent
    BY <1>11, TakenObject, Counts DEF mark_read, RingInv, Readers
  <2>2. RingInv' /\ UNCHANGED sent
        /\ (received' # received => received' = [received EXCEPT ![r] = Append(@, Len(@) + 1)])
    BY ZenonT(90), <1>11, MarkReadStep DEF mark_read
  <2> QED
    BY <2>1, <2>2 DEF Channel!Next, Channel!Dequeue
<1>12. ASSUME NEW r \in Reader, recv(r)
       PROVE  RingInv' /\ Channel!Next
  <2>1. Len(received[r]) < sent
    <3>1. Consumed(r) = Len(received[r]) + 1 /\ Consumed(r) <= sent
      BY ZenonT(90), <1>12 DEF recv, Consumed, RingInv, Positions
    <3> QED
      BY <3>1, Counts DEF RingInv
  <2>2. RingInv' /\ UNCHANGED sent
        /\ received' = [received EXCEPT ![r] = Append(@, Len(@) + 1)]
    BY ZenonT(90), <1>12, RecvStep DEF recv
  <2> QED
    BY ZenonT(90), <2>1, <2>2 DEF Channel!Next, Channel!Dequeue
<1> QED
  BY <1>1, <1>2, <1>3, <1>4, <1>5, <1>6, <1>7, <1>8, <1>9, <1>10, <1>11, <1>12
     DEF RingNext, WriterStep, ReaderStep

\* A step that changes nothing keeps the invariant.
LEMMA RingStutter ==
  ASSUME RingInv, UNCHANGED ringVars
  PROVE  RingInv'
<1>1. UNCHANGED <<written_flag, read_flag, data, local_socket, notified, writer, reader, sent,
                  received>>
  BY DEF ringVars
<1>2. RingTyped' /\ Readers'
  BY <1>1 DEF RingInv, RingTyped, Readers, Consumed, Slot
<1> QED
  BY <1>1, <1>2, ReaderFrame

\* The ring's invariant holds always.
LEMMA RingInvariant == RingSpec => []RingInv
<1>1. RingInv /\ [RingNext]_ringVars => RingInv'
  BY RingStep, RingStutter
<1> QED
  BY <1>1, RingInitInv, PTL DEF RingSpec

\* Between a successful check() and the read flag it sets, a reader's chunk holds
\* the object it is due: acquire_write never takes a chunk under a reader.
THEOREM ChunksOwned == RingSpec => []ReaderOwnsChunk
<1>1. RingInv => ReaderOwnsChunk
  BY TakenObject DEF ReaderOwnsChunk
<1> QED
  BY <1>1, RingInvariant, PTL

\* MessageQueue is a broadcast channel: every reader dequeues every object once
\* and in order, and the writer is never more than max_chunks + 1 objects ahead.
THEOREM RingRefines == RingSpec => ImplementsBroadcast
<1>1. RingInit => Channel!Init
  BY DEF RingInit, Channel!Init
<1>2. RingInv /\ [RingNext]_ringVars => [Channel!Next]_<<sent, received>>
  BY RingStep DEF ringVars
<1> QED
  BY <1>1, <1>2, RingInvariant, PTL DEF RingSpec, ImplementsBroadcast, Channel!Spec
=============================================================================
