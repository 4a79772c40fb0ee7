--------------------------- MODULE FreeBlockQueue ---------------------------
(***************************************************************************)
(* FreeKVCacheBlockQueue of vllm/v1/core/kv_cache_utils.py: the free KV    *)
(* cache blocks as a doubly linked list threaded through the prev and next *)
(* attributes of the blocks, between two fake blocks head and tail.        *)
(*                                                                         *)
(* One action per method.  The callers' obligations are guards: a block is *)
(* returned only when it is not in the list, and a list of returned blocks *)
(* has no repetitions.  BlockPool meets them (FreeIffUnreferenced there).  *)
(*                                                                         *)
(* The history variable order holds the sequence of free blocks that the   *)
(* methods are meant to maintain; BlockPool works on that sequence.  That  *)
(* the links always represent it (ListRepresentsOrder) is what makes the   *)
(* list an implementation of the sequence.                                 *)
(***************************************************************************)
EXTENDS Lists

CONSTANT num_gpu_blocks

ASSUME NumGpuBlocksAssumption == num_gpu_blocks \in Nat

VARIABLES prev_free_block,   \* block -> previous block in the list, or None
          next_free_block,   \* block -> next block in the list, or None
          num_free_blocks,   \* the length the queue believes it has
          order              \* history: the free blocks in eviction order

vars == <<prev_free_block, next_free_block, num_free_blocks, order>>

Block == 0 .. num_gpu_blocks - 1
fake_free_list_head == -1
fake_free_list_tail == -2
None == -3
Node == Block \cup {fake_free_list_head, fake_free_list_tail}

\* Lists of blocks; one without repetitions is never longer than this.
BlockList == UNION {[1 .. n -> Block] : n \in 0 .. num_gpu_blocks}

\* Links lead to nodes of the list, and num_free_blocks never goes below zero.
TypeOK == /\ prev_free_block \in [Node -> Node \cup {None}]
          /\ next_free_block \in [Node -> Node \cup {None}]
          /\ num_free_blocks \in Nat
          /\ order \in Seq(Block)

\* remove() tells members of the list from other blocks by their links.
Linked(b) == prev_free_block[b] # None /\ next_free_block[b] # None

\* Connect the nodes of the sequence chain, in this order, to each other.
Link(chain) ==
  LET At(x) == CHOOSE i \in 1 .. Len(chain) : chain[i] = x
      last == Len(chain)
  IN  /\ next_free_block' =
           [x \in Node |-> IF \E i \in 1 .. last - 1 : chain[i] = x
                           THEN chain[At(x) + 1] ELSE next_free_block[x]]
      /\ prev_free_block' =
           [x \in Node |-> IF \E i \in 2 .. last : chain[i] = x
                           THEN chain[At(x) - 1] ELSE prev_free_block[x]]

\* Connect before to after, and clear the links of the nodes in gone.
Unlink(before, after, gone) ==
  /\ next_free_block' = [x \in Node |-> IF x \in gone THEN None
                                        ELSE IF x = before THEN after
                                        ELSE next_free_block[x]]
  /\ prev_free_block' = [x \in Node |-> IF x \in gone THEN None
                                        ELSE IF x = after THEN before
                                        ELSE prev_free_block[x]]
-----------------------------------------------------------------------------
Init ==
  LET first == IF num_gpu_blocks > 0 THEN 0 ELSE fake_free_list_tail
      last == IF num_gpu_blocks > 0 THEN num_gpu_blocks - 1
              ELSE fake_free_list_head
  IN  /\ next_free_block = [x \in Node |->
           IF x = fake_free_list_head THEN first
           ELSE IF x = fake_free_list_tail THEN None
           ELSE IF x = last THEN fake_free_list_tail ELSE x + 1]
      /\ prev_free_block = [x \in Node |->
           IF x = fake_free_list_head THEN None
           ELSE IF x = fake_free_list_tail THEN last
           ELSE IF x = 0 THEN fake_free_list_head ELSE x - 1]
      /\ num_free_blocks = num_gpu_blocks
      /\ order = [i \in 1 .. num_gpu_blocks |-> i - 1]

popleft ==
  LET first_block == next_free_block[fake_free_list_head]
  IN  /\ first_block \notin {fake_free_list_tail, None}
      /\ next_free_block[first_block] # None
      /\ Unlink(fake_free_list_head, next_free_block[first_block], {first_block})
      /\ num_free_blocks' = num_free_blocks - 1
      /\ order' = Tail(order)

\* ret lists the n blocks that the loop of popleft_n meets from the head.
Visited(ret, n) ==
  /\ ret[1] = next_free_block[fake_free_list_head]
  /\ \A i \in 1 .. n - 1 : ret[i + 1] = next_free_block[ret[i]]

popleft_n(n) ==
  /\ n > 0 /\ n <= num_free_blocks
  /\ \E ret \in [1 .. n -> Node] :
        /\ Visited(ret, n)
        /\ LET curr_block == next_free_block[ret[n]]
               popped == {ret[i] : i \in 1 .. n}
           IN  IF curr_block # None
               THEN Unlink(fake_free_list_head, curr_block, popped)
               ELSE Unlink(None, None, popped)
  /\ num_free_blocks' = num_free_blocks - n
  /\ order' = SubSeq(order, n + 1, Len(order))

\* Mutant: remove leaves the links of the removed block in place.
remove_keeping_links(block) ==
  /\ Linked(block)
  /\ Unlink(prev_free_block[block], next_free_block[block], {})
  /\ num_free_blocks' = num_free_blocks - 1
  /\ \E i \in 1 .. Len(order) :
        /\ order[i] = block
        /\ order' = SubSeq(order, 1, i - 1) \o SubSeq(order, i + 1, Len(order))

remove(block) ==
  /\ Linked(block)
  /\ Unlink(prev_free_block[block], next_free_block[block], {block})
  /\ num_free_blocks' = num_free_blocks - 1
  /\ \E i \in 1 .. Len(order) :
        /\ order[i] = block
        /\ order' = SubSeq(order, 1, i - 1) \o SubSeq(order, i + 1, Len(order))

append_n(blocks) ==
  LET last_block == prev_free_block[fake_free_list_tail]
  IN  /\ last_block # None
      /\ Link(<<last_block>> \o blocks \o <<fake_free_list_tail>>)
      /\ num_free_blocks' = num_free_blocks + Len(blocks)
      /\ order' = order \o blocks

append(block) == append_n(<<block>>)

prepend_n(blocks) ==
  LET first_block == next_free_block[fake_free_list_head]
  IN  /\ first_block # None
      /\ Link(<<fake_free_list_head>> \o blocks \o <<first_block>>)
      /\ num_free_blocks' = num_free_blocks + Len(blocks)
      /\ order' = blocks \o order

\* The lists of blocks a caller may return to the queue.
Returnable == {s \in BlockList : /\ s # <<>> /\ NoRepetition(s)
                                 /\ \A i \in 1 .. Len(s) : ~ Linked(s[i])}

Next == \/ popleft
        \/ \E n \in 1 .. num_gpu_blocks : popleft_n(n)
        \/ \E b \in Block : remove(b)
        \/ \E b \in Block : ~ Linked(b) /\ append(b)
        \/ \E s \in Returnable : append_n(s)
        \/ \E s \in Returnable : prepend_n(s)

Spec == Init /\ [][Next]_vars
-----------------------------------------------------------------------------
\* The i-th node of the list whose blocks are s, the fake ones included.
NodeAt(s, i) == IF i = 0 THEN fake_free_list_head
                ELSE IF i = Len(s) + 1 THEN fake_free_list_tail ELSE s[i]

\* Each link of the list whose blocks are s is there in both directions.
LinksFollow(s) ==
  /\ \A i \in 0 .. Len(s) :
        /\ next_free_block[NodeAt(s, i)] = NodeAt(s, i + 1)
        /\ prev_free_block[NodeAt(s, i + 1)] = NodeAt(s, i)
  /\ next_free_block[fake_free_list_tail] = None
  /\ prev_free_block[fake_free_list_head] = None

\* A block outside the list has no dangling link, so that remove() rejects it.
OthersUnlinked(s) ==
  \A b \in Block : (\A i \in 1 .. Len(s) : s[i] # b) =>
     prev_free_block[b] = None /\ next_free_block[b] = None

\* Whatever methods are called, the links of FreeKVCacheBlockQueue are one
\* well-formed doubly linked list of exactly the blocks of order, in that
\* order: popleft and popleft_n took the blocks that are first to be evicted,
\* append_n put its blocks last and prepend_n first, in the order given, and
\* remove took out the given block alone.  No block is in the list twice,
\* blocks outside it have no links, and num_free_blocks, on which every
\* capacity check of the block pool rests, is its true length.
ListRepresentsOrder ==
  /\ LinksFollow(order)
  /\ OthersUnlinked(order)
  /\ NoRepetition(order)
  /\ num_free_blocks = Len(order)
=============================================================================
