----------------------------- MODULE MCScheduler -----------------------------
(***************************************************************************)
(* Two requests that do not fit into the pool together.                    *)
(***************************************************************************)
EXTENDS Scheduler

MCRequest == {"r1", "r2"}
MCPriority == [r \in MCRequest |-> IF r = "r1" THEN 1 ELSE 2]

RemoteTokens == [r \in MCRequest |-> 2]
NoRemoteTokens == [r \in MCRequest |-> 0]

FullGroups == <<[block_size |-> 1, sliding_window |-> 0]>>
HybridGroups == <<[block_size |-> 1, sliding_window |-> 0],
                  [block_size |-> 1, sliding_window |-> 2]>>

\* Shared: the requests have a common prefix, and decode for two or one tokens
\* after the one that the prefill samples.
SharedTokens == [r \in MCRequest |-> IF r = "r1" THEN <<"a", "b", "a", "a", "b">>
                                                 ELSE <<"a", "b", "b", "a">>]
SharedPrompt == [r \in MCRequest |-> IF r = "r1" THEN 2 ELSE 3]
\* Chunked: the request of lower priority has a prompt of three chunks.
ChunkedTokens == [r \in MCRequest |-> IF r = "r1" THEN <<"a", "b", "a">>
                                      ELSE <<"b", "b", "b", "b", "b", "b", "a">>]
ChunkedPrompt == [r \in MCRequest |-> IF r = "r1" THEN 1 ELSE 6]

KeysOf(groups, tokens) ==
  UNION {{<<g, SubSeq(tokens[r], 1, n)>> : g \in DOMAIN groups, n \in 1 .. Len(tokens[r])} :
           r \in MCRequest}
SharedKey == KeysOf(FullGroups, SharedTokens)
SharedNumTokens == [k \in SharedKey |-> Len(k[2])]
HybridKey == KeysOf(HybridGroups, SharedTokens)
HybridNumTokens == [k \in HybridKey |-> Len(k[2])]
ChunkedKey == KeysOf(FullGroups, ChunkedTokens)
ChunkedNumTokens == [k \in ChunkedKey |-> Len(k[2])]
=============================================================================
