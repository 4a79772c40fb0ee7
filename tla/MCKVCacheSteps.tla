-------------------------- MODULE MCKVCacheSteps ----------------------------
(***************************************************************************)
(* Two requests with a common prefix, and the groups of two models.        *)
(***************************************************************************)
EXTENDS KVCacheSteps

MCRequest == {"r1", "r2"}

\* Hybrid: blocks of two tokens for full attention and of one token for a
\* sliding window, so hits are aligned and only segment tails are cached.
HybridGroups == <<[block_size |-> 2, sliding_window |-> 0],
                  [block_size |-> 1, sliding_window |-> 2]>>
\* External: two groups that a KV connector fills, with a wider window that
\* the longer request outgrows.
ExternalGroups == <<[block_size |-> 1, sliding_window |-> 0],
                    [block_size |-> 1, sliding_window |-> 3]>>

HybridTokens == [r \in MCRequest |-> IF r = "r1" THEN <<"a", "b", "a", "a">>
                                                 ELSE <<"a", "b", "b">>]
HybridPrompt == [r \in MCRequest |-> 3]
ExternalTokens == [r \in MCRequest |-> IF r = "r1" THEN <<"a", "b", "a", "a", "a">>
                                                   ELSE <<"a", "b">>]
ExternalPrompt == [r \in MCRequest |-> Len(ExternalTokens[r])]

KeysOf(groups, tokens) ==
  UNION {{<<g, SubSeq(tokens[r], 1, n)>> : g \in DOMAIN groups, n \in 1 .. Len(tokens[r])} :
           r \in MCRequest}
HybridKey == KeysOf(HybridGroups, HybridTokens)
HybridNumTokens == [k \in HybridKey |-> Len(k[2])]
ExternalKey == KeysOf(ExternalGroups, ExternalTokens)
ExternalNumTokens == [k \in ExternalKey |-> Len(k[2])]
=============================================================================
