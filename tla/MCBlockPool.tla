---------------------------- MODULE MCBlockPool ----------------------------
(***************************************************************************)
(* BlockPool with three usable blocks and three keys: a partial entry (one *)
(* token), the full block it is promoted to, and an unrelated full block.  *)
(***************************************************************************)
EXTENDS BlockPool

MCKey == {"partial", "full", "other"}
MCNumTokens == [k \in MCKey |-> IF k = "partial" THEN 1 ELSE 2]
=============================================================================
