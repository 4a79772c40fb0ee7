----------------------------- MODULE MCDPWaves ------------------------------
(***************************************************************************)
(* Two ranks, two requests, and an all-reduce after every second pass.     *)
(***************************************************************************)
EXTENDS DPWaves

MCRequest == {"r1", "r2"}
MCNumPasses == [r \in MCRequest |-> IF r = "r1" THEN 2 ELSE 1]
=============================================================================
