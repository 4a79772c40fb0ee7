-------------------------- MODULE MCFreeBlockQueue --------------------------
(***************************************************************************)
(* FreeBlockQueue with five blocks: every order of every subset of them.   *)
(***************************************************************************)
EXTENDS FreeBlockQueue
=============================================================================
