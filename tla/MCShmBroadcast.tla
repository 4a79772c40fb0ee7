--------------------------- MODULE MCShmBroadcast ---------------------------
(***************************************************************************)
(* Two readers and two chunks: the ring is used for more than one lap.     *)
(***************************************************************************)
EXTENDS ShmBroadcast
=============================================================================
