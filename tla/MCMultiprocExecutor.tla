------------------------ MODULE MCMultiprocExecutor -------------------------
(***************************************************************************)
(* Two workers; calls ask rank 0 or all ranks to reply.                    *)
(***************************************************************************)
EXTENDS MultiprocExecutor

MCWorker == {0, 1}
MCOutputRank == {0, None}
=============================================================================
