------------------------------ MODULE MCPoolLife ------------------------------
(***************************************************************************)
(* Instances of PoolLife: the contracts between the GL thread and the       *)
(* producers.                                                               *)
(***************************************************************************)
EXTENDS PoolLife

NoOverlap     == {}
CreateOverlap == {"create"}
=============================================================================
