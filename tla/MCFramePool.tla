----------------------------- MODULE MCFramePool -----------------------------
(***************************************************************************)
(* Small instances of FramePool for TLC.                                   *)
(***************************************************************************)
EXTENDS FramePool, TLC

\* Producers are interchangeable, and so are renderers (safety runs only).
Symmetry == Permutations(Producers) \cup Permutations(Renderers)
=============================================================================
