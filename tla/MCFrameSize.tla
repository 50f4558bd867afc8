---------------------------- MODULE MCFrameSize ----------------------------
(***************************************************************************)
(* Instances of FrameSize.  Word scales uint32_t down with the texture      *)
(* limit: w * h * 8 reaches half of 2^32 at 16384 x 16384, and half of 2^13 *)
(* at 22 x 22.                                                              *)
(***************************************************************************)
EXTENDS FrameSize

AllFormats == Packed \cup Planar8 \cup Planar16
=============================================================================
