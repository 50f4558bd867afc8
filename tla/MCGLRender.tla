------------------------------ MODULE MCGLRender ------------------------------
(***************************************************************************)
(* GLRender with the formats that tell its checks apart: one every mapping *)
(* mode takes, one NVIDIA refuses, and one NVIDIA and INTEL refuse.        *)
(***************************************************************************)
EXTENDS GLRender

FormatsByMode == {"RGBA", "P010", "V308"}
=============================================================================
