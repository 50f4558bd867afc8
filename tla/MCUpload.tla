------------------------------ MODULE MCUpload ------------------------------
(***************************************************************************)
(* Upload on a device that supports every mapping mode, and on one that     *)
(* only supports GL's buffers.                                              *)
(***************************************************************************)
EXTENDS Upload

AllModes == Maps
GLOnly   == {"GL_MAP_BUF"}
=============================================================================
