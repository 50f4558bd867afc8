--------------------------- MODULE MCDeviceSelect ---------------------------
(***************************************************************************)
(* DeviceSelect with devices that tell its branches apart: the emulator, an *)
(* old one, one of a version the table of cores has and one it has not, and *)
(* newer ones that are slower, or in prohibited mode.                       *)
(***************************************************************************)
EXTENDS DeviceSelect

Prop(forbidden, maj, min, procs, rate) ==
    [prohibited |-> forbidden, major |-> maj, minor |-> min,
     multiProcessorCount |-> procs, clockRate |-> rate]

DeviceKinds == {
    Prop(FALSE, 9999, 9999, 1, 1),
    Prop(FALSE, 2, 1, 6, 2),
    Prop(FALSE, 3, 5, 2, 1),
    Prop(FALSE, 6, 0, 3, 1),
    Prop(FALSE, 6, 1, 2, 1),
    Prop(FALSE, 7, 5, 1, 3),
    Prop(TRUE, 7, 5, 4, 3)}
=============================================================================
