----------------------------- MODULE UploadProofs -----------------------------
(***************************************************************************)
(* For every set of supported mapping modes and any number of sessions,     *)
(* probes, draws and resources, with CUDA calls failing at any moment: a    *)
(* draw that reports success shows its frame, as long as b_alloc_buf says   *)
(* of the session what it is; a session has one registration, of the        *)
(* texture it draws from; and CUDA has a texture mapped only in an upload.  *)
(***************************************************************************)
EXTENDS Upload, FiniteSetTheorems, TLAPS

Shape ==
    /\ resource \in [Handles -> [tex : Nat, mapped : BOOLEAN]]
    /\ textures \in Nat /\ glu32_tex \in Nat

CudaSteps == {"register", "map", "array", "copy", "unmap"}
DrawSteps == {"upload", "unregister", "draw"}

\* Which call each step belongs to, and what that call has established.
Positions ==
    /\ b_opened => ~fresh
    /\ pc \in {"delete", "gone", "alloc", "finish"} => ~b_opened
    /\ pc \in DrawSteps => caller = "draw" /\ b_opened
    /\ pc \in CudaSteps /\ caller = "draw" =>
          b_opened /\ b_alloc_buf /\ gl_map_mode = {NVIDIA}
    /\ pc \in CudaSteps /\ caller # "draw" => ~b_opened
    /\ pc \in {"alloc", "finish"} => caller = "open"
    /\ pc \in CudaSteps \ {"register"} => caller # "open"
    /\ pc = "register" /\ caller = "open" => ~b_resize
    /\ pc = "register" /\ caller = "draw" => b_resize
    /\ pc = "unregister" => b_resize
    /\ pc \in {"alloc", "finish"} => ~fresh
    /\ pc \in CudaSteps /\ caller = "open" => ~fresh

\* A session of one size keeps the registration of its texture from open on.
Registration ==
    mapped /\ gl_map_mode = {NVIDIA} /\ ~b_resize
    /\ (b_opened \/ pc \in {"alloc", "finish"}) =>
        handle \in Handles /\ resource[handle].tex = glu32_tex

\* The frame of a draw is on its way to the texture, or in it.
FrameFollowed ==
    (b_alloc_buf <=> mapped) =>
        /\ pc \in {"map", "array", "copy"} /\ caller = "draw" =>
              resource[handle].tex = glu32_tex
        /\ pc = "unmap" /\ caller = "draw" => texture0 = draws
        /\ pc \in {"unregister", "draw"} => texture0 = draws

Inv == Shape /\ Positions /\ Registration /\ FrameFollowed /\ HonestDrawIsShown

\* Initially nothing is registered, opened or drawn.
LEMMA InitInv == Init => Inv
BY UploadAssumption
   DEF Init, Inv, Shape, Positions, Registration, FrameFollowed, HonestDrawIsShown,
       DrawnIsShown, NotRegistered, NoTexture, CudaSteps, DrawSteps

\* What a failing call and CleanUp keep.
LEMMA CleanUpShape ==
    ASSUME Shape, CleanUp
    PROVE  resource' \in [Handles -> [tex : Nat, mapped : BOOLEAN]] /\ glu32_tex' = 0
<1>1. NotRegistered \in [tex : Nat, mapped : BOOLEAN]
    BY DEF NotRegistered, NoTexture
<1>2. CASE UNCHANGED resource
    BY <1>2 DEF Shape, CleanUp, NoTexture
<1>3. CASE resource' = [resource EXCEPT ![handle] = ReleasedResource(@)]
           /\ handle \in Registered
    <2>1. handle \in Handles /\ resource[handle] \in [tex : Nat, mapped : BOOLEAN]
        BY <1>3 DEF Registered, Shape
    <2>2. ReleasedResource(resource[handle]) \in [tex : Nat, mapped : BOOLEAN]
        BY <1>1, <2>1 DEF ReleasedResource
    <2>3. QED
        BY <1>3, <2>1, <2>2 DEF Shape, CleanUp, NoTexture
<1>4. QED
    BY <1>2, <1>3 DEF CleanUp

LEMMA GiveUpStep == ASSUME Inv, GiveUp, pc \in CudaSteps PROVE Inv'
BY DEF Inv, GiveUp, Return, Goto, Shape, Positions, Registration, FrameFollowed,
       HonestDrawIsShown, DrawnIsShown, CudaSteps, DrawSteps, session, cuda, counters,
       handle

LEMMA RegisterStep == ASSUME Inv, RegisterImage PROVE Inv'
<1>1. pc = "register"
    BY DEF RegisterImage
<1>2. CASE GiveUp
    BY <1>1, <1>2, GiveUpStep DEF CudaSteps
<1>3. ASSUME NEW h \in Handles,
             cuda_tex_result_resource' = h,
             resource' = [resource EXCEPT ![h] = [tex |-> glu32_tex, mapped |-> FALSE]],
             Goto(IF caller = "open" THEN "alloc" ELSE "map"),
             UNCHANGED <<session, glu32_tex, CallsFail, texture0, shown, result, counters,
                         caller>>
      PROVE  Inv'
    <2>1. Shape'
        BY <1>3 DEF Inv, Shape, counters
    <2>2. resource'[h].tex = glu32_tex
        BY <1>3 DEF Inv, Shape
    <2>3. QED
        BY <1>1, <1>3, <2>1, <2>2
           DEF Inv, Positions, Registration, FrameFollowed, HonestDrawIsShown,
               DrawnIsShown, Goto, CudaSteps, DrawSteps, session, counters, handle
<1>4. QED
    BY <1>2, <1>3 DEF RegisterImage

\* Mapping and unmapping keep what is registered.
LEMMA TexKept ==
    ASSUME Shape, NEW h \in Handles, NEW b \in BOOLEAN
    PROVE  /\ [resource EXCEPT ![h].mapped = b] \in [Handles -> [tex : Nat, mapped : BOOLEAN]]
           /\ \A k \in Handles : [resource EXCEPT ![h].mapped = b][k].tex = resource[k].tex
BY DEF Shape

LEMMA MapStep == ASSUME Inv, MapResources PROVE Inv'
<1>1. pc = "map"
    BY DEF MapResources
<1>2. CASE GiveUp
    BY <1>1, <1>2, GiveUpStep DEF CudaSteps
<1>3. CASE ~GiveUp
    <2>1. handle \in Handles /\ resource' = [resource EXCEPT ![handle].mapped = TRUE]
        BY <1>3 DEF MapResources, Registered, MappedNow
    <2>2. /\ pc' = "array"
          /\ UNCHANGED <<session, glu32_tex, cuda_tex_result_resource, texture0, shown,
                         result, counters, caller>>
        BY <1>3 DEF MapResources, Goto
    <2>3. Shape' /\ \A k \in Handles : resource'[k].tex = resource[k].tex
        BY <2>1, <2>2, TexKept DEF Inv, Shape, counters
    <2>4. QED
        BY <1>1, <2>1, <2>2, <2>3
           DEF Inv, Positions, Registration, FrameFollowed, HonestDrawIsShown,
               DrawnIsShown, CudaSteps, DrawSteps, session, counters, handle
<1>4. QED
    BY <1>2, <1>3

LEMMA ArrayStep == ASSUME Inv, GetMappedArray PROVE Inv'
<1>1. pc = "array"
    BY DEF GetMappedArray
<1>2. CASE GiveUp
    BY <1>1, <1>2, GiveUpStep DEF CudaSteps
<1>3. CASE ~GiveUp
    BY <1>1, <1>3
       DEF GetMappedArray, Goto, Inv, Shape, Positions, Registration, FrameFollowed,
           HonestDrawIsShown, DrawnIsShown, CudaSteps, DrawSteps, session, cuda, counters,
           handle
<1>4. QED
    BY <1>2, <1>3

LEMMA CopyStep == ASSUME Inv, CopyToArray PROVE Inv'
<1>1. pc = "copy"
    BY DEF CopyToArray
<1>2. CASE GiveUp
    BY <1>1, <1>2, GiveUpStep DEF CudaSteps
<1>3. CASE ~GiveUp
    BY <1>1, <1>3
       DEF CopyToArray, Goto, Inv, Shape, Positions, Registration, FrameFollowed,
           HonestDrawIsShown, DrawnIsShown, CudaSteps, DrawSteps, session, cuda, counters,
           handle
<1>4. QED
    BY <1>2, <1>3

LEMMA UnmapStep == ASSUME Inv, UnmapResources PROVE Inv'
<1>1. pc = "unmap"
    BY DEF UnmapResources
<1>2. CASE GiveUp
    BY <1>1, <1>2, GiveUpStep DEF CudaSteps
<1>3. CASE ~GiveUp
    <2>1. handle \in Handles /\ resource' = [resource EXCEPT ![handle].mapped = FALSE]
        BY <1>3 DEF UnmapResources, Unmapped, MappedNow
    <2>2. UNCHANGED <<b_opened, b_alloc_buf, b_resize, mapped, fresh,
                      cuda_tex_result_resource, shown, counters, caller>>
        BY <1>3 DEF UnmapResources
    <2>3. resource' \in [Handles -> [tex : Nat, mapped : BOOLEAN]]
          /\ \A k \in Handles : resource'[k].tex = resource[k].tex
        BY <2>1, TexKept DEF Inv
    <2>4. CASE caller = "draw"
        <3>1. /\ pc' = (IF b_resize THEN "unregister" ELSE "draw")
              /\ UNCHANGED <<gl_map_mode, glu32_tex, texture0, result>>
            BY <1>3, <2>4 DEF UnmapResources, Goto
        <3>2. QED
            BY <1>1, <2>1, <2>2, <2>3, <2>4, <3>1
               DEF Inv, Shape, Positions, Registration, FrameFollowed, HonestDrawIsShown,
                   DrawnIsShown, CudaSteps, DrawSteps, counters, handle
    <2>5. CASE caller # "draw"
        <3>1. pc' = "idle" /\ glu32_tex' = 0 /\ ~b_opened
            BY <1>1, <1>3, <2>5
               DEF UnmapResources, Return, Goto, Inv, Positions, CudaSteps, NoTexture
        <3>2. QED
            BY <2>2, <2>3, <2>5, <3>1
               DEF Inv, Shape, Positions, Registration, FrameFollowed, HonestDrawIsShown,
                   DrawnIsShown, CudaSteps, DrawSteps, counters, handle
    <2>6. QED
        BY <2>4, <2>5
<1>4. QED
    BY <1>2, <1>3

LEMMA UnregisterStep == ASSUME Inv, UnregisterResource PROVE Inv'
<1>1. Shape'
    <2>1. NotRegistered \in [tex : Nat, mapped : BOOLEAN]
        BY DEF NotRegistered, NoTexture
    <2>2. resource' \in [Handles -> [tex : Nat, mapped : BOOLEAN]]
        BY <2>1 DEF UnregisterResource, Inv, Shape
    <2>3. QED
        BY <2>2 DEF UnregisterResource, Inv, Shape, counters
<1>2. QED
    BY <1>1
       DEF UnregisterResource, Goto, Inv, Positions, Registration, FrameFollowed,
           HonestDrawIsShown, DrawnIsShown, CudaSteps, DrawSteps, session, counters, handle

(***************************************************************************)
(* The other actions.                                                       *)
(***************************************************************************)
LEMMA ProbeStep == ASSUME Inv, MWVideoDeviceInfo PROVE Inv'
<1>1. /\ pc' \in {"register", "idle"} /\ caller' = "probe" /\ ~b_opened
      /\ UNCHANGED <<b_opened, b_alloc_buf, b_resize, mapped, fresh, resource>>
    BY DEF MWVideoDeviceInfo, Goto, Return, Inv, Positions
<1>2. textures' \in Nat /\ glu32_tex' \in Nat
    BY DEF MWVideoDeviceInfo, GenTexture, Inv, Shape
<1>3. QED
    BY <1>1, <1>2
       DEF Inv, Shape, Positions, Registration, FrameFollowed, HonestDrawIsShown,
           DrawnIsShown, CudaSteps, DrawSteps

LEMMA InitStep == ASSUME Inv, MWInitRender PROVE Inv'
<1>1. /\ caller' = "open" /\ ~b_opened /\ fresh /\ pc = "idle" /\ ~fresh'
      /\ UNCHANGED <<b_opened, b_alloc_buf, cuda, shown, probes, draws>>
    BY DEF MWInitRender, Inv, Positions
<1>2. Shape'
    BY <1>1 DEF MWInitRender, OpenRefused, OpenMapped, OpenUnmapped, GenTexture, Inv,
                Shape, cuda, NoTexture
<1>3. CASE OpenRefused
    BY <1>1, <1>2, <1>3
       DEF OpenRefused, Return, Goto, Inv, Positions, Registration, FrameFollowed,
           HonestDrawIsShown, DrawnIsShown, CudaSteps, DrawSteps
<1>4. ASSUME NEW m \in Maps, OpenMapped(m) PROVE Inv'
    <2>1. /\ pc' = (IF m = NVIDIA /\ ~b_resize' THEN "register" ELSE "alloc")
          /\ gl_map_mode' = {m}
        BY <1>4 DEF OpenMapped, Goto
    <2>2. Registration'
        BY <1>1, <2>1 DEF Registration
    <2>3. QED
        BY <1>1, <1>2, <2>1, <2>2
           DEF Inv, Positions, FrameFollowed, HonestDrawIsShown, DrawnIsShown, CudaSteps,
               DrawSteps
<1>5. CASE OpenUnmapped
    BY <1>1, <1>2, <1>5
       DEF OpenUnmapped, Goto, Inv, Positions, Registration, FrameFollowed,
           HonestDrawIsShown, DrawnIsShown, CudaSteps, DrawSteps
<1>6. QED
    BY <1>3, <1>4, <1>5 DEF MWInitRender

LEMMA AllocStep == ASSUME Inv, AllocBuffers PROVE Inv'
<1>1. /\ pc = "alloc" /\ caller = "open" /\ ~b_opened
      /\ UNCHANGED <<b_opened, b_resize, mapped, gl_map_mode, fresh, shown, counters, caller>>
    BY DEF AllocBuffers, Inv, Positions
<1>2. CASE CleanUp /\ pc' = "idle"
    BY <1>1, <1>2, CleanUpShape
       DEF Inv, Shape, Positions, Registration, FrameFollowed, HonestDrawIsShown,
           DrawnIsShown, CudaSteps, DrawSteps, counters
<1>3. CASE /\ pc' = "finish"
           /\ UNCHANGED <<glu32_tex, texture0, cuda_tex_result_resource, resource>>
    BY <1>1, <1>3
       DEF Inv, Shape, Positions, Registration, FrameFollowed, HonestDrawIsShown,
           DrawnIsShown, CudaSteps, DrawSteps, counters, handle
<1>4. QED
    BY <1>2, <1>3 DEF AllocBuffers, Goto, Return, cuda

LEMMA FinishStep == ASSUME Inv, FinishOpen PROVE Inv'
<1>1. /\ pc = "finish" /\ caller = "open" /\ ~b_opened /\ pc' = "idle"
      /\ UNCHANGED <<b_alloc_buf, b_resize, mapped, gl_map_mode, fresh, shown, counters, caller>>
    BY DEF FinishOpen, Return, Goto, Inv, Positions
<1>2. CASE CleanUp /\ UNCHANGED b_opened
    BY <1>1, <1>2, CleanUpShape
       DEF Inv, Shape, Positions, Registration, FrameFollowed, HonestDrawIsShown,
           DrawnIsShown, CudaSteps, DrawSteps, counters
<1>3. CASE UNCHANGED <<glu32_tex, texture0, cuda>> /\ (~fresh \/ UNCHANGED b_opened)
    BY <1>1, <1>3
       DEF Inv, Shape, Positions, Registration, FrameFollowed, HonestDrawIsShown,
           DrawnIsShown, CudaSteps, DrawSteps, counters, cuda, handle
<1>4. ~fresh
    BY <1>1 DEF Inv, Positions
<1>5. QED
    BY <1>2, <1>3, <1>4 DEF FinishOpen

\* Close and the destructor clean up and leave nothing open.
LEMMA CloseStep == ASSUME Inv, MWDeInitRender \/ MWDestoryVideoRender \/ Destructor
                   PROVE  Inv'
<1>1. /\ CleanUp /\ ~b_opened' /\ UNCHANGED textures
      /\ pc' \in {"idle", "delete", "gone"}
    BY DEF MWDeInitRender, MWDestoryVideoRender, Destructor, Close, Goto, counters,
           session, Inv, Positions
<1>2. Shape'
    BY <1>1, CleanUpShape DEF Inv, Shape
<1>3. QED
    BY <1>1, <1>2
       DEF Inv, Positions, Registration, FrameFollowed, HonestDrawIsShown, DrawnIsShown,
           CudaSteps, DrawSteps

LEMMA DrawStep == ASSUME Inv, MWRenderFrame PROVE Inv'
<1>1. /\ pc = "idle" /\ b_opened
      /\ UNCHANGED <<session, glu32_tex, cuda, texture0, shown, textures, probes, inits>>
      /\ \/ pc' = "upload" /\ caller' = "draw"
         \/ pc' = "idle" /\ result' = "SIZE_ERROR"
    BY DEF MWRenderFrame, Goto, Return
<1>2. QED
    BY <1>1
       DEF Inv, Shape, Positions, Registration, FrameFollowed, HonestDrawIsShown,
           DrawnIsShown, CudaSteps, DrawSteps, session, cuda, handle

LEMMA UploadStep == ASSUME Inv, UploadFrame PROVE Inv'
<1>1. /\ pc = "upload" /\ caller = "draw" /\ b_opened
      /\ UNCHANGED <<session, glu32_tex, cuda, shown, result, counters, caller>>
    BY DEF UploadFrame, Inv, Positions, DrawSteps
<1>2. CASE pc' = "draw" /\ texture0' = draws
    BY <1>1, <1>2
       DEF Inv, Shape, Positions, Registration, FrameFollowed, HonestDrawIsShown,
           DrawnIsShown, CudaSteps, DrawSteps, session, cuda, counters, handle
<1>3. CASE /\ b_alloc_buf /\ ~glvar /\ gl_map_mode = {NVIDIA}
           /\ pc' = (IF b_resize THEN "register" ELSE "map")
    BY <1>1, <1>3
       DEF Inv, Shape, Positions, Registration, FrameFollowed, HonestDrawIsShown,
           DrawnIsShown, CudaSteps, DrawSteps, session, cuda, counters, handle
<1>4. CASE b_alloc_buf /\ ~glvar /\ gl_map_mode # {NVIDIA} /\ pc' = "draw"
    <2>1. ~(b_alloc_buf <=> mapped)
        BY <1>4 DEF glvar
    <2>2. QED
        BY <1>1, <1>4, <2>1
           DEF Inv, Shape, Positions, Registration, FrameFollowed, HonestDrawIsShown,
               DrawnIsShown, CudaSteps, DrawSteps, session, cuda, counters, handle
<1>5. QED
    BY <1>2, <1>3, <1>4 DEF UploadFrame, Goto

LEMMA DrawArraysStep == ASSUME Inv, DrawArrays PROVE Inv'
<1>1. /\ pc = "draw" /\ pc' = "idle" /\ caller = "draw" /\ b_opened
      /\ UNCHANGED <<session, glu32_tex, cuda, texture0, counters, caller>>
    BY DEF DrawArrays, Return, Goto, Inv, Positions, DrawSteps
<1>2. (b_alloc_buf <=> mapped) => shown' = draws
    <2>1. {NVIDIA} # {INTEL}
        BY DEF NVIDIA, INTEL
    <2>2. QED
        BY <1>1, <2>1 DEF DrawArrays, glvar, Inv, FrameFollowed
<1>3. QED
    BY <1>1, <1>2
       DEF Inv, Shape, Positions, Registration, FrameFollowed, HonestDrawIsShown,
           DrawnIsShown, CudaSteps, DrawSteps, session, cuda, counters, handle

LEMMA InvStep == Inv /\ [Next]_vars => Inv'
<1>1. CASE UNCHANGED vars
    BY <1>1
       DEF Inv, Shape, Positions, Registration, FrameFollowed, HonestDrawIsShown,
           DrawnIsShown, vars, session, cuda, counters, handle
<1>2. CASE Next
    BY <1>2, RegisterStep, MapStep, ArrayStep, CopyStep, UnmapStep, UnregisterStep,
       ProbeStep, InitStep, AllocStep, FinishStep, CloseStep, DrawStep, UploadStep,
       DrawArraysStep DEF Next
<1>3. QED
    BY <1>1, <1>2

\* A draw that reports success shows its frame, in every mapping mode and after
\* whatever failures, in a session that b_alloc_buf describes truly.
THEOREM HonestDrawsAreShown == Spec => []HonestDrawIsShown
<1>1. Inv => HonestDrawIsShown
    BY DEF Inv
<1>2. QED
    BY <1>1, InitInv, InvStep, PTL DEF Spec

-----------------------------------------------------------------------------
(***************************************************************************)
(* The resources: what is mapped, and how many are registered.              *)
(***************************************************************************)
MappedSteps == {"array", "copy", "unmap"}

\* A texture of each open and of each probe, and no more.
Counted == textures <= inits + probes

\* The steps of a probe, and the texture an NVIDIA session draws from.
Sessions ==
    /\ pc \in CudaSteps /\ caller \notin {"draw", "open"} => fresh
    /\ pc = "register" /\ caller = "open" => gl_map_mode = {NVIDIA}
    /\ (b_opened \/ pc \in {"alloc", "finish"} \/ (pc = "register" /\ caller = "open"))
       /\ mapped /\ gl_map_mode = {NVIDIA} => glu32_tex # NoTexture

\* While calls work, the only resource mapped is the one a frame is copied to.
OneMapped ==
    /\ pc \in MappedSteps => handle \in Handles
    /\ ~CallsFail =>
          \A h \in Handles : resource[h].mapped <=> h = handle /\ pc \in MappedSteps

\* A probe that is yet to register has counted itself already.
Settled ==
    Cardinality(Registered)
        + (IF pc = "register" /\ caller \notin {"draw", "open"} THEN 1 ELSE 0) <= probes

\* The registration of a resized draw, or that of a session of one size.
InUse ==
    \/ b_resize /\ caller = "draw" /\ pc \in {"map", "unregister"} \cup MappedSteps
    \/ /\ ~b_resize /\ ~fresh /\ gl_map_mode = {NVIDIA}
       /\ pc # "register" /\ (b_alloc_buf \/ pc = "alloc")

\* The registration of the last probe stays, and so does one in use.
OnePerProbe ==
    ~CallsFail =>
        Settled \/ (InUse /\ handle \in Registered
                    /\ Cardinality(Registered \ {handle}) <= probes)

RInv == TypeOK /\ Counted /\ Sessions /\ OneMapped /\ OnePerProbe

\* CleanUp releases at most the one resource of the handle.
LEMMA CleanUpResource ==
    ASSUME TypeOK, CleanUp
    PROVE  /\ resource' \in [Handles -> [tex : 0 .. textures, mapped : BOOLEAN]]
           /\ glu32_tex' = NoTexture /\ texture0' = NoFrame
           /\ UNCHANGED <<cuda_tex_result_resource, CallsFail>>
           /\ \A h \in Handles :
                 resource'[h] = resource[h] \/ (~resource'[h].mapped
                     /\ resource'[h].tex \in {NoTexture, resource[h].tex})
<1>1. NotRegistered \in [tex : 0 .. textures, mapped : BOOLEAN]
      /\ NotRegistered.tex = NoTexture /\ ~NotRegistered.mapped
    BY UploadAssumption DEF NotRegistered, NoTexture, TypeOK
<1>2. CASE UNCHANGED resource
    BY <1>2 DEF TypeOK, CleanUp
<1>3. CASE resource' = [resource EXCEPT ![handle] = ReleasedResource(@)]
           /\ handle \in Registered
    <2>1. handle \in Handles /\ resource[handle] \in [tex : 0 .. textures, mapped : BOOLEAN]
        BY <1>3 DEF Registered, TypeOK
    <2>2. /\ ReleasedResource(resource[handle]) \in [tex : 0 .. textures, mapped : BOOLEAN]
          /\ ~ReleasedResource(resource[handle]).mapped
          /\ ReleasedResource(resource[handle]).tex \in {NoTexture, resource[handle].tex}
        BY <1>1, <2>1 DEF ReleasedResource
    <2>3. resource'[handle] = ReleasedResource(resource[handle])
          /\ \A h \in Handles \ {handle} : resource'[h] = resource[h]
        BY <1>3, <2>1 DEF TypeOK
    <2>4. resource' \in [Handles -> [tex : 0 .. textures, mapped : BOOLEAN]]
        BY <1>3, <2>1, <2>2 DEF TypeOK
    <2> QED BY <2>2, <2>3, <2>4 DEF CleanUp
<1> QED BY <1>2, <1>3 DEF CleanUp

\* Each action keeps the types, and makes at most the texture it has counted.
LEMMA TypeStep == ASSUME Inv, RInv, Next PROVE TypeOK' /\ Counted'
<1> USE UploadAssumption
<1>1. TypeOK /\ Counted /\ textures \in Nat /\ probes \in Nat /\ inits \in Nat
      /\ draws \in Nat
    BY DEF RInv, TypeOK
<1>2. ASSUME GiveUp PROVE TypeOK' /\ Counted'
    BY <1>1, <1>2 DEF GiveUp, Return, Goto, TypeOK, Counted, session, cuda, counters
<1>3. CASE RegisterImage
    <2>1. CASE GiveUp
        BY <1>2, <2>1
    <2>2. CASE ~GiveUp
        <3>1. PICK h \in Handles :
                  /\ cuda_tex_result_resource' = h
                  /\ resource' = [resource EXCEPT ![h] = [tex |-> glu32_tex, mapped |-> FALSE]]
                  /\ Goto(IF caller = "open" THEN "alloc" ELSE "map")
                  /\ UNCHANGED <<session, glu32_tex, CallsFail, texture0, shown, result,
                                 counters, caller>>
            BY <1>3, <2>2 DEF RegisterImage
        <3>2. h \in 0 .. MaxResources
            BY DEF Handles
        <3>3. resource' \in [Handles -> [tex : 0 .. textures, mapped : BOOLEAN]]
            BY <1>1, <3>1 DEF TypeOK
        <3> QED BY <1>1, <3>1, <3>2, <3>3 DEF Goto, TypeOK, Counted, session, counters
    <2> QED BY <2>1, <2>2
<1>4. CASE MapResources
    <2>1. CASE ~GiveUp
        <3>1. resource' \in [Handles -> [tex : 0 .. textures, mapped : BOOLEAN]]
            BY <1>1, <1>4, <2>1 DEF MapResources, TypeOK
        <3> QED BY <1>1, <1>4, <2>1, <3>1
                DEF MapResources, Goto, TypeOK, Counted, session, counters
    <2> QED BY <1>2, <2>1
<1>5. CASE GetMappedArray
    <2>1. CASE ~GiveUp
        BY <1>1, <1>5, <2>1 DEF GetMappedArray, Goto, TypeOK, Counted, session, cuda, counters
    <2> QED BY <1>2, <2>1
<1>6. CASE CopyToArray
    <2>1. CASE ~GiveUp
        BY <1>1, <1>6, <2>1 DEF CopyToArray, Goto, TypeOK, Counted, session, cuda, counters
    <2> QED BY <1>2, <2>1
<1>7. CASE UnmapResources
    <2>1. CASE ~GiveUp
        <3>1. resource' \in [Handles -> [tex : 0 .. textures, mapped : BOOLEAN]]
            BY <1>1, <1>7, <2>1 DEF UnmapResources, Unmapped, TypeOK
        <3>2. /\ pc' \in {"unregister", "draw", "idle"}
              /\ gl_map_mode' \in {gl_map_mode, gl_map_mode \cup {NVIDIA}}
              /\ glu32_tex' \in {glu32_tex, 0} /\ texture0' \in {texture0, 0}
              /\ result' \in {result, "NO_ERROR"}
            BY <1>7, <2>1 DEF UnmapResources, Goto, Return, NoTexture, NoFrame
        <3>3. gl_map_mode' \subseteq Maps
            BY <1>1, <3>2 DEF TypeOK, Maps
        <3> QED BY <1>1, <1>7, <2>1, <3>1, <3>2, <3>3
                DEF UnmapResources, TypeOK, Counted, counters
    <2> QED BY <1>2, <2>1
<1>8. CASE UnregisterResource
    <2>1. NotRegistered \in [tex : 0 .. textures, mapped : BOOLEAN]
        BY <1>1 DEF NotRegistered, NoTexture
    <2>2. resource' \in [Handles -> [tex : 0 .. textures, mapped : BOOLEAN]]
        BY <1>1, <1>8, <2>1 DEF UnregisterResource, TypeOK
    <2> QED BY <1>1, <1>8, <2>2 DEF UnregisterResource, Goto, TypeOK, Counted, session, counters
<1>9. CASE MWVideoDeviceInfo
    <2>1. /\ probes' = probes + 1 /\ probes < MaxProbes
          /\ gl_map_mode' \subseteq Maps /\ caller' = "probe"
          /\ pc' \in {"register", "idle"} /\ result' \in {result, "NO_ERROR"}
          /\ UNCHANGED <<b_opened, b_alloc_buf, b_resize, mapped, fresh,
                         cuda_tex_result_resource, resource, CallsFail, shown, inits, draws>>
        BY <1>9 DEF MWVideoDeviceInfo, Goto, Return
    <2>2. CASE textures' = textures + 1 /\ glu32_tex' = textures + 1 /\ texture0' = 0
        <3>1. resource' \in [Handles -> [tex : 0 .. textures', mapped : BOOLEAN]]
            BY <1>1, <2>1, <2>2 DEF TypeOK
        <3> QED BY <1>1, <2>1, <2>2, <3>1 DEF TypeOK, Counted
    <2>3. CASE UNCHANGED <<glu32_tex, texture0, textures>>
        BY <1>1, <2>1, <2>3 DEF TypeOK, Counted
    <2> QED BY <1>9, <2>2, <2>3 DEF MWVideoDeviceInfo, GenTexture, NoFrame
<1>10. CASE MWInitRender
    <2>1. /\ inits' = inits + 1 /\ inits < MaxInits /\ fresh' = FALSE /\ caller' = "open"
          /\ b_resize' \in BOOLEAN
          /\ UNCHANGED <<b_opened, b_alloc_buf, cuda_tex_result_resource, resource,
                         CallsFail, shown, probes, draws>>
        BY <1>10 DEF MWInitRender, cuda
    <2>2. /\ gl_map_mode' \subseteq Maps /\ mapped' \in BOOLEAN
          /\ pc' \in {"idle", "register", "alloc", "finish"}
          /\ result' \in {result, "SIZE_ERROR"}
        BY <1>1, <1>10
           DEF MWInitRender, OpenRefused, OpenMapped, OpenUnmapped, Return, Goto, TypeOK
    <2>3. /\ inits' \in 0 .. MaxInits /\ textures \in 0 .. MaxInits + MaxProbes
          /\ glu32_tex \in 0 .. textures
          /\ textures + 1 \in 0 .. MaxInits + MaxProbes /\ textures + 1 <= inits' + probes
          /\ textures <= inits' + probes
        BY <1>1, <2>1 DEF TypeOK, Counted
    <2>4. CASE textures' = textures + 1 /\ glu32_tex' = textures + 1 /\ texture0' = 0
        <3>1. resource' \in [Handles -> [tex : 0 .. textures', mapped : BOOLEAN]]
            BY <1>1, <2>1, <2>4 DEF TypeOK
        <3>2. glu32_tex' \in 0 .. textures' /\ texture0' \in 0 .. draws
            BY <1>1, <2>4
        <3> QED BY <1>1, <2>1, <2>2, <2>3, <2>4, <3>1, <3>2 DEF TypeOK, Counted
    <2>5. CASE UNCHANGED <<glu32_tex, texture0, textures>>
        BY <1>1, <2>1, <2>2, <2>3, <2>5 DEF TypeOK, Counted
    <2> QED BY <1>10, <2>4, <2>5
            DEF MWInitRender, OpenRefused, OpenMapped, OpenUnmapped, GenTexture, NoFrame
<1>11. CASE AllocBuffers \/ FinishOpen
    <2>1. /\ pc' \in {"finish", "idle"} /\ b_alloc_buf' \in BOOLEAN /\ b_opened' \in BOOLEAN
          /\ result' \in {result, "MAPBUFFER_ERROR", "NO_ERROR", "LINK_ERROR",
                          "COLOR_SPACE_ERROR"}
          /\ UNCHANGED <<b_resize, mapped, gl_map_mode, fresh, shown, counters, caller>>
        BY <1>1, <1>11 DEF AllocBuffers, FinishOpen, Goto, Return, TypeOK
    <2>2. CASE CleanUp
        BY <1>1, <2>1, <2>2, CleanUpResource DEF TypeOK, Counted, counters, NoTexture, NoFrame
    <2>3. CASE UNCHANGED <<glu32_tex, texture0, cuda>>
        BY <1>1, <2>1, <2>3 DEF TypeOK, Counted, counters, cuda
    <2> QED BY <1>11, <2>2, <2>3 DEF AllocBuffers, FinishOpen
<1>12. CASE MWDeInitRender \/ MWDestoryVideoRender \/ Destructor
    <2>1. /\ pc' \in {"idle", "delete", "gone"} /\ b_opened' \in BOOLEAN /\ fresh' \in BOOLEAN
          /\ CleanUp
          /\ UNCHANGED <<caller, b_alloc_buf, b_resize, mapped, gl_map_mode, shown, result,
                         counters>>
        BY <1>1, <1>12
           DEF MWDeInitRender, MWDestoryVideoRender, Destructor, Close, Goto, TypeOK, session
    <2> QED BY <1>1, <2>1, CleanUpResource DEF TypeOK, Counted, counters, NoTexture, NoFrame
<1>13. CASE MWRenderFrame
    <2>1. /\ draws' = draws + 1 /\ draws < MaxDraws
          /\ pc' \in {"upload", "idle"} /\ caller' \in {caller, "draw"}
          /\ result' \in {result, "SIZE_ERROR"}
          /\ UNCHANGED <<session, glu32_tex, cuda, texture0, shown, textures, probes, inits>>
        BY <1>13 DEF MWRenderFrame, Goto, Return
    <2> QED BY <1>1, <2>1 DEF TypeOK, Counted, session, cuda
<1>14. CASE UploadFrame
    <2>1. /\ pc' \in {"draw", "register", "map"} /\ texture0' \in {texture0, 0, draws}
          /\ UNCHANGED <<session, glu32_tex, cuda, shown, result, counters, caller>>
        BY <1>14 DEF UploadFrame, Goto, NoFrame
    <2> QED BY <1>1, <2>1 DEF TypeOK, Counted, session, cuda, counters
<1>15. CASE DrawArrays
    <2>1. /\ pc' = "idle" /\ result' = "NO_ERROR" /\ shown' \in {shown, texture0}
          /\ UNCHANGED <<session, glu32_tex, cuda, texture0, counters, caller>>
        BY <1>15 DEF DrawArrays, Goto, Return
    <2> QED BY <1>1, <2>1 DEF TypeOK, Counted, session, cuda, counters
<1> QED BY <1>3, <1>4, <1>5, <1>6, <1>7, <1>8, <1>9, <1>10, <1>11, <1>12, <1>13, <1>14,
           <1>15 DEF Next

\* A probe runs with nothing open, and a session of one size has a texture from
\* its registration on.
LEMMA SessionsStep == ASSUME Inv, RInv, Next PROVE Sessions'
<1> USE DEF CudaSteps
<1>1. Sessions /\ Positions
    BY DEF RInv, Inv
<1>2. CASE MWVideoDeviceInfo
    <2>1. pc' \in {"register", "idle"} /\ fresh' /\ caller' = "probe" /\ ~b_opened'
        BY <1>1, <1>2 DEF MWVideoDeviceInfo, Goto, Return, Positions
    <2> QED BY <2>1 DEF Sessions
<1>3. CASE MWInitRender
    <2>1. caller' = "open" /\ ~b_opened'
        BY <1>1, <1>3 DEF MWInitRender, Positions
    <2>2. textures + 1 # 0
        BY UploadAssumption DEF RInv, TypeOK
    <2>3. CASE OpenRefused
        BY <2>1, <2>3 DEF OpenRefused, Return, Goto, Sessions
    <2>4. ASSUME NEW m \in Maps, OpenMapped(m) PROVE Sessions'
        <3>1. {INTEL} # {NVIDIA}
            BY DEF INTEL, NVIDIA
        <3>2. CASE m = INTEL
            <4>1. gl_map_mode' = {INTEL} /\ pc' = "alloc"
                BY <2>4, <3>1, <3>2 DEF OpenMapped, Goto
            <4> QED BY <2>1, <3>1, <4>1 DEF Sessions
        <3>3. CASE m # INTEL
            <4>1. /\ glu32_tex' = textures + 1 /\ gl_map_mode' = {m}
                  /\ pc' = (IF m = NVIDIA /\ ~b_resize' THEN "register" ELSE "alloc")
                BY <2>4, <3>3 DEF OpenMapped, GenTexture, Goto
            <4> QED BY <2>1, <2>2, <4>1 DEF Sessions, NoTexture
        <3> QED BY <3>2, <3>3
    <2>5. CASE OpenUnmapped
        BY <2>1, <2>5 DEF OpenUnmapped, Goto, Sessions
    <2> QED BY <1>3, <2>3, <2>4, <2>5 DEF MWInitRender
<1>4. CASE AllocBuffers \/ FinishOpen
    <2>1. ~b_opened /\ caller = "open" /\ caller' = "open"
        BY <1>1, <1>4 DEF AllocBuffers, FinishOpen, Positions
    <2>2. CASE pc' = "idle" /\ ~b_opened'
        BY <2>2 DEF Sessions
    <2>3. CASE /\ pc' \in {"idle", "finish"} /\ pc \in {"alloc", "finish"}
               /\ UNCHANGED <<glu32_tex, mapped, gl_map_mode>>
        BY <1>1, <2>3 DEF Sessions
    <2> QED BY <1>4, <2>1, <2>2, <2>3 DEF AllocBuffers, FinishOpen, Goto, Return
<1>5. CASE MWDeInitRender \/ MWDestoryVideoRender \/ Destructor
    <2>1. pc' \in {"idle", "delete", "gone"} /\ ~b_opened'
        BY <1>1, <1>5
           DEF MWDeInitRender, MWDestoryVideoRender, Destructor, Close, Goto, Positions, session
    <2> QED BY <2>1 DEF Sessions
<1>6. CASE RegisterImage \/ MapResources \/ GetMappedArray \/ CopyToArray
    <2>1. /\ UNCHANGED <<b_opened, mapped, gl_map_mode, fresh, glu32_tex, caller>>
          /\ pc \in CudaSteps
          /\ pc' = "idle" \/ (pc' = "alloc" /\ caller = "open" /\ pc = "register")
             \/ (pc' \in CudaSteps \ {"register"})
        BY <1>6
           DEF RegisterImage, MapResources, GetMappedArray, CopyToArray, GiveUp, Return, Goto,
               session
    <2> QED BY <1>1, <2>1 DEF Sessions, Positions
<1>7. CASE UnmapResources
    <2>1. CASE GiveUp
        BY <1>1, <2>1 DEF GiveUp, Return, Goto, session, Sessions
    <2>2. CASE caller = "draw" /\ ~GiveUp
        <3>1. /\ UNCHANGED <<b_opened, mapped, gl_map_mode, glu32_tex, caller>>
              /\ pc' \in {"unregister", "draw"}
            BY <1>7, <2>2 DEF UnmapResources, Goto
        <3> QED BY <1>1, <3>1 DEF Sessions
    <2>3. CASE caller # "draw" /\ ~GiveUp
        <3>1. pc' = "idle" /\ ~b_opened'
            BY <1>1, <1>7, <2>3 DEF UnmapResources, Return, Goto, Positions
        <3> QED BY <3>1 DEF Sessions
    <2> QED BY <2>1, <2>2, <2>3
<1>8. CASE UnregisterResource \/ MWRenderFrame \/ UploadFrame \/ DrawArrays
    <2>1. UNCHANGED <<b_opened, mapped, gl_map_mode, glu32_tex>> /\ b_opened
        BY <1>1, <1>8
           DEF UnregisterResource, MWRenderFrame, UploadFrame, DrawArrays, session,
               Positions, DrawSteps
    <2>2. pc' \in CudaSteps => caller' = "draw"
        BY <1>1, <1>8
           DEF UnregisterResource, MWRenderFrame, UploadFrame, DrawArrays, Goto, Return,
               Positions, DrawSteps
    <2> QED BY <1>1, <2>1, <2>2 DEF Sessions
<1> QED BY <1>2, <1>3, <1>4, <1>5, <1>6, <1>7, <1>8 DEF Next

\* A resource is mapped and unmapped by the same draw or probe.
LEMMA OneMappedStep == ASSUME Inv, RInv, Next PROVE OneMapped'
<1>1. OneMapped /\ Positions
    BY DEF RInv, Inv
<1>2. resource \in [Handles -> [tex : 0 .. textures, mapped : BOOLEAN]]
    BY DEF RInv, TypeOK
<1>3. ASSUME pc \notin MappedSteps, pc' \notin MappedSteps, UNCHANGED CallsFail,
             \A h \in Handles : resource'[h] = resource[h] \/ ~resource'[h].mapped
      PROVE  OneMapped'
    BY <1>1, <1>3 DEF OneMapped
<1>4. ASSUME GiveUp, pc \notin MappedSteps PROVE OneMapped'
    BY <1>3, <1>4 DEF GiveUp, Return, Goto, cuda, MappedSteps
<1>5. ASSUME GiveUp, CallsFail PROVE OneMapped'
    BY <1>5 DEF GiveUp, Return, Goto, cuda, MappedSteps, OneMapped
<1>6. CASE RegisterImage
    <2>1. CASE ~GiveUp
        <3>1. PICK h \in Handles :
                  resource' = [resource EXCEPT ![h] = [tex |-> glu32_tex, mapped |-> FALSE]]
            BY <1>6, <2>1 DEF RegisterImage
        <3>2. pc' \in {"alloc", "map"} /\ UNCHANGED CallsFail
            BY <1>6, <2>1 DEF RegisterImage, Goto
        <3>3. \A k \in Handles : resource'[k] = resource[k] \/ ~resource'[k].mapped
            BY <1>2, <3>1
        <3>4. pc \notin MappedSteps /\ pc' \notin MappedSteps
            BY <1>6, <3>2 DEF RegisterImage, MappedSteps
        <3> QED BY <1>3, <3>2, <3>3, <3>4
    <2> QED BY <1>4, <1>6, <2>1 DEF RegisterImage, MappedSteps
<1>7. CASE MapResources
    <2>1. CASE ~GiveUp
        <3>1. /\ handle \in Handles /\ handle' = handle /\ pc = "map" /\ pc' = "array"
              /\ resource' = [resource EXCEPT ![handle].mapped = TRUE] /\ UNCHANGED CallsFail
            BY <1>7, <2>1 DEF MapResources, Goto, Registered, handle
        <3>2. resource'[handle].mapped = TRUE
              /\ \A h \in Handles \ {handle} : resource'[h] = resource[h]
            BY <1>2, <3>1
        <3> QED BY <1>1, <3>1, <3>2 DEF OneMapped, MappedSteps
    <2> QED BY <1>4, <1>7, <2>1 DEF MapResources, MappedSteps
<1>8. CASE GetMappedArray
    <2>1. CASE ~GiveUp
        BY <1>1, <1>8, <2>1 DEF GetMappedArray, Goto, OneMapped, MappedSteps, cuda, handle
    <2>2. CASE GiveUp
        <3>1. ~CallsFail => handle \in MappedNow
            BY <1>1, <1>8 DEF GetMappedArray, OneMapped, MappedSteps, MappedNow
        <3>2. CallsFail \/ pc' = "copy"
            BY <1>8, <3>1 DEF GetMappedArray, CallFails, Goto
        <3>3. pc' = "idle"
            BY <2>2 DEF GiveUp, Return, Goto
        <3> QED BY <1>5, <2>2, <3>2, <3>3
    <2> QED BY <2>1, <2>2
<1>9. CASE CopyToArray
    <2>1. CASE ~GiveUp
        BY <1>1, <1>9, <2>1 DEF CopyToArray, Goto, OneMapped, MappedSteps, cuda, handle
    <2>2. CASE GiveUp
        <3>1. CallsFail \/ pc' = "unmap"
            BY <1>9 DEF CopyToArray, Goto
        <3>2. pc' = "idle"
            BY <2>2 DEF GiveUp, Return, Goto
        <3> QED BY <1>5, <2>2, <3>1, <3>2
    <2> QED BY <2>1, <2>2
<1>10. CASE UnmapResources
    <2>1. CASE ~GiveUp
        <3>1. /\ handle \in Handles /\ handle' = handle /\ pc = "unmap"
              /\ pc' \in {"unregister", "draw", "idle"}
              /\ resource' = [resource EXCEPT ![handle].mapped = FALSE] /\ UNCHANGED CallsFail
            BY <1>10, <2>1 DEF UnmapResources, Unmapped, Return, Goto, MappedNow, handle
        <3>2. resource'[handle].mapped = FALSE
              /\ \A h \in Handles \ {handle} : resource'[h] = resource[h]
            BY <1>2, <3>1
        <3> QED BY <1>1, <3>1, <3>2 DEF OneMapped, MappedSteps
    <2>2. CASE GiveUp
        <3>1. ~CallsFail => handle \in MappedNow
            BY <1>1, <1>10 DEF UnmapResources, OneMapped, MappedSteps, MappedNow
        <3>2. CASE CallsFail
            BY <1>5, <2>2, <3>2
        <3>3. CASE ~CallsFail
            <4>1. /\ handle \in Handles /\ handle' = handle /\ pc = "unmap"
                  /\ pc' \in {"unregister", "draw", "idle"}
                  /\ resource' = [resource EXCEPT ![handle].mapped = FALSE]
                  /\ UNCHANGED CallsFail
                BY <1>10, <3>1, <3>3
                   DEF UnmapResources, Unmapped, CallFails, Return, Goto, MappedNow, handle
            <4>2. resource'[handle].mapped = FALSE
                  /\ \A h \in Handles \ {handle} : resource'[h] = resource[h]
                BY <1>2, <4>1
            <4> QED BY <1>1, <4>1, <4>2 DEF OneMapped, MappedSteps
        <3> QED BY <3>2, <3>3
    <2> QED BY <2>1, <2>2
<1>11. CASE UnregisterResource
    <2>1. pc \notin MappedSteps /\ pc' \notin MappedSteps /\ UNCHANGED CallsFail
        BY <1>11 DEF UnregisterResource, Goto, MappedSteps
    <2>2. \A h \in Handles : resource'[h] = resource[h] \/ ~resource'[h].mapped
        BY <1>2, <1>11 DEF UnregisterResource, NotRegistered
    <2> QED BY <1>3, <2>1, <2>2
<1>12. CASE AllocBuffers \/ FinishOpen \/ MWDeInitRender \/ MWDestoryVideoRender \/ Destructor
    <2>1. pc \notin MappedSteps /\ pc' \notin MappedSteps
        BY <1>12 DEF AllocBuffers, FinishOpen, MWDeInitRender, MWDestoryVideoRender,
                     Destructor, Close, Goto, Return, MappedSteps
    <2>2. CASE CleanUp
        <3>1. UNCHANGED CallsFail
              /\ \A h \in Handles : resource'[h] = resource[h] \/ ~resource'[h].mapped
            BY <2>2, CleanUpResource DEF RInv
        <3> QED BY <1>3, <2>1, <3>1
    <2>3. CASE UNCHANGED cuda
        BY <1>3, <2>1, <2>3 DEF cuda
    <2> QED BY <1>12, <2>2, <2>3 DEF AllocBuffers, FinishOpen, MWDeInitRender,
                                     MWDestoryVideoRender, Destructor, Close
<1>13. CASE MWVideoDeviceInfo \/ MWInitRender \/ MWRenderFrame \/ UploadFrame \/ DrawArrays
    <2>1. UNCHANGED <<CallsFail, resource>>
        BY <1>13 DEF MWVideoDeviceInfo, MWInitRender, MWRenderFrame, UploadFrame,
                     DrawArrays, cuda
    <2>2. pc \notin MappedSteps /\ pc' \notin MappedSteps
        BY <1>13 DEF MWVideoDeviceInfo, MWInitRender, OpenRefused, OpenMapped, OpenUnmapped,
                     MWRenderFrame, UploadFrame, DrawArrays, Goto, Return, MappedSteps
    <2> QED BY <1>3, <2>1, <2>2
<1> QED BY <1>6, <1>7, <1>8, <1>9, <1>10, <1>11, <1>12, <1>13 DEF Next

LEMMA RegisteredIsFinite ==
    /\ IsFiniteSet(Registered) /\ Cardinality(Registered) \in Nat
    /\ IsFiniteSet(Registered') /\ Cardinality(Registered') \in Nat
    /\ IsFiniteSet(Registered \ {handle}) /\ Cardinality(Registered \ {handle}) \in Nat
    /\ Cardinality(Registered \ {handle}) <= Cardinality(Registered)
<1>1. IsFiniteSet(Handles)
    BY UploadAssumption, FS_Interval DEF Handles
<1>2. IsFiniteSet(Registered) /\ IsFiniteSet(Registered')
    BY <1>1, FS_Subset DEF Registered
<1>3. IsFiniteSet(Registered \ {handle})
      /\ Cardinality(Registered \ {handle}) <= Cardinality(Registered)
    BY <1>2, FS_Subset
<1> QED BY <1>2, <1>3, FS_CardinalityType

\* When nothing is registered the count falls, if at all; when the resource of
\* the handle goes, it falls to that of the others.
LEMMA FewerRegistered ==
    ASSUME Registered' \subseteq Registered
    PROVE  /\ Cardinality(Registered') <= Cardinality(Registered)
           /\ handle \notin Registered' =>
                 Cardinality(Registered') <= Cardinality(Registered \ {handle})
<1>1. Cardinality(Registered') <= Cardinality(Registered)
    BY RegisteredIsFinite, FS_Subset
<1>2. ASSUME handle \notin Registered'
      PROVE  Cardinality(Registered') <= Cardinality(Registered \ {handle})
    <2>1. Registered' \in SUBSET (Registered \ {handle})
        BY <1>2
    <2> QED BY <2>1, RegisteredIsFinite, FS_Subset
<1> QED BY <1>1, <1>2

\* CleanUp releases the resource of a session of one size while calls work.
LEMMA CleanUpRegistered ==
    ASSUME TypeOK, CleanUp
    PROVE  /\ Registered' \subseteq Registered
           /\ ~CallsFail /\ ~b_resize /\ b_alloc_buf /\ gl_map_mode = {NVIDIA} =>
                 handle \notin Registered'
<1>1. Registered' \subseteq Registered
    BY CleanUpResource DEF Registered
<1>2. ASSUME ~CallsFail, ~b_resize, b_alloc_buf, gl_map_mode = {NVIDIA},
             handle \in Registered'
      PROVE  FALSE
    <2>1. handle \in Registered /\ handle \in Handles
        BY <1>1, <1>2 DEF Registered
    <2>2. resource' = [resource EXCEPT ![handle] = NotRegistered]
        BY <1>2, <2>1 DEF CleanUp, CallFails, ReleasedResource
    <2>3. resource'[handle].tex = NoTexture
        BY <2>1, <2>2 DEF TypeOK, NotRegistered
    <2> QED BY <1>2, <2>3 DEF Registered
<1> QED BY <1>1, <1>2

\* A registration is counted by its probe, or is the one in use.
LEMMA OnePerProbeStep == ASSUME Inv, RInv, Next, ~CallsFail PROVE OnePerProbe'
<1> DEFINE Kept == handle \in Registered /\ Cardinality(Registered \ {handle}) <= probes
<1>1. /\ Positions /\ Sessions /\ OneMapped /\ TypeOK
      /\ Settled \/ (InUse /\ Kept)
      /\ probes \in Nat /\ resource \in [Handles -> [tex : 0 .. textures, mapped : BOOLEAN]]
    BY DEF RInv, Inv, OnePerProbe, TypeOK
<1>2. Settled => Cardinality(Registered) <= probes
    BY <1>1, RegisteredIsFinite DEF Settled
<1>3. ASSUME pc' # "register" \/ caller' \in {"draw", "open"}, UNCHANGED probes,
             Cardinality(Registered') <= probes
      PROVE  OnePerProbe'
    <2>1. Cardinality(Registered') + 0 <= probes'
        BY <1>1, <1>3, RegisteredIsFinite
    <2> QED BY <1>3, <2>1 DEF Settled, OnePerProbe
<1>4. ASSUME Settled, Registered' \subseteq Registered, UNCHANGED probes,
             pc' # "register" \/ caller' \in {"draw", "open"}
      PROVE  OnePerProbe'
    <2>1. Cardinality(Registered') <= probes
        BY <1>1, <1>2, <1>4, RegisteredIsFinite, FewerRegistered
    <2> QED BY <1>3, <1>4, <2>1
<1>5. ASSUME Kept, InUse', Registered' = Registered, handle' = handle, UNCHANGED probes
      PROVE  OnePerProbe'
    BY <1>5 DEF OnePerProbe
<1>6. ASSUME UNCHANGED resource PROVE Registered' = Registered
    BY <1>6 DEF Registered
<1>7. ASSUME NEW b \in BOOLEAN, handle \in Handles,
             resource' = [resource EXCEPT ![handle].mapped = b]
      PROVE  Registered' = Registered
    <2>1. \A k \in Handles : resource'[k].tex = resource[k].tex
        BY <1>1, <1>7
    <2> QED BY <2>1 DEF Registered
<1>8. CASE RegisterImage
    <2>1. pc = "register" /\ Settled
        BY <1>1, <1>8 DEF RegisterImage, InUse, MappedSteps
    <2>2. CASE GiveUp
        <3>1. pc' = "idle" /\ UNCHANGED <<probes, resource>>
            BY <2>2 DEF GiveUp, Return, Goto, cuda, counters
        <3> QED BY <1>4, <1>6, <2>1, <3>1
    <2>3. CASE ~GiveUp
        <3>1. PICK h \in Handles \ Registered :
                  /\ cuda_tex_result_resource' = h
                  /\ resource' = [resource EXCEPT ![h] = [tex |-> glu32_tex, mapped |-> FALSE]]
                  /\ Goto(IF caller = "open" THEN "alloc" ELSE "map")
                  /\ UNCHANGED <<session, glu32_tex, CallsFail, texture0, shown, result,
                                 counters, caller>>
            BY <1>8, <2>3 DEF RegisterImage
        <3>2. UNCHANGED <<b_opened, b_alloc_buf, b_resize, mapped, gl_map_mode, fresh,
                          probes, caller>>
            BY <3>1 DEF session, counters
        <3>3. pc' = (IF caller = "open" THEN "alloc" ELSE "map")
            BY <3>1 DEF Goto
        <3>4. Registered' \subseteq Registered \cup {h} /\ Registered' \ {h} = Registered
            BY <1>1, <3>1 DEF Registered
        <3>5. CASE caller \in {"draw", "open"}
            <4>1. Cardinality(Registered' \ {h}) <= probes
                BY <1>2, <2>1, <3>4
            <4>2. InUse'
                BY <1>1, <2>1, <3>2, <3>3, <3>5
                   DEF InUse, Positions, Sessions, CudaSteps, DrawSteps
            <4>3. CASE h \in Registered'
                BY <3>1, <3>2, <4>1, <4>2, <4>3 DEF OnePerProbe, handle
            <4>4. CASE h \notin Registered'
                <5>1. Registered' \subseteq Registered
                    BY <3>4, <4>4
                <5> QED BY <1>4, <2>1, <3>2, <3>5, <5>1
            <4> QED BY <4>3, <4>4
        <3>6. CASE caller \notin {"draw", "open"}
            <4>1. Cardinality(Registered) + 1 <= probes
                BY <2>1, <3>6 DEF Settled
            <4>2. IsFiniteSet(Registered \cup {h})
                  /\ Cardinality(Registered \cup {h}) = Cardinality(Registered) + 1
                BY RegisteredIsFinite, FS_AddElement
            <4>3. Cardinality(Registered') <= Cardinality(Registered \cup {h})
                BY <3>4, <4>2, FS_Subset
            <4>4. Cardinality(Registered') <= probes
                BY <1>1, <4>1, <4>2, <4>3, RegisteredIsFinite
            <4> QED BY <1>3, <3>2, <3>3, <3>6, <4>4
        <3> QED BY <3>5, <3>6
    <2> QED BY <2>2, <2>3
<1>9. CASE MapResources \/ GetMappedArray \/ CopyToArray
    <2>1. pc \in {"map", "array", "copy"} /\ UNCHANGED <<session, counters, caller, handle>>
        BY <1>9 DEF MapResources, GetMappedArray, CopyToArray, GiveUp, cuda, handle
    <2>2. pc \in {"array", "copy"} => handle \in MappedNow
        BY <1>1 DEF OneMapped, MappedSteps, MappedNow
    <2>3. \/ pc' \in MappedSteps
          \/ pc' = "idle" /\ pc = "map" /\ handle \notin Registered \ MappedNow
        BY <1>9, <2>2 DEF MapResources, GetMappedArray, CopyToArray, GiveUp, CallFails,
                          Return, Goto, MappedSteps
    <2>4. Registered' = Registered
        <3>1. CASE UNCHANGED resource
            BY <1>6, <3>1
        <3>2. CASE resource' = [resource EXCEPT ![handle].mapped = TRUE] /\ handle \in Handles
            BY <1>7, <3>2
        <3> QED BY <1>9, <3>1, <3>2
                DEF MapResources, GetMappedArray, CopyToArray, GiveUp, cuda, Registered
    <2>5. pc' # "register" /\ UNCHANGED probes
        BY <2>1, <2>3 DEF counters, MappedSteps
    <2>6. CASE Settled
        BY <1>4, <2>4, <2>5, <2>6
    <2>7. CASE InUse /\ Kept
        <3>1. pc = "map" => MappedNow = {}
            BY <1>1 DEF OneMapped, MappedSteps, MappedNow
        <3>2. pc' \in MappedSteps
            BY <2>3, <2>7, <3>1
        <3>3. InUse'
            BY <2>1, <2>7, <3>2 DEF InUse, MappedSteps, session
        <3> QED BY <1>5, <2>1, <2>4, <2>5, <2>7, <3>3
    <2> QED BY <1>1, <2>6, <2>7
<1>10. CASE UnmapResources
    <2>1. pc = "unmap" /\ handle \in MappedNow /\ handle \in Handles
        BY <1>1, <1>10 DEF UnmapResources, OneMapped, MappedSteps, MappedNow
    <2>2. /\ resource' = [resource EXCEPT ![handle].mapped = FALSE]
          /\ UNCHANGED <<b_opened, b_alloc_buf, b_resize, mapped, fresh, handle, probes,
                         caller>>
          /\ pc' = (IF caller # "draw" THEN "idle"
                    ELSE IF b_resize THEN "unregister" ELSE "draw")
          /\ caller = "draw" => UNCHANGED gl_map_mode
        BY <1>10, <2>1 DEF UnmapResources, Unmapped, CallFails, Return, Goto, counters, handle
    <2>3. Registered' = Registered /\ pc' # "register"
        BY <1>7, <2>1, <2>2
    <2>4. CASE Settled
        BY <1>4, <2>2, <2>3, <2>4
    <2>5. CASE InUse /\ Kept
        <3>1. caller = "draw"
            BY <1>1, <2>1, <2>5 DEF InUse, Sessions, Positions, CudaSteps
        <3>2. InUse'
            BY <2>1, <2>2, <2>5, <3>1 DEF InUse, MappedSteps
        <3> QED BY <1>5, <2>2, <2>3, <2>5, <3>2
    <2> QED BY <1>1, <2>4, <2>5
<1>11. CASE UnregisterResource
    <2>1. /\ pc = "unregister" /\ pc' = "draw" /\ UNCHANGED probes
          /\ resource' = [resource EXCEPT ![handle] = NotRegistered]
        BY <1>11 DEF UnregisterResource, Goto, counters
    <2>2. Registered' \subseteq Registered /\ handle \notin Registered'
        BY <1>1, <2>1 DEF Registered, NotRegistered
    <2>3. CASE Settled
        BY <1>4, <2>1, <2>2, <2>3
    <2>4. CASE Kept
        <3>1. Cardinality(Registered') <= probes
            BY <1>1, <2>2, <2>4, FewerRegistered, RegisteredIsFinite
        <3> QED BY <1>3, <2>1, <3>1
    <2> QED BY <1>1, <2>3, <2>4
<1>12. CASE MWVideoDeviceInfo
    <2>1. pc = "idle" /\ fresh /\ probes' = probes + 1 /\ Registered' = Registered
        BY <1>6, <1>12 DEF MWVideoDeviceInfo
    <2>2. Settled
        BY <1>1, <2>1 DEF InUse, MappedSteps
    <2>3. Cardinality(Registered') + 1 <= probes' /\ Cardinality(Registered') + 0 <= probes'
        BY <1>1, <1>2, <2>1, <2>2, RegisteredIsFinite
    <2> QED BY <2>3 DEF OnePerProbe, Settled
<1>13. CASE MWInitRender
    <2>1. pc = "idle" /\ fresh /\ caller' = "open" /\ UNCHANGED <<probes, resource>>
        BY <1>13 DEF MWInitRender, cuda
    <2>2. Settled
        BY <1>1, <2>1 DEF InUse, MappedSteps
    <2> QED BY <1>4, <1>6, <2>1, <2>2
<1>14. CASE AllocBuffers \/ FinishOpen \/ MWDeInitRender \/ MWDestoryVideoRender \/ Destructor
    <2>1. /\ pc \in {"alloc", "finish", "idle", "delete"}
          /\ pc' \in {"finish", "idle", "delete", "gone"} /\ UNCHANGED probes
        BY <1>14 DEF AllocBuffers, FinishOpen, MWDeInitRender, MWDestoryVideoRender,
                     Destructor, Close, Goto, Return, counters
    <2>2. CASE CleanUp /\ pc # "alloc"
        <3>1. Registered' \subseteq Registered
            BY <1>1, <2>2, CleanUpRegistered
        <3>2. CASE Settled
            BY <1>4, <2>1, <3>1, <3>2
        <3>3. CASE InUse /\ Kept
            <4>1. ~b_resize /\ b_alloc_buf /\ gl_map_mode = {NVIDIA}
                BY <2>1, <2>2, <3>3 DEF InUse, MappedSteps
            <4>2. Cardinality(Registered') <= probes
                BY <1>1, <2>2, <3>1, <3>3, <4>1, CleanUpRegistered, FewerRegistered,
                   RegisteredIsFinite
            <4> QED BY <1>3, <2>1, <4>2
        <3> QED BY <1>1, <3>2, <3>3
    <2>3. CASE /\ pc \in {"alloc", "finish"} /\ UNCHANGED cuda
               /\ UNCHANGED <<b_resize, gl_map_mode, fresh, caller>>
               /\ b_alloc_buf' = TRUE \/ (pc = "finish" /\ UNCHANGED b_alloc_buf)
        <3>1. Registered' = Registered /\ handle' = handle
            BY <1>6, <2>3 DEF cuda, handle
        <3>2. CASE Settled
            BY <1>4, <2>1, <3>1, <3>2
        <3>3. CASE InUse /\ Kept
            <4>1. InUse'
                BY <2>1, <2>3, <3>3 DEF InUse, MappedSteps
            <4> QED BY <1>5, <2>1, <3>1, <3>3, <4>1
        <3> QED BY <1>1, <3>2, <3>3
    <2>4. CASE AllocBuffers
        BY <2>3, <2>4 DEF AllocBuffers
    <2> QED BY <1>14, <2>2, <2>3, <2>4
            DEF FinishOpen, MWDeInitRender, MWDestoryVideoRender, Destructor, Close
<1>15. CASE MWRenderFrame \/ UploadFrame \/ DrawArrays
    <2>1. /\ pc \in {"idle", "upload", "draw"} /\ UNCHANGED <<session, cuda, probes>>
          /\ pc' \in {"idle", "upload", "draw", "register", "map"}
          /\ pc' = "register" => caller' = "draw" /\ b_resize
        BY <1>1, <1>15 DEF MWRenderFrame, UploadFrame, DrawArrays, Goto, Return, counters,
                           Positions, DrawSteps
    <2>2. Registered' = Registered /\ handle' = handle
        BY <1>6, <2>1 DEF cuda, handle
    <2>3. CASE Settled
        BY <1>4, <2>1, <2>2, <2>3
    <2>4. CASE InUse /\ Kept
        <3>1. InUse'
            BY <2>1, <2>4 DEF InUse, MappedSteps, session
        <3> QED BY <1>5, <2>1, <2>2, <2>4, <3>1
    <2> QED BY <1>1, <2>3, <2>4
<1> QED BY <1>8, <1>9, <1>10, <1>11, <1>12, <1>13, <1>14, <1>15 DEF Next

LEMMA InitRInv == Init => RInv
<1> SUFFICES ASSUME Init PROVE RInv
    OBVIOUS
<1>1. TypeOK /\ Counted
    <2>1. /\ 0 \in 0 .. MaxInits + MaxProbes /\ 0 \in 0 .. 0 /\ 0 \in 0 .. MaxResources
          /\ 0 \in 0 .. MaxProbes /\ 0 \in 0 .. MaxInits /\ 0 \in 0 .. MaxDraws /\ 0 <= 0 + 0
        BY UploadAssumption
    <2>2. NotRegistered \in [tex : 0 .. 0, mapped : BOOLEAN]
        BY DEF NotRegistered, NoTexture
    <2> QED BY <2>1, <2>2 DEF Init, TypeOK, Counted, NoTexture, NoFrame
<1>2. Sessions /\ OneMapped
    BY DEF Init, Sessions, OneMapped, CudaSteps, MappedSteps, NotRegistered
<1>3. OnePerProbe
    <2>1. Registered = {}
        BY DEF Init, Registered, NotRegistered
    <2>2. Cardinality(Registered) + 0 <= probes
        BY <2>1, FS_EmptySet DEF Init
    <2> QED BY <2>2 DEF Init, OnePerProbe, Settled
<1> QED BY <1>1, <1>2, <1>3 DEF RInv

LEMMA NextRInv == Inv /\ RInv /\ [Next]_vars => RInv'
<1> SUFFICES ASSUME Inv, RInv, [Next]_vars PROVE RInv'
    OBVIOUS
<1>1. CASE Next
    <2>1. CASE ~CallsFail
        BY <1>1, <2>1, TypeStep, SessionsStep, OneMappedStep, OnePerProbeStep DEF RInv
    <2>2. CASE CallsFail
        <3>1. CallsFail'
            BY <1>1, <2>2
               DEF Next, MWVideoDeviceInfo, MWInitRender, AllocBuffers, FinishOpen,
                   MWRenderFrame, UploadFrame, RegisterImage, MapResources, GetMappedArray,
                   CopyToArray, UnmapResources, UnregisterResource, DrawArrays,
                   MWDeInitRender, MWDestoryVideoRender, Destructor, Close, CleanUp,
                   GiveUp, cuda
        <3> QED BY <1>1, <3>1, TypeStep, SessionsStep, OneMappedStep DEF RInv, OnePerProbe
    <2> QED BY <2>1, <2>2
<1>2. CASE UNCHANGED vars
    <2>1. TypeOK' /\ Counted' /\ Sessions' /\ OneMapped'
        BY <1>2 DEF RInv, TypeOK, Counted, Sessions, OneMapped, vars, session, cuda,
                    counters, handle
    <2>2. Registered' = Registered /\ handle' = handle
        BY <1>2 DEF vars, cuda, Registered, handle
    <2>3. OnePerProbe'
        BY <1>2, <2>2 DEF RInv, OnePerProbe, Settled, InUse, vars, session, cuda, counters
    <2> QED BY <2>1, <2>3 DEF RInv
<1> QED BY <1>1, <1>2

LEMMA ResourceInvariant == Spec => [](Inv /\ RInv)
BY InitInv, InvStep, InitRInv, NextRInv, PTL DEF Spec

\* Every handle, texture and frame stays in the range of what was made, and no
\* more textures are made than opens and probes.
THEOREM TypeCorrect == Spec => []TypeOK
<1>1. RInv => TypeOK
    BY DEF RInv
<1> QED BY <1>1, ResourceInvariant, PTL

\* A session of one size keeps one registration, of the texture it draws from,
\* and while calls work no other outlives its call, but one of each probe: the
\* draws of a resized session release what they register, and CleanUp that of a
\* session, however many there were before.
THEOREM OneRegistrationEach == Spec => []OneRegistration
<1>1. Inv /\ RInv => OneRegistration
    <2> SUFFICES ASSUME Inv, RInv, pc = "idle" PROVE
            /\ Fixed => handle \in Registered /\ resource[handle].tex = glu32_tex
            /\ ~CallsFail =>
                  Cardinality(Registered) <= probes + (IF fresh \/ b_resize THEN 0 ELSE 1)
        BY DEF OneRegistration
    <2>1. Fixed => handle \in Registered /\ resource[handle].tex = glu32_tex
        BY DEF Fixed, Inv, Registration, RInv, Sessions, Registered
    <2>2. ASSUME ~CallsFail
          PROVE  Cardinality(Registered) <= probes + (IF fresh \/ b_resize THEN 0 ELSE 1)
        <3>1. probes \in Nat
            BY DEF RInv, TypeOK
        <3>2. CASE Settled
            <4>1. Cardinality(Registered) <= probes
                BY <3>1, <3>2, RegisteredIsFinite DEF Settled
            <4> QED BY <3>1, <4>1, RegisteredIsFinite
        <3>3. CASE InUse /\ handle \in Registered /\ Cardinality(Registered \ {handle}) <= probes
            <4>1. ~b_resize /\ ~fresh
                BY <3>3 DEF InUse, MappedSteps
            <4>2. Cardinality(Registered \ {handle}) = Cardinality(Registered) - 1
                BY <3>3, RegisteredIsFinite, FS_RemoveElement
            <4>3. Cardinality(Registered) <= probes + 1
                BY <3>1, <3>3, <4>2, RegisteredIsFinite
            <4> QED BY <4>1, <4>3
        <3> QED BY <2>2, <3>2, <3>3 DEF RInv, OnePerProbe
    <2> QED BY <2>1, <2>2
<1> QED BY <1>1, ResourceInvariant, PTL

\* While calls work, what an open renderer draws from is mapped by CUDA only
\* while a frame is copied to it: GL never resizes, samples or deletes a texture
\* that CUDA has (render's unmap before glDrawArrays).
THEOREM MappedInUploadOnly == Spec => []MappedOnlyInUpload
<1>1. RInv => MappedOnlyInUpload
    BY DEF RInv, OneMapped, MappedOnlyInUpload, MappedNow, MappedSteps
<1> QED BY <1>1, ResourceInvariant, PTL
=============================================================================
