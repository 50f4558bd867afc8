------------------------------- MODULE Upload -------------------------------
(***************************************************************************)
(* How a frame gets from the application's memory to the texture a draw    *)
(* samples: render's upload in each mapping mode, and the CUDA resource the *)
(* NVIDIA mode uploads through, from the probe of deviceinfo to CleanUp.    *)
(*                                                                          *)
(* The texture is the one at unit 0, glu32_tex; in the INTEL mode it is the *)
(* mapped texture itself.  The chroma planes of units 1 and 2 always come   *)
(* from the caller's memory and are not modelled.  A mapped session has the *)
(* application write its frame to mapped memory and pass its GL name        *)
(* (glvar); in the NVIDIA mode and without mapping it passes a pointer.     *)
(*                                                                          *)
(* Only what open, CleanUp and deviceinfo do to this state is here; their   *)
(* other objects and failures are GLRender's.                               *)
(***************************************************************************)
EXTENDS Naturals, FiniteSets

CONSTANTS
    Modes,         \* the mapping modes the device supports
    MaxInits,      \* BOUND: calls of MWInitRender
    MaxProbes,     \* BOUND: calls of MWVideoDeviceInfo
    MaxDraws,      \* BOUND: calls of MWRenderFrame
    MaxResources   \* BOUND: CUDA resources registered at once

NVIDIA == "NVIDIA_MAP_TEXT"
INTEL  == "INTEL_MAP_TEXT"
Maps   == {NVIDIA, INTEL, "AMD_MAP_BUF", "GL_MAP_BUF"}

ASSUME UploadAssumption ==
    /\ Modes \subseteq Maps
    /\ MaxInits \in Nat /\ MaxProbes \in Nat /\ MaxDraws \in Nat
    /\ MaxResources \in Nat \ {0}

Handles == 1 .. MaxResources
NoTexture == 0
NoFrame == 0
NotRegistered == [tex |-> NoTexture, mapped |-> FALSE]

VARIABLES
    pc, caller,      \* the next step, and the call it is a step of
    gl_map_mode,     \* the set of flags
    b_opened, b_alloc_buf, b_resize,
    mapped,          \* u8_buf_num # 0
    glu32_tex,
    cuda_tex_result_resource,   \* a handle; 0 stands for no value yet
    resource,        \* the CUDA runtime: of each handle, the texture, if any
    CallsFail,       \* the device: may a call fail whose arguments are right?
    texture0,        \* GL: the frame in the texture at unit 0
    shown, result,   \* the frame on the screen; what the last call returned
    fresh,           \* the application: nothing opened since the last close
    textures, probes, inits, draws   \* counters; draws is also the frame drawn

session  == <<b_opened, b_alloc_buf, b_resize, mapped, gl_map_mode, fresh>>
cuda     == <<cuda_tex_result_resource, resource, CallsFail>>
counters == <<textures, probes, inits, draws>>
vars == <<pc, caller, session, glu32_tex, cuda, texture0, shown, result, counters>>

Registered == {h \in Handles : resource[h].tex # NoTexture}
MappedNow  == {h \in Handles : resource[h].mapped}

Goto(label) == pc' = label
Return(r) == Goto("idle") /\ result' = r

\* Mutant of GenTexture: a second texture is made, which nothing names.
GenTextureTwo ==
    /\ textures' = textures + 2
    /\ glu32_tex' = textures + 1
    /\ texture0' = NoFrame

\* glGenTextures into glu32_tex; a new texture has no frame in it.
GenTexture ==
    /\ textures' = textures + 1
    /\ glu32_tex' = textures + 1
    /\ texture0' = NoFrame

(***************************************************************************)
(* The CUDA calls, each with what the program does next.  A call fails on   *)
(* a handle that is not registered, or is mapped when it must not be, or    *)
(* not mapped when it must be; and under CallsFail at any time.  The draw    *)
(* and the probe return at the first failing call; what they have           *)
(* registered or mapped stays.                                              *)
(***************************************************************************)
handle == cuda_tex_result_resource
CallFails(ok) == ~ok \/ CallsFail

\* deviceinfo reports what failed in the record it fills, not in its result.
GiveUp ==
    /\ Return(IF caller = "probe" THEN "NO_ERROR" ELSE "MAPBUFFER_ERROR")
    /\ UNCHANGED <<session, glu32_tex, cuda, texture0, shown, counters, caller>>

\* A handle is a pointer: the runtime gives out one that is not in use.
RegisterImage ==
    /\ pc = "register"
    /\ \/ \E h \in Handles \ Registered :
             /\ \A k \in Handles \ Registered : h <= k
             /\ cuda_tex_result_resource' = h
             /\ resource' = [resource EXCEPT ![h] = [tex |-> glu32_tex, mapped |-> FALSE]]
             /\ Goto(IF caller = "open" THEN "alloc" ELSE "map")
             /\ UNCHANGED <<session, glu32_tex, CallsFail, texture0, shown, result, counters,
                            caller>>
       \/ CallFails(Handles # Registered) /\ GiveUp

MapResources ==
    /\ pc = "map"
    /\ \/ /\ handle \in Registered \ MappedNow
          /\ resource' = [resource EXCEPT ![handle].mapped = TRUE]
          /\ Goto("array")
          /\ UNCHANGED <<session, glu32_tex, cuda_tex_result_resource, CallsFail, texture0,
                         shown, result, counters, caller>>
       \/ CallFails(handle \in Registered \ MappedNow) /\ GiveUp

GetMappedArray ==
    /\ pc = "array"
    /\ \/ /\ handle \in MappedNow
          /\ Goto("copy")
          /\ UNCHANGED <<session, glu32_tex, cuda, texture0, shown, result, counters, caller>>
       \/ CallFails(handle \in MappedNow) /\ GiveUp

\* Mutant of CopyToArray: the result of the copy is not looked at.
CopyToArrayUnchecked ==
    /\ pc = "copy"
    /\ Goto("unmap")
    /\ \/ /\ texture0' = IF resource[handle].tex = glu32_tex THEN draws ELSE texture0
       \/ CallsFail /\ UNCHANGED texture0
    /\ UNCHANGED <<session, glu32_tex, cuda, shown, result, counters, caller>>

CopyToArray ==
    /\ pc = "copy"
    /\ \/ /\ Goto("unmap")
          /\ texture0' = IF resource[handle].tex = glu32_tex THEN draws ELSE texture0
          /\ UNCHANGED <<session, glu32_tex, cuda, shown, result, counters, caller>>
       \/ CallsFail /\ GiveUp

\* Mutant of Unmapped: the resource stays mapped.
UnmappedNot(h) == resource

Unmapped(h) == [resource EXCEPT ![h].mapped = FALSE]

\* The probe ends here: NVIDIA mapping works, its texture goes, its registration
\* stays.
UnmapResources ==
    /\ pc = "unmap"
    /\ \/ /\ handle \in MappedNow
          /\ resource' = Unmapped(handle)
          /\ IF caller = "draw"
             THEN /\ Goto(IF b_resize THEN "unregister" ELSE "draw")
                  /\ UNCHANGED <<gl_map_mode, glu32_tex, texture0, result>>
             ELSE /\ gl_map_mode' = gl_map_mode \cup {NVIDIA}
                  /\ glu32_tex' = NoTexture /\ texture0' = NoFrame
                  /\ Return("NO_ERROR")
          /\ UNCHANGED <<b_opened, b_alloc_buf, b_resize, mapped, fresh,
                         cuda_tex_result_resource, CallsFail, shown, counters, caller>>
       \/ CallFails(handle \in MappedNow) /\ GiveUp

\* Mutant of UnregisterResource: a draw leaves its registration to the next one.
UnregisterNothing ==
    /\ pc = "unregister"
    /\ Goto("draw")
    /\ UNCHANGED <<session, glu32_tex, cuda, texture0, shown, result, counters, caller>>

\* The result of unregistering is ignored.
UnregisterResource ==
    /\ pc = "unregister"
    /\ Goto("draw")
    /\ \/ resource' = [resource EXCEPT ![handle] = NotRegistered]
       \/ CallsFail /\ UNCHANGED resource
    /\ UNCHANGED <<session, glu32_tex, cuda_tex_result_resource, CallsFail, texture0, shown,
                   result, counters, caller>>

(***************************************************************************)
(* deviceinfo and open.                                                     *)
(***************************************************************************)
\* The probes of the other modes leave nothing behind.  That of NVIDIA stops if
\* it finds no device, or gets no pinned memory for the frame it copies.
MWVideoDeviceInfo ==
    /\ pc = "idle" /\ fresh /\ probes < MaxProbes
    /\ probes' = probes + 1
    /\ gl_map_mode' = Modes \ {NVIDIA}
    /\ caller' = "probe"
    /\ \/ /\ NVIDIA \in Modes
          /\ GenTexture
          /\ Goto("register")
          /\ UNCHANGED result
       \/ /\ NVIDIA \in Modes /\ CallsFail
          /\ GenTexture
          /\ Return("NO_ERROR")
       \/ /\ NVIDIA \notin Modes \/ CallsFail
          /\ Return("NO_ERROR")
          /\ UNCHANGED <<glu32_tex, texture0, textures>>
    /\ UNCHANGED <<b_opened, b_alloc_buf, b_resize, mapped, fresh, cuda_tex_result_resource,
                   resource, CallsFail, shown, inits, draws>>

\* Unmapped, and unregistered unless each draw did that.
ReleasedResource(r) ==
    IF b_resize THEN [r EXCEPT !.mapped = FALSE] ELSE NotRegistered

\* CleanUp: the texture goes before the resource of a mapped session is
\* released.  The handle and b_alloc_buf keep their values.
CleanUp ==
    /\ glu32_tex' = NoTexture /\ texture0' = NoFrame
    /\ IF b_alloc_buf /\ gl_map_mode = {NVIDIA}
       THEN \/ /\ handle \in Registered
               /\ resource' = [resource EXCEPT ![handle] = ReleasedResource(@)]
            \/ CallFails(handle \in Registered) /\ UNCHANGED resource
       ELSE UNCHANGED resource
    /\ UNCHANGED <<cuda_tex_result_resource, CallsFail>>

\* open up to its texture.  Asked for mapped buffers it narrows gl_map_mode, and
\* refuses the session if no mode is left, among other checks.  Without mapped
\* buffers gl_map_mode stays as it is.  A texture a failed probe left in
\* glu32_tex is lost.  The application closes before it opens or probes again.
OpenRefused ==
    /\ gl_map_mode' \in {gl_map_mode} \cup {gl_map_mode \cap {m} : m \in Maps}
    /\ mapped' \in BOOLEAN
    /\ Return("SIZE_ERROR")
    /\ UNCHANGED <<glu32_tex, texture0, textures>>

OpenMapped(m) ==
    /\ m \in gl_map_mode /\ (m = INTEL => ~b_resize')
    /\ mapped' = TRUE /\ gl_map_mode' = {m}
    /\ IF m = INTEL THEN UNCHANGED <<glu32_tex, texture0, textures>> ELSE GenTexture
    /\ Goto(IF m = NVIDIA /\ ~b_resize' THEN "register" ELSE "alloc")
    /\ UNCHANGED result

OpenUnmapped ==
    /\ mapped' = FALSE /\ UNCHANGED gl_map_mode
    /\ GenTexture
    /\ Goto("finish")
    /\ UNCHANGED result

MWInitRender ==
    /\ pc = "idle" /\ fresh /\ inits < MaxInits
    /\ inits' = inits + 1 /\ fresh' = FALSE
    /\ caller' = "open"
    /\ b_resize' \in BOOLEAN
    /\ \/ OpenRefused
       \/ \E m \in Maps : OpenMapped(m)
       \/ OpenUnmapped
    /\ UNCHANGED <<b_opened, b_alloc_buf, cuda, shown, probes, draws>>

\* The buffers of a mapped session, or open cleans up.
AllocBuffers ==
    /\ pc = "alloc"
    /\ \/ /\ b_alloc_buf' = TRUE
          /\ Goto("finish")
          /\ UNCHANGED <<glu32_tex, texture0, cuda, result>>
       \/ /\ CallsFail
          /\ CleanUp
          /\ Return("MAPBUFFER_ERROR")
          /\ UNCHANGED b_alloc_buf
    /\ UNCHANGED <<b_opened, b_resize, mapped, gl_map_mode, fresh, shown, counters, caller>>

\* Shaders, which may fail and clean up, and colour tables, which may fail.
FinishOpen ==
    /\ pc = "finish"
    /\ \/ /\ b_opened' = TRUE /\ Return("NO_ERROR")
          /\ UNCHANGED <<glu32_tex, texture0, cuda>>
       \/ /\ UNCHANGED b_opened /\ Return("LINK_ERROR")
          /\ CleanUp
       \/ /\ UNCHANGED b_opened /\ Return("COLOR_SPACE_ERROR")
          /\ UNCHANGED <<glu32_tex, texture0, cuda>>
    /\ UNCHANGED <<b_alloc_buf, b_resize, mapped, gl_map_mode, fresh, shown, counters, caller>>

Close(to) ==
    /\ pc = "idle"
    /\ b_opened' = FALSE /\ fresh' = TRUE
    /\ CleanUp
    /\ Goto(to)
    /\ UNCHANGED <<caller, b_alloc_buf, b_resize, mapped, gl_map_mode, shown, result, counters>>

MWDeInitRender == Close("idle")

\* Close, then the destructor, which cleans up again.
MWDestoryVideoRender == Close("delete")

Destructor ==
    /\ pc = "delete"
    /\ CleanUp
    /\ Goto("gone")
    /\ UNCHANGED <<caller, session, shown, result, counters>>

(***************************************************************************)
(* render.                                                                  *)
(***************************************************************************)
\* The name of a mapped buffer, which the application passes with its frame.
glvar == mapped /\ gl_map_mode # {NVIDIA}

MWRenderFrame ==
    /\ pc = "idle" /\ b_opened /\ draws < MaxDraws
    /\ draws' = draws + 1
    /\ \/ Goto("upload") /\ caller' = "draw" /\ UNCHANGED result
       \/ b_resize /\ Return("SIZE_ERROR") /\ UNCHANGED caller
    /\ UNCHANGED <<session, glu32_tex, cuda, texture0, shown, textures, probes, inits>>

\* Which way the frame goes depends on b_alloc_buf, glvar and gl_map_mode.  A
\* CUDA upload of a resized session first gives the texture its size.
UploadFrame ==
    /\ pc = "upload"
    /\ \/ /\ ~b_alloc_buf \/ glvar
          /\ texture0' = draws
          /\ Goto("draw")
       \/ /\ b_alloc_buf /\ ~glvar /\ gl_map_mode = {NVIDIA}
          /\ texture0' = IF b_resize THEN NoFrame ELSE texture0
          /\ Goto(IF b_resize THEN "register" ELSE "map")
       \/ /\ b_alloc_buf /\ ~glvar /\ gl_map_mode # {NVIDIA}
          /\ UNCHANGED texture0
          /\ Goto("draw")
    /\ UNCHANGED <<session, glu32_tex, cuda, shown, result, counters, caller>>

\* glDrawArrays, which the INTEL mode leaves out for a frame of no texture.
DrawArrays ==
    /\ pc = "draw"
    /\ shown' = IF b_alloc_buf /\ ~glvar /\ gl_map_mode = {INTEL} THEN shown ELSE texture0
    /\ Return("NO_ERROR")
    /\ UNCHANGED <<session, glu32_tex, cuda, texture0, counters, caller>>

-----------------------------------------------------------------------------
Init ==
    /\ pc = "idle" /\ caller = "none" /\ gl_map_mode = {}
    /\ b_opened = FALSE /\ b_alloc_buf = FALSE /\ b_resize = FALSE /\ mapped = FALSE
    /\ glu32_tex = NoTexture /\ cuda_tex_result_resource = 0
    /\ resource = [h \in Handles |-> NotRegistered] /\ CallsFail \in BOOLEAN
    /\ texture0 = NoFrame /\ shown = NoFrame /\ result = "none"
    /\ fresh = TRUE /\ textures = 0 /\ probes = 0 /\ inits = 0 /\ draws = 0

Next ==
    \/ MWVideoDeviceInfo \/ MWInitRender \/ AllocBuffers \/ FinishOpen
    \/ MWRenderFrame \/ UploadFrame \/ RegisterImage \/ MapResources \/ GetMappedArray
    \/ CopyToArray \/ UnmapResources \/ UnregisterResource \/ DrawArrays
    \/ MWDeInitRender \/ MWDestoryVideoRender \/ Destructor

Spec == Init /\ [][Next]_vars

-----------------------------------------------------------------------------
TypeOK ==
    /\ pc \in {"idle", "register", "map", "array", "copy", "unmap", "unregister", "alloc",
               "finish", "upload", "draw", "delete", "gone"}
    /\ caller \in {"none", "probe", "open", "draw"}
    /\ gl_map_mode \subseteq Maps
    /\ b_opened \in BOOLEAN /\ b_alloc_buf \in BOOLEAN /\ b_resize \in BOOLEAN
    /\ mapped \in BOOLEAN /\ fresh \in BOOLEAN /\ CallsFail \in BOOLEAN
    /\ textures \in 0 .. MaxInits + MaxProbes /\ glu32_tex \in 0 .. textures
    /\ cuda_tex_result_resource \in 0 .. MaxResources
    /\ resource \in [Handles -> [tex : 0 .. textures, mapped : BOOLEAN]]
    /\ probes \in 0 .. MaxProbes /\ inits \in 0 .. MaxInits /\ draws \in 0 .. MaxDraws
    /\ texture0 \in 0 .. draws /\ shown \in 0 .. draws
    /\ result \in {"none", "NO_ERROR", "MAPBUFFER_ERROR", "LINK_ERROR", "SIZE_ERROR",
                  "COLOR_SPACE_ERROR"}

\* A draw that reports success shows the frame it was called with.
DrawnIsShown ==
    pc = "idle" /\ b_opened /\ caller = "draw" /\ result = "NO_ERROR" => shown = draws

\* Whatever way the frame takes, whichever CUDA call of it, of an earlier draw or
\* session or of the probe failed: as long as b_alloc_buf says of the session
\* what it is, a draw that reports success shows its frame.
HonestDrawIsShown == (b_alloc_buf <=> mapped) => DrawnIsShown

Fixed == b_opened /\ mapped /\ gl_map_mode = {NVIDIA} /\ ~b_resize

\* A session of one size holds one registration, of the texture it draws from;
\* while calls work no other outlives the call that made it, but one of each
\* probe.  So no number of draws and sessions uses up the resources, and no draw
\* uploads to a texture of an earlier session.
OneRegistration ==
    pc = "idle" =>
        /\ Fixed => handle \in Registered /\ resource[handle].tex = glu32_tex
        /\ ~CallsFail =>
              Cardinality(Registered) <= probes + (IF fresh \/ b_resize THEN 0 ELSE 1)

\* While calls work, GL gets its texture back before it resizes, samples or
\* deletes it: what an open renderer draws from is mapped only while a frame is
\* copied to it.  "The graphics API from which resources were registered should
\* not access any resources while they are mapped by CUDA"
\* (cuda_runtime_api.h:6265), and one that is mapped cannot be mapped again.
\* After a copy that failed, render returns with it mapped (1638).
MappedOnlyInUpload ==
    b_opened /\ ~CallsFail /\ pc \in {"idle", "upload", "draw"} =>
        \A h \in MappedNow : resource[h].tex # glu32_tex
=============================================================================
