------------------------------- MODULE GLRender -------------------------------
(***************************************************************************)
(* The renderer object, CGLRender: which GL objects, mapped buffers and    *)
(* frame buffer pool it holds from MWCreateVideoRender to                  *)
(* MWDestoryVideoRender, and what is left when a call fails half way.      *)
(*                                                                         *)
(* One thread owns the GL context and makes all these calls.  The driver   *)
(* decides how far open gets: each GL or CUDA call open tests is a step    *)
(* that succeeds or fails.  GL names are reused, as drivers do: a new name *)
(* is the smallest one no object has.                                      *)
(*                                                                         *)
(* Formats, sizes and colour spaces count only for which checks of open    *)
(* they fail.  What is drawn is not modelled here; the pool's queues are   *)
(* FramePool's.                                                            *)
(***************************************************************************)
EXTENDS Naturals, FiniteSets

CONSTANTS
    MaxBufs,     \* size of glu32_buf, the limit of m_u32_buf_num (10 in the code)
    Formats,     \* the members of mw_colorformat_e the application uses
    FrameCounts, \* the values of t_u32_count the application passes
    MaxInits,    \* BOUND: calls of MWInitRender per renderer
    MaxLost,     \* BOUND: probe textures lost over the whole run
    MaxObjects   \* BOUND: GL names in use at once

Maps == {"INTEL_MAP_TEXT", "AMD_MAP_BUF", "GL_MAP_BUF", "NVIDIA_MAP_TEXT"}
IntelRefuses == {"BGR24", "V308"}
NvidiaRefuses == {"P010", "P210", "V308", "BGR24", "RGB10", "Y410"}

Slots == 1 .. MaxBufs
NoObject == 0
Objects == 1 .. MaxObjects
Kinds == {"shader", "program", "texture", "buffer"}
Members == {"gli32_v", "gli32_f", "glu32_program", "glu32_tex", "glu32_tex1", "glu32_tex2"}

\* m_map_mode is a set of flags: {} is MW_MAP_MODE_AUTO.
Settings == [m_u32_buf_num : 0 .. MaxBufs + 1,
             m_map_mode    : {{}} \cup {{m} : m \in Maps},
             m_format      : Formats,
             m_b_resize    : BOOLEAN]

NoPool == [count |-> 0, mapped |-> FALSE, glvar |-> [i \in Slots |-> NoObject]]

ASSUME GLRenderAssumption ==
    /\ MaxBufs \in Nat \ {0} /\ MaxInits \in Nat /\ MaxLost \in Nat
    /\ MaxObjects \in Nat /\ MaxObjects >= Cardinality(Members) + MaxBufs + MaxLost
    /\ FrameCounts \subseteq Nat \ {0}

VARIABLES
    alive,        \* the object exists
    pc,           \* the next step of the call in progress
    b_opened, b_alloc_buf, b_resize, u8_buf_num,
    gl_map_mode,  \* the flags of the mapping modes, a subset of Maps
    name,         \* of each GL object member: the name it holds
    glu32_buf,
    pptr,         \* of each slot: what the pointer in it points to
    next_buf,     \* the loop variable i of open
    pc_framebuffer,
    gl,           \* the driver: the kind of each existing object, or "none"
    supported,    \* what the last MWVideoDeviceInfo saw to work
    lost,         \* textures of a failed probe that no member names any more
    fresh, inits  \* the application: nothing opened since the last close;
                  \* inits so far

sessionVars == <<b_opened, b_alloc_buf, b_resize, u8_buf_num, gl_map_mode>>
driverVars  == <<gl, supported, lost>>
appVars     == <<fresh, inits>>
vars == <<alive, pc, sessionVars, name, glu32_buf, pptr, next_buf,
          pc_framebuffer, driverVars, appVars>>

Unused == {n \in Objects : gl[n] = "none"}
NewObject == CHOOSE n \in Unused : \A k \in Unused : n <= k

\* The objects the members name.
Named == {name[k] : k \in Members} \cup {glu32_buf[i] : i \in Slots}

Goto(label) == pc' = label

(***************************************************************************)
(* CleanUp: delete what the members name, then drop the pool, then, if     *)
(* b_alloc_buf says so, free the memory behind pptr: a step each.  It      *)
(* leaves b_alloc_buf, u8_buf_num, gl_map_mode and pptr itself as they are. *)
(* It returns between calls, or, in the Close of MWDestoryVideoRender, to   *)
(* the delete that follows.                                                *)
(***************************************************************************)
CleanUpSteps == {"pool", "free", "pool_delete", "free_delete"}

\* glu32_buf is deleted as the textures of INTEL or as buffers; deleting a
\* name of another kind, or one that is not in use, does nothing.
BufKind == IF gl_map_mode = {"INTEL_MAP_TEXT"} THEN "texture" ELSE "buffer"
Deleted == {name[k] : k \in Members}
           \cup {n \in {glu32_buf[i] : i \in Slots} \ {NoObject} : gl[n] = BufKind}

\* Mutants of DeleteObjects: the link step's program is not deleted; a name is
\* kept after its object is deleted.
DeleteObjectsForgetsProgram ==
    /\ gl' = [n \in Objects |-> IF n \in Deleted \ {name["glu32_program"]}
                                THEN "none" ELSE gl[n]]
    /\ name' = [k \in Members |-> NoObject]
    /\ glu32_buf' = [i \in Slots |-> NoObject]

DeleteObjectsKeepsName ==
    /\ gl' = [n \in Objects |-> IF n \in Deleted THEN "none" ELSE gl[n]]
    /\ name' = [k \in Members |-> IF k = "glu32_tex2" THEN name[k] ELSE NoObject]
    /\ glu32_buf' = [i \in Slots |-> NoObject]

DeleteObjects ==
    /\ gl' = [n \in Objects |-> IF n \in Deleted THEN "none" ELSE gl[n]]
    /\ name' = [k \in Members |-> NoObject]
    /\ glu32_buf' = [i \in Slots |-> NoObject]

\* Mutant of DropPool: the pool outlives the memory its frames are in.
DropPoolNot ==
    /\ pc \in {"pool", "pool_delete"}
    /\ Goto(IF pc = "pool" THEN "free" ELSE "free_delete")
    /\ UNCHANGED <<alive, sessionVars, name, glu32_buf, pptr, next_buf, pc_framebuffer,
                   driverVars, appVars>>

DropPool ==
    /\ pc \in {"pool", "pool_delete"}
    /\ Goto(IF pc = "pool" THEN "free" ELSE "free_delete")
    /\ pc_framebuffer' = NoPool
    /\ UNCHANGED <<alive, sessionVars, name, glu32_buf, pptr, next_buf,
                   driverVars, appVars>>

\* Only the aligned blocks of AMD are freed: INTEL and GL mappings go with
\* their objects, and cudaFree rejects the host memory of cudaMallocHost.  A
\* pointer never assigned may hold NULL, which is skipped; freeing anything
\* but a live block corrupts the heap.
AfterFree(p) ==
    CASE p = "live"  -> {"freed"}
      [] p = "unset" -> {"unset", "corrupt"}
      [] OTHER       -> {"corrupt"}

FreeMappings ==
    /\ pc \in {"free", "free_delete"}
    /\ Goto(IF pc = "free" THEN "idle" ELSE "delete")
    /\ IF b_alloc_buf /\ gl_map_mode = {"AMD_MAP_BUF"}
       THEN pptr' \in {f \in [Slots -> UNION {AfterFree(pptr[i]) : i \in Slots}
                                         \cup {pptr[i] : i \in Slots}] :
                          \A i \in Slots : f[i] \in IF i <= u8_buf_num
                                                    THEN AfterFree(pptr[i])
                                                    ELSE {pptr[i]}}
       ELSE UNCHANGED pptr
    /\ UNCHANGED <<alive, sessionVars, name, glu32_buf, next_buf, pc_framebuffer,
                   driverVars, appVars>>

\* open gives up after CleanUp.
Fail ==
    /\ DeleteObjects
    /\ Goto("pool")
    /\ UNCHANGED <<alive, sessionVars, pptr, next_buf, pc_framebuffer, supported, lost,
                   appVars>>

\* open gives up and leaves what it has made to a later Close.
GiveUp ==
    /\ Goto("idle")
    /\ UNCHANGED <<alive, sessionVars, name, glu32_buf, pptr, next_buf,
                   pc_framebuffer, driverVars, appVars>>

(***************************************************************************)
(* The object and the device probe.                                        *)
(***************************************************************************)
MWCreateVideoRender ==
    /\ ~alive /\ pc = "idle"
    /\ alive' = TRUE
    /\ b_opened' = FALSE /\ b_alloc_buf' = FALSE /\ b_resize' = FALSE
    /\ u8_buf_num' = 0 /\ gl_map_mode' = {} /\ supported' = {}
    /\ name' = [k \in Members |-> NoObject]
    /\ glu32_buf' = [i \in Slots |-> NoObject]
    /\ pptr' = [i \in Slots |-> "unset"]
    /\ pc_framebuffer' = NoPool
    /\ fresh' = TRUE /\ inits' = 0
    /\ UNCHANGED <<pc, next_buf, gl, lost>>

\* deviceinfo maps a probe object in each way and deletes it again.  The probe
\* of NVIDIA fails before it has a texture, or after, and then glu32_tex keeps
\* it; the texture an earlier probe left there is lost.  The application
\* probes before it opens, and may ask a GL version that is too old to probe.
MWVideoDeviceInfo ==
    /\ alive /\ pc = "idle" /\ fresh
    /\ \/ UNCHANGED <<gl_map_mode, name, driverVars>>
       \/ /\ gl_map_mode' \in SUBSET (Maps \ {"NVIDIA_MAP_TEXT"})
          /\ supported' = gl_map_mode'
          /\ UNCHANGED <<name, gl, lost>>
       \/ /\ gl_map_mode' \in SUBSET Maps
          /\ supported' = gl_map_mode'
          /\ Cardinality(lost \cup ({name["glu32_tex"]} \ {NoObject})) < MaxLost
          /\ lost' = lost \cup ({name["glu32_tex"]} \ {NoObject})
          /\ \/ /\ "NVIDIA_MAP_TEXT" \in gl_map_mode'
                /\ name' = [name EXCEPT !["glu32_tex"] = NoObject]
                /\ UNCHANGED gl
             \/ /\ "NVIDIA_MAP_TEXT" \notin gl_map_mode'
                /\ name' = [name EXCEPT !["glu32_tex"] = NewObject]
                /\ gl' = [gl EXCEPT ![NewObject] = "texture"]
    /\ UNCHANGED <<alive, pc, b_opened, b_alloc_buf, b_resize, u8_buf_num, glu32_buf,
                   pptr, next_buf, pc_framebuffer, appVars>>

(***************************************************************************)
(* open, up to the first object it creates.                                *)
(***************************************************************************)
Mapped(s) == s.m_u32_buf_num # 0 /\ s.m_map_mode # {}

\* Mutant of Narrowed: takes the mode asked for, supported or not.
NarrowedToSetting(s) == IF Mapped(s) THEN s.m_map_mode ELSE gl_map_mode

Narrowed(s) == IF Mapped(s) THEN gl_map_mode \cap s.m_map_mode ELSE gl_map_mode

Refuses(mode, s) ==
    \/ Cardinality(mode) # 1
    \/ mode = {"INTEL_MAP_TEXT"} /\ (s.m_format \in IntelRefuses \/ s.m_b_resize)
    \/ mode = {"NVIDIA_MAP_TEXT"} /\ s.m_format \in NvidiaRefuses

\* Mutant of CountChecked: accepts one buffer too many.
CountCheckedLate(s) == s.m_u32_buf_num <= MaxBufs + 1

CountChecked(s) == s.m_u32_buf_num <= MaxBufs

\* The returns before any GL object exists.  None of them cleans up.
OpenChecks(s) ==
    \/ /\ ~CountChecked(s)
       /\ Goto("idle")
       /\ u8_buf_num' = 0
       /\ UNCHANGED <<pptr, gl_map_mode>>
    \/ /\ CountChecked(s)
       /\ pptr' = IF s.m_u32_buf_num = 0 THEN pptr ELSE [i \in Slots |-> "unset"]
       /\ \/ /\ Goto("idle")                       \* format or GL version
             /\ u8_buf_num' = s.m_u32_buf_num
             /\ UNCHANGED gl_map_mode
          \/ /\ gl_map_mode' = Narrowed(s)
             /\ IF Mapped(s) /\ Refuses(Narrowed(s), s)
                THEN Goto("idle") /\ u8_buf_num' = 0
                ELSE /\ u8_buf_num' = IF Mapped(s) THEN s.m_u32_buf_num ELSE 0
                     /\ \/ Goto("idle")            \* size
                        \/ Goto("vertex_shader")

\* The context cannot be made current, glewInit fails, or open runs.  The
\* application opens only a renderer with nothing open or half open.
MWInitRender(s) ==
    /\ alive /\ pc = "idle" /\ fresh /\ inits < MaxInits
    /\ inits' = inits + 1
    /\ next_buf' = 1
    /\ b_opened' = FALSE
    /\ \/ /\ Goto("idle")
          /\ UNCHANGED <<fresh, b_resize, u8_buf_num, pptr, gl_map_mode>>
       \/ /\ fresh' = FALSE
          /\ b_resize' = s.m_b_resize
          /\ OpenChecks(s)
    /\ UNCHANGED <<alive, b_alloc_buf, name, glu32_buf, pc_framebuffer, driverVars>>

(***************************************************************************)
(* open, object by object.                                                 *)
(***************************************************************************)
\* Create an object into a member.  A call that fails returns the name 0, and
\* open cleans up.  A texture the probe left in glu32_tex is lost here.
CreateObject(from, member, kind, to) ==
    /\ pc = from
    /\ \/ /\ name' = [name EXCEPT ![member] = NewObject]
          /\ gl' = [gl EXCEPT ![NewObject] = kind]
          /\ lost' = lost \cup ({name[member]} \ {NoObject})
          /\ Goto(to)
          /\ UNCHANGED <<alive, sessionVars, glu32_buf, pptr, next_buf,
                         pc_framebuffer, supported, appVars>>
       \/ name[member] = NoObject /\ Fail

CreateVertexShader == CreateObject("vertex_shader", "gli32_v", "shader", "fragment_shader")

\* INTEL maps textures of its own; the other modes draw from glu32_tex.
CreateFragmentShader ==
    CreateObject("fragment_shader", "gli32_f", "shader",
                 CASE u8_buf_num = 0 -> "texture"
                   [] u8_buf_num # 0 /\ gl_map_mode = {"INTEL_MAP_TEXT"} -> "map_buffer"
                   [] u8_buf_num # 0 /\ gl_map_mode # {"INTEL_MAP_TEXT"} -> "map_texture")

GenMapTexture ==
    CreateObject("map_texture", "glu32_tex", "texture",
                 IF gl_map_mode = {"NVIDIA_MAP_TEXT"} /\ ~b_resize
                 THEN "register_image" ELSE "map_buffer")

\* cudaGraphicsGLRegisterImage; its failure is the one return of this part
\* that does not clean up.
RegisterImage ==
    /\ pc = "register_image"
    /\ \/ /\ Goto("map_buffer")
          /\ UNCHANGED <<alive, sessionVars, name, glu32_buf, pptr, next_buf,
                         pc_framebuffer, driverVars, appVars>>
       \/ GiveUp

\* The object and the memory of one slot, both or neither: when the mapping
\* fails, CleanUp deletes the object as well.
MapOneBuffer ==
    /\ pptr' = [pptr EXCEPT ![next_buf] =
                   IF gl_map_mode \subseteq {"AMD_MAP_BUF", "NVIDIA_MAP_TEXT"}
                   THEN "live" ELSE "mapping"]
    /\ next_buf' = next_buf + 1
    /\ IF gl_map_mode = {"NVIDIA_MAP_TEXT"}
       THEN UNCHANGED <<glu32_buf, gl>>
       ELSE /\ glu32_buf' = [glu32_buf EXCEPT ![next_buf] = NewObject]
            /\ gl' = [gl EXCEPT ![NewObject] = BufKind]

\* Mutant of MapBuffer: the loop ends one buffer early.
MapBufferShort ==
    /\ pc = "map_buffer"
    /\ \/ /\ next_buf <= u8_buf_num - 1
          /\ \/ /\ MapOneBuffer
                /\ UNCHANGED <<alive, pc, sessionVars, name, pc_framebuffer,
                               supported, lost, appVars>>
             \/ Fail
       \/ /\ next_buf > u8_buf_num - 1
          /\ b_alloc_buf' = TRUE
          /\ Goto("texture1")
          /\ UNCHANGED <<alive, b_opened, b_resize, u8_buf_num, gl_map_mode, name,
                         glu32_buf, pptr, next_buf, pc_framebuffer,
                         driverVars, appVars>>

MapBuffer ==
    /\ pc = "map_buffer"
    /\ \/ /\ next_buf <= u8_buf_num
          /\ \/ /\ MapOneBuffer
                /\ UNCHANGED <<alive, pc, sessionVars, name, pc_framebuffer,
                               supported, lost, appVars>>
             \/ Fail
       \/ /\ next_buf > u8_buf_num
          /\ b_alloc_buf' = TRUE
          /\ Goto("texture1")
          /\ UNCHANGED <<alive, b_opened, b_resize, u8_buf_num, gl_map_mode, name,
                         glu32_buf, pptr, next_buf, pc_framebuffer,
                         driverVars, appVars>>

GenTexture == CreateObject("texture", "glu32_tex", "texture", "texture1")
GenTexture1 == CreateObject("texture1", "glu32_tex1", "texture", "texture2")
GenTexture2 == CreateObject("texture2", "glu32_tex2", "texture", "compile")

\* Both shaders compile, the program is created and links, or open fails.
CompileShaders ==
    /\ pc = "compile"
    /\ \/ /\ Goto("link")
          /\ UNCHANGED <<alive, sessionVars, name, glu32_buf, pptr, next_buf,
                         pc_framebuffer, driverVars, appVars>>
       \/ Fail
LinkProgram == CreateObject("link", "glu32_program", "program", "colour")

\* A colour space or level open does not know: it returns with every object
\* made and b_alloc_buf set, but not opened.
ChooseColourSpace ==
    /\ pc = "colour"
    /\ Goto("idle")
    /\ b_opened' \in BOOLEAN
    /\ UNCHANGED <<alive, b_alloc_buf, b_resize, u8_buf_num, gl_map_mode, name,
                   glu32_buf, pptr, next_buf, pc_framebuffer, driverVars, appVars>>

Open ==
    \/ CreateVertexShader \/ CreateFragmentShader
    \/ GenMapTexture \/ RegisterImage \/ MapBuffer
    \/ GenTexture \/ GenTexture1 \/ GenTexture2
    \/ CompileShaders \/ LinkProgram \/ ChooseColourSpace

(***************************************************************************)
(* The pool of an open renderer, and the end of a session.                 *)
(***************************************************************************)
\* A pool over mapped buffers has u8_buf_num of them, whatever the caller asks
\* for.  Its creation may fail, which leaves none.
MWCreateFrameBuffer(n) ==
    /\ alive /\ pc = "idle" /\ b_opened
    /\ \/ pc_framebuffer' = [count  |-> IF b_alloc_buf THEN u8_buf_num ELSE n,
                             mapped |-> b_alloc_buf,
                             glvar  |-> glu32_buf]
       \/ pc_framebuffer' = NoPool
    /\ UNCHANGED <<alive, pc, sessionVars, name, glu32_buf, pptr, next_buf,
                   driverVars, appVars>>

MWDestoryFrameBuffer ==
    /\ alive /\ pc = "idle"
    /\ pc_framebuffer' = NoPool
    /\ UNCHANGED <<alive, pc, sessionVars, name, glu32_buf, pptr, next_buf,
                   driverVars, appVars>>

Close(to) ==
    /\ b_opened' = FALSE
    /\ DeleteObjects
    /\ Goto(to)
    /\ fresh' = TRUE
    /\ UNCHANGED <<alive, b_alloc_buf, b_resize, u8_buf_num, gl_map_mode, pptr, next_buf,
                   pc_framebuffer, supported, lost, inits>>

MWDeInitRender == alive /\ pc = "idle" /\ Close("pool")

\* Close, then the destructor, which cleans up again.
MWDestoryVideoRender == alive /\ pc = "idle" /\ Close("pool_delete")

Destructor ==
    /\ pc = "delete"
    /\ DeleteObjects
    /\ alive' = FALSE
    /\ Goto("pool")
    /\ UNCHANGED <<sessionVars, pptr, next_buf, pc_framebuffer, supported, lost, appVars>>

-----------------------------------------------------------------------------
Init ==
    /\ alive = FALSE /\ pc = "idle"
    /\ b_opened = FALSE /\ b_alloc_buf = FALSE /\ b_resize = FALSE
    /\ u8_buf_num = 0 /\ gl_map_mode = {}
    /\ name = [k \in Members |-> NoObject]
    /\ glu32_buf = [i \in Slots |-> NoObject]
    /\ pptr = [i \in Slots |-> "unset"]
    /\ next_buf = 1 /\ pc_framebuffer = NoPool
    /\ gl = [n \in Objects |-> "none"] /\ supported = {} /\ lost = {}
    /\ fresh = TRUE /\ inits = 0

Next ==
    \/ MWCreateVideoRender \/ MWVideoDeviceInfo
    \/ \E s \in Settings : MWInitRender(s)
    \/ Open
    \/ \E n \in FrameCounts : MWCreateFrameBuffer(n)
    \/ MWDestoryFrameBuffer \/ MWDeInitRender \/ MWDestoryVideoRender \/ Destructor
    \/ DropPool \/ FreeMappings

Spec == Init /\ [][Next]_vars

-----------------------------------------------------------------------------
Steps == {"vertex_shader", "fragment_shader", "map_texture", "register_image",
          "map_buffer", "texture", "texture1", "texture2", "compile", "link", "colour"}

TypeOK ==
    /\ alive \in BOOLEAN /\ fresh \in BOOLEAN /\ inits \in 0 .. MaxInits
    /\ pc \in {"idle", "delete"} \cup CleanUpSteps \cup Steps
    /\ b_opened \in BOOLEAN /\ b_alloc_buf \in BOOLEAN /\ b_resize \in BOOLEAN
    /\ u8_buf_num \in 0 .. MaxBufs /\ next_buf \in 1 .. MaxBufs + 1
    /\ gl_map_mode \subseteq Maps /\ supported \subseteq Maps
    /\ name \in [Members -> Objects \cup {NoObject}]
    /\ glu32_buf \in [Slots -> Objects \cup {NoObject}]
    /\ pptr \in [Slots -> {"unset", "live", "mapping", "freed", "corrupt"}]
    /\ pc_framebuffer \in [count : Nat, mapped : BOOLEAN,
                           glvar : [Slots -> Objects \cup {NoObject}]]
    /\ gl \in [Objects -> Kinds \cup {"none"}]
    /\ lost \subseteq Objects

KindOf == [k \in Members |->
             CASE k \in {"gli32_v", "gli32_f"} -> "shader"
               [] k = "glu32_program" -> "program"
               [] OTHER -> "texture"]

\* No member names an object that is gone, or one of another kind: however far
\* an open got, and whatever was probed, mapped and closed before, CleanUp
\* deletes the renderer's own objects and each as what it is.
NoDanglingName ==
    /\ \A k \in Members : name[k] # NoObject => gl[name[k]] = KindOf[k]
    /\ \A i \in Slots : glu32_buf[i] # NoObject => gl[glu32_buf[i]] = BufKind
    /\ \A k \in Members, i \in Slots :
          name[k] # NoObject => name[k] # glu32_buf[i]

\* No GL object is lost by a failing open or by a close: each that exists is
\* named by a member, for the next CleanUp to find, but for the textures the
\* NVIDIA probe leaves in glu32_tex when it fails (MWVideoRender.cpp:404).
NoObjectLost ==
    \A n \in Objects : gl[n] # "none" => n \in Named \cup lost

\* Between calls the frames of a pool over mapped buffers are in memory that
\* exists, and have the GL names render will read.  CleanUp deletes those names
\* under the pool (MWVideoRender.cpp:109-120), and with them what INTEL and GL
\* mapped, then drops the pool (137-141); what is left to say of a pool in the
\* middle of CleanUp is that the blocks freed at 166 are never its own.
PoolUsesLiveMemory ==
    pc_framebuffer.mapped =>
        \A i \in 1 .. pc_framebuffer.count :
            /\ pptr[i] \in {"live", "mapping"}
            /\ pc \notin CleanUpSteps =>
                  /\ pc_framebuffer.glvar[i] = glu32_buf[i]
                  /\ gl_map_mode # {"NVIDIA_MAP_TEXT"} => glu32_buf[i] # NoObject

\* An open renderer has everything it draws with: shaders, program, textures
\* and each mapped buffer it told the application of (m_pptr, m_glptr), which
\* b_alloc_buf then says to draw from (MWVideoRender.cpp:1387, 1951).
OpenedIsComplete ==
    b_opened =>
        /\ \A k \in Members :
              name[k] # NoObject \/ (k = "glu32_tex" /\ gl_map_mode = {"INTEL_MAP_TEXT"})
        /\ u8_buf_num > 0 => b_alloc_buf
        /\ \A i \in 1 .. u8_buf_num :
              /\ pptr[i] \in {"live", "mapping"}
              /\ gl_map_mode # {"NVIDIA_MAP_TEXT"} => glu32_buf[i] # NoObject

\* The buffers of a renderer are mapped in one way, and in a way the last
\* MWVideoDeviceInfo saw to work, although several opens may have narrowed
\* gl_map_mode in between.
MapModeSupported ==
    b_opened /\ u8_buf_num > 0 =>
        Cardinality(gl_map_mode) = 1 /\ gl_map_mode \subseteq supported

\* Memory is freed once: no close or destruction frees a block again, or frees
\* a pointer no mapping has assigned, in any of the mapping modes README.md
\* lists as supported.
FreedOnce == \A i \in Slots : pptr[i] # "corrupt"
=============================================================================
