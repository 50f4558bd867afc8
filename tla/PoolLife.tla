------------------------------- MODULE PoolLife -------------------------------
(***************************************************************************)
(* The life of the pool object behind CGLRender::pc_framebuffer.  The GL    *)
(* thread opens and closes the renderer, creates, replaces and destroys the *)
(* pool and draws from it; producer threads put frames into it.  No mutex   *)
(* protects pc_framebuffer itself, so each read and write of it is a step.  *)
(* What happens inside a ready pool, under its mutexes, is FramePool's.     *)
(*                                                                         *)
(* A put works on the object it found until it returns.  Overlap names the  *)
(* calls of the GL thread that the application lets run while a put does;   *)
(* a draw always may.                                                       *)
(***************************************************************************)
EXTENDS Naturals, FiniteSets

CONSTANTS
    Producers,   \* threads that call MWPutFrameBufferQueue
    Pools,       \* BOUND: addresses of CMWVideoFrameBuffer objects
    NULL,
    Overlap

Calls == {"create", "destory", "close"}

ASSUME PoolLifeAssumption ==
    /\ NULL \notin Pools
    /\ Overlap \subseteq Calls

VARIABLES
    pc_framebuffer,
    heap,        \* of each address: "free", "raw" (constructed), "ready" or
                 \* "destoryed" (its queues and frames are gone, it is not)
    b_opened,
    call, pc,    \* the GL thread: its call, or "none", and the next step of it
    has_pool,    \* the application: the last MWCreateFrameBuffer succeeded,
                 \* and nothing was destroyed or closed since
    lost,        \* the pools replaced, which nothing can delete any more
    put, this    \* per producer: where its put is, and on which object

glThread  == <<pc_framebuffer, heap, b_opened, call, pc, has_pool, lost>>
producers == <<put, this>>
vars == <<glThread, producers>>

Set(pool, state) == heap' = [heap EXCEPT ![pool] = state]

Start(c, first) ==
    /\ call = "none"
    /\ c \in Calls \ Overlap => \A p \in Producers : put[p] = "idle"
    /\ call' = c /\ pc' = first

Goto(label) == pc' = label /\ UNCHANGED call

\* Mutant of Return: the call returns before its last step.
ReturnEarly == call' = "none" /\ UNCHANGED pc

Return == call' = "none" /\ pc' = "idle"

(***************************************************************************)
(* The calls of the GL thread.                                              *)
(***************************************************************************)
MWInitRender ==
    /\ call = "none" /\ ~b_opened
    /\ b_opened' = TRUE
    /\ UNCHANGED <<pc_framebuffer, heap, call, pc, has_pool, lost, producers>>

MWCreateFrameBuffer ==
    /\ b_opened
    /\ Start("create", IF pc_framebuffer # NULL THEN "drop" ELSE "new")
    /\ has_pool' = FALSE
    /\ UNCHANGED <<pc_framebuffer, heap, b_opened, lost, producers>>

\* create_framebuffer empties the pool there was, and does not delete it.
DropPool ==
    /\ pc = "drop"
    /\ Set(pc_framebuffer, "destoryed")
    /\ Goto("replace")
    /\ UNCHANGED <<pc_framebuffer, b_opened, has_pool, lost, producers>>

ReplacePool ==
    /\ pc = "replace"
    /\ lost' = lost \cup {pc_framebuffer}
    /\ pc_framebuffer' = NULL
    /\ Goto("new")
    /\ UNCHANGED <<heap, b_opened, has_pool, producers>>

NewPool ==
    /\ pc = "new"
    /\ \E pool \in Pools :
          /\ heap[pool] = "free"
          /\ Set(pool, "raw")
          /\ pc_framebuffer' = pool
    /\ Goto("fill")
    /\ UNCHANGED <<b_opened, has_pool, lost, producers>>

\* create_frame_buffer makes the frames and the free queue, or fails.
FillPool ==
    /\ pc = "fill"
    /\ \/ Set(pc_framebuffer, "ready") /\ has_pool' = TRUE /\ Return
       \/ Goto("delete") /\ UNCHANGED <<heap, has_pool>>
    /\ UNCHANGED <<pc_framebuffer, b_opened, lost, producers>>

\* MWDestoryFrameBuffer, and CleanUp for MWDeInitRender, which closes first.
\* Both do nothing about a pool there is not.
MWDestoryFrameBuffer ==
    /\ pc_framebuffer # NULL
    /\ Start("destory", "empty")
    /\ has_pool' = FALSE
    /\ UNCHANGED <<pc_framebuffer, heap, b_opened, lost, producers>>

MWDeInitRender ==
    /\ b_opened
    /\ Start("close", IF pc_framebuffer # NULL THEN "empty" ELSE "return")
    /\ has_pool' = FALSE
    /\ b_opened' = FALSE
    /\ UNCHANGED <<pc_framebuffer, heap, lost, producers>>

EmptyPool ==
    /\ pc = "empty"
    /\ Set(pc_framebuffer, "destoryed")
    /\ Goto("delete")
    /\ UNCHANGED <<pc_framebuffer, b_opened, has_pool, lost, producers>>

\* Mutant of DeletePool: the object is not deleted.
DeletePoolNot ==
    /\ pc = "delete"
    /\ Goto("forget")
    /\ UNCHANGED <<pc_framebuffer, heap, b_opened, has_pool, lost, producers>>

DeletePool ==
    /\ pc = "delete"
    /\ Set(pc_framebuffer, "free")
    /\ Goto("forget")
    /\ UNCHANGED <<pc_framebuffer, b_opened, has_pool, lost, producers>>

\* Mutant of ForgetPool: a create that failed is answered MW_VIDEORENDER_NO_ERROR.
ForgetPoolClaimed ==
    /\ pc = "forget"
    /\ pc_framebuffer' = NULL
    /\ has_pool' = (call = "create")
    /\ Return
    /\ UNCHANGED <<heap, b_opened, lost, producers>>

ForgetPool ==
    /\ pc = "forget"
    /\ pc_framebuffer' = NULL
    /\ Return
    /\ UNCHANGED <<heap, b_opened, has_pool, lost, producers>>

Returned ==
    /\ pc = "return" /\ Return
    /\ UNCHANGED <<pc_framebuffer, heap, b_opened, has_pool, lost, producers>>

\* MWRenderFrame(t_b_buffer): render_frame reads pc_framebuffer to get a frame
\* and again to put it back, and tests it neither time.
MWRenderFrame ==
    /\ b_opened /\ has_pool
    /\ Start("draw", "draw")
    /\ UNCHANGED <<pc_framebuffer, heap, b_opened, has_pool, lost, producers>>

FrameDrawn ==
    /\ pc = "draw" /\ Return
    /\ UNCHANGED <<pc_framebuffer, heap, b_opened, has_pool, lost, producers>>

(***************************************************************************)
(* The calls of a producer.                                                 *)
(***************************************************************************)
Allowed == call \in Overlap \cup {"none", "draw"}

\* Mutant of MWPutFrameBufferQueue: it does not test the pointer.
MWPutFrameBufferQueueUntested(p) ==
    /\ put[p] = "idle" /\ Allowed
    /\ put' = [put EXCEPT ![p] = "tested"]
    /\ this' = [this EXCEPT ![p] = pc_framebuffer]
    /\ UNCHANGED glThread

\* putframedata's test: without a pool it returns MW_VIDEORENDER_BUF_NONE.
MWPutFrameBufferQueue(p) ==
    /\ put[p] = "idle" /\ Allowed
    /\ pc_framebuffer # NULL
    /\ put' = [put EXCEPT ![p] = "tested"]
    /\ this' = [this EXCEPT ![p] = pc_framebuffer]
    /\ UNCHANGED glThread

\* The call goes to the pointer that was tested or to one read again.
EnterPool(p) ==
    /\ put[p] = "tested"
    /\ put' = [put EXCEPT ![p] = "inside"]
    /\ this' \in {this, [this EXCEPT ![p] = pc_framebuffer]}
    /\ UNCHANGED glThread

LeavePool(p) ==
    /\ put[p] = "inside"
    /\ put' = [put EXCEPT ![p] = "idle"]
    /\ this' = [this EXCEPT ![p] = NULL]
    /\ UNCHANGED glThread

-----------------------------------------------------------------------------

Init ==
    /\ pc_framebuffer = NULL
    /\ heap = [pool \in Pools |-> "free"]
    /\ b_opened = FALSE
    /\ call = "none" /\ pc = "idle"
    /\ has_pool = FALSE /\ lost = {}
    /\ put = [p \in Producers |-> "idle"]
    /\ this = [p \in Producers |-> NULL]

Next ==
    \/ MWInitRender \/ MWCreateFrameBuffer
    \/ DropPool \/ ReplacePool \/ NewPool \/ FillPool
    \/ MWDestoryFrameBuffer \/ MWDeInitRender
    \/ EmptyPool \/ DeletePool \/ ForgetPool \/ Returned
    \/ MWRenderFrame \/ FrameDrawn
    \/ \E p \in Producers :
          MWPutFrameBufferQueue(p) \/ EnterPool(p) \/ LeavePool(p)

Spec == Init /\ [][Next]_vars

-----------------------------------------------------------------------------

TypeOK ==
    /\ pc_framebuffer \in Pools \cup {NULL}
    /\ heap \in [Pools -> {"free", "raw", "ready", "destoryed"}]
    /\ b_opened \in BOOLEAN /\ has_pool \in BOOLEAN
    /\ lost \subseteq Pools
    /\ call \in Calls \cup {"none", "draw"} /\ (call = "none" <=> pc = "idle")
    /\ pc \in {"idle", "drop", "replace", "new", "fill", "empty", "delete", "forget",
               "return", "draw"}
    /\ put \in [Producers -> {"idle", "tested", "inside"}]
    /\ this \in [Producers -> Pools \cup {NULL}]

Ready(pool) == pool \in Pools /\ heap[pool] = "ready"

\* Whoever works on a pool works on one that is complete and stays so until the
\* call returns: a put inside put_frame_data, a draw at each of its two uses of
\* pc_framebuffer (MWVideoRender.cpp:1985-1990, 1996, 2013).
UsedPoolIsReady ==
    /\ \A p \in Producers : put[p] = "inside" => Ready(this[p])
    /\ pc = "draw" => Ready(pc_framebuffer)

\* What the application was told is true: after a successful
\* MWCreateFrameBuffer there is a pool until it is destroyed or closed, and
\* after anything else a put is answered MW_VIDEORENDER_BUF_NONE and not led to
\* the remains of an object.
PoolAsTold ==
    call = "none" => IF has_pool THEN Ready(pc_framebuffer) ELSE pc_framebuffer = NULL

\* Every pool object is held or deleted, whatever failed half way, but for
\* those create_framebuffer replaced: it empties them and drops the pointer
\* without the delete of destory_framebuffer (MWVideoRender.cpp:1940-1943).
NoPoolLost ==
    \A pool \in Pools : heap[pool] # "free" => pool \in {pc_framebuffer} \cup lost
=============================================================================
