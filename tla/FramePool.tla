------------------------------ MODULE FramePool ------------------------------
(***************************************************************************)
(* The frame buffer pool of the renderer, CMWVideoFrameBuffer, at the      *)
(* granularity of its mutexes.                                             *)
(*                                                                         *)
(* Producer threads call MWPutFrameBufferQueue, which copies a frame into  *)
(* a buffer of the pool; render threads call MWRenderFrame(t_b_buffer =    *)
(* true), which takes the buffer at the front of the full queue, draws it  *)
(* under the buffer's own mutex and hands it back.  The queue mode decides *)
(* what a producer does when it finds no free buffer (MAILBOX,             *)
(* RELAXED_FIFO, FIFO) or a frame still waiting (IMMEDIATE).               *)
(*                                                                         *)
(* A step ends where the code takes or releases a mutex.  Taking a mutex   *)
(* is a step of its own (except m_lock of a buffer, taken together with    *)
(* the first writes under it); what the code does with the queues under    *)
(* mutexes it already holds, up to the release, is one step.  The copy     *)
(* into a buffer (memcpy) is two steps, so that its middle is a state.     *)
(*                                                                         *)
(* A frame's contents are the put that wrote them: the n-th put of         *)
(* producer p is the value <<p, n>>.                                       *)
(***************************************************************************)
EXTENDS Naturals, Sequences, FiniteSets

CONSTANTS
    Producers,    \* threads that call MWPutFrameBufferQueue
    Renderers,    \* threads that call MWRenderFrame with t_b_buffer = true
    MaxFrames,    \* BOUND: no pool is created with more buffers than this
    FrameCounts,  \* the values of t_u32_count the application passes
    QueueModes,   \* the mw_queue_mode_e values the application passes
    MaxPuts,      \* BOUND: accepted calls of MWPutFrameBufferQueue per producer
    NoThread,     \* owner of an unlocked mutex
    NoFrame,      \* a NULL t_p_frame
    NoValue       \* contents of a buffer nothing was copied into yet

Modes == {"IMMEDIATE", "MAILBOX", "RELAXED_FIFO", "FIFO"}
Threads == Producers \cup Renderers
Frames == 1 .. MaxFrames
Values == Producers \X (1 .. MaxPuts)

ASSUME FramePoolAssumption ==
    /\ IsFiniteSet(Producers) /\ IsFiniteSet(Renderers)
    /\ Producers \cap Renderers = {}
    /\ MaxFrames \in Nat /\ MaxPuts \in Nat
    /\ FrameCounts \subseteq 0 .. MaxFrames
    /\ QueueModes \subseteq Modes
    /\ NoThread \notin Threads
    /\ NoFrame \notin Frames
    /\ NoValue \notin Values

VARIABLES
    pc_framebuffer,   \* CGLRender::pc_framebuffer # NULL
    m_map_mode, m_n_frame_count,
    m_queue_free, m_queue_full,
    m_lock_free, m_lock_full,          \* the thread that holds the mutex
    m_lock, m_state, m_extent, m_p_data, \* per buffer; m_extent is
                                       \* (m_width, m_height), as its put
    pc, t_p_frame,                     \* per thread: next step, frame in hand
    puts,                              \* per producer: puts started so far
    published, delivered, newest       \* history: per producer the last put
                                       \* that entered the full queue, and
                                       \* that left it for a renderer; the
                                       \* value that entered it last

poolVars  == <<pc_framebuffer, m_map_mode, m_n_frame_count>>
queueVars == <<m_queue_free, m_queue_full>>
frameVars == <<m_state, m_extent, m_p_data>>
history   == <<published, delivered, newest>>
vars == <<poolVars, queueVars, m_lock_free, m_lock_full, m_lock, frameVars,
          pc, t_p_frame, puts, history>>

Value(p) == <<p, puts[p]>>
Last(s) == s[Len(s)]

(***************************************************************************)
(* Where a thread is.  The label names the next step of the call.          *)
(***************************************************************************)
ProducerLabels ==
    {"lock_free", "take_free", "lock_frame", "fill", "lock_full", "push",
     "imm_lock_full", "imm_front", "imm_lock_frame", "imm_fill",
     "imm_lock_free", "imm_drain",
     "mb_lock_full", "mb_pop", "mb_lock_frame", "mb_fill", "mb_drain_full",
     "mb_drain_free", "mb_drain", "mb_lock_push", "mb_push",
     "rx_lock_full", "rx_back", "rx_lock_frame", "rx_fill"}
RendererLabels ==
    {"get_lock_full", "get", "get_lock_frame", "render", "put_lock_free", "put"}
Labels == {"idle"} \cup ProducerLabels \cup RendererLabels

Goto(t, label) == pc' = [pc EXCEPT ![t] = label]

\* The call returns; its local t_p_frame is gone.
Return(t) ==
    /\ Goto(t, "idle")
    /\ t_p_frame' = [t_p_frame EXCEPT ![t] = NoFrame]

(***************************************************************************)
(* Mutexes.                                                                *)
(***************************************************************************)
LockFull(t, from, to) ==
    /\ pc[t] = from
    /\ m_lock_full = NoThread
    /\ m_lock_full' = t
    /\ Goto(t, to)
    /\ UNCHANGED <<poolVars, queueVars, m_lock_free, m_lock, frameVars,
                   t_p_frame, puts, history>>

LockFree(t, from, to) ==
    /\ pc[t] = from
    /\ m_lock_free = NoThread
    /\ m_lock_free' = t
    /\ Goto(t, to)
    /\ UNCHANGED <<poolVars, queueVars, m_lock_full, m_lock, frameVars,
                   t_p_frame, puts, history>>

(***************************************************************************)
(* Copying a frame into the buffer in hand, under the buffer's mutex.      *)
(***************************************************************************)
\* Mutant of StartFill: a branch that forgets m_width and m_height.
StartFillWithoutExtent(p, from, to) ==
    LET f == t_p_frame[p] IN
    /\ pc[p] = from
    /\ m_lock[f] = NoThread
    /\ m_lock' = [m_lock EXCEPT ![f] = p]
    /\ m_state' = [m_state EXCEPT ![f] = "FILLING"]
    /\ Goto(p, to)
    /\ UNCHANGED <<poolVars, queueVars, m_lock_free, m_lock_full, m_extent,
                   m_p_data, t_p_frame, puts, history>>

\* Take m_lock, set m_width and m_height, mark the buffer FILLING.
StartFill(p, from, to) ==
    LET f == t_p_frame[p] IN
    /\ pc[p] = from
    /\ m_lock[f] = NoThread
    /\ m_lock' = [m_lock EXCEPT ![f] = p]
    /\ m_extent' = [m_extent EXCEPT ![f] = Value(p)]
    /\ m_state' = [m_state EXCEPT ![f] = "FILLING"]
    /\ Goto(p, to)
    /\ UNCHANGED <<poolVars, queueVars, m_lock_free, m_lock_full, m_p_data,
                   t_p_frame, puts, history>>

\* memcpy has finished: mark the buffer FILLED and release m_lock.
FinishFill(p) ==
    LET f == t_p_frame[p] IN
    /\ m_p_data' = [m_p_data EXCEPT ![f] = Value(p)]
    /\ m_state' = [m_state EXCEPT ![f] = "FILLED"]
    /\ m_lock' = [m_lock EXCEPT ![f] = NoThread]

EndFill(p, from, to) ==
    /\ pc[p] = from
    /\ FinishFill(p)
    /\ Goto(p, to)
    /\ UNCHANGED <<poolVars, queueVars, m_lock_free, m_lock_full, m_extent,
                   t_p_frame, puts, history>>

\* History: the put in progress of p is now the newest frame of the queue.
Publish(p) ==
    /\ published' = [published EXCEPT ![p] = puts[p]]
    /\ newest' = Value(p)
    /\ UNCHANGED delivered

(***************************************************************************)
(* put_frame_data, the part every mode shares.  A call with a null or      *)
(* empty frame, or one larger than m_u32_size, returns before any of this  *)
(* and changes nothing.                                                    *)
(***************************************************************************)
MWPutFrameBufferQueue(p) ==
    /\ pc[p] = "idle"
    /\ pc_framebuffer
    /\ puts[p] < MaxPuts
    /\ puts' = [puts EXCEPT ![p] = @ + 1]
    /\ Goto(p, IF m_map_mode = "IMMEDIATE" THEN "imm_lock_full" ELSE "lock_free")
    /\ UNCHANGED <<poolVars, queueVars, m_lock_free, m_lock_full, m_lock,
                   frameVars, t_p_frame, history>>

\* Where a producer goes when it found the free queue empty: MAILBOX and
\* RELAXED_FIFO turn to the full queue, the others give up with BUF_NONE.
NoFreeFrame(p) ==
    \/ m_map_mode = "MAILBOX" /\ Goto(p, "mb_lock_full") /\ UNCHANGED t_p_frame
    \/ m_map_mode = "RELAXED_FIFO" /\ Goto(p, "rx_lock_full") /\ UNCHANGED t_p_frame
    \/ m_map_mode \in {"FIFO", "IMMEDIATE"} /\ Return(p)

TakeFree(p) ==
    /\ pc[p] = "take_free"
    /\ \/ /\ m_queue_free # <<>>
          /\ t_p_frame' = [t_p_frame EXCEPT ![p] = Head(m_queue_free)]
          /\ m_queue_free' = Tail(m_queue_free)
          /\ Goto(p, "lock_frame")
       \/ /\ m_queue_free = <<>>
          /\ NoFreeFrame(p)
          /\ UNCHANGED m_queue_free
    /\ m_lock_free' = NoThread
    /\ UNCHANGED <<poolVars, m_queue_full, m_lock_full, m_lock, frameVars,
                   puts, history>>

Push(p, from) ==
    /\ pc[p] = from
    /\ m_queue_full' = Append(m_queue_full, t_p_frame[p])
    /\ m_lock_full' = NoThread
    /\ Publish(p)
    /\ Return(p)
    /\ UNCHANGED <<poolVars, m_queue_free, m_lock_free, m_lock, frameVars, puts>>

\* A free buffer was found: fill it and append it to the full queue.
PutIntoFree(p) ==
    \/ LockFree(p, "lock_free", "take_free")
    \/ TakeFree(p)
    \/ StartFill(p, "lock_frame", "fill")
    \/ EndFill(p, "fill", "lock_full")
    \/ LockFull(p, "lock_full", "push")
    \/ Push(p, "push")

(***************************************************************************)
(* MW_QUEUE_IMMEDIATE: a waiting frame is overwritten and every other      *)
(* waiting frame recycled, all under m_lock_full.                          *)
(***************************************************************************)
\* Mutant of ImmediateFront: prefers a free buffer, as MAILBOX does.
ImmediateFrontPrefersFree(p) ==
    /\ pc[p] = "imm_front"
    /\ m_lock_full' = NoThread
    /\ Goto(p, "lock_free")
    /\ UNCHANGED <<poolVars, queueVars, m_lock_free, m_lock, frameVars,
                   t_p_frame, puts, history>>

ImmediateFront(p) ==
    /\ pc[p] = "imm_front"
    /\ \/ /\ m_queue_full # <<>>
          /\ t_p_frame' = [t_p_frame EXCEPT ![p] = Head(m_queue_full)]
          /\ m_queue_full' = Tail(m_queue_full)
          /\ Goto(p, "imm_lock_frame")
          /\ UNCHANGED m_lock_full
       \/ /\ m_queue_full = <<>>
          /\ m_lock_full' = NoThread
          /\ Goto(p, "lock_free")
          /\ UNCHANGED <<t_p_frame, m_queue_full>>
    /\ UNCHANGED <<poolVars, m_queue_free, m_lock_free, m_lock, frameVars,
                   puts, history>>

\* Mutants of ImmediateDrain: the waiting buffers are popped but not freed;
\* the new frame is pushed before the queue is drained.
ImmediateDrainLeaks(p) ==
    /\ pc[p] = "imm_drain"
    /\ m_queue_full' = <<t_p_frame[p]>>
    /\ m_lock_free' = NoThread
    /\ m_lock_full' = NoThread
    /\ Publish(p)
    /\ Return(p)
    /\ UNCHANGED <<poolVars, m_queue_free, m_lock, frameVars, puts>>

ImmediateDrainLast(p) ==
    /\ pc[p] = "imm_drain"
    /\ m_queue_free' = Append(m_queue_free \o m_queue_full, t_p_frame[p])
    /\ m_queue_full' = <<>>
    /\ m_lock_free' = NoThread
    /\ m_lock_full' = NoThread
    /\ Publish(p)
    /\ Return(p)
    /\ UNCHANGED <<poolVars, m_lock, frameVars, puts>>

ImmediateDrain(p) ==
    /\ pc[p] = "imm_drain"
    /\ m_queue_free' = m_queue_free \o m_queue_full
    /\ m_queue_full' = <<t_p_frame[p]>>
    /\ m_lock_free' = NoThread
    /\ m_lock_full' = NoThread
    /\ Publish(p)
    /\ Return(p)
    /\ UNCHANGED <<poolVars, m_lock, frameVars, puts>>

PutImmediate(p) ==
    \/ LockFull(p, "imm_lock_full", "imm_front")
    \/ ImmediateFront(p)
    \/ StartFill(p, "imm_lock_frame", "imm_fill")
    \/ EndFill(p, "imm_fill", "imm_lock_free")
    \/ LockFree(p, "imm_lock_free", "imm_drain")
    \/ ImmediateDrain(p)

(***************************************************************************)
(* MW_QUEUE_MAILBOX without a free buffer: the oldest waiting frame is     *)
(* overwritten, the others recycled, and the frame pushed in a critical    *)
(* section of its own.                                                     *)
(***************************************************************************)
\* Mutant of MailboxPop: gives up without releasing m_lock_full.
MailboxPopKeepsLock(p) ==
    /\ pc[p] = "mb_pop"
    /\ \/ /\ m_queue_full # <<>>
          /\ t_p_frame' = [t_p_frame EXCEPT ![p] = Head(m_queue_full)]
          /\ m_queue_full' = Tail(m_queue_full)
          /\ m_lock_full' = NoThread
          /\ Goto(p, "mb_lock_frame")
       \/ /\ m_queue_full = <<>>
          /\ Return(p)
          /\ UNCHANGED <<m_queue_full, m_lock_full>>
    /\ UNCHANGED <<poolVars, m_queue_free, m_lock_free, m_lock, frameVars,
                   puts, history>>

MailboxPop(p) ==
    /\ pc[p] = "mb_pop"
    /\ \/ /\ m_queue_full # <<>>
          /\ t_p_frame' = [t_p_frame EXCEPT ![p] = Head(m_queue_full)]
          /\ m_queue_full' = Tail(m_queue_full)
          /\ Goto(p, "mb_lock_frame")
       \/ /\ m_queue_full = <<>>
          /\ Return(p)
          /\ UNCHANGED m_queue_full
    /\ m_lock_full' = NoThread
    /\ UNCHANGED <<poolVars, m_queue_free, m_lock_free, m_lock, frameVars,
                   puts, history>>

MailboxDrain(p) ==
    /\ pc[p] = "mb_drain"
    /\ m_queue_free' = m_queue_free \o m_queue_full
    /\ m_queue_full' = <<>>
    /\ m_lock_free' = NoThread
    /\ m_lock_full' = NoThread
    /\ Goto(p, "mb_lock_push")
    /\ UNCHANGED <<poolVars, m_lock, frameVars, t_p_frame, puts, history>>

PutMailbox(p) ==
    \/ LockFull(p, "mb_lock_full", "mb_pop")
    \/ MailboxPop(p)
    \/ StartFill(p, "mb_lock_frame", "mb_fill")
    \/ EndFill(p, "mb_fill", "mb_drain_full")
    \/ LockFull(p, "mb_drain_full", "mb_drain_free")
    \/ LockFree(p, "mb_drain_free", "mb_drain")
    \/ MailboxDrain(p)
    \/ LockFull(p, "mb_lock_push", "mb_push")
    \/ Push(p, "mb_push")

(***************************************************************************)
(* MW_QUEUE_RELAXED_FIFO without a free buffer: the newest waiting frame   *)
(* is overwritten where it stands, under m_lock_full.                      *)
(***************************************************************************)
\* Mutants of RelaxedBack: releases m_lock_full before it takes the buffer's
\* mutex; overwrites the oldest waiting frame.
RelaxedBackUnlocks(p) ==
    /\ pc[p] = "rx_back"
    /\ \/ /\ m_queue_full # <<>>
          /\ t_p_frame' = [t_p_frame EXCEPT ![p] = Last(m_queue_full)]
          /\ Goto(p, "rx_lock_frame")
       \/ m_queue_full = <<>> /\ Return(p)
    /\ m_lock_full' = NoThread
    /\ UNCHANGED <<poolVars, queueVars, m_lock_free, m_lock, frameVars, puts,
                   history>>

RelaxedFront(p) ==
    /\ pc[p] = "rx_back"
    /\ \/ /\ m_queue_full # <<>>
          /\ t_p_frame' = [t_p_frame EXCEPT ![p] = Head(m_queue_full)]
          /\ Goto(p, "rx_lock_frame")
          /\ UNCHANGED m_lock_full
       \/ /\ m_queue_full = <<>>
          /\ m_lock_full' = NoThread
          /\ Return(p)
    /\ UNCHANGED <<poolVars, queueVars, m_lock_free, m_lock, frameVars, puts,
                   history>>

RelaxedBack(p) ==
    /\ pc[p] = "rx_back"
    /\ \/ /\ m_queue_full # <<>>
          /\ t_p_frame' = [t_p_frame EXCEPT ![p] = Last(m_queue_full)]
          /\ Goto(p, "rx_lock_frame")
          /\ UNCHANGED m_lock_full
       \/ /\ m_queue_full = <<>>
          /\ m_lock_full' = NoThread
          /\ Return(p)
    /\ UNCHANGED <<poolVars, queueVars, m_lock_free, m_lock, frameVars, puts,
                   history>>

RelaxedFilled(p) ==
    /\ pc[p] = "rx_fill"
    /\ FinishFill(p)
    /\ m_lock_full' = NoThread
    /\ Publish(p)
    /\ Return(p)
    /\ UNCHANGED <<poolVars, queueVars, m_lock_free, m_extent, puts>>

PutRelaxed(p) ==
    \/ LockFull(p, "rx_lock_full", "rx_back")
    \/ RelaxedBack(p)
    \/ StartFill(p, "rx_lock_frame", "rx_fill")
    \/ RelaxedFilled(p)

(***************************************************************************)
(* render_frame: get_frame_buffer, render under m_lock, put_frame_buffer.  *)
(* The buffer goes back whatever render returns.  render_frame does not    *)
(* test pc_framebuffer, so the application calls it only with a pool.      *)
(***************************************************************************)
MWRenderFrame(r) ==
    /\ pc[r] = "idle"
    /\ pc_framebuffer
    /\ Goto(r, "get_lock_full")
    /\ UNCHANGED <<poolVars, queueVars, m_lock_free, m_lock_full, m_lock,
                   frameVars, t_p_frame, puts, history>>

\* Mutants of GetFrameBuffer: reads the front without popping it; takes the
\* newest frame; keeps one frame back.
GetFrameBufferPeeks(r) ==
    /\ pc[r] = "get"
    /\ \/ /\ m_queue_full # <<>>
          /\ t_p_frame' = [t_p_frame EXCEPT ![r] = Head(m_queue_full)]
          /\ Goto(r, "get_lock_frame")
       \/ m_queue_full = <<>> /\ Return(r)
    /\ m_lock_full' = NoThread
    /\ UNCHANGED <<poolVars, queueVars, m_lock_free, m_lock, frameVars, puts,
                   history>>

GetFrameBufferBack(r) ==
    /\ pc[r] = "get"
    /\ \/ /\ m_queue_full # <<>>
          /\ t_p_frame' = [t_p_frame EXCEPT ![r] = Last(m_queue_full)]
          /\ m_queue_full' = SubSeq(m_queue_full, 1, Len(m_queue_full) - 1)
          /\ LET v == m_p_data[Last(m_queue_full)] IN
             delivered' = [delivered EXCEPT ![v[1]] = v[2]]
          /\ Goto(r, "get_lock_frame")
       \/ /\ m_queue_full = <<>>
          /\ Return(r)
          /\ UNCHANGED <<m_queue_full, delivered>>
    /\ m_lock_full' = NoThread
    /\ UNCHANGED <<poolVars, m_queue_free, m_lock_free, m_lock, frameVars,
                   puts, published, newest>>

GetFrameBufferKeepsOne(r) ==
    /\ pc[r] = "get"
    /\ \/ /\ Len(m_queue_full) > 1
          /\ t_p_frame' = [t_p_frame EXCEPT ![r] = Head(m_queue_full)]
          /\ m_queue_full' = Tail(m_queue_full)
          /\ LET v == m_p_data[Head(m_queue_full)] IN
             delivered' = [delivered EXCEPT ![v[1]] = v[2]]
          /\ Goto(r, "get_lock_frame")
       \/ /\ Len(m_queue_full) <= 1
          /\ Return(r)
          /\ UNCHANGED <<m_queue_full, delivered>>
    /\ m_lock_full' = NoThread
    /\ UNCHANGED <<poolVars, m_queue_free, m_lock_free, m_lock, frameVars,
                   puts, published, newest>>

GetFrameBuffer(r) ==
    /\ pc[r] = "get"
    /\ \/ /\ m_queue_full # <<>>
          /\ t_p_frame' = [t_p_frame EXCEPT ![r] = Head(m_queue_full)]
          /\ m_queue_full' = Tail(m_queue_full)
          /\ LET v == m_p_data[Head(m_queue_full)] IN
             delivered' = [delivered EXCEPT ![v[1]] = v[2]]
          /\ Goto(r, "get_lock_frame")
       \/ /\ m_queue_full = <<>>
          /\ Return(r)
          /\ UNCHANGED <<m_queue_full, delivered>>
    /\ m_lock_full' = NoThread
    /\ UNCHANGED <<poolVars, m_queue_free, m_lock_free, m_lock, frameVars,
                   puts, published, newest>>

StartRender(r) ==
    LET f == t_p_frame[r] IN
    /\ pc[r] = "get_lock_frame"
    /\ m_lock[f] = NoThread
    /\ m_lock' = [m_lock EXCEPT ![f] = r]
    /\ Goto(r, "render")
    /\ UNCHANGED <<poolVars, queueVars, m_lock_free, m_lock_full, frameVars,
                   t_p_frame, puts, history>>

EndRender(r) ==
    /\ pc[r] = "render"
    /\ m_lock' = [m_lock EXCEPT ![t_p_frame[r]] = NoThread]
    /\ Goto(r, "put_lock_free")
    /\ UNCHANGED <<poolVars, queueVars, m_lock_free, m_lock_full, frameVars,
                   t_p_frame, puts, history>>

\* Mutant of PutFrameBuffer: a draw that fails returns without handing the
\* buffer back.
PutFrameBufferOrFail(r) ==
    /\ pc[r] = "put"
    /\ m_queue_free' \in {m_queue_free, Append(m_queue_free, t_p_frame[r])}
    /\ m_lock_free' = NoThread
    /\ Return(r)
    /\ UNCHANGED <<poolVars, m_queue_full, m_lock_full, m_lock, frameVars,
                   puts, history>>

PutFrameBuffer(r) ==
    /\ pc[r] = "put"
    /\ m_queue_free' = Append(m_queue_free, t_p_frame[r])
    /\ m_lock_free' = NoThread
    /\ Return(r)
    /\ UNCHANGED <<poolVars, m_queue_full, m_lock_full, m_lock, frameVars,
                   puts, history>>

RenderFrame(r) ==
    \/ LockFull(r, "get_lock_full", "get")
    \/ GetFrameBuffer(r)
    \/ StartRender(r)
    \/ EndRender(r)
    \/ LockFree(r, "put_lock_free", "put")
    \/ PutFrameBuffer(r)

(***************************************************************************)
(* The life of the pool.  create_framebuffer and destory_framebuffer take  *)
(* no mutex that would keep a put or a render out, so the application must *)
(* have none in progress: ClientQuiet is its side of the contract.         *)
(***************************************************************************)
ClientQuiet == \A t \in Threads : pc[t] = "idle"

\* Mutant of NewPool: queues one buffer more than it allocated.
NewPoolOneMore(n, mode) ==
    /\ m_map_mode' = mode
    /\ m_n_frame_count' = n
    /\ m_queue_free' = [i \in 1 .. n + 1 |-> i]
    /\ m_queue_full' = <<>>
    /\ m_state' = [f \in Frames |-> "FREE"]
    /\ m_extent' = [f \in Frames |-> NoValue]
    /\ m_p_data' = [f \in Frames |-> NoValue]
    /\ newest' = NoValue
    /\ UNCHANGED <<m_lock_free, m_lock_full, m_lock, pc, t_p_frame, puts,
                   published, delivered>>

\* No pool, or a pool whose queues, mutexes and buffers are new.
NewPool(n, mode) ==
    /\ m_map_mode' = mode
    /\ m_n_frame_count' = n
    /\ m_queue_free' = [i \in 1 .. n |-> i]
    /\ m_queue_full' = <<>>
    /\ m_state' = [f \in Frames |-> "FREE"]
    /\ m_extent' = [f \in Frames |-> NoValue]
    /\ m_p_data' = [f \in Frames |-> NoValue]
    /\ newest' = NoValue
    /\ UNCHANGED <<m_lock_free, m_lock_full, m_lock, pc, t_p_frame, puts,
                   published, delivered>>

\* A pool that exists is destroyed first.  A mode that is none of the four,
\* or an allocation that fails, leaves no pool.
MWCreateFrameBuffer ==
    /\ ClientQuiet
    /\ \/ /\ pc_framebuffer' = TRUE
          /\ \E n \in FrameCounts, mode \in QueueModes : NewPool(n, mode)
       \/ /\ pc_framebuffer' = FALSE
          /\ NewPool(0, m_map_mode)

MWDestoryFrameBuffer ==
    /\ ClientQuiet
    /\ pc_framebuffer
    /\ pc_framebuffer' = FALSE
    /\ NewPool(0, m_map_mode)

-----------------------------------------------------------------------------
Init ==
    /\ pc_framebuffer = FALSE
    /\ m_map_mode \in QueueModes
    /\ m_n_frame_count = 0
    /\ m_queue_free = <<>>
    /\ m_queue_full = <<>>
    /\ m_lock_free = NoThread
    /\ m_lock_full = NoThread
    /\ m_lock = [f \in Frames |-> NoThread]
    /\ m_state = [f \in Frames |-> "FREE"]
    /\ m_extent = [f \in Frames |-> NoValue]
    /\ m_p_data = [f \in Frames |-> NoValue]
    /\ pc = [t \in Threads |-> "idle"]
    /\ t_p_frame = [t \in Threads |-> NoFrame]
    /\ puts = [p \in Producers |-> 0]
    /\ published = [p \in Producers |-> 0]
    /\ delivered = [p \in Producers |-> 0]
    /\ newest = NoValue

\* The steps inside a call, as against the start of one.
PutSteps(p) == PutIntoFree(p) \/ PutImmediate(p) \/ PutMailbox(p) \/ PutRelaxed(p)

Next ==
    \/ \E p \in Producers : MWPutFrameBufferQueue(p) \/ PutSteps(p)
    \/ \E r \in Renderers : MWRenderFrame(r) \/ RenderFrame(r)
    \/ MWCreateFrameBuffer
    \/ MWDestoryFrameBuffer

Spec == Init /\ [][Next]_vars

(***************************************************************************)
(* Fairness.  A thread inside a call runs on, and a thread that waits for  *)
(* a mutex released again and again gets it in the end (the mutexes are    *)
(* assumed free of starvation).  The application goes on drawing, as its   *)
(* display loop does; it need not put frames, create or destroy pools.     *)
(***************************************************************************)
Fairness ==
    /\ \A p \in Producers : SF_vars(PutSteps(p))
    /\ \A r \in Renderers : SF_vars(RenderFrame(r)) /\ WF_vars(MWRenderFrame(r))

FairSpec == Spec /\ Fairness

-----------------------------------------------------------------------------
(***************************************************************************)
(* Types, and what holding a mutex or a buffer means.                      *)
(***************************************************************************)
TypeOK ==
    /\ pc_framebuffer \in BOOLEAN
    /\ m_map_mode \in Modes
    /\ m_n_frame_count \in 0 .. MaxFrames
    /\ m_queue_free \in Seq(Frames)
    /\ m_queue_full \in Seq(Frames)
    /\ m_lock_free \in Threads \cup {NoThread}
    /\ m_lock_full \in Threads \cup {NoThread}
    /\ m_lock \in [Frames -> Threads \cup {NoThread}]
    /\ m_state \in [Frames -> {"FREE", "FILLING", "FILLED"}]
    /\ m_extent \in [Frames -> Values \cup {NoValue}]
    /\ m_p_data \in [Frames -> Values \cup {NoValue}]
    /\ pc \in [Threads -> Labels]
    /\ t_p_frame \in [Threads -> Frames \cup {NoFrame}]
    /\ puts \in [Producers -> 0 .. MaxPuts]
    /\ published \in [Producers -> 0 .. MaxPuts]
    /\ delivered \in [Producers -> 0 .. MaxPuts]
    /\ newest \in Values \cup {NoValue}

\* The labels at which a thread holds each mutex.
HoldsFull == {"imm_front", "imm_lock_frame", "imm_fill", "imm_lock_free",
              "imm_drain", "mb_pop", "mb_drain_free", "mb_drain", "rx_back",
              "rx_lock_frame", "rx_fill", "push", "mb_push", "get"}
HoldsFree == {"take_free", "imm_drain", "mb_drain", "put"}
Fills == {"fill", "imm_fill", "mb_fill", "rx_fill"}
HoldsFrame == Fills \cup {"render"}

\* The labels at which a thread has taken its buffer out of both queues,
\* and those at which it works on a buffer that stays in the full queue.
WaitsForFrame == {"lock_frame", "imm_lock_frame", "mb_lock_frame"}
HasFilled == {"lock_full", "push", "imm_lock_free", "imm_drain",
              "mb_drain_full", "mb_drain_free", "mb_drain",
              "mb_lock_push", "mb_push"}
Draws == {"get_lock_frame", "render"}
InHand == WaitsForFrame \cup {"fill", "imm_fill", "mb_fill"} \cup HasFilled
          \cup Draws \cup {"put_lock_free", "put"}
InPlace == {"rx_lock_frame", "rx_fill"}

\* The buffers some call has for itself, those of a queue, and the queues
\* without repetition.
Owned == {t_p_frame[t] : t \in {u \in Threads : pc[u] \in InHand}}
InQueue(q) == {q[i] : i \in 1 .. Len(q)}
Distinct(q) == \A i, j \in 1 .. Len(q) : q[i] = q[j] => i = j

OneHandPerFrame ==
    \A t, u \in Threads :
        pc[t] \in InHand /\ pc[u] \in InHand /\ t_p_frame[t] = t_p_frame[u] => t = u

\* A buffer whose size and pixels come from one and the same put.
Whole(f) ==
    /\ m_state[f] = "FILLED"
    /\ m_extent[f] = m_p_data[f]
    /\ m_p_data[f] \in Values

(***************************************************************************)
(* Safety.                                                                 *)
(***************************************************************************)
\* No buffer is lost: whatever the interleaving of puts, draws and drains of
\* the full queue, each buffer of the pool is in a queue or in the hands of
\* the one call that will put it into one (put_frame_data, render_frame).
NoFrameLost ==
    1 .. m_n_frame_count = InQueue(m_queue_free) \cup InQueue(m_queue_full) \cup Owned

\* No buffer has two owners: it is at most once in one queue, and a call that
\* has taken it out has it alone.  Two owners would copy or draw at once, or
\* queue one buffer twice.
NoFrameShared ==
    /\ Distinct(m_queue_free)
    /\ Distinct(m_queue_full)
    /\ InQueue(m_queue_free) \cap InQueue(m_queue_full) = {}
    /\ Owned \cap (InQueue(m_queue_free) \cup InQueue(m_queue_full)) = {}
    /\ OneHandPerFrame

\* What render_frame draws is one whole frame: the size it copies out of the
\* buffer (MWVideoRender.cpp:2004) and the pixels come from the same put, and
\* no put writes the buffer while it is drawn.
RenderWhole == \A r \in Renderers : pc[r] = "render" => Whole(t_p_frame[r])

\* The mutex of a buffer is never contended: whoever is about to take it finds
\* it free.  Two of the three places that wait for it hold m_lock_full, where
\* waiting would stop every other put and draw for the length of a copy or of
\* a draw.
FrameLockUncontended ==
    \A t \in Threads :
        pc[t] \in WaitsForFrame \cup {"rx_lock_frame", "get_lock_frame"} =>
            m_lock[t_p_frame[t]] = NoThread

\* IMMEDIATE keeps no backlog: producers that found the full queue empty may
\* still append behind one another, so the latency bound the mode gives is one
\* waiting frame per producer thread.
ImmediateBacklog ==
    m_map_mode = "IMMEDIATE" => Len(m_queue_full) <= Cardinality(Producers)

\* IMMEDIATE never refuses a frame (BUF_NONE at mwvideoframebuffer.cpp:213)
\* in a pool of one buffer per thread: what is not free is waiting, being
\* filled or being drawn, and the waiting ones are bounded as above.
ImmediateNeverRefuses ==
    /\ m_map_mode = "IMMEDIATE"
    /\ m_n_frame_count >= Cardinality(Threads)
    => \A p \in Producers : pc[p] = "take_free" => m_queue_free # <<>>

\* A step never delivers an old frame: for each producer the frames leave the
\* full queue for a renderer (get_frame_buffer) in the order it put them, with
\* gaps where the mode discards, however the buffers were recycled in between.
\* With one display thread, as the GL context wants it, they are drawn in the
\* order in which they leave; two could overtake each other afterwards.
DeliveryInOrder ==
    [][\A p \in Producers : delivered'[p] # delivered[p] =>
            delivered[p] < delivered'[p] /\ delivered'[p] <= published[p]]_vars

(***************************************************************************)
(* What the safety properties rest on: an invariant that every step keeps. *)
(***************************************************************************)
\* A mutex has exactly the owner whose label says it holds it.
FullMutexHeld == \A t \in Threads : m_lock_full = t <=> pc[t] \in HoldsFull
FreeMutexHeld == \A t \in Threads : m_lock_free = t <=> pc[t] \in HoldsFree
FrameMutexesHeld ==
    \A t \in Threads, f \in Frames :
        m_lock[f] = t <=> pc[t] \in HoldsFrame /\ t_p_frame[t] = f

\* A thread that works on a buffer has one; RELAXED_FIFO works on the last
\* buffer of the full queue, which nobody else can move.
BuffersHeld ==
    /\ \A t \in Threads : pc[t] \in InHand \cup InPlace => t_p_frame[t] \in Frames
    /\ \A t \in Threads : pc[t] \in InPlace =>
          m_queue_full # <<>> /\ t_p_frame[t] = Last(m_queue_full)

\* Every waiting buffer is whole, except the one being overwritten in place;
\* so is every buffer in the hands of a call that has filled or draws it.  A
\* put that copies has set the size of its own frame.
ContentsKnown ==
    /\ \A i \in 1 .. Len(m_queue_full) :
          \/ Whole(m_queue_full[i])
          \/ \E p \in Producers : pc[p] = "rx_fill" /\ t_p_frame[p] = m_queue_full[i]
    /\ \A t \in Threads : pc[t] \in HasFilled \cup Draws => Whole(t_p_frame[t])
    /\ \A p \in Producers : pc[p] \in Fills => m_extent[t_p_frame[p]] = Value(p)

PutsCounted == \A p \in Producers : pc[p] # "idle" => puts[p] \in 1 .. MaxPuts

IInv ==
    /\ TypeOK
    /\ FullMutexHeld
    /\ FreeMutexHeld
    /\ FrameMutexesHeld
    /\ BuffersHeld
    /\ NoFrameLost
    /\ NoFrameShared
    /\ ContentsKnown
    /\ PutsCounted

(***************************************************************************)
(* Liveness, under FairSpec.                                               *)
(***************************************************************************)
\* Every call returns: no order of the three kinds of mutex (m_lock_full
\* before m_lock, m_lock_full before m_lock_free) stops one thread for good,
\* the case where others go on included.
CallsReturn == \A t \in Threads : pc[t] # "idle" ~> pc[t] = "idle"

\* The frame queued last is drawn, or replaced by a newer one, or its pool
\* goes away: it does not stay in the queue, or in nobody's hands, for ever.
NewestIsDrawn ==
    \A v \in Values :
        newest = v ~> (newest # v \/ delivered[v[1]] >= v[2])

(***************************************************************************)
(* The promise of each queue mode, FrameStream, and how the pool keeps it: *)
(* what waits is the contents of the buffers of the full queue, and a      *)
(* producer owes a frame from the moment it takes one out of that queue.   *)
(***************************************************************************)
Indebted == {p \in Producers :
    pc[p] \in {"imm_lock_frame", "imm_fill", "imm_lock_free", "imm_drain"}
        \cup {"mb_lock_frame", "mb_fill", "mb_drain_full", "mb_drain_free",
              "mb_drain", "mb_lock_push", "mb_push"}}

Stream == INSTANCE FrameStream WITH
    mode <- m_map_mode,
    pending <- [i \in 1 .. Len(m_queue_full) |-> m_p_data[m_queue_full[i]]],
    indebted <- Indebted,
    Modes <- QueueModes

\* The newest frame survives every recycling of the full queue (MAILBOX and
\* IMMEDIATE empty it, RELAXED_FIFO overwrites its end): while no producer
\* owes a frame, the one queued last was drawn or is the last one waiting.
NewestSurvives == Stream!NewestKept

\* The pool implements FrameStream: FIFO draws every queued frame in order,
\* RELAXED_FIFO replaces only the newest, MAILBOX and IMMEDIATE discard only
\* on behalf of a producer that adds a newer frame.
ImplementsStream == Stream!Spec

(***************************************************************************)
(* What the comment "There is no free buffer available" says where a put   *)
(* of MAILBOX or RELAXED_FIFO turns to the full queue and may give up with *)
(* MW_VIDEORENDER_BUF_NONE: it gives up only when no buffer is free.       *)
(***************************************************************************)
NoneMeansNoFreeBuffer ==
    [][\A p \in Producers :
          pc[p] \in {"mb_pop", "rx_back"} /\ pc'[p] = "idle" => m_queue_free = <<>>]_vars
=============================================================================
