# A verification of the OpenGL video renderer

TLA+ models of LibMWVideoRender (`src/src`, `src/Include`), the TLC runs that
check them and the theorems TLAPS proves about them.  The library draws raw
video frames with OpenGL.  An application creates a renderer, probes the
device, opens a session, creates a pool of frame buffers, and then has capture
threads put frames into the pool while a display thread draws them.

## The system

| component | source | state | operations | model |
|---|---|---|---|---|
| frame buffer pool | `mwvideoframebuffer.cpp/.h` | two queues of buffers, a mutex for each, a mutex, a state, a size and pixels per buffer, the queue mode | put a frame, take the next one, hand it back, create, destroy | `FramePool`, `FrameStream`; the object's life in `PoolLife` |
| renderer sessions | `MWVideoRender.cpp`, `CGLRender` | names of GL objects, mapped buffers, flags and counts, the pool | probe, open, Close, CleanUp, create and destroy the pool | `GLRender`; flags and CUDA resource in `Upload` |
| public API | `LibMWVideoRender.cpp/.h` | none of its own | one function per operation, NULL test, then the call | action names of all modules |
| render and upload | `render`, `render_frame` | current texture size, a CUDA resource | upload and draw a frame | `Upload`, `FrameSize`; `render_frame` in `FramePool` |
| frame sizes | `mwcalacsize.h`, parts of `open` | none | stride, image size, size of a mapped buffer | `FrameSize` |
| CUDA device choice | `nvGetMaxGflopsDeviceId` | none | pick a device | `DeviceSelect` |
| display, screenshot, context | `display`, `setinterval`, `screenshot`, `init_context` | window handles | calls into GL and the window system | failing or not in `MWInitRender`; else not modelled |
| shaders, colour matrices | `MWVideoRender.h`, end of `open` | none | GLSL text, floating point | not modelled |

How they meet.  The API functions are plain calls on one `CGLRender`.  All but
one of them need the GL context, so they come from the thread that has it; the
exception is `MWPutFrameBufferQueue`, which any thread may call.  The pool is
thus the only part with concurrency, and its mutexes the only synchronisation
of the program; the pointer to it, `pc_framebuffer`, has none.  The pool's buffers are either `malloc`ed or the mapped memory
of GL, AMD, INTEL or CUDA objects that the session owns: the pool borrows
memory whose life `CleanUp` decides.

What is hard: the four queue modes share two queues and take up to three
mutexes, in branches written out one by one (about 300 lines in
`put_frame_data`); `open` has some thirty returns, and what it leaves behind is
found only by a later `CleanUp`; several members survive `Close` (`gl_map_mode`,
`b_alloc_buf`, `u8_buf_num`, `pptr`, the CUDA handle) and shape the next
session; a draw in the NVIDIA mode makes up to five CUDA calls and returns at the
first that fails; and the size of a frame is computed in four places.
There is no persistence and no network, so no recovery, no loss of messages and
no timeouts.

## FramePool: the pool at the granularity of its mutexes

A step ends where the code takes or releases a mutex.  `pc[t]` is the next step
of thread t's call, `t_p_frame[t]` its local of that name.  Taking a mutex is a
step (`LockFull`, `LockFree`); what is done with the queues under mutexes
already held, up to the release, is one step.  A buffer's mutex is taken
together with the first writes under it, and the `memcpy` has a state in its
middle (labels `fill`, `imm_fill`, `mb_fill`, `rx_fill`).

| code | model |
|---|---|
| `m_queue_free`, `m_queue_full`, `m_lock_*`, `m_map_mode`, `m_n_frame_count` | the variables of those names; a mutex is its owner |
| `m_width`, `m_height` | `m_extent[f]`: the put that wrote them |
| `*m_p_data` | `m_p_data[f]`: the put whose copy finished last |
| a free buffer is found, all modes | `PutIntoFree` |
| `MW_QUEUE_IMMEDIATE` | `PutImmediate`, then `PutIntoFree` if nothing waits |
| `MW_QUEUE_MAILBOX`, free queue empty | `PutMailbox` |
| `MW_QUEUE_RELAXED_FIFO`, free queue empty | `PutRelaxed` |
| `render_frame`, `get_frame_buffer`, `put_frame_buffer` | `RenderFrame` and its steps |
| `create_framebuffer`, `destory_framebuffer` | `MWCreateFrameBuffer`, `MWDestoryFrameBuffer` |

`published`, `delivered`, `newest` and `puts` are history: the last put of each
producer that entered the full queue and that left it for a renderer, the frame
that entered last, and a counter that makes every frame different.

Contract.  `create_framebuffer` and `destory_framebuffer` take no mutex that
would keep a put or a draw out, and `render_frame` does not test the pool.  The
model therefore creates and destroys pools only while no call is in progress
(`ClientQuiet`) and draws only from a pool that exists.  `PoolLife` is about
that contract.

Not modelled here: a put of no data or of too much (it returns before it
touches anything; `FrameSize` has the check), the pixels, and what `render` does
with them (`Upload`).

`DeliveryInOrder` is about the order in which frames leave the full queue for a
renderer (`get_frame_buffer`).  With one display thread, which is all the GL context
allows, it is the order of drawing; the instance has two renderers and they may
overtake each other after that.

### FrameStream: what each queue mode promises

No buffers, mutexes or calls: a sequence of pending frames.  FIFO discards
nothing; RELAXED_FIFO may replace the newest pending frame where it stands;
MAILBOX may discard the oldest, and then all, on behalf of a producer that owes
a newer frame; IMMEDIATE may take the oldest and replaces everything by the new
frame.  In MAILBOX the discarding and the new frame are two steps of the code,
with room for others in between; `indebted` is the set of producers in that gap.
`FramePool` implements it (`ImplementsStream`): pending is the contents of the
buffers in the full queue, and a producer is indebted while its label says it
has taken a waiting frame out and not yet queued its own.

## GLRender: what a renderer holds, however far open gets

Each GL or CUDA call whose result `open` tests is a step that succeeds or
fails, chosen freely.  `name[k]` is what the member k holds, `gl[n]` the kind of
the object called n, and a new name is the smallest unused one, since drivers
reuse names (which is what makes a dangling name dangerous).  `pptr[i]` is
what the i-th pointer points to: an allocated block ("live"), memory that goes
away with its GL object ("mapping"), or "unset", "freed", "corrupt" (freed when
it must not be).

| code | model |
|---|---|
| `CGLRender::CGLRender` | `MWCreateVideoRender` |
| `deviceinfo`: probe GL, AMD, INTEL, NVIDIA | `MWVideoDeviceInfo`: any subset works, the NVIDIA probe may stop half way |
| `open` up to its first GL object | `MWInitRender`, `OpenChecks`, `Narrowed`, `Refuses` |
| `open`, object by object | `Open` and its actions, in the order of the code |
| `CleanUp` 83-135, 137-141, 143-174 | `DeleteObjects` (within `Fail`, `Close`, `Destructor`), `DropPool`, `FreeMappings` |
| `Close`, `~CGLRender` | `Close`, `Destructor` |
| `create_framebuffer`, `destory_framebuffer` | the actions of the API's names |

Contract.  One thread, one GL context.  The application probes and opens only
when nothing is open or half open, i.e. after creation or after
`MWDeInitRender` (`fresh`).  `open` and `deviceinfo` do not enforce it.

`CleanUp` is three steps because of the pool it drops in the middle.  The GL names
go first, and with them the memory INTEL and GL mapped, while the pool still has
copies of both; then the pool; then the blocks of AMD.  `PoolUsesLiveMemory` says
that between calls a pool over mapped buffers has names and memory that exist, and
that the blocks `CleanUp` frees itself are freed when no pool has them.  It does not
say that the names outlive the pool: they do not.

Simplified.  The object and the pointer of one mapped slot are made in one step,
because a failure between the two ends in `CleanUp`, which deletes the object.
Members that nothing ever assigns (`glu32_fbo`, `glu32_rbo`) are left out, and
so are checks of sizes and colour spaces but for the fact that they may fail.

## PoolLife: the object behind pc_framebuffer

`pc_framebuffer` is read by every put and written by the GL thread, with no
mutex.  Each read and write of it is a step.  `heap` says of each address what
is there: nothing, an object `new` has constructed ("raw"), one
`create_frame_buffer` has completed ("ready"), or one `destory_frame_buffer` has
emptied ("destoryed").  What a put does in a ready pool is `FramePool`'s
business; here it enters and leaves.

| code | model |
|---|---|
| `create_framebuffer` 1941-1944, 1946, 1952-1977, 1978-1979 | `DropPool` (1942), `ReplacePool` (1943), `NewPool`, `FillPool`, `DeletePool` and `ForgetPool` |
| `destory_framebuffer`, the same lines of `CleanUp` | `EmptyPool`, `DeletePool`, `ForgetPool` |
| `putframedata`: the test, the second read, the return | `MWPutFrameBufferQueue`, `EnterPool`, `LeavePool` |
| `render_frame` | `MWRenderFrame`, `FrameDrawn` |

`EnterPool` may use the pointer it tested or read it again, as a compiler may
for two unsynchronised reads.  `Overlap` is the contract: the calls of the GL
thread the application lets run during a put.  With none, nobody ever works on an
incomplete pool (proved); with "create", a put does (`life_early`).  With
"destory" or "close" the same property fails in the evident way.

## Upload: from the frame to the screen

The texture at unit 0 and what a draw puts in it.  `texture0` is the frame in
it, `shown` the frame on the screen, `draws` the number of the draw and of its
frame.  `resource` is the CUDA runtime's table: which texture a handle was
registered for, and whether it is mapped.  A CUDA call fails when its handle is
in the wrong state (mapped twice, not mapped, not registered), and, where
`CallsFail` (chosen initially), at any time; the code then returns.

| code | model |
|---|---|
| `render` 1352-1368, its branch on `b_alloc_buf`, `glvar`, `gl_map_mode` | `MWRenderFrame`, `UploadFrame` |
| 1568-1648, call by call | `RegisterImage`, `MapResources`, `GetMappedArray`, `CopyToArray`, `UnmapResources`, `UnregisterResource` |
| 1899-1906 | `DrawArrays` |
| the NVIDIA probe of `deviceinfo` 405-481 | `MWVideoDeviceInfo`, then the same CUDA steps with `caller` = "probe" |
| `open` up to its texture, its buffers, its end | `MWInitRender`, `AllocBuffers`, `FinishOpen` |
| `CleanUp` 143-171, `Close`, destructor | `CleanUp`, `Close`, `Destructor` |

`HonestDrawIsShown` is the main result: neither a failed call of this draw, nor
anything an earlier draw, session or probe left mapped or registered, makes a
draw report success without its frame on the screen.  It depends on every return
code being looked at, and on `b_alloc_buf` being true to the session (which a
second session breaks, `upload_second_session`).

Contract as in `GLRender` (`fresh`).  Simplified: a draw is of data, its frame is
whole; the objects `open` makes besides are `GLRender`'s; the chroma planes
always come from the caller's memory and are left out.

## FrameSize: four computations of one size

`open` computes `frame_size`, the bytes of a mapped buffer; `create_framebuffer`
computes `m_u32_size` with `fmt_calcminstride` and `fmt_calcimagesize`, rows
rounded up to 4 bytes; `put_frame_data` compares a frame's size with the latter;
`render` hands GL or CUDA a pointer, a width and a height for each plane.  The
module computes all of them over every format, with `int` and `uint32_t` of
`Word` values, and keeps the state that ties them together: a resized draw
changes `u32_tex_width` and `u32_tex_height`, from which a later pool is sized.
`reads` is the set of planes the last draw read (offset, row, pitch, number of
rows) and `held` the bytes of the memory they were read from.

`put_frame_data` takes a frame's bytes and its dimensions as arguments that nothing
relates: it compares the bytes with `m_u32_size` and stores the dimensions, 1920 by
1080 if the caller leaves them out.  `PutFrame(size, bytes)` takes any dimensions with
the bytes of any other size (`DataSizes`), and a session that resizes draws the
dimensions (`DrawnSize`).  That a draw stays within its memory is then true on a
condition only, for which two history variables are kept: `pool_size`, the size the
pool was created for, and `described`, whether the bytes told are enough for the
dimensions drawn or these are within `pool_size`.  `UploadInBounds` says that a draw
reads within its memory if the buffers are mapped, whatever the application told, or
if the frame is `described`.  Without the condition TLC finds the overrun at once: a
pool created for 2 by 2, a frame of 12 bytes told as 2 by 8.

GL reads rows at multiples of `GL_UNPACK_ALIGNMENT`, whose initial 4 nothing
changes; CUDA and the plane offsets of `render` know no gaps.  Where the rows of a
plane are no multiple of 4 bytes, GL reads past the plane's end by the gaps it leaves
between the rows, `Gaps(p)`.  `UploadInBounds` and `PlanesApart` hold at every size
and say that it reads no further; `frame_mapped` shows what the rounding costs a pool
over mapped buffers.  `PlanesApart` compares all planes of an unmapped frame and the
chroma planes of a mapped one: unit 0 of a mapped frame is the whole frame, and the
second plane of YUY2 and UYVY is the first one again, from offset 0.

## DeviceSelect: nvGetMaxGflopsDeviceId

An iteration of either loop is a step.  The record `deviceProp` is a variable of
the module because a failed query leaves in it what the last one wrote, or
initially anything.  `ChosenIsBest` states what the call is for without loops: an
allowed device, of the best architecture if any is newer than Fermi, none
faster, the first of equals; under the condition that every query was answered.

## The runs

| run | instance | what it shows |
|---|---|---|
| `pool_safety` | 2 producers of 2 puts each, 2 renderers, pools of 1 to 3 buffers, all modes | `NoFrameLost`, `NoFrameShared`, `RenderWhole`, `FrameLockUncontended`, `NewestSurvives`, `DeliveryInOrder` |
| `pool_promises` | 2 producers of 2 puts, 1 renderer, pools of 1 and 3, all modes, `FairSpec` | `ImmediateBacklog`: at most one waiting frame per producer; `ImmediateNeverRefuses`: with a buffer per thread no put gets `BUF_NONE`; `CallsReturn`, `NewestIsDrawn`; the pool implements `FrameStream` |
| `pool_spurious_none` | 1 producer, 1 renderer, MAILBOX, 1 buffer | violated: a put gives up although a buffer is free |
| `render_sessions` | 2 slots, up to 3 opens, one lost probe texture | `NoDanglingName`, `NoObjectLost`, `PoolUsesLiveMemory`, `OpenedIsComplete`, `MapModeSupported` |
| `render_freed_twice` | as above, one open | violated: AMD blocks are freed twice |
| `life_quiet` | 3 producers, 4 addresses, no overlap | `UsedPoolIsReady`, `PoolAsTold`, `NoPoolLost` |
| `life_early` | as above, puts during creation | violated: a put works on a pool without buffers |
| `upload_sessions` | 2 probes, 3 opens, 3 draws, 6 handles, every CUDA call may fail or none does | `HonestDrawIsShown`; without failures `OneRegistration`, `MappedOnlyInUpload` |
| `upload_second_session` | GL buffers only, 2 opens, 1 draw | violated: a draw shows nothing and succeeds |
| `frame_bounds` | 15 formats, sizes 2, 8 and 18, bytes and dimensions of a put chosen apart, textures up to 16, 13-bit words | `UploadInBounds`, `PlanesApart`, `PoolFitsBuffers`, `PoolTakesFrames` |
| `frame_mapped` | sizes 2 to 8 | violated: a pool accepts more than a mapped buffer holds |
| `device_best` | up to 3 devices of 7 kinds | `ChosenIsBest` |

Why the bounds are enough to be interesting.  The branches of the pool differ in
whether a buffer is free, waiting, being filled or being drawn.  With three
buffers and four threads all combinations occur, the pool runs dry, two
producers drain the full queue at once, and a buffer is recycled and refilled
while others wait.  Two puts per producer let a buffer come round again.
`MaxPuts` bounds a run's length only: a new pool may be created at any quiet
moment.  Threads are symmetric, which `pool_safety` uses; `pool_promises` cannot,
because of its liveness.  Its pool of three is one buffer per thread, the least
for which IMMEDIATE promises not to refuse.  In
`GLRender` two slots let the loop over the buffers fail at the first, at a later one and not at all; three opens let each
mapping mode follow another, with the members that survive a close.  `Formats`
has one format every mapping mode accepts, one NVIDIA refuses, one NVIDIA and
INTEL refuse.  `MaxObjects` is large enough that names never run out (an
assumption of the module, and proved from it).  In `PoolLife` nothing counts; the fourth address lets
a pool be replaced three times, after which `new` finds no room.  In `Upload` three
sessions and three draws let a failed draw be followed by a good one in the same
session, a fixed session by a resized one, and both by the failed probes before
them; six handles are one for each call that can leave one behind.  The sizes of
`frame_bounds` have rows with and without gaps, a draw smaller and one larger than
the session, one above `MaxTexture`, and a frame told larger than its bytes; those of `frame_mapped` all residues that
decide a gap: rows and half rows of 0 and 2 modulo 4, 0 and 4 modulo 8.  `Word` is
scaled with `MaxTexture` so that, as in 32 bits, half of the numbers hold every
size but those of the largest textures.  The devices of
`DeviceSelect` tell apart every branch of both loops: emulator, Fermi, a version missing from the table, equal speeds,
a newer and slower one, a prohibited one.

Fairness (`FairSpec`, liveness only).  Strong fairness of each thread's steps
inside a call: a thread that waits for a mutex others take and release for ever
gets it in the end.  POSIX mutexes and Windows critical sections do not promise
it, but the schedulers they run on provide it; with weak fairness only, a
display loop could starve a put.  Weak fairness of
`MWRenderFrame`: the display loop goes on drawing.  Nothing is assumed of
producers, nor of the creation and destruction of pools.

### What the violated runs show

* `pool_spurious_none`.  A MAILBOX put sees the free queue empty, releases its
  mutex, and by the time it has the full queue's, a renderer has drawn the
  last waiting frame and returned its buffer.  Both queues looked empty, each at
  its own moment, and the put answers `MW_VIDEORENDER_BUF_NONE` with a free
  buffer at hand, where the comment says there is none
  (`mwvideoframebuffer.cpp:256`).  RELAXED_FIFO does the same.
* `render_freed_twice`.  `CleanUp` frees the AMD blocks and keeps the flag,
  the count and the pointers, so `MWDestoryVideoRender`, which is a `Close`
  and a destructor, frees them twice.
* `life_early`.  `create_framebuffer` stores the new object in `pc_framebuffer`
  before `create_frame_buffer` fills it.  A put in between passes the test of
  `putframedata` and works on an object without buffers or mode.
* `upload_second_session`.  `CleanUp` does not reset `b_alloc_buf`.  A session
  without mapped buffers after one with them uploads nothing to unit 0, and its
  draws return `MW_VIDEORENDER_NO_ERROR`; a pool it creates has no buffers.
* `frame_mapped`.  `fmt_calcminstride` rounds rows up to 4 bytes, `open` does
  not: a pool accepts BGR24 frames larger than the mapped buffers it borrows.

### Defects the models show without a run of their own

Each is a condition that one of the properties states, and without which it
fails, or something a model counts.

* A failed `cudaMemcpy2DToArray` or `cudaGraphicsSubResourceGetMappedArray` leaves
  the resource mapped (`MWVideoRender.cpp:1638`).  The session never recovers: each
  later draw fails to map it, and the texture GL goes on to resize and delete is
  still CUDA's.  `MappedOnlyInUpload` therefore says ~`CallsFail`; what is on the
  screen stays right (`HonestDrawIsShown`).
* GL reads rows at multiples of 4 bytes, the offsets of the planes know no gaps:
  the chroma rows of I422 at widths of 4 modulo 8 are read 2h - 2 bytes past the
  buffer of a pool.  `UploadInBounds` and `PlanesApart` allow a plane its gaps.
* `put_frame_data` does not relate a frame's dimensions to its size
  (`mwvideoframebuffer.cpp:151`).  A pool created after a small draw (1950) takes a
  small frame told with dimensions up to the session's, which `render` accepts (1353)
  and reads past the buffer.  `UploadInBounds` says `described`; over mapped buffers,
  which have the session's size, it needs no such condition.
* A pool is sized by the last drawn frame, not by the session (1950): created
  after a small draw it refuses frames of the initial size, which `render` accepts.
  `PoolTakesFrames` holds a pool only to the size it is created for.
* `fmt_calcimagesize` multiplies in `int`: RGBA at 32768 by 32768 has size 0, P010
  overflows at 16384 by 16384.  `frame_bounds` stays below.
* A CUDA device whose query fails is judged by the record of the one before it, so
  that a prohibited one may be chosen (260).  `ChosenIsBest` requires that every
  query was answered.
* A failing NVIDIA probe leaves its texture in `glu32_tex` for the next one to
  overwrite; `NoObjectLost` exempts those textures (`lost`) by name.  In the same
  way `OneRegistration` allows each probe a registration, and `NoPoolLost` the pools
  `create_framebuffer` replaces without deleting them.
* `open` allocates with `cudaMallocHost`, `CleanUp` frees with `cudaFree` (160),
  which takes device memory only.  Pinned memory is not in the models.

## The proofs

### The pool

`FramePoolProofs` proves, for all finite sets of producers and renderers, every
number of buffers and puts and every subset of the queue modes
(`FramePoolAssumption` is the only assumption):

| theorem | statement |
|---|---|
| `InvariantIInv` | `Spec => []IInv` |
| `TypeCorrect` | `Spec => []TypeOK` |
| `NoBufferIsLost` | `Spec => []NoFrameLost` |
| `NoBufferIsShared` | `Spec => []NoFrameShared` |
| `DrawsAreWhole` | `Spec => []RenderWhole` |
| `FrameLockIsFree` | `Spec => []FrameLockUncontended` |

The argument.  None of these is inductive alone.  That no buffer is lost
depends on two drains not running at once, hence on who holds the mutexes; so
`IInv` relates each mutex to the labels at which a thread holds it
(`FullMutexHeld`, `FreeMutexHeld`, `FrameMutexesHeld`).  That the buffer in
hand is the caller's alone needs `BuffersHeld` and `NoFrameShared`; the in-place
overwrite of RELAXED_FIFO works on a buffer that is in a queue, and what saves
it is that the buffer is the last of the full queue and its overwriter holds
`m_lock_full`, which `BuffersHeld` says.  `ContentsKnown` says each waiting
buffer is whole except that one, from which `RenderWhole` follows; and
`FrameLockUncontended` follows from `FrameMutexesHeld` and single ownership.
The module proves lemmas on queues first (append, pop and drain of a sequence
without repetition), then one lemma per action, then the theorems.

### What the pool promises

`FrameStreamProofs` is about the promise alone, `FramePoolStreamProofs` about the
pool that keeps it, with no more assumptions than before:

| theorem | statement |
|---|---|
| `FrameStreamProofs!StreamInvariant` | `Spec => []StreamInv` |
| `FrameStreamProofs!NewestIsKept` | `Spec => []NewestKept` |
| `FrameStreamProofs!DeliveryIsInOrder` | `Spec => [][DeliversInOrder]_vars` |
| `RefinesStream` | `Spec => ImplementsStream` |
| `NewestIsNeverLost` | `Spec => []NewestSurvives` |
| `DrawnInOrder` | `Spec => DeliveryInOrder` |
| `NoBacklog` | `Spec => []ImmediateBacklog` |
| `NeverRefused` | `Spec => []ImmediateNeverRefuses` |

The argument.  `StreamInv` says that the waiting frames of a producer are in the
order it queued them and newer than all it had drawn (`PendingInOrder`), and that
the newest frame is its producer's last; every step of the promise
keeps it, so the promise keeps the newest frame and the order.

The refinement takes each step of the code to a step of `FrameStream` or to none.
The pending frames are the contents of the buffers in the full queue, so the pixels
a put copies must not change what is pending: a put fills a buffer that no queue
has (`IInv`), except the overwriting of RELAXED_FIFO, which is mapped at the moment
its copy ends.  To map a push, three more facts are needed and make up `RInv`: a
label belongs to the modes that have it (`LabelsInMode`: who is at a label of MAILBOX
is allowed what only MAILBOX may do), a put that has copied still holds its own frame
(`OwnFrame`), and that frame is newer than all its producer queued (`PutsAreNewer`).
`NewestIsNeverLost` and `DrawnInOrder` then are the theorems of the promise, read
through the mapping.

The backlog of IMMEDIATE is a count.  A producer is engaged from the moment it saw
the full queue empty, or took a frame out of it, until it queues its own.  Waiting
frames and engaged producers together are never more than there are producers
(`BacklogBound`): whoever becomes engaged either takes one out, or does so when the
queue is empty, and then at most all the producers are engaged.  It follows that a pool
with a buffer per thread has a free one left whenever a producer comes to take it.

### The object of the pool

`PoolLifeProofs` (assumptions: `PoolLifeAssumption`; nothing bounds producers or
addresses):

| theorem | statement |
|---|---|
| `TypeCorrect` | `Spec => []TypeOK` |
| `PoolsAreAsTold` | `Spec => []PoolAsTold` |
| `OnlyReplacedPoolsAreLost` | `Spec => []NoPoolLost` |
| `UsedPoolsAreReady` | `Overlap = {}` implies `Spec => []UsedPoolIsReady` |

The first three hold whatever the application lets overlap, since the GL thread
never reads what producers write: the invariant says, for each step of its calls,
what `pc_framebuffer` points to.  The last adds that a producer between its test
and its return excludes every call that could change the object.

### The renderer

`GLRenderProofs`, for any number of slots, opens, formats and lost textures
(`GLRenderAssumption`):

| theorem | statement |
|---|---|
| `RendererInvariant` | `Spec => []IInv` |
| `TypeCorrect` | `Spec => []TypeOK` |
| `NamesStayValid` | `Spec => []NoDanglingName` |
| `ObjectsAreFound` | `Spec => []NoObjectLost` |
| `PoolMemoryIsLive` | `Spec => []PoolUsesLiveMemory` |
| `OpenMeansComplete` | `Spec => []OpenedIsComplete` |
| `MapModeIsProbed` | `Spec => []MapModeSupported` |

The argument.  What would break these properties is a step of `open` that
overwrites a name which still stands for an object, or a return that leaves one
behind which the next `open` overwrites.  `IInv` therefore says for every step what
is there and what is not yet: the members that earlier steps made and no others
(`MembersMade`), the mapped slots below `next_buf` (`BuffersMade`); and that between a
close and the next open there is nothing but a probe's texture (`Quiet`).  With
`ModeChosen` and `PoolOfOpen` the theorems follow.  The latter ties a pool over mapped
buffers to the open session or, once a close has deleted the names, to the step of
`CleanUp` that drops it next, with its memory still there; so no pool is left when
`FreeMappings` frees.

Type correctness needs a count here, since a new name is the smallest unused one and
must exist.  Every object that exists is named by a member or a slot, or is one of
the `lost` textures; so fewer than
`MaxObjects` names are in use while the member or the slot that is about to be filled
is empty (`SpareForMember`, `SpareForSlot`).  That is where the assumption on
`MaxObjects` comes from.

### Uploads

`UploadProofs`, for every number of probes, sessions, draws and handles, and every mix
of failures:

| theorem | statement |
|---|---|
| `HonestDrawsAreShown` | `Spec => []HonestDrawIsShown` |
| `TypeCorrect` | `Spec => []TypeOK` |
| `OneRegistrationEach` | `Spec => []OneRegistration` |
| `MappedInUploadOnly` | `Spec => []MappedOnlyInUpload` |

The invariant of the first follows the frame: at "unmap" in a draw, and at every later step,
the frame drawn is in the texture (`FrameFollowed`), for which the handle must be
registered for the texture drawn from once registering or mapping it has
succeeded (`Registration`), which in turn needs each position of `pc` to determine
its caller and the flags that lead there (`Positions`).  Stale handles of earlier
sessions enter only through `b_alloc_buf` without mapping, which the property
excludes.

The others have an invariant of their own, `RInv`.  While calls work, a resource is
mapped exactly if it is the handle and the program is between mapping and unmapping it
(`OneMapped`).  The registrations are counted (`OnePerProbe`): all of them are left by
probes, at most one each, except the handle's while a resized draw is under way or a
session of one size is open.  That a probe counts itself before it registers, and that
`CleanUp` runs with the flags of the session it ends, are what the count turns on.

### Sizes

`FrameSizeProofs`, for every set of formats, of even widths and heights, every texture
limit and every width of the integers (`FrameSizeAssumption`):

| theorem | statement |
|---|---|
| `SizesInvariant` | `Spec => []IInv` |
| `TypeCorrect` | `Spec => []TypeOK` |
| `PlanesDoNotOverlap` | `Spec => []PlanesApart` |
| `NoReadPastTheFrame` | `Spec /\ []NoOverflow(tex) => []UploadInBounds` |
| `PoolWithinBuffers` | `Spec => [](NoOverflow(ini) => PoolFitsBuffers)` |
| `NoFrameRefused` | `Spec /\ []NoOverflow(tex) => PoolTakesFrames` |

`NoOverflow(s)` says that the pixels of s are fewer than a sixteenth of the numbers
of a `uint32_t`, that is, fewer than 2^28.  Without it the three properties of the
bytes are false of this code: a product that is cut short makes a small buffer of a
large frame.  The largest product is `cbStride * cy * 4` of P010 in `int`, which is
8 bytes per pixel, of which there must be fewer than 2^31.  Every texture limit
below 16384 implies it for every session; a limit of 16384 fails it for one size.

The argument.  The planes' extents are arithmetic: in units of a quarter of the
pixels, 4A = wh, every offset and end, its gaps aside, is a small multiple of A
(`ChromaEnds`, `ReadsInFrame`), which gives bounds for a frame in a buffer of its own
size.  `IInv` says where the sizes come from: mapped buffers have the initial one and
no draw from them exceeds it (`Mapped`), a pool's limit is the image of `pool_size`
(`Pooled`), a waiting frame's bytes, and nothing else of it, passed the check
(`Buffered`), and a session that does not resize has one size (`Sessions`).  A
`described` frame then fits its pool in one of two ways: its bytes passed the check
and are enough for its dimensions, or these are within `pool_size`, whose image the
pool holds (`ImageHolds`).  The bound on the numbers is needed of every size drawn
(`tex`), since it is from the size drawn last that a pool is made.  A pool's limit is
stride times height times one or two planes (`ImageExact`); that it is at most the
mapped buffer's size follows since the stride of a narrower frame is at most the row
of the initial one, as long as that row is a multiple of 4 bytes.

### The device choice

`DeviceSelectProofs` proves `TypeCorrect` and `ChosenDeviceIsBest`
(`Spec => []ChosenIsBest`) for any number of devices with any records.  The
invariant says what each loop knows of the devices it has passed: the best
architecture and the number of prohibited ones; the fastest eligible device and
that no earlier one is as fast.

### Only model-checked

Liveness, `CallsReturn` and `NewestIsDrawn`: fairness and `ENABLED` are out of the
prover's reach.  All other properties of the runs that hold are proved.  The
properties of the violated runs are false and have their counterexamples.

## Plan

Done: the concurrent core (`FramePool`, `FrameStream`), sessions with partial
failure (`GLRender`), the pool object under concurrency (`PoolLife`), uploads
(`Upload`), sizes (`FrameSize`), the device choice (`DeviceSelect`), and the proofs
of their safety properties and of the refinement.

What is left, in order of importance:

1. The conditions under which the properties of the violated runs do hold, as
   theorems, as `PoolFitsBuffers` is one for `frame_mapped` and `Overlap = {}` for
   `life_early`: sessions that all map or all do not for `upload_second_session`,
   FIFO and IMMEDIATE for `pool_spurious_none`.
2. The action properties behind the invariants: what no step of a put may do to a
   buffer in another's hands, what no failing step of `open` may do to an object.

## Not modelled

* GLSL and the colour matrices: text and floating point, no state.
* `display`, `setinterval`, `screenshot`: calls of GL and the window system that
  change no state of the program.
* `init_context` but for its failing: contexts belong to the window system.  That
  none is ever destroyed is listed as a hazard.
* Opening or probing a renderer that is open.  The models hold the application to
  closing first; the code neither asks for it nor checks it.
* The GPU's progress after `render` returns: the buffer of a mapped mode goes back
  to the pool without a fence.
* The stride and layout of INTEL's mapped textures, which the code ignores.
* Host memory: the frames of a pool, the blocks of a failing AMD buffer, `pptr`.
* The vendored CUDA, GLEW and GLFW code, but for the table of cores
  `DeviceSelect` takes from `helper_cuda.h`.
