# A TLA+ model of the sunxi-cedrus libVA driver

The driver (`src/`) is a libVA backend for the video engine of Allwinner SoCs.
It has little code of its own to compute with. What it does is hand buffers to
two V4L2 memory-to-memory devices and take them back, on behalf of a client
whose threads it does not serialise. This directory models that traffic, the
life of the driver's objects with the calls that fail half way, the object heaps
that everything else stands on, and the detiling of frames, in TLA+: TLC checks
small instances, TLAPS proves the safety properties for every value of the
constants.

Line numbers below are those of `src/src/*.c`.

## The system

A client creates a config, surfaces, a context and buffers. For each picture it
calls vaBeginPicture on a surface, vaRenderPicture with slice data, a picture
parameter and a slice parameter buffer, and vaEndPicture. Later it calls
vaSyncSurface on the surface, which waits for the picture, and hands it to the
display-engine front-end to be detiled and shown.

| Component | State | Operations | Talks to |
|---|---|---|---|
| object heaps (`object_heap.c`) | size, free list through `next_free`, array of buckets, mutex | init, allocate (with expand), free, lookup, first / next, destroy | used by all the others, from any thread |
| pictures (`picture.c`) | `current_render_target`, `num_rendered_surfaces` of the context; status, input buffer, request of the surface | Begin-, Render-, EndPicture | the two queues of cedrus; SyncSurface, called from BeginPicture |
| headers (`mpeg2.c`, `mpeg4.c`) | the MPEG-2 / MPEG-4 frame header of the context, set half by half | render picture parameter, slice parameter, slice data | filled by RenderPicture, read by EndPicture (S_EXT_CTRLS) |
| surfaces (`surface.c`) | status, `output_buf_index`, mapped planes in the driver data | CreateSurfaces, DestroySurfaces, SyncSurface, QuerySurfaceStatus, PutSurface | the two queues of cedrus; the front-end |
| contexts (`context.c`) | the fields above, render targets, INPUT_BUFFERS_NB input buffers | CreateContext, DestroyContext | cedrus: formats, buffers, STREAMON |
| buffers (`buffer.c`) | a piece of memory, or for slice data the mapping of an input buffer | CreateBuffer, MapBuffer, SetNumElements, DestroyBuffer ... | cedrus: QUERYBUF, mmap |
| front-end (`fe.c`) | one output and one capture buffer of the second device | fe_test (at vaCreateSurfaces), fe_throw_buffer (at vaSyncSurface) | front-end device |
| driver life cycle (`sunxi_cedrus_drv_video.c`) | file descriptors, the five heaps | init, Terminate | all |
| configurations (`va_config.c`) | profile, entry point, list of attributes | CreateConfig, DestroyConfig, queries | read by CreateContext and RenderPicture |
| images (`image.c`) | the buffer of the image | CreateImage, DeriveImage, DestroyImage | buffers; the mapped planes of surfaces; detiling |
| detiling (`tiled_yuv.S`) | none between calls | tiled_to_planar, tiled_deinterleave_to_planar | called by DeriveImage |
| subpictures (`subpicture.c`) | none: stubs | | |

Outside the repository: the client, the cedrus device, the front-end device,
and the kernel's mem2mem queues between them.

### What is hard about it

- **No lock but the heaps' mutexes.** One thread decodes while another displays;
  both may be inside vaSyncSurface (the decoding one through vaBeginPicture,
  picture.c:82), and both then use the same queues and the one pair of buffers
  of the front-end.
- **Buffers are named by position.** VIDIOC_DQBUF returns the *oldest finished*
  buffer, not the one whose index the caller wrote (surface.c:231). Input
  buffers are used in turn by a counter (picture.c:85-87), whether or not the
  device is done with them.
- **Data is stored before it is owned.** vaCreateBuffer copies slice data into
  the input buffer the counter points at now (buffer.c:108); vaRenderPicture
  copies it into the surface's, which may be another one by then.
- **Timeouts and ignored results.** select() gives up after 300 ms and its
  result is not looked at (surface.c:194); BeginPicture ignores what its sync
  returns (picture.c:82); fe_throw_buffer ignores both its dequeues
  (fe.c:276-277).
- **Half-done operations.** EndPicture queues two buffers and has to undo the
  first when the second fails (picture.c:279); fe_throw_buffer does not undo
  (fe.c:269); object_heap_expand may fail after it has enlarged the array
  (object_heap.c:59); CreateContext frees the context and goes on (context.c:116);
  CreateSurfaces frees its objects and keeps the device's buffers (surface.c:146);
  CreateContext, CreateBuffer and CreateImage keep objects whose memory could not
  be had (context.c:93, buffer.c:128, image.c:101).
- **Counts that only grow.** The kernel's buffers are never given back, so each
  CreateSurfaces and CreateContext adds to them, up to the sizes of the kernel's
  queue and of `luma_bufs` (surface.c:119).
- **Pointers corrected as they run.** The detiling routines move the source
  pointer by amounts that depend on the width and on the line (tiled_yuv.S:97-101).

### What makes each component correct

- heaps: no object handed out twice, none lost, the free list has no cycle,
  every object lies in a bucket that exists, the iteration of vaTerminate finds
  every object although it frees them as it goes.
- decoding path: each input buffer decodes, with the header of its own picture,
  into the capture buffer of its own surface; a sync of a surface shows the
  picture last begun on it; no picture is lost or waits for ever; an input
  buffer the device has still to read is not written.
- front-end: each frame is converted; once the call returns the front-end holds
  no pointer into the frame.
- both together: the pictures that were submitted are shown, each once and in
  order.
- life cycle: the handles a client holds are valid, no two surfaces share a
  capture buffer, a failing call leaves nothing allocated that nobody can free,
  and vaTerminate finds its heaps empty.
- configurations: an attribute is in the list once, and the list fits its array.
- detiling: each byte comes from where the tiled layout puts it and goes to its
  place in the plane; planes do not overlap.

## Modules

| Module | Models | State and actions |
|---|---|---|
| `M2MQueue` | one queue of a mem2mem device (external; the rules are those the comment in fe.c:161-206 quotes) | a record `[fifo, done]`: the held buffers in order, of which a prefix is finished |
| `Decoder` | buffer.c (slice data), picture.c, mpeg2.c, mpeg4.c, SyncSurface | one action per ioctl or other point where another thread or the device can come in between |
| `FrontEnd` | fe_throw_buffer | one action per ioctl, for each thread |
| `Pipeline` | Decoder and FrontEnd composed: vaSyncSurface with the fe_throw_buffer it calls | the steps of both; one, the return from fe_throw_buffer, is of both |
| `Film` | what the driver promises to a client that plays a film | Submit, Show; `SafeSpec` is `Spec` without its fairness |
| `DecoderOrder`, `PipelineOrder` | the inductive invariants `InOrder` of Decoder and `ShownInOrder` of Pipeline, which TLC checks and the proofs rest on | |
| `Lifecycle` | va_config.c, CreateSurfaces / DestroySurfaces, context.c, buffer.c, image.c, init and vaTerminate | one action per call, and one per way in which it fails |
| `Tiling` | tiled_yuv.S, and its use in vaDeriveImage | one action per line of a picture |
| `IdPool` | what a heap promises: a growing pool of indices | Take, GrowAndTake, Release, Close |
| `ObjectHeap` | object_heap.c, the sweep of vaTerminate | one action per operation: each runs under the heap's mutex |
| `MCDecoder`, `MCFrontEnd`, `MCPipeline`, `MCObjectHeap`, `MCLifecycle`, `MCTiling` | the instances TLC checks | |
| `DecoderProofs`, `PipelineProofs`, `FrontEndProofs`, `ObjectHeapProofs`, `LifecycleProofs`, `TilingProofs` | theorems | |
| `M2MQueueProofs`, `Division` | lemmas that several of those use: on queues, and on `\div` and `%` by a variable | |

`Decoder` and `FrontEnd` use `M2MQueue` for their queues. `Pipeline` extends
Decoder, whose properties are then stated of the pipeline as well, and
instantiates FrontEnd. It contains the refinement mapping to `Film`
(submitted are the pictures begun but for one that is still being rendered, the
screen shows what the front-end converted last); `ObjectHeap` contains the one
to `IdPool` (the capacity is `heap_size`, what is taken is what
`next_free = ALLOCATED`). `Lifecycle` takes the heaps as such pools.

### Decoder

It starts after vaCreateSurfaces and vaCreateContext have succeeded. A surface
is its capture buffer (`output_buf_index` never changes). Bitstream data,
header halves and frames are represented by the number of the picture they
belong to, so a frame is right when the number in the input buffer and in both
halves of the control of its request are the same, and the capture buffer that
the header names as its reference is not the target and holds the picture before
(`Decodes`), and `Garbage` otherwise.

- `CreateSliceBuffer` is vaCreateBuffer(VASliceDataBufferType).
- `BeginPicture` is the call on a surface that is not Rendering;
  `BeginPictureSyncs`, a sync in thread "decode", and `BeginPictureResumes` are
  the call on one that is.
- `RenderPicture` is the call with one buffer. MPEG-2 sets the slice half of
  the header with the slice data and MPEG-4 with the slice parameters; what is
  not rendered stays from the picture before, because the header belongs to
  the context. The picture parameters name the reference by its capture buffer
  (`ReferenceIndices`): that of the surface the client names, here the one of
  the picture before, or that of the render target when it names none. The
  device looks at the frame there only when it decodes (`Decodes`), by when it
  may be another.
- `EndPicture` (S_EXT_CTRLS), `QueueFrame`, `QueueInput`, their failures, and
  `UnqueueFrame`, the attempt to undo.
- `SyncSurface`, `SelectReturns`, `DequeueInput`, `MarkReady`, `DequeueFrame`,
  their failures, and `ThrowBuffer`, for each of the two threads.
- `HardwareDecode` is the device: the oldest waiting input buffer into the
  oldest waiting capture buffer.

The client is a parameter. A *chaotic* one makes any call its threads can make.
The library promises nothing to such a client beyond not getting stuck. An
*orderly* one renders each picture completely, keeps fewer than `MaxAhead` older
pictures unsynced, does not decode a picture into the surface of its reference,
syncs the oldest first, has one sync at a time, that of a vaBeginPicture
included, and begins no picture on a surface that is being synced; an
*unordered* one syncs them in any order. `Patient` says that it reuses a surface only after a successful sync
of it; `BufferFirst`, that it creates the slice buffer before vaBeginPicture;
`Timely`, that the device finishes within the 300 ms of the sync.

### FrontEnd

It starts after fe_test: both queues stream, one buffer each. Which frames are
thrown is left open. `Prompt` says that the device has finished
before the call dequeues, which the code takes for granted; the model lets the
device be as slow as it likes when it is FALSE.

### Pipeline

The steps of Decoder are those of the pipeline (`PipeCalls`, `PipeDecodeSteps`,
`PipeDequeueSteps`, `PipeDecode`), but for the last one of a sync, which the
steps of FrontEnd replace. The frames that are thrown are the surfaces. `Throw` is the call of
fe_throw_buffer by a sync that has dequeued a frame, `ThrowReturns` its return,
with which the sync succeeds whatever the outcome. `PipeConvert` reads the
frame where it is, in the capture buffer: what is shown is what that buffer holds
at that time (`screen`).

### Lifecycle

A heap is a function from the ids in use to what matters of the objects, or the
set of those ids; which free id is returned is left open. `held` are the handles
the client was given and has not given back: a call that fails gives none.
`failed` names the calls that have lost an object for want of memory, or were
granted fewer capture buffers than they asked for.

The guards of the actions are the checks of the code. What the client adds to
them is in `ConfigCalls` ... `ImageCalls`: it passes handles it holds, and
render targets that are or were surfaces.

- `CreateConfig` appends the attributes to a list that starts with the format:
  the loop that should find an attribute in the list never runs. A list that
  grows too long, like a profile that is refused, changes nothing and is no step.
  `DestroyConfig` does not ask whether a context uses the configuration.
- `Granted` are the numbers of buffers that VIDIOC_CREATE_BUFS may grant: from
  one to as many as were asked for and the queue has room for. The kernel grants
  fewer when it has no memory for the rest.
- `CreateSurfaces` creates as many surfaces as buffers were granted; when they
  are fewer than asked for, the caller reads an id that was not written
  (`Uninitialised`, taken to be the id of no surface). `CreateSurfacesFails` is
  the heap running out of memory at any of them. `DestroySurfaces` frees the
  objects alone; an id that is none fails its assertion (`DestroySurfacesAborts`).
- `CreateContext`; `CreateContextInvalidTarget`, which frees the context and goes
  on to the format and the buffers; `CreateContextFails`, no memory for the
  render targets. There may be several contexts.
- `CreateBuffer`, `CreateBufferFails`, `DestroyBuffer`; `CreateSliceDataBuffer`,
  which needs a context, and `CreateSliceDataBufferAborts`: the input buffer whose
  turn it is was not granted, so that VIDIOC_QUERYBUF is refused and the assertion
  fails, or mmap fails, which buffer.c:126 does not notice since it compares with
  NULL instead of MAP_FAILED.
- `CreateImage`, `CreateImageFails`, `DeriveImage`, `DestroyImage`, which frees the
  buffer and leaves the image; `DeriveImageAborts`, an id that is of no surface.
- `Terminate`, and `TerminateAborts` when a heap that it does not sweep is not
  empty. A failed assertion or an invalid access is the end of the program;
  `phase` then names the call (`...Aborts`).

Assumptions: the asserted ioctls of vaCreateSurfaces, vaCreateContext and
vaCreateBuffer may be refused at any time, others succeed. That a client destroys
a configuration only after its contexts, or has one context at a time, is not
assumed. Without that the driver promises little about decoding: a vaCreateContext
sets the format of the one device also under a context that exists, and also when
it fails (context.c:116-141); and after vaDestroyConfig vaRenderPicture fails for
the contexts made with the configuration, or reads the profile of another that has
got its id (picture.c:113). No property of `Lifecycle` is about the format or the
profile; in `Decoder` there is one context, and its profile and its
`INPUT_BUFFERS_NB` input buffers are given.

### Tiling

The registers SRC, DST, TLINE and HEIGHT run from line to line as in the code;
within a line the loops over whole tiles, the half tile and the rest are one step.
What is stored is the place in the tiled plane from which it was read, so the
result can be compared with the definition of the layout (`TiledAddress`).
`lanes` is 1 for tiled_to_planar and 2 for tiled_deinterleave_to_planar, in which
pairs of bytes are parted; its width has to be even. With one lane the chroma
plane follows, as in vaDeriveImage.

### ObjectHeap

`link[i]` is the `next_free` field of object i. `AllocateExpanding` is an
allocation that finds the free list empty and expands; `AllocateNoMemory` is
one whose expansion fails, with the array of buckets enlarged or not.
object_heap_first and object_heap_next are `SweepFirst` and the last line of
`SweepFree`; the iterator is an index. `free_list` is a history variable, the
free objects in the order in which they will be handed out; no guard reads it.

## Runs

| Run | Question | Bounds and why they are enough |
|---|---|---|
| `pipeline` | Do the two devices and the driver play the film, to an orderly, patient MPEG-2 client, however slow cedrus is? (`DecodesIntoItsSurface`, `SyncShowsOwnPicture`, `NoPictureSkipped`, `FrameLeftAlone`, `ReleasedOnReturn`, `ShownInOrder`, `EveryPictureShown`, `PlaysFilm`) | 3 surfaces, 3 input buffers, 7 pictures: every surface and input buffer is used at least twice, and the counter wraps at 6; 89,500 states |
| `decoder_reuse` | May a client begin a picture on a surface it has not synced, if the device is timely? (`SyncShowsOwnPicture`, `ReadyMeansDecoded`, `InOrder`, `BusyInputUntouched`) | MPEG-4, 3 surfaces, 4 input buffers as in the code, 7 pictures: all surfaces are reused and the counter wraps; 34,600 states up to a permutation of the surfaces |
| `decoder_chaotic` | Does the device ever get stuck, whatever two threads call? (`NeverStarved`, `EveryInputDecoded`) | 2 surfaces, 2 input buffers, 4 pictures, which queue either twice; the client renders nothing, for the queues do not depend on it; 153,000 states |
| `decoder_unordered` | violation: out-of-order sync | 3 pictures, 2 surfaces |
| `decoder_timeout` | violation: BeginPicture after a sync that timed out | 4 pictures, 2 surfaces |
| `front_end_slow` | What does one late conversion do? (`WedgedForGood`, `LateMeansWedged`) | two threads, so that every error path runs, two frames; 1,475 states |
| `front_end_race` | violation: two threads in fe_throw_buffer | two threads, two frames |
| `heap_swept` | Is the heap exact, and a pool? (`FreeListExact`, `BucketsMatchHeap`, `SweepLeavesNothing`, `PoolSpec`, `SweepEventuallyEnds`) | 3 buckets of 2 objects, the array of buckets growing by 2: it is enlarged once, and an enlargement can succeed before a malloc fails; 4,958 states |
| `heap_lookup` | violation: the upper bound of ids | the same heap |
| `lifecycle` | Do objects, handles and device buffers stay consistent whatever is created, destroyed and fails? (`HandlesValid`, `ImageBufferAlive`, `OwnCaptureBuffer`, `OnlyFailuresLeak`, `TidyTerminate`) | 2 configurations, 2 contexts, 3 surfaces, 2 buffers, 2 images, 3 capture and 3 input buffers, of which a context asks for 2: both queues run full, a request is met in part with room left and without, every heap runs empty and full; 1.35 million states up to a permutation of the ids |
| `lifecycle_attributes` | violation: an attribute given twice | one object of each kind, a list of 3 |
| `tiling` | Do the routines invert the tiled layout? (`LinesInPlace`, `ReadsInsideFrame`, `ImageComplete`) | tiles of 8 instead of 32 bytes, all widths and heights up to 18: none, one and two whole tiles with a partial one of every size, in both directions; 6,800 states |

`UINT_RANGE` stands for 2^32 and is a multiple of `INPUT_BUFFERS_NB`, as 4
divides 2^32: the wrap keeps the input buffers in turn only for that reason.
`heap_increment` is 16 in the code and `BucketStep` 8; `VIDEO_MAX_FRAME` is 32
in the kernel's interface and `MAX_CONFIG_ATTRIBUTES` 10. `MaxPictures`,
`MaxRequest`, `MaxWidth`, `MaxHeight` and `MaxHeapSize` bound the client and the
memory.

`FrameLeftAlone`, `ReleasedOnReturn`, `ShownInOrder` and `PlaysFilm` stand on a
prompt front-end: with `Prompt = FALSE` TLC finds each of them violated. What a single late
conversion leads to is the question of `front_end_slow`.

How far ahead a client may be is a result of the runs: with slice buffers
created before vaBeginPicture it may keep `INPUT_BUFFERS_NB` pictures unsynced
(`pipeline` has 3 and 3); created after it, one fewer (`decoder_reuse`
has 3 and 4), because the counter has moved on by then and vaCreateBuffer
copies into the *next* picture's input buffer. With one more in either case
`BusyInputUntouched` fails. The code's four input buffers thus serve a client
four or three pictures ahead. Nothing in the driver enforces it.

Deadlock is not checked where the client may stop: it begins at most
`MaxPictures` pictures and need not sync, a destroyed heap and a driver that is
terminated have no next step, and a detiling routine ends. FrontEnd's runs check
it.

### Fairness

Liveness is checked under weak fairness of

- the devices, `HardwareDecode` and `HardwareConvert` (in Pipeline `PipeDecode`
  and `PipeConvert`): a mem2mem device runs a
  job once there is a buffer in both queues;
- the steps inside a call that was entered: a thread that runs goes on; select()
  has a timeout, the descriptors are O_NONBLOCK, so no step blocks;
- in Decoder and Pipeline, a sync of some pending surface: a client that wants to show its
  pictures syncs again if a sync failed. Nothing makes the client begin
  pictures;
- in FrontEnd, the film going on (`Throw`); in ObjectHeap, the loop of
  vaTerminate.

There is no strong fairness.

### What the runs with a violation show

- *`decoder_unordered`*: two pictures are pending, the later one's surface is
  synced; the sync dequeues the earlier one's frame and shows it, and marks the
  later one's surface Ready. surface.c:47-49 describes the sync as waiting for
  and dequeuing the buffer of the surface.
- *`decoder_timeout`*: the device takes more than 300 ms. BeginPicture's sync of
  the reused surface fails, and the failure is ignored: the picture begins
  while the older one on the surface is still queued.
- *`front_end_race`*: a frame is dropped, although the device is prompt: one
  thread has queued its output buffer, the VIDIOC_QBUF of the other fails
  because the one buffer is still in the queue, its error path finds nothing to
  dequeue, and its call returns (fe.c:248-251). Such a race can also leave the
  front-end wedged for good: what `front_end_slow` shows of a single late
  conversion.
- *`heap_lookup`*: `object_heap_lookup` tests `id > heap_size + id_offset`
  (object_heap.c:137), so the id of the object after the last passes, and its
  bucket does not exist.
- *`lifecycle_attributes`*: update_attribute loops while `attrib_count < i`
  (va_config.c:131), that is never. A client that gives VAConfigAttribRTFormat,
  which the list starts with, gets it twice.

What else the life cycle shows, without a contradiction to anything the
repository says: vaCreateSurfaces reports success for fewer surfaces than were
asked for (the exception in `HandlesValid`; the client's vaDestroySurfaces then
ends in a failed assertion); vaTerminate ends in a failed
assertion if a vaCreateContext ever ran out of memory, or a client still holds
surfaces or contexts (`TidyTerminate`); the objects of images are never freed.
And `ImageComplete` is about widths that are multiples of the tile: for others
vaCreateImage leaves room for lines of the width although they are a pitch apart
(image.c:86-94), so that the planes overlap.

## Proofs

All from the assumptions on the constants that the modules name
(`DecoderAssumption`, `PipelineAssumption`, `FrontEndAssumption`,
`ObjectHeapAssumption`, `LifecycleAssumption`, `TilingAssumption`): for any
number of surfaces, input buffers and pictures, any client and profile, any set
of threads, any bucket size and heap size, any sets of ids and limits of the
kernel, any size of tiles and pictures. Where a theorem has a hypothesis of its
own, it is named below.

### The decoding path (`DecoderProofs`)

- **`TypeCorrect`**. The inductive invariant adds `CallInv` to `TypeOK`: a call
  in progress has a surface. Without it EndPicture could queue `NoSurface`.
- **`NeverStarvedHolds`**: no input buffer waits without a capture buffer.
  `NeverStarved` is inductive relative to the type invariant: its second
  conjunct says that between the two VIDIOC_QBUF of EndPicture there is one
  capture buffer too many, which no other thread can take since VIDIOC_DQBUF
  only takes finished buffers.
- **`InOrderHolds`**, under the hypothesis `PlaysInOrder`. Nothing in the driver
  ties a frame that comes out to the surface that is synced: it is right only
  because everything happens in one order. `InOrder` says what order that is.
  Pictures are numbered as they are begun; the pending surfaces are those of an
  interval `First .. Submitted` of pictures; both queues hold an upper part of
  the interval in order, the ones at labels inside a sync or EndPicture having
  taken or added one; picture p has the input buffer `Slot(p)`, with its data
  and its header; a sync in progress is one of the oldest pending surface. No
  part is inductive without the others. That two pending pictures never share
  an input buffer comes from `MaxAhead` (with `ModInjective` of `Division`),
  that the counter keeps them in turn although it wraps, from
  `UINT_RANGE % INPUT_BUFFERS_NB = 0` (`ModWraps`).
- **`DecodesIntoItsSurfaceHolds`**, **`SyncShowsOwnPictureHolds`**,
  **`ReadyMeansDecodedHolds`**, **`NoPictureSkippedHolds`**,
  **`BusyInputUntouchedHolds`** follow from it, under the same hypothesis.

`PlaysInOrder` is about the client and the speed of the device: the client is
the orderly one and renders its pictures; it does not reuse a surface before a
successful sync (`Patient`), or the device is within the 300 ms (`Timely`); and
it keeps at most as many pictures unsynced as there are input buffers, one
fewer when it creates slice buffers after vaBeginPicture. The properties
are false without it: `decoder_unordered` and `decoder_timeout` drop the order
and the third conjunct, and with one picture more ahead `BusyInputUntouched`
fails. Both `pipeline` and `decoder_reuse` satisfy it, one with each side of its
disjunctions; `MCPipeline` has TLC evaluate that.

### The pipeline (`PipelineProofs`)

- **`ImplementsDecoder`** and **`ImplementsFrontEnd`**, without a hypothesis:
  each step of the pipeline is a step of Decoder or leaves it unchanged, and
  the same for FrontEnd. For the latter the frames thrown have to be frames of
  FrontEnd, which takes that a sync about to throw has dequeued a surface.
- **`PipeDecodesIntoItsSurface`**, **`PipeSyncShowsOwnPicture`**,
  **`PipeNoPictureSkipped`**: inherited through `ImplementsDecoder`, for a
  front-end of any speed.
- **`ShownInOrderHolds`**, under `PlaysInOrder` and `Prompt`. By `InOrder` there
  is one sync at a time that throws its frame; so the front-end has one call at
  a time, finds its queues empty, takes no error path and, being prompt, has
  converted before the call dequeues. The invariant names the state of both
  queues, the source and the screen at each label of the call.
- **`ReleasedOnReturnHolds`**, **`FrameLeftAloneHolds`** follow from it: the frame
  being thrown is the oldest pending one, which is in no queue of cedrus any more.
- **`ImplementsFilm`**: each step maps to Submit, to Show of the next picture or
  to a stutter, with `submitted <- Submitted` and the screen as it is. That the
  picture converted is the next one, and the one the frame holds, is
  `ShownInOrder` with `SyncShowsOwnPicture`.

`Prompt` is what fe_throw_buffer takes for granted when it dequeues what it has
just queued. It is not ensured by the code: `front_end_slow` is what happens
without.

### The front-end (`FrontEndProofs`)

- **`SingleInvHolds`**: type correctness, and each queue of
  the front-end holds its one buffer at most once.
- **`WedgedForGoodHolds`**: a wedged front-end never recovers, with any number
  of threads. It follows from `SingleInvHolds`: the output buffer is in its
  queue and not finished, so nobody can queue or dequeue it and nobody gets as
  far as the capture buffer.

### The object heap (`ObjectHeapProofs`)

- **`TypeCorrect`**, **`FreeListExactHolds`**, **`SweepLeavesNothingHolds`** and
  **`HeapImplementsPool`** follow from one inductive
  invariant: types, `FreeListExact`, that a destroyed heap is empty, and that
  the sweep has left nothing allocated behind its iterator. The history
  variable makes it inductive: three lemmas say that taking the head off a
  list, putting an object in front, and linking a new bucket in front turn a
  sequence that the links `Spell` into another. The refinement maps the
  operations to Take, GrowAndTake, Release and Close and the rest to stutters;
  that an allocation never hands out a taken index is `FreeListExact`.
- **`BucketsMatchHeapHolds`**. `BucketInv` says that the heap has a whole number
  of buckets, that exactly those have been allocated, and that the array has
  room for them. It is kept by an expansion that fails after the array has grown,
  because the size only changes once both have succeeded.

### The life cycle (`LifecycleProofs`)

- **`TypeCorrect`**, **`HandlesValidHolds`** (with its exception: unwritten surface
  ids after a vaCreateSurfaces that was granted too few buffers),
  **`ImageBufferAliveHolds`**. Types,
  valid handles and the buffers of images are inductive together (`HandleInv`):
  that DestroyImage frees a buffer nobody else has depends on all three. One
  lemma per kind of object shows that its calls preserve the invariant; the
  lemmas on `With`, `Without` and `One` say what allocating and freeing do to a
  heap.
- **`OwnCaptureBufferHolds`**: inductive relative to `HandleInv`. New surfaces
  take the indices from `frames` on, and all others have lower ones; frames only
  grow, also in calls that fail.
- **`OnlyFailuresLeakHolds`**: inductive relative to `HandleInv`. It is about
  surfaces, configurations, contexts and buffers; the objects of images always
  stay. **`TidyTerminateHolds`** follows: vaTerminate aborts only when it
  finds something left over, and what is left over is held or was lost.

### Detiling (`TilingProofs`)

- **`LinesInPlaceHolds`**, **`ReadsInsideFrameHolds`**, **`ImageCompleteHolds`**.
  `PlaceInv` adds `Registers`: before each line SRC is at the start of that line
  in the first tile of its row, DST a whole number of pitches into the plane,
  and TLINE counts the lines left in the row of tiles. `RowOfTiles` and
  `LineIsCopied` say that the three loops over a line (whole tiles, half a tile,
  bytes) come to its width, and that LineEnd and NEXTLIN agree on the number of
  tiles in a row; `CopyKeepsRegisters` then shows that the pointers never
  drift, and `SourceIsTiled` that the running pointer is the address in the
  tiled layout. Earlier lines stay in place as the pitch is at least a line,
  and the luma plane under the chroma plane as its offset is past it; the latter
  needs `LumaKept`, since LinesInPlace is about the plane in hand only.

`Division` has the facts about `\div` and `%` by a variable that these, the heap
and the turn of the input buffers need; the SMT solver knows little of them.
`M2MQueueProofs` has what Enqueue, Dequeue and Finish do to a queue: its
elements, the number of those waiting, the queue with a single buffer.

### Model-checked only

- liveness: `EveryPictureShown`, `EveryInputDecoded`, `LateMeansWedged`,
  `SweepEventuallyEnds`, and the fairness of `Film` in `PlaysFilm`. The prover
  does not reason about fairness;
- the properties that the runs with a violation refute: they are false.

Every safety invariant and action property of a passing run is a theorem.

## Not modelled

- several slice data buffers for one picture, which would share one input
  buffer; a client that writes to a slice buffer through vaMapBuffer after it
  was created; vaBufferSetNumElements.
- backward references: the index is set like the forward one.
- decoding with a second context, which would share the device and the input
  buffers of the first; decoding
  while surfaces or contexts are created or destroyed (`Decoder` starts after
  they were created, `Lifecycle` has no pictures).
- subpictures and the entry points that return
  VA_STATUS_ERROR_UNIMPLEMENTED: no state. vaPutSurface draws the surface with
  X11, for debugging. The dump of slice data to files (picture.c:119-139) is
  for debugging too, and so is the colour that vaDeriveImage writes over the first
  four bytes of the luma plane (image.c:136-138). create_output_buffers (fe.c) is
  never called.
- the other values in the headers.
- failures of ioctls that the code asserts cannot fail, but for those that
  `Lifecycle` names; failures to open a device.
- planes of no lines, for which the count of lines of the detiling routines
  would wrap: a picture is at least a macroblock high.

## Plan

Done, in this order: `M2MQueue`, `Decoder`, `FrontEnd`, `ObjectHeap` with
`IdPool`, `Pipeline` with `Film`, `Lifecycle`, `Tiling`, and the theorems above.
Next:

1. **The gap between the two violation runs and `PlaysInOrder`**: which parts of
   `InOrder` survive for a client that syncs out of order, as theorems.
2. **A prompt front-end with one thread**, without the decoder: that every frame
   is converted, which several threads refute.
3. **Several slices per picture** in Decoder.
