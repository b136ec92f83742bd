----------------------------- MODULE Lifecycle ------------------------------
(***************************************************************************)
(* The life of the driver's objects, from the driver's initialisation to   *)
(* vaTerminate: configurations (va_config.c), surfaces (surface.c),        *)
(* contexts (context.c), buffers (buffer.c) and images (image.c), each in  *)
(* a heap of its own, and the buffers of the cedrus device that surfaces   *)
(* and contexts stand for.                                                 *)
(*                                                                         *)
(* A heap is a function whose domain is the set of the ids in use, or that *)
(* set itself; which free id an allocation returns is left open (module    *)
(* ObjectHeap shows how it is found).  A call that fails without changing  *)
(* anything is no step.  A failed assertion, or the use of an address that *)
(* is none, ends the program: `phase' then names the call.                 *)
(*                                                                         *)
(* The guards of the actions are the checks of the code.  What the client  *)
(* adds to them, that it passes the handles it was given and has not given *)
(* back, is said where the calls are put together, before Next.            *)
(***************************************************************************)
EXTENDS Naturals, Sequences, FiniteSets, Functions

CONSTANTS
  ConfigIds, ContextIds, SurfaceIds, BufferIds, ImageIds,
  Uninitialised,          \* what a caller reads where no id was written
  NoBuffer,               \* the buffer of an image that has none
  INPUT_BUFFERS_NB,       \* input buffers a vaCreateContext asks for
  VIDEO_MAX_FRAME,        \* the most buffers that a V4L2 queue has
  MAX_CONFIG_ATTRIBUTES,  \* size of attrib_list
  MaxRequest              \* bound: surfaces asked for in one call

ASSUME LifecycleAssumption ==
  /\ Uninitialised \notin SurfaceIds
  /\ NoBuffer \notin BufferIds
  /\ {INPUT_BUFFERS_NB, VIDEO_MAX_FRAME, MAX_CONFIG_ATTRIBUTES} \subseteq Nat \ {0}
  /\ MaxRequest \in Nat

VARIABLES
  config,   \* config[id], its list of attributes
  context,  \* the ids of the contexts; module Decoder has their fields
  surface,  \* surface[id], its output_buf_index
  buffer,   \* the ids of the buffers; what they hold is left out
  image,    \* image[id], its buffer
  inputs,   \* how many input buffers the cedrus device has
  frames,   \* how many capture buffers it has
  mapped,   \* the capture buffers in luma_bufs and chroma_bufs
  held,     \* the handles the client was given and has not given back
  failed,   \* the calls so far that lost an object for want of memory, or
            \* that were given fewer capture buffers than they asked for
  phase     \* "open", "terminated", or the call in which the program ended

heapVars == <<config, context, surface, buffer, image>>
deviceVars == <<inputs, frames, mapped>>
vars == <<heapVars, deviceVars, held, failed, phase>>

AttribTypes == {"RTFormat", "Other"}

(* What object_heap_allocate and object_heap_free do to a heap.            *)
Unused(heap, ids) == ids \ DOMAIN heap
With(heap, new) ==
  [id \in DOMAIN heap \cup DOMAIN new |->
     IF id \in DOMAIN new THEN new[id] ELSE heap[id]]
Without(heap, ids) == Restrict(heap, DOMAIN heap \ ids)
One(id, object) == [i \in {id} |-> object]
EmptyHeap == [id \in {} |-> id]

Smaller(m, n) == IF m <= n THEN m ELSE n

Give(kind, ids) == held' = [held EXCEPT ![kind] = @ \cup ids]
TakeBack(kind, ids) == held' = [held EXCEPT ![kind] = @ \ ids]

RunsShort(call) == failed' = failed \cup {call}

Aborts(call) ==
  /\ phase' = call
  /\ UNCHANGED <<heapVars, deviceVars, held, failed>>
-----------------------------------------------------------------------------
(***************************************************************************)
(* Configurations.  vaCreateConfig starts the list with the format and     *)
(* adds the caller's attributes one by one; the loop that should find one  *)
(* that is already in the list never runs.  The object is freed, and       *)
(* nothing has changed, when the list would grow too long.                 *)
(***************************************************************************)
Attributes(attrib_list) == <<"RTFormat">> \o attrib_list

(* Mutant: update_attribute lets the list grow by one too many.            *)
FitsConfigLoosely(attribs) == Len(attribs) <= MAX_CONFIG_ATTRIBUTES + 1

FitsConfig(attribs) == Len(attribs) <= MAX_CONFIG_ATTRIBUTES

CreateConfig(attrib_list) ==
  /\ phase = "open"
  /\ FitsConfig(Attributes(attrib_list))
  /\ \E id \in Unused(config, ConfigIds) :
       /\ config' = With(config, One(id, Attributes(attrib_list)))
       /\ Give("config", {id})
  /\ UNCHANGED <<context, surface, buffer, image, deviceVars, failed, phase>>

(* Whether a context was made with the configuration is not looked at.     *)
DestroyConfig(c) ==
  /\ phase = "open"
  /\ c \in DOMAIN config
  /\ config' = Without(config, {c})
  /\ TakeBack("config", {c})
  /\ UNCHANGED <<context, surface, buffer, image, deviceVars, failed, phase>>
-----------------------------------------------------------------------------
(***************************************************************************)
(* Surfaces.  VIDIOC_CREATE_BUFS adds capture buffers to those the device  *)
(* has, and vaCreateSurfaces makes a surface of each.  It reports success  *)
(* even when the kernel grants fewer than were asked for: the client then  *)
(* reads ids that were never written.                                      *)
(***************************************************************************)
(* The numbers of buffers that VIDIOC_CREATE_BUFS may grant: at least one, *)
(* or it is refused; fewer than asked for when the queue fills up, or when *)
(* the kernel has no memory for the rest.                                  *)
Granted(count, present) == 1 .. Smaller(count, VIDEO_MAX_FRAME - present)

(* Mutant: the index is not counted from the first buffer created.         *)
OutputBufIndicesFromZero(count) == 0 .. count - 1

OutputBufIndices(count) == frames .. frames + count - 1

CreateSurfaces(num_surfaces) ==
  /\ phase = "open"
  /\ \E got \in Granted(num_surfaces, frames) :
       /\ \E ids \in SUBSET Unused(surface, SurfaceIds) :
            /\ Cardinality(ids) = got
            /\ \E new \in [ids -> OutputBufIndices(got)] :
                 IsInjective(new) /\ surface' = With(surface, new)
            /\ IF got < num_surfaces
               THEN Give("surface", ids \cup {Uninitialised}) /\ RunsShort("CreateSurfaces")
               ELSE Give("surface", ids) /\ UNCHANGED failed
       /\ frames' = frames + got
       /\ mapped' = mapped \cup OutputBufIndices(got)
  /\ UNCHANGED <<config, context, buffer, image, inputs, phase>>

(* Mutant: the recovery loop stops one early, at the first surface.        *)
CreateSurfacesKeepsOne(num_surfaces) ==
  /\ phase = "open"
  /\ \E got \in Granted(num_surfaces, frames) :
       /\ \E k \in 1 .. got - 1 : mapped' = mapped \cup OutputBufIndices(k)
       /\ \E id \in Unused(surface, SurfaceIds) : surface' = With(surface, One(id, frames))
       /\ frames' = frames + got
  /\ UNCHANGED <<config, context, buffer, image, inputs, held, failed, phase>>

(* Mutant: success is reported although the surfaces were freed.           *)
CreateSurfacesFailsUnnoticed(num_surfaces) ==
  /\ phase = "open"
  /\ \E got \in Granted(num_surfaces, frames) :
       /\ \E k \in 0 .. got - 1 : mapped' = mapped \cup OutputBufIndices(k)
       /\ frames' = frames + got
  /\ \E id \in Unused(surface, SurfaceIds) : Give("surface", {id})
  /\ UNCHANGED <<heapVars, inputs, failed, phase>>

(* The heap has no memory for one of the surfaces: those before it are     *)
(* freed; the capture buffers and the mappings made so far stay.           *)
CreateSurfacesFails(num_surfaces) ==
  /\ phase = "open"
  /\ \E got \in Granted(num_surfaces, frames) :
       /\ \E k \in 0 .. got - 1 : mapped' = mapped \cup OutputBufIndices(k)
       /\ frames' = frames + got
  /\ UNCHANGED <<heapVars, inputs, held, failed, phase>>

(* VIDIOC_S_FMT and, in fe_test, VIDIOC_REQBUFS may be refused once the    *)
(* queue has buffers, VIDIOC_CREATE_BUFS when it is full, and each of them *)
(* and the mmaps for want of memory.                                       *)
CreateSurfacesAborts ==
  /\ phase = "open"
  /\ Aborts("CreateSurfaces")

DestroySurfaces(ids) ==
  /\ phase = "open"
  /\ ids \subseteq DOMAIN surface
  /\ surface' = Without(surface, ids)
  /\ TakeBack("surface", ids)
  /\ UNCHANGED <<config, context, buffer, image, deviceVars, failed, phase>>

(* An id that is of no surface fails the assertion.                        *)
DestroySurfacesAborts(ids) ==
  /\ phase = "open"
  /\ ~(ids \subseteq DOMAIN surface)
  /\ Aborts("DestroySurfaces")
-----------------------------------------------------------------------------
(***************************************************************************)
(* Contexts.  Each vaCreateContext sets the input format of the device and *)
(* adds input buffers, even when a render target is not a surface: the     *)
(* context is then freed, and the call goes on regardless.                 *)
(***************************************************************************)
SetInput ==
  /\ \E got \in Granted(INPUT_BUFFERS_NB, inputs) : inputs' = inputs + got
  /\ UNCHANGED <<frames, mapped>>

MayCreateContext(c) ==
  /\ phase = "open"
  /\ c \in DOMAIN config

CreateContext(c, render_targets) ==
  /\ MayCreateContext(c)
  /\ render_targets \subseteq DOMAIN surface
  /\ \E id \in ContextIds \ context :
       /\ context' = context \cup {id}
       /\ Give("context", {id})
  /\ SetInput
  /\ UNCHANGED <<config, surface, buffer, image, failed, phase>>

(* Mutant: the context is not freed.                                       *)
CreateContextInvalidTargetKept(c, render_targets) ==
  /\ MayCreateContext(c)
  /\ ~(render_targets \subseteq DOMAIN surface)
  /\ \E id \in ContextIds \ context : context' = context \cup {id}
  /\ SetInput
  /\ UNCHANGED <<config, surface, buffer, image, held, failed, phase>>

CreateContextInvalidTarget(c, render_targets) ==
  /\ MayCreateContext(c)
  /\ ~(render_targets \subseteq DOMAIN surface)
  /\ SetInput
  /\ UNCHANGED <<heapVars, held, failed, phase>>

(* There is no memory for render_targets: the context is not freed.        *)
CreateContextFails(c) ==
  /\ MayCreateContext(c)
  /\ \E id \in ContextIds \ context : context' = context \cup {id}
  /\ RunsShort("CreateContext")
  /\ UNCHANGED <<config, surface, buffer, image, deviceVars, held, phase>>

(* One of the ioctls after that is refused.                                *)
CreateContextAborts(c) ==
  /\ MayCreateContext(c)
  /\ Aborts("CreateContext")

DestroyContext(x) ==
  /\ phase = "open"
  /\ x \in context
  /\ context' = context \ {x}
  /\ TakeBack("context", {x})
  /\ UNCHANGED <<config, surface, buffer, image, deviceVars, failed, phase>>
-----------------------------------------------------------------------------
(***************************************************************************)
(* Buffers.  One of slice data is of a context and maps an input buffer of *)
(* the device; the data of any other is allocated, and when it cannot be,  *)
(* the buffer is not freed.                                                *)
(***************************************************************************)
CreateBuffer ==
  /\ phase = "open"
  /\ \E id \in BufferIds \ buffer :
       /\ buffer' = buffer \cup {id}
       /\ Give("buffer", {id})
  /\ UNCHANGED <<config, context, surface, image, deviceVars, failed, phase>>

CreateSliceDataBuffer(x) ==
  /\ x \in context
  /\ CreateBuffer

(* The kernel did not grant the input buffer whose turn it is, so that the *)
(* VIDIOC_QUERYBUF of it is refused; or it cannot be mapped: the result of *)
(* mmap, which is then MAP_FAILED, is compared with NULL and written to.   *)
CreateSliceDataBufferAborts(x) ==
  /\ phase = "open"
  /\ x \in context
  /\ Aborts("CreateBuffer")

CreateBufferFails ==
  /\ phase = "open"
  /\ \E id \in BufferIds \ buffer : buffer' = buffer \cup {id}
  /\ RunsShort("CreateBuffer")
  /\ UNCHANGED <<config, context, surface, image, deviceVars, held, phase>>

DestroyBuffer(b) ==
  /\ phase = "open"
  /\ b \in buffer
  /\ buffer' = buffer \ {b}
  /\ TakeBack("buffer", {b})
  /\ UNCHANGED <<config, context, surface, image, deviceVars, failed, phase>>
-----------------------------------------------------------------------------
(***************************************************************************)
(* Images.  An image has a buffer of its own, which goes with it; the      *)
(* object of the image itself is never freed.  vaDeriveImage creates an    *)
(* image and detiles the mapped frame of a surface into it.                *)
(***************************************************************************)
CreateImage ==
  /\ phase = "open"
  /\ \E id \in Unused(image, ImageIds), b \in BufferIds \ buffer :
       /\ image' = With(image, One(id, b))
       /\ buffer' = buffer \cup {b}
       /\ Give("image", {id})
  /\ UNCHANGED <<config, context, surface, deviceVars, failed, phase>>

DeriveImage(s) ==
  /\ s \in DOMAIN surface
  /\ CreateImage

(* The surface is not looked for before it is used.                        *)
DeriveImageAborts(s) ==
  /\ phase = "open"
  /\ s \notin DOMAIN surface
  /\ Aborts("DeriveImage")

(* Mutant: the result of vaCreateBuffer is not looked at.                  *)
CreateImageFailsUnnoticed ==
  /\ phase = "open"
  /\ \E id \in Unused(image, ImageIds) :
       /\ image' = With(image, One(id, NoBuffer))
       /\ Give("image", {id})
  /\ RunsShort("CreateBuffer")
  /\ UNCHANGED <<config, context, surface, buffer, deviceVars, phase>>

(* There is no memory for the buffer, or for its data: the image, and in   *)
(* the second case the buffer, are not freed.                              *)
CreateImageFails ==
  /\ phase = "open"
  /\ \E id \in Unused(image, ImageIds) : image' = With(image, One(id, NoBuffer))
  /\ \/ UNCHANGED buffer
     \/ \E b \in BufferIds \ buffer : buffer' = buffer \cup {b}
  /\ RunsShort("CreateBuffer")
  /\ UNCHANGED <<config, context, surface, deviceVars, held, phase>>

DestroyImage(i) ==
  /\ phase = "open"
  /\ i \in DOMAIN image
  /\ image[i] \in buffer
  /\ buffer' = buffer \ {image[i]}
  /\ TakeBack("image", {i})
  /\ UNCHANGED <<config, context, surface, image, deviceVars, failed, phase>>
-----------------------------------------------------------------------------
(***************************************************************************)
(* vaTerminate frees the buffers that are left, destroys the heaps of      *)
(* buffers, surfaces and contexts, each of which asserts that it is empty, *)
(* frees the configurations that are left and destroys their heap.  The    *)
(* heap of images is not touched.                                          *)
(***************************************************************************)
LeftOver == DOMAIN surface # {} \/ context # {}

Terminate ==
  /\ phase = "open"
  /\ ~LeftOver
  /\ buffer' = {}
  /\ config' = EmptyHeap
  /\ phase' = "terminated"
  /\ UNCHANGED <<context, surface, image, deviceVars, held, failed>>

TerminateAborts ==
  /\ phase = "open"
  /\ LeftOver
  /\ buffer' = {}
  /\ phase' = "Terminate"
  /\ UNCHANGED <<config, context, surface, image, deviceVars, held, failed>>
-----------------------------------------------------------------------------
Init ==
  /\ config = EmptyHeap
  /\ context = {}
  /\ surface = EmptyHeap
  /\ buffer = {}
  /\ image = EmptyHeap
  /\ inputs = 0
  /\ frames = 0
  /\ mapped = {}
  /\ held = [config |-> {}, context |-> {}, surface |-> {}, buffer |-> {}, image |-> {}]
  /\ failed = {}
  /\ phase = "open"

(* The attribute lists of up to two attributes.                            *)
AttribLists == {<<>>} \cup [1 .. 1 -> AttribTypes] \cup [1 .. 2 -> AttribTypes]

(* The calls of a client that passes only handles it holds.                *)
ConfigCalls ==
  \/ \E l \in AttribLists : CreateConfig(l)
  \/ \E c \in held.config : DestroyConfig(c)

SurfaceCalls ==
  \/ \E n \in 1 .. MaxRequest : CreateSurfaces(n) \/ CreateSurfacesFails(n)
  \/ CreateSurfacesAborts
  \/ \E ids \in SUBSET held.surface \ {{}} :
       DestroySurfaces(ids) \/ DestroySurfacesAborts(ids)

(* A render target may be a surface that the client has destroyed.         *)
ContextCalls ==
  \/ \E c \in held.config, s \in SurfaceIds \cup {Uninitialised} :
       CreateContext(c, {s}) \/ CreateContextInvalidTarget(c, {s})
  \/ \E c \in held.config : CreateContextFails(c) \/ CreateContextAborts(c)
  \/ \E x \in held.context : DestroyContext(x)

BufferCalls ==
  \/ CreateBuffer
  \/ \E x \in held.context :
       CreateSliceDataBuffer(x) \/ CreateSliceDataBufferAborts(x)
  \/ CreateBufferFails
  \/ \E b \in held.buffer : DestroyBuffer(b)

ImageCalls ==
  \/ CreateImage
  \/ \E s \in held.surface : DeriveImage(s) \/ DeriveImageAborts(s)
  \/ CreateImageFails
  \/ \E i \in held.image : DestroyImage(i)

Next ==
  ConfigCalls \/ SurfaceCalls \/ ContextCalls \/ BufferCalls \/ ImageCalls
    \/ Terminate \/ TerminateAborts

Spec == Init /\ [][Next]_vars
-----------------------------------------------------------------------------
Heaps(ids, objects) == UNION {[S -> objects] : S \in SUBSET ids}

ConfigType ==
  /\ DOMAIN config \subseteq ConfigIds
  /\ \A c \in DOMAIN config :
       /\ config[c] \in Seq(AttribTypes)
       /\ Len(config[c]) <= MAX_CONFIG_ATTRIBUTES

TypeOK ==
  /\ ConfigType
  /\ context \subseteq ContextIds
  /\ surface \in Heaps(SurfaceIds, 0 .. VIDEO_MAX_FRAME - 1)
  /\ buffer \subseteq BufferIds
  /\ image \in Heaps(ImageIds, BufferIds \cup {NoBuffer})
  /\ inputs \in 0 .. VIDEO_MAX_FRAME
  /\ frames \in 0 .. VIDEO_MAX_FRAME
  /\ mapped \subseteq 0 .. VIDEO_MAX_FRAME - 1
  /\ held \in [config : SUBSET ConfigIds, context : SUBSET ContextIds,
               surface : SUBSET (SurfaceIds \cup {Uninitialised}),
               buffer : SUBSET BufferIds, image : SUBSET ImageIds]
  /\ failed \subseteq {"CreateSurfaces", "CreateContext", "CreateBuffer"}
  /\ phase \in {"open", "terminated", "CreateSurfaces", "DestroySurfaces",
                "CreateContext", "CreateBuffer", "DeriveImage", "Terminate"}

(***************************************************************************)
(* Every handle the client was given is one of an object that exists, also *)
(* after calls that failed half way, with one exception: once the kernel   *)
(* has granted a vaCreateSurfaces fewer capture buffers than it asked for, *)
(* the client believes to have surfaces whose ids were never written.      *)
(***************************************************************************)
HandlesValid ==
  phase = "open" =>
    /\ held.config \subseteq DOMAIN config
    /\ held.context \subseteq context
    /\ held.surface \ DOMAIN surface \subseteq
         (IF "CreateSurfaces" \in failed THEN {Uninitialised} ELSE {})
    /\ held.buffer \subseteq buffer

(***************************************************************************)
(* An image that the client holds has a buffer, and shares it neither with *)
(* another image nor with the client.                                      *)
(***************************************************************************)
ImageBufferAlive ==
  phase = "open" =>
    /\ held.image \subseteq DOMAIN image
    /\ \A i \in held.image :
         /\ image[i] \in buffer \ held.buffer
         /\ \A j \in held.image \ {i} : image[i] # image[j]

(***************************************************************************)
(* No two surfaces share a capture buffer, and that of a surface exists    *)
(* and is mapped: fe_throw_buffer and vaDeriveImage may read it.           *)
(***************************************************************************)
OwnCaptureBuffer ==
  /\ \A s \in DOMAIN surface : surface[s] < frames /\ surface[s] \in mapped
  /\ \A s, t \in DOMAIN surface : surface[s] = surface[t] => s = t

(***************************************************************************)
(* The driver never keeps a surface or a configuration that the client has *)
(* no handle of, and a context or a buffer only after a vaCreateContext or *)
(* a vaCreateBuffer, by itself or for an image, ran out of memory.  Of the *)
(* images this says nothing: vaDestroyImage never frees their objects.     *)
(***************************************************************************)
OnlyFailuresLeak ==
  phase = "open" =>
    /\ DOMAIN config \subseteq held.config
    /\ DOMAIN surface \subseteq held.surface
    /\ "CreateContext" \notin failed => context \subseteq held.context
    /\ "CreateBuffer" \notin failed =>
         buffer \subseteq held.buffer \cup {image[i] : i \in held.image}

(***************************************************************************)
(* A client that has given its surfaces and its contexts back can          *)
(* terminate the driver, unless a vaCreateContext ran out of memory: the   *)
(* assertion that the heaps are empty does not fail.                       *)
(***************************************************************************)
TidyTerminate ==
  phase = "Terminate" =>
    held.surface # {} \/ held.context # {} \/ "CreateContext" \in failed

(***************************************************************************)
(* An attribute is in the list of a configuration once, for one that is    *)
(* given again updates the one that is there.                              *)
(***************************************************************************)
AttributeOnce == \A c \in DOMAIN config : IsInjective(config[c])
=============================================================================
