------------------------------ MODULE Decoder ------------------------------
(***************************************************************************)
(* The decoding path of the driver: how a picture travels from vaCreate-   *)
(* Buffer, vaBeginPicture, vaRenderPicture and vaEndPicture through the    *)
(* two queues of the cedrus device to vaSyncSurface (buffer.c, picture.c,  *)
(* mpeg2.c, mpeg4.c, surface.c).                                           *)
(*                                                                         *)
(* The model starts after vaCreateSurfaces and vaCreateContext: both       *)
(* queues stream, every surface owns one capture buffer (output_buf_index, *)
(* fixed for its life, so a surface also names its capture buffer), and    *)
(* INPUT_BUFFERS_NB input buffers are shared by the pictures in turn.      *)
(*                                                                         *)
(* Two threads of the client call the driver, which takes no lock over     *)
(* them: one decodes, the other displays.  The device works in parallel.   *)
(* Bitstreams, headers and decoded frames are represented by the number of *)
(* the picture they belong to.                                             *)
(***************************************************************************)
EXTENDS M2MQueue, FiniteSets

CONSTANTS
  Surfaces,           \* the surfaces, each with its capture buffer
  NoSurface,          \* current_render_target when it is -1
  INPUT_BUFFERS_NB,   \* input buffers of the context
  UINT_RANGE,         \* num_rendered_surfaces wraps here (2^32 in the code)
  Profile,            \* "MPEG2" or "MPEG4"
  MaxPictures,        \* bound: pictures the client begins
  Client,             \* "orderly", "unordered" or "chaotic", see below
  Renders,            \* bound: FALSE in a run about the queues alone, where
                      \* the client leaves its pictures empty
  MaxAhead,           \* pictures a client that is not chaotic leaves unsynced
  Patient,            \* it reuses a surface only once a sync of it succeeded
  BufferFirst,        \* it creates the slice buffer before vaBeginPicture
  Timely              \* the device beats the 300 ms timeout of vaSyncSurface

ASSUME DecoderAssumption ==
  /\ NoSurface \notin Surfaces
  /\ INPUT_BUFFERS_NB \in Nat \ {0}
  /\ UINT_RANGE \in Nat \ {0}
  /\ UINT_RANGE % INPUT_BUFFERS_NB = 0
  /\ MaxPictures \in Nat
  /\ MaxAhead \in Nat
  /\ Profile \in {"MPEG2", "MPEG4"}
  /\ Client \in {"orderly", "unordered", "chaotic"}
  /\ {Renders, Patient, BufferFirst, Timely} \subseteq BOOLEAN

VARIABLES
  \* object_surface and object_context
  status,                 \* status[s], a VASurfaceStatus
  input_buf_index,        \* input_buf_index[s]; its request is one more
  num_rendered_surfaces,
  current_render_target,
  frame_hdr,              \* the picture each half of the header describes
                          \* and the surface that its reference index is of
  slice_buf,              \* the slice data buffer: the input buffer that it
                          \* maps and the picture whose size it has
  \* the cedrus device
  out, cap,               \* the queues of input and of capture buffers
  ctrl,                   \* ctrl[i], the header set for request i+1
  input,                  \* input[i], the picture whose data buffer i holds
  frame,                  \* frame[s], the picture in the buffer of surface s
  \* the calls in progress
  decode_pc,              \* where BeginPicture or EndPicture is
  sync,                   \* sync[t], where thread t is in SyncSurface
  \* what the client knows and does
  rendered,               \* the kinds of buffer rendered in this picture
  pictures,               \* how many pictures it has begun
  picture,                \* picture[s], the last one begun on s
  pending                 \* surfaces submitted and not yet synced

vars == <<status, input_buf_index, num_rendered_surfaces,
          current_render_target, frame_hdr, slice_buf, out, cap, ctrl, input,
          frame, decode_pc, sync, rendered, pictures, picture, pending>>
surfaceVars == <<status, input_buf_index>>
contextVars == <<num_rendered_surfaces, current_render_target, frame_hdr,
                 slice_buf>>
deviceVars == <<out, cap, ctrl, input, frame>>
clientVars == <<rendered, pictures, picture, pending>>

Slots == 0 .. INPUT_BUFFERS_NB - 1
Threads == {"decode", "display"}
Statuses == {"Ready", "Rendering", "Skipped"}
BufferTypes == {"sliceData", "picParam", "sliceParam"}

NoPicture == 0
Garbage == -1
Tags == -1 .. MaxPictures
Headers == [param : Tags, slice : Tags, ref : Surfaces \cup {NoSurface}]
NoHeader == [param |-> NoPicture, slice |-> NoPicture, ref |-> NoSurface]

(* The pending picture that was begun first.                               *)
IsOldest(s) == s \in pending /\ \A x \in pending : picture[s] <= picture[x]
-----------------------------------------------------------------------------
(***************************************************************************)
(* The client.  A chaotic client makes any call that its state allows.  An *)
(* orderly one renders every part of a picture before it ends it, keeps    *)
(* fewer than MaxAhead older pictures unsynced when it starts the next     *)
(* one, which it does not decode into the surface of the picture before,   *)
(* its reference, and syncs the oldest picture first, one sync at a time;  *)
(* an unordered one differs in that it syncs whichever pending picture it  *)
(* likes.                                                                  *)
(***************************************************************************)
Disciplined == Client # "chaotic"

NextPicture ==
  IF current_render_target = NoSurface THEN pictures + 1 ELSE pictures

(* How many pictures it has submitted: all but the one it is still at.     *)
Submitted ==
  IF current_render_target = NoSurface THEN pictures ELSE pictures - 1

MayCreateSliceBuffer ==
  /\ Renders
  /\ NextPicture <= MaxPictures
  /\ slice_buf.picture # NextPicture
  /\ Disciplined => /\ Cardinality(pending) < MaxAhead
                    /\ (current_render_target = NoSurface) = BufferFirst

MaySync(s) ==
  Disciplined => /\ s \in pending
                 /\ Client = "orderly" => IsOldest(s)
                 /\ decode_pc # "syncing"
                 /\ \A t \in Threads : sync[t].at = "idle"

MayBegin(s) ==
  /\ pictures < MaxPictures
  /\ Disciplined => /\ current_render_target = NoSurface
                    /\ Cardinality(pending) < MaxAhead
                    /\ Renders => picture[s] = NoPicture \/ picture[s] # pictures
                    /\ BufferFirst => slice_buf.picture = pictures + 1
                    /\ s \in pending => ~Patient /\ MaySync(s)

MayRender(type) ==
  /\ Renders
  /\ type = "sliceData" => slice_buf.picture # NoPicture
  /\ Disciplined => /\ type \notin rendered
                    /\ type = "sliceData" => slice_buf.picture = pictures

MayEnd == Disciplined => rendered = BufferTypes
-----------------------------------------------------------------------------
(***************************************************************************)
(* vaCreateBuffer for slice data: it maps the input buffer the context's   *)
(* counter points at and copies the data there at once.                    *)
(***************************************************************************)
(* Mutant: the buffer after the one the counter points at.                 *)
CreateSliceBufferAhead ==
  /\ decode_pc = "idle"
  /\ MayCreateSliceBuffer
  /\ LET slot == (num_rendered_surfaces + 1) % INPUT_BUFFERS_NB
     IN  /\ slice_buf' = [slot |-> slot, picture |-> NextPicture]
         /\ input' = [input EXCEPT ![slot] = NextPicture]
  /\ UNCHANGED <<surfaceVars, num_rendered_surfaces, current_render_target,
                 frame_hdr, out, cap, ctrl, frame, decode_pc, sync, clientVars>>

CreateSliceBuffer ==
  /\ decode_pc = "idle"
  /\ MayCreateSliceBuffer
  /\ LET slot == num_rendered_surfaces % INPUT_BUFFERS_NB
     IN  /\ slice_buf' = [slot |-> slot, picture |-> NextPicture]
         /\ input' = [input EXCEPT ![slot] = NextPicture]
  /\ UNCHANGED <<surfaceVars, num_rendered_surfaces, current_render_target,
                 frame_hdr, out, cap, ctrl, frame, decode_pc, sync, clientVars>>

(***************************************************************************)
(* vaBeginPicture.  A surface still Rendering is synced first, and the     *)
(* result of that sync is ignored.                                         *)
(***************************************************************************)
(* Mutants: the counter does not wrap; the surface is not marked.          *)
StartRenderingUnwrapped(s) ==
  /\ status' = [status EXCEPT ![s] = "Rendering"]
  /\ input_buf_index' = [input_buf_index EXCEPT
                           ![s] = num_rendered_surfaces % INPUT_BUFFERS_NB]
  /\ num_rendered_surfaces' = num_rendered_surfaces + 1
  /\ current_render_target' = s
  /\ decode_pc' = "idle"
  /\ rendered' = {}
  /\ pictures' = pictures + 1
  /\ picture' = [picture EXCEPT ![s] = pictures + 1]
  /\ pending' = pending \ {s}
  /\ UNCHANGED <<frame_hdr, slice_buf, deviceVars, sync>>

StartRenderingUnmarked(s) ==
  /\ input_buf_index' = [input_buf_index EXCEPT
                           ![s] = num_rendered_surfaces % INPUT_BUFFERS_NB]
  /\ num_rendered_surfaces' = (num_rendered_surfaces + 1) % UINT_RANGE
  /\ current_render_target' = s
  /\ decode_pc' = "idle"
  /\ rendered' = {}
  /\ pictures' = pictures + 1
  /\ picture' = [picture EXCEPT ![s] = pictures + 1]
  /\ pending' = pending \ {s}
  /\ UNCHANGED <<status, frame_hdr, slice_buf, deviceVars, sync>>

StartRendering(s) ==
  /\ status' = [status EXCEPT ![s] = "Rendering"]
  /\ input_buf_index' = [input_buf_index EXCEPT
                           ![s] = num_rendered_surfaces % INPUT_BUFFERS_NB]
  /\ num_rendered_surfaces' = (num_rendered_surfaces + 1) % UINT_RANGE
  /\ current_render_target' = s
  /\ decode_pc' = "idle"
  /\ rendered' = {}
  /\ pictures' = pictures + 1
  /\ picture' = [picture EXCEPT ![s] = pictures + 1]
  /\ pending' = pending \ {s}
  /\ UNCHANGED <<frame_hdr, slice_buf, deviceVars, sync>>

(* Mutant: a surface still Rendering is not synced.                        *)
BeginPictureUnsynced(s) ==
  /\ decode_pc = "idle"
  /\ MayBegin(s)
  /\ StartRendering(s)

BeginPicture(s) ==
  /\ decode_pc = "idle"
  /\ MayBegin(s)
  /\ status[s] # "Rendering"
  /\ StartRendering(s)

EnterSync(t, s) == sync' = [sync EXCEPT ![t].at = "select", ![t].surface = s]

BeginPictureSyncs(s) ==
  /\ decode_pc = "idle"
  /\ MayBegin(s)
  /\ status[s] = "Rendering"
  /\ EnterSync("decode", s)
  /\ decode_pc' = "syncing"
  /\ UNCHANGED <<surfaceVars, contextVars, deviceVars, clientVars>>

BeginPictureResumes ==
  /\ decode_pc = "syncing"
  /\ sync["decode"].at = "idle"
  /\ StartRendering(sync["decode"].surface)

(***************************************************************************)
(* vaRenderPicture of one buffer, for the picture being rendered.  With    *)
(* MPEG-2 the slice data buffer also gives the slice half of the header    *)
(* and slice parameters are ignored; with MPEG-4 it is the other way       *)
(* round.  The header is the context's: what is not rendered stays from    *)
(* the picture before.                                                     *)
(***************************************************************************)
CopySliceData(slot) == input' = [input EXCEPT ![slot] = input[slice_buf.slot]]

RenderMPEG4SliceData(slot) ==
  /\ CopySliceData(slot)
  /\ UNCHANGED frame_hdr

RenderMPEG2SliceData(slot) ==
  /\ CopySliceData(slot)
  /\ frame_hdr' = [frame_hdr EXCEPT !.slice = slice_buf.picture]

RenderSliceData(slot) ==
  IF Profile = "MPEG2" THEN RenderMPEG2SliceData(slot) ELSE RenderMPEG4SliceData(slot)

(***************************************************************************)
(* The reference index of the header is the capture buffer of the surface  *)
(* that the client names, here that of the picture begun before this one,  *)
(* or else that of the render target itself.  (Forward and backward        *)
(* references are treated alike; one stands for both.)                     *)
(***************************************************************************)
Reference == {s \in Surfaces : pictures > 1 /\ picture[s] = pictures - 1}

(* Mutant: the reference index is always that of the render target.        *)
ReferenceIndicesOwn == {current_render_target}

ReferenceIndices == IF Reference = {} THEN {current_render_target} ELSE Reference

RenderPictureParameter ==
  /\ \E r \in ReferenceIndices :
       frame_hdr' = [frame_hdr EXCEPT !.param = pictures, !.ref = r]
  /\ UNCHANGED input

RenderSliceParameter ==
  /\ frame_hdr' = IF Profile = "MPEG4"
                    THEN [frame_hdr EXCEPT !.slice = pictures]
                    ELSE frame_hdr
  /\ UNCHANGED input

RenderPicture(type) ==
  /\ decode_pc = "idle"
  /\ current_render_target # NoSurface
  /\ MayRender(type)
  /\ \/ type = "sliceData"  /\ RenderSliceData(input_buf_index[current_render_target])
     \/ type = "picParam"   /\ RenderPictureParameter
     \/ type = "sliceParam" /\ RenderSliceParameter
  /\ rendered' = rendered \cup {type}
  /\ UNCHANGED <<surfaceVars, num_rendered_surfaces, current_render_target,
                 slice_buf, out, cap, ctrl, frame, decode_pc, sync, pictures,
                 picture, pending>>
-----------------------------------------------------------------------------
(***************************************************************************)
(* vaEndPicture: VIDIOC_S_EXT_CTRLS for the request of the surface, then   *)
(* VIDIOC_QBUF of its capture buffer, then of its input buffer.  When one  *)
(* of the two fails the surface is Skipped and stays the render target.    *)
(***************************************************************************)
(* Mutant: the capture buffer is not queued.                               *)
EndPictureNoFrame ==
  /\ decode_pc = "idle"
  /\ current_render_target # NoSurface
  /\ MayEnd
  /\ ctrl' = [ctrl EXCEPT ![input_buf_index[current_render_target]] = frame_hdr]
  /\ decode_pc' = "qout"
  /\ UNCHANGED <<surfaceVars, contextVars, out, cap, input, frame, sync, clientVars>>

EndPicture ==
  /\ decode_pc = "idle"
  /\ current_render_target # NoSurface
  /\ MayEnd
  /\ ctrl' = [ctrl EXCEPT ![input_buf_index[current_render_target]] = frame_hdr]
  /\ decode_pc' = "qcap"
  /\ UNCHANGED <<surfaceVars, contextVars, out, cap, input, frame, sync, clientVars>>

QueueFrame ==
  /\ decode_pc = "qcap"
  /\ CanEnqueue(cap, current_render_target)
  /\ cap' = Enqueue(cap, current_render_target)
  /\ decode_pc' = "qout"
  /\ UNCHANGED <<surfaceVars, contextVars, out, ctrl, input, frame, sync, clientVars>>

(* Mutant: the result of VIDIOC_QBUF is ignored.                           *)
QueueFrameFailsIgnored ==
  /\ decode_pc = "qcap"
  /\ ~CanEnqueue(cap, current_render_target)
  /\ decode_pc' = "qout"
  /\ UNCHANGED <<surfaceVars, contextVars, deviceVars, sync, clientVars>>

QueueFrameFails ==
  /\ decode_pc = "qcap"
  /\ ~CanEnqueue(cap, current_render_target)
  /\ status' = [status EXCEPT ![current_render_target] = "Skipped"]
  /\ decode_pc' = "idle"
  /\ UNCHANGED <<input_buf_index, contextVars, deviceVars, sync, clientVars>>

QueueInput ==
  /\ decode_pc = "qout"
  /\ CanEnqueue(out, input_buf_index[current_render_target])
  /\ out' = Enqueue(out, input_buf_index[current_render_target])
  /\ current_render_target' = NoSurface
  /\ decode_pc' = "idle"
  /\ pending' = pending \cup {current_render_target}
  /\ UNCHANGED <<surfaceVars, num_rendered_surfaces, frame_hdr, slice_buf, cap,
                 ctrl, input, frame, sync, rendered, pictures, picture>>

QueueInputFails ==
  /\ decode_pc = "qout"
  /\ ~CanEnqueue(out, input_buf_index[current_render_target])
  /\ status' = [status EXCEPT ![current_render_target] = "Skipped"]
  /\ decode_pc' = "dqcap"
  /\ UNCHANGED <<input_buf_index, contextVars, deviceVars, sync, clientVars>>

(* The attempt to take the capture buffer back: VIDIOC_DQBUF returns the   *)
(* oldest finished buffer, or nothing, and the result is ignored.          *)
UnqueueFrame ==
  /\ decode_pc = "dqcap"
  /\ cap' = IF CanDequeue(cap) THEN Dequeue(cap) ELSE cap
  /\ decode_pc' = "idle"
  /\ UNCHANGED <<surfaceVars, contextVars, out, ctrl, input, frame, sync, clientVars>>
-----------------------------------------------------------------------------
(***************************************************************************)
(* vaSyncSurface.  A Skipped surface is refused, which changes nothing.    *)
(* select() returns when a capture buffer is finished, at once when both   *)
(* queues are empty (POLLERR), or after 300 ms; what it returns is not     *)
(* looked at.  Then both queues are dequeued without blocking.             *)
(***************************************************************************)
Readable == CanDequeue(cap) \/ (out = EmptyQueue /\ cap = EmptyQueue)

CanDecode == Waiting(out) > 0 /\ Waiting(cap) > 0

SyncSurface(s) ==
  /\ sync["display"].at = "idle"
  /\ MaySync(s)
  /\ status[s] # "Skipped"
  /\ EnterSync("display", s)
  /\ UNCHANGED <<surfaceVars, contextVars, deviceVars, decode_pc, clientVars>>

SelectReturns(t) ==
  /\ sync[t].at = "select"
  /\ Timely => Readable \/ ~CanDecode
  /\ sync' = [sync EXCEPT ![t].at = "dqout"]
  /\ UNCHANGED <<surfaceVars, contextVars, deviceVars, decode_pc, clientVars>>

DequeueInput(t) ==
  /\ sync[t].at = "dqout"
  /\ CanDequeue(out)
  /\ out' = Dequeue(out)
  /\ sync' = [sync EXCEPT ![t].at = "ready"]
  /\ UNCHANGED <<surfaceVars, contextVars, cap, ctrl, input, frame, decode_pc, clientVars>>

(* Mutant: the result of VIDIOC_DQBUF is ignored.                          *)
DequeueInputFailsIgnored(t) ==
  /\ sync[t].at = "dqout"
  /\ ~CanDequeue(out)
  /\ sync' = [sync EXCEPT ![t].at = "ready"]
  /\ UNCHANGED <<surfaceVars, contextVars, deviceVars, decode_pc, clientVars>>

DequeueInputFails(t) ==
  /\ sync[t].at = "dqout"
  /\ ~CanDequeue(out)
  /\ sync' = [sync EXCEPT ![t].at = "idle"]
  /\ UNCHANGED <<surfaceVars, contextVars, deviceVars, decode_pc, clientVars>>

MarkReady(t) ==
  /\ sync[t].at = "ready"
  /\ status' = [status EXCEPT ![sync[t].surface] = "Ready"]
  /\ sync' = [sync EXCEPT ![t].at = "dqcap"]
  /\ UNCHANGED <<input_buf_index, contextVars, deviceVars, decode_pc, clientVars>>

DequeueFrame(t) ==
  /\ sync[t].at = "dqcap"
  /\ CanDequeue(cap)
  /\ cap' = Dequeue(cap)
  /\ sync' = [sync EXCEPT ![t].at = "throw", ![t].buf = Oldest(cap)]
  /\ UNCHANGED <<surfaceVars, contextVars, out, ctrl, input, frame, decode_pc, clientVars>>

DequeueFrameFails(t) ==
  /\ sync[t].at = "dqcap"
  /\ ~CanDequeue(cap)
  /\ sync' = [sync EXCEPT ![t].at = "idle"]
  /\ UNCHANGED <<surfaceVars, contextVars, deviceVars, decode_pc, clientVars>>

(* fe_throw_buffer (module FrontEnd) is given the frame dequeued; whatever *)
(* it returns, vaSyncSurface succeeds.                                     *)
ThrowBuffer(t) ==
  /\ sync[t].at = "throw"
  /\ sync' = [sync EXCEPT ![t].at = "idle"]
  /\ pending' = pending \ {sync[t].surface}
  /\ UNCHANGED <<surfaceVars, contextVars, deviceVars, decode_pc, rendered,
                 pictures, picture>>

(***************************************************************************)
(* The device decodes the first waiting input buffer into the first        *)
(* waiting capture buffer.  The frame is right when the data and both      *)
(* halves of the header are of one picture, and the frame of the picture   *)
(* before it is in another buffer, the one that the header refers to; the  *)
(* first picture needs no reference.                                       *)
(***************************************************************************)
Decodes(p, hdr, target) ==
  /\ hdr.param = p /\ hdr.slice = p
  /\ p > 1 => hdr.ref # target /\ frame[hdr.ref] = p - 1

DecodedFrom(i, target) ==
  IF input[i] = NoPicture \/ Decodes(input[i], ctrl[i], target) THEN input[i] ELSE Garbage

HardwareDecode ==
  /\ CanDecode
  /\ frame' = [frame EXCEPT ![NextWaiting(cap)] =
                             DecodedFrom(NextWaiting(out), NextWaiting(cap))]
  /\ out' = Finish(out)
  /\ cap' = Finish(cap)
  /\ UNCHANGED <<surfaceVars, contextVars, ctrl, input, decode_pc, sync, clientVars>>
-----------------------------------------------------------------------------
(* What vaCreateSurfaces and vaCreateContext leave when they succeed.      *)
SurfacesCreated ==
  /\ status = [s \in Surfaces |-> "Ready"]
  /\ input_buf_index = [s \in Surfaces |-> 0]
  /\ cap = EmptyQueue
  /\ frame = [s \in Surfaces |-> NoPicture]

ContextCreated ==
  /\ num_rendered_surfaces = 0
  /\ current_render_target = NoSurface
  /\ frame_hdr = NoHeader
  /\ out = EmptyQueue
  /\ ctrl = [i \in Slots |-> NoHeader]
  /\ input = [i \in Slots |-> NoPicture]

Init ==
  /\ SurfacesCreated
  /\ ContextCreated
  /\ slice_buf = [slot |-> 0, picture |-> NoPicture]
  /\ decode_pc = "idle"
  /\ sync = [t \in Threads |-> [at |-> "idle", surface |-> NoSurface, buf |-> NoSurface]]
  /\ rendered = {}
  /\ pictures = 0
  /\ picture = [s \in Surfaces |-> NoPicture]
  /\ pending = {}

(* The steps inside EndPicture and inside BeginPicture after its sync, and *)
(* those inside SyncSurface: the driver's own, which nobody has to call.   *)
DecodeSteps ==
  \/ BeginPictureResumes
  \/ QueueFrame \/ QueueFrameFails \/ QueueInput \/ QueueInputFails \/ UnqueueFrame

DequeueSteps(t) ==
  \/ SelectReturns(t)
  \/ DequeueInput(t) \/ DequeueInputFails(t)
  \/ MarkReady(t)
  \/ DequeueFrame(t) \/ DequeueFrameFails(t)

SyncSteps(t) == DequeueSteps(t) \/ ThrowBuffer(t)

ClientCalls ==
  \/ CreateSliceBuffer
  \/ \E s \in Surfaces : BeginPicture(s) \/ BeginPictureSyncs(s) \/ SyncSurface(s)
  \/ \E type \in BufferTypes : RenderPicture(type)
  \/ EndPicture

Next ==
  \/ ClientCalls
  \/ DecodeSteps
  \/ \E t \in Threads : SyncSteps(t)
  \/ HardwareDecode

Spec == Init /\ [][Next]_vars

(***************************************************************************)
(* The device keeps working, a call that was entered keeps running, and    *)
(* the client syncs again while a picture is pending.  Nothing says that   *)
(* the client starts pictures.                                             *)
(***************************************************************************)
Fairness ==
  /\ WF_vars(HardwareDecode)
  /\ WF_vars(DecodeSteps)
  /\ \A t \in Threads : WF_vars(SyncSteps(t))
  /\ WF_vars(\E s \in pending : SyncSurface(s))

FairSpec == Spec /\ Fairness
-----------------------------------------------------------------------------
TypeOK ==
  /\ status \in [Surfaces -> Statuses]
  /\ input_buf_index \in [Surfaces -> Slots]
  /\ num_rendered_surfaces \in 0 .. UINT_RANGE - 1
  /\ current_render_target \in Surfaces \cup {NoSurface}
  /\ frame_hdr \in Headers
  /\ slice_buf \in [slot : Slots, picture : Tags]
  /\ out \in Queues(Slots)
  /\ cap \in Queues(Surfaces)
  /\ ctrl \in [Slots -> Headers]
  /\ input \in [Slots -> Tags]
  /\ frame \in [Surfaces -> Tags]
  /\ decode_pc \in {"idle", "syncing", "qcap", "qout", "dqcap"}
  /\ sync \in [Threads -> [at : {"idle", "select", "dqout", "ready", "dqcap", "throw"},
                           surface : Surfaces \cup {NoSurface},
                           buf : Surfaces \cup {NoSurface}]]
  /\ rendered \in SUBSET BufferTypes
  /\ pictures \in 0 .. MaxPictures
  /\ picture \in [Surfaces -> 0 .. MaxPictures]
  /\ pending \in SUBSET Surfaces

(***************************************************************************)
(* The device never has an input buffer to decode and no capture buffer to *)
(* decode into: EndPicture queues the capture buffer first, and neither    *)
(* SyncSurface nor the error path takes back one that is still waiting.    *)
(* It holds whatever the client does.                                      *)
(***************************************************************************)
NeverStarved ==
  /\ Waiting(out) <= Waiting(cap)
  /\ decode_pc = "qout" => Waiting(out) < Waiting(cap)

(***************************************************************************)
(* The k-th waiting input buffer is the one of the k-th waiting surface,   *)
(* and it and the header set for its request still hold, untouched, the    *)
(* picture that was begun on that surface.  The header names as reference  *)
(* the capture buffer that is decoded into just before, or, when the       *)
(* picture is the next to be decoded, another one than its own, in which   *)
(* the frame of the picture before it is still to be found.                *)
(***************************************************************************)
DecodesIntoItsSurface ==
  \A k \in 1 .. Waiting(out) :
    LET i == out.fifo[out.done + k]
        s == cap.fifo[cap.done + k]
    IN  /\ input_buf_index[s] = i
        /\ input[i] = picture[s]
        /\ ctrl[i].param = picture[s] /\ ctrl[i].slice = picture[s]
        /\ picture[s] > 1 =>
             /\ ctrl[i].ref \in Surfaces \ {s}
             /\ IF k = 1 THEN frame[ctrl[i].ref] = picture[s] - 1
                         ELSE ctrl[i].ref = cap.fifo[cap.done + k - 1]

(***************************************************************************)
(* The frame that a sync of a surface dequeues and hands to the front-end  *)
(* is the buffer of that surface, and it shows the picture that was last   *)
(* begun on it.                                                            *)
(***************************************************************************)
SyncShowsOwnPicture ==
  \A t \in Threads :
    sync[t].at = "throw" => /\ sync[t].buf = sync[t].surface
                            /\ frame[sync[t].buf] = picture[sync[t].surface]

(***************************************************************************)
(* Data is only ever copied into an input buffer that the device is not    *)
(* still to read.                                                          *)
(***************************************************************************)
BusyInputUntouched ==
  [][\A i \in WaitingBuffers(out) : input'[i] = input[i]]_vars

(***************************************************************************)
(* A surface that vaQuerySurfaceStatus reports Ready, be it in the middle  *)
(* of a sync, holds the picture that was last begun on it.                 *)
(***************************************************************************)
ReadyMeansDecoded ==
  \A s \in Surfaces : status[s] = "Ready" => frame[s] = picture[s]

(***************************************************************************)
(* A client that respects the number of input buffers never loses a        *)
(* picture to a failing VIDIOC_QBUF in vaEndPicture.                       *)
(***************************************************************************)
NoPictureSkipped == \A s \in Surfaces : status[s] # "Skipped"

(***************************************************************************)
(* Every picture submitted is synced successfully in the end, however many *)
(* syncs of it time out before it is decoded.                              *)
(***************************************************************************)
EveryPictureShown ==
  \A s \in Surfaces : s \in pending ~> s \notin pending

(***************************************************************************)
(* Whatever the client does, an input buffer that it managed to queue does *)
(* not wait for ever in the kernel.                                        *)
(***************************************************************************)
EveryInputDecoded ==
  \A i \in Slots :
    i \in WaitingBuffers(out) ~> i \notin WaitingBuffers(out)
=============================================================================
