--------------------------- MODULE DecoderProofs ---------------------------
(***************************************************************************)
(* Proofs about Decoder, for every number of surfaces, input buffers and   *)
(* pictures and for every client.                                          *)
(***************************************************************************)
EXTENDS DecoderOrder, M2MQueueProofs, Division, FiniteSetTheorems

(***************************************************************************)
(* A call in progress works on a surface.                                  *)
(***************************************************************************)
CallInv ==
  /\ decode_pc \in {"qcap", "qout", "dqcap"} => current_render_target \in Surfaces
  /\ decode_pc = "syncing" => /\ sync["decode"].surface \in Surfaces
                              /\ pictures < MaxPictures
  /\ \A t \in Threads : sync[t].at # "idle" => sync[t].surface \in Surfaces

TypeInv == TypeOK /\ CallInv

LEMMA InitTypeInv == Init => TypeInv
BY DecoderAssumption
   DEF Init, SurfacesCreated, ContextCreated, TypeInv, TypeOK, CallInv, Statuses,
   Slots, Headers, NoHeader, Tags, NoPicture, Queues, EmptyQueue, Threads, BufferTypes

LEMMA CreateSliceBufferTypeInv == TypeInv /\ CreateSliceBuffer => TypeInv'
<1> SUFFICES ASSUME TypeInv, CreateSliceBuffer
             PROVE  TypeInv'
  OBVIOUS
<1> DEFINE slot == num_rendered_surfaces % INPUT_BUFFERS_NB
<1>0. num_rendered_surfaces \in Nat
  BY DecoderAssumption DEF TypeInv, TypeOK
<1>1. slot \in Slots
  BY <1>0, DecoderAssumption, ModRange DEF Slots
<1>2. NextPicture \in Tags
  BY DecoderAssumption DEF TypeInv, TypeOK, CreateSliceBuffer, MayCreateSliceBuffer,
     NextPicture, Tags
<1>3. /\ slice_buf' = [slot |-> slot, picture |-> NextPicture]
      /\ input' = [input EXCEPT ![slot] = NextPicture]
  BY DEF CreateSliceBuffer
<1>4. slice_buf' \in [slot : Slots, picture : Tags] /\ input' \in [Slots -> Tags]
  BY <1>1, <1>2, <1>3 DEF TypeInv, TypeOK
<1> QED
  BY <1>4 DEF TypeInv, TypeOK, CallInv, CreateSliceBuffer, surfaceVars, clientVars

LEMMA StartRenderingTypeInv ==
  ASSUME TypeInv, NEW s \in Surfaces, pictures < MaxPictures, StartRendering(s)
  PROVE  TypeInv'
<1>0. num_rendered_surfaces \in Nat /\ num_rendered_surfaces + 1 \in Nat
  BY DecoderAssumption DEF TypeInv, TypeOK
<1>1. num_rendered_surfaces % INPUT_BUFFERS_NB \in Slots
  BY <1>0, DecoderAssumption, ModRange DEF Slots
<1>2. (num_rendered_surfaces + 1) % UINT_RANGE \in 0 .. UINT_RANGE - 1
  BY <1>0, DecoderAssumption, ModRange
<1>3. pictures + 1 \in 0 .. MaxPictures
  BY DecoderAssumption DEF TypeInv, TypeOK
<1> QED
  BY <1>1, <1>2, <1>3 DEF TypeInv, TypeOK, CallInv, StartRendering, Statuses,
     deviceVars

(* The calls of the client that enter the driver.                          *)
LEMMA ClientCallsTypeInv == TypeInv /\ ClientCalls => TypeInv'
<1> SUFFICES ASSUME TypeInv, ClientCalls
             PROVE  TypeInv'
  OBVIOUS
<1>1. CASE CreateSliceBuffer
  BY <1>1, CreateSliceBufferTypeInv
<1>2. ASSUME NEW s \in Surfaces, BeginPicture(s)
      PROVE  TypeInv'
  BY <1>2, StartRenderingTypeInv DEF BeginPicture, MayBegin
<1>3. ASSUME NEW s \in Surfaces, BeginPictureSyncs(s)
      PROVE  TypeInv'
  BY <1>3 DEF TypeInv, TypeOK, CallInv, BeginPictureSyncs, MayBegin, EnterSync, Threads,
     surfaceVars, contextVars, deviceVars, clientVars
<1>4. ASSUME NEW s \in Surfaces, SyncSurface(s)
      PROVE  TypeInv'
  BY <1>4 DEF TypeInv, TypeOK, CallInv, SyncSurface, EnterSync, Threads,
     surfaceVars, contextVars, deviceVars, clientVars
<1>5. ASSUME NEW type \in BufferTypes, RenderPicture(type)
      PROVE  TypeInv'
  <2>1. /\ pictures \in Tags
        /\ current_render_target \in Surfaces
        /\ input_buf_index[current_render_target] \in Slots
        /\ slice_buf.slot \in Slots /\ slice_buf.picture \in Tags
    BY <1>5, DecoderAssumption DEF TypeInv, TypeOK, RenderPicture, Tags
  <2>2. /\ [frame_hdr EXCEPT !.slice = slice_buf.picture] \in Headers
        /\ [frame_hdr EXCEPT !.slice = pictures] \in Headers
        /\ \A r \in ReferenceIndices :
             [frame_hdr EXCEPT !.param = pictures, !.ref = r] \in Headers
    BY <2>1 DEF TypeInv, TypeOK, Headers, ReferenceIndices, Reference
  <2>3. frame_hdr' \in Headers /\ input' \in [Slots -> Tags]
    BY <1>5, <2>1, <2>2 DEF TypeInv, TypeOK, RenderPicture, RenderSliceData,
       RenderMPEG2SliceData, RenderMPEG4SliceData, CopySliceData,
       RenderPictureParameter, RenderSliceParameter
  <2> QED
    BY <1>5, <2>3 DEF TypeInv, TypeOK, CallInv, RenderPicture, surfaceVars
<1>6. CASE EndPicture
  BY <1>6 DEF TypeInv, TypeOK, CallInv, EndPicture, surfaceVars, contextVars, clientVars
<1> QED
  BY <1>1, <1>2, <1>3, <1>4, <1>5, <1>6 DEF ClientCalls

(* The steps of vaBeginPicture after its sync and of vaEndPicture.         *)
LEMMA DecodeStepsTypeInv == TypeInv /\ DecodeSteps => TypeInv'
<1> SUFFICES ASSUME TypeInv, DecodeSteps
             PROVE  TypeInv'
  OBVIOUS
<1> USE DEF TypeInv, TypeOK, CallInv, surfaceVars, contextVars, deviceVars, clientVars
<1>1. CASE BeginPictureResumes
  <2>1. /\ sync["decode"].surface \in Surfaces /\ pictures < MaxPictures
        /\ StartRendering(sync["decode"].surface)
    BY <1>1 DEF BeginPictureResumes
  <2> QED
    BY <2>1, StartRenderingTypeInv
<1>2. CASE QueueFrame
  BY <1>2, EnqueueQueue DEF QueueFrame
<1>3. CASE QueueFrameFails
  BY <1>3 DEF QueueFrameFails, Statuses
<1>4. CASE QueueInput
  BY <1>4, EnqueueQueue DEF QueueInput
<1>5. CASE QueueInputFails
  BY <1>5 DEF QueueInputFails, Statuses
<1>6. CASE UnqueueFrame
  BY <1>6, DequeueQueue DEF UnqueueFrame
<1> QED
  BY <1>1, <1>2, <1>3, <1>4, <1>5, <1>6 DEF DecodeSteps

(* The steps of vaSyncSurface.                                             *)
LEMMA SyncStepsTypeInv ==
  ASSUME TypeInv, NEW t \in Threads, SyncSteps(t)
  PROVE  TypeInv'
<1> USE DEF TypeInv, TypeOK, CallInv, surfaceVars, contextVars, deviceVars, clientVars
<1>1. CASE SelectReturns(t)
  BY <1>1 DEF SelectReturns
<1>2. CASE DequeueInput(t)
  <2>1. Dequeue(out) \in Queues(Slots)
    BY <1>2, DequeueQueue DEF DequeueInput
  <2> QED
    BY <1>2, <2>1 DEF DequeueInput
<1>3. CASE DequeueInputFails(t)
  BY <1>3 DEF DequeueInputFails
<1>4. CASE MarkReady(t)
  BY <1>4 DEF MarkReady, Statuses
<1>5. CASE DequeueFrame(t)
  <2>1. Dequeue(cap) \in Queues(Surfaces) /\ Oldest(cap) \in Surfaces
    BY <1>5, DequeueQueue DEF DequeueFrame
  <2>2. sync' \in [Threads -> [at : {"idle", "select", "dqout", "ready", "dqcap", "throw"},
                               surface : Surfaces \cup {NoSurface},
                               buf : Surfaces \cup {NoSurface}]]
    BY <1>5, <2>1 DEF DequeueFrame
  <2>3. \A u \in Threads : sync'[u].surface = sync[u].surface
                            /\ (sync[u].at = "idle" => sync'[u].at = "idle")
    BY <1>5, <2>1 DEF DequeueFrame
  <2> QED
    BY <1>5, <2>1, <2>2, <2>3 DEF DequeueFrame, Threads
<1>6. CASE DequeueFrameFails(t)
  BY <1>6 DEF DequeueFrameFails
<1>7. CASE ThrowBuffer(t)
  BY <1>7 DEF ThrowBuffer
<1> QED
  BY <1>1, <1>2, <1>3, <1>4, <1>5, <1>6, <1>7 DEF SyncSteps, DequeueSteps

LEMMA HardwareDecodeTypeInv == TypeInv /\ HardwareDecode => TypeInv'
<1> SUFFICES ASSUME TypeInv, HardwareDecode
             PROVE  TypeInv'
  OBVIOUS
<1>1. /\ Finish(out) \in Queues(Slots) /\ NextWaiting(out) \in Slots
      /\ Finish(cap) \in Queues(Surfaces) /\ NextWaiting(cap) \in Surfaces
  BY FinishQueue DEF TypeInv, TypeOK, HardwareDecode, CanDecode
<1>2. DecodedFrom(NextWaiting(out), NextWaiting(cap)) \in Tags
  BY <1>1, DecoderAssumption DEF TypeInv, TypeOK, DecodedFrom, Garbage, Tags
<1> QED
  BY <1>1, <1>2 DEF TypeInv, TypeOK, CallInv, HardwareDecode, surfaceVars,
     contextVars, clientVars

(***************************************************************************)
(* Every variable keeps its type, and a call in progress its surface, in   *)
(* every behaviour.                                                        *)
(***************************************************************************)
THEOREM TypeCorrect == Spec => [](TypeOK /\ CallInv)
<1>1. TypeInv /\ [Next]_vars => TypeInv'
  <2> SUFFICES ASSUME TypeInv, [Next]_vars
               PROVE  TypeInv'
    OBVIOUS
  <2>1. CASE Next
    BY <2>1, ClientCallsTypeInv, DecodeStepsTypeInv, SyncStepsTypeInv,
       HardwareDecodeTypeInv DEF Next
  <2>2. CASE UNCHANGED vars
    BY <2>2 DEF TypeInv, TypeOK, CallInv, vars
  <2> QED
    BY <2>1, <2>2
<1> QED
  BY <1>1, InitTypeInv, PTL DEF Spec, TypeInv

(***************************************************************************)
(* Whatever the client does, no input buffer waits in the device without a *)
(* capture buffer that waits for it.                                       *)
(***************************************************************************)
THEOREM NeverStarvedHolds == Spec => []NeverStarved
<1>1. Init => NeverStarved
  BY DEF Init, SurfacesCreated, ContextCreated, NeverStarved, EmptyQueue, Waiting
<1>2. TypeInv /\ NeverStarved /\ [Next]_vars => NeverStarved'
  <2> SUFFICES ASSUME TypeInv, NeverStarved, [Next]_vars
               PROVE  NeverStarved'
    OBVIOUS
  <2>0. out \in Queues(Slots) /\ cap \in Queues(Surfaces)
    BY DEF TypeInv, TypeOK
  <2>1. CASE UNCHANGED <<out, cap, decode_pc>>
    BY <2>1 DEF NeverStarved
  <2>2. CASE UNCHANGED <<out, cap>> /\ decode_pc' # "qout"
    BY <2>2 DEF NeverStarved
  <2>3. CASE QueueFrame
    <3>1. current_render_target \in Surfaces
      BY <2>3 DEF TypeInv, CallInv, QueueFrame
    <3>2. out' = out /\ Waiting(cap') = Waiting(cap) + 1
      BY <2>0, <2>3, <3>1, EnqueueQueue DEF QueueFrame
    <3> QED
      BY <2>0, <3>2, WaitingNat DEF NeverStarved
  <2>4. CASE QueueInput
    <3>1. input_buf_index[current_render_target] \in Slots
      BY <2>4 DEF TypeInv, TypeOK, CallInv, QueueInput
    <3>2. /\ Waiting(out') = Waiting(out) + 1 /\ cap' = cap
          /\ decode_pc = "qout" /\ decode_pc' # "qout"
      BY <2>0, <2>4, <3>1, EnqueueQueue DEF QueueInput
    <3> QED
      BY <2>0, <3>2, WaitingNat DEF NeverStarved
  <2>5. CASE UnqueueFrame
    <3>1. out' = out /\ Waiting(cap') = Waiting(cap) /\ decode_pc' # "qout"
      BY <2>0, <2>5, DequeueQueue DEF UnqueueFrame
    <3> QED
      BY <3>1 DEF NeverStarved
  <2>6. ASSUME NEW t \in Threads, DequeueInput(t) \/ DequeueFrame(t)
        PROVE  NeverStarved'
    <3>1. /\ Waiting(out') = Waiting(out) /\ Waiting(cap') = Waiting(cap)
          /\ decode_pc' = decode_pc
      BY <2>0, <2>6, DequeueQueue DEF DequeueInput, DequeueFrame
    <3> QED
      BY <3>1 DEF NeverStarved
  <2>7. CASE HardwareDecode
    <3>1. /\ Waiting(out') = Waiting(out) - 1 /\ Waiting(cap') = Waiting(cap) - 1
          /\ decode_pc' = decode_pc
      BY <2>0, <2>7, FinishQueue DEF HardwareDecode, CanDecode
    <3> QED
      BY <2>0, <3>1, WaitingNat DEF NeverStarved
  <2>8. ClientCalls => \/ UNCHANGED <<out, cap>> /\ decode_pc' # "qout"
                       \/ UNCHANGED <<out, cap, decode_pc>>
    BY DEF ClientCalls, CreateSliceBuffer, BeginPicture, BeginPictureSyncs,
       StartRendering, SyncSurface, RenderPicture, EndPicture, deviceVars
  <2>9. BeginPictureResumes \/ QueueFrameFails \/ QueueInputFails
          => UNCHANGED <<out, cap>> /\ decode_pc' # "qout"
    BY DEF BeginPictureResumes, StartRendering, QueueFrameFails, QueueInputFails,
       deviceVars
  <2>10. ASSUME NEW t \in Threads,
                SelectReturns(t) \/ DequeueInputFails(t) \/ MarkReady(t)
                  \/ DequeueFrameFails(t) \/ ThrowBuffer(t)
         PROVE  UNCHANGED <<out, cap, decode_pc>>
    BY <2>10 DEF SelectReturns, DequeueInputFails, MarkReady, DequeueFrameFails,
       ThrowBuffer, deviceVars
  <2> QED
    BY <2>1, <2>2, <2>3, <2>4, <2>5, <2>6, <2>7, <2>8, <2>9, <2>10
       DEF Next, DecodeSteps, SyncSteps, DequeueSteps, vars
<1> QED
  BY <1>1, <1>2, TypeCorrect, PTL DEF Spec, TypeInv

-----------------------------------------------------------------------------
(***************************************************************************)
(* When its client plays a film (PlaysInOrder): the pictures stay in       *)
(* order, and with them each picture keeps its data, its frame and its     *)
(* surface.                                                                *)
(***************************************************************************)

(* The slots of fewer than INPUT_BUFFERS_NB consecutive pictures differ.   *)
LEMMA SlotDiffers ==
  ASSUME NEW p \in Nat \ {0}, NEW n \in Nat \ {0}, p # n,
         p - n < INPUT_BUFFERS_NB, n - p < INPUT_BUFFERS_NB
  PROVE  Slot(p) # Slot(n)
<1>1. /\ p - 1 \in Nat /\ n - 1 \in Nat /\ p - 1 # n - 1
      /\ (p - 1) - (n - 1) < INPUT_BUFFERS_NB /\ (n - 1) - (p - 1) < INPUT_BUFFERS_NB
      /\ INPUT_BUFFERS_NB \in Nat \ {0}
  BY DecoderAssumption
<1>2. (p - 1) % INPUT_BUFFERS_NB # (n - 1) % INPUT_BUFFERS_NB
  BY <1>1, ModInjective
<1> QED
  BY <1>2 DEF Slot

(* The input buffer of a picture is one of the input buffers.              *)
LEMMA SlotType == \A p \in Nat \ {0} : Slot(p) \in Slots
<1>1. \A p \in Nat \ {0} : p - 1 \in Nat
  OBVIOUS
<1> QED
  BY <1>1, ModRange, DecoderAssumption DEF Slot, Slots

-----------------------------------------------------------------------------
(* What TypeInv and InOrder say of the numbers they are about.             *)
LEMMA Numbers ==
  ASSUME TypeInv, InOrder
  PROVE  /\ pictures \in Nat /\ Submitted \in Nat /\ LastFrame \in Nat
         /\ \A s \in Surfaces : picture[s] \in Nat
         /\ Cardinality(pending) \in Nat /\ Cardinality(pending) <= Submitted
         /\ First \in Nat /\ First >= 1
         /\ Len(out.fifo) \in Nat /\ out.done \in Nat /\ out.done <= Len(out.fifo)
         /\ Len(cap.fifo) \in Nat /\ cap.done \in Nat /\ cap.done <= Len(cap.fifo)
         /\ Len(out.fifo) <= Cardinality(pending)
         /\ Waiting(out) = Len(out.fifo) - out.done
         /\ Waiting(cap) = Len(cap.fifo) - cap.done
         /\ NextDecoded \in Nat /\ NextDecoded >= First /\ NextDecoded <= Submitted + 1
<1>1. /\ pictures \in Nat /\ current_render_target \in Surfaces \cup {NoSurface}
      /\ \A s \in Surfaces : picture[s] \in Nat
      /\ out \in Queues(Slots) /\ cap \in Queues(Surfaces)
  BY DecoderAssumption DEF TypeInv, TypeOK
<1>2. Submitted \in Nat /\ LastFrame \in Nat
  BY <1>1 DEF InOrder, PicturesInOrder, Submitted, LastFrame
<1>3. Cardinality(pending) \in Nat /\ Cardinality(pending) <= Submitted
  BY FS_CardinalityType DEF InOrder, PendingInOrder
<1>4. /\ Len(out.fifo) \in Nat /\ out.done \in Nat /\ out.done <= Len(out.fifo)
      /\ Waiting(out) = Len(out.fifo) - out.done
      /\ Len(cap.fifo) \in Nat /\ cap.done \in Nat /\ cap.done <= Len(cap.fifo)
      /\ Waiting(cap) = Len(cap.fifo) - cap.done
  BY <1>1, QueueFields
<1>5. Len(out.fifo) <= Cardinality(pending)
  BY <1>3, <1>4 DEF InOrder, QueuesInOrder
<1> QED
  <2>1. First \in Nat /\ First >= 1
    BY <1>2, <1>3 DEF First
  <2>2. NextDecoded \in Nat /\ NextDecoded >= First /\ NextDecoded <= Submitted + 1
    BY <1>2, <1>3, <1>4, <1>5 DEF First, NextDecoded
  <2> QED BY <1>1, <1>2, <1>3, <1>4, <1>5, <2>1, <2>2

(* The surfaces in the queue of capture buffers are pending, but for the   *)
(* one whose input buffer vaEndPicture has still to queue.                 *)
LEMMA HeldArePending ==
  ASSUME TypeInv, InOrder, NEW k \in 1 .. Len(cap.fifo)
  PROVE  /\ cap.fifo[k] \in Surfaces
         /\ picture[cap.fifo[k]] = LastFrame - Len(cap.fifo) + k
         /\ picture[cap.fifo[k]] <= Submitted => cap.fifo[k] \in pending
         /\ picture[cap.fifo[k]] > Submitted => cap.fifo[k] = current_render_target
<1>0. /\ PicturesInOrder /\ PendingInOrder /\ QueuesInOrder
      /\ cap \in Queues(Surfaces)
      /\ decode_pc \in {"qcap", "qout", "dqcap"} => current_render_target \in Surfaces
      /\ NoSurface \notin Surfaces
  BY DecoderAssumption DEF InOrder, TypeInv, TypeOK, CallInv
<1>1. cap.fifo[k] \in Surfaces
  BY <1>0, QueueFields
<1>2. picture[cap.fifo[k]] = LastFrame - Len(cap.fifo) + k
  BY <1>0 DEF QueuesInOrder
<1>3. k \in Nat /\ k >= 1 /\ k <= Len(cap.fifo)
  BY Numbers
<1>4. /\ decode_pc = "qout" => LastFrame = Submitted + 1
      /\ decode_pc # "qout" => LastFrame = Submitted
  BY <1>0, Numbers DEF LastFrame, Submitted
<1>5. ASSUME picture[cap.fifo[k]] <= Submitted
      PROVE  cap.fifo[k] \in pending
  <2>1. Len(cap.fifo) <= Cardinality(pending) + (IF decode_pc = "qout" THEN 1 ELSE 0)
    <3>1. Len(cap.fifo) = Cardinality(pending)
                       - (IF SyncAt({"throw"}) THEN 1 ELSE 0)
                       + (IF decode_pc = "qout" THEN 1 ELSE 0)
      BY <1>0 DEF QueuesInOrder
    <3>2. Cardinality(pending) \in Nat /\ Len(cap.fifo) \in Nat
      BY Numbers
    <3> QED BY <3>1, <3>2
  <2>2. picture[cap.fifo[k]] \in First .. Submitted
    <3>1. /\ Submitted \in Nat /\ First = Submitted - Cardinality(pending) + 1
          /\ Len(cap.fifo) \in Nat /\ Cardinality(pending) \in Nat
          /\ picture[cap.fifo[k]] \in Nat /\ LastFrame \in Nat
      BY <1>1, Numbers DEF First
    <3> HIDE DEF First
    <3> QED BY <1>2, <1>3, <1>4, <1>5, <2>1, <3>1
  <2> QED
    BY <1>0, <1>1, <2>2 DEF PendingInOrder
<1>6. ASSUME picture[cap.fifo[k]] > Submitted
      PROVE  cap.fifo[k] = current_render_target
  <2>1. picture[cap.fifo[k]] = pictures /\ decode_pc = "qout"
    BY <1>1, <1>2, <1>3, <1>4, <1>6, Numbers DEF LastFrame
  <2> QED
    BY <1>0, <1>1, <2>1, Numbers DEF PicturesInOrder
<1> QED
  BY <1>1, <1>2, <1>5, <1>6

(* The parts of InOrder that a step leaves alone.                          *)
LEMMA SamePictures ==
  ASSUME PicturesInOrder,
         UNCHANGED <<picture, pictures, current_render_target, input_buf_index,
                     num_rendered_surfaces>>
  PROVE  PicturesInOrder'
BY DEF PicturesInOrder, Slot

LEMMA SamePending ==
  ASSUME PendingInOrder, UNCHANGED <<pending, picture, pictures, current_render_target>>
  PROVE  PendingInOrder'
BY DEF PendingInOrder, First, Submitted

LEMMA SameQueues ==
  ASSUME QueuesInOrder,
         UNCHANGED <<out, cap, pending, sync, decode_pc, picture, pictures,
                     current_render_target>>
  PROVE  QueuesInOrder'
BY DEF QueuesInOrder, Submitted, LastFrame, SyncAt, Slot

LEMMA SameSyncs ==
  ASSUME SyncsInOrder,
         UNCHANGED <<out, pending, sync, picture, pictures, current_render_target>>
  PROVE  SyncsInOrder'
BY DEF SyncsInOrder, Submitted, First

LEMMA SameStatus ==
  ASSUME StatusInOrder,
         UNCHANGED <<status, pending, sync, current_render_target>>
  PROVE  StatusInOrder'
BY DEF StatusInOrder, Synced

LEMMA SameFrames ==
  ASSUME FramesInOrder,
         UNCHANGED <<frame, out, picture, pictures, current_render_target>>
  PROVE  FramesInOrder'
BY DEF FramesInOrder, NextDecoded, Submitted

LEMMA SameReference ==
  ASSUME UNCHANGED <<frame, out, picture, pictures, current_render_target>>
  PROVE  /\ NextDecoded' = NextDecoded /\ Submitted' = Submitted
         /\ \A p, r : RightReference(p, r)' <=> RightReference(p, r)
BY DEF RightReference, NextDecoded, Submitted

(* vaCreateBuffer maps an input buffer that no picture waits in.           *)
LEMMA MappedSlotFree ==
  ASSUME PlaysInOrder, TypeInv, InOrder, MayCreateSliceBuffer
  PROVE  /\ num_rendered_surfaces % INPUT_BUFFERS_NB \in Slots
         /\ \A p \in NextDecoded .. Submitted :
              Slot(p) # num_rendered_surfaces % INPUT_BUFFERS_NB
<1>1. num_rendered_surfaces % INPUT_BUFFERS_NB = Slot(pictures + 1)
  <2>1. pictures \in Nat /\ (pictures + 1) - 1 = pictures
    BY Numbers
  <2> QED
    BY <2>1 DEF InOrder, PicturesInOrder, Slot
<1>2. /\ Cardinality(pending) < MaxAhead
      /\ (current_render_target = NoSurface) = BufferFirst
      /\ BufferFirst \in BOOLEAN
      /\ IF BufferFirst THEN MaxAhead <= INPUT_BUFFERS_NB ELSE MaxAhead < INPUT_BUFFERS_NB
  BY DecoderAssumption DEF MayCreateSliceBuffer, PlaysInOrder, Disciplined
<1>3. ASSUME NEW p \in NextDecoded .. Submitted
      PROVE  Slot(p) # Slot(pictures + 1)
  <2>1. /\ pictures \in Nat /\ Submitted \in Nat /\ NextDecoded \in Nat
        /\ NextDecoded >= First /\ First >= 1 /\ Cardinality(pending) \in Nat
        /\ MaxAhead \in Nat /\ INPUT_BUFFERS_NB \in Nat \ {0}
    BY Numbers, DecoderAssumption
  <2>2. First = Submitted - Cardinality(pending) + 1
    BY DEF First
  <2>3. p \in Nat \ {0} /\ p <= Submitted /\ p >= Submitted - Cardinality(pending) + 1
    BY <2>1, <2>2, <1>3
  <2>4. Cardinality(pending) + (pictures - Submitted) < INPUT_BUFFERS_NB /\ Submitted <= pictures
    BY <1>2, <2>1 DEF Submitted
  <2>5. /\ p < pictures + 1 /\ (pictures + 1) - p < INPUT_BUFFERS_NB
        /\ p - (pictures + 1) < INPUT_BUFFERS_NB /\ pictures + 1 \in Nat \ {0}
    BY <2>1, <2>3, <2>4
  <2> QED
    BY <2>3, <2>5, SlotDiffers
<1> QED
  BY <1>1, <1>3, SlotType, Numbers

LEMMA CreateSliceBufferInOrder ==
  ASSUME PlaysInOrder, TypeInv, InOrder, CreateSliceBuffer
  PROVE  InOrder'
<1> DEFINE slot == num_rendered_surfaces % INPUT_BUFFERS_NB
<1>0. /\ CallsInOrder /\ PicturesInOrder /\ PendingInOrder /\ QueuesInOrder
      /\ SyncsInOrder /\ StatusInOrder /\ DataInOrder /\ FramesInOrder
  BY DEF InOrder
<1>1. /\ UNCHANGED <<status, input_buf_index, num_rendered_surfaces,
                     current_render_target, frame_hdr, out, cap, ctrl, frame,
                     decode_pc, sync, rendered, pictures, picture, pending>>
      /\ decode_pc = "idle" /\ MayCreateSliceBuffer
      /\ slice_buf' = [slot |-> slot, picture |-> NextPicture]
      /\ input' = [input EXCEPT ![slot] = NextPicture]
  BY DEF CreateSliceBuffer, surfaceVars, clientVars
<1>2. /\ slot \in Slots /\ input \in [Slots -> Tags]
      /\ \A p \in NextDecoded .. Submitted : Slot(p) # slot
      /\ \A p \in NextDecoded .. Submitted : Slot(p) \in Slots
  <2>1. NextDecoded \in Nat \ {0} /\ Submitted \in Nat
    BY Numbers
  <2>2. \A p \in NextDecoded .. Submitted : p \in Nat \ {0}
    BY <2>1
  <2> QED
    BY <1>1, <2>2, MappedSlotFree, SlotType DEF TypeInv, TypeOK
<1> HIDE DEF slot
<1>3. CallsInOrder'
  BY <1>0, <1>1 DEF CallsInOrder
<1>4. DataInOrder'
  <2>1. input'[slice_buf'.slot] = slice_buf'.picture
    BY <1>1, <1>2
  <2>2. current_render_target # NoSurface => "sliceData" \notin rendered
    BY <1>0, <1>1 DEF DataInOrder, MayCreateSliceBuffer, NextPicture
  <2>3. /\ NextDecoded' = NextDecoded /\ Submitted' = Submitted
        /\ \A p, r : RightReference(p, r)' <=> RightReference(p, r)
    BY <1>1, SameReference
  <2>4. \A p \in NextDecoded .. Submitted : RightInput(p)'
    BY <1>0, <1>1, <1>2, <2>3 DEF DataInOrder, RightInput, RightHeader, Slot
  <2> QED
    BY <1>0, <1>1, <2>1, <2>2, <2>3, <2>4 DEF DataInOrder, Slot
<1> QED
  BY <1>0, <1>1, <1>3, <1>4, SamePictures, SamePending, SameQueues, SameSyncs,
     SameStatus, SameFrames DEF InOrder

(* vaBeginPicture takes a surface that is not pending, so that no buffer   *)
(* in the queues and no reference of a waiting picture is disturbed.       *)
LEMMA StartRenderingInOrder ==
  ASSUME PlaysInOrder, TypeInv, InOrder, NEW s \in Surfaces, StartRendering(s),
         decode_pc \in {"idle", "syncing"},
         sync["decode"].at = "idle",
         current_render_target = NoSurface,
         s \notin pending,
         Cardinality(pending) < MaxAhead,
         picture[s] = NoPicture \/ picture[s] # pictures
  PROVE  InOrder'
<1>0. /\ CallsInOrder /\ PicturesInOrder /\ PendingInOrder /\ QueuesInOrder
      /\ SyncsInOrder /\ StatusInOrder /\ DataInOrder /\ FramesInOrder
  BY DEF InOrder
<1>1. /\ status' = [status EXCEPT ![s] = "Rendering"]
      /\ input_buf_index' = [input_buf_index EXCEPT
                               ![s] = num_rendered_surfaces % INPUT_BUFFERS_NB]
      /\ num_rendered_surfaces' = (num_rendered_surfaces + 1) % UINT_RANGE
      /\ current_render_target' = s /\ decode_pc' = "idle" /\ rendered' = {}
      /\ pictures' = pictures + 1
      /\ picture' = [picture EXCEPT ![s] = pictures + 1]
      /\ pending' = pending
      /\ UNCHANGED <<frame_hdr, slice_buf, out, cap, ctrl, input, frame, sync>>
  BY DEF StartRendering, deviceVars
<1>2. /\ NoSurface \notin Surfaces /\ s # NoSurface
      /\ pictures \in Nat /\ \A x \in Surfaces : picture[x] \in Nat
      /\ picture \in [Surfaces -> 0 .. MaxPictures]
      /\ status \in [Surfaces -> Statuses]
      /\ input_buf_index \in [Surfaces -> Slots]
      /\ num_rendered_surfaces \in 0 .. UINT_RANGE - 1
      /\ pending \subseteq Surfaces
      /\ decode_pc # "qout"
  BY DecoderAssumption, Numbers DEF TypeInv, TypeOK
<1>3. /\ picture'[s] = pictures + 1 /\ \A x \in Surfaces \ {s} : picture'[x] = picture[x]
  BY <1>1, <1>2
<1>4. /\ Submitted = pictures /\ Submitted' = Submitted /\ First' = First
      /\ NextDecoded' = NextDecoded
      /\ LastFrame = Submitted /\ LastFrame' = LastFrame
  BY <1>1, <1>2 DEF Submitted, First, NextDecoded, LastFrame
<1>5. CallsInOrder'
  BY <1>0, <1>1, <1>2 DEF CallsInOrder
<1>6. PicturesInOrder'
  <2>1. \A x \in Surfaces : picture[x] <= pictures
    BY <1>0 DEF PicturesInOrder
  <2>2. \A x \in Surfaces : picture'[x] <= pictures'
    BY <1>1, <1>2, <1>3, <2>1
  <2>3. \A x, y \in Surfaces : picture'[x] = picture'[y] /\ picture'[x] > 0 => x = y
    <3>1. \A x \in Surfaces \ {s} : picture'[x] # picture'[s]
      BY <1>2, <1>3, <2>1
    <3> QED
      BY <1>0, <1>3, <3>1 DEF PicturesInOrder
  <2>4. pictures' > 1 => \E x \in Surfaces : picture'[x] = pictures' - 1
    <3>1. pictures' > 1 => pictures > 0 /\ pictures' - 1 = pictures
      BY <1>1, <1>2
    <3>2. pictures > 0 => \E x \in Surfaces : picture[x] = pictures /\ x # s
      BY <1>0, <1>2 DEF PicturesInOrder, NoPicture
    <3> QED
      BY <1>3, <3>1, <3>2
  <2>5. num_rendered_surfaces % INPUT_BUFFERS_NB = Slot(pictures + 1)
    <3>1. (pictures + 1) - 1 = pictures
      BY <1>2
    <3> QED
      BY <1>0, <3>1 DEF PicturesInOrder, Slot
  <2>6. \A x \in Surfaces : picture'[x] > 0 => input_buf_index'[x] = Slot(picture'[x])
    BY <1>0, <1>1, <1>2, <1>3, <2>5 DEF PicturesInOrder
  <2>7. num_rendered_surfaces' % INPUT_BUFFERS_NB = pictures' % INPUT_BUFFERS_NB
    <3>1. num_rendered_surfaces \in Nat /\ num_rendered_surfaces < UINT_RANGE
      BY <1>2, DecoderAssumption
    <3>2. num_rendered_surfaces' % INPUT_BUFFERS_NB
            = (num_rendered_surfaces + 1) % INPUT_BUFFERS_NB
      BY <1>1, <3>1, ModWraps, DecoderAssumption
    <3>3. num_rendered_surfaces % INPUT_BUFFERS_NB = pictures % INPUT_BUFFERS_NB
      BY <1>0 DEF PicturesInOrder
    <3>4. INPUT_BUFFERS_NB \in Nat \ {0}
      BY DecoderAssumption
    <3>5. (num_rendered_surfaces + 1) % INPUT_BUFFERS_NB = (pictures + 1) % INPUT_BUFFERS_NB
      <4>1. \A a \in Nat : (a + 1) % INPUT_BUFFERS_NB =
              IF (a % INPUT_BUFFERS_NB) + 1 = INPUT_BUFFERS_NB
                THEN 0 ELSE (a % INPUT_BUFFERS_NB) + 1
        BY <3>4, ModSuccessor
      <4> QED
        BY <3>1, <3>3, <4>1, <1>2
    <3> QED
      BY <1>1, <3>2, <3>5
  <2> QED
    BY <1>1, <1>2, <1>3, <2>2, <2>3, <2>4, <2>6, <2>7 DEF PicturesInOrder, Slot
<1>7. PendingInOrder'
  <2>1. picture'[s] \notin First .. Submitted
    BY <1>2, <1>3, <1>4
  <2> QED
    BY <1>0, <1>1, <1>3, <1>4, <2>1 DEF PendingInOrder
<1>8. \A k \in 1 .. Len(cap.fifo) : picture'[cap.fifo[k]] = picture[cap.fifo[k]]
  <2>1. ASSUME NEW k \in 1 .. Len(cap.fifo)
        PROVE  picture'[cap.fifo[k]] = picture[cap.fifo[k]]
    <3>1. cap.fifo[k] \in Surfaces /\ picture[cap.fifo[k]] <= Submitted
      BY <1>0, <1>2, <1>4, HeldArePending DEF PicturesInOrder
    <3>2. cap.fifo[k] \in pending
      BY <3>1, HeldArePending
    <3> QED
      BY <1>3, <3>1, <3>2
  <2> QED
    BY <2>1
<1>9. QueuesInOrder'
  BY <1>0, <1>1, <1>2, <1>4, <1>8 DEF QueuesInOrder, SyncAt, Slot
<1>10. SyncsInOrder'
  BY <1>0, <1>1, <1>2, <1>3, <1>4 DEF SyncsInOrder
<1>11. StatusInOrder'
  BY <1>0, <1>1, <1>2 DEF StatusInOrder, Synced
<1>12. DataInOrder'
  <2>1. ASSUME NEW p \in NextDecoded .. Submitted, NEW r, RightReference(p, r)
        PROVE  RightReference(p, r)'
    <3>1. p \in Nat /\ p <= pictures /\ p >= NextDecoded /\ NextDecoded \in Nat
          /\ NextDecoded >= First /\ First \in Nat
      BY <1>4, Numbers
    <3>2. r \in Surfaces => (picture[r] = p - 1 /\ p # NextDecoded => r \in pending)
      BY <1>0, <1>2, <1>4, <3>1 DEF PendingInOrder
    <3> QED
      BY <1>1, <1>2, <1>3, <1>4, <2>1, <3>1, <3>2 DEF RightReference
  <2>2. \A p \in NextDecoded .. Submitted : RightInput(p) => RightInput(p)'
    BY <1>1, <2>1 DEF RightInput, RightHeader, Slot
  <2> QED
    BY <1>0, <1>1, <1>4, <2>2 DEF DataInOrder
<1>13. FramesInOrder'
  <2>1. ~(picture'[s] < NextDecoded')
    BY <1>2, <1>3, <1>4, Numbers
  <2> QED
    BY <1>0, <1>1, <1>3, <1>4, <2>1 DEF FramesInOrder
<1> QED
  BY <1>5, <1>6, <1>7, <1>9, <1>10, <1>11, <1>12, <1>13 DEF InOrder

(* The client's oldest pending picture is the first of the interval.       *)
LEMMA OldestIsFirst ==
  ASSUME TypeInv, InOrder, NEW s \in Surfaces, IsOldest(s),
         \A t \in Threads : sync[t].at = "idle"
  PROVE  s \in pending /\ picture[s] = First
<1>0. /\ PendingInOrder /\ QueuesInOrder /\ s \in pending
      /\ \A x \in pending : picture[s] <= picture[x]
  BY DEF InOrder, IsOldest
<1>1. picture[s] \in First .. Submitted
  BY <1>0 DEF PendingInOrder
<1>2. /\ picture[s] \in Nat /\ First \in Nat /\ Submitted \in Nat
      /\ Cardinality(pending) \in Nat /\ Len(cap.fifo) \in Nat /\ LastFrame \in Nat
      /\ pictures \in Nat
  BY Numbers
<1>3. First = Submitted - Cardinality(pending) + 1
  BY DEF First
<1>4. Len(cap.fifo) = Cardinality(pending) + (IF decode_pc = "qout" THEN 1 ELSE 0)
  <2>1. ~SyncAt({"throw"})
    BY DEF SyncAt
  <2> QED
    BY <1>0, <1>2, <2>1 DEF QueuesInOrder
<1>5. LastFrame = Submitted + (IF decode_pc = "qout" THEN 1 ELSE 0)
  BY <1>2, DecoderAssumption DEF LastFrame, Submitted, TypeInv, CallInv
<1>6. Len(cap.fifo) >= 1 /\ LastFrame - Len(cap.fifo) + 1 = First /\ First <= Submitted
  BY <1>1, <1>2, <1>3, <1>4, <1>5
<1>7. 1 \in 1 .. Len(cap.fifo)
  BY <1>2, <1>6
<1>8. picture[cap.fifo[1]] = First /\ cap.fifo[1] \in pending
  BY <1>6, <1>7, HeldArePending
<1> QED
  BY <1>0, <1>1, <1>2, <1>8

(* Entering a sync of it, be it in vaSyncSurface or in vaBeginPicture.     *)
LEMMA EnterSyncInOrder ==
  ASSUME TypeInv, InOrder, NEW s \in Surfaces, IsOldest(s),
         \A t \in Threads : sync[t].at = "idle",
         NEW t \in Threads, EnterSync(t, s),
         decode_pc' = decode_pc \/ (decode_pc = "idle" /\ decode_pc' = "syncing"),
         UNCHANGED <<surfaceVars, contextVars, deviceVars, clientVars>>
  PROVE  /\ PicturesInOrder' /\ PendingInOrder' /\ QueuesInOrder'
         /\ SyncsInOrder' /\ StatusInOrder' /\ DataInOrder' /\ FramesInOrder'
<1>0. /\ CallsInOrder /\ PicturesInOrder /\ PendingInOrder /\ QueuesInOrder
      /\ SyncsInOrder /\ StatusInOrder /\ DataInOrder /\ FramesInOrder
  BY DEF InOrder
<1>1. UNCHANGED <<status, input_buf_index, num_rendered_surfaces,
                  current_render_target, frame_hdr, slice_buf, out, cap, ctrl, input,
                  frame, rendered, pictures, picture, pending>>
  BY DEF surfaceVars, contextVars, deviceVars, clientVars
<1>2. /\ \A u \in Threads : sync'[u].at = IF u = t THEN "select" ELSE "idle"
      /\ sync'[t].surface = s
  BY DEF EnterSync, TypeInv, TypeOK
<1>3. s \in pending /\ picture[s] = First
  BY OldestIsFirst
<1>4. /\ \A labels : "idle" \notin labels /\ "select" \notin labels
                       => SyncAt(labels)' = SyncAt(labels)
      /\ \A x \in Surfaces : Synced(x)' = Synced(x)
  BY <1>2 DEF SyncAt, Synced
<1>5. QueuesInOrder'
  <2>1. (decode_pc' = "qout") = (decode_pc = "qout")
    OBVIOUS
  <2>2. Submitted' = Submitted /\ LastFrame' = LastFrame
    BY <1>1, <2>1 DEF Submitted, LastFrame
  <2>3. /\ ~SyncAt({"ready", "dqcap", "throw"}) /\ ~SyncAt({"throw"})
        /\ ~SyncAt({"ready", "dqcap"})
    BY DEF SyncAt
  <2>4. /\ ~SyncAt({"ready", "dqcap", "throw"})' /\ ~SyncAt({"throw"})'
        /\ ~SyncAt({"ready", "dqcap"})'
    BY <1>2 DEF SyncAt
  <2> QED
    BY <1>0, <1>1, <2>1, <2>2, <2>3, <2>4 DEF QueuesInOrder, Slot
<1>6. SyncsInOrder'
  BY <1>1, <1>2, <1>3 DEF SyncsInOrder, First, Submitted
<1>7. StatusInOrder'
  BY <1>0, <1>1, <1>4 DEF StatusInOrder
<1>8. DataInOrder'
  BY <1>0, <1>1 DEF DataInOrder, RightInput, RightHeader, RightReference, NextDecoded,
     Submitted, Slot
<1> QED
  BY <1>0, <1>1, <1>5, <1>6, <1>7, <1>8, SamePictures, SamePending, SameFrames

LEMMA SyncSurfaceInOrder ==
  ASSUME PlaysInOrder, TypeInv, InOrder, NEW s \in Surfaces, SyncSurface(s)
  PROVE  InOrder'
<1>1. /\ IsOldest(s) /\ \A t \in Threads : sync[t].at = "idle"
      /\ decode_pc # "syncing" /\ decode_pc' = decode_pc
      /\ EnterSync("display", s) /\ "display" \in Threads
      /\ UNCHANGED <<surfaceVars, contextVars, deviceVars, clientVars>>
  BY DEF SyncSurface, MaySync, PlaysInOrder, Disciplined, Threads
<1>2. CallsInOrder'
  <2>1. sync'["decode"] = sync["decode"]
    BY <1>1 DEF EnterSync, TypeInv, TypeOK, Threads
  <2> QED
    BY <1>1, <2>1 DEF InOrder, CallsInOrder, clientVars, contextVars
<1>3. /\ PicturesInOrder' /\ PendingInOrder' /\ QueuesInOrder'
      /\ SyncsInOrder' /\ StatusInOrder' /\ DataInOrder' /\ FramesInOrder'
  BY <1>1, EnterSyncInOrder
<1> QED
  BY <1>2, <1>3 DEF InOrder

(* What a client that plays a film sees to before it begins a picture.     *)
LEMMA BeginGuards ==
  ASSUME PlaysInOrder, TypeInv, InOrder, NEW s \in Surfaces, MayBegin(s), decode_pc = "idle"
  PROVE  /\ current_render_target = NoSurface
         /\ Cardinality(pending) < MaxAhead
         /\ picture[s] = NoPicture \/ picture[s] # pictures
         /\ BufferFirst => slice_buf.picture = pictures + 1
         /\ sync["decode"].at = "idle"
         /\ s \in pending => /\ Timely /\ IsOldest(s)
                             /\ \A t \in Threads : sync[t].at = "idle"
                             /\ status[s] = "Rendering"
         /\ status[s] = "Rendering" => s \in pending
<1>1. /\ current_render_target = NoSurface
      /\ Cardinality(pending) < MaxAhead
      /\ picture[s] = NoPicture \/ picture[s] # pictures
      /\ BufferFirst => slice_buf.picture = pictures + 1
      /\ s \in pending => ~Patient /\ MaySync(s)
  BY DecoderAssumption DEF MayBegin, PlaysInOrder, Disciplined
<1>2. /\ sync["decode"].at = "idle" /\ s # NoSurface /\ StatusInOrder
  BY DecoderAssumption DEF InOrder, CallsInOrder
<1>3. s \in pending => /\ Timely /\ IsOldest(s)
                       /\ \A t \in Threads : sync[t].at = "idle"
  BY <1>1, DecoderAssumption DEF MaySync, PlaysInOrder, Disciplined
<1> QED
  BY <1>1, <1>2, <1>3 DEF StatusInOrder, Synced

LEMMA BeginPictureInOrder ==
  ASSUME PlaysInOrder, TypeInv, InOrder, NEW s \in Surfaces, BeginPicture(s)
  PROVE  InOrder'
<1>1. decode_pc = "idle" /\ MayBegin(s) /\ status[s] # "Rendering" /\ StartRendering(s)
  BY DEF BeginPicture
<1>2. /\ current_render_target = NoSurface /\ Cardinality(pending) < MaxAhead
      /\ picture[s] = NoPicture \/ picture[s] # pictures
      /\ sync["decode"].at = "idle" /\ s \notin pending
  BY <1>1, BeginGuards
<1> QED
  BY <1>1, <1>2, StartRenderingInOrder

LEMMA BeginPictureSyncsInOrder ==
  ASSUME PlaysInOrder, TypeInv, InOrder, NEW s \in Surfaces, BeginPictureSyncs(s)
  PROVE  InOrder'
<1>1. /\ decode_pc = "idle" /\ MayBegin(s) /\ status[s] = "Rendering"
      /\ EnterSync("decode", s) /\ "decode" \in Threads /\ decode_pc' = "syncing"
      /\ UNCHANGED <<surfaceVars, contextVars, deviceVars, clientVars>>
  BY DEF BeginPictureSyncs, Threads
<1>2. /\ current_render_target = NoSurface /\ Cardinality(pending) < MaxAhead
      /\ picture[s] = NoPicture \/ picture[s] # pictures
      /\ BufferFirst => slice_buf.picture = pictures + 1
      /\ s \in pending /\ IsOldest(s) /\ \A t \in Threads : sync[t].at = "idle"
      /\ Timely
  BY <1>1, BeginGuards
<1>3. picture[s] # NoPicture
  <2>1. picture[s] = First /\ First >= 1 /\ First \in Nat
    BY <1>2, OldestIsFirst, Numbers
  <2> QED
    BY <2>1 DEF NoPicture
<1>4. CallsInOrder'
  <2>1. /\ sync'["display"] = sync["display"] /\ sync'["decode"].at = "select"
        /\ sync'["decode"].surface = s /\ "display" \in Threads
    BY <1>1 DEF EnterSync, TypeInv, TypeOK, Threads
  <2> QED
    BY <1>1, <1>2, <1>3, <2>1 DEF CallsInOrder, clientVars, contextVars
<1>5. /\ PicturesInOrder' /\ PendingInOrder' /\ QueuesInOrder'
      /\ SyncsInOrder' /\ StatusInOrder' /\ DataInOrder' /\ FramesInOrder'
  BY <1>1, <1>2, EnterSyncInOrder
<1> QED
  BY <1>4, <1>5 DEF InOrder

LEMMA BeginPictureResumesInOrder ==
  ASSUME PlaysInOrder, TypeInv, InOrder, BeginPictureResumes
  PROVE  InOrder'
<1> DEFINE s == sync["decode"].surface
<1>1. /\ decode_pc = "syncing" /\ sync["decode"].at = "idle" /\ StartRendering(s)
      /\ s \in Surfaces
  BY DEF BeginPictureResumes, TypeInv, CallInv
<1>2. /\ current_render_target = NoSurface /\ Cardinality(pending) < MaxAhead
      /\ picture[s] # pictures /\ s \notin pending
  BY <1>1 DEF InOrder, CallsInOrder
<1> QED
  BY <1>1, <1>2, StartRenderingInOrder

(* The input buffer of the picture being rendered is not one of those that *)
(* the kernel holds.                                                       *)
LEMMA RenderedSlotFree ==
  ASSUME PlaysInOrder, TypeInv, InOrder, current_render_target # NoSurface
  PROVE  /\ current_render_target \in Surfaces
         /\ pictures \in Nat \ {0} /\ Submitted = pictures - 1
         /\ input_buf_index[current_render_target] = Slot(pictures)
         /\ Slot(pictures) \in Slots
         /\ \A p \in Submitted - Len(out.fifo) + 1 .. Submitted :
              p \in Nat \ {0} /\ Slot(p) # Slot(pictures)
<1>1. current_render_target \in Surfaces
  BY DEF TypeInv, TypeOK
<1>2. pictures \in Nat \ {0} /\ picture[current_render_target] = pictures
  BY Numbers DEF InOrder, PicturesInOrder
<1>3. input_buf_index[current_render_target] = Slot(pictures)
  BY <1>1, <1>2 DEF InOrder, PicturesInOrder
<1>4. Cardinality(pending) < MaxAhead
  BY DEF InOrder, CallsInOrder
<1>5. Cardinality(pending) < INPUT_BUFFERS_NB
  BY <1>4, Numbers, DecoderAssumption DEF PlaysInOrder
<1>6. Submitted = pictures - 1
  BY DEF Submitted
<1>7. ASSUME NEW p \in Submitted - Len(out.fifo) + 1 .. Submitted
      PROVE  p \in Nat \ {0} /\ Slot(p) # Slot(pictures)
  <2>1. /\ Len(out.fifo) \in Nat /\ Cardinality(pending) \in Nat
        /\ Len(out.fifo) <= Cardinality(pending) /\ Cardinality(pending) <= Submitted
        /\ Submitted \in Nat /\ INPUT_BUFFERS_NB \in Nat
    BY Numbers, DecoderAssumption
  <2>2. /\ p \in Nat \ {0} /\ p # pictures
        /\ p - pictures < INPUT_BUFFERS_NB /\ pictures - p < INPUT_BUFFERS_NB
    BY <1>2, <1>5, <1>6, <1>7, <2>1
  <2> QED
    BY <1>2, <2>2, SlotDiffers
<1> QED
  BY <1>1, <1>2, <1>3, <1>6, <1>7, SlotType

(* A picture that waits is one of those whose input buffer is held.        *)
LEMMA WaitingAreHeld ==
  ASSUME TypeInv, InOrder
  PROVE  \A p \in NextDecoded .. Submitted : p \in Submitted - Len(out.fifo) + 1 .. Submitted
<1>1. /\ Len(out.fifo) \in Nat /\ Waiting(out) = Len(out.fifo) - out.done
      /\ out.done \in Nat /\ Submitted \in Nat
  BY Numbers
<1> QED
  BY <1>1 DEF NextDecoded

(* The reference index that vaRenderPicture puts into the header.          *)
LEMMA ReferenceIsRight ==
  ASSUME PlaysInOrder, TypeInv, InOrder, current_render_target # NoSurface,
         NEW r \in ReferenceIndices
  PROVE  RightReference(pictures, r)
<1>1. SUFFICES ASSUME pictures > 1
               PROVE  RightReference(pictures, r)
  BY DEF RightReference
<1>2. r \in Surfaces /\ picture[r] = pictures - 1
  BY <1>1 DEF InOrder, PicturesInOrder, ReferenceIndices, Reference
<1>3. pictures \in Nat /\ NextDecoded \in Nat /\ picture[r] \in Nat
  BY <1>2, Numbers
<1>4. pictures = NextDecoded => frame[r] = pictures - 1
  BY <1>2, <1>3 DEF InOrder, FramesInOrder
<1> QED
  BY <1>2, <1>3, <1>4 DEF RightReference

LEMMA RenderPictureInOrder ==
  ASSUME PlaysInOrder, TypeInv, InOrder, NEW type \in BufferTypes, RenderPicture(type)
  PROVE  InOrder'
<1>0. /\ CallsInOrder /\ PicturesInOrder /\ PendingInOrder /\ QueuesInOrder
      /\ SyncsInOrder /\ StatusInOrder /\ DataInOrder /\ FramesInOrder
  BY DEF InOrder
<1>1. /\ UNCHANGED <<status, input_buf_index, num_rendered_surfaces,
                     current_render_target, slice_buf, out, cap, ctrl, frame,
                     decode_pc, sync, pictures, picture, pending>>
      /\ decode_pc = "idle" /\ current_render_target # NoSurface
      /\ rendered' = rendered \cup {type}
  BY DEF RenderPicture, surfaceVars
<1>2. /\ input_buf_index[current_render_target] = Slot(pictures)
      /\ Slot(pictures) \in Slots /\ pictures \in Nat \ {0}
      /\ \A p \in NextDecoded .. Submitted : Slot(p) # Slot(pictures) /\ Slot(p) \in Slots
  BY <1>1, RenderedSlotFree, WaitingAreHeld, SlotType
<1>3. /\ NextDecoded' = NextDecoded /\ Submitted' = Submitted
      /\ \A p, r : RightReference(p, r)' <=> RightReference(p, r)
  BY <1>1, SameReference
<1>4. /\ type = "sliceData" => slice_buf.picture = pictures
      /\ input \in [Slots -> Tags] /\ frame_hdr \in Headers /\ slice_buf.slot \in Slots
      /\ input[slice_buf.slot] = slice_buf.picture
      /\ Profile \in {"MPEG2", "MPEG4"}
  BY <1>0, DecoderAssumption
     DEF RenderPicture, MayRender, PlaysInOrder, Disciplined, TypeInv, TypeOK, DataInOrder
<1>5. CASE type = "sliceData"
  <2>1. /\ input' = [input EXCEPT ![Slot(pictures)] = pictures]
        /\ frame_hdr' = IF Profile = "MPEG2"
                          THEN [frame_hdr EXCEPT !.slice = pictures] ELSE frame_hdr
    BY <1>2, <1>4, <1>5 DEF RenderPicture, RenderSliceData, RenderMPEG2SliceData,
       RenderMPEG4SliceData, CopySliceData
  <2>2. /\ frame_hdr'.param = frame_hdr.param /\ frame_hdr'.ref = frame_hdr.ref
        /\ frame_hdr'.slice = IF Profile = "MPEG2" THEN pictures ELSE frame_hdr.slice
    BY <1>4, <2>1 DEF Headers
  <2>3. /\ input'[Slot(pictures)] = pictures /\ input'[slice_buf.slot] = slice_buf.picture
        /\ \A p \in NextDecoded .. Submitted : input'[Slot(p)] = input[Slot(p)]
    BY <1>2, <1>4, <1>5, <2>1
  <2>4. \A p \in NextDecoded .. Submitted : RightInput(p) => RightInput(p)'
    BY <1>1, <1>3, <2>3 DEF RightInput, RightHeader, Slot
  <2>5. DataInOrder'
    BY <1>0, <1>1, <1>3, <1>4, <1>5, <2>2, <2>3, <2>4 DEF DataInOrder, Slot
  <2> QED
    BY <1>0, <1>1, <2>5, SamePictures, SamePending, SameQueues, SameSyncs,
       SameStatus, SameFrames DEF InOrder, CallsInOrder
<1>6. CASE type = "picParam" \/ type = "sliceParam"
  <2>1. /\ input' = input
        /\ frame_hdr'.slice = IF type = "sliceParam" /\ Profile = "MPEG4"
                                THEN pictures ELSE frame_hdr.slice
        /\ type = "sliceParam" => /\ frame_hdr'.param = frame_hdr.param
                                  /\ frame_hdr'.ref = frame_hdr.ref
        /\ type = "picParam" => /\ frame_hdr'.param = pictures
                                /\ frame_hdr'.ref \in ReferenceIndices
    BY <1>4, <1>6 DEF RenderPicture, RenderPictureParameter, RenderSliceParameter, Headers
  <2>2. type = "picParam" => RightReference(pictures, frame_hdr'.ref)
    BY <1>1, <2>1, ReferenceIsRight
  <2>3. \A p \in NextDecoded .. Submitted : RightInput(p) => RightInput(p)'
    BY <1>1, <1>3, <2>1 DEF RightInput, RightHeader, Slot
  <2>4. DataInOrder'
    BY <1>0, <1>1, <1>3, <1>4, <1>6, <2>1, <2>2, <2>3 DEF DataInOrder, Slot
  <2> QED
    BY <1>0, <1>1, <2>4, SamePictures, SamePending, SameQueues, SameSyncs,
       SameStatus, SameFrames DEF InOrder, CallsInOrder
<1> QED
  BY <1>5, <1>6 DEF BufferTypes

LEMMA EndPictureInOrder ==
  ASSUME PlaysInOrder, TypeInv, InOrder, EndPicture
  PROVE  InOrder'
<1>0. /\ CallsInOrder /\ PicturesInOrder /\ PendingInOrder /\ QueuesInOrder
      /\ SyncsInOrder /\ StatusInOrder /\ DataInOrder /\ FramesInOrder
  BY DEF InOrder
<1>1. /\ UNCHANGED <<status, input_buf_index, num_rendered_surfaces,
                     current_render_target, frame_hdr, slice_buf, out, cap, input,
                     frame, sync, rendered, pictures, picture, pending>>
      /\ decode_pc = "idle" /\ current_render_target # NoSurface
      /\ rendered = BufferTypes /\ decode_pc' = "qcap"
      /\ ctrl' = [ctrl EXCEPT ![input_buf_index[current_render_target]] = frame_hdr]
  BY DEF EndPicture, MayEnd, PlaysInOrder, Disciplined, surfaceVars, contextVars, clientVars
<1>2. /\ input_buf_index[current_render_target] = Slot(pictures)
      /\ Slot(pictures) \in Slots
      /\ \A p \in NextDecoded .. Submitted : Slot(p) # Slot(pictures) /\ Slot(p) \in Slots
      /\ ctrl \in [Slots -> Headers]
  BY <1>1, RenderedSlotFree, WaitingAreHeld, SlotType DEF TypeInv, TypeOK
<1>3. /\ NextDecoded' = NextDecoded /\ Submitted' = Submitted
      /\ \A p, r : RightReference(p, r)' <=> RightReference(p, r)
  BY <1>1, SameReference
<1>4. /\ ctrl'[Slot(pictures)] = frame_hdr
      /\ \A p \in NextDecoded .. Submitted : ctrl'[Slot(p)] = ctrl[Slot(p)]
  BY <1>1, <1>2
<1>5. DataInOrder'
  <2>1. /\ input[Slot(pictures)] = pictures
        /\ RightHeader(pictures, frame_hdr)
    BY <1>0, <1>1 DEF DataInOrder, RightHeader, BufferTypes
  <2>2. RightInput(pictures)'
    BY <1>1, <1>3, <1>4, <2>1 DEF RightInput, RightHeader, Slot
  <2>3. \A p \in NextDecoded .. Submitted : RightInput(p) => RightInput(p)'
    BY <1>1, <1>3, <1>4 DEF RightInput, RightHeader, Slot
  <2> QED
    BY <1>0, <1>1, <1>3, <2>2, <2>3 DEF DataInOrder
<1>6. CallsInOrder'
  BY <1>0, <1>1 DEF CallsInOrder
<1>7. QueuesInOrder'
  BY <1>0, <1>1, <1>3 DEF QueuesInOrder, LastFrame, SyncAt, Slot
<1> QED
  BY <1>0, <1>1, <1>5, <1>6, <1>7, SamePictures, SamePending, SameSyncs,
     SameStatus, SameFrames DEF InOrder

(* VIDIOC_QBUF does not fail in vaEndPicture: neither buffer is held.      *)
LEMMA FrameNotHeld ==
  ASSUME TypeInv, InOrder, decode_pc = "qcap"
  PROVE  CanEnqueue(cap, current_render_target)
<1>1. current_render_target \in Surfaces /\ current_render_target # NoSurface
  BY DecoderAssumption DEF TypeInv, CallInv
<1>2. picture[current_render_target] = pictures /\ LastFrame = pictures - 1
  BY <1>1 DEF InOrder, PicturesInOrder, LastFrame, Submitted
<1>3. ASSUME NEW k \in 1 .. Len(cap.fifo), cap.fifo[k] = current_render_target
      PROVE  FALSE
  <2>1. picture[cap.fifo[k]] = LastFrame - Len(cap.fifo) + k
    BY HeldArePending
  <2>2. Len(cap.fifo) \in Nat /\ pictures \in Nat /\ k \in Nat /\ k <= Len(cap.fifo)
    BY Numbers
  <2>3. pictures = pictures - 1 - Len(cap.fifo) + k
    BY <1>2, <1>3, <2>1
  <2> QED
    BY <2>2, <2>3
<1>4. cap \in Queues(Surfaces)
  BY DEF TypeInv, TypeOK
<1> QED
  BY <1>3, <1>4, QueueFields DEF CanEnqueue

(* The input buffer of the picture that is being submitted is not queued.  *)
LEMMA InputNotHeld ==
  ASSUME PlaysInOrder, TypeInv, InOrder, decode_pc = "qout"
  PROVE  CanEnqueue(out, input_buf_index[current_render_target])
<1>1. current_render_target \in Surfaces /\ current_render_target # NoSurface
  BY DecoderAssumption DEF TypeInv, CallInv
<1>2. /\ input_buf_index[current_render_target] = Slot(pictures)
      /\ \A p \in Submitted - Len(out.fifo) + 1 .. Submitted : Slot(p) # Slot(pictures)
  BY <1>1, RenderedSlotFree
<1>3. ASSUME NEW k \in 1 .. Len(out.fifo)
      PROVE  out.fifo[k] # Slot(pictures)
  <2>1. out.fifo[k] = Slot(Submitted - Len(out.fifo) + k)
    BY DEF InOrder, QueuesInOrder
  <2>2. Len(out.fifo) \in Nat /\ Submitted \in Nat
    BY Numbers
  <2>3. Submitted - Len(out.fifo) + k \in Submitted - Len(out.fifo) + 1 .. Submitted
    BY <2>2
  <2> QED
    BY <1>2, <2>1, <2>3
<1>4. out \in Queues(Slots)
  BY DEF TypeInv, TypeOK
<1> QED
  BY <1>2, <1>3, <1>4, QueueFields DEF CanEnqueue

LEMMA QueueFrameInOrder ==
  ASSUME PlaysInOrder, TypeInv, InOrder, QueueFrame
  PROVE  InOrder'
<1>0. /\ CallsInOrder /\ PicturesInOrder /\ PendingInOrder /\ QueuesInOrder
      /\ SyncsInOrder /\ StatusInOrder /\ DataInOrder /\ FramesInOrder
  BY DEF InOrder
<1>1. /\ UNCHANGED <<status, input_buf_index, num_rendered_surfaces,
                     current_render_target, frame_hdr, slice_buf, out, ctrl, input,
                     frame, sync, rendered, pictures, picture, pending>>
      /\ decode_pc = "qcap" /\ decode_pc' = "qout"
      /\ cap' = Enqueue(cap, current_render_target)
  BY DEF QueueFrame, surfaceVars, contextVars, clientVars
<1>2. /\ current_render_target \in Surfaces /\ current_render_target # NoSurface
      /\ cap \in Queues(Surfaces)
  BY <1>1, DecoderAssumption DEF TypeInv, TypeOK, CallInv
<1>3. /\ Len(cap'.fifo) = Len(cap.fifo) + 1 /\ cap'.done = cap.done
      /\ cap'.fifo[Len(cap.fifo) + 1] = current_render_target
      /\ \A k \in 1 .. Len(cap.fifo) : cap'.fifo[k] = cap.fifo[k]
  BY <1>1, <1>2, EnqueueElements
<1>4. /\ picture[current_render_target] = pictures
      /\ Submitted' = Submitted /\ LastFrame = pictures - 1 /\ LastFrame' = pictures
  BY <1>0, <1>1, <1>2 DEF PicturesInOrder, Submitted, LastFrame
<1>5. QueuesInOrder'
  <2>1. /\ Len(cap.fifo) \in Nat /\ pictures \in Nat /\ Cardinality(pending) \in Nat
    BY Numbers
  <2>2. \A k \in 1 .. Len(cap.fifo) :
          picture[cap.fifo[k]] = LastFrame - Len(cap.fifo) + k
    BY <1>0 DEF QueuesInOrder
  <2>3. ASSUME NEW k \in 1 .. Len(cap'.fifo)
        PROVE  picture'[cap'.fifo[k]] = LastFrame' - Len(cap'.fifo) + k
    <3>1. CASE k = Len(cap.fifo) + 1
      BY <1>1, <1>3, <1>4, <2>1, <3>1
    <3>2. CASE k \in 1 .. Len(cap.fifo)
      <4>1. picture'[cap'.fifo[k]] = LastFrame - Len(cap.fifo) + k
        BY <1>1, <1>3, <2>2, <3>2
      <4>2. k \in Int
        BY <3>2
      <4> QED
        BY <1>3, <1>4, <2>1, <4>1, <4>2
    <3> QED
      BY <1>3, <2>1, <3>1, <3>2
  <2>4. /\ (IF decode_pc = "qout" THEN 1 ELSE 0) = 0
        /\ (IF decode_pc' = "qout" THEN 1 ELSE 0) = 1
    BY <1>1
  <2>5. /\ Len(cap.fifo) = Cardinality(pending) - (IF SyncAt({"throw"}) THEN 1 ELSE 0)
        /\ Len(cap'.fifo) = Cardinality(pending) - (IF SyncAt({"throw"}) THEN 1 ELSE 0) + 1
    BY <1>0, <1>3, <2>1, <2>4 DEF QueuesInOrder
  <2>6. \A labels : SyncAt(labels)' = SyncAt(labels)
    BY <1>1 DEF SyncAt
  <2> QED
    BY <1>0, <1>1, <1>3, <1>4, <2>3, <2>4, <2>5, <2>6 DEF QueuesInOrder, Slot
<1>6. DataInOrder'
  BY <1>0, <1>1, SameReference DEF DataInOrder, RightInput, RightHeader, Slot
<1> QED
  BY <1>0, <1>1, <1>5, <1>6, SamePictures, SamePending, SameSyncs,
     SameStatus, SameFrames DEF InOrder, CallsInOrder

LEMMA QueueInputInOrder ==
  ASSUME PlaysInOrder, TypeInv, InOrder, QueueInput
  PROVE  InOrder'
<1> DEFINE s == current_render_target
<1>0. /\ CallsInOrder /\ PicturesInOrder /\ PendingInOrder /\ QueuesInOrder
      /\ SyncsInOrder /\ StatusInOrder /\ DataInOrder /\ FramesInOrder
  BY DEF InOrder
<1>1. /\ UNCHANGED <<status, input_buf_index, num_rendered_surfaces, frame_hdr,
                     slice_buf, cap, ctrl, input, frame, sync, rendered, pictures,
                     picture>>
      /\ decode_pc = "qout" /\ decode_pc' = "idle" /\ current_render_target' = NoSurface
      /\ out' = Enqueue(out, input_buf_index[s])
      /\ pending' = pending \cup {s}
  BY DEF QueueInput, surfaceVars
<1>2. /\ s \in Surfaces /\ s # NoSurface /\ NoSurface \notin Surfaces
      /\ out \in Queues(Slots) /\ pending \subseteq Surfaces
  BY <1>1, DecoderAssumption DEF TypeInv, TypeOK, CallInv
<1>3. /\ pictures \in Nat \ {0} /\ Submitted = pictures - 1
      /\ input_buf_index[s] = Slot(pictures) /\ Slot(pictures) \in Slots
      /\ picture[s] = pictures
  BY <1>0, <1>2, RenderedSlotFree DEF PicturesInOrder
<1>4. /\ Len(out.fifo) \in Nat /\ out.done \in Nat /\ Submitted \in Nat
      /\ Cardinality(pending) \in Nat /\ First \in Nat /\ First <= Submitted + 1
      /\ Waiting(out) = Len(out.fifo) - out.done
      /\ Cardinality(pending) <= Submitted /\ NextDecoded \in Nat
      /\ NextDecoded <= Submitted + 1
      /\ \A x \in Surfaces : picture[x] \in Nat
  <2>1. First = Submitted - Cardinality(pending) + 1
    BY DEF First
  <2> QED
    BY <2>1, Numbers
<1>5. /\ Len(out'.fifo) = Len(out.fifo) + 1 /\ out'.done = out.done
      /\ out'.fifo[Len(out.fifo) + 1] = Slot(pictures)
      /\ \A k \in 1 .. Len(out.fifo) : out'.fifo[k] = out.fifo[k]
      /\ Waiting(out') = Waiting(out) + 1
  BY <1>1, <1>2, <1>3, EnqueueElements, EnqueueQueue
<1>6. s \notin pending /\ Cardinality(pending') = Cardinality(pending) + 1 /\ IsFiniteSet(pending')
  <2>1. IsFiniteSet(pending)
    BY <1>0 DEF PendingInOrder
  <2>2. picture[s] \notin First .. Submitted
    BY <1>3, <1>4
  <2>3. s \notin pending
    BY <1>0, <1>2, <2>2 DEF PendingInOrder
  <2> QED
    BY <1>1, <2>1, <2>3, FS_AddElement
<1>7. /\ Submitted' = pictures /\ First' = First /\ NextDecoded' = NextDecoded
      /\ LastFrame' = LastFrame
  <2>1. Submitted' = pictures
    BY <1>1 DEF Submitted
  <2>2. First' = First
    <3>1. First' = pictures - (Cardinality(pending) + 1) + 1
      BY <1>6, <2>1 DEF First
    <3>2. First = (pictures - 1) - Cardinality(pending) + 1
      BY <1>3 DEF First
    <3> QED
      BY <1>3, <1>4, <3>1, <3>2
  <2>3. NextDecoded' = NextDecoded
    <3>1. NextDecoded' = pictures - (Waiting(out) + 1) + 1
      BY <1>5, <2>1 DEF NextDecoded
    <3>2. NextDecoded = (pictures - 1) - Waiting(out) + 1
      BY <1>3 DEF NextDecoded
    <3> QED
      BY <1>3, <1>4, <3>1, <3>2
  <2>4. LastFrame' = LastFrame
    BY <1>1, <2>1 DEF LastFrame
  <2> QED
    BY <2>1, <2>2, <2>3, <2>4
<1>8. CallsInOrder'
  BY <1>0, <1>1, <1>2 DEF CallsInOrder
<1>9. PicturesInOrder'
  BY <1>0, <1>1 DEF PicturesInOrder, Slot
<1>10. PendingInOrder'
  <2>1. Cardinality(pending') <= Submitted'
    BY <1>3, <1>4, <1>6, <1>7
  <2>2. ASSUME NEW x \in Surfaces
        PROVE  x \in pending' <=> picture'[x] \in First' .. Submitted'
    <3>1. x \in pending <=> picture[x] \in First .. Submitted
      BY <1>0 DEF PendingInOrder
    <3>2. picture[x] = pictures <=> x = s
      BY <1>0, <1>2, <1>3 DEF PicturesInOrder
    <3>3. picture[x] \in First .. pictures <=> picture[x] \in First .. Submitted \/ x = s
      BY <1>3, <1>4, <3>2
    <3> QED
      BY <1>1, <1>7, <3>1, <3>3
  <2> QED
    BY <1>6, <2>1, <2>2 DEF PendingInOrder
<1>11. QueuesInOrder'
  <2>1. \A labels : SyncAt(labels)' = SyncAt(labels)
    BY <1>1 DEF SyncAt
  <2>2. /\ (IF decode_pc = "qout" THEN 1 ELSE 0) = 1
        /\ (IF decode_pc' = "qout" THEN 1 ELSE 0) = 0
    BY <1>1
  <2>3. Len(out'.fifo) = Cardinality(pending')
                           - (IF SyncAt({"ready", "dqcap", "throw"}) THEN 1 ELSE 0)
    <3>1. Len(out.fifo) = Cardinality(pending)
                           - (IF SyncAt({"ready", "dqcap", "throw"}) THEN 1 ELSE 0)
      BY <1>0 DEF QueuesInOrder
    <3> QED
      BY <1>4, <1>5, <1>6, <3>1
  <2>4. Len(cap'.fifo) = Cardinality(pending') - (IF SyncAt({"throw"}) THEN 1 ELSE 0) + 0
    <3>1. Len(cap.fifo) = Cardinality(pending) - (IF SyncAt({"throw"}) THEN 1 ELSE 0) + 1
      BY <1>0, <2>2 DEF QueuesInOrder
    <3> QED
      BY <1>1, <1>4, <1>6, <3>1
  <2>5. ASSUME NEW k \in 1 .. Len(out'.fifo)
        PROVE  out'.fifo[k] = Slot(Submitted' - Len(out'.fifo) + k)
    <3>1. Submitted' - Len(out'.fifo) + k = Submitted - Len(out.fifo) + k /\ k \in Int
      BY <1>3, <1>4, <1>5, <1>7
    <3>2. CASE k = Len(out.fifo) + 1
      <4>1. Submitted - Len(out.fifo) + k = pictures
        BY <1>3, <1>4, <3>2
      <4> QED
        BY <1>5, <3>1, <3>2, <4>1
    <3>3. CASE k \in 1 .. Len(out.fifo)
      BY <1>0, <1>5, <3>1, <3>3 DEF QueuesInOrder
    <3> QED
      BY <1>4, <1>5, <3>2, <3>3
  <2>6. \A k : Slot(k)' = Slot(k)
    BY DEF Slot
  <2> QED
    BY <1>0, <1>1, <1>5, <1>7, <2>1, <2>2, <2>3, <2>4, <2>5, <2>6 DEF QueuesInOrder
<1>12. SyncsInOrder'
  <2>1. CanDequeue(out)' = CanDequeue(out)
    BY <1>5 DEF CanDequeue
  <2> QED
    BY <1>0, <1>1, <1>7, <2>1 DEF SyncsInOrder
<1>13. StatusInOrder'
  <2>1. \A x \in Surfaces : Synced(x)' = Synced(x)
    BY <1>1 DEF Synced
  <2>2. ~Synced(s)
    BY <1>0, <1>6 DEF Synced, SyncsInOrder
  <2> QED
    BY <1>0, <1>1, <1>2, <1>6, <2>1, <2>2 DEF StatusInOrder
<1>14. DataInOrder'
  <2>1. \A p, r : RightReference(p, r)' <=> RightReference(p, r)
    BY <1>1, <1>7 DEF RightReference
  <2>2. \A p : RightInput(p)' <=> RightInput(p)
    BY <1>1, <2>1 DEF RightInput, RightHeader, Slot
  <2>3. \A p \in NextDecoded' .. Submitted' : p \in NextDecoded .. Submitted \/ p = pictures
    BY <1>3, <1>4, <1>7
  <2> QED
    BY <1>0, <1>1, <2>2, <2>3 DEF DataInOrder
<1>15. FramesInOrder'
  BY <1>0, <1>1, <1>7 DEF FramesInOrder
<1> QED
  BY <1>8, <1>9, <1>10, <1>11, <1>12, <1>13, <1>14, <1>15 DEF InOrder

LEMMA DecodeStepsInOrder ==
  ASSUME PlaysInOrder, TypeInv, InOrder, DecodeSteps
  PROVE  InOrder'
<1>1. CASE BeginPictureResumes
  BY <1>1, BeginPictureResumesInOrder
<1>2. CASE QueueFrame
  BY <1>2, QueueFrameInOrder
<1>3. ~QueueFrameFails
  BY FrameNotHeld DEF QueueFrameFails
<1>4. CASE QueueInput
  BY <1>4, QueueInputInOrder
<1>5. ~QueueInputFails
  BY InputNotHeld DEF QueueInputFails
<1>6. ~UnqueueFrame
  BY DEF UnqueueFrame, InOrder, CallsInOrder
<1> QED
  BY <1>1, <1>2, <1>3, <1>4, <1>5, <1>6 DEF DecodeSteps

LEMMA ClientCallsInOrder ==
  ASSUME PlaysInOrder, TypeInv, InOrder, ClientCalls
  PROVE  InOrder'
BY CreateSliceBufferInOrder, BeginPictureInOrder, BeginPictureSyncsInOrder,
   SyncSurfaceInOrder, RenderPictureInOrder, EndPictureInOrder DEF ClientCalls

-----------------------------------------------------------------------------
(* While a sync is in progress the other thread is not in one, and what    *)
(* the numbers of held buffers are depends on where it stands.             *)
LEMMA OneSync ==
  ASSUME TypeInv, InOrder, NEW t \in Threads, sync[t].at # "idle"
  PROVE  /\ \A u \in Threads \ {t} : sync[u].at = "idle"
         /\ \A labels : "idle" \notin labels => (SyncAt(labels) <=> sync[t].at \in labels)
         /\ sync[t].surface \in Surfaces /\ sync[t].surface \in pending
         /\ picture[sync[t].surface] = First
         /\ Cardinality(pending) >= 1
         /\ sync[t].surface # current_render_target
         /\ t = "decode" <=> decode_pc = "syncing"
<1>0. CallsInOrder /\ PicturesInOrder /\ PendingInOrder /\ SyncsInOrder
  BY DEF InOrder
<1>1. \A u \in Threads \ {t} : sync[u].at = "idle"
  BY <1>0 DEF CallsInOrder, Threads
<1>2. \A labels : "idle" \notin labels => (SyncAt(labels) <=> sync[t].at \in labels)
  BY <1>1 DEF SyncAt
<1>3. /\ sync[t].surface \in Surfaces /\ sync[t].surface \in pending
      /\ picture[sync[t].surface] = First
  BY <1>0 DEF SyncsInOrder, TypeInv, CallInv
<1>4. First \in First .. Submitted
  BY <1>0, <1>3 DEF PendingInOrder
<1>5. /\ First \in Nat /\ Submitted \in Nat /\ Cardinality(pending) \in Nat
      /\ pictures \in Nat
  BY Numbers
<1>6. Cardinality(pending) >= 1
  BY <1>4, <1>5 DEF First
<1>7. sync[t].surface # current_render_target
  <2>1. SUFFICES ASSUME sync[t].surface = current_render_target
                 PROVE  FALSE
    OBVIOUS
  <2>2. picture[current_render_target] = pictures /\ Submitted = pictures - 1
    BY <1>0, <1>3, <2>1, DecoderAssumption DEF PicturesInOrder, Submitted
  <2> QED
    BY <1>3, <1>4, <1>5, <2>1, <2>2
<1>8. t = "decode" <=> decode_pc = "syncing"
  BY <1>0 DEF CallsInOrder, Threads
<1> QED
  BY <1>1, <1>2, <1>3, <1>6, <1>7, <1>8

(* The lengths of the queues during that sync.                             *)
LEMMA SyncCounts ==
  ASSUME TypeInv, InOrder, NEW t \in Threads, sync[t].at # "idle"
  PROVE  /\ sync[t].at \in {"select", "dqout"} =>
              /\ Len(out.fifo) = Cardinality(pending)
              /\ Len(cap.fifo) >= Cardinality(pending)
              /\ cap.done = out.done
         /\ sync[t].at \in {"ready", "dqcap"} =>
              /\ Len(out.fifo) = Cardinality(pending) - 1
              /\ Len(cap.fifo) >= Cardinality(pending)
              /\ cap.done = out.done + 1
         /\ sync[t].at = "throw" =>
              /\ Len(out.fifo) = Cardinality(pending) - 1
              /\ cap.done = out.done
<1>1. /\ SyncAt({"ready", "dqcap", "throw"}) <=> sync[t].at \in {"ready", "dqcap", "throw"}
      /\ SyncAt({"ready", "dqcap"}) <=> sync[t].at \in {"ready", "dqcap"}
      /\ SyncAt({"throw"}) <=> sync[t].at \in {"throw"}
  BY OneSync
<1>2. Cardinality(pending) \in Nat /\ out.done \in Nat
  BY Numbers
<1> QED
  BY <1>1, <1>2 DEF InOrder, QueuesInOrder

(* A step of the sync that leaves the queues and the client alone.         *)
LEMMA SyncMovesInOrder ==
  ASSUME TypeInv, InOrder, NEW t \in Threads, sync[t].at # "idle",
         NEW label \in {"idle", "dqout", "dqcap"}, sync' = [sync EXCEPT ![t].at = label],
         IF label = "dqcap" THEN sync[t].at = "ready" ELSE sync[t].at \in {"select", "dqout"},
         label = "idle" => decode_pc # "syncing",
         label = "dqout" /\ Timely => CanDequeue(out),
         UNCHANGED <<contextVars, deviceVars, decode_pc, clientVars, input_buf_index>>,
         StatusInOrder'
  PROVE  InOrder'
<1>0. /\ CallsInOrder /\ PicturesInOrder /\ PendingInOrder /\ QueuesInOrder
      /\ SyncsInOrder /\ DataInOrder /\ FramesInOrder
  BY DEF InOrder
<1>1. UNCHANGED <<input_buf_index, num_rendered_surfaces, current_render_target,
                  frame_hdr, slice_buf, out, cap, ctrl, input, frame, decode_pc,
                  rendered, pictures, picture, pending>>
  BY DEF contextVars, deviceVars, clientVars
<1>2. /\ sync'[t].at = label
      /\ \A u \in Threads : sync'[u].surface = sync[u].surface
      /\ \A u \in Threads \ {t} : sync'[u].at = "idle" /\ sync[u].at = "idle"
  BY OneSync DEF TypeInv, TypeOK
<1>3. \A labels : "idle" \notin labels => (SyncAt(labels)' <=> label \in labels)
  BY <1>2 DEF SyncAt
<1>4. /\ SyncAt({"ready", "dqcap", "throw"})' = SyncAt({"ready", "dqcap", "throw"})
      /\ SyncAt({"ready", "dqcap"})' = SyncAt({"ready", "dqcap"})
      /\ SyncAt({"throw"})' = SyncAt({"throw"})
  <2>1. sync[t].at \in {"ready", "dqcap"} <=> label \in {"ready", "dqcap"}
    OBVIOUS
  <2>2. sync[t].at # "throw" /\ label # "throw"
    OBVIOUS
  <2> QED
    <3>1. \A labels : "idle" \notin labels => (SyncAt(labels) <=> sync[t].at \in labels)
      BY OneSync
    <3>2. /\ SyncAt({"ready", "dqcap", "throw"}) <=> sync[t].at \in {"ready", "dqcap", "throw"}
          /\ SyncAt({"ready", "dqcap"}) <=> sync[t].at \in {"ready", "dqcap"}
          /\ SyncAt({"throw"}) <=> sync[t].at \in {"throw"}
      BY <3>1
    <3>3. /\ SyncAt({"ready", "dqcap", "throw"})' <=> label \in {"ready", "dqcap", "throw"}
          /\ SyncAt({"ready", "dqcap"})' <=> label \in {"ready", "dqcap"}
          /\ SyncAt({"throw"})' <=> label \in {"throw"}
      BY <1>3
    <3> QED
      BY <2>1, <2>2, <3>2, <3>3 DEF SyncAt
<1>5. First' = First /\ Submitted' = Submitted /\ LastFrame' = LastFrame
  BY <1>1 DEF First, Submitted, LastFrame
<1>6. CallsInOrder'
  BY <1>0, <1>1, <1>2, OneSync DEF CallsInOrder, Threads
<1>7. QueuesInOrder'
  BY <1>0, <1>1, <1>4, <1>5 DEF QueuesInOrder, Slot
<1>8. SyncsInOrder'
  BY <1>0, <1>1, <1>2, <1>5, OneSync DEF SyncsInOrder
<1>9. DataInOrder'
  BY <1>0, <1>1, SameReference DEF DataInOrder, RightInput, RightHeader, Slot
<1> QED
  BY <1>0, <1>1, <1>6, <1>7, <1>8, <1>9, SamePictures, SamePending, SameFrames DEF InOrder

LEMMA SelectReturnsInOrder ==
  ASSUME PlaysInOrder, TypeInv, InOrder, NEW t \in Threads, SelectReturns(t)
  PROVE  InOrder'
<1>1. /\ sync[t].at = "select" /\ sync' = [sync EXCEPT ![t].at = "dqout"]
      /\ UNCHANGED <<surfaceVars, contextVars, deviceVars, decode_pc, clientVars>>
      /\ Timely => Readable \/ ~CanDecode
  BY DEF SelectReturns
<1>2. Timely => CanDequeue(out)
  <2>1. /\ Len(out.fifo) = Cardinality(pending) /\ Len(cap.fifo) >= Cardinality(pending)
        /\ cap.done = out.done /\ Cardinality(pending) >= 1
    BY <1>1, SyncCounts, OneSync
  <2>2. /\ Len(out.fifo) \in Nat /\ out.done \in Nat /\ out.done <= Len(out.fifo)
        /\ Len(cap.fifo) \in Nat /\ Cardinality(pending) \in Nat
        /\ Waiting(out) = Len(out.fifo) - out.done
        /\ Waiting(cap) = Len(cap.fifo) - cap.done
    BY Numbers
  <2>3. out # EmptyQueue
    <3>1. Len(EmptyQueue.fifo) = 0
      BY EmptySeq DEF EmptyQueue
    <3> QED
      BY <2>1, <2>2, <3>1
  <2> QED
    BY <1>1, <2>1, <2>2, <2>3 DEF Readable, CanDecode, CanDequeue
<1>3. StatusInOrder'
  <2>1. \A x \in Surfaces : Synced(x)' = Synced(x)
    BY <1>1 DEF Synced, TypeInv, TypeOK
  <2> QED
    BY <1>1, <2>1 DEF InOrder, StatusInOrder, surfaceVars, contextVars, clientVars
<1> QED
  BY <1>1, <1>2, <1>3, SyncMovesInOrder DEF surfaceVars

LEMMA DequeueInputFailsInOrder ==
  ASSUME PlaysInOrder, TypeInv, InOrder, NEW t \in Threads, DequeueInputFails(t)
  PROVE  InOrder'
<1>1. /\ sync[t].at = "dqout" /\ sync' = [sync EXCEPT ![t].at = "idle"]
      /\ UNCHANGED <<surfaceVars, contextVars, deviceVars, decode_pc, clientVars>>
      /\ ~CanDequeue(out)
  BY DEF DequeueInputFails
<1>2. decode_pc # "syncing"
  BY <1>1 DEF InOrder, CallsInOrder, SyncsInOrder
<1>3. StatusInOrder'
  <2>1. \A x \in Surfaces : Synced(x)' = Synced(x)
    BY <1>1 DEF Synced, TypeInv, TypeOK
  <2> QED
    BY <1>1, <2>1 DEF InOrder, StatusInOrder, surfaceVars, contextVars, clientVars
<1> QED
  BY <1>1, <1>2, <1>3, SyncMovesInOrder DEF surfaceVars

LEMMA MarkReadyInOrder ==
  ASSUME PlaysInOrder, TypeInv, InOrder, NEW t \in Threads, MarkReady(t)
  PROVE  InOrder'
<1> DEFINE s == sync[t].surface
<1>1. /\ sync[t].at = "ready" /\ sync' = [sync EXCEPT ![t].at = "dqcap"]
      /\ status' = [status EXCEPT ![s] = "Ready"]
      /\ UNCHANGED <<input_buf_index, contextVars, deviceVars, decode_pc, clientVars>>
  BY DEF MarkReady
<1>2. StatusInOrder'
  <2>1. /\ s \in Surfaces /\ s # current_render_target
        /\ \A u \in Threads \ {t} : sync[u].at = "idle"
    BY <1>1, OneSync
  <2>2. \A x \in Surfaces : ~Synced(x) /\ (Synced(x)' <=> x = s)
    BY <1>1, <2>1 DEF Synced, TypeInv, TypeOK
  <2> QED
    BY <1>1, <2>1, <2>2 DEF InOrder, StatusInOrder, contextVars, clientVars, TypeInv, TypeOK
<1> QED
  BY <1>1, <1>2, SyncMovesInOrder

LEMMA DequeueInputInOrder ==
  ASSUME PlaysInOrder, TypeInv, InOrder, NEW t \in Threads, DequeueInput(t)
  PROVE  InOrder'
<1>0. /\ CallsInOrder /\ PicturesInOrder /\ PendingInOrder /\ QueuesInOrder
      /\ SyncsInOrder /\ StatusInOrder /\ DataInOrder /\ FramesInOrder
  BY DEF InOrder
<1>1. /\ UNCHANGED <<status, input_buf_index, num_rendered_surfaces,
                     current_render_target, frame_hdr, slice_buf, cap, ctrl, input,
                     frame, decode_pc, rendered, pictures, picture, pending>>
      /\ sync[t].at = "dqout" /\ sync' = [sync EXCEPT ![t].at = "ready"]
      /\ CanDequeue(out) /\ out' = Dequeue(out) /\ out \in Queues(Slots)
  BY DEF DequeueInput, surfaceVars, contextVars, clientVars, TypeInv, TypeOK
<1>2. /\ sync'[t].at = "ready"
      /\ \A u \in Threads : sync'[u].surface = sync[u].surface
      /\ \A u \in Threads \ {t} : sync'[u] = sync[u] /\ sync[u].at = "idle"
  BY <1>1, OneSync DEF TypeInv, TypeOK
<1>3. /\ Len(out'.fifo) = Len(out.fifo) - 1 /\ out'.done = out.done - 1
      /\ \A k \in 1 .. Len(out.fifo) - 1 : out'.fifo[k] = out.fifo[k + 1]
      /\ Waiting(out') = Waiting(out)
  BY <1>1, DequeueElements, DequeueQueue
<1>4. /\ Submitted' = Submitted /\ First' = First /\ NextDecoded' = NextDecoded
      /\ LastFrame' = LastFrame
  BY <1>1, <1>3 DEF Submitted, First, NextDecoded, LastFrame
<1>5. /\ Len(out.fifo) \in Nat /\ out.done \in Nat /\ Submitted \in Nat
      /\ Cardinality(pending) \in Nat
  BY Numbers
<1>6. CallsInOrder'
  BY <1>0, <1>1, <1>2, OneSync DEF CallsInOrder, Threads
<1>7. QueuesInOrder'
  <2>1. /\ SyncAt({"ready", "dqcap", "throw"})' /\ SyncAt({"ready", "dqcap"})'
        /\ ~SyncAt({"throw"})' /\ ~SyncAt({"throw"})
    BY <1>1, <1>2 DEF SyncAt
  <2>2. Len(out.fifo) = Cardinality(pending) /\ cap.done = out.done
    BY <1>1, SyncCounts
  <2>3. ASSUME NEW k \in 1 .. Len(out'.fifo)
        PROVE  out'.fifo[k] = Slot(Submitted - Len(out'.fifo) + k)
    <3>1. k \in 1 .. Len(out.fifo) - 1 /\ k + 1 \in 1 .. Len(out.fifo)
      BY <1>3, <1>5
    <3>2. Submitted - Len(out.fifo) + (k + 1) = Submitted - Len(out'.fifo) + k
      BY <1>3, <1>5
    <3> QED
      BY <1>0, <1>3, <3>1, <3>2 DEF QueuesInOrder
  <2>4. /\ Len(out'.fifo) = Cardinality(pending) - 1
        /\ cap.done = out'.done + 1
    BY <1>3, <1>5, <2>2
  <2> QED
    BY <1>0, <1>1, <1>4, <2>1, <2>3, <2>4 DEF QueuesInOrder, Slot
<1>8. SyncsInOrder'
  BY <1>0, <1>1, <1>2, <1>4 DEF SyncsInOrder
<1>9. StatusInOrder'
  <2>1. \A x \in Surfaces : Synced(x)' = Synced(x)
    BY <1>1, <1>2 DEF Synced
  <2> QED
    BY <1>0, <1>1, <2>1 DEF StatusInOrder
<1>10. DataInOrder' /\ FramesInOrder'
  <2>1. \A p, r : RightReference(p, r)' <=> RightReference(p, r)
    BY <1>1, <1>4 DEF RightReference
  <2> QED
    BY <1>0, <1>1, <1>4, <2>1 DEF DataInOrder, RightInput, RightHeader, Slot, FramesInOrder
<1> QED
  BY <1>0, <1>1, <1>6, <1>7, <1>8, <1>9, <1>10, SamePictures, SamePending DEF InOrder

(* After the input buffer the capture buffer is always there as well.      *)
LEMMA FrameDequeues ==
  ASSUME TypeInv, InOrder, NEW t \in Threads, sync[t].at = "dqcap"
  PROVE  CanDequeue(cap) /\ Oldest(cap) = sync[t].surface
<1>1. /\ cap.done = out.done + 1 /\ Len(cap.fifo) >= Cardinality(pending)
      /\ Cardinality(pending) >= 1
  BY SyncCounts, OneSync
<1>2. /\ out.done \in Nat /\ Len(cap.fifo) \in Nat /\ Cardinality(pending) \in Nat
      /\ LastFrame \in Nat /\ Submitted \in Nat /\ First \in Nat /\ First >= 1
      /\ pictures \in Nat
  BY Numbers
<1>3. CanDequeue(cap) /\ cap \in Queues(Surfaces)
  BY <1>1, <1>2 DEF CanDequeue, TypeInv, TypeOK
<1>4. Oldest(cap) = cap.fifo[1]
  BY <1>3, DequeueElements
<1>5. 1 \in 1 .. Len(cap.fifo)
  BY <1>1, <1>2
<1>6. cap.fifo[1] \in Surfaces /\ picture[cap.fifo[1]] = LastFrame - Len(cap.fifo) + 1
  BY <1>5, HeldArePending
<1>7. LastFrame - Len(cap.fifo) = Submitted - Cardinality(pending)
  <2>1. ~SyncAt({"throw"})
    BY OneSync
  <2>2. Len(cap.fifo) = Cardinality(pending) + (IF decode_pc = "qout" THEN 1 ELSE 0)
    BY <1>2, <2>1 DEF InOrder, QueuesInOrder
  <2>3. LastFrame = Submitted + (IF decode_pc = "qout" THEN 1 ELSE 0)
    BY <1>2, DecoderAssumption DEF LastFrame, Submitted, TypeInv, CallInv
  <2> QED
    BY <1>2, <2>2, <2>3
<1>8. picture[cap.fifo[1]] = First
  BY <1>6, <1>7 DEF First
<1>9. sync[t].surface \in Surfaces /\ picture[sync[t].surface] = First
  BY OneSync
<1> QED
  BY <1>2, <1>3, <1>4, <1>6, <1>8, <1>9 DEF InOrder, PicturesInOrder

LEMMA DequeueFrameInOrder ==
  ASSUME PlaysInOrder, TypeInv, InOrder, NEW t \in Threads, DequeueFrame(t)
  PROVE  InOrder'
<1>0. /\ CallsInOrder /\ PicturesInOrder /\ PendingInOrder /\ QueuesInOrder
      /\ SyncsInOrder /\ StatusInOrder /\ DataInOrder /\ FramesInOrder
  BY DEF InOrder
<1>1. /\ UNCHANGED <<status, input_buf_index, num_rendered_surfaces,
                     current_render_target, frame_hdr, slice_buf, out, ctrl, input,
                     frame, decode_pc, rendered, pictures, picture, pending>>
      /\ sync[t].at = "dqcap"
      /\ sync' = [sync EXCEPT ![t].at = "throw", ![t].buf = Oldest(cap)]
      /\ CanDequeue(cap) /\ cap' = Dequeue(cap) /\ cap \in Queues(Surfaces)
  BY DEF DequeueFrame, surfaceVars, contextVars, clientVars, TypeInv, TypeOK
<1>2. /\ sync'[t].at = "throw" /\ sync'[t].buf = sync[t].surface
      /\ \A u \in Threads : sync'[u].surface = sync[u].surface
      /\ \A u \in Threads \ {t} : sync'[u] = sync[u] /\ sync[u].at = "idle"
  BY <1>1, OneSync, FrameDequeues DEF TypeInv, TypeOK
<1>3. /\ Len(cap'.fifo) = Len(cap.fifo) - 1 /\ cap'.done = cap.done - 1
      /\ \A k \in 1 .. Len(cap.fifo) - 1 : cap'.fifo[k] = cap.fifo[k + 1]
  BY <1>1, DequeueElements
<1>4. /\ Submitted' = Submitted /\ First' = First /\ LastFrame' = LastFrame
  BY <1>1 DEF Submitted, First, LastFrame
<1>5. /\ Len(cap.fifo) \in Nat /\ cap.done \in Nat /\ LastFrame \in Nat
      /\ out.done \in Nat /\ Cardinality(pending) \in Nat
  BY Numbers
<1>6. CallsInOrder'
  BY <1>0, <1>1, <1>2, OneSync DEF CallsInOrder, Threads
<1>7. QueuesInOrder'
  <2>1. /\ SyncAt({"ready", "dqcap", "throw"})' /\ ~SyncAt({"ready", "dqcap"})'
        /\ SyncAt({"throw"})' /\ ~SyncAt({"throw"})
        /\ SyncAt({"ready", "dqcap", "throw"})
    BY <1>1, <1>2 DEF SyncAt
  <2>2. cap.done = out.done + 1
    BY <1>1, SyncCounts
  <2>3. ASSUME NEW k \in 1 .. Len(cap'.fifo)
        PROVE  picture[cap'.fifo[k]] = LastFrame - Len(cap'.fifo) + k
    <3>1. k \in 1 .. Len(cap.fifo) - 1 /\ k + 1 \in 1 .. Len(cap.fifo)
      BY <1>3, <1>5
    <3>2. LastFrame - Len(cap.fifo) + (k + 1) = LastFrame - Len(cap'.fifo) + k
      BY <1>3, <1>5
    <3> QED
      BY <1>0, <1>3, <3>1, <3>2 DEF QueuesInOrder
  <2>4. Len(cap.fifo) = Cardinality(pending) - 0 + (IF decode_pc = "qout" THEN 1 ELSE 0)
    BY <1>0, <2>1 DEF QueuesInOrder
  <2>5. /\ Len(cap'.fifo) = Cardinality(pending) - 1 + (IF decode_pc = "qout" THEN 1 ELSE 0)
        /\ cap'.done = out.done + 0
    BY <1>3, <1>5, <2>2, <2>4
  <2> QED
    BY <1>0, <1>1, <1>4, <2>1, <2>3, <2>5 DEF QueuesInOrder, Slot
<1>8. SyncsInOrder'
  <2>1. \A u \in Threads : sync'[u].at # "idle" => u = t
    BY <1>2
  <2>2. sync'[t].surface \in pending' /\ picture'[sync'[t].surface] = First'
    <3>1. sync[t].surface \in pending /\ picture[sync[t].surface] = First
      BY <1>1, OneSync
    <3>2. sync'[t].surface = sync[t].surface
      BY <1>2
    <3> QED
      BY <1>1, <1>4, <3>1, <3>2
  <2> QED
    BY <1>2, <2>1, <2>2 DEF SyncsInOrder
<1>9. StatusInOrder'
  <2>1. \A x \in Surfaces : Synced(x)' = Synced(x)
    BY <1>1, <1>2 DEF Synced
  <2> QED
    BY <1>0, <1>1, <2>1 DEF StatusInOrder
<1>10. DataInOrder'
  BY <1>0, <1>1, SameReference DEF DataInOrder, RightInput, RightHeader, Slot
<1> QED
  BY <1>0, <1>1, <1>6, <1>7, <1>8, <1>9, <1>10, SamePictures, SamePending,
     SameFrames DEF InOrder

LEMMA ThrowBufferInOrder ==
  ASSUME PlaysInOrder, TypeInv, InOrder, NEW t \in Threads, ThrowBuffer(t)
  PROVE  InOrder'
<1> DEFINE s == sync[t].surface
<1>0. /\ CallsInOrder /\ PicturesInOrder /\ PendingInOrder /\ QueuesInOrder
      /\ SyncsInOrder /\ StatusInOrder /\ DataInOrder /\ FramesInOrder
  BY DEF InOrder
<1>1. /\ UNCHANGED <<status, input_buf_index, num_rendered_surfaces,
                     current_render_target, frame_hdr, slice_buf, out, cap, ctrl,
                     input, frame, decode_pc, rendered, pictures, picture>>
      /\ sync[t].at = "throw" /\ sync' = [sync EXCEPT ![t].at = "idle"]
      /\ pending' = pending \ {s}
  BY DEF ThrowBuffer, surfaceVars, contextVars, deviceVars
<1>2. /\ \A u \in Threads : sync'[u].at = "idle"
      /\ \A u \in Threads : sync'[u].surface = sync[u].surface
      /\ \A u \in Threads \ {t} : sync[u].at = "idle"
  BY <1>1, OneSync DEF TypeInv, TypeOK
<1>3. /\ s \in Surfaces /\ s \in pending /\ picture[s] = First
      /\ s # current_render_target /\ Cardinality(pending) >= 1
      /\ t = "decode" <=> decode_pc = "syncing"
  BY <1>1, OneSync
<1>4. /\ Submitted \in Nat /\ First \in Nat /\ First >= 1 /\ pictures \in Nat
      /\ Cardinality(pending) \in Nat /\ Cardinality(pending) <= Submitted
      /\ \A x \in Surfaces : picture[x] \in Nat
  BY Numbers
<1>5. IsFiniteSet(pending') /\ Cardinality(pending') = Cardinality(pending) - 1
  BY <1>0, <1>1, <1>3, FS_RemoveElement DEF PendingInOrder
<1>6. /\ Submitted' = Submitted /\ LastFrame' = LastFrame /\ First' = First + 1
  <2>1. Submitted' = Submitted /\ LastFrame' = LastFrame
    BY <1>1 DEF Submitted, LastFrame
  <2>2. /\ First' = Submitted - (Cardinality(pending) - 1) + 1
        /\ First = Submitted - Cardinality(pending) + 1
    BY <1>5, <2>1 DEF First
  <2> QED
    BY <1>4, <2>1, <2>2
<1>7. CallsInOrder'
  <2>1. current_render_target # NoSurface \/ decode_pc = "syncing"
          => Cardinality(pending') < MaxAhead
    <3>1. MaxAhead \in Nat
      BY DecoderAssumption
    <3> QED
      BY <1>0, <1>4, <1>5, <3>1 DEF CallsInOrder
  <2>2. decode_pc = "syncing" => sync["decode"].surface \notin pending'
    BY <1>1, <1>3
  <2> QED
    BY <1>0, <1>1, <1>2, <2>1, <2>2 DEF CallsInOrder, Threads
<1>8. PendingInOrder'
  <2>1. Cardinality(pending') <= Submitted
    BY <1>4, <1>5
  <2>2. ASSUME NEW x \in Surfaces
        PROVE  x \in pending' <=> picture[x] \in First + 1 .. Submitted
    <3>1. x \in pending <=> picture[x] \in First .. Submitted
      BY <1>0 DEF PendingInOrder
    <3>2. picture[x] = First <=> x = s
      BY <1>0, <1>3, <1>4 DEF PicturesInOrder
    <3> QED
      BY <1>1, <1>4, <3>1, <3>2
  <2> QED
    BY <1>1, <1>5, <1>6, <2>1, <2>2 DEF PendingInOrder
<1>9. QueuesInOrder'
  <2>1. /\ ~SyncAt({"ready", "dqcap", "throw"})' /\ ~SyncAt({"ready", "dqcap"})'
        /\ ~SyncAt({"throw"})'
    BY <1>2 DEF SyncAt
  <2>2. /\ SyncAt({"ready", "dqcap", "throw"}) /\ ~SyncAt({"ready", "dqcap"})
        /\ SyncAt({"throw"})
    BY <1>1, OneSync
  <2>3. Len(cap.fifo) = Cardinality(pending') - 0 + (IF decode_pc = "qout" THEN 1 ELSE 0)
    BY <1>0, <1>4, <1>5, <2>2 DEF QueuesInOrder
  <2>4. Len(out.fifo) = Cardinality(pending') - 0
    BY <1>0, <1>4, <1>5, <2>2 DEF QueuesInOrder
  <2> QED
    BY <1>0, <1>1, <1>6, <2>1, <2>2, <2>3, <2>4 DEF QueuesInOrder, Slot
<1>10. SyncsInOrder'
  BY <1>2 DEF SyncsInOrder
<1>11. StatusInOrder'
  <2>1. \A x \in Surfaces : ~Synced(x)' /\ (Synced(x) <=> x = s)
    BY <1>1, <1>2 DEF Synced
  <2> QED
    BY <1>0, <1>1, <1>3, <2>1 DEF StatusInOrder
<1>12. DataInOrder'
  BY <1>0, <1>1, SameReference DEF DataInOrder, RightInput, RightHeader, Slot
<1> QED
  BY <1>0, <1>1, <1>7, <1>8, <1>9, <1>10, <1>11, <1>12, SamePictures,
     SameFrames DEF InOrder

(* The device's queues side by side: the k-th waiting input buffer and the *)
(* k-th waiting capture buffer are those of the same picture.              *)
LEMMA WaitingSideBySide ==
  ASSUME TypeInv, InOrder, NEW k \in 1 .. Waiting(out)
  PROVE  /\ Waiting(cap) >= Waiting(out)
         /\ out.fifo[out.done + k] = Slot(NextDecoded + k - 1)
         /\ cap.fifo[cap.done + k] \in Surfaces
         /\ picture[cap.fifo[cap.done + k]] = NextDecoded + k - 1
         /\ NextDecoded + k - 1 \in NextDecoded .. Submitted
<1> DEFINE q == IF decode_pc = "qout" THEN 1 ELSE 0
           lo == Len(out.fifo)
           lc == Len(cap.fifo)
           n == Cardinality(pending)
<1>1. /\ lo \in Nat /\ out.done \in Nat /\ out.done <= lo
      /\ lc \in Nat /\ cap.done \in Nat /\ cap.done <= lc
      /\ Waiting(out) = lo - out.done /\ Waiting(cap) = lc - cap.done
      /\ LastFrame \in Nat /\ Submitted \in Nat /\ pictures \in Nat /\ n \in Nat
      /\ q \in {0, 1}
  BY Numbers
<1>2. QueuesInOrder /\ NextDecoded = Submitted - Waiting(out) + 1
  BY DEF InOrder, NextDecoded
<1>3. lc - cap.done = lo - out.done + q
  <2>1. CASE \A t \in Threads : sync[t].at \notin {"ready", "dqcap", "throw"}
    <3>1. /\ ~SyncAt({"ready", "dqcap", "throw"}) /\ ~SyncAt({"throw"})
          /\ ~SyncAt({"ready", "dqcap"})
      BY <2>1 DEF SyncAt
    <3>2. lo = n - 0 /\ lc = n - 0 + q /\ cap.done = out.done + 0
      BY <1>2, <3>1 DEF QueuesInOrder
    <3> HIDE DEF q, lo, lc, n
    <3> QED
      BY <1>1, <3>2
  <2>2. ASSUME NEW t \in Threads, sync[t].at \in {"ready", "dqcap"}
        PROVE  lc - cap.done = lo - out.done + q
    <3>1. /\ SyncAt({"ready", "dqcap", "throw"}) /\ ~SyncAt({"throw"})
          /\ SyncAt({"ready", "dqcap"})
      BY <2>2, OneSync
    <3>2. lo = n - 1 /\ lc = n - 0 + q /\ cap.done = out.done + 1
      BY <1>2, <3>1 DEF QueuesInOrder
    <3> HIDE DEF q, lo, lc, n
    <3> QED
      BY <1>1, <3>2
  <2>3. ASSUME NEW t \in Threads, sync[t].at = "throw"
        PROVE  lc - cap.done = lo - out.done + q
    <3>1. /\ SyncAt({"ready", "dqcap", "throw"}) /\ SyncAt({"throw"})
          /\ ~SyncAt({"ready", "dqcap"})
      BY <2>3, OneSync
    <3>2. lo = n - 1 /\ lc = n - 1 + q /\ cap.done = out.done + 0
      BY <1>2, <3>1 DEF QueuesInOrder
    <3> HIDE DEF q, lo, lc, n
    <3> QED
      BY <1>1, <3>2
  <2> QED
    BY <2>1, <2>2, <2>3
<1>4. LastFrame = Submitted + q
  BY <1>1, DecoderAssumption DEF LastFrame, Submitted, TypeInv, CallInv
<1>5. /\ Waiting(cap) >= Waiting(out)
      /\ out.done + k \in 1 .. lo /\ cap.done + k \in 1 .. lc
      /\ Submitted - lo + (out.done + k) = NextDecoded + k - 1
      /\ LastFrame - lc + (cap.done + k) = NextDecoded + k - 1
      /\ NextDecoded + k - 1 \in NextDecoded .. Submitted
  <2> HIDE DEF q, lo, lc, n
  <2>1. k \in Nat /\ k >= 1 /\ k <= lo - out.done
    BY <1>1
  <2>2. NextDecoded = Submitted - (lo - out.done) + 1
    BY <1>1, <1>2
  <2> QED
    BY <1>1, <1>3, <1>4, <2>1, <2>2
<1>6. out.fifo[out.done + k] = Slot(NextDecoded + k - 1)
  BY <1>2, <1>5 DEF QueuesInOrder
<1>7. /\ cap.fifo[cap.done + k] \in Surfaces
      /\ picture[cap.fifo[cap.done + k]] = NextDecoded + k - 1
  BY <1>5, HeldArePending
<1> QED
  BY <1>5, <1>6, <1>7

LEMMA HardwareDecodeInOrder ==
  ASSUME PlaysInOrder, TypeInv, InOrder, HardwareDecode
  PROVE  InOrder'
<1> DEFINE x == NextWaiting(cap)
<1>0. /\ CallsInOrder /\ PicturesInOrder /\ PendingInOrder /\ QueuesInOrder
      /\ SyncsInOrder /\ StatusInOrder /\ DataInOrder /\ FramesInOrder
  BY DEF InOrder
<1>1. /\ UNCHANGED <<status, input_buf_index, num_rendered_surfaces,
                     current_render_target, frame_hdr, slice_buf, ctrl, input,
                     decode_pc, sync, rendered, pictures, picture, pending>>
      /\ Waiting(out) > 0
      /\ out' = Finish(out) /\ cap' = Finish(cap)
      /\ frame' = [frame EXCEPT ![x] = DecodedFrom(NextWaiting(out), x)]
      /\ out \in Queues(Slots) /\ cap \in Queues(Surfaces)
      /\ frame \in [Surfaces -> Tags]
  BY DEF HardwareDecode, CanDecode, surfaceVars, contextVars, clientVars, TypeInv, TypeOK
<1>2. /\ out'.fifo = out.fifo /\ out'.done = out.done + 1
      /\ cap'.fifo = cap.fifo /\ cap'.done = cap.done + 1
      /\ Waiting(out') = Waiting(out) - 1
  BY <1>1, FinishElements, FinishQueue
<1>3. /\ Len(out.fifo) \in Nat /\ out.done \in Nat /\ cap.done \in Nat
      /\ Waiting(out) = Len(out.fifo) - out.done
      /\ NextDecoded \in Nat /\ NextDecoded >= 1 /\ Submitted \in Nat /\ pictures \in Nat
      /\ \A s \in Surfaces : picture[s] \in Nat
  <2>1. NextDecoded \in Nat /\ NextDecoded >= First /\ First \in Nat /\ First >= 1
    BY Numbers
  <2> QED
    BY <2>1, Numbers
<1>4. /\ Submitted' = Submitted /\ LastFrame' = LastFrame /\ First' = First
      /\ NextDecoded' = NextDecoded + 1 /\ NextDecoded <= Submitted
  <2>1. Submitted' = Submitted /\ LastFrame' = LastFrame /\ First' = First
    BY <1>1 DEF Submitted, LastFrame, First
  <2>2. /\ NextDecoded' = Submitted - (Waiting(out) - 1) + 1
        /\ NextDecoded = Submitted - Waiting(out) + 1
    BY <1>2, <2>1 DEF NextDecoded
  <2> QED
    BY <1>1, <1>3, <2>1, <2>2
<1>5. /\ NextWaiting(out) = Slot(NextDecoded)
      /\ x \in Surfaces /\ picture[x] = NextDecoded
  <2>1. 1 \in 1 .. Waiting(out) /\ NextDecoded + 1 - 1 = NextDecoded
    BY <1>1, <1>3
  <2> QED
    BY <2>1, WaitingSideBySide DEF NextWaiting
<1>6. frame'[x] = NextDecoded /\ \A s \in Surfaces \ {x} : frame'[s] = frame[s]
  <2>1. NextDecoded \in NextDecoded .. Submitted
    BY <1>3, <1>4
  <2>2. RightInput(NextDecoded)
    BY <1>0, <2>1 DEF DataInOrder
  <2>3. DecodedFrom(NextWaiting(out), x) = NextDecoded
    BY <1>5, <2>2 DEF DecodedFrom, Decodes, RightInput, RightHeader, RightReference
  <2> QED
    BY <1>1, <1>5, <2>3
<1>7. QueuesInOrder'
  <2>1. \A labels : SyncAt(labels)' = SyncAt(labels)
    BY <1>1 DEF SyncAt
  <2>2. cap'.done = out'.done + (IF SyncAt({"ready", "dqcap"}) THEN 1 ELSE 0)
    <3>1. cap.done = out.done + (IF SyncAt({"ready", "dqcap"}) THEN 1 ELSE 0)
      BY <1>0 DEF QueuesInOrder
    <3> QED
      BY <1>2, <1>3, <3>1
  <2> QED
    BY <1>0, <1>1, <1>2, <1>4, <2>1, <2>2 DEF QueuesInOrder, Slot
<1>8. SyncsInOrder'
  <2>1. CanDequeue(out) => CanDequeue(out')
    BY <1>2, <1>3 DEF CanDequeue
  <2> QED
    BY <1>0, <1>1, <1>4, <2>1 DEF SyncsInOrder
<1>9. DataInOrder'
  <2>1. ASSUME NEW p \in Nat, p > NextDecoded, NEW r, RightReference(p, r)
        PROVE  RightReference(p, r)'
    <3>1. p > 1 => r \in Surfaces /\ picture[r] # p /\ picture[r] = p - 1
      BY <1>3, <2>1 DEF RightReference
    <3>2. ASSUME p > 1, p = NextDecoded + 1
          PROVE  frame'[r] = p - 1
      <4>1. picture[r] = NextDecoded
        BY <1>3, <3>1, <3>2
      <4>2. r = x
        BY <1>0, <1>3, <1>5, <3>1, <3>2, <4>1 DEF PicturesInOrder
      <4> QED
        BY <1>3, <1>6, <3>2, <4>2
    <3> QED
      BY <1>1, <1>4, <3>1, <3>2 DEF RightReference
  <2>2. \A p \in Nat : p > NextDecoded /\ RightInput(p) => RightInput(p)'
    BY <1>1, <2>1 DEF RightInput, RightHeader, Slot
  <2>3. current_render_target # NoSurface => pictures > NextDecoded
    BY <1>3, <1>4 DEF Submitted
  <2>4. decode_pc \in {"qcap", "qout"} => current_render_target # NoSurface
    BY DecoderAssumption DEF TypeInv, CallInv
  <2>5. \A p \in NextDecoded' .. Submitted' : p \in NextDecoded .. Submitted /\ p \in Nat
                                              /\ p > NextDecoded
    BY <1>3, <1>4
  <2> QED
    BY <1>0, <1>1, <1>3, <2>1, <2>2, <2>3, <2>4, <2>5 DEF DataInOrder, Slot
<1>10. FramesInOrder'
  <2>1. ASSUME NEW s \in Surfaces, picture[s] < NextDecoded + 1
        PROVE  frame'[s] = picture[s]
    <3>1. CASE picture[s] = NextDecoded
      <4>1. s = x
        BY <1>0, <1>3, <1>5, <3>1 DEF PicturesInOrder
      <4> QED
        BY <1>5, <1>6, <4>1
    <3>2. CASE picture[s] < NextDecoded
      <4>1. s # x
        BY <1>3, <1>5, <3>2
      <4> QED
        BY <1>0, <1>6, <3>2, <4>1 DEF FramesInOrder
    <3> QED
      BY <1>3, <2>1, <3>1, <3>2
  <2> QED
    BY <1>1, <1>4, <2>1 DEF FramesInOrder
<1> QED
  BY <1>0, <1>1, <1>7, <1>8, <1>9, <1>10, SamePictures, SamePending, SameStatus
     DEF InOrder, CallsInOrder

LEMMA InitInOrder == Init => InOrder
<1> SUFFICES ASSUME Init
             PROVE  InOrder
  OBVIOUS
<1>1. /\ status = [s \in Surfaces |-> "Ready"] /\ out = EmptyQueue /\ cap = EmptyQueue
      /\ frame = [s \in Surfaces |-> 0] /\ num_rendered_surfaces = 0
      /\ current_render_target = NoSurface /\ input = [i \in Slots |-> 0]
      /\ slice_buf = [slot |-> 0, picture |-> 0] /\ decode_pc = "idle"
      /\ \A t \in Threads : sync[t].at = "idle"
      /\ pictures = 0 /\ picture = [s \in Surfaces |-> 0] /\ pending = {}
  BY DEF Init, SurfacesCreated, ContextCreated, NoPicture
<1>2. /\ Len(out.fifo) = 0 /\ out.done = 0 /\ Len(cap.fifo) = 0 /\ cap.done = 0
      /\ Waiting(out) = 0 /\ Cardinality(pending) = 0 /\ IsFiniteSet(pending)
  BY <1>1, EmptySeq, FS_EmptySet DEF EmptyQueue, Waiting
<1>3. /\ Submitted = 0 /\ First = 1 /\ NextDecoded = 1 /\ LastFrame = 0
  BY <1>1, <1>2 DEF Submitted, First, NextDecoded, LastFrame
<1>4. \A labels : "idle" \notin labels => ~SyncAt(labels)
  BY <1>1 DEF SyncAt
<1>5. CallsInOrder /\ SyncsInOrder
  BY <1>1 DEF CallsInOrder, SyncsInOrder, Threads
<1>6. PicturesInOrder /\ PendingInOrder
  BY <1>1, <1>2, <1>3 DEF PicturesInOrder, PendingInOrder
<1>7. QueuesInOrder
  <2>1. /\ ~SyncAt({"ready", "dqcap", "throw"}) /\ ~SyncAt({"throw"})
        /\ ~SyncAt({"ready", "dqcap"})
    BY <1>4
  <2> QED
    BY <1>1, <1>2, <2>1 DEF QueuesInOrder
<1>8. StatusInOrder /\ FramesInOrder
  BY <1>1, <1>3, DecoderAssumption DEF StatusInOrder, FramesInOrder
<1>9. DataInOrder
  <2>1. 0 \in Slots
    BY DecoderAssumption DEF Slots
  <2> QED
    BY <1>1, <1>3, <2>1 DEF DataInOrder
<1> QED
  BY <1>5, <1>6, <1>7, <1>8, <1>9 DEF InOrder

LEMMA SyncStepsInOrder ==
  ASSUME PlaysInOrder, TypeInv, InOrder, NEW t \in Threads, SyncSteps(t)
  PROVE  InOrder'
<1>1. ~DequeueFrameFails(t)
  BY FrameDequeues DEF DequeueFrameFails
<1> QED
  BY <1>1, SelectReturnsInOrder, DequeueInputInOrder, DequeueInputFailsInOrder,
     MarkReadyInOrder, DequeueFrameInOrder, ThrowBufferInOrder DEF SyncSteps, DequeueSteps

LEMMA NextInOrder == PlaysInOrder /\ TypeInv /\ InOrder /\ [Next]_vars => InOrder'
<1> SUFFICES ASSUME PlaysInOrder, TypeInv, InOrder, [Next]_vars
             PROVE  InOrder'
  OBVIOUS
<1>1. CASE Next
  BY <1>1, ClientCallsInOrder, DecodeStepsInOrder, SyncStepsInOrder,
     HardwareDecodeInOrder DEF Next
<1>2. CASE UNCHANGED vars
  <2>1. DataInOrder'
    BY <1>2, SameReference DEF vars, InOrder, DataInOrder, RightInput, RightHeader, Slot
  <2> QED
    BY <1>2, <2>1, SamePictures, SamePending, SameQueues, SameSyncs, SameStatus,
       SameFrames DEF vars, InOrder, CallsInOrder
<1> QED
  BY <1>1, <1>2

-----------------------------------------------------------------------------
(***************************************************************************)
(* For a client that plays a film, pictures go through the driver and the  *)
(* device in the order in which they were begun, whatever the number of    *)
(* surfaces and of input buffers, and however often syncs time out.        *)
(***************************************************************************)
THEOREM InOrderHolds == PlaysInOrder => (Spec => []InOrder)
<1> SUFFICES ASSUME PlaysInOrder
             PROVE  Spec => []InOrder
  OBVIOUS
<1>1. TypeInv /\ InOrder /\ [Next]_vars => InOrder'
  BY NextInOrder
<1> QED
  BY <1>1, InitInOrder, TypeCorrect, PTL DEF Spec, TypeInv

(* What follows from InOrder in each state.                                *)
LEMMA InOrderDecodes ==
  ASSUME TypeInv, InOrder
  PROVE  DecodesIntoItsSurface
<1>1. ASSUME NEW k \in 1 .. Waiting(out)
      PROVE  LET i == out.fifo[out.done + k]
                 s == cap.fifo[cap.done + k]
             IN  /\ input_buf_index[s] = i
                 /\ input[i] = picture[s]
                 /\ ctrl[i].param = picture[s] /\ ctrl[i].slice = picture[s]
                 /\ picture[s] > 1 =>
                      /\ ctrl[i].ref \in Surfaces \ {s}
                      /\ IF k = 1 THEN frame[ctrl[i].ref] = picture[s] - 1
                                  ELSE ctrl[i].ref = cap.fifo[cap.done + k - 1]
  <2> DEFINE p == NextDecoded + k - 1
             s == cap.fifo[cap.done + k]
             r == ctrl[Slot(p)].ref
  <2>1. /\ out.fifo[out.done + k] = Slot(p) /\ s \in Surfaces
        /\ picture[s] = p /\ p \in NextDecoded .. Submitted
    BY WaitingSideBySide
  <2>2. NextDecoded \in Nat /\ NextDecoded >= 1 /\ p > 0
    <3>1. NextDecoded \in Nat /\ NextDecoded >= First /\ First \in Nat /\ First >= 1
          /\ Submitted \in Nat
      BY Numbers
    <3> QED
      BY <2>1, <3>1
  <2>3. k # 1 => /\ cap.fifo[cap.done + k - 1] \in Surfaces
                 /\ picture[cap.fifo[cap.done + k - 1]] = p - 1
    <3> SUFFICES ASSUME k # 1
                 PROVE  /\ cap.fifo[cap.done + k - 1] \in Surfaces
                        /\ picture[cap.fifo[cap.done + k - 1]] = p - 1
      OBVIOUS
    <3>1. Waiting(out) \in Nat /\ cap.done \in Nat
      BY Numbers
    <3>2. k - 1 \in 1 .. Waiting(out)
      BY <3>1
    <3>3. /\ cap.fifo[cap.done + (k - 1)] \in Surfaces
          /\ picture[cap.fifo[cap.done + (k - 1)]] = NextDecoded + (k - 1) - 1
      BY <3>2, WaitingSideBySide
    <3>4. cap.done + (k - 1) = cap.done + k - 1 /\ NextDecoded + (k - 1) - 1 = p - 1
      BY <2>2, <3>1
    <3> QED
      BY <3>3, <3>4
  <2>4. k = 1 <=> p = NextDecoded
    BY <2>2
  <2> HIDE DEF p, s, r
  <2>5. input_buf_index[s] = Slot(p)
    BY <2>1, <2>2 DEF InOrder, PicturesInOrder
  <2>6. RightInput(p)
    BY <2>1 DEF InOrder, DataInOrder
  <2>7. p > 1 => /\ r \in Surfaces /\ r # s
                 /\ IF k = 1 THEN frame[r] = p - 1 ELSE picture[r] = p - 1
    BY <2>1, <2>4, <2>6 DEF RightInput, RightHeader, RightReference, r
  <2>8. p > 1 /\ k # 1 => r = cap.fifo[cap.done + k - 1]
    <3>1. p \in Nat
      BY <2>1, <2>2
    <3> QED
      BY <2>3, <2>7, <3>1 DEF InOrder, PicturesInOrder
  <2> QED
    BY <2>1, <2>5, <2>6, <2>7, <2>8 DEF RightInput, RightHeader, s, r
<1> QED
  BY <1>1 DEF DecodesIntoItsSurface

(* The first pending picture is decoded once its input buffer is dequeued. *)
LEMMA SyncedIsDecoded ==
  ASSUME TypeInv, InOrder, NEW t \in Threads, sync[t].at \in {"dqcap", "throw"}
  PROVE  frame[sync[t].surface] = picture[sync[t].surface]
<1>1. /\ sync[t].surface \in Surfaces /\ picture[sync[t].surface] = First
      /\ Len(out.fifo) = Cardinality(pending) - 1
  BY OneSync, SyncCounts
<1>2. /\ Len(out.fifo) \in Nat /\ out.done \in Nat /\ Submitted \in Nat
      /\ Waiting(out) = Len(out.fifo) - out.done /\ Cardinality(pending) \in Nat
  BY Numbers
<1>3. First < NextDecoded
  BY <1>1, <1>2 DEF First, NextDecoded
<1> QED
  BY <1>1, <1>3 DEF InOrder, FramesInOrder

(* A sync that has dequeued a frame has that of its own surface.           *)
LEMMA InOrderShows ==
  ASSUME TypeInv, InOrder
  PROVE  SyncShowsOwnPicture
BY SyncedIsDecoded DEF SyncShowsOwnPicture, InOrder, SyncsInOrder

(* A Ready surface has been decoded.                                       *)
LEMMA InOrderReady ==
  ASSUME TypeInv, InOrder
  PROVE  ReadyMeansDecoded
<1>1. ASSUME NEW s \in Surfaces, status[s] = "Ready"
      PROVE  frame[s] = picture[s]
  <2>1. s # current_render_target /\ (s \notin pending \/ Synced(s))
    BY <1>1 DEF InOrder, StatusInOrder
  <2>2. CASE Synced(s)
    BY <2>2, SyncedIsDecoded DEF Synced
  <2>3. CASE s \notin pending
    <3>1. /\ picture[s] \in Nat /\ First \in Nat /\ Submitted \in Nat /\ pictures \in Nat
          /\ NextDecoded \in Nat /\ NextDecoded >= First
      BY Numbers
    <3>2. picture[s] \notin First .. Submitted /\ picture[s] <= pictures
      BY <2>3 DEF InOrder, PendingInOrder, PicturesInOrder
    <3>3. picture[s] <= Submitted
      <4>1. CASE current_render_target = NoSurface
        BY <3>2, <4>1 DEF Submitted
      <4>2. CASE current_render_target # NoSurface
        <5>1. /\ current_render_target \in Surfaces
              /\ picture[current_render_target] = pictures /\ pictures > 0
              /\ Submitted = pictures - 1
          BY <4>2 DEF TypeInv, TypeOK, InOrder, PicturesInOrder, Submitted
        <5>2. picture[s] # pictures
          BY <2>1, <3>1, <5>1 DEF InOrder, PicturesInOrder
        <5> QED
          BY <3>1, <3>2, <5>1, <5>2
      <4> QED
        BY <4>1, <4>2
    <3>4. picture[s] < NextDecoded
      BY <3>1, <3>2, <3>3
    <3> QED
      BY <3>4 DEF InOrder, FramesInOrder
  <2> QED
    BY <2>1, <2>2, <2>3
<1> QED
  BY <1>1 DEF ReadyMeansDecoded

(* A surface is Rendering or Ready.                                        *)
LEMMA InOrderNotSkipped ==
  ASSUME InOrder
  PROVE  NoPictureSkipped
BY DEF InOrder, StatusInOrder, NoPictureSkipped

(***************************************************************************)
(* Each waiting input buffer is decoded, with the data, the header and the *)
(* reference of its own picture, into the surface that this picture was    *)
(* begun on.                                                               *)
(***************************************************************************)
THEOREM DecodesIntoItsSurfaceHolds == PlaysInOrder => (Spec => []DecodesIntoItsSurface)
BY InOrderHolds, TypeCorrect, InOrderDecodes, PTL DEF TypeInv

(***************************************************************************)
(* The frame that vaSyncSurface hands to the front-end is the buffer of    *)
(* the surface synced and shows its own picture.                           *)
(***************************************************************************)
THEOREM SyncShowsOwnPictureHolds == PlaysInOrder => (Spec => []SyncShowsOwnPicture)
BY InOrderHolds, TypeCorrect, InOrderShows, PTL DEF TypeInv

(***************************************************************************)
(* A surface that vaQuerySurfaceStatus reports Ready holds its picture.    *)
(***************************************************************************)
THEOREM ReadyMeansDecodedHolds == PlaysInOrder => (Spec => []ReadyMeansDecoded)
BY InOrderHolds, TypeCorrect, InOrderReady, PTL DEF TypeInv

(***************************************************************************)
(* No VIDIOC_QBUF of vaEndPicture fails: no picture is lost.               *)
(***************************************************************************)
THEOREM NoPictureSkippedHolds == PlaysInOrder => (Spec => []NoPictureSkipped)
BY InOrderHolds, InOrderNotSkipped, PTL

(***************************************************************************)
(* Neither vaCreateBuffer nor vaRenderPicture writes into an input buffer  *)
(* that the device is still to read.                                       *)
(***************************************************************************)
THEOREM BusyInputUntouchedHolds == PlaysInOrder => (Spec => BusyInputUntouched)
<1> SUFFICES ASSUME PlaysInOrder
             PROVE  Spec => BusyInputUntouched
  OBVIOUS
<1>1. TypeInv /\ InOrder /\ [Next]_vars
        => \A i \in WaitingBuffers(out) : input'[i] = input[i]
  <2> SUFFICES ASSUME TypeInv, InOrder, [Next]_vars, NEW i \in WaitingBuffers(out)
               PROVE  input'[i] = input[i]
    OBVIOUS
  <2>1. PICK p \in NextDecoded .. Submitted : i = Slot(p)
    <3>1. PICK j \in out.done + 1 .. Len(out.fifo) : i = out.fifo[j]
      BY DEF WaitingBuffers
    <3>2. /\ Len(out.fifo) \in Nat /\ out.done \in Nat
          /\ Waiting(out) = Len(out.fifo) - out.done
      BY Numbers
    <3>3. j - out.done \in 1 .. Waiting(out) /\ out.done + (j - out.done) = j
      BY <3>2
    <3>4. /\ out.fifo[j] = Slot(NextDecoded + (j - out.done) - 1)
          /\ NextDecoded + (j - out.done) - 1 \in NextDecoded .. Submitted
      BY <3>3, WaitingSideBySide
    <3> QED
      BY <3>1, <3>4
  <2>2. i \in Slots
    <3>1. p \in Nat \ {0}
      BY Numbers
    <3> QED
      BY <2>1, <3>1, SlotType
  <2>3. CASE CreateSliceBuffer
    BY <2>1, <2>2, <2>3, MappedSlotFree DEF CreateSliceBuffer, TypeInv, TypeOK
  <2>4. ASSUME NEW type \in BufferTypes, RenderPicture(type)
        PROVE  input'[i] = input[i]
    <3>1. /\ current_render_target # NoSurface
          /\ input_buf_index[current_render_target] = Slot(pictures)
          /\ i # Slot(pictures)
      BY <2>1, <2>4, RenderedSlotFree, WaitingAreHeld DEF RenderPicture
    <3> QED
      BY <2>2, <2>4, <3>1 DEF RenderPicture, RenderSliceData, RenderMPEG2SliceData,
         RenderMPEG4SliceData, CopySliceData, RenderPictureParameter,
         RenderSliceParameter, TypeInv, TypeOK
  <2>5. ASSUME NEW s \in Surfaces, BeginPicture(s) \/ BeginPictureSyncs(s) \/ SyncSurface(s)
        PROVE  input' = input
    BY <2>5 DEF BeginPicture, StartRendering, BeginPictureSyncs, SyncSurface, deviceVars
  <2>6. EndPicture \/ DecodeSteps => input' = input
    BY DEF EndPicture, DecodeSteps, BeginPictureResumes, StartRendering, QueueFrame,
       QueueFrameFails, QueueInput, QueueInputFails, UnqueueFrame, deviceVars
  <2>7. ASSUME NEW t \in Threads, SyncSteps(t)
        PROVE  input' = input
    BY <2>7 DEF SyncSteps, DequeueSteps, SelectReturns, DequeueInput, DequeueInputFails,
       MarkReady, DequeueFrame, DequeueFrameFails, ThrowBuffer, deviceVars
  <2>8. HardwareDecode \/ UNCHANGED vars => input' = input
    BY DEF HardwareDecode, vars
  <2> QED
    BY <2>3, <2>4, <2>5, <2>6, <2>7, <2>8 DEF Next, ClientCalls
<1> QED
  BY <1>1, InOrderHolds, TypeCorrect, PTL DEF Spec, BusyInputUntouched, TypeInv
=============================================================================
