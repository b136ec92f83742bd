--------------------------- MODULE PipelineProofs ---------------------------
(***************************************************************************)
(* Proofs about Pipeline, for every number of surfaces, input buffers and  *)
(* pictures.                                                               *)
(***************************************************************************)
EXTENDS PipelineOrder, DecoderProofs

-----------------------------------------------------------------------------
(* A step of the pipeline is one of the decoder, or none of its own.       *)
LEMMA PipeNextDecoder == [PipeNext]_pipeVars => [Next]_vars
BY DEF PipeNext, pipeVars, PipeCalls, PipeDecodeSteps, PipeSyncSteps, PipeDequeueSteps,
   Throw, ThrowSteps, ThrowReturns, PipeDecode, PipeConvert, Next, SyncSteps

(***************************************************************************)
(* The pipeline implements the decoding path: putting fe_throw_buffer into *)
(* the last step of vaSyncSurface adds no behaviour to it.                 *)
(***************************************************************************)
THEOREM ImplementsDecoder == PipeSpec => Spec
<1>1. PipeInit => Init
  BY DEF PipeInit
<1> QED
  BY <1>1, PipeNextDecoder, PTL DEF PipeSpec, Spec

(***************************************************************************)
(* So what is proved of the decoding path holds of the pipeline.  With a   *)
(* client that plays a film: each waiting input buffer has its header, its *)
(* reference and its data, and a capture buffer of its own surface.        *)
(***************************************************************************)
THEOREM PipeDecodesIntoItsSurface ==
  PlaysInOrder => (PipeSpec => []DecodesIntoItsSurface)
BY ImplementsDecoder, DecodesIntoItsSurfaceHolds, PTL

(***************************************************************************)
(* The frame that a sync hands to the front-end is the picture last begun  *)
(* on its surface.                                                         *)
(***************************************************************************)
THEOREM PipeSyncShowsOwnPicture ==
  PlaysInOrder => (PipeSpec => []SyncShowsOwnPicture)
BY ImplementsDecoder, SyncShowsOwnPictureHolds, PTL

(***************************************************************************)
(* No picture is lost to a VIDIOC_QBUF of vaEndPicture that fails.         *)
(***************************************************************************)
THEOREM PipeNoPictureSkipped ==
  PlaysInOrder => (PipeSpec => []NoPictureSkipped)
BY ImplementsDecoder, NoPictureSkippedHolds, PTL

(* The one buffer of a queue of the front-end.                             *)
LEMMA OneBuffer ==
  /\ FE!CanEnqueue(EmptyQueue, FE!Buffer)
  /\ FE!Enqueue(EmptyQueue, FE!Buffer) = Given(0)
  /\ FE!Finish(Given(0)) = Given(1)
  /\ FE!Dequeue(Given(1)) = EmptyQueue
  /\ FE!CanDequeue(Given(1))
  /\ FE!Waiting(EmptyQueue) = 0 /\ FE!Waiting(Given(0)) = 1 /\ FE!Waiting(Given(1)) = 0
  /\ FE!Held(EmptyQueue) = {}
BY DEF FE!CanEnqueue, FE!Enqueue, FE!Finish, FE!Dequeue, FE!CanDequeue, FE!Waiting,
   FE!Held, FE!Range, EmptyQueue, Given, FE!Buffer

-----------------------------------------------------------------------------
(* The numbers of the decoding path when vaBeginPicture marks its surface. *)
LEMMA StartRenderingNumbers ==
  ASSUME TypeInv, NEW s \in Surfaces, StartRendering(s),
         current_render_target = NoSurface, s \notin pending
  PROVE  First' = First /\ Submitted' = Submitted
<1>1. /\ current_render_target' = s /\ pictures' = pictures + 1
      /\ pending' = pending \ {s} /\ pictures \in Nat /\ NoSurface \notin Surfaces
  BY DecoderAssumption DEF StartRendering, TypeInv, TypeOK
<1>2. pending' = pending
  BY <1>1
<1>3. Submitted' = Submitted
  BY <1>1 DEF Submitted
<1> QED
  BY <1>2, <1>3 DEF First

(* The calls of the client submit nothing yet: the steps inside            *)
(* vaEndPicture do.                                                        *)
LEMMA ClientCallsNumbers ==
  ASSUME PlaysInOrder, TypeInv, InOrder, ClientCalls
  PROVE  First' = First /\ Submitted' = Submitted
<1>1. ASSUME NEW s \in Surfaces, BeginPicture(s)
      PROVE  First' = First /\ Submitted' = Submitted
  <2>1. decode_pc = "idle" /\ MayBegin(s) /\ status[s] # "Rendering" /\ StartRendering(s)
    BY <1>1 DEF BeginPicture
  <2>2. current_render_target = NoSurface /\ s \notin pending
    BY <2>1, BeginGuards
  <2> QED
    BY <2>1, <2>2, StartRenderingNumbers
<1>2. ~(\E s \in Surfaces : BeginPicture(s))
        => UNCHANGED <<pending, pictures, current_render_target>>
  BY DEF ClientCalls, CreateSliceBuffer, BeginPictureSyncs, SyncSurface, RenderPicture,
     EndPicture, contextVars, clientVars
<1>3. UNCHANGED <<pending, pictures, current_render_target>>
        => First' = First /\ Submitted' = Submitted
  BY DEF First, Submitted
<1> QED
  BY <1>1, <1>2, <1>3

(* QueueInput submits a picture, and it is pending.                        *)
LEMMA DecodeStepsNumbers ==
  ASSUME PlaysInOrder, TypeInv, InOrder, DecodeSteps
  PROVE  First' = First /\ Submitted' \in {Submitted, Submitted + 1}
<1>0. CallsInOrder /\ PicturesInOrder /\ PendingInOrder
  BY DEF InOrder
<1>1. CASE BeginPictureResumes
  <2>1. /\ decode_pc = "syncing" /\ sync["decode"].at = "idle"
        /\ StartRendering(sync["decode"].surface)
    BY <1>1 DEF BeginPictureResumes
  <2>2. sync["decode"].surface \in Surfaces
    BY <2>1 DEF TypeInv, CallInv
  <2>3. current_render_target = NoSurface /\ sync["decode"].surface \notin pending
    BY <1>0, <2>1 DEF CallsInOrder
  <2> QED
    BY <2>1, <2>2, <2>3, StartRenderingNumbers
<1>2. CASE QueueInput
  <2>1. /\ current_render_target' = NoSurface /\ pictures' = pictures
        /\ pending' = pending \cup {current_render_target}
        /\ current_render_target \in Surfaces /\ current_render_target # NoSurface
    BY <1>2, DecoderAssumption DEF QueueInput, TypeInv, CallInv
  <2>2. Submitted = pictures - 1 /\ Submitted' = pictures /\ pictures \in Nat
    BY <2>1 DEF Submitted, TypeInv, TypeOK
  <2>3. picture[current_render_target] = pictures
    BY <1>0, <2>1 DEF PicturesInOrder
  <2>4. First \in Nat /\ Cardinality(pending) \in Nat
    BY Numbers
  <2>5. pictures \notin First .. Submitted
    BY <2>2, <2>4
  <2>6. current_render_target \notin pending
    BY <1>0, <2>1, <2>3, <2>5 DEF PendingInOrder
  <2>7. Cardinality(pending') = Cardinality(pending) + 1
    BY <1>0, <2>1, <2>6, FS_AddElement DEF PendingInOrder
  <2>8. /\ First' = pictures - (Cardinality(pending) + 1) + 1
        /\ First = pictures - 1 - Cardinality(pending) + 1
    BY <2>2, <2>7 DEF First
  <2> QED
    BY <2>2, <2>4, <2>8
<1>3. CASE QueueFrame \/ QueueFrameFails \/ QueueInputFails \/ UnqueueFrame
  <2>1. UNCHANGED <<pending, pictures, current_render_target>>
    BY <1>3 DEF QueueFrame, QueueFrameFails, QueueInputFails, UnqueueFrame, contextVars,
       clientVars
  <2> QED
    BY <2>1 DEF First, Submitted
<1> QED
  BY <1>1, <1>2, <1>3 DEF DecodeSteps

(* A step of the decoder alone leaves the oldest pending picture where it  *)
(* is, and a frame that is thrown to its sync.                             *)
LEMMA DecoderAlone ==
  ASSUME PlaysInOrder, TypeInv, InOrder,
         \/ ClientCalls \/ DecodeSteps \/ HardwareDecode
         \/ \E t \in Threads : DequeueSteps(t)
  PROVE  /\ First' = First /\ Submitted' \in {Submitted, Submitted + 1}
         /\ \A t \in Threads : sync[t].at = "throw" => sync'[t] = sync[t]
         /\ \A t \in Threads : sync'[t].at = "throw" => sync[t].at # "idle"
<1>1. CASE ClientCalls
  <2>1. sync' = sync
        \/ \E t \in Threads, s \in Surfaces : sync[t].at = "idle" /\ EnterSync(t, s)
    <3>1. ASSUME NEW s \in Surfaces, BeginPictureSyncs(s)
          PROVE  sync["decode"].at = "idle" /\ EnterSync("decode", s)
      BY <3>1, BeginGuards DEF BeginPictureSyncs
    <3>2. ASSUME NEW s \in Surfaces, SyncSurface(s)
          PROVE  sync["display"].at = "idle" /\ EnterSync("display", s)
      BY <3>2 DEF SyncSurface
    <3>3. (\A s \in Surfaces : ~BeginPictureSyncs(s) /\ ~SyncSurface(s)) => sync' = sync
      BY <1>1 DEF ClientCalls, CreateSliceBuffer, BeginPicture, StartRendering,
         RenderPicture, EndPicture
    <3> QED
      BY <3>1, <3>2, <3>3 DEF Threads
  <2>2. \A t \in Threads : /\ sync[t].at = "throw" => sync'[t] = sync[t]
                           /\ sync'[t].at = "throw" => sync[t].at # "idle"
    <3>1. ASSUME NEW u \in Threads, NEW s \in Surfaces,
                 sync[u].at = "idle", EnterSync(u, s)
          PROVE  /\ sync'[u].at = "select"
                 /\ \A t \in Threads \ {u} : sync'[t] = sync[t]
      BY <3>1 DEF EnterSync, TypeInv, TypeOK
    <3> QED
      BY <2>1, <3>1
  <2> QED
    BY <1>1, <2>2, ClientCallsNumbers
<1>2. CASE DecodeSteps
  <2>1. sync' = sync
    BY <1>2 DEF DecodeSteps, BeginPictureResumes, StartRendering, QueueFrame,
       QueueFrameFails, QueueInput, QueueInputFails, UnqueueFrame
  <2> QED
    BY <1>2, <2>1, DecodeStepsNumbers
<1>3. CASE HardwareDecode
  BY <1>3 DEF HardwareDecode, contextVars, clientVars, First, Submitted
<1>4. ASSUME NEW t \in Threads, DequeueSteps(t)
      PROVE  /\ First' = First /\ Submitted' = Submitted
             /\ sync[t].at \notin {"throw", "idle"}
             /\ \A u \in Threads \ {t} : sync'[u] = sync[u]
  <2>1. UNCHANGED <<pending, pictures, current_render_target>>
    BY <1>4 DEF DequeueSteps, SelectReturns, DequeueInput, DequeueInputFails, MarkReady,
       DequeueFrame, DequeueFrameFails, contextVars, clientVars
  <2>2. /\ sync[t].at \notin {"throw", "idle"}
        /\ \A u \in Threads \ {t} : sync'[u] = sync[u]
    BY <1>4 DEF DequeueSteps, SelectReturns, DequeueInput, DequeueInputFails, MarkReady,
       DequeueFrame, DequeueFrameFails, TypeInv, TypeOK
  <2> QED
    BY <2>1, <2>2 DEF First, Submitted
<1> QED
  BY <1>1, <1>2, <1>3, <1>4

-----------------------------------------------------------------------------
LEMMA InitShownInOrder == PipeInit => ShownInOrder
<1> SUFFICES ASSUME PipeInit
             PROVE  ShownInOrder
  OBVIOUS
<1>1. /\ current_render_target = NoSurface /\ pictures = 0 /\ pending = {}
      /\ \A t \in Threads : sync[t].at = "idle"
  BY DEF PipeInit, Init, ContextCreated
<1>2. /\ fe_out = EmptyQueue /\ fe_cap = EmptyQueue /\ screen = 0
      /\ call = [t \in Threads |-> [at |-> "idle", frame |-> NoSurface]]
  BY DEF PipeInit, FE!Init, FE!EmptyQueue, EmptyQueue
<1>3. First = 1
  BY <1>1, FS_EmptySet DEF First, Submitted
<1> QED
  BY <1>1, <1>2, <1>3 DEF ShownInOrder, Free

(* At most one sync throws, and the calls of the other threads are idle.   *)
LEMMA OneThrow ==
  ASSUME TypeInv, InOrder, ShownInOrder, NEW t \in Threads, sync[t].at = "throw"
  PROVE  /\ \A u \in Threads \ {t} : sync[u].at = "idle" /\ call[u].at = "idle"
         /\ SyncAt({"throw"})
         /\ Throwing(t)
<1>1. \A u \in Threads \ {t} : sync[u].at = "idle"
  BY OneSync
<1> QED
  BY <1>1 DEF ShownInOrder, SyncAt

(* The decoder goes on by itself: the front-end has nothing to do with it. *)
LEMMA DecoderAloneShownInOrder ==
  ASSUME PlaysInOrder, TypeInv, InOrder, ShownInOrder,
         \/ ClientCalls \/ DecodeSteps \/ HardwareDecode
         \/ \E t \in Threads : DequeueSteps(t),
         UNCHANGED <<feVars, screen>>
  PROVE  ShownInOrder'
<1>1. /\ First' = First
      /\ \A t \in Threads : sync[t].at = "throw" => sync'[t] = sync[t]
      /\ \A t \in Threads : sync'[t].at = "throw" => sync[t].at # "idle"
  BY DecoderAlone
<1>2. UNCHANGED <<fe_out, fe_cap, source, call, screen>>
  BY DEF feVars
<1>3. ~SyncAt({"throw"})' => ~SyncAt({"throw"})
  BY <1>1 DEF SyncAt
<1>4. Free => Free'
  BY <1>1, <1>2 DEF Free
<1>5. ASSUME NEW t \in Threads
      PROVE  IF sync'[t].at = "throw" THEN Throwing(t)' ELSE call'[t].at = "idle"
  <2>1. CASE sync[t].at = "throw"
    <3>1. sync'[t] = sync[t] /\ Throwing(t)
      BY <1>1, <2>1 DEF ShownInOrder
    <3> QED
      BY <1>1, <1>2, <1>4, <2>1, <3>1 DEF Throwing
  <2>2. CASE sync[t].at # "throw" /\ sync'[t].at = "throw"
    <3>1. \A u \in Threads \ {t} : sync[u].at = "idle"
      BY <1>1, <2>2, OneSync
    <3>2. ~SyncAt({"throw"}) /\ call[t].at = "idle"
      BY <2>2, <3>1 DEF SyncAt, ShownInOrder
    <3>3. Free
      BY <3>2 DEF ShownInOrder
    <3> QED
      BY <1>2, <1>4, <2>2, <3>2, <3>3 DEF Throwing
  <2>3. CASE sync[t].at # "throw" /\ sync'[t].at # "throw"
    BY <1>2, <2>3 DEF ShownInOrder
  <2> QED
    BY <2>1, <2>2, <2>3
<1> QED
  BY <1>2, <1>3, <1>4, <1>5 DEF ShownInOrder

(* Where fe_throw_buffer is.                                               *)
Calls == [Threads -> [at : {"idle", "qout", "dropout", "qcap", "dropcap", "dqout",
                            "dqcap"},
                      frame : Surfaces \cup {NoSurface}]]

(* A step of fe_throw_buffer within the sync that called it: it is enough  *)
(* to say where the call is afterwards.                                    *)
LEMMA ThrowMoves ==
  ASSUME TypeInv, InOrder, ShownInOrder, NEW t \in Threads, sync[t].at = "throw",
         UNCHANGED vars,
         call' \in Calls,
         \A u \in Threads \ {t} : call'[u] = call[u],
         Throwing(t)'
  PROVE  ShownInOrder'
<1>1. \A u \in Threads \ {t} : sync[u].at = "idle" /\ call[u].at = "idle"
  BY OneThrow
<1>2. sync' = sync
  BY DEF vars
<1>3. SyncAt({"throw"})'
  BY <1>2 DEF SyncAt
<1> QED
  BY <1>1, <1>2, <1>3 DEF ShownInOrder, Calls

LEMMA ThrowShownInOrder ==
  ASSUME TypeInv, InOrder, ShownInOrder, NEW t \in Threads, Throw(t)
  PROVE  ShownInOrder'
<1>1. /\ sync[t].at = "throw" /\ call[t].at = "idle"
      /\ call' = [call EXCEPT ![t] = [at |-> "qout", frame |-> sync[t].buf]]
      /\ UNCHANGED <<fe_out, fe_cap, source, vars, screen>>
  BY DEF Throw, FE!Throw
<1>2. Free /\ sync[t].buf \in Surfaces \cup {NoSurface}
  BY <1>1, OneThrow DEF Throwing, TypeInv, TypeOK
<1>3. First' = First /\ sync' = sync
  BY <1>1 DEF vars, First, Submitted
<1>4. Throwing(t)'
  BY <1>1, <1>2, <1>3 DEF Throwing, Free, ShownInOrder
<1>5. call' \in Calls /\ \A u \in Threads \ {t} : call'[u] = call[u]
  BY <1>1, <1>2 DEF ShownInOrder, Calls
<1> QED
  BY <1>1, <1>4, <1>5, ThrowMoves

LEMMA ThrowStepsShownInOrder ==
  ASSUME Prompt, TypeInv, InOrder, ShownInOrder, NEW t \in Threads, ThrowSteps(t)
  PROVE  ShownInOrder'
<1>1. FE!InnerSteps(t) /\ UNCHANGED <<vars, screen>>
  BY DEF ThrowSteps
<1>2. First' = First /\ sync' = sync
  BY <1>1 DEF vars, First, Submitted
<1>3. call[t].at \in {"qout", "qcap", "dqout"}
  BY <1>1 DEF FE!InnerSteps, FE!QueueOut, FE!QueueOutFails, FE!QueueCap, FE!QueueCapFails,
     FE!DequeueOut
<1>4. sync[t].at = "throw" /\ Throwing(t)
  BY <1>3 DEF ShownInOrder
<1>5. call \in Calls
  BY DEF ShownInOrder, Calls
<1>6. ASSUME NEW label \in {"qout", "qcap", "dqout", "dqcap"},
             call' = [call EXCEPT ![t].at = label]
      PROVE  /\ call' \in Calls
             /\ call'[t].at = label /\ call'[t].frame = call[t].frame
             /\ \A u \in Threads \ {t} : call'[u] = call[u]
  BY <1>5, <1>6 DEF Calls
<1>7. CASE call[t].at = "qout"
  <2>1. Free /\ call[t].frame = sync[t].buf /\ FE!CanEnqueue(fe_out, FE!Buffer)
    BY <1>4, <1>7, OneBuffer DEF Throwing, Free
  <2>2. FE!QueueOut(t)
    BY <1>1, <1>7, <2>1 DEF FE!InnerSteps, FE!QueueOutFails, FE!QueueCap,
       FE!QueueCapFails, FE!DequeueOut
  <2>3. /\ fe_out' = Given(0) /\ fe_cap' = fe_cap /\ source' = call[t].frame
        /\ call' = [call EXCEPT ![t].at = "qcap"]
    BY <2>1, <2>2, OneBuffer DEF FE!QueueOut, FE!Goto, Free
  <2>4. Throwing(t)'
    BY <1>1, <1>2, <1>6, <2>1, <2>3 DEF Throwing, Free
  <2> QED
    BY <1>1, <1>4, <1>6, <2>3, <2>4, ThrowMoves
<1>8. CASE call[t].at = "qcap"
  <2>1. /\ fe_out = Given(0) /\ fe_cap = EmptyQueue /\ source = sync[t].buf
        /\ screen = First - 1 /\ FE!CanEnqueue(fe_cap, FE!Buffer)
    BY <1>4, <1>8, OneBuffer DEF Throwing
  <2>2. FE!QueueCap(t)
    BY <1>1, <1>8, <2>1 DEF FE!InnerSteps, FE!QueueOut, FE!QueueOutFails,
       FE!QueueCapFails, FE!DequeueOut
  <2>3. /\ fe_cap' = Given(0) /\ fe_out' = fe_out /\ source' = source
        /\ call' = [call EXCEPT ![t].at = "dqout"]
    BY <2>1, <2>2, OneBuffer DEF FE!QueueCap, FE!Goto
  <2>4. Throwing(t)'
    BY <1>1, <1>2, <1>6, <2>1, <2>3 DEF Throwing
  <2> QED
    BY <1>1, <1>4, <1>6, <2>3, <2>4, ThrowMoves
<1>9. CASE call[t].at = "dqout"
  <2>1. FE!DequeueOut(t)
    BY <1>1, <1>9 DEF FE!InnerSteps, FE!QueueOut, FE!QueueOutFails, FE!QueueCap,
       FE!QueueCapFails
  <2>2. ~(FE!Waiting(fe_out) > 0 /\ FE!Waiting(fe_cap) > 0)
    BY <2>1 DEF FE!DequeueOut, FE!CanConvert
  <2>3. fe_out = Given(1) /\ fe_cap = Given(1) /\ screen = First
    BY <1>4, <1>9, <2>2, OneBuffer DEF Throwing
  <2>4. /\ fe_out' = EmptyQueue /\ fe_cap' = fe_cap /\ source' = source
        /\ call' = [call EXCEPT ![t].at = "dqcap"]
    BY <2>1, <2>3, OneBuffer DEF FE!DequeueOut, FE!Goto
  <2>5. Throwing(t)'
    BY <1>1, <1>2, <1>6, <2>3, <2>4 DEF Throwing
  <2> QED
    BY <1>1, <1>4, <1>6, <2>4, <2>5, ThrowMoves
<1> QED
  BY <1>3, <1>7, <1>8, <1>9

(* fe_throw_buffer returns with the frame converted, and the sync with it. *)
LEMMA ThrowReturnsShownInOrder ==
  ASSUME PlaysInOrder, TypeInv, InOrder, ShownInOrder, NEW t \in Threads, ThrowReturns(t)
  PROVE  ShownInOrder'
<1>1. /\ FE!Returns(t) /\ screen' = screen
      /\ sync[t].at = "throw" /\ sync' = [sync EXCEPT ![t].at = "idle"]
      /\ pending' = pending \ {sync[t].surface}
      /\ UNCHANGED <<pictures, current_render_target>>
  BY DEF ThrowReturns, ThrowBuffer, contextVars
<1>2. Throwing(t) /\ \A u \in Threads \ {t} : sync[u].at = "idle" /\ call[u].at = "idle"
  BY <1>1, OneThrow
<1>3. call[t].at \in {"dropout", "dropcap", "dqcap"}
  BY <1>1 DEF FE!Returns, FE!DropOut, FE!DropCap, FE!DequeueCap
<1>4. /\ call[t].at = "dqcap"
      /\ fe_out = EmptyQueue /\ fe_cap = Given(1) /\ screen = First
  BY <1>2, <1>3 DEF Throwing
<1>5. FE!DequeueCap(t)
  BY <1>1, <1>4 DEF FE!Returns, FE!DropOut, FE!DropCap
<1>6. /\ fe_out' = EmptyQueue /\ fe_cap' = EmptyQueue
      /\ call' = [call EXCEPT ![t].at = "idle"]
  BY <1>4, <1>5, OneBuffer DEF FE!DequeueCap, FE!Goto
<1>7. First' = First + 1
  <2>1. sync[t].surface \in pending
    BY <1>1, OneSync
  <2>2. Cardinality(pending') = Cardinality(pending) - 1
    BY <1>1, <2>1, FS_RemoveElement DEF InOrder, PendingInOrder
  <2>3. Submitted' = Submitted
    BY <1>1 DEF Submitted
  <2>4. /\ First' = Submitted - (Cardinality(pending) - 1) + 1
        /\ First = Submitted - Cardinality(pending) + 1
    BY <2>2, <2>3 DEF First
  <2>5. Submitted \in Nat /\ Cardinality(pending) \in Nat
    BY Numbers
  <2> QED
    BY <2>4, <2>5
<1>8. screen' = First' - 1
  BY <1>1, <1>4, <1>7, Numbers
<1>9. \A u \in Threads : sync'[u].at = "idle"
  BY <1>1, <1>2 DEF TypeInv, TypeOK
<1>10. call' \in Calls /\ \A u \in Threads : call'[u].at = "idle"
  BY <1>2, <1>6 DEF ShownInOrder, Calls
<1> QED
  BY <1>6, <1>8, <1>9, <1>10 DEF ShownInOrder, Free, Calls

(* The device converts the frame of the sync, which holds the oldest       *)
(* pending picture.                                                        *)
LEMMA PipeConvertShows ==
  ASSUME TypeInv, InOrder, ShownInOrder, PipeConvert
  PROVE  \E t \in Threads :
           /\ sync[t].at = "throw" /\ call[t].at = "dqout"
           /\ source = sync[t].buf
           /\ fe_out' = Given(1) /\ fe_cap' = Given(1)
           /\ UNCHANGED <<vars, source, call>>
           /\ screen = First - 1 /\ screen' = First
<1>1. /\ FE!Waiting(fe_out) > 0 /\ FE!Waiting(fe_cap) > 0
      /\ fe_out' = FE!Finish(fe_out) /\ fe_cap' = FE!Finish(fe_cap)
      /\ screen' = frame[source]
      /\ UNCHANGED <<vars, source, call>>
  BY DEF PipeConvert, FE!HardwareConvert, FE!CanConvert
<1>2. ~Free
  BY <1>1, OneBuffer DEF Free
<1>3. PICK t \in Threads : sync[t].at = "throw" /\ Throwing(t)
  BY <1>2 DEF ShownInOrder, SyncAt
<1>4. /\ call[t].at = "dqout" /\ source = sync[t].buf
      /\ fe_out = Given(0) /\ fe_cap = Given(0) /\ screen = First - 1
  BY <1>1, <1>2, <1>3, OneBuffer DEF Throwing
<1>5. fe_out' = Given(1) /\ fe_cap' = Given(1)
  BY <1>1, <1>4, OneBuffer
<1>6. frame[source] = First
  <2>1. /\ sync[t].buf = sync[t].surface
        /\ frame[sync[t].buf] = picture[sync[t].surface]
    BY <1>3, InOrderShows DEF SyncShowsOwnPicture
  <2>2. picture[sync[t].surface] = First
    BY <1>3, OneSync
  <2> QED
    BY <1>4, <2>1, <2>2
<1> QED
  BY <1>1, <1>3, <1>4, <1>5, <1>6

LEMMA PipeConvertShownInOrder ==
  ASSUME TypeInv, InOrder, ShownInOrder, PipeConvert
  PROVE  ShownInOrder'
<1>1. PICK t \in Threads :
           /\ sync[t].at = "throw" /\ call[t].at = "dqout"
           /\ source = sync[t].buf
           /\ fe_out' = Given(1) /\ fe_cap' = Given(1)
           /\ UNCHANGED <<vars, source, call>>
           /\ screen = First - 1 /\ screen' = First
  BY PipeConvertShows
<1>2. First' = First /\ sync' = sync
  BY <1>1 DEF vars, First, Submitted
<1>3. Throwing(t)'
  BY <1>1, <1>2 DEF Throwing
<1>4. call' \in Calls
  BY <1>1 DEF ShownInOrder, Calls
<1> QED
  BY <1>1, <1>3, <1>4, ThrowMoves

LEMMA NextShownInOrder ==
  PlaysInOrder /\ Prompt /\ TypeInv /\ InOrder /\ ShownInOrder /\ [PipeNext]_pipeVars
    => ShownInOrder'
<1> SUFFICES ASSUME PlaysInOrder, Prompt, TypeInv, InOrder, ShownInOrder,
                    [PipeNext]_pipeVars
             PROVE  ShownInOrder'
  OBVIOUS
<1>1. CASE PipeCalls \/ PipeDecodeSteps \/ PipeDecode
  BY <1>1, DecoderAloneShownInOrder DEF PipeCalls, PipeDecodeSteps, PipeDecode
<1>2. ASSUME NEW t \in Threads, PipeDequeueSteps(t)
      PROVE  ShownInOrder'
  BY <1>2, DecoderAloneShownInOrder DEF PipeDequeueSteps
<1>3. ASSUME NEW t \in Threads, Throw(t)
      PROVE  ShownInOrder'
  BY <1>3, ThrowShownInOrder
<1>4. ASSUME NEW t \in Threads, ThrowSteps(t)
      PROVE  ShownInOrder'
  BY <1>4, ThrowStepsShownInOrder
<1>5. ASSUME NEW t \in Threads, ThrowReturns(t)
      PROVE  ShownInOrder'
  BY <1>5, ThrowReturnsShownInOrder
<1>6. CASE PipeConvert
  BY <1>6, PipeConvertShownInOrder
<1>7. CASE UNCHANGED pipeVars
  <2>1. UNCHANGED <<sync, current_render_target, pictures, pending, fe_out, fe_cap,
                    source, call, screen>>
    BY <1>7 DEF pipeVars, vars, feVars
  <2> QED
    BY <2>1 DEF ShownInOrder, Throwing, Free, First, Submitted, SyncAt
<1> QED
  BY <1>1, <1>2, <1>3, <1>4, <1>5, <1>6, <1>7 DEF PipeNext, PipeSyncSteps

(***************************************************************************)
(* Provided that the front-end has converted before fe_throw_buffer        *)
(* dequeues, it works for one sync at a time and gives its buffers back    *)
(* before that sync returns.                                               *)
(***************************************************************************)
THEOREM ShownInOrderHolds == PlaysInOrder /\ Prompt => (PipeSpec => []ShownInOrder)
<1> SUFFICES ASSUME PlaysInOrder, Prompt
             PROVE  PipeSpec => []ShownInOrder
  OBVIOUS
<1>1. PipeInit => Init /\ ShownInOrder
  BY InitShownInOrder DEF PipeInit
<1>2. Spec => [](TypeInv /\ InOrder)
  BY TypeCorrect, InOrderHolds, PTL DEF TypeInv
<1>3. TypeInv /\ InOrder /\ ShownInOrder /\ [PipeNext]_pipeVars => ShownInOrder'
  BY NextShownInOrder
<1> QED
  BY <1>1, <1>2, <1>3, ImplementsDecoder, PTL DEF PipeSpec

(***************************************************************************)
(* When no sync is in progress, the front-end has given its buffers back.  *)
(***************************************************************************)
THEOREM ReleasedOnReturnHolds ==
  PlaysInOrder /\ Prompt => (PipeSpec => []ReleasedOnReturn)
<1>1. ShownInOrder => ReleasedOnReturn
  BY OneBuffer DEF ShownInOrder, Free, ReleasedOnReturn, SyncAt
<1> QED
  BY <1>1, ShownInOrderHolds, PTL

(* The frame that the front-end reads is one that cedrus does not hold.    *)
LEMMA FrameIsLeftAlone ==
  ASSUME TypeInv, InOrder, ShownInOrder
  PROVE  FrameLeftAlone
<1> SUFFICES ASSUME FE!Held(fe_out) # {}
             PROVE  source \notin Held(cap)
  BY DEF FrameLeftAlone
<1>0. QueuesInOrder /\ SyncsInOrder /\ cap \in Queues(Surfaces)
  BY DEF InOrder, TypeInv, TypeOK
<1>1. ~Free /\ fe_out # EmptyQueue
  BY OneBuffer DEF Free
<1>2. PICK t \in Threads : sync[t].at = "throw" /\ Throwing(t)
  BY <1>1 DEF ShownInOrder, SyncAt
<1>3. source = sync[t].buf
  BY <1>1, <1>2 DEF Throwing
<1>4. source = sync[t].surface /\ picture[sync[t].surface] = First
  BY <1>0, <1>2, <1>3 DEF SyncsInOrder
<1>5. SyncAt({"throw"})
  BY <1>2 DEF SyncAt
<1>6. Len(cap.fifo) = Cardinality(pending) - 1 + (IF decode_pc = "qout" THEN 1 ELSE 0)
  BY <1>0, <1>5 DEF QueuesInOrder
<1>7. ASSUME NEW k \in 1 .. Len(cap.fifo)
      PROVE  picture[cap.fifo[k]] > First
  <2>1. picture[cap.fifo[k]] = LastFrame - Len(cap.fifo) + k
    BY <1>0 DEF QueuesInOrder
  <2>2. /\ Submitted \in Nat /\ Cardinality(pending) \in Nat /\ Len(cap.fifo) \in Nat
        /\ pictures \in Nat
    BY Numbers
  <2>3. First = Submitted - Cardinality(pending) + 1
    BY DEF First
  <2>4. CASE decode_pc = "qout"
    <3>1. LastFrame = Submitted + 1
      BY <2>2, <2>4, DecoderAssumption DEF LastFrame, Submitted, TypeInv, CallInv
    <3> QED
      BY <1>6, <2>1, <2>2, <2>3, <2>4, <3>1
  <2>5. CASE decode_pc # "qout"
    <3>1. LastFrame = Submitted
      BY <2>5 DEF LastFrame
    <3> QED
      BY <1>6, <2>1, <2>2, <2>3, <2>5, <3>1
  <2> QED
    BY <2>4, <2>5
<1>8. \A b \in Held(cap) : \E k \in 1 .. Len(cap.fifo) : b = cap.fifo[k]
  BY <1>0 DEF Held, Range, Queues
<1>9. First \in Nat
  BY Numbers
<1> QED
  BY <1>4, <1>7, <1>8, <1>9

(***************************************************************************)
(* The display engine never reads a frame that cedrus may write.           *)
(***************************************************************************)
THEOREM FrameLeftAloneHolds ==
  PlaysInOrder /\ Prompt => (PipeSpec => []FrameLeftAlone)
<1> SUFFICES ASSUME PlaysInOrder, Prompt
             PROVE  PipeSpec => []FrameLeftAlone
  OBVIOUS
<1>1. Spec => [](TypeInv /\ InOrder)
  BY TypeCorrect, InOrderHolds, PTL DEF TypeInv
<1>2. TypeInv /\ InOrder /\ ShownInOrder => FrameLeftAlone
  BY FrameIsLeftAlone
<1> QED
  BY <1>1, <1>2, ImplementsDecoder, ShownInOrderHolds, PTL

-----------------------------------------------------------------------------
(* A step of the pipeline submits a picture, shows the next one or leaves  *)
(* the film as it is.                                                      *)
LEMMA StepOfFilm ==
  PlaysInOrder /\ Prompt /\ TypeInv /\ InOrder /\ ShownInOrder /\ [PipeNext]_pipeVars
    => [F!Next]_(F!vars)
<1> SUFFICES ASSUME PlaysInOrder, Prompt, TypeInv, InOrder, ShownInOrder,
                    [PipeNext]_pipeVars
             PROVE  \/ Submitted' \in {Submitted, Submitted + 1} /\ screen' = screen
                    \/ /\ Submitted' = Submitted /\ screen < Submitted
                       /\ screen' = screen + 1
  BY DEF F!Next, F!Submit, F!Show, F!vars
<1>1. CASE \/ PipeCalls \/ PipeDecodeSteps \/ PipeDecode
           \/ \E t \in Threads : PipeDequeueSteps(t)
  BY <1>1, DecoderAlone DEF PipeCalls, PipeDecodeSteps, PipeDecode, PipeDequeueSteps
<1>2. ASSUME NEW t \in Threads, Throw(t) \/ ThrowSteps(t) \/ ThrowReturns(t)
      PROVE  Submitted' = Submitted /\ screen' = screen
  BY <1>2 DEF Throw, ThrowSteps, ThrowReturns, ThrowBuffer, vars, contextVars, Submitted
<1>3. CASE PipeConvert
  <2>1. PICK t \in Threads : /\ sync[t].at = "throw" /\ screen = First - 1 /\ screen' = First
                             /\ UNCHANGED vars
    BY <1>3, PipeConvertShows
  <2>2. Cardinality(pending) >= 1
    BY <2>1, OneSync
  <2>3. /\ Submitted \in Nat /\ First \in Nat /\ Cardinality(pending) \in Nat
        /\ First = Submitted - Cardinality(pending) + 1
    BY Numbers DEF First
  <2>4. Submitted' = Submitted
    BY <2>1 DEF vars, Submitted
  <2> QED
    BY <2>1, <2>2, <2>3, <2>4
<1>4. CASE UNCHANGED pipeVars
  BY <1>4 DEF pipeVars, vars, Submitted
<1> QED
  BY <1>1, <1>2, <1>3, <1>4 DEF PipeNext, PipeSyncSteps

(***************************************************************************)
(* The driver and its two devices play the film (PlaysFilm, but for what   *)
(* must happen in the end): the pictures that were submitted are shown in  *)
(* the order of submission, none twice, none left out, none that is not    *)
(* there yet.                                                              *)
(***************************************************************************)
THEOREM ImplementsFilm == PlaysInOrder /\ Prompt => (PipeSpec => F!SafeSpec)
<1> SUFFICES ASSUME PlaysInOrder, Prompt
             PROVE  PipeSpec => F!SafeSpec
  OBVIOUS
<1>1. PipeInit => F!Init
  BY DEF PipeInit, Init, ContextCreated, F!Init, Submitted
<1>2. Spec => [](TypeInv /\ InOrder)
  BY TypeCorrect, InOrderHolds, PTL DEF TypeInv
<1>3. TypeInv /\ InOrder /\ ShownInOrder /\ [PipeNext]_pipeVars => [F!Next]_(F!vars)
  BY StepOfFilm
<1> QED
  BY <1>1, <1>2, <1>3, ImplementsDecoder, ShownInOrderHolds, PTL DEF PipeSpec, F!SafeSpec

-----------------------------------------------------------------------------
(* What a sync throws is a surface.                                        *)
ThrowsSurface == \A t \in Threads : sync[t].at = "throw" => sync[t].buf \in Surfaces

(* It has been dequeued from the queue of capture buffers.                 *)
LEMMA NextThrowsSurface == TypeInv /\ ThrowsSurface /\ [Next]_vars => ThrowsSurface'
<1> SUFFICES ASSUME TypeInv, ThrowsSurface, [Next]_vars
             PROVE  ThrowsSurface'
  OBVIOUS
<1>1. ASSUME NEW t \in Threads, DequeueFrame(t)
      PROVE  ThrowsSurface'
  <2>1. cap \in Queues(Surfaces) /\ CanDequeue(cap)
    BY <1>1 DEF DequeueFrame, TypeInv, TypeOK
  <2>2. Oldest(cap) \in Surfaces
    BY <2>1 DEF Queues, CanDequeue, Oldest
  <2> QED
    BY <1>1, <2>2 DEF DequeueFrame, ThrowsSurface, TypeInv, TypeOK
<1>2. CASE sync' = sync
  BY <1>2 DEF ThrowsSurface
<1>3. ASSUME NEW t \in Threads, NEW s \in Surfaces, EnterSync(t, s)
      PROVE  ThrowsSurface'
  BY <1>3 DEF EnterSync, ThrowsSurface, TypeInv, TypeOK
<1>4. ASSUME NEW t \in Threads,
             NEW label \in {"idle", "select", "dqout", "ready", "dqcap"},
             sync' = [sync EXCEPT ![t].at = label]
      PROVE  ThrowsSurface'
  BY <1>4 DEF ThrowsSurface, TypeInv, TypeOK
<1>5. CASE ClientCalls
  BY <1>2, <1>3, <1>5 DEF ClientCalls, CreateSliceBuffer, BeginPicture, StartRendering,
     BeginPictureSyncs, SyncSurface, RenderPicture, EndPicture, Threads
<1>6. CASE DecodeSteps \/ HardwareDecode \/ UNCHANGED vars
  BY <1>2, <1>6 DEF DecodeSteps, BeginPictureResumes, StartRendering, QueueFrame,
     QueueFrameFails, QueueInput, QueueInputFails, UnqueueFrame, HardwareDecode, vars
<1>7. ASSUME NEW t \in Threads, SyncSteps(t)
      PROVE  ThrowsSurface'
  BY <1>1, <1>4, <1>7 DEF SyncSteps, DequeueSteps, SelectReturns, DequeueInput,
     DequeueInputFails, MarkReady, DequeueFrameFails, ThrowBuffer
<1> QED
  BY <1>5, <1>6, <1>7 DEF Next

(***************************************************************************)
(* The pipeline implements the front-end, whatever the client and the      *)
(* devices do: the frames that the syncs throw are surfaces, and between   *)
(* two steps of fe_throw_buffer the driver leaves the front-end alone.     *)
(***************************************************************************)
THEOREM ImplementsFrontEnd == PipeSpec => FE!Spec
<1>1. PipeInit => Init /\ FE!Init /\ ThrowsSurface
  BY DEF PipeInit, Init, ThrowsSurface
<1>2. Spec => []TypeInv
  BY TypeCorrect, PTL DEF TypeInv
<1>3. TypeInv /\ ThrowsSurface /\ [PipeNext]_pipeVars => ThrowsSurface'
  BY PipeNextDecoder, NextThrowsSurface
<1>4. ThrowsSurface /\ [PipeNext]_pipeVars => [FE!Next]_(FE!vars)
  <2> SUFFICES ASSUME ThrowsSurface, [PipeNext]_pipeVars
               PROVE  FE!Next \/ UNCHANGED <<fe_out, fe_cap, source, shown, call>>
    BY DEF FE!vars
  <2>1. CASE \/ PipeCalls \/ PipeDecodeSteps \/ PipeDecode \/ UNCHANGED pipeVars
             \/ \E t \in Threads : PipeDequeueSteps(t)
    BY <2>1 DEF PipeCalls, PipeDecodeSteps, PipeDecode, PipeDequeueSteps, pipeVars, feVars
  <2>2. ASSUME NEW t \in Threads, Throw(t)
        PROVE  FE!Next
    BY <2>2 DEF Throw, FE!Next, ThrowsSurface
  <2>3. ASSUME NEW t \in Threads, ThrowSteps(t) \/ ThrowReturns(t)
        PROVE  FE!Next
    BY <2>3 DEF ThrowSteps, ThrowReturns, FE!Next, FE!ThrowSteps
  <2>4. CASE PipeConvert
    BY <2>4 DEF PipeConvert, FE!Next
  <2> QED
    BY <2>1, <2>2, <2>3, <2>4 DEF PipeNext, PipeSyncSteps
<1> QED
  BY <1>1, <1>2, <1>3, <1>4, ImplementsDecoder, PTL DEF PipeSpec, FE!Spec
=============================================================================
