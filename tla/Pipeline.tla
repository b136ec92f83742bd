------------------------------ MODULE Pipeline ------------------------------
(***************************************************************************)
(* The decoder and the front-end together: vaSyncSurface hands the frame   *)
(* it has dequeued from cedrus to fe_throw_buffer, which makes the display *)
(* engine read it where it is, in the capture buffer of the surface.       *)
(*                                                                         *)
(* The pipeline is the decoding path (Decoder) with the last step of its   *)
(* sync replaced by the steps of FrontEnd (FE): every step is one of the   *)
(* two, but for the last one of fe_throw_buffer, with which the sync ends  *)
(* as well.  The frames that are thrown are the surfaces, by their capture *)
(* buffers.                                                                *)
(***************************************************************************)
EXTENDS Decoder

CONSTANTS
  Prompt   \* of FrontEnd

ASSUME PipelineAssumption == Prompt \in BOOLEAN

VARIABLES
  fe_out, fe_cap, source, shown, call,    \* of FrontEnd
  screen  \* the picture in the frame that the front-end converted last

FE == INSTANCE FrontEnd WITH
        Frames <- Surfaces, NoFrame <- NoSurface, out <- fe_out, cap <- fe_cap

feVars == <<fe_out, fe_cap, source, shown, call>>
pipeVars == <<vars, feVars, screen>>
-----------------------------------------------------------------------------
(* The steps of the decoder that the front-end has no part in.             *)
PipeCalls == ClientCalls /\ UNCHANGED <<feVars, screen>>

PipeDecodeSteps == DecodeSteps /\ UNCHANGED <<feVars, screen>>

PipeDequeueSteps(t) == DequeueSteps(t) /\ UNCHANGED <<feVars, screen>>

PipeDecode == HardwareDecode /\ UNCHANGED <<feVars, screen>>

(* Mutant: the frame of another surface than the one dequeued.             *)
ThrowSurface(t) ==
  /\ sync[t].at = "throw"
  /\ \E s \in Surfaces \ {sync[t].buf} : FE!Throw(t, s)
  /\ UNCHANGED <<vars, screen>>

(* vaSyncSurface calls fe_throw_buffer, which runs and returns, and the    *)
(* sync succeeds whatever the outcome.                                     *)
Throw(t) ==
  /\ sync[t].at = "throw"
  /\ FE!Throw(t, sync[t].buf)
  /\ UNCHANGED <<vars, screen>>

ThrowSteps(t) == FE!InnerSteps(t) /\ UNCHANGED <<vars, screen>>

ThrowReturns(t) ==
  /\ FE!Returns(t)
  /\ ThrowBuffer(t)
  /\ UNCHANGED screen

(* The front-end reads the frame that its output buffer points to.         *)
PipeConvert ==
  /\ FE!HardwareConvert
  /\ screen' = frame[source]
  /\ UNCHANGED vars

PipeSyncSteps(t) ==
  PipeDequeueSteps(t) \/ Throw(t) \/ ThrowSteps(t) \/ ThrowReturns(t)
-----------------------------------------------------------------------------
PipeInit == Init /\ FE!Init /\ screen = 0

PipeNext ==
  \/ PipeCalls \/ PipeDecodeSteps
  \/ \E t \in Threads : PipeSyncSteps(t)
  \/ PipeDecode \/ PipeConvert

PipeSpec == PipeInit /\ [][PipeNext]_pipeVars

SyncPending ==
  /\ \E s \in pending : SyncSurface(s)
  /\ UNCHANGED <<feVars, screen>>

(* Both devices keep working, calls run on, and the client syncs again as  *)
(* long as a picture is pending.                                           *)
PipeFairness ==
  /\ WF_pipeVars(PipeDecode) /\ WF_pipeVars(PipeConvert)
  /\ WF_pipeVars(PipeDecodeSteps)
  /\ \A t \in Threads : WF_pipeVars(PipeSyncSteps(t))
  /\ WF_pipeVars(SyncPending)

PipeFairSpec == PipeSpec /\ PipeFairness
-----------------------------------------------------------------------------
(* What module Decoder promises of the decoding path (DecodesIntoIts-      *)
(* Surface, SyncShowsOwnPicture, NoPictureSkipped, EveryPictureShown) is   *)
(* promised of the pipeline too, whose syncs go on into the front-end.     *)

(***************************************************************************)
(* The front-end never holds a pointer into a frame that cedrus has been   *)
(* given to decode into again.                                             *)
(***************************************************************************)
FrameLeftAlone ==
  FE!Held(fe_out) # {} => source \notin Held(cap)

(***************************************************************************)
(* When no sync is in progress, the front-end has given its buffers back:  *)
(* the next frame finds it free.                                           *)
(***************************************************************************)
ReleasedOnReturn ==
  (\A t \in Threads : sync[t].at # "throw")
    => FE!Held(fe_out) = {} /\ FE!Held(fe_cap) = {}

(***************************************************************************)
(* The two devices and the driver between them play the film: every        *)
(* picture that was submitted is shown, in the order of submission, and    *)
(* nothing else is.                                                        *)
(***************************************************************************)
F == INSTANCE Film WITH submitted <- Submitted

PlaysFilm == F!Spec
=============================================================================
