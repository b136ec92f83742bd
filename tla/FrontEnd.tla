------------------------------ MODULE FrontEnd ------------------------------
(***************************************************************************)
(* fe_throw_buffer (fe.c): a decoded frame is handed to the display-engine *)
(* front-end, a second memory-to-memory device that detiles and converts   *)
(* it.  The device has one output buffer, a user pointer to the planes of  *)
(* the decoded frame, and one capture buffer, both of index 0 (fe_test     *)
(* requests them and starts both queues; the model starts after it).       *)
(*                                                                         *)
(* Each thread that runs vaSyncSurface may be in a call; nothing           *)
(* serialises them.  Which frames they throw is left open here; module     *)
(* Pipeline composes the front-end with the decoder that supplies them.    *)
(***************************************************************************)
EXTENDS M2MQueue

CONSTANTS
  Threads,    \* the threads that sync surfaces
  Frames,     \* the frames that may be thrown
  NoFrame,    \* none of them
  Prompt      \* the device has converted before the call dequeues

ASSUME FrontEndAssumption ==
  /\ NoFrame \notin Frames
  /\ Prompt \in BOOLEAN

VARIABLES
  out,     \* the queue of the output buffer
  cap,     \* the queue of the capture buffer
  source,  \* the frame the output buffer points to
  shown,   \* the frame that was converted last
  call     \* call[t], where thread t is in fe_throw_buffer

vars == <<out, cap, source, shown, call>>

Buffer == 0

Goto(t, label) == call' = [call EXCEPT ![t].at = label]
-----------------------------------------------------------------------------
(* vaSyncSurface calls fe_throw_buffer with the frame f it has dequeued.   *)
Throw(t, f) ==
  /\ call[t].at = "idle"
  /\ call' = [call EXCEPT ![t] = [at |-> "qout", frame |-> f]]
  /\ UNCHANGED <<out, cap, source, shown>>

QueueOut(t) ==
  /\ call[t].at = "qout"
  /\ CanEnqueue(out, Buffer)
  /\ out' = Enqueue(out, Buffer)
  /\ source' = call[t].frame
  /\ Goto(t, "qcap")
  /\ UNCHANGED <<cap, shown>>

(* Mutants of the error path: it goes on; it goes on after the dequeue.    *)
QueueOutFailsIgnored(t) ==
  /\ call[t].at = "qout"
  /\ ~CanEnqueue(out, Buffer)
  /\ Goto(t, "qcap")
  /\ UNCHANGED <<out, cap, source, shown>>

DropOutGoesOn(t) ==
  /\ call[t].at = "dropout"
  /\ out' = IF CanDequeue(out) THEN Dequeue(out) ELSE out
  /\ Goto(t, "qcap")
  /\ UNCHANGED <<cap, source, shown>>

(* VIDIOC_QBUF failed: the call dequeues the output buffer, if it can, and *)
(* returns -1.                                                             *)
QueueOutFails(t) ==
  /\ call[t].at = "qout"
  /\ ~CanEnqueue(out, Buffer)
  /\ Goto(t, "dropout")
  /\ UNCHANGED <<out, cap, source, shown>>

DropOut(t) ==
  /\ call[t].at = "dropout"
  /\ out' = IF CanDequeue(out) THEN Dequeue(out) ELSE out
  /\ Goto(t, "idle")
  /\ UNCHANGED <<cap, source, shown>>

QueueCap(t) ==
  /\ call[t].at = "qcap"
  /\ CanEnqueue(cap, Buffer)
  /\ cap' = Enqueue(cap, Buffer)
  /\ Goto(t, "dqout")
  /\ UNCHANGED <<out, source, shown>>

(* The same with the capture buffer: the output buffer stays queued.       *)
QueueCapFails(t) ==
  /\ call[t].at = "qcap"
  /\ ~CanEnqueue(cap, Buffer)
  /\ Goto(t, "dropcap")
  /\ UNCHANGED <<out, cap, source, shown>>

DropCap(t) ==
  /\ call[t].at = "dropcap"
  /\ cap' = IF CanDequeue(cap) THEN Dequeue(cap) ELSE cap
  /\ Goto(t, "idle")
  /\ UNCHANGED <<out, source, shown>>

(* Mutant: the device does not wait for a capture buffer.                  *)
CanConvertAnywhere == Waiting(out) > 0

CanConvert == Waiting(out) > 0 /\ Waiting(cap) > 0

(* Mutants: one of the two buffers is not dequeued.                        *)
DequeueOutOmitted(t) ==
  /\ call[t].at = "dqout"
  /\ Prompt => ~CanConvert
  /\ Goto(t, "dqcap")
  /\ UNCHANGED <<out, cap, source, shown>>

DequeueCapOmitted(t) ==
  /\ call[t].at = "dqcap"
  /\ Goto(t, "idle")
  /\ UNCHANGED <<out, cap, source, shown>>

(* Both buffers are dequeued at once, without waiting for the device and   *)
(* without looking at the results.                                         *)
DequeueOut(t) ==
  /\ call[t].at = "dqout"
  /\ Prompt => ~CanConvert
  /\ out' = IF CanDequeue(out) THEN Dequeue(out) ELSE out
  /\ Goto(t, "dqcap")
  /\ UNCHANGED <<cap, source, shown>>

DequeueCap(t) ==
  /\ call[t].at = "dqcap"
  /\ cap' = IF CanDequeue(cap) THEN Dequeue(cap) ELSE cap
  /\ Goto(t, "idle")
  /\ UNCHANGED <<out, source, shown>>

HardwareConvert ==
  /\ CanConvert
  /\ shown' = source
  /\ out' = Finish(out)
  /\ cap' = Finish(cap)
  /\ UNCHANGED <<source, call>>
-----------------------------------------------------------------------------
Init ==
  /\ out = EmptyQueue
  /\ cap = EmptyQueue
  /\ source = NoFrame
  /\ shown = NoFrame
  /\ call = [t \in Threads |-> [at |-> "idle", frame |-> NoFrame]]

(* The steps inside a call, and those with which it returns.               *)
InnerSteps(t) ==
  \/ QueueOut(t) \/ QueueOutFails(t)
  \/ QueueCap(t) \/ QueueCapFails(t)
  \/ DequeueOut(t)

Returns(t) == DropOut(t) \/ DropCap(t) \/ DequeueCap(t)

ThrowSteps(t) == InnerSteps(t) \/ Returns(t)

Next ==
  \/ \E t \in Threads : (\E f \in Frames : Throw(t, f)) \/ ThrowSteps(t)
  \/ HardwareConvert

Spec == Init /\ [][Next]_vars

(* The device keeps converting, a call that was entered keeps running, and *)
(* the film goes on.                                                       *)
Fairness ==
  /\ WF_vars(HardwareConvert)
  /\ \A t \in Threads : WF_vars(\E f \in Frames : Throw(t, f)) /\ WF_vars(ThrowSteps(t))

FairSpec == Spec /\ Fairness
-----------------------------------------------------------------------------
TypeOK ==
  /\ out \in Queues({Buffer})
  /\ cap \in Queues({Buffer})
  /\ source \in Frames \cup {NoFrame}
  /\ shown \in Frames \cup {NoFrame}
  /\ call \in [Threads -> [at : {"idle", "qout", "dropout", "qcap", "dropcap",
                                 "dqout", "dqcap"},
                           frame : Frames \cup {NoFrame}]]

Idle == \A t \in Threads : call[t].at = "idle"

(***************************************************************************)
(* A call returns only when the front-end has converted its frame, and no  *)
(* other since.                                                            *)
(***************************************************************************)
EveryFrameConverted ==
  [][\A t \in Threads :
       call[t].at # "idle" /\ call'[t].at = "idle" => shown' = call[t].frame]_vars

(***************************************************************************)
(* The front-end is wedged when the output buffer waits, the capture       *)
(* buffer is not queued and no call is about to queue it.                  *)
(***************************************************************************)
Wedged ==
  /\ Waiting(out) > 0
  /\ Held(cap) = {}
  /\ \A t \in Threads : call[t].at # "qcap"

(***************************************************************************)
(* A wedged front-end stays so and converts nothing any more: each later   *)
(* call gives up at the output buffer and never gets to the capture one.   *)
(***************************************************************************)
WedgedForGood == [][Wedged => Wedged' /\ shown' = shown]_vars

(***************************************************************************)
(* A single conversion that is not finished when its call returns ends the *)
(* film: the next calls clear the two queues one at a time and leave the   *)
(* front-end wedged for ever.                                              *)
(***************************************************************************)
LateMeansWedged == (Idle /\ Held(out) # {} /\ Held(cap) # {}) ~> []Wedged
=============================================================================
