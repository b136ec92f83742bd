--------------------------- MODULE FrontEndProofs ---------------------------
(***************************************************************************)
(* Proofs about FrontEnd, for every number of threads and frames and for   *)
(* a device of any speed.                                                  *)
(***************************************************************************)
EXTENDS FrontEnd, M2MQueueProofs

(***************************************************************************)
(* Each queue holds its one buffer at most once.                           *)
(***************************************************************************)
SingleInv == TypeOK /\ Len(out.fifo) <= 1 /\ Len(cap.fifo) <= 1

LEMMA InitSingleInv == Init => SingleInv
BY DEF Init, SingleInv, TypeOK, EmptyQueue, Queues, Buffer

LEMMA GotoType ==
  ASSUME TypeOK, NEW t \in Threads,
         NEW label \in {"idle", "qout", "dropout", "qcap", "dropcap", "dqout", "dqcap"},
         Goto(t, label)
  PROVE  call' \in [Threads -> [at : {"idle", "qout", "dropout", "qcap", "dropcap",
                                      "dqout", "dqcap"},
                                frame : Frames \cup {NoFrame}]]
BY DEF TypeOK, Goto

LEMMA ThrowSingleInv ==
  ASSUME SingleInv, NEW t \in Threads, NEW f \in Frames, Throw(t, f)
  PROVE  SingleInv'
BY DEF SingleInv, TypeOK, Throw

(* What the steps of a call do to the two queues.                          *)
LEMMA ThrowStepsSingleInv ==
  ASSUME SingleInv, NEW t \in Threads, ThrowSteps(t)
  PROVE  SingleInv'
<1>0. /\ out \in Queues({Buffer}) /\ Len(out.fifo) <= 1
      /\ cap \in Queues({Buffer}) /\ Len(cap.fifo) <= 1
  BY DEF SingleInv, TypeOK
<1>1. CASE QueueOut(t)
  <2>1. out' \in Queues({Buffer}) /\ Len(out'.fifo) <= 1
    BY <1>0, <1>1, SingleBufferSteps DEF QueueOut
  <2> QED
    BY <1>1, <2>1, GotoType DEF SingleInv, TypeOK, QueueOut
<1>2. CASE QueueCap(t)
  <2>1. cap' \in Queues({Buffer}) /\ Len(cap'.fifo) <= 1
    BY <1>0, <1>2, SingleBufferSteps DEF QueueCap
  <2> QED
    BY <1>2, <2>1, GotoType DEF SingleInv, TypeOK, QueueCap
<1>3. CASE DropOut(t) \/ DequeueOut(t)
  <2>1. out' \in Queues({Buffer}) /\ Len(out'.fifo) <= 1
    BY <1>0, <1>3, SingleBufferSteps DEF DropOut, DequeueOut
  <2> QED
    BY <1>3, <2>1, GotoType DEF SingleInv, TypeOK, DropOut, DequeueOut
<1>4. CASE DropCap(t) \/ DequeueCap(t)
  <2>1. cap' \in Queues({Buffer}) /\ Len(cap'.fifo) <= 1
    BY <1>0, <1>4, SingleBufferSteps DEF DropCap, DequeueCap
  <2> QED
    BY <1>4, <2>1, GotoType DEF SingleInv, TypeOK, DropCap, DequeueCap
<1>5. CASE QueueOutFails(t) \/ QueueCapFails(t)
  BY <1>5, GotoType DEF SingleInv, TypeOK, QueueOutFails, QueueCapFails
<1> QED
  BY <1>1, <1>2, <1>3, <1>4, <1>5 DEF ThrowSteps, InnerSteps, Returns

LEMMA HardwareConvertSingleInv == SingleInv /\ HardwareConvert => SingleInv'
<1> SUFFICES ASSUME SingleInv, HardwareConvert
             PROVE  SingleInv'
  OBVIOUS
<1>1. out' \in Queues({Buffer}) /\ cap' \in Queues({Buffer})
  BY FinishQueue DEF SingleInv, TypeOK, HardwareConvert, CanConvert
<1>2. out'.fifo = out.fifo /\ cap'.fifo = cap.fifo
  BY DEF SingleInv, TypeOK, HardwareConvert, Finish, Queues
<1> QED
  BY <1>1, <1>2 DEF SingleInv, TypeOK, HardwareConvert

(***************************************************************************)
(* Every variable keeps its type and each queue holds its buffer at most   *)
(* once.                                                                   *)
(***************************************************************************)
THEOREM SingleInvHolds == Spec => [](TypeOK /\ Len(out.fifo) <= 1 /\ Len(cap.fifo) <= 1)
<1>1. SingleInv /\ [Next]_vars => SingleInv'
  BY ThrowSingleInv, ThrowStepsSingleInv, HardwareConvertSingleInv
     DEF Next, vars, SingleInv, TypeOK
<1> QED
  BY <1>1, InitSingleInv, PTL DEF Spec, SingleInv

(***************************************************************************)
(* A wedged front-end stays wedged and converts nothing any more.          *)
(***************************************************************************)
THEOREM WedgedForGoodHolds == Spec => WedgedForGood
<1>1. SingleInv /\ [Next]_vars => (Wedged => Wedged' /\ shown' = shown)
  <2> SUFFICES ASSUME SingleInv, [Next]_vars, Wedged
               PROVE  Wedged' /\ shown' = shown
    OBVIOUS
  <2>0. /\ ~CanEnqueue(out, Buffer) /\ ~CanDequeue(out)
        /\ cap \in Queues({Buffer}) /\ cap.fifo = <<>>
    <3>1. /\ out \in Queues({Buffer}) /\ Len(out.fifo) <= 1
          /\ cap \in Queues({Buffer}) /\ Len(cap.fifo) <= 1
      BY DEF SingleInv, TypeOK
    <3> QED
      BY <3>1, SingleBuffer DEF Wedged, CanEnqueue
  <2>1. ~CanDequeue(cap) /\ ~(Waiting(cap) > 0)
    BY <2>0, EmptySeq DEF Queues, CanDequeue, Waiting
  <2>2. ASSUME NEW t \in Threads, (\E f \in Frames : Throw(t, f)) \/ ThrowSteps(t)
        PROVE  /\ UNCHANGED <<out, cap, shown>>
               /\ \A u \in Threads : call'[u].at = "qcap" => call[u].at = "qcap"
    BY <2>0, <2>1, <2>2 DEF Wedged, SingleInv, TypeOK, Throw, ThrowSteps, InnerSteps, Returns, QueueOut,
       QueueOutFails, DropOut, QueueCap, QueueCapFails, DropCap, DequeueOut,
       DequeueCap, Goto
  <2>3. ~HardwareConvert
    BY <2>1 DEF HardwareConvert, CanConvert
  <2> QED
    BY <2>2, <2>3 DEF Next, vars, Wedged
<1> QED
  BY <1>1, SingleInvHolds, PTL DEF Spec, WedgedForGood, SingleInv
=============================================================================
