--------------------------- MODULE M2MQueueProofs ---------------------------
(***************************************************************************)
(* Lemmas about the operations of M2MQueue: each keeps a queue a queue and *)
(* changes the number of waiting buffers by what one expects.              *)
(***************************************************************************)
EXTENDS M2MQueue, SequenceTheorems, TLAPS

LEMMA EnqueueQueue ==
  ASSUME NEW I, NEW q \in Queues(I), NEW b \in I
  PROVE  /\ Enqueue(q, b) \in Queues(I)
         /\ Waiting(Enqueue(q, b)) = Waiting(q) + 1
<1>1. /\ q \in [fifo : Seq(I), done : Nat]
      /\ q.fifo \in Seq(I) /\ q.done \in Nat /\ q.done <= Len(q.fifo)
  BY DEF Queues
<1>2. /\ Append(q.fifo, b) \in Seq(I)
      /\ Len(Append(q.fifo, b)) = Len(q.fifo) + 1
      /\ Len(q.fifo) \in Nat
  BY <1>1, AppendProperties, LenProperties
<1>3. /\ Enqueue(q, b).fifo = Append(q.fifo, b)
      /\ Enqueue(q, b).done = q.done
      /\ Enqueue(q, b) \in [fifo : Seq(I), done : Nat]
  BY <1>1, <1>2 DEF Enqueue
<1> QED BY <1>1, <1>2, <1>3 DEF Queues, Waiting

LEMMA DequeueQueue ==
  ASSUME NEW I, NEW q \in Queues(I), CanDequeue(q)
  PROVE  /\ Dequeue(q) \in Queues(I)
         /\ Waiting(Dequeue(q)) = Waiting(q)
         /\ Oldest(q) \in I
BY DEF Queues, Dequeue, CanDequeue, Waiting, Oldest

LEMMA FinishQueue ==
  ASSUME NEW I, NEW q \in Queues(I), Waiting(q) > 0
  PROVE  /\ Finish(q) \in Queues(I)
         /\ Waiting(Finish(q)) = Waiting(q) - 1
         /\ NextWaiting(q) \in I
BY DEF Queues, Finish, Waiting, NextWaiting

LEMMA WaitingNat ==
  ASSUME NEW I, NEW q \in Queues(I)
  PROVE  Waiting(q) \in Nat
BY DEF Queues, Waiting

(* What is in a queue after each operation, element by element.            *)
LEMMA QueueFields ==
  ASSUME NEW I, NEW q \in Queues(I)
  PROVE  /\ Len(q.fifo) \in Nat /\ q.done \in Nat /\ q.done <= Len(q.fifo)
         /\ \A k \in 1 .. Len(q.fifo) : q.fifo[k] \in I
         /\ Waiting(q) = Len(q.fifo) - q.done
         /\ \A b : b \in Held(q) <=> \E k \in 1 .. Len(q.fifo) : q.fifo[k] = b
<1>1. q.fifo \in Seq(I) /\ q.done \in Nat /\ q.done <= Len(q.fifo)
  BY DEF Queues
<1>2. Len(q.fifo) \in Nat /\ DOMAIN q.fifo = 1 .. Len(q.fifo)
  BY <1>1, LenProperties
<1>3. \A k \in 1 .. Len(q.fifo) : q.fifo[k] \in I
  BY <1>1, ElementOfSeq
<1>4. \A b : b \in Held(q) <=> \E k \in 1 .. Len(q.fifo) : q.fifo[k] = b
  BY <1>2 DEF Held, Range
<1> QED
  BY <1>1, <1>2, <1>3, <1>4 DEF Waiting

LEMMA EnqueueElements ==
  ASSUME NEW I, NEW q \in Queues(I), NEW b \in I
  PROVE  /\ Len(Enqueue(q, b).fifo) = Len(q.fifo) + 1
         /\ Enqueue(q, b).done = q.done
         /\ Enqueue(q, b).fifo[Len(q.fifo) + 1] = b
         /\ \A k \in 1 .. Len(q.fifo) : Enqueue(q, b).fifo[k] = q.fifo[k]
<1>1. q \in [fifo : Seq(I), done : Nat] /\ q.fifo \in Seq(I)
  BY DEF Queues
<1>2. Enqueue(q, b).fifo = Append(q.fifo, b) /\ Enqueue(q, b).done = q.done
  BY <1>1 DEF Enqueue
<1> QED
  BY <1>1, <1>2, AppendProperties

LEMMA DequeueElements ==
  ASSUME NEW I, NEW q \in Queues(I), CanDequeue(q)
  PROVE  /\ Len(Dequeue(q).fifo) = Len(q.fifo) - 1
         /\ Dequeue(q).done = q.done - 1
         /\ Oldest(q) = q.fifo[1]
         /\ \A k \in 1 .. Len(q.fifo) - 1 : Dequeue(q).fifo[k] = q.fifo[k + 1]
<1>1. q.fifo \in Seq(I) /\ q.done \in Nat /\ q.done <= Len(q.fifo) /\ q.done > 0
  BY DEF Queues, CanDequeue
<1>2. q.fifo # <<>>
  BY <1>1, EmptySeq
<1>3. /\ Len(Tail(q.fifo)) = Len(q.fifo) - 1
      /\ Head(q.fifo) = q.fifo[1]
      /\ \A k \in 1 .. Len(q.fifo) - 1 : Tail(q.fifo)[k] = q.fifo[k + 1]
  BY <1>1, <1>2, HeadTailProperties
<1> QED
  BY <1>3 DEF Dequeue, Oldest

LEMMA FinishElements ==
  ASSUME NEW I, NEW q \in Queues(I)
  PROVE  Finish(q).fifo = q.fifo /\ Finish(q).done = q.done + 1
BY DEF Finish, Queues

(* A queue that holds its only buffer at most once.                        *)
LEMMA SingleBuffer ==
  ASSUME NEW b, NEW q \in Queues({b}), Len(q.fifo) <= 1
  PROVE  /\ CanEnqueue(q, b) <=> q.fifo = <<>>
         /\ CanEnqueue(q, b) => Len(Enqueue(q, b).fifo) = 1
         /\ Waiting(q) > 0 => ~CanEnqueue(q, b) /\ ~CanDequeue(q)
         /\ CanDequeue(q) => Dequeue(q).fifo = <<>>
<1>1. /\ q.fifo \in Seq({b}) /\ q.done \in Nat /\ q.done <= Len(q.fifo)
      /\ Len(q.fifo) \in Nat
  BY LenProperties DEF Queues
<1>2. CASE Len(q.fifo) = 0
  <2>1. q.fifo = <<>>
    BY <1>1, <1>2, EmptySeq
  <2>2. Held(q) = {}
    BY <2>1 DEF Held, Range
  <2>3. Enqueue(q, b).fifo = Append(q.fifo, b)
    BY DEF Enqueue, Queues
  <2> QED
    BY <1>1, <1>2, <2>1, <2>2, <2>3, AppendProperties DEF CanEnqueue, Waiting, CanDequeue
<1>3. CASE Len(q.fifo) = 1
  <2>1. q.fifo # <<>> /\ q.fifo[1] = b
    BY <1>1, <1>3, ElementOfSeq, EmptySeq
  <2>2. b \in Held(q)
    BY <1>1, <1>3, <2>1, LenProperties DEF Held, Range
  <2>3. Tail(q.fifo) = <<>>
    <3>1. Tail(q.fifo) \in Seq({b}) /\ Len(Tail(q.fifo)) = Len(q.fifo) - 1
      BY <1>1, <2>1, HeadTailProperties
    <3>2. Len(Tail(q.fifo)) = 0
      BY <3>1, <1>3
    <3> QED
      BY <3>1, <3>2, EmptySeq
  <2> QED
    BY <1>1, <1>3, <2>1, <2>2, <2>3 DEF CanEnqueue, Waiting, CanDequeue, Dequeue
<1> QED
  <2>0. \A n \in Nat : n <= 1 => n = 0 \/ n = 1
    OBVIOUS
  <2>1. Len(q.fifo) = 0 \/ Len(q.fifo) = 1
    BY <1>1, <2>0
  <2> QED
    BY <2>1, <1>2, <1>3

LEMMA SingleBufferSteps ==
  ASSUME NEW b, NEW q \in Queues({b}), Len(q.fifo) <= 1
  PROVE  /\ CanEnqueue(q, b) => /\ Enqueue(q, b) \in Queues({b})
                                /\ Len(Enqueue(q, b).fifo) <= 1
         /\ CanDequeue(q) => /\ Dequeue(q) \in Queues({b})
                             /\ Len(Dequeue(q).fifo) <= 1
<1>1. b \in {b} /\ Len(<<>>) = 0 /\ 0 <= 1 /\ 1 <= 1
  BY EmptySeq
<1> QED
  BY <1>1, SingleBuffer, EnqueueQueue, DequeueQueue
=============================================================================
