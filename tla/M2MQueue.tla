------------------------------ MODULE M2MQueue ------------------------------
(***************************************************************************)
(* One buffer queue of a V4L2 memory-to-memory device, as the driver uses  *)
(* it through VIDIOC_QBUF, VIDIOC_DQBUF and select().  The kernel is not   *)
(* part of this repository: the rules are the ones the comment in          *)
(* src/fe.c (lines 161-206) quotes and the callers rely on.                *)
(*                                                                         *)
(* A queue holds, in the order in which they were queued, the buffers that *)
(* user space has handed over and not taken back; the device finishes them *)
(* in that order, so the finished ones are a prefix of length `done'.      *)
(***************************************************************************)
EXTENDS Sequences, Functions

EmptyQueue == [fifo |-> <<>>, done |-> 0]

(* The queues over the buffer indices I.                                   *)
Queues(I) == {q \in [fifo : Seq(I), done : Nat] : q.done <= Len(q.fifo)}

(* The buffers the kernel holds: VIDIOC_QBUF of one of them fails.         *)
Held(q) == Range(q.fifo)

CanEnqueue(q, b) == b \notin Held(q)

Enqueue(q, b) == [q EXCEPT !.fifo = Append(@, b)]

(* How many held buffers the device has still to process, which they are,  *)
(* and the first of them.                                                  *)
Waiting(q) == Len(q.fifo) - q.done

WaitingBuffers(q) == {q.fifo[k] : k \in q.done + 1 .. Len(q.fifo)}

NextWaiting(q) == q.fifo[q.done + 1]

Finish(q) == [q EXCEPT !.done = @ + 1]

(* VIDIOC_DQBUF on a descriptor opened with O_NONBLOCK: it takes the       *)
(* oldest finished buffer, whatever index the caller wrote in its          *)
(* argument, and fails with EAGAIN when there is none.                     *)
CanDequeue(q) == q.done > 0

Oldest(q) == Head(q.fifo)

Dequeue(q) == [fifo |-> Tail(q.fifo), done |-> q.done - 1]
=============================================================================
