---------------------------- MODULE PipelineOrder ----------------------------
(***************************************************************************)
(* How far the front-end is with the frame of the sync in progress, when   *)
(* it has converted before fe_throw_buffer dequeues (Prompt): the part of  *)
(* the invariant of Pipeline that comes to that of its decoding path       *)
(* (DecoderOrder).                                                         *)
(***************************************************************************)
EXTENDS Pipeline, DecoderOrder

(* A queue of the front-end that holds its one buffer, finished or not.    *)
Given(done) == [fifo |-> <<FE!Buffer>>, done |-> done]

(* The front-end holds nothing, and the last picture that it has shown is  *)
(* the one before the oldest that is pending.                              *)
Free ==
  /\ fe_out = EmptyQueue /\ fe_cap = EmptyQueue
  /\ screen = First - 1

(* fe_throw_buffer takes no error path, and converts the frame of the sync *)
(* before it returns.                                                      *)
Throwing(t) ==
  \/ call[t].at = "idle" /\ Free
  \/ /\ call[t].at = "qout" /\ Free
     /\ call[t].frame = sync[t].buf
  \/ /\ call[t].at = "qcap"
     /\ fe_out = Given(0) /\ fe_cap = EmptyQueue
     /\ source = sync[t].buf
     /\ screen = First - 1
  \/ /\ call[t].at = "dqout"
     /\ source = sync[t].buf
     /\ \/ fe_out = Given(0) /\ fe_cap = Given(0) /\ screen = First - 1
        \/ fe_out = Given(1) /\ fe_cap = Given(1) /\ screen = First
  \/ /\ call[t].at = "dqcap"
     /\ fe_out = EmptyQueue /\ fe_cap = Given(1)
     /\ screen = First

(***************************************************************************)
(* The front-end works for the one sync that throws its frame, and is free *)
(* when there is none.                                                     *)
(***************************************************************************)
ShownInOrder ==
  /\ call \in [Threads -> [at : {"idle", "qout", "dropout", "qcap", "dropcap",
                                 "dqout", "dqcap"},
                           frame : Surfaces \cup {NoSurface}]]
  /\ \A t \in Threads :
       IF sync[t].at = "throw" THEN Throwing(t) ELSE call[t].at = "idle"
  /\ ~SyncAt({"throw"}) => Free
=============================================================================
