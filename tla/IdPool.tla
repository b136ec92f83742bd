------------------------------- MODULE IdPool -------------------------------
(***************************************************************************)
(* What an object heap promises to its users: a pool of object indices     *)
(* that hands out an index nobody holds, takes it back, and grows by       *)
(* Increment only when every index it has is taken.  It may be closed when *)
(* nobody holds anything.  ObjectHeap implements it.                       *)
(***************************************************************************)
EXTENDS Naturals

CONSTANT Increment   \* by how many indices the pool grows

VARIABLES
  capacity,   \* the pool has the indices 0 .. capacity - 1
  taken       \* the indices that are held

vars == <<capacity, taken>>

Indices == 0 .. capacity - 1

Init == capacity = Increment /\ taken = {}

Take(i) ==
  /\ i \in Indices \ taken
  /\ taken' = taken \cup {i}
  /\ UNCHANGED capacity

GrowAndTake ==
  /\ capacity > 0
  /\ taken = Indices
  /\ capacity' = capacity + Increment
  /\ taken' = taken \cup {capacity}

Release(i) ==
  /\ i \in taken
  /\ taken' = taken \ {i}
  /\ UNCHANGED capacity

Close ==
  /\ taken = {}
  /\ capacity' = 0
  /\ UNCHANGED taken

Next ==
  \/ \E i \in Indices : Take(i) \/ Release(i)
  \/ GrowAndTake
  \/ Close

Spec == Init /\ [][Next]_vars
=============================================================================
