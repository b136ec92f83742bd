-------------------------------- MODULE Film --------------------------------
(***************************************************************************)
(* What the driver promises to a client that plays a film: the pictures it *)
(* submits appear on the screen, each of them, in the order in which they  *)
(* were submitted.                                                         *)
(***************************************************************************)
EXTENDS Naturals

VARIABLES
  submitted,  \* how many pictures the client has submitted
  screen      \* the picture that is shown; 0 before the first

vars == <<submitted, screen>>

Init == submitted = 0 /\ screen = 0

Submit ==
  /\ submitted' = submitted + 1
  /\ UNCHANGED screen

Show ==
  /\ screen < submitted
  /\ screen' = screen + 1
  /\ UNCHANGED submitted

Next == Submit \/ Show

(* In order, each picture once, and no other.                              *)
SafeSpec == Init /\ [][Next]_vars

(* Nothing says that the client goes on, but what it has submitted is      *)
(* shown.                                                                  *)
Spec == SafeSpec /\ WF_vars(Show)
=============================================================================
