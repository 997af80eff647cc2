------------------------- MODULE FramePresentation -------------------------
(***************************************************************************)
(* What the RealESRGAN pipeline promises the viewer, without saying how:   *)
(* frames arrive in order, the result on the output texture moves only     *)
(* forward through the frames that have arrived, and nothing is painted    *)
(* once the pipeline is destroyed. Any number of frames may be skipped.    *)
(***************************************************************************)
EXTENDS Integers

VARIABLES
  arrived,   \* frames handed to the pipeline so far
  shown,     \* newest frame whose result the texture holds, 0 for the primed image
  alive      \* FALSE once destroyed

vars == <<arrived, shown, alive>>

Init == arrived = 0 /\ shown = 0 /\ alive = TRUE

Arrive ==
  /\ alive
  /\ arrived' = arrived + 1
  /\ UNCHANGED <<shown, alive>>

Show ==
  /\ alive
  /\ shown' \in (shown + 1)..arrived
  /\ UNCHANGED <<arrived, alive>>

Stop ==
  /\ alive /\ alive' = FALSE
  /\ UNCHANGED <<arrived, shown>>

Next == Arrive \/ Show \/ Stop
Spec == Init /\ [][Next]_vars
=============================================================================
