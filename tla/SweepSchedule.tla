---------------------------- MODULE SweepSchedule ----------------------------
(***************************************************************************)
(* What a sweep promises: the points of its plan are visited in the order   *)
(* of the plan, again and again, and every visit sends `dwell' blocks.      *)
(***************************************************************************)
EXTENDS Naturals, Sequences

VARIABLES
  points,   \* the plan's points, or <<>>: no promise is made
  at,       \* the point of the last block
  taken,    \* blocks sent at that point before the last one
  dwell     \* blocks that each visit sends

vars == <<points, at, taken, dwell>>

Silent == points = <<>> /\ at = 0 /\ taken = 0 /\ dwell = 0

First == points = <<>> /\ points' # <<>> /\ at' = 1 /\ taken' = 0 /\ dwell' > 0
Stay == points # <<>> /\ taken + 1 < dwell /\ taken' = taken + 1 /\ UNCHANGED <<points, at, dwell>>
Move ==
  /\ points # <<>> /\ taken + 1 = dwell
  /\ taken' = 0 /\ at' = (at % Len(points)) + 1 /\ UNCHANGED <<points, dwell>>
Stop == Silent'

Next == First \/ Stay \/ Move \/ Stop
Spec == Silent /\ [][Next]_vars

=============================================================================
