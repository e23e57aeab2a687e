----------------------------- MODULE MCSweepPlan -----------------------------
(***************************************************************************)
(* SweepPlan with the plans that a host sends.                              *)
(***************************************************************************)
EXTENDS SweepPlan

Plan(dwell, ends, step, off, sty) ==
  [dwell |-> dwell, ranges |-> Len(ends) \div 2, ends |-> ends,
   step |-> step, offset |-> off, style |-> sty]

\* Two ranges, of several points and of one, which the radio cannot tune to;
\* ranges that descend, interleaved; an interleaved step that has no quarter.
Accepted == {
  Plan(1, <<1, 3, 7, 8>>, 4, 1, LINEAR),
  Plan(2, <<5, 7, 1, 2>>, 4, 0, INTERLEAVED),
  Plan(1, <<1, 3>>, 6, 0, INTERLEAVED) }

\* No dwell time, no range, no step, no such style.
Rejected == {
  Plan(0, <<1, 2>>, 4, 0, LINEAR),
  Plan(1, <<>>, 4, 0, LINEAR),
  Plan(1, <<1, 2>>, 0, 1, LINEAR),
  Plan(2, <<1, 2>>, 4, 1, INTERLEAVED + 1) }

MCPlans == Accepted \cup Rejected

\* A frequency on the plans, one out of reach, explicit ones in and out of range.
MCTunings == {Automatic(5), Automatic(30)} \cup [hz : {0}, explicit : {"in", "out"}]

=============================================================================
