----------------------------- MODULE SweepPoints -----------------------------
(***************************************************************************)
(* The points a sweep's plan stands for, as a list: the reference for the    *)
(* walk of sweep_mode(), which goes from one point to the next and never     *)
(* builds it.  A point is <<range, odd, frequency>>.                        *)
(***************************************************************************)
EXTENDS Naturals, Sequences, SequencesExt, FiniteSetsExt

\* The points of range r, from lo to hi: one per step, and in an interleaved
\* sweep a second one a quarter of a step above each; a point past the first is
\* visited only if all of its captures begin below the end of the range.
RangePoints(r, lo, hi, step, interleaved) ==
  LET top == IF interleaved THEN step \div 4 ELSE 0
      last == Max({k \in 0 .. hi : k = 0 \/ lo + k * step + top < hi})
      base(k) == <<r, TRUE, lo + k * step>>
  IN IF interleaved
     THEN [i \in 1 .. 2 * (last + 1) |->
             IF i % 2 = 1 THEN base(i \div 2)
                          ELSE <<r, FALSE, lo + (i \div 2 - 1) * step + top>>]
     ELSE [i \in 1 .. last + 1 |-> base(i - 1)]

Points(n, lo, hi, step, interleaved) ==
  FlattenSeq([i \in 1 .. n |-> RangePoints(i - 1, lo[i - 1], hi[i - 1], step, interleaved)])

=============================================================================
