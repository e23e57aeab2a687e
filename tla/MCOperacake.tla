---------------------------- MODULE MCOperacake ----------------------------
(***************************************************************************)
(* Two boards, of which the first may be missing; lists of one and of two   *)
(* ranges, the two overlapping, and one with a port that does not exist;     *)
(* dwell programs of one and of two antennas, one with an empty dwell.       *)
(***************************************************************************)
EXTENDS Operacake

MCBoards == 0..1
MCPresence == {{0, 1}, {1}}
MCPortPairs == {<<1, 5>>, <<1, 2>>}
MCRangeLists ==
  {<<[min |-> 1, max |-> 1, port |-> 2], [min |-> 1, max |-> 2, port |-> 7]>>,
   <<[min |-> 2, max |-> 2, port |-> 3]>>}
MCPrograms ==
  {<<[dwell |-> 2, port |-> 1], [dwell |-> 1, port |-> 6]>>, <<[dwell |-> 1, port |-> 2]>>,
   <<[dwell |-> 2, port |-> 3], [dwell |-> 0, port |-> 4]>>}
=============================================================================
