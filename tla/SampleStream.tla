---------------------------- MODULE SampleStream ----------------------------
(***************************************************************************)
(* What streaming promises, without counters, cores or a wire protocol: a  *)
(* bounded buffer that one side fills and the other drains, opened afresh  *)
(* for each session.  In a reception the sampling side puts single units   *)
(* and the host takes whole blocks; in a transmission the host puts at     *)
(* most a block and the sampling side takes single units.                  *)
(***************************************************************************)
EXTENDS Integers

CONSTANTS Capacity, Block

VARIABLES direction, fill

svars == <<direction, fill>>

Init == direction = "closed" /\ fill = 0

\* A session begins with an empty buffer, and only when none is open.
Open(d) == direction = "closed" /\ direction' = d /\ fill' = 0

Close == direction # "closed" /\ direction' = "closed" /\ fill' = 0

\* A put never exceeds the free space, a take never what is there.
Put(n) == fill + n <= Capacity /\ fill' = fill + n /\ UNCHANGED direction
Take(n) == n <= fill /\ fill' = fill - n /\ UNCHANGED direction

Receive == direction = "in" /\ (Put(1) \/ Take(Block))
Transmit == direction = "out" /\ (Take(1) \/ \E n \in 0 .. Block : Put(n))

Next == Open("in") \/ Open("out") \/ Close \/ Receive \/ Transmit

Spec == Init /\ [][Next]_svars

=============================================================================
