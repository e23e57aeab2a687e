------------------------------ MODULE Sctimer ------------------------------
(***************************************************************************)
(* The state configurable timer that rotates the antennas of an Opera Cake  *)
(* in time mode (operacake_sctimer.c): the program of dwell times, and the  *)
(* counter. What it counts are SCT clocks, two to a sample: the prescaler    *)
(* that makes them samples is set at boot, and cleared with the rest of      *)
(* SCT_CTRL by the first request that enables or programs the timer.         *)
(*                                                                         *)
(* Event i of the program fires when the counter reaches the end of dwell i *)
(* and selects the next port; the last event also resets the counter. An    *)
(* event switches the outputs only while the timer is enabled (state 1), so *)
(* that a disabled timer counts on. The five output bits are the number of   *)
(* one port, so the port stands for them.                                   *)
(***************************************************************************)
EXTENDS Integers, Sequences

CONSTANTS
  Programs,     \* the dwell programs the host sends: sequences of [dwell, port]
  CounterMod    \* bound: the counter wraps here (at 2^32 in the device)

ASSUME ProgramAssumption ==
  /\ CounterMod \in Nat \ {0}
  /\ \A p \in Programs : Len(p) \in Nat \ {0} /\ \A i \in 1..Len(p) : p[i].dwell \in Nat

VARIABLES
  times,        \* the programmed dwell times; empty before the first program
  enabled,      \* SCT_STATE
  counter,      \* the SCT counter
  prescaled,    \* it counts every second clock, as set at boot
  output,       \* the port the timer's outputs select
  default_output,
  aligned       \* the counter and the output have followed `times' since a reset

timerVars == <<times, enabled, counter, prescaled, output, default_output, aligned>>

NoBits == 4     \* all output bits low: U1CTRL is inverted, so port bit 2 is set

TimerInit ==
  /\ times = <<>> /\ enabled = FALSE /\ counter = 0 /\ prescaled = TRUE
  /\ output = NoBits /\ default_output = NoBits /\ aligned = FALSE

\* What the loop of the code adds up: the end of each dwell.
Dwelled(p, i) ==
  LET sum[j \in 0..Len(p)] == IF j = 0 THEN 0 ELSE sum[j - 1] + p[j].dwell
  IN  sum[i]

\* mutant: only the first event fires one early
MatchFirstEarly(p, i) == IF i = 1 THEN Dwelled(p, i) - 1 ELSE Dwelled(p, i)

\* The counter value of event i, one early because the wrap costs a count, and the
\* port the event selects.
Match(p, i) == (Dwelled(p, i) - 1) % CounterMod
NextPort(p, i) == IF i = Len(p) THEN p[1].port ELSE p[i + 1].port

\* A count: one SCT clock, or two of them while prescaled.
Tick ==
  LET fired == {i \in 1..Len(times) : enabled /\ counter = Match(times, i)} IN
  /\ counter' = IF Len(times) \in fired THEN 0 ELSE (counter + 1) % CounterMod
  /\ IF fired = {} THEN UNCHANGED output
     ELSE \E i \in fired : output' = NextPort(times, i)
  /\ aligned' = (aligned /\ enabled)
  /\ UNCHANGED <<times, enabled, prescaled, default_output>>

\* Both of these halt the counter by assigning SCT_CTRL.
Enable(on) ==
  /\ enabled' = on /\ prescaled' = FALSE
  /\ UNCHANGED <<times, counter, output, default_output, aligned>>

\* A new program neither clears the counter nor waits for it.
SetDwellTimes(p) ==
  /\ times' = p /\ default_output' = p[1].port /\ output' = p[1].port
  /\ aligned' = (counter = 0) /\ prescaled' = FALSE
  /\ UNCHANGED <<enabled, counter>>

ResetState ==
  /\ counter' = 0 /\ output' = default_output /\ aligned' = (times # <<>>)
  /\ UNCHANGED <<times, enabled, prescaled, default_output>>

-----------------------------------------------------------------------------
(* From a reset on, with the timer enabled and its program left alone, the   *)
(* timer selects at every SCT clock the antenna in whose dwell that clock    *)
(* falls, and the rotation repeats with the sum of the dwells: no dwell is a  *)
(* clock short, none is skipped. Dwells are SCT clocks, half-samples, since   *)
(* whatever programmed them cleared the prescaler. The host may send programs *)
(* for which this has no meaning: a dwell of nothing, or more than the       *)
(* counter counts.                                                          *)
Fits(p) == Dwelled(p, Len(p)) <= CounterMod /\ \A i \in 1..Len(p) : p[i].dwell > 0

PortAt(p, c) == p[CHOOSE k \in 1..Len(p) : Dwelled(p, k - 1) <= c /\ c < Dwelled(p, k)].port
DwellInPhase ==
  aligned /\ Fits(times) =>
    ~prescaled /\ counter < Dwelled(times, Len(times)) /\ output = PortAt(times, counter)

=============================================================================
