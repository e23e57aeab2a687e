----------------------------- MODULE OperacakeInv -----------------------------
(***************************************************************************)
(* The inductive invariant of the boards: what holds of each board whose     *)
(* last command was carried out undisturbed, and how far the main loop is in *)
(* operacake_set_range() when no request has disturbed it. And that of the   *)
(* timer, which no board has a part in.                                     *)
(***************************************************************************)
EXTENDS Operacake

BoardTypes ==
  /\ present \subseteq Boards /\ known \subseteq Boards
  /\ mode \in [Boards -> Modes]
  /\ DOMAIN manual = Boards /\ DOMAIN out = Boards /\ DOMAIN conf = Boards
  /\ range_idx \in Nat /\ range \in Int /\ board \in Nat
  /\ pc \in {"idle", "search", "last", "compare", "boards", "activate", "store"}
  /\ pc \in {"idle", "search", "last", "compare"} => board = 0

\* What does not depend on ranges. Outside of time mode a board never has its
\* pins, known or not, so that its ports may be set again.
Commanded ==
  /\ \A b \in Boards : mode[b] # "TIME" => conf[b] = "outputs"
  /\ \A b \in known :
       /\ mode[b] = "MANUAL" /\ Valid(manual[b]) => out[b] = manual[b]
       /\ mode[b] = "TIME" => conf[b] = "pins" /\ out[b] = "gpio" /\ timer_pins
  /\ allow_gpio_mode => (enabled <=> AnyInTime(mode))
  /\ timer_pins => allow_gpio_mode

\* The board that follows the frequency, and that it is at the ports of range r.
First(b) == b \in Followers /\ \A c \in Followers : b <= c
AtRange(b, r) == Valid(RangePorts(ranges[r])) => out[b] = RangePorts(ranges[r])

\* The cached range is where the board is, and at rest the one it should be at.
Cached ==
  \A b \in known : First(b) /\ current_range # NoRange /\ range_idx > 0 =>
    /\ pc # "store" => AtRange(b, current_range)
    /\ Idle => current_range = Chosen(tuned)

\* operacake_set_range() in the main loop: the ranges before `range' do not match,
\* the boards before `board' do not follow.
Unmatched == range \in 0..range_idx /\ \A i \in 0..range - 1 : ~Matches(freq, ranges[i])
Walk ==
  ~Idle /\ known # {} =>
    /\ range_idx > 0 /\ freq = tuned
    /\ pc \in {"search", "last"} => Unmatched
    /\ pc = "last" /\ range < range_idx => Matches(freq, ranges[range])
    /\ pc \in {"compare", "boards", "activate", "store"} => range \in Nat /\ range = Chosen(freq)
    /\ pc \in {"boards", "activate"} => \A b \in Followers : board <= b
    /\ pc = "activate" => board \in Followers
    /\ pc = "store" => \A b \in Boards : First(b) => AtRange(b, range)

CommandInv == BoardTypes /\ Commanded /\ Cached /\ Walk

\* The program in the timer, the port a reset selects, and the counter in its dwell.
TimerInv ==
  /\ times = <<>> \/ times \in Programs
  /\ times # <<>> => default_output = times[1].port
  /\ counter \in 0..CounterMod - 1
  /\ aligned => times # <<>>
  /\ times # <<>> => ~prescaled
  /\ DwellInPhase

=============================================================================
