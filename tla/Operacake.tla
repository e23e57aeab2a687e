----------------------------- MODULE Operacake -----------------------------
(***************************************************************************)
(* The Opera Cake antenna switches (operacake.c, usb_api_operacake.c): up   *)
(* to eight boards, each under manual control, following the frequency, or  *)
(* rotated by the timer of Sctimer.                                        *)
(*                                                                         *)
(* The requests of the host run in the USB interrupt, each one action (two  *)
(* for a request with data). operacake_set_range() runs there too when the  *)
(* host retunes, but a mode that starts tunes in the main loop, with the    *)
(* interrupt enabled: there it is modelled step by step. Addresses of no      *)
(* board are left out: the mode request refuses them, and operacake_set_ports *)
(* with one, which writes beyond operacake_boards, has no defined effect.     *)
(***************************************************************************)
EXTENDS Sctimer, FiniteSetsExt

CONSTANTS
  Boards,       \* 0..OPERACAKE_MAX_BOARDS - 1
  MaxRanges,    \* MAX_OPERACAKE_RANGES
  Freqs,        \* the frequencies tuned, in MHz
  RangeLists,   \* the lists of [min, max, port] the host sends, at most MaxRanges long
  PortPairs,    \* the <<PA, PB>> the host sends
  Presence,     \* the sets of boards that may answer
  MaxRequests   \* bound: requests handled

ASSUME BoardsAssumption ==
  /\ Boards \subseteq Nat /\ \A b \in Boards : 0..b \subseteq Boards
  /\ Presence \subseteq SUBSET Boards
  /\ \A list \in RangeLists : Len(list) \in 0..MaxRanges

Modes == {"MANUAL", "FREQUENCY", "TIME", "undefined"}   \* any other byte is stored too
NoRange == -2           \* INVALID_RANGE: no int the search yields
NoList == <<>>          \* no data stage is due

VARIABLES
  present, mode,        \* operacake_boards[].present, .mode
  manual,               \* operacake_boards[]: <<PA, PB>>
  allow_gpio_mode,      \* what the user interface leaves free, fixed at boot
  out, conf,            \* each board's output and configuration registers
  timer_pins,           \* the pins to the boards are the timer's outputs
  ranges, range_idx, current_range,
  due,                  \* what the data stage of the last request brings
  pc, freq, range, board, \* operacake_set_range() in the main loop, its argument and locals
  tuned,                \* the frequency last passed to it
  known,                \* the boards whose last command was carried out undisturbed
  requests

boardVars == <<present, mode, manual, allow_gpio_mode, timer_pins>>
hwVars == <<out, conf>>
rangeVars == <<ranges, range_idx, current_range>>
localVars == <<pc, freq, range, board>>
vars == <<timerVars, boardVars, hwVars, rangeVars, due, localVars, tuned, known, requests>>

Idle == pc = "idle"

-----------------------------------------------------------------------------
(* operacake_activate_ports(): the pair must be in range, on opposite sides. *)
Valid(p) == p[1] \in 0..7 /\ p[2] \in 0..7 /\ (p[1] <= 3) # (p[2] <= 3)
Activated(o, b, p) == IF Valid(p) THEN [o EXCEPT ![b] = p] ELSE o

RangePorts(r) == <<r.port, (r.port + 4) % 8>>
Matches(f, r) == r.min <= f /\ f <= r.max

Init ==
  /\ TimerInit
  /\ present \in Presence /\ allow_gpio_mode \in BOOLEAN /\ timer_pins = allow_gpio_mode
  /\ mode = [b \in Boards |-> "MANUAL"] /\ manual = [b \in Boards |-> <<0, 0>>]
  /\ out = [b \in Boards |-> <<0, 4>>] /\ conf = [b \in Boards |-> "outputs"]
  /\ ranges = [i \in 0..MaxRanges - 1 |-> [min |-> 0, max |-> 0, port |-> 0]]
  /\ range_idx = 0 /\ current_range = NoRange /\ due = NoList
  /\ pc = "idle" /\ freq = 0 /\ range = 0 /\ board = 0
  /\ tuned = 0 /\ known = {} /\ requests = 0

-----------------------------------------------------------------------------
(* The requests. One that is handled while the main loop is in set_range()   *)
(* leaves no board known.                                                   *)

Handled(k) ==
  /\ requests < MaxRequests /\ requests' = requests + 1
  /\ known' = IF Idle THEN k ELSE {}
  /\ UNCHANGED <<present, allow_gpio_mode, localVars>>

SetPorts(b, p) ==
  /\ Handled(IF Valid(p) /\ mode[b] = "MANUAL" THEN known \cup {b} ELSE known)
  /\ manual' = IF Valid(p) THEN [manual EXCEPT ![b] = p] ELSE manual
  /\ out' = IF mode[b] = "MANUAL" THEN Activated(out, b, p) ELSE out
  /\ due' = NoList
  /\ UNCHANGED <<timerVars, mode, conf, timer_pins, rangeVars, tuned>>

AnyInTime(m) == \E b \in Boards : m[b] = "TIME"

\* The mode is stored first; without GPIO the rest of a switch to TIME is refused.
\* A board switched to it is on pins that may no longer be the timer's.
SetMode(b, m) ==
  /\ mode' = [mode EXCEPT ![b] = m] /\ current_range' = NoRange
  /\ due' = NoList
  /\ IF m = "TIME" /\ ~allow_gpio_mode
     THEN UNCHANGED <<timerVars, hwVars>>
     ELSE /\ conf' = [conf EXCEPT ![b] = IF m = "TIME" THEN "pins" ELSE "outputs"]
          /\ out' = IF m = "TIME" THEN [out EXCEPT ![b] = "gpio"]
                                 ELSE Activated(out, b, manual[b])
          /\ Enable(AnyInTime(mode'))
  /\ Handled(IF m = "TIME" /\ ~timer_pins THEN known \ {b} ELSE known \cup {b})
  /\ UNCHANGED <<manual, timer_pins, ranges, range_idx, tuned>>

\* Setup clears the ranges, the data stage adds the new ones, from index 0 on. The
\* list is what it adds: a part of an entry at the end is one more, completed with
\* what an earlier request left in the buffer.
SetRangesSetup(list) ==
  /\ range_idx' = 0 /\ due' = list /\ Handled(known)
  /\ UNCHANGED <<timerVars, mode, manual, hwVars, timer_pins, ranges, current_range, tuned>>

\* mutant: adding ranges leaves the cached one
KeepRange == current_range

InvalidRange == NoRange

SetRangesData ==
  /\ due \in RangeLists
  /\ ranges' = [i \in DOMAIN ranges |-> IF i < Len(due) THEN due[i + 1] ELSE ranges[i]]
  /\ range_idx' = Len(due) /\ current_range' = InvalidRange
  /\ due' = NoList /\ Handled(known)
  /\ UNCHANGED <<timerVars, mode, manual, hwVars, timer_pins, tuned>>

SetDwellSetup(p) ==
  /\ due' = p /\ Handled(known)
  /\ UNCHANGED <<timerVars, mode, manual, hwVars, timer_pins, rangeVars, tuned>>

SetDwellData ==
  /\ due \in Programs /\ SetDwellTimes(due)
  /\ due' = NoList /\ Handled(known)
  /\ UNCHANGED <<mode, manual, hwVars, timer_pins, rangeVars, tuned>>

\* gpio_test() ends with the output register at its default, whatever the mode, and
\* with the pins of the timer, which all boards share, as inputs: only boot makes
\* them the timer's again.
GpioTest(b) ==
  /\ allow_gpio_mode
  /\ out' = [out EXCEPT ![b] = <<0, 4>>] /\ conf' = [conf EXCEPT ![b] = "outputs"]
  /\ timer_pins' = FALSE
  /\ due' = NoList /\ Handled({c \in known \ {b} : mode[c] # "TIME"})
  /\ UNCHANGED <<timerVars, mode, manual, rangeVars, tuned>>

-----------------------------------------------------------------------------
(* operacake_set_range(): the first range that matches, or else the last;    *)
(* nothing to do when it is the current one; the first present board in       *)
(* frequency mode follows, and only that one.                               *)

Chosen(f) ==
  LET matching == {i \in 0..range_idx - 1 : Matches(f, ranges[i])}
  IN IF matching = {} THEN range_idx - 1 ELSE Min(matching)

Followers == {b \in present : mode[b] = "FREQUENCY"}
Moved(o, p) == IF Followers = {} THEN o ELSE Activated(o, Min(Followers), p)

\* In the interrupt: a retune by the host.
Retune(f) ==
  /\ tuned' = f /\ Handled(known)
  /\ IF range_idx = 0 \/ Chosen(f) = current_range THEN UNCHANGED <<out, current_range>>
     ELSE out' = Moved(out, RangePorts(ranges[Chosen(f)])) /\ current_range' = Chosen(f)
  /\ UNCHANGED <<timerVars, mode, manual, conf, timer_pins, ranges, range_idx, due>>

IsrNext ==
  \/ \E b \in Boards, p \in PortPairs : SetPorts(b, p)
  \/ \E b \in Boards, m \in Modes : SetMode(b, m)
  \/ \E list \in RangeLists : SetRangesSetup(list)
  \/ \E p \in Programs : SetDwellSetup(p)
  \/ \E b \in Boards : GpioTest(b)
  \/ \E f \in Freqs : Retune(f)
  \/ SetRangesData \/ SetDwellData

(* In the main loop: each read of what the requests change is a step.        *)
Still == UNCHANGED <<timerVars, boardVars, conf, ranges, range_idx, due, known, requests>>

Enter(f) ==
  /\ Idle /\ tuned' = f
  /\ IF range_idx = 0 THEN UNCHANGED localVars
     ELSE pc' = "search" /\ freq' = f /\ range' = 0 /\ UNCHANGED board
  /\ UNCHANGED <<out, current_range>> /\ Still

Search ==
  /\ pc = "search"
  /\ IF range < range_idx /\ ~Matches(freq, ranges[range])
     THEN range' = range + 1 /\ UNCHANGED pc
     ELSE pc' = "last" /\ UNCHANGED range
  /\ UNCHANGED <<out, current_range, freq, board, tuned>> /\ Still

\* Cleared since the search began, the index may become -1.
Last ==
  /\ pc = "last" /\ pc' = "compare"
  /\ range' = IF range = range_idx THEN range - 1 ELSE range
  /\ UNCHANGED <<out, current_range, freq, board, tuned>> /\ Still

Compare ==
  /\ pc = "compare"
  /\ pc' = IF range = current_range THEN "idle" ELSE "boards"
  /\ UNCHANGED <<out, current_range, freq, range, board, tuned>> /\ Still

Look ==
  /\ pc = "boards"
  /\ IF board \notin Boards THEN pc' = "store" /\ UNCHANGED board
     ELSE IF board \in Followers THEN pc' = "activate" /\ UNCHANGED board
     ELSE board' = board + 1 /\ UNCHANGED pc
  /\ UNCHANGED <<out, current_range, freq, range, tuned>> /\ Still

\* What ranges[-1] holds is whatever precedes the array.
Activate ==
  /\ pc = "activate" /\ pc' = "store"
  /\ IF range >= 0 THEN out' = Activated(out, board, RangePorts(ranges[range]))
                   ELSE \E p \in PortPairs : out' = Activated(out, board, p)
  /\ UNCHANGED <<current_range, freq, range, board, tuned>> /\ Still

StoreRange ==
  /\ pc = "store" /\ pc' = "idle" /\ board' = 0
  /\ current_range' = IF range >= 0 THEN range ELSE NoRange
  /\ UNCHANGED <<out, freq, range, tuned>> /\ Still

\* transceiver_shutdown()
Shutdown ==
  /\ Idle /\ ResetState
  /\ UNCHANGED <<boardVars, hwVars, rangeVars, due, localVars, tuned, known, requests>>

SctClock ==
  /\ allow_gpio_mode /\ Tick
  /\ UNCHANGED <<boardVars, hwVars, rangeVars, due, localVars, tuned, known, requests>>

MainNext ==
  \/ \E f \in Freqs : Enter(f)
  \/ Search \/ Last \/ Compare \/ Look \/ Activate \/ StoreRange \/ Shutdown

Next == IsrNext \/ MainNext \/ SctClock
Spec == Init /\ [][Next]_vars

-----------------------------------------------------------------------------
(* Whatever the order of the commands, a board whose last command was         *)
(* carried out undisturbed is as commanded: under manual control at the       *)
(* ports set last, even those set while another mode was on; in time mode     *)
(* on the pins, and these the timer's; in frequency mode, for the first such board, at the   *)
(* ports of the range for the frequency tuned last, once one was tuned since  *)
(* the last command that touches modes or ranges, whatever the cached range   *)
(* let it skip. And the timer switches exactly while a board is in time mode. *)
(*                                                                         *)
(* Not promised are: the ports while none were set, because boot stores the   *)
(* pins of A1 and B1 in place of their numbers, so that a board returning     *)
(* from time mode stays on the timer's pins; and a board after a refused      *)
(* switch to TIME, which is stored all the same, or after a request that      *)
(* overlapped a tuning in the main loop. After a GPIO test nothing is         *)
(* promised of the board tested and, until the next boot, of any board in     *)
(* time mode: the test takes the timer's pins and does not give them back.    *)
FollowsRange(b) ==
  current_range # NoRange /\ range_idx > 0 /\ b = Min(Followers)
    => LET p == RangePorts(ranges[Chosen(tuned)]) IN Valid(p) => out[b] = p

BoardsAsCommanded ==
  Idle =>
    /\ \A b \in known \cap present :
         CASE mode[b] = "MANUAL" -> conf[b] = "outputs" /\ (Valid(manual[b]) => out[b] = manual[b])
           [] mode[b] = "TIME" -> conf[b] = "pins" /\ out[b] = "gpio" /\ timer_pins
           [] mode[b] = "FREQUENCY" -> conf[b] = "outputs" /\ FollowsRange(b)
           [] mode[b] = "undefined" -> conf[b] = "outputs"
    /\ allow_gpio_mode => (enabled <=> AnyInTime(mode))

=============================================================================
