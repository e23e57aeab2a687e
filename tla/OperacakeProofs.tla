--------------------------- MODULE OperacakeProofs ---------------------------
(***************************************************************************)
(* BoardsAsCommanded, for every number of boards, every set of commands and  *)
(* every dwell program: CommandInv is inductive. One lemma per kind of       *)
(* request and per step of operacake_set_range() in the main loop. And       *)
(* DwellInPhase, for every program: what the dwells add up to, where a count *)
(* falls, and then one lemma per step of the timer.                         *)
(***************************************************************************)
EXTENDS OperacakeInv, TLAPS, WellFoundedInduction

USE DEF boardVars, hwVars, rangeVars, localVars, Still

-----------------------------------------------------------------------------
(* The first of a set of numbers *)

\* What Min chooses, if there is one.
LEMMA MinIs ==
  ASSUME NEW S, S \subseteq Int, NEW x \in S, \A y \in S : x <= y
  PROVE  Min(S) = x
<1>1. Min(S) \in S /\ \A y \in S : Min(S) <= y
  BY Zenon DEF Min
<1>2. x \in Int /\ Min(S) \in Int /\ x <= Min(S) /\ Min(S) <= x
  BY <1>1
<1> QED
  BY <1>2

\* Being smaller is well-founded on the natural numbers.
Smaller == {s \in Nat \X Nat : s[1] < s[2]}
LEMMA SmallerWellFounded == IsWellFoundedOn(Smaller, Nat)
<1>1. OpToRel(<, Nat) = Smaller
  BY Zenon DEF OpToRel, Smaller
<1> QED
  BY <1>1, NatLessThanWellFounded, Zenon

\* So a set of natural numbers has a first one.
LEMMA MinExists ==
  ASSUME NEW S, S \subseteq Nat, S # {}
  PROVE  Min(S) \in S /\ \A y \in S : Min(S) <= y
<1>1. PICK x \in S : \A y \in S : <<y, x>> \notin Smaller
  BY SmallerWellFounded, WFMin
<1>2. ASSUME NEW y \in S
      PROVE  x <= y
  <2>1. x \in Nat /\ y \in Nat
    OBVIOUS
  <2>2. y < x => <<y, x>> \in Smaller
    BY <2>1 DEF Smaller
  <2> QED
    BY <1>1, <2>1, <2>2
<1>3. S \subseteq Int
  OBVIOUS
<1>4. Min(S) = x
  BY <1>2, <1>3, MinIs
<1> QED
  BY <1>2, <1>4

\* The board that follows the frequency is the one the code finds first.
LEMMA FirstIs ==
  ASSUME BoardTypes, NEW b, First(b)
  PROVE  b \in Boards /\ b \in Nat /\ Followers # {} /\ Min(Followers) = b
<1>1. Followers \subseteq Nat /\ Followers \subseteq Boards
  BY BoardsAssumption DEF BoardTypes, Followers
<1>2. Followers \subseteq Int /\ b \in Followers /\ \A c \in Followers : b <= c
  BY <1>1 DEF First
<1>3. Min(Followers) = b
  BY <1>2, MinIs
<1> QED
  BY <1>1, <1>2, <1>3

\* If any board does, one does first, and no other moves.
LEMMA MovedFirst ==
  ASSUME BoardTypes, NEW p
  PROVE  /\ DOMAIN Moved(out, p) = Boards
         /\ \A b \in Boards : First(b) => (Valid(p) => Moved(out, p)[b] = p)
         /\ \A b \in Boards : mode[b] # "FREQUENCY" => Moved(out, p)[b] = out[b]
<1>1. CASE Followers = {}
  BY <1>1 DEF Moved, BoardTypes, First
<1>2. CASE Followers # {}
  <2>1. Followers \subseteq Nat /\ Followers \subseteq Boards
    BY BoardsAssumption DEF BoardTypes, Followers
  <2>2. Min(Followers) \in Followers /\ Min(Followers) \in Boards
    BY <1>2, <2>1, MinExists
  <2>3. mode[Min(Followers)] = "FREQUENCY"
    BY <2>2 DEF Followers
  <2>4. Moved(out, p) = IF Valid(p) THEN [out EXCEPT ![Min(Followers)] = p] ELSE out
    BY <1>2 DEF Moved, Activated
  <2>5. \A b \in Boards : First(b) => Min(Followers) = b
    BY FirstIs
  <2> QED
    BY <2>2, <2>3, <2>4, <2>5 DEF BoardTypes
<1> QED
  BY <1>1, <1>2

-----------------------------------------------------------------------------
(* The requests *)

\* A request that comes while the main loop is in operacake_set_range() leaves
\* nothing known, and at rest the walk says nothing.
LEMMA HandledFacts ==
  ASSUME BoardTypes, NEW k, k \subseteq Boards, Handled(k)
  PROVE  /\ known' = IF Idle THEN k ELSE {}
         /\ known' \subseteq Boards /\ present' \subseteq Boards
         /\ pc' = pc /\ board' = board /\ range' = range /\ freq' = freq
         /\ range' \in Int /\ board' \in Nat
         /\ pc' \in {"idle", "search", "last", "compare", "boards", "activate", "store"}
         /\ pc' \in {"idle", "search", "last", "compare"} => board' = 0
         /\ Idle' <=> Idle
         /\ Walk'
         /\ present' = present /\ allow_gpio_mode' = allow_gpio_mode
BY DEF Handled, Walk, Idle, BoardTypes

\* Ports that are not valid are ignored.
LEMMA ActivatedIs ==
  ASSUME NEW o, DOMAIN o = Boards, NEW b \in Boards, NEW p
  PROVE  /\ DOMAIN Activated(o, b, p) = Boards
         /\ Valid(p) => Activated(o, b, p)[b] = p
         /\ \A c \in Boards : c # b => Activated(o, b, p)[c] = o[c]
BY DEF Activated

\* The ports of a board under manual control are set at once, those of any other
\* are kept for later.
LEMMA SetPortsKeeps ==
  ASSUME CommandInv, NEW b \in Boards, NEW p, SetPorts(b, p)
  PROVE  CommandInv'
<1> USE DEF CommandInv, SetPorts
<1> DEFINE k == IF Valid(p) /\ mode[b] = "MANUAL" THEN known \cup {b} ELSE known
<1>1. k \subseteq Boards /\ Handled(k)
  BY DEF BoardTypes
<1> HIDE DEF k
<1>2. /\ known' = IF Idle THEN k ELSE {}
      /\ Idle' <=> Idle
      /\ Walk' /\ present' = present /\ allow_gpio_mode' = allow_gpio_mode /\ pc' = pc
  BY <1>1, HandledFacts
<1>3. BoardTypes'
  BY <1>1, HandledFacts, ActivatedIs DEF BoardTypes
<1>4. /\ UNCHANGED <<enabled, mode, conf, timer_pins, ranges, range_idx, current_range, tuned>>
      /\ Followers' = Followers /\ \A c \in Boards : First(c)' <=> First(c)
  BY <1>2 DEF timerVars, Followers, First
<1>5. \A c \in Boards : (c # b \/ mode[b] # "MANUAL") => out'[c] = out[c]
  BY ActivatedIs DEF BoardTypes
<1>6. /\ Valid(p) => manual'[b] = p
      /\ mode[b] = "MANUAL" /\ Valid(p) => out'[b] = p
      /\ \A c \in Boards : (c # b \/ ~Valid(p)) => manual'[c] = manual[c]
      /\ ~Valid(p) => out' = out
  BY ActivatedIs DEF BoardTypes, Activated
<1>7. Commanded'
  <2>1. ASSUME NEW c \in known'
        PROVE  /\ mode[c] = "MANUAL" /\ Valid(manual'[c]) => out'[c] = manual'[c]
               /\ mode[c] = "TIME" => conf[c] = "pins" /\ out'[c] = "gpio" /\ timer_pins
    <3>1. c \in k /\ c \in Boards
      BY <1>1, <1>2, <2>1
    <3>2. c \in known \/ (c = b /\ Valid(p) /\ mode[b] = "MANUAL")
      BY <3>1 DEF k
    <3> QED
      BY <1>5, <1>6, <3>1, <3>2 DEF Commanded
  <2> QED
    BY <1>2, <1>4, <2>1 DEF Commanded, AnyInTime
<1>8. Cached'
  <2> SUFFICES ASSUME NEW c \in known', First(c), current_range # NoRange, range_idx > 0
               PROVE  /\ pc # "store" => AtRange(c, current_range)'
                      /\ Idle => current_range = Chosen(tuned)
    BY <1>2, <1>3, <1>4 DEF Cached, BoardTypes, Chosen, Matches
  <2>1. c \in k /\ c \in Boards /\ mode[c] = "FREQUENCY"
    BY <1>1, <1>2 DEF First, Followers
  <2>2. c \in known /\ out'[c] = out[c]
    BY <1>5, <2>1 DEF k
  <2>3. /\ pc # "store" => AtRange(c, current_range)
        /\ Idle => current_range = Chosen(tuned)
    BY <2>2 DEF Cached
  <2> QED
    BY <1>4, <2>2, <2>3 DEF AtRange, RangePorts, Valid
<1> QED
  BY <1>2, <1>3, <1>7, <1>8

\* A board is put on the timer's pins, or back on its outputs at the ports stored
\* for it; a refused switch leaves it unknown. The cached range is forgotten.
LEMMA SetModeKeeps ==
  ASSUME CommandInv, NEW b \in Boards, NEW m \in Modes, SetMode(b, m)
  PROVE  CommandInv'
<1> USE DEF CommandInv, SetMode
<1> DEFINE refused == m = "TIME" /\ ~allow_gpio_mode
           k == IF m = "TIME" /\ ~timer_pins THEN known \ {b} ELSE known \cup {b}
<1>1. k \subseteq Boards /\ Handled(k)
  BY DEF BoardTypes
<1> HIDE DEF k
<1>2. /\ known' = IF Idle THEN k ELSE {}
      /\ Idle' <=> Idle
      /\ Walk' /\ present' = present /\ allow_gpio_mode' = allow_gpio_mode /\ pc' = pc
  BY <1>1, HandledFacts
<1>3. BoardTypes'
  BY <1>1, HandledFacts, ActivatedIs DEF BoardTypes
<1>4. mode'[b] = m /\ \A c \in Boards : c # b => mode'[c] = mode[c]
  BY DEF BoardTypes
<1>5. \A c \in Boards : c # b => out'[c] = out[c] /\ conf'[c] = conf[c]
  BY ActivatedIs DEF BoardTypes
<1>6. ~refused => /\ m = "TIME" => conf'[b] = "pins" /\ out'[b] = "gpio"
                  /\ m # "TIME" => conf'[b] = "outputs"
                  /\ m # "TIME" /\ Valid(manual[b]) => out'[b] = manual[b]
                  /\ enabled' = AnyInTime(mode')
  BY ActivatedIs DEF BoardTypes, Enable
<1>7. Commanded'
  <2>1. ASSUME NEW c \in Boards, mode'[c] # "TIME"
        PROVE  conf'[c] = "outputs"
    BY <1>4, <1>5, <1>6, <2>1 DEF Commanded
  <2>2. ASSUME NEW c \in known'
        PROVE  /\ mode'[c] = "MANUAL" /\ Valid(manual[c]) => out'[c] = manual[c]
               /\ mode'[c] = "TIME" => conf'[c] = "pins" /\ out'[c] = "gpio" /\ timer_pins
    <3>1. c \in k /\ c \in Boards
      BY <1>1, <1>2, <2>2
    <3>2. (c \in known /\ c # b) \/ (c = b /\ ~refused /\ (m = "TIME" => timer_pins))
      BY <3>1 DEF k, Commanded
    <3> QED
      BY <1>4, <1>5, <1>6, <3>1, <3>2 DEF Commanded
  <2>3. allow_gpio_mode' => (enabled' <=> AnyInTime(mode'))
    BY <1>2, <1>6
  <2>4. timer_pins' = timer_pins /\ (timer_pins' => allow_gpio_mode')
    BY <1>2 DEF Commanded
  <2> QED
    BY <2>1, <2>2, <2>3, <2>4 DEF Commanded
<1>8. Cached'
  BY DEF Cached
<1> QED
  BY <1>2, <1>3, <1>7, <1>8

\* While the list of ranges is empty or new no range is cached.
LEMMA SetRangesKeeps ==
  ASSUME CommandInv, (\E list \in RangeLists : SetRangesSetup(list)) \/ SetRangesData
  PROVE  CommandInv'
<1> USE DEF CommandInv
<1>1. known \subseteq Boards /\ Handled(known)
  BY DEF BoardTypes, SetRangesSetup, SetRangesData
<1>2. /\ known' \subseteq known
      /\ Walk' /\ present' = present /\ allow_gpio_mode' = allow_gpio_mode /\ pc' = pc
  BY <1>1, HandledFacts
<1>3. UNCHANGED <<enabled, mode, manual, out, conf, timer_pins>>
  BY DEF SetRangesSetup, SetRangesData, timerVars
<1>4. range_idx' \in Nat /\ (range_idx' = 0 \/ current_range' = NoRange)
  BY BoardsAssumption DEF SetRangesSetup, SetRangesData, InvalidRange
<1>5. BoardTypes'
  BY <1>1, <1>3, <1>4, HandledFacts DEF BoardTypes
<1>6. Commanded'
  BY <1>2, <1>3 DEF Commanded, AnyInTime
<1>7. Cached'
  BY <1>4 DEF Cached
<1> QED
  BY <1>2, <1>5, <1>6, <1>7

\* What neither boards, modes nor ranges notice.
LEMMA OthersKept ==
  ASSUME CommandInv, known' \subseteq known, known' # {} => (Idle' <=> Idle), Walk', BoardTypes',
         UNCHANGED <<enabled, present, allow_gpio_mode, mode, manual, conf, timer_pins, rangeVars, pc, tuned>>,
         \A b \in known' : out'[b] = out[b]
  PROVE  Commanded' /\ Cached'
<1> USE DEF CommandInv
<1>1. Commanded'
  BY DEF Commanded, AnyInTime
<1>2. \A b \in known' : First(b)' <=> First(b)
  BY DEF First, Followers
<1>3. ASSUME NEW b \in known', First(b), current_range # NoRange, range_idx > 0
      PROVE  /\ pc # "store" => AtRange(b, current_range)'
             /\ Idle => current_range = Chosen(tuned)
  <2>1. /\ pc # "store" => AtRange(b, current_range)
        /\ Idle => current_range = Chosen(tuned)
    BY <1>3 DEF Cached
  <2> QED
    BY <2>1 DEF AtRange, RangePorts, Valid
<1>4. Cached'
  BY <1>2, <1>3 DEF Cached, Chosen, Matches, Idle
<1> QED
  BY <1>1, <1>4

\* A dwell program is for the timer alone.
LEMMA SetDwellKeeps ==
  ASSUME CommandInv, (\E p \in Programs : SetDwellSetup(p)) \/ SetDwellData
  PROVE  CommandInv'
<1> USE DEF CommandInv
<1>1. known \subseteq Boards /\ Handled(known)
  BY DEF BoardTypes, SetDwellSetup, SetDwellData
<1>2. UNCHANGED <<enabled, mode, manual, out, conf, timer_pins, rangeVars, tuned>>
  BY DEF SetDwellSetup, SetDwellData, SetDwellTimes, timerVars
<1>3. /\ known' \subseteq known /\ (Idle' <=> Idle) /\ Walk'
      /\ UNCHANGED <<present, allow_gpio_mode, pc>>
  BY <1>1, HandledFacts
<1>4. BoardTypes'
  BY <1>1, <1>2, HandledFacts DEF BoardTypes
<1> QED
  BY <1>2, <1>3, <1>4, OthersKept

\* The GPIO test leaves its board on outputs, and unknown, as is then every board
\* in time mode.
LEMMA GpioTestKeeps ==
  ASSUME CommandInv, NEW b \in Boards, GpioTest(b)
  PROVE  CommandInv'
<1> USE DEF CommandInv, GpioTest
<1> DEFINE k == {c \in known \ {b} : mode[c] # "TIME"}
<1>1. k \subseteq Boards /\ Handled(k)
  BY DEF BoardTypes
<1>2. /\ known' \subseteq k /\ (Idle' <=> Idle) /\ Walk'
      /\ UNCHANGED <<present, allow_gpio_mode, pc>>
  BY <1>1, HandledFacts
<1>3. BoardTypes'
  BY <1>1, HandledFacts DEF BoardTypes
<1>4. conf'[b] = "outputs" /\ \A c \in Boards : c # b => out'[c] = out[c] /\ conf'[c] = conf[c]
  BY DEF BoardTypes
<1>5. UNCHANGED <<enabled, mode, manual, rangeVars, tuned>>
  BY DEF timerVars
<1>6. Commanded'
  BY <1>1, <1>2, <1>4, <1>5 DEF Commanded, AnyInTime
<1>7. Cached'
  <2> SUFFICES ASSUME NEW c \in known', First(c), current_range # NoRange, range_idx > 0
               PROVE  /\ pc # "store" => AtRange(c, current_range)'
                      /\ Idle => current_range = Chosen(tuned)
    BY <1>2, <1>5 DEF Cached, Chosen, Matches, First, Followers
  <2>1. c \in known /\ out'[c] = out[c]
    BY <1>1, <1>2, <1>4
  <2>2. /\ pc # "store" => AtRange(c, current_range)
        /\ Idle => current_range = Chosen(tuned)
    BY <2>1 DEF Cached
  <2> QED
    BY <1>5, <2>1, <2>2 DEF AtRange, RangePorts, Valid
<1> QED
  BY <1>2, <1>3, <1>6, <1>7

\* A retune in the interrupt moves the board that follows to the range chosen,
\* unless that is the cached one, where the board already is.
LEMMA RetuneKeeps ==
  ASSUME CommandInv, NEW f, Retune(f)
  PROVE  CommandInv'
<1> USE DEF CommandInv, Retune
<1>1. known \subseteq Boards /\ Handled(known)
  BY DEF BoardTypes
<1>2. /\ known' = IF Idle THEN known ELSE {}
      /\ Idle' <=> Idle
      /\ Walk' /\ UNCHANGED <<present, allow_gpio_mode, pc>>
  BY <1>1, HandledFacts
<1>3. UNCHANGED <<enabled, mode, manual, conf, timer_pins, ranges, range_idx>> /\ tuned' = f
  BY DEF timerVars
<1>4. Followers' = Followers /\ Chosen(tuned)' = Chosen(f) /\ \A b \in Boards : First(b)' <=> First(b)
  BY <1>2, <1>3 DEF Followers, First, Chosen, Matches
<1> DEFINE skipped == range_idx = 0 \/ Chosen(f) = current_range
           p == RangePorts(ranges[Chosen(f)])
<1>5. /\ DOMAIN out' = Boards
      /\ skipped => UNCHANGED <<out, current_range>>
      /\ ~skipped => out' = Moved(out, p) /\ current_range' = Chosen(f)
      /\ \A b \in Boards : mode[b] # "FREQUENCY" => out'[b] = out[b]
  BY MovedFirst DEF BoardTypes
<1>6. BoardTypes'
  BY <1>1, <1>3, <1>5, HandledFacts DEF BoardTypes
<1>7. Commanded'
  <2>1. \A b \in known' : b \in known /\ b \in Boards
    BY <1>1, <1>2
  <2> QED
    BY <1>2, <1>3, <1>5, <2>1 DEF Commanded, AnyInTime
<1>8. Cached'
  <2> SUFFICES ASSUME NEW b \in known', First(b), current_range' # NoRange, range_idx > 0
               PROVE  AtRange(b, current_range)' /\ current_range' = Chosen(f)
    BY <1>1, <1>2, <1>3, <1>4 DEF Cached
  <2>1. b \in known /\ b \in Boards /\ Idle
    BY <1>1, <1>2
  <2>2. CASE skipped
    <3>1. AtRange(b, current_range) /\ current_range = Chosen(f)
      BY <1>5, <2>1, <2>2 DEF Cached, Idle
    <3> QED
      BY <1>3, <1>5, <2>2, <3>1 DEF AtRange, RangePorts, Valid
  <2>3. CASE ~skipped
    <3>1. Valid(p) => out'[b] = p
      BY <1>5, <2>1, <2>3, MovedFirst
    <3>2. AtRange(b, current_range)' <=> (Valid(p) => out'[b] = p)
      BY <1>3, <1>5, <2>3 DEF AtRange, RangePorts, Valid
    <3> QED
      BY <1>5, <2>3, <3>1, <3>2
  <2> QED
    BY <2>2, <2>3
<1> QED
  BY <1>2, <1>6, <1>7, <1>8

-----------------------------------------------------------------------------
(* The main loop *)

\* What a walk of the main loop never touches.
LEMMA StillFacts ==
  ASSUME Still
  PROVE  /\ UNCHANGED <<enabled, present, allow_gpio_mode, mode, manual, conf, timer_pins>>
         /\ UNCHANGED <<ranges, range_idx, known>>
         /\ Followers' = Followers /\ \A b : First(b)' <=> First(b)
         /\ \A f : Chosen(f)' = Chosen(f)
BY DEF timerVars, Followers, First, Chosen, Matches

\* A step before the ports are set leaves every board as it is.
LEMMA LookingKeeps ==
  ASSUME CommandInv, Still, UNCHANGED <<out, current_range>>, BoardTypes',
         pc # "store",
         Idle' => \/ Idle /\ (range_idx = 0 \/ UNCHANGED tuned)
                  \/ current_range = Chosen(tuned')
  PROVE  Commanded' /\ Cached'
<1> USE DEF CommandInv
<1>1. Commanded'
  BY StillFacts DEF Commanded, AnyInTime
<1>2. ASSUME NEW b \in known, First(b), current_range # NoRange, range_idx > 0
      PROVE  AtRange(b, current_range)' /\ (Idle' => current_range = Chosen(tuned'))
  <2>1. AtRange(b, current_range) /\ (Idle => current_range = Chosen(tuned))
    BY <1>2 DEF Cached
  <2>2. AtRange(b, current_range)'
    BY <2>1, StillFacts DEF AtRange, RangePorts, Valid
  <2> QED
    BY <1>2, <2>1, <2>2
<1>3. Cached'
  BY <1>2, StillFacts DEF Cached
<1> QED
  BY <1>1, <1>3

\* The search begins with the first range, if there is one.
LEMMA EnterKeeps ==
  ASSUME CommandInv, NEW f, Enter(f)
  PROVE  CommandInv'
<1> USE DEF CommandInv, Enter, Idle
<1>1. BoardTypes'
  BY StillFacts DEF BoardTypes
<1>2. Commanded' /\ Cached'
  BY <1>1, LookingKeeps DEF BoardTypes
<1>3. Walk'
  BY StillFacts DEF Walk, Unmatched, BoardTypes
<1> QED
  BY <1>1, <1>2, <1>3

\* One range further, or on with the one that matches.
LEMMA SearchKeeps ==
  ASSUME CommandInv, Search
  PROVE  CommandInv'
<1> USE DEF CommandInv, Search, Idle
<1>1. BoardTypes'
  BY StillFacts DEF BoardTypes
<1>2. Commanded' /\ Cached'
  BY <1>1, LookingKeeps
<1>3. Walk'
  BY StillFacts DEF Walk, Unmatched, BoardTypes, Matches
<1> QED
  BY <1>1, <1>2, <1>3

\* The range that the search comes to is the one the interrupt would choose.
LEMMA LastChosen ==
  ASSUME range_idx \in Nat \ {0}, Unmatched, range < range_idx => Matches(freq, ranges[range])
  PROVE  /\ range < range_idx => Chosen(freq) = range
         /\ range = range_idx => Chosen(freq) = range - 1
<1> DEFINE matching == {i \in 0..range_idx - 1 : Matches(freq, ranges[i])}
<1>1. CASE range < range_idx
  <2>1. matching \subseteq Int /\ range \in matching /\ \A i \in matching : range <= i
    BY <1>1 DEF Unmatched
  <2>2. Min(matching) = range /\ matching # {}
    BY <2>1, MinIs
  <2> QED
    BY <1>1, <2>2 DEF Chosen, Unmatched
<1>2. CASE range = range_idx
  <2>1. matching = {}
    BY <1>2 DEF Unmatched
  <2> QED
    BY <1>2, <2>1 DEF Chosen
<1> QED
  BY <1>1, <1>2 DEF Unmatched

\* None has matched: the last one is taken.
LEMMA LastKeeps ==
  ASSUME CommandInv, Last
  PROVE  CommandInv'
<1> USE DEF CommandInv, Last, Idle
<1>1. BoardTypes'
  BY StillFacts DEF BoardTypes
<1>2. Commanded' /\ Cached'
  BY <1>1, LookingKeeps
<1>3. ASSUME known' # {}
      PROVE  range_idx > 0 /\ freq = tuned /\ range' \in Nat /\ range' = Chosen(freq)
  BY <1>3, StillFacts, LastChosen DEF Walk, Unmatched, BoardTypes
<1>4. Walk'
  BY <1>3, StillFacts DEF Walk
<1> QED
  BY <1>1, <1>2, <1>4

\* Nothing to do if the range is the cached one.
LEMMA CompareKeeps ==
  ASSUME CommandInv, Compare
  PROVE  CommandInv'
<1> USE DEF CommandInv, Compare, Idle
<1>1. BoardTypes'
  BY StillFacts DEF BoardTypes
<1>2. known # {} => range = Chosen(tuned)
  BY DEF Walk
<1>3. Commanded' /\ Cached'
  <2>1. CASE known = {}
    BY <2>1, StillFacts DEF Commanded, Cached, AnyInTime
  <2>2. CASE known # {}
    BY <1>1, <1>2, <2>2, LookingKeeps
  <2> QED
    BY <2>1, <2>2
<1>4. Walk'
  <2>1. Followers \subseteq Nat
    BY BoardsAssumption DEF Followers, BoardTypes
  <2>2. board = 0 /\ \A b \in Followers : board <= b
    BY <2>1 DEF BoardTypes
  <2>3. known # {} => range_idx > 0 /\ freq = tuned /\ range \in Nat /\ range = Chosen(freq)
    BY DEF Walk
  <2> QED
    BY <2>2, <2>3, StillFacts DEF Walk
<1> QED
  BY <1>1, <1>3, <1>4

\* The boards are looked at in order.
LEMMA LookKeeps ==
  ASSUME CommandInv, Look
  PROVE  CommandInv'
<1> USE DEF CommandInv, Look, Idle
<1>1. BoardTypes'
  BY StillFacts DEF BoardTypes
<1>2. Commanded' /\ Cached'
  BY <1>1, LookingKeeps
<1>3. Followers \subseteq Nat /\ Followers \subseteq Boards /\ board \in Nat
  BY BoardsAssumption DEF Followers, BoardTypes
<1>4. known # {} => \A b \in Followers : board <= b
  BY DEF Walk
<1>5. CASE board \notin Boards
  <2>1. known # {} => Followers = {}
    BY <1>3, <1>4, <1>5, BoardsAssumption
  <2> QED
    BY <1>1, <1>2, <1>5, <2>1, StillFacts DEF Walk, First
<1>6. CASE board \in Boards /\ board \in Followers
  BY <1>1, <1>2, <1>6, StillFacts DEF Walk
<1>7. CASE board \in Boards /\ board \notin Followers
  <2>1. known # {} => \A b \in Followers : board + 1 <= b
    BY <1>3, <1>4, <1>7
  <2> QED
    BY <1>1, <1>2, <1>7, <2>1, StillFacts DEF Walk
<1> QED
  BY <1>5, <1>6, <1>7

\* The first board that follows is set to the ports of the range, and no other.
LEMMA ActivateKeeps ==
  ASSUME CommandInv, Activate
  PROVE  CommandInv'
<1> USE DEF CommandInv, Activate, Idle
<1>1. PICK p : out' = Activated(out, board, p) /\ (range >= 0 => p = RangePorts(ranges[range]))
  BY Zenon
<1>2. DOMAIN out' = Boards /\ \A c \in Boards : c # board => out'[c] = out[c]
  BY <1>1 DEF Activated, BoardTypes
<1>3. BoardTypes'
  BY <1>2, StillFacts DEF BoardTypes
<1>4. CASE known = {}
  BY <1>3, <1>4, StillFacts DEF Commanded, Cached, Walk, AnyInTime
<1>5. CASE known # {}
  <2>1. /\ range_idx > 0 /\ freq = tuned /\ range \in Nat /\ range = Chosen(freq)
        /\ board \in Followers /\ \A b \in Followers : board <= b
    BY <1>5 DEF Walk
  <2>2. board \in Boards /\ mode[board] = "FREQUENCY" /\ known \subseteq Boards
    BY <2>1 DEF Followers, BoardTypes
  <2>3. Commanded'
    BY <1>2, <2>2, StillFacts DEF Commanded, AnyInTime
  <2>4. Cached'
    BY DEF Cached
  <2>5. \A b \in Boards : First(b) => AtRange(b, range)'
    <3>1. ASSUME NEW b \in Boards, First(b)
          PROVE  b = board
      BY <2>1, <3>1, FirstIs DEF First, BoardTypes
    <3>2. Valid(p) => out'[board] = p
      BY <1>1, <2>2, ActivatedIs DEF BoardTypes
    <3>3. p = RangePorts(ranges[range])
      BY <1>1, <2>1
    <3> QED
      BY <3>1, <3>2, <3>3 DEF AtRange, RangePorts, Valid
  <2>6. Walk'
    BY <2>1, <2>5, StillFacts DEF Walk
  <2> QED
    BY <1>3, <2>3, <2>4, <2>6
<1> QED
  BY <1>4, <1>5

\* The range is cached once the board is there.
LEMMA StoreRangeKeeps ==
  ASSUME CommandInv, StoreRange
  PROVE  CommandInv'
<1> USE DEF CommandInv, StoreRange, Idle
<1>1. BoardTypes'
  BY StillFacts DEF BoardTypes
<1>2. Commanded'
  BY StillFacts DEF Commanded, AnyInTime
<1>3. ASSUME NEW b \in known, First(b)
      PROVE  AtRange(b, current_range)' /\ current_range' = Chosen(tuned)
  <2>1. /\ freq = tuned /\ range \in Nat /\ range = Chosen(freq)
        /\ \A c \in Boards : First(c) => AtRange(c, range)
    BY <1>3 DEF Walk
  <2>2. b \in Boards /\ AtRange(b, range)
    BY <1>3, <2>1 DEF BoardTypes
  <2>3. current_range' = range
    BY <2>1
  <2> QED
    BY <2>1, <2>2, <2>3, StillFacts DEF AtRange, RangePorts, Valid
<1>4. Cached'
  BY <1>3, StillFacts DEF Cached
<1>5. Walk'
  BY DEF Walk
<1> QED
  BY <1>1, <1>2, <1>4, <1>5

\* The timer's own steps, and a transceiver that shuts down, touch no board and
\* leave the timer enabled or not.
LEMMA TimerKeeps ==
  ASSUME CommandInv,
         UNCHANGED <<enabled, boardVars, hwVars, rangeVars, due, localVars, tuned, known, requests>>
  PROVE  CommandInv'
<1> USE DEF CommandInv, Idle
<1>1. BoardTypes'
  BY DEF BoardTypes
<1>2. Walk'
  BY DEF Walk, Unmatched, Chosen, Matches, First, Followers, AtRange, RangePorts, Valid
<1> QED
  BY <1>1, <1>2, OthersKept DEF BoardTypes

-----------------------------------------------------------------------------
(* The invariant *)

\* At boot no board is known, and no tuning is under way.
LEMMA InitCommand == Init => CommandInv
BY BoardsAssumption
   DEF Init, TimerInit, CommandInv, BoardTypes, Commanded, Cached, Walk, AnyInTime, Modes, Idle

\* Every request, every step of operacake_set_range() and of the timer keeps it.
LEMMA StepKeepsCommand == CommandInv /\ [Next]_vars => CommandInv'
<1> SUFFICES ASSUME CommandInv, [Next]_vars
             PROVE  CommandInv'
  OBVIOUS
<1>1. CASE IsrNext
  BY <1>1, SetPortsKeeps, SetModeKeeps, SetRangesKeeps, SetDwellKeeps, GpioTestKeeps, RetuneKeeps
     DEF IsrNext
<1>2. CASE Shutdown
  BY <1>2, TimerKeeps DEF Shutdown, ResetState
<1>3. CASE MainNext /\ ~Shutdown
  BY <1>3, EnterKeeps, SearchKeeps, LastKeeps, CompareKeeps, LookKeeps, ActivateKeeps, StoreRangeKeeps
     DEF MainNext
<1>4. CASE SctClock
  BY <1>4, TimerKeeps DEF SctClock, Tick
<1>5. CASE UNCHANGED vars
  BY <1>5, TimerKeeps DEF vars, timerVars
<1> QED
  BY <1>1, <1>2, <1>3, <1>4, <1>5 DEF Next

\* In every reachable state the boards are where their commands put them, the
\* cached range is where the board that follows the frequency is, and the walk of
\* the main loop is on its way to the range the interrupt would choose.
THEOREM CommandInvariance == Spec => []CommandInv
BY InitCommand, StepKeepsCommand, PTL DEF Spec

\* Hence at rest every known board is as commanded: on the ports set last, on the
\* timer's pins, or at the range for the frequency tuned last, even when
\* operacake_set_range() found nothing to do; and the timer switches exactly
\* while a board is in time mode.
THEOREM BoardsFollowCommands == Spec => []BoardsAsCommanded
<1>1. ASSUME CommandInv
      PROVE  BoardsAsCommanded
  <2> SUFFICES ASSUME Idle
               PROVE  BoardsAsCommanded
    BY DEF BoardsAsCommanded
  <2> USE <1>1 DEF CommandInv
  <2>1. allow_gpio_mode => (enabled <=> AnyInTime(mode))
    BY DEF Commanded
  <2>2. ASSUME NEW b \in known \cap present, mode[b] = "FREQUENCY"
        PROVE  FollowsRange(b)
    <3> SUFFICES ASSUME current_range # NoRange, range_idx > 0, b = Min(Followers)
                 PROVE  Valid(RangePorts(ranges[Chosen(tuned)]))
                          => out[b] = RangePorts(ranges[Chosen(tuned)])
      BY Zenon DEF FollowsRange
    <3>1. Followers \subseteq Nat /\ b \in Followers
      BY <2>2, BoardsAssumption DEF Followers, BoardTypes
    <3>2. First(b)
      BY <3>1, MinExists DEF First
    <3>3. AtRange(b, current_range) /\ current_range = Chosen(tuned)
      BY <2>2, <3>2 DEF Cached, Idle
    <3> QED
      BY <3>3 DEF AtRange
  <2>3. ASSUME NEW b \in known \cap present
        PROVE  CASE mode[b] = "MANUAL" -> conf[b] = "outputs" /\ (Valid(manual[b]) => out[b] = manual[b])
                 [] mode[b] = "TIME" -> conf[b] = "pins" /\ out[b] = "gpio" /\ timer_pins
                 [] mode[b] = "FREQUENCY" -> conf[b] = "outputs" /\ FollowsRange(b)
                 [] mode[b] = "undefined" -> conf[b] = "outputs"
    <3>1. b \in Boards /\ mode[b] \in {"MANUAL", "FREQUENCY", "TIME", "undefined"}
      BY <2>3 DEF BoardTypes, Modes
    <3>2. CASE mode[b] = "MANUAL"
      BY <2>3, <3>1, <3>2 DEF Commanded
    <3>3. CASE mode[b] = "TIME"
      BY <2>3, <3>1, <3>3 DEF Commanded
    <3>4. CASE mode[b] = "FREQUENCY"
      BY <2>2, <2>3, <3>1, <3>4 DEF Commanded
    <3>5. CASE mode[b] = "undefined"
      BY <3>1, <3>5 DEF Commanded
    <3> QED
      BY <3>1, <3>2, <3>3, <3>4, <3>5
  <2> QED
    BY <2>1, <2>3 DEF BoardsAsCommanded
<1> QED
  BY <1>1, CommandInvariance, PTL

-----------------------------------------------------------------------------
(* The ends of the dwells *)

\* Induction, on a set: what has the first number and with each the next has all.
LEMMA UpTo ==
  ASSUME NEW n \in Nat, NEW S, 0 \in S, \A i \in 1..n : i - 1 \in S => i \in S
  PROVE  \A i \in 0..n : i \in S
<1> DEFINE left == {i \in 0..n : i \notin S}
<1>1. ASSUME left # {}
      PROVE  FALSE
  <2> DEFINE m == Min(left)
  <2>1. left \subseteq Nat
    OBVIOUS
  <2>2. m \in left /\ \A i \in left : m <= i
    <3> HIDE DEF left
    <3> QED
      BY <1>1, <2>1, MinExists
  <2> HIDE DEF m
  <2>3. m \in 1..n /\ m - 1 \notin left
    BY <2>2
  <2> QED
    BY <2>2, <2>3
<1> QED
  BY <1>1

\* A list of numbers can be added up.
LEMMA SumsExist ==
  ASSUME NEW n \in Nat, NEW d, \A i \in 1..n : d[i] \in Nat
  PROVE  \E f \in [0..n -> Nat] : f[0] = 0 /\ \A i \in 1..n : f[i] = f[i - 1] + d[i]
<1> DEFINE summed(m) == \E f \in [0..m -> Nat] : f[0] = 0 /\ \A i \in 1..m : f[i] = f[i - 1] + d[i]
           S == {m \in 0..n : summed(m)}
<1>1. 0 \in S
  <2> DEFINE f == [i \in 0..0 |-> 0]
  <2>1. f \in [0..0 -> Nat] /\ f[0] = 0 /\ \A i \in 1..0 : f[i] = f[i - 1] + d[i]
    OBVIOUS
  <2> HIDE DEF f
  <2> QED
    BY <2>1
<1>2. ASSUME NEW m \in 1..n, m - 1 \in S
      PROVE  m \in S
  <2>1. PICK f \in [0..(m - 1) -> Nat] : f[0] = 0 /\ \A i \in 1..(m - 1) : f[i] = f[i - 1] + d[i]
    BY <1>2
  <2> DEFINE g == [i \in 0..m |-> IF i < m THEN f[i] ELSE f[m - 1] + d[m]]
  <2>2. g \in [0..m -> Nat] /\ g[0] = 0
    BY <2>1
  <2>3. ASSUME NEW i \in 1..m
        PROVE  g[i] = g[i - 1] + d[i]
    <3>1. CASE i < m
      <4>1. g[i] = f[i] /\ g[i - 1] = f[i - 1] /\ i \in 1..(m - 1)
        BY <3>1
      <4> QED
        BY <2>1, <4>1
    <3>2. CASE i = m
      BY <3>2
    <3> QED
      BY <3>1, <3>2
  <2> HIDE DEF g
  <2>4. summed(m)
    BY <2>2, <2>3, Zenon
  <2>5. m \in 0..n
    OBVIOUS
  <2> HIDE DEF summed
  <2> QED
    BY <2>4, <2>5
<1>3. n \in S
  <2> HIDE DEF S
  <2> QED
    BY <1>1, <1>2, UpTo
<1> QED
  BY <1>3

\* So the code's loop computes what its recursion says, for every program.
LEMMA DwelledIs ==
  ASSUME NEW p, Len(p) \in Nat, \A i \in 1..Len(p) : p[i].dwell \in Nat
  PROVE  /\ \A i \in 0..Len(p) : Dwelled(p, i) \in Nat
         /\ Dwelled(p, 0) = 0
         /\ \A i \in 1..Len(p) : Dwelled(p, i) = Dwelled(p, i - 1) + p[i].dwell
<1> DEFINE d == [i \in 1..Len(p) |-> p[i].dwell]
           Further(f) == [j \in 0..Len(p) |-> IF j = 0 THEN 0 ELSE f[j - 1] + p[j].dwell]
           sum == CHOOSE f : f = Further(f)
<1>1. \E f \in [0..Len(p) -> Nat] : f[0] = 0 /\ \A i \in 1..Len(p) : f[i] = f[i - 1] + d[i]
  <2>1. \A i \in 1..Len(p) : d[i] \in Nat
    OBVIOUS
  <2> HIDE DEF d
  <2> QED
    BY <2>1, SumsExist
<1>2. PICK f \in [0..Len(p) -> Nat] : f[0] = 0 /\ \A i \in 1..Len(p) : f[i] = f[i - 1] + d[i]
  BY <1>1
<1>3. f = Further(f)
  BY <1>2
<1>4. sum = Further(sum)
  <2> HIDE DEF Further
  <2> QED
    BY <1>3, Zenon
<1>5. \A i : Dwelled(p, i) = sum[i]
  BY Zenon DEF Dwelled
<1> HIDE DEF sum
<1>6. sum[0] = 0 /\ \A i \in 1..Len(p) : sum[i] = sum[i - 1] + p[i].dwell
  <2>1. \A i \in 0..Len(p) : sum[i] = IF i = 0 THEN 0 ELSE sum[i - 1] + p[i].dwell
    <3>1. \A i \in 0..Len(p) : Further(sum)[i] = IF i = 0 THEN 0 ELSE sum[i - 1] + p[i].dwell
      OBVIOUS
    <3> QED
      BY <1>4, <3>1, Zenon
  <2>2. 0 \in 0..Len(p) /\ \A i \in 1..Len(p) : i \in 0..Len(p) /\ i # 0
    OBVIOUS
  <2> QED
    BY <2>1, <2>2, Zenon
<1>7. \A i \in 0..Len(p) : sum[i] \in Nat
  <2> DEFINE S == {i \in 0..Len(p) : sum[i] \in Nat}
  <2>1. 0 \in S /\ \A i \in 1..Len(p) : i - 1 \in S => i \in S
    BY <1>6
  <2>2. \A i \in 0..Len(p) : i \in S
    <3> HIDE DEF S
    <3> QED
      BY <2>1, UpTo
  <2> QED
    BY <2>2
<1> QED
  BY <1>5, <1>6, <1>7

\* The dwells end one after the other.
LEMMA DwellsInOrder ==
  ASSUME NEW p \in Programs, Fits(p)
  PROVE  \A i, j \in 0..Len(p) : i < j => Dwelled(p, i) < Dwelled(p, j)
<1>1. /\ Len(p) \in Nat \ {0}
      /\ \A i \in 0..Len(p) : Dwelled(p, i) \in Nat
      /\ \A i \in 1..Len(p) : Dwelled(p, i) = Dwelled(p, i - 1) + p[i].dwell
      /\ \A i \in 1..Len(p) : p[i].dwell \in Nat \ {0}
  BY ProgramAssumption, DwelledIs DEF Fits
<1> DEFINE S == {j \in 0..Len(p) : \A i \in 0..Len(p) : i < j => Dwelled(p, i) < Dwelled(p, j)}
<1>2. 0 \in S
  BY <1>1
<1>3. ASSUME NEW j \in 1..Len(p), j - 1 \in S
      PROVE  j \in S
  <2>1. ASSUME NEW i \in 0..Len(p), i < j
        PROVE  Dwelled(p, i) < Dwelled(p, j)
    <3>1. i = j - 1 \/ Dwelled(p, i) < Dwelled(p, j - 1)
      BY <1>3, <2>1
    <3>2. /\ Dwelled(p, i) \in Nat /\ Dwelled(p, j - 1) \in Nat /\ p[j].dwell \in Nat \ {0}
          /\ Dwelled(p, j) = Dwelled(p, j - 1) + p[j].dwell
      BY <1>1
    <3> QED
      BY <3>1, <3>2
  <2> QED
    BY <2>1
<1>4. \A j \in 0..Len(p) : j \in S
  <2> HIDE DEF S
  <2> QED
    BY <1>1, <1>2, <1>3, UpTo
<1> QED
  BY <1>4

\* Every count short of the last end is in one dwell, and no other.
LEMMA InOneDwell ==
  ASSUME NEW p \in Programs, Fits(p), NEW c \in Nat, c < Dwelled(p, Len(p))
  PROVE  \E k \in 1..Len(p) :
           /\ Dwelled(p, k - 1) <= c /\ c < Dwelled(p, k)
           /\ PortAt(p, c) = p[k].port
<1>1. /\ Len(p) \in Nat \ {0} /\ Dwelled(p, 0) = 0
      /\ \A i \in 0..Len(p) : Dwelled(p, i) \in Nat
  BY ProgramAssumption, DwelledIs
<1> DEFINE S == {i \in 0..Len(p) : Dwelled(p, i) <= c}
<1>2. \E k \in 1..Len(p) : Dwelled(p, k - 1) <= c /\ c < Dwelled(p, k)
  <2> SUFFICES ASSUME \A k \in 1..Len(p) : Dwelled(p, k - 1) <= c => Dwelled(p, k) <= c
               PROVE  FALSE
    BY <1>1
  <2>1. 0 \in S /\ \A i \in 1..Len(p) : i - 1 \in S => i \in S
    BY <1>1
  <2>2. \A i \in 0..Len(p) : i \in S
    <3> HIDE DEF S
    <3> QED
      BY <1>1, <2>1, UpTo
  <2> QED
    BY <1>1, <2>2
<1> DEFINE k == CHOOSE k \in 1..Len(p) : Dwelled(p, k - 1) <= c /\ c < Dwelled(p, k)
<1>3. k \in 1..Len(p) /\ Dwelled(p, k - 1) <= c /\ c < Dwelled(p, k)
  BY <1>2, Zenon
<1>4. PortAt(p, c) = p[k].port
  BY Zenon DEF PortAt
<1> QED
  BY <1>3, <1>4

\* No count is in two dwells.
LEMMA SameDwell ==
  ASSUME NEW p \in Programs, Fits(p), NEW k \in 1..Len(p), NEW l \in 1..Len(p), NEW c \in Nat,
         Dwelled(p, k - 1) <= c, c < Dwelled(p, k), Dwelled(p, l - 1) <= c, c < Dwelled(p, l)
  PROVE  l = k
<1>1. /\ Len(p) \in Nat \ {0} /\ \A i \in 0..Len(p) : Dwelled(p, i) \in Nat
  BY ProgramAssumption, DwelledIs
<1>2. /\ Dwelled(p, k - 1) \in Nat /\ Dwelled(p, k) \in Nat
      /\ Dwelled(p, l - 1) \in Nat /\ Dwelled(p, l) \in Nat
  BY <1>1
<1>3. k < l => k = l - 1 \/ Dwelled(p, k) < Dwelled(p, l - 1)
  BY <1>1, DwellsInOrder
<1>4. l < k => l = k - 1 \/ Dwelled(p, l) < Dwelled(p, k - 1)
  BY <1>1, DwellsInOrder
<1> QED
  BY <1>2, <1>3, <1>4

\* And a dwell that a count is in is the one whose port is meant.
LEMMA PortAtIs ==
  ASSUME NEW p \in Programs, Fits(p), NEW k \in 1..Len(p), NEW c \in Nat,
         Dwelled(p, k - 1) <= c, c < Dwelled(p, k)
  PROVE  c < Dwelled(p, Len(p)) /\ PortAt(p, c) = p[k].port
<1>1. Len(p) \in Nat \ {0} /\ \A i \in 0..Len(p) : Dwelled(p, i) \in Nat
  BY ProgramAssumption, DwelledIs
<1>2. c < Dwelled(p, Len(p))
  <2>1. k = Len(p) \/ Dwelled(p, k) < Dwelled(p, Len(p))
    BY <1>1, DwellsInOrder
  <2> QED
    BY <1>1, <2>1
<1>3. PICK l \in 1..Len(p) : Dwelled(p, l - 1) <= c /\ c < Dwelled(p, l) /\ PortAt(p, c) = p[l].port
  BY <1>2, InOneDwell
<1>4. l = k
  BY <1>3, SameDwell
<1> QED
  BY <1>2, <1>3, <1>4

\* Remainders by the counter's range.
LEMMA Within ==
  ASSUME NEW m \in Nat \ {0}, NEW x \in 0..m - 1
  PROVE  x % m = x
OBVIOUS

\* They stay in it.
LEMMA Bounded ==
  ASSUME NEW m \in Nat \ {0}, NEW x \in Nat
  PROVE  x % m \in 0..m - 1
OBVIOUS

\* An event fires on the last count of its dwell.
LEMMA MatchIs ==
  ASSUME NEW p \in Programs, Fits(p), NEW i \in 1..Len(p)
  PROVE  Match(p, i) = Dwelled(p, i) - 1
<1>1. /\ Len(p) \in Nat \ {0} /\ Dwelled(p, 0) = 0
      /\ \A j \in 0..Len(p) : Dwelled(p, j) \in Nat
  BY ProgramAssumption, DwelledIs
<1>2. 0 < Dwelled(p, i) /\ Dwelled(p, i) <= Dwelled(p, Len(p)) /\ Dwelled(p, i) \in Nat
      /\ Dwelled(p, Len(p)) \in Nat
  <2>1. 0 < Dwelled(p, i)
    BY <1>1, DwellsInOrder
  <2>2. i = Len(p) \/ Dwelled(p, i) < Dwelled(p, Len(p))
    BY <1>1, DwellsInOrder
  <2> QED
    BY <1>1, <2>1, <2>2
<1>3. Dwelled(p, Len(p)) <= CounterMod
  BY DEF Fits
<1>4. Dwelled(p, i) - 1 \in 0..CounterMod - 1
  BY <1>2, <1>3, ProgramAssumption
<1> QED
  BY <1>4, Within, ProgramAssumption DEF Match

-----------------------------------------------------------------------------
(* The timer *)

\* A count inside a dwell moves nothing; the last one of a dwell moves on to the
\* next port, and of the last dwell to the first, with the counter at 0.
LEMMA TickKeeps ==
  ASSUME TimerInv, Tick
  PROVE  TimerInv'
<1> USE DEF TimerInv, Tick
<1>1. UNCHANGED <<times, default_output>> /\ (aligned' => aligned /\ enabled)
  OBVIOUS
<1>2. counter' \in 0..CounterMod - 1
  <2>1. (counter + 1) % CounterMod \in 0..CounterMod - 1
    BY ProgramAssumption, Bounded
  <2> QED
    BY <2>1, ProgramAssumption
<1>3. ASSUME aligned', Fits(times)
      PROVE  counter' < Dwelled(times, Len(times)) /\ output' = PortAt(times, counter')
  <2> DEFINE p == times
             n == Len(times)
             fired == {i \in 1..n : enabled /\ counter = Match(p, i)}
  <2>1. p \in Programs /\ aligned /\ enabled /\ counter \in Nat
    BY <1>1, <1>3
  <2>2. counter < Dwelled(p, n) /\ output = PortAt(p, counter)
    BY <1>3, <2>1 DEF DwellInPhase
  <2>3. PICK k \in 1..n :
          /\ Dwelled(p, k - 1) <= counter /\ counter < Dwelled(p, k)
          /\ PortAt(p, counter) = p[k].port
    BY <1>3, <2>1, <2>2, InOneDwell
  <2>4. /\ n \in Nat \ {0} /\ Dwelled(p, 0) = 0
        /\ \A i \in 0..n : Dwelled(p, i) \in Nat
    BY <2>1, ProgramAssumption, DwelledIs
  <2>5. \A i \in fired : i = k
    <3>1. ASSUME NEW i \in fired
          PROVE  i = k
      <4>1. i \in 1..n /\ counter = Dwelled(p, i) - 1 /\ Dwelled(p, i) \in Nat
        BY <1>3, <2>1, <2>4, MatchIs
      <4>2. Dwelled(p, i - 1) <= counter /\ counter < Dwelled(p, i)
        <5>1. Dwelled(p, i - 1) < Dwelled(p, i) /\ Dwelled(p, i - 1) \in Nat
          BY <1>3, <2>1, <2>4, <4>1, DwellsInOrder
        <5> QED
          BY <2>1, <4>1, <5>1
      <4> QED
        BY <1>3, <2>1, <2>3, <4>1, <4>2, SameDwell
    <3> QED
      BY <3>1
  <2>6. k \in fired <=> counter + 1 = Dwelled(p, k)
    <3>1. Match(p, k) = Dwelled(p, k) - 1 /\ Dwelled(p, k) \in Nat
      BY <1>3, <2>1, <2>4, MatchIs
    <3>2. k \in fired <=> counter = Match(p, k)
      BY <2>1
    <3> QED
      BY <2>1, <3>1, <3>2
  <2>7. Dwelled(p, n) <= CounterMod
    BY <1>3 DEF Fits
  <2>8. counter' = (IF n \in fired THEN 0 ELSE (counter + 1) % CounterMod)
    OBVIOUS
  <2>9. IF fired = {} THEN output' = output ELSE \E i \in fired : output' = NextPort(p, i)
    OBVIOUS
  <2> HIDE DEF fired, Tick, TimerInv
  <2>10. CASE counter + 1 < Dwelled(p, k)
    <3>1. fired = {} /\ n \notin fired
      BY <2>1, <2>3, <2>4, <2>5, <2>6, <2>10
    <3>2. counter + 1 < Dwelled(p, n) /\ PortAt(p, counter + 1) = p[k].port
      BY <1>3, <2>1, <2>3, <2>4, <2>10, PortAtIs
    <3>3. counter + 1 \in 0..CounterMod - 1
      <4>1. Dwelled(p, n) \in Nat /\ CounterMod \in Nat
        BY <2>4, ProgramAssumption
      <4> QED
        BY <2>1, <2>7, <3>2, <4>1
    <3>4. counter' = counter + 1
      BY <2>8, <3>1, <3>3, Within, ProgramAssumption
    <3> QED
      BY <2>2, <2>3, <2>9, <3>1, <3>2, <3>4
  <2>11. CASE counter + 1 = Dwelled(p, k) /\ k = n
    <3>1. n \in fired /\ fired # {}
      BY <2>6, <2>11
    <3>2. counter' = 0 /\ output' = p[1].port
      BY <2>5, <2>8, <2>9, <2>11, <3>1 DEF NextPort
    <3>3. Dwelled(p, 0) < Dwelled(p, 1)
      BY <1>3, <2>1, <2>4, DwellsInOrder
    <3>4. 0 < Dwelled(p, n) /\ PortAt(p, 0) = p[1].port
      BY <1>3, <2>1, <2>4, <3>3, PortAtIs
    <3> QED
      BY <3>2, <3>4
  <2>12. CASE counter + 1 = Dwelled(p, k) /\ k # n
    <3>1. n \notin fired /\ k \in fired
      BY <2>5, <2>6, <2>12
    <3>2. output' = p[k + 1].port
      BY <2>5, <2>9, <2>12, <3>1 DEF NextPort
    <3>3. k + 1 \in 1..n /\ Dwelled(p, k) < Dwelled(p, k + 1)
      BY <1>3, <2>1, <2>3, <2>4, <2>12, DwellsInOrder
    <3>4. counter + 1 < Dwelled(p, n) /\ PortAt(p, counter + 1) = p[k + 1].port
      BY <1>3, <2>1, <2>3, <2>4, <2>12, <3>3, PortAtIs
    <3>5. counter + 1 \in 0..CounterMod - 1
      <4>1. Dwelled(p, n) \in Nat /\ CounterMod \in Nat
        BY <2>4, ProgramAssumption
      <4> QED
        BY <2>1, <2>7, <3>4, <4>1
    <3>6. counter' = counter + 1
      BY <2>8, <3>1, <3>5, Within, ProgramAssumption
    <3> QED
      BY <3>2, <3>4, <3>6
  <2>13. counter + 1 < Dwelled(p, k) \/ counter + 1 = Dwelled(p, k)
    BY <2>1, <2>3, <2>4
  <2> QED
    BY <2>10, <2>11, <2>12, <2>13
<1>4. DwellInPhase'
  BY <1>1, <1>3 DEF DwellInPhase, Fits, Dwelled, PortAt
<1> QED
  BY <1>1, <1>2, <1>4

\* A count of 0 is in the first dwell.
LEMMA FromTheFirst ==
  ASSUME NEW p \in Programs, Fits(p)
  PROVE  0 < Dwelled(p, Len(p)) /\ PortAt(p, 0) = p[1].port
<1>1. /\ Len(p) \in Nat \ {0} /\ Dwelled(p, 0) = 0
  BY ProgramAssumption, DwelledIs
<1>2. Dwelled(p, 0) < Dwelled(p, 1)
  BY <1>1, DwellsInOrder
<1> QED
  BY <1>1, <1>2, PortAtIs

\* A reset begins with the first dwell.
LEMMA ResetKeeps ==
  ASSUME TimerInv, ResetState
  PROVE  TimerInv'
<1> USE DEF TimerInv, ResetState
<1>1. counter' = 0 /\ times' = times /\ default_output' = default_output /\ output' = default_output
  OBVIOUS
<1>2. 0 \in 0..CounterMod - 1
  BY ProgramAssumption
<1>3. ASSUME aligned', Fits(times)
      PROVE  ~prescaled' /\ 0 < Dwelled(times, Len(times)) /\ output' = PortAt(times, 0)
  <2>1. times \in Programs /\ default_output = times[1].port /\ ~prescaled'
    BY <1>3
  <2> QED
    BY <1>1, <1>3, <2>1, FromTheFirst
<1>4. DwellInPhase'
  BY <1>1, <1>3 DEF DwellInPhase, Fits, Dwelled, PortAt
<1> QED
  BY <1>1, <1>2, <1>4

\* A new program begins with its first dwell only if the counter happens to be at 0.
LEMMA ProgramKeeps ==
  ASSUME TimerInv, NEW p \in Programs, SetDwellTimes(p)
  PROVE  TimerInv'
<1> USE DEF TimerInv, SetDwellTimes
<1>1. UNCHANGED counter /\ times' = p /\ default_output' = p[1].port /\ output' = p[1].port
  OBVIOUS
<1>2. p # <<>>
  BY ProgramAssumption
<1>3. ASSUME aligned', Fits(p)
      PROVE  counter < Dwelled(p, Len(p)) /\ output' = PortAt(p, counter)
  <2>1. counter = 0
    BY <1>3
  <2> QED
    BY <1>1, <1>3, <2>1, FromTheFirst
<1>4. DwellInPhase'
  BY <1>1, <1>3 DEF DwellInPhase, Fits, Dwelled, PortAt
<1> QED
  BY <1>1, <1>2, <1>4

\* Whether the timer switches is not its program's business.
LEMMA EnableKeeps ==
  ASSUME TimerInv, UNCHANGED <<times, counter, output, default_output, aligned>>,
         prescaled' => prescaled
  PROVE  TimerInv'
BY DEF TimerInv, DwellInPhase, Fits, Dwelled, PortAt

\* All that the boards and the transceiver do to the timer.
LEMMA StepKeepsTimer == TimerInv /\ [Next]_vars => TimerInv'
<1> SUFFICES ASSUME TimerInv, [Next]_vars
             PROVE  TimerInv'
  OBVIOUS
<1> DEFINE Untouched == /\ UNCHANGED <<times, counter, output, default_output, aligned>>
                        /\ prescaled' => prescaled
<1>1. CASE \E b \in Boards, m \in Modes : SetMode(b, m)
  <2>1. Untouched
    BY <1>1 DEF SetMode, Enable, timerVars
  <2> QED
    BY <2>1, EnableKeeps
<1>2. CASE SetDwellData
  BY <1>2, ProgramKeeps DEF SetDwellData
<1>3. CASE Shutdown
  BY <1>3, ResetKeeps DEF Shutdown
<1>4. CASE SctClock
  BY <1>4, TickKeeps DEF SctClock
<1>5. CASE \/ UNCHANGED vars
           \/ \E b \in Boards : GpioTest(b) \/ \E p \in PortPairs : SetPorts(b, p)
           \/ \E list \in RangeLists : SetRangesSetup(list)
           \/ \E p \in Programs : SetDwellSetup(p)
           \/ \E f \in Freqs : Retune(f) \/ Enter(f)
           \/ SetRangesData \/ Search \/ Last \/ Compare \/ Look \/ Activate \/ StoreRange
  <2>1. UNCHANGED timerVars
    BY <1>5 DEF vars, GpioTest, SetPorts, SetRangesSetup, SetDwellSetup, Retune, Enter,
                SetRangesData, Search, Last, Compare, Look, Activate, StoreRange
  <2> QED
    BY <2>1, EnableKeeps DEF timerVars
<1> QED
  BY <1>1, <1>2, <1>3, <1>4, <1>5 DEF Next, IsrNext, MainNext

\* From a reset on, with its program left alone, the enabled timer has the antenna
\* selected in whose dwell each SCT clock falls, with no prescaler in between, for
\* every program of dwells that are not empty and fit the counter.
THEOREM RotationInPhase == Spec => []DwellInPhase
<1>1. Init => TimerInv
  BY ProgramAssumption DEF Init, TimerInit, TimerInv, DwellInPhase
<1>2. TimerInv => DwellInPhase
  BY DEF TimerInv
<1> QED
  BY <1>1, <1>2, StepKeepsTimer, PTL DEF Spec
=============================================================================
