------------------------------ MODULE RadioInv ------------------------------
(***************************************************************************)
(* The inductive invariants of the mode switch: PathInv, why nothing        *)
(* transmits outside TX mode, and ApplyInv, why a switch that no request    *)
(* overlapped leaves the front end as configured.                           *)
(***************************************************************************)
EXTENDS Radio

\* The routine that sets the direction, and whether its first n steps are done.
DirectionAt == CASE target = "OFF" -> 4 [] target = "RX" -> 9 [] target = "TX" -> 8
Directed(n) == pc > DirectionAt \/ (pc = DirectionAt /\ step > n)

Word(c) ==
  /\ DOMAIN c = {"tx", "bypass", "noTx", "noRx", "ant", "band"}
  /\ c.tx \in BOOLEAN /\ c.bypass \in BOOLEAN

PathTypes ==
  /\ mode \in {"OFF", "RX", "TX"} /\ target \in {"OFF", "RX", "TX"}
  /\ result \in {"ok", "failed"} /\ placed \in BOOLEAN
  /\ pc \in 0 .. Len(Program[target])
  /\ step \in 1 .. (IF pc = 0 THEN 1 ELSE Len(Routine))
  /\ Word(switchctrl) /\ Word(reg) /\ Word(ctrl)
  /\ "dir" \in DOMAIN chip /\ "amp" \in DOMAIN pins
  /\ enabled \subseteq {"RX", "TX"} /\ rf_mode \in {"OFF", "RX", "TX"}

\* No request turns the path round, so what the switch has loaded or passed on
\* still has its direction, whatever else of it is stale.
Fresh ==
  /\ At("store") => reg.tx = switchctrl.tx
  /\ At("pins") => ctrl.tx = switchctrl.tx

\* The path points to the antenna only in TX mode, once a switch has placed it.
\* Both it and the amplifier are turned off before a switch to another mode ends.
PathFollows ==
  /\ switchctrl.tx /\ placed => mode = "TX"
  /\ pc > 0 /\ target # "TX" /\ Directed(2) => ~switchctrl.tx
  /\ pc > 0 /\ target # "TX" /\ Directed(9) => pins.amp # "TX"
  /\ pins.amp = "TX" => mode = "TX" \/ ~placed

\* The mode is stored before everything else, or after it when it is OFF.
ModeFollows == pc > 0 => IF target = "OFF" THEN mode # "OFF" ELSE mode = target

\* The chips are off until a start has come to its last routine, and again from
\* there on when the mode goes to OFF.
ChipFollows ==
  /\ mode = "OFF" => chip.dir = "OFF"
  /\ pc > 0 /\ (target = "OFF" <=> Directed(3)) => chip.dir = "OFF"
  /\ chip.dir = "TX" => mode = "TX"
  /\ pc = 0 /\ result = "failed" => chip.dir = "OFF"

\* The transmit pin is high, and no tuning that crossed the switch to OFF did it.
Transmits == "TX" \in enabled /\ ~crossed

\* So is the transceiver chip: its pins, and then its mode in the driver's eyes. A
\* start tunes in standby.
TransceiverFollows ==
  /\ mode = "OFF" => rf_mode = "OFF" /\ ~Transmits
  /\ pc > 0 /\ (target = "OFF" <=> Directed(5)) => ~Transmits
  /\ pc > 0 /\ (target = "OFF" <=> Directed(6)) => rf_mode = "OFF"
  /\ rf_mode = "TX" => mode = "TX"
  /\ Transmits => mode = "TX"
  /\ pc = 0 /\ result = "failed" => rf_mode = "OFF" /\ ~Transmits
  /\ prior = "OFF"

PathInv == PathTypes /\ Fresh /\ PathFollows /\ ModeFollows /\ ChipFollows /\ TransceiverFollows

-----------------------------------------------------------------------------
\* Routine p has done its first n steps.
Done(p, n) == pc > p \/ (pc = p /\ step > n)

\* A start applies the settings first, each by a routine that gets its value, the
\* frequency in the second and the antenna power in the last of them.
Tuning(n) == target # "OFF" /\ pc = 2 /\ step > n
AntennaAt == DirectionAt - 2
Setting == target # "OFF" /\ pc \in 1 .. AntennaAt
Element == Routine[1][2]

FrontEndTypes ==
  /\ DOMAIN config = Elements /\ \A e \in Elements : Fits(e, config[e])
  /\ Setting /\ step > 1 => Fits(Element, val)
  /\ DOMAIN chip = ChipElements \cup {"freq", "dir"}
  /\ DOMAIN pins = {"tx", "band", "amp", "ant"}
  /\ overlapped \in BOOLEAN /\ torn \in BOOLEAN /\ lagging \in BOOLEAN

\* The cached frequency is one that was tuned automatically; what the chips are
\* tuned to, they accepted.
Cached ==
  /\ applied \notin Explicit /\ applied \notin {Partial, Mixed}
  /\ Fits("freq", chip.freq) => ~Refused("freq", chip.freq)
  /\ Tuning(2) => ~Refused("freq", val)
  /\ applied = Unset /\ chip.freq = Unset =>
       /\ pc > 0 /\ target # "OFF" => ~Done(2, 9)
       /\ pc = 0 /\ result = "ok" => mode = "OFF"

\* As long as no tuning collided with the switch, nothing stale is written back
\* to the filter band, and the band follows the frequency.
Straight == ~torn \/ ~overlapped
BandFollows ==
  /\ Straight /\ At("store") => reg.band = switchctrl.band
  /\ Straight /\ At("pins") => ctrl.band = switchctrl.band
  /\ Straight /\ Tuning(4) => switchctrl.band = Band[val]
  /\ Straight /\ Tuning(9) /\ ~Tuning(10) => chip.freq = Partial
  /\ ~torn /\ ~(Tuning(4) /\ step <= 6) => pins.band = switchctrl.band
  /\ ~overlapped /\ Tuning(6) => pins.band = switchctrl.band
  /\ ~torn /\ chip.freq = applied /\ applied # Unset /\ ~(Tuning(2) /\ step <= 10)
       => switchctrl.band = Band[applied]

\* A value of the switch word that powers the amplifier of its direction, if any.
Live(c) == ~c.bypass => ~(IF c.tx THEN c.noTx ELSE c.noRx)

\* What an undisturbed switch has applied so far.
Current ==
  /\ At("store") => reg = switchctrl
  /\ At("pins") => ctrl = switchctrl
  /\ Setting /\ step > 1 => val = config[Element]
  /\ Setting /\ pc = AntennaAt /\ step \in {3, 4} => old = config.ant

AppliedSoFar ==
  /\ Done(1, 2) => chip.rate = config.rate
  /\ Done(2, 10) => (chip.freq = applied => config.freq = chip.freq)
  /\ Done(3, 2) => chip.filter = config.filter
  /\ Done(4, 3) => switchctrl.bypass = ~config.amp
  /\ target = "RX" /\ Done(5, 2) => chip.lna = config.lna
  /\ target = "RX" /\ Done(6, 2) => chip.vga = config.vga
  /\ target = "TX" /\ Done(5, 2) => chip.txvga = config.txvga
  /\ Done(AntennaAt, 4) => switchctrl.ant = config.ant

ClearedSoFar ==
  /\ Done(2, 2) => ~switchctrl.ant
  /\ Done(3, 2) => switchctrl.bypass

DirectedSoFar ==
  /\ Directed(2) => switchctrl.tx = (target = "TX") /\ Live(switchctrl)
  /\ Directed(3) => chip.dir = target
  /\ Directed(4) => ("RX" \in enabled <=> target = "RX")
  /\ Directed(5) => enabled = Enables(target)
  /\ Directed(6) => rf_mode = target
  /\ Directed(8) => pins.tx = switchctrl.tx
  /\ Directed(9) => pins.amp = AmpPin(switchctrl)
  /\ Directed(10) => pins.ant = switchctrl.ant

Undisturbed ==
  pc > 0 /\ ~overlapped =>
    /\ Current /\ DirectedSoFar
    /\ IF target = "OFF" THEN ClearedSoFar ELSE AppliedSoFar

\* What it leaves behind, and requests at rest maintain.
Rest ==
  Settled =>
    IF mode = "OFF" THEN OffApplied
    ELSE /\ chip.dir = mode /\ rf_mode = mode /\ enabled = {mode}
         /\ switchctrl.tx = (mode = "TX") /\ Live(switchctrl)
         /\ switchctrl.bypass = ~config.amp
         /\ pins.tx = switchctrl.tx /\ pins.amp = AmpPin(switchctrl)
         /\ \A e \in ModeElements : chip[e] = config[e]
         /\ ~lagging => pins.ant = config.ant /\ switchctrl.ant = config.ant
         /\ chip.freq = applied => config.freq = chip.freq

ApplyInv == FrontEndTypes /\ Cached /\ BandFollows /\ Undisturbed /\ Rest

\* The inductive invariant of the mode switch.
SwitchInv == PathInv /\ ApplyInv

=============================================================================
