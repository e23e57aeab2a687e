------------------------------- MODULE Radio -------------------------------
(***************************************************************************)
(* The radio configuration of radio.c over the RF path of rf_path.c and the *)
(* tuning of tuning.c: what the host configured, what the chips and the     *)
(* switch pins of the front end hold, and the mode switch that makes the    *)
(* second follow the first.                                                 *)
(*                                                                         *)
(* radio_switch_mode() runs in the main loop, with the USB interrupt        *)
(* enabled. It is a program of small steps: each read, change and write of  *)
(* rf_path->switchctrl is a load and a store, each write of the pins three  *)
(* steps. A request of the host is handled in the interrupt, as one action  *)
(* between any two of them. The answers do not matter here and are left out.*)
(* The transceiver chip is the MAX2837: its mode is what its two enable pins *)
(* say, and drv->mode is the driver's copy, stored after them.               *)
(***************************************************************************)
EXTENDS Integers, Sequences

CONSTANTS
  Settable,     \* the <<element, value>> pairs the host sends
  Configs,      \* the configurations the host may have stored before the first switch; a
                \* frequency of 0 is one of the frequencies
  Explicit,     \* the explicit tunings (if_hz or lo_hz given) among the frequencies
  Band,         \* the filter band of each frequency, "none" for one that set_freq() refuses
  MaxRequests,  \* bound: requests handled after the first switch began
  MaxSwitches   \* bound: mode switches

ChipElements == {"rate", "filter", "lna", "vga", "txvga"}
Switched == {"amp", "ant"}     \* on or off
Elements == ChipElements \cup {"freq"} \cup Switched
Unset == "unset"        \* the zeroes of `radio_t radio = {}'
Bad == "bad"            \* a gain the chip does not know
Partial == "partial"    \* the frequency of a tuning half written
Mixed == "mixed"        \* ... and of two that interleaved

\* What a setting may be; the marks are no frequencies.
Fits(e, v) ==
  (e \in Switched => v \in BOOLEAN) /\ (e = "freq" => v \notin {Unset, Partial, Mixed})

ASSUME SettingsAssumption ==
  /\ \A s \in Settable : s[1] \in Elements /\ Fits(s[1], s[2])
  /\ \A c \in Configs : DOMAIN c = Elements /\ \A e \in Elements : Fits(e, c[e])
  /\ \A v \in Explicit : Fits("freq", v)

\* What a driver refuses: a sample rate with divider 0, an unknown receive gain, a
\* frequency above the highest band or an explicit tuning out of range.
Refused(e, v) ==
  \/ e = "rate" /\ v = Unset
  \/ e \in {"lna", "vga"} /\ v = Bad
  \/ e = "freq" /\ Band[v] = "none"

VARIABLES
  config,       \* radio->channel[0].config, its elements
  mode,         \* config->mode
  applied,      \* applied_freq; Unset is the all-ones of its initialiser
  chip,         \* what the chips hold: the elements, the frequency, and the direction
                \* of the converters
  enabled,      \* which of the enable pins of the transceiver chip, RX and TX, are high
  rf_mode,      \* its mode as the driver has it: drv->mode, "OFF" is standby
  switchctrl,   \* rf_path->switchctrl
  pins,         \* the switch pins: direction and band, the powered amplifier, antenna power
  pc, step,     \* the routine radio_switch_mode() is in, and the step of it; pc = 0 while
                \* the main loop is elsewhere
  target,       \* its argument
  val, old, reg, ctrl, prior, \* its locals: the value read, the antenna value read
                \* again, the loaded switchctrl, the argument of switchctrl_set(),
                \* prior_max283x_mode
  result,       \* "ok" or "failed": what the last switch returned
  overlapped,   \* a request was handled while the last switch ran
  torn,         \* ... and it tuned, and nothing has tuned undisturbed since
  crossed,      \* a tuning read drv->mode after a switch from TX had written the pins and
                \* before it stored the mode; the transmit pin was not written since
  lagging,      \* the host set the antenna since the last switch
  placed,       \* some switch has succeeded since boot
  requests, switches

configVars == <<config, mode, applied>>
hwVars == <<chip, enabled, rf_mode, switchctrl, pins>>
xcvrVars == <<enabled, rf_mode>>
localVars == <<val, old, reg, ctrl, prior>>
switchVars == <<pc, step, target, result, placed, switches>>
ghostVars == <<overlapped, torn, crossed, lagging>>
vars == <<configVars, hwVars, localVars, switchVars, ghostVars, requests>>

-----------------------------------------------------------------------------
(* rf_path.c: the switch word, and the pins a value of it stands for. *)

SWITCHCTRL_SAFE ==
  [tx |-> TRUE, bypass |-> TRUE, noTx |-> TRUE, noRx |-> TRUE, ant |-> FALSE, band |-> "MID"]

AmpPin(c) ==
  CASE c.bypass -> "none"
    [] ~c.bypass /\ c.tx -> IF c.noTx THEN "none" ELSE "TX"
    [] ~c.bypass /\ ~c.tx -> IF c.noRx THEN "none" ELSE "RX"

\* switchctrl_set(), group by group.
SetPins(p, c, group) ==
  CASE group = "path" -> [p EXCEPT !.tx = c.tx, !.band = c.band]
    [] group = "amp" -> [p EXCEPT !.amp = AmpPin(c)]
    [] group = "ant" -> [p EXCEPT !.ant = c.ant]

AllPins(c) == [tx |-> c.tx, band |-> c.band, amp |-> AmpPin(c), ant |-> c.ant]

SetLna(c, enable) ==
  [c EXCEPT !.bypass = ~enable, !.noTx = ~(enable /\ c.tx), !.noRx = ~(enable /\ ~c.tx)]

\* mutant: the filter band is left as it was
KeepFilter(c, f) == c

SetFilter(c, f) == [c EXCEPT !.band = Band[f]]
SetAntenna(c, enable) == [c EXCEPT !.ant = enable]
AmpsOff(c) == [c EXCEPT !.noTx = TRUE, !.noRx = TRUE]

\* mutant: the path is not turned back to receive when it is switched off
KeepDirection(c, d) ==
  CASE d = "TX" -> [c EXCEPT !.tx = TRUE, !.noTx = @ /\ c.bypass]
    [] d = "RX" -> [c EXCEPT !.tx = FALSE, !.noRx = @ /\ c.bypass]
    [] d = "OFF" -> c

SetDirection(c, d) ==
  CASE d = "TX" -> [c EXCEPT !.tx = TRUE, !.noTx = @ /\ c.bypass]
    [] d = "RX" -> [c EXCEPT !.tx = FALSE, !.noRx = @ /\ c.bypass]
    [] d = "OFF" -> [c EXCEPT !.tx = FALSE]

-----------------------------------------------------------------------------
(* radio_switch_mode() as a program: the routines it calls, and their steps, *)
(* each an operation and its argument.                                      *)

WritePins == << <<"pins", "path">>, <<"pins", "amp">>, <<"pins", "ant">> >>
Change(what) == << <<"load", "switch">>, <<"store", what>> >>

Apply(e) == << <<"get", e>>, <<"chip", e>>, <<"put", e>> >>
ApplyFreq == << <<"get", "freq">>, <<"match", "freq">> >> \o Change("filter")
             \o << <<"reload", "switch">> >> \o WritePins
             \o << <<"tune", "freq">>, <<"tuned", "freq">>, <<"put", "freq">> >>
ApplyAmp == << <<"get", "amp">> >> \o Change("lna") \o WritePins \o << <<"put", "amp">> >>
ApplyAntenna == << <<"get", "ant">>, <<"again", "ant">> >> \o Change("antenna")
                \o WritePins \o << <<"put", "ant">> >>

\* rf_path_set_direction(), after the amplifiers are off; the user's options are
\* the defaults: antenna power is cleared when the direction is OFF and left
\* alone otherwise.
AmplifiersOff == Change("amps_off")
AntennaOff == Change("antenna_off") \o WritePins
LnaOff == Change("lna_off") \o WritePins
ChipMode == << <<"enable", "RX">>, <<"enable", "TX">>, <<"rfmode", "chip">> >>
Direction == Change("direction") \o << <<"direction", "chip">> >> \o ChipMode
             \o << <<"reload", "switch">> >> \o WritePins
ModeOff == << <<"mode", "OFF">> >>

\* The routines that a switch calls, in order.
Program ==
  [m \in {"OFF", "RX", "TX"} |->
     CASE m = "OFF" -> <<AmplifiersOff, AntennaOff, LnaOff, Direction, ModeOff>>
       [] m = "RX" -> <<Apply("rate"), ApplyFreq, Apply("filter"), ApplyAmp, Apply("lna"),
                        Apply("vga"), ApplyAntenna, AmplifiersOff, Direction>>
       [] m = "TX" -> <<Apply("rate"), ApplyFreq, Apply("filter"), ApplyAmp, Apply("txvga"),
                        ApplyAntenna, AmplifiersOff, Direction>>]

Routine == Program[target][pc]
At(op) == pc > 0 /\ Routine[step][1] = op
Arg == Routine[step][2]

\* A routine returns, the last one from the switch.
Return ==
  /\ step' = 1
  /\ IF pc < Len(Program[target])
     THEN pc' = pc + 1 /\ UNCHANGED <<result, placed>>
     ELSE pc' = 0 /\ result' = "ok" /\ placed' = TRUE

\* The step is done.
Step ==
  /\ IF step < Len(Routine)
     THEN step' = step + 1 /\ UNCHANGED <<pc, result, placed>>
     ELSE Return
  /\ UNCHANGED <<target, switches>>

Fail == pc' = 0 /\ step' = 1 /\ result' = "failed" /\ UNCHANGED <<target, placed, switches>>

-----------------------------------------------------------------------------
Init ==
  /\ config \in Configs /\ mode = "OFF" /\ applied = Unset
  /\ chip = [e \in ChipElements \cup {"freq", "dir"} |-> IF e = "dir" THEN "OFF" ELSE Unset]
  /\ enabled = {} /\ rf_mode = "OFF" /\ prior = "OFF" /\ crossed = FALSE
  /\ switchctrl = SWITCHCTRL_SAFE /\ pins = AllPins(SWITCHCTRL_SAFE)
  /\ pc = 0 /\ step = 1 /\ target = "OFF" /\ result = "ok" /\ switches = 0 /\ requests = 0
  /\ val = Unset /\ old = FALSE /\ reg = SWITCHCTRL_SAFE /\ ctrl = SWITCHCTRL_SAFE
  /\ overlapped = FALSE /\ torn = FALSE /\ lagging = FALSE /\ placed = FALSE

-----------------------------------------------------------------------------
(* The main loop: enter the switch, and its steps. The direction is part of  *)
(* the argument; the mode is stored first, except when it is OFF. A dead     *)
(* local goes back to its initial value.                                    *)

\* mutant: the mode is stored first, OFF too
ModeFirst(m) == m

ModeDuring(m) == IF m = "OFF" THEN mode ELSE m

Begin(m) ==
  /\ pc = 0 /\ switches < MaxSwitches
  /\ (m = "OFF") # (mode = "OFF")
  /\ target' = m /\ pc' = 1 /\ switches' = switches + 1
  /\ mode' = ModeDuring(m)
  /\ overlapped' = FALSE /\ lagging' = FALSE
  /\ UNCHANGED <<config, applied, step, hwVars, localVars, result, placed, torn, crossed, requests>>

Get ==
  /\ At("get") /\ val' = config[Arg] /\ Step
  /\ UNCHANGED <<configVars, hwVars, old, reg, ctrl, prior, ghostVars, requests>>

GetAgain ==
  /\ At("again") /\ old' = config[Arg] /\ Step
  /\ UNCHANGED <<configVars, hwVars, val, reg, ctrl, prior, ghostVars, requests>>

WriteChip ==
  /\ At("chip") /\ ~Refused(Arg, val)
  /\ chip' = [chip EXCEPT ![Arg] = val] /\ Step
  /\ UNCHANGED <<configVars, xcvrVars, switchctrl, pins, localVars, ghostVars, requests>>

RefuseChip ==
  /\ At("chip") /\ Refused(Arg, val)
  /\ Fail /\ val' = Unset
  /\ UNCHANGED <<configVars, hwVars, old, reg, ctrl, prior, ghostVars, requests>>

Put ==
  /\ At("put") /\ config' = [config EXCEPT ![Arg] = val] /\ val' = Unset /\ Step
  /\ UNCHANGED <<mode, applied, hwVars, old, reg, ctrl, prior, ghostVars, requests>>

\* radio_set_frequency(): an automatic tuning to the frequency last applied is done.
AlreadyApplied ==
  /\ At("match") /\ val \notin Explicit /\ val = applied
  /\ Return /\ val' = Unset
  /\ UNCHANGED <<configVars, hwVars, old, reg, ctrl, prior, target, switches, ghostVars, requests>>

\* The pins that are high in a mode of the transceiver chip.
Enables(m) == {m} \cap {"RX", "TX"}

\* set_freq() saves the mode of the transceiver chip, puts it in standby, and restores
\* the mode when it is done or refuses the frequency. The pins and drv->mode are
\* written one after another there too; but a start tunes before it sets the
\* direction, when the chip is in standby (TransceiverFollows), so that the writes between
\* which a request may come all write the same.
Match ==
  /\ At("match") /\ (val \in Explicit \/ val # applied)
  /\ IF val \in Explicit THEN UNCHANGED <<applied, xcvrVars, prior, crossed>>
     ELSE /\ applied' = val /\ crossed' = FALSE
          /\ IF Refused("freq", val) THEN enabled' = Enables(rf_mode) /\ UNCHANGED <<rf_mode, prior>>
             ELSE prior' = rf_mode /\ rf_mode' = "OFF" /\ enabled' = Enables("OFF")
  /\ IF Refused("freq", val) THEN Fail /\ val' = Unset ELSE Step /\ UNCHANGED val
  /\ UNCHANGED <<config, mode, chip, switchctrl, pins, old, reg, ctrl, overlapped, torn, lagging>>
  /\ UNCHANGED requests

\* A tuning writes many registers of two chips. One handled in between leaves the
\* frequency of neither.
Tune ==
  /\ At("tune") /\ chip' = [chip EXCEPT !.freq = Partial] /\ Step
  /\ UNCHANGED <<configVars, xcvrVars, switchctrl, pins, localVars, ghostVars, requests>>

Tuned ==
  /\ At("tuned") /\ chip' = [chip EXCEPT !.freq = IF @ = Partial THEN val ELSE Mixed] /\ Step
  /\ torn' = (torn /\ overlapped)
  /\ IF val \in Explicit THEN UNCHANGED <<xcvrVars, prior, crossed>>
     ELSE rf_mode' = prior /\ enabled' = Enables(prior) /\ prior' = "OFF" /\ crossed' = FALSE
  /\ UNCHANGED <<configVars, switchctrl, pins, val, old, reg, ctrl, overlapped, lagging, requests>>

Load ==
  /\ At("load") /\ reg' = switchctrl /\ Step
  /\ UNCHANGED <<configVars, hwVars, val, old, ctrl, prior, ghostVars, requests>>

Changed ==
  CASE Arg = "filter" -> SetFilter(reg, val)
    [] Arg = "lna" -> SetLna(reg, val)
    [] Arg = "lna_off" -> SetLna(reg, FALSE)
    [] Arg = "antenna" -> SetAntenna(reg, old)
    [] Arg = "antenna_off" -> SetAntenna(reg, FALSE)
    [] Arg = "amps_off" -> AmpsOff(reg)
    [] Arg = "direction" -> SetDirection(reg, target)

Store ==
  /\ At("store") /\ switchctrl' = Changed /\ Step
  /\ ctrl' = IF Arg \in {"lna", "lna_off", "antenna", "antenna_off"}
             THEN Changed ELSE SWITCHCTRL_SAFE
  /\ reg' = SWITCHCTRL_SAFE /\ old' = FALSE
  /\ UNCHANGED <<configVars, chip, xcvrVars, pins, val, prior, ghostVars, requests>>

Reload ==
  /\ At("reload") /\ ctrl' = switchctrl /\ Step
  /\ UNCHANGED <<configVars, hwVars, val, old, reg, prior, ghostVars, requests>>

WritePin ==
  /\ At("pins") /\ pins' = SetPins(pins, ctrl, Arg) /\ Step
  /\ ctrl' = IF Arg = "ant" THEN SWITCHCTRL_SAFE ELSE ctrl
  /\ UNCHANGED <<configVars, chip, xcvrVars, switchctrl, val, old, reg, prior, ghostVars, requests>>

ChipDirection ==
  /\ At("direction") /\ chip' = [chip EXCEPT !.dir = target] /\ Step
  /\ UNCHANGED <<configVars, xcvrVars, switchctrl, pins, localVars, ghostVars, requests>>

\* max2837_target_set_mode(): the receive pin, the transmit pin, and the driver's copy.
WriteEnable ==
  /\ At("enable") /\ enabled' = (enabled \ {Arg}) \cup (Enables(target) \cap {Arg}) /\ Step
  /\ crossed' = (crossed /\ Arg # "TX")
  /\ UNCHANGED <<configVars, chip, rf_mode, switchctrl, pins, localVars, overlapped, torn, lagging>>
  /\ UNCHANGED requests

StoreChipMode ==
  /\ At("rfmode") /\ rf_mode' = target /\ Step
  /\ UNCHANGED <<configVars, chip, enabled, switchctrl, pins, localVars, ghostVars, requests>>

StoreMode ==
  /\ At("mode") /\ mode' = Arg /\ Step
  /\ UNCHANGED <<config, applied, hwVars, localVars, ghostVars, requests>>

MainNext ==
  \/ \E m \in {"OFF", "RX", "TX"} : Begin(m)
  \/ Get \/ GetAgain \/ WriteChip \/ RefuseChip \/ Put
  \/ AlreadyApplied \/ Match \/ Tune \/ Tuned \/ Load \/ Store \/ Reload \/ WritePin
  \/ ChipDirection \/ WriteEnable \/ StoreChipMode \/ StoreMode

-----------------------------------------------------------------------------
(* The USB interrupt: one setting of the host, whole.                       *)

StoreConfig(e, v) == config' = [config EXCEPT ![e] = v]
SetSwitch(c) == switchctrl' = c /\ pins' = AllPins(c)

SetWhileOff(e, v) ==
  /\ IF e = "rate" /\ Refused(e, v) THEN UNCHANGED config ELSE StoreConfig(e, v)
  /\ UNCHANGED <<applied, hwVars, torn, crossed, lagging>>

SetChip(e, v) ==
  /\ IF Refused(e, v) THEN UNCHANGED <<config, chip>>
     ELSE chip' = [chip EXCEPT ![e] = v] /\ StoreConfig(e, v)
  /\ UNCHANGED <<applied, xcvrVars, switchctrl, pins, torn, crossed, lagging>>

\* An automatic tuning, refused or not, ends with the pins as drv->mode has them.
SetFrequency(v) ==
  /\ applied' = IF v \in Explicit THEN applied ELSE v
  /\ IF v \in Explicit \/ v = applied THEN UNCHANGED <<enabled, crossed>>
     ELSE enabled' = Enables(rf_mode) /\ crossed' = (At("rfmode") /\ rf_mode = "TX")
  /\ IF Refused("freq", v) \/ v = applied THEN UNCHANGED <<config, chip, switchctrl, pins, torn>>
     ELSE /\ SetSwitch(SetFilter(switchctrl, v))
          /\ chip' = [chip EXCEPT !.freq = v] /\ StoreConfig("freq", v)
          /\ torn' = (pc # 0)
  /\ UNCHANGED <<rf_mode, lagging>>

SetAmp(v) ==
  /\ SetSwitch(SetLna(switchctrl, v)) /\ StoreConfig("amp", v)
  /\ UNCHANGED <<applied, chip, xcvrVars, torn, crossed, lagging>>

\* radio_set_antenna() writes the value configured before, then stores the new one.
SetAntennaEnable(v) ==
  /\ SetSwitch(SetAntenna(switchctrl, config.ant)) /\ StoreConfig("ant", v)
  /\ lagging' = TRUE
  /\ UNCHANGED <<applied, chip, xcvrVars, torn, crossed>>

Request(e, v) ==
  /\ switches > 0 /\ requests < MaxRequests /\ requests' = requests + 1
  /\ overlapped' = (overlapped \/ pc # 0)
  /\ CASE mode = "OFF" -> SetWhileOff(e, v)
       [] mode # "OFF" /\ e \in ChipElements -> SetChip(e, v)
       [] mode # "OFF" /\ e = "freq" -> SetFrequency(v)
       [] mode # "OFF" /\ e = "amp" -> SetAmp(v)
       [] mode # "OFF" /\ e = "ant" -> SetAntennaEnable(v)
  /\ UNCHANGED <<mode, localVars, switchVars>>

Next == MainNext \/ \E s \in Settable : Request(s[1], s[2])
Spec == Init /\ [][Next]_vars

-----------------------------------------------------------------------------
(* Whatever fails and whatever overlaps, nothing transmits outside TX mode: *)
(* neither the converters, nor the transceiver chip, nor the transmit       *)
(* amplifier, and a switch that failed has left the chips where OFF put     *)
(* them. There are two exceptions. Until a first switch succeeds, the path   *)
(* is in the transmit direction of SWITCHCTRL_SAFE, so that the amplifier    *)
(* setting powers the transmit amplifier. And a tuning that overlaps the     *)
(* switch from TX to OFF in one place, between the pins and drv->mode, puts  *)
(* the transceiver chip back to transmit, until something sets its pins.     *)
TransmitsOnlyInTx ==
  /\ pins.amp = "TX" => mode = "TX" \/ ~placed
  /\ chip.dir = "TX" => mode = "TX"
  /\ "TX" \in enabled => mode = "TX" \/ crossed
  /\ pc = 0 /\ result = "failed" => chip.dir = "OFF" /\ ("TX" \in enabled => crossed)

(* A switch that succeeds with no request in between leaves the front end   *)
(* exactly as configured, whatever state failed and overlapped switches and  *)
(* requests left behind: this is what undoes a lost update of switchctrl.   *)
(* Requests handled at rest keep it so. Not promised are the antenna power  *)
(* after the host set it; the frequency once the cached one is not the tuned *)
(* one, and the filter band after a tuning collided with a switch: a        *)
(* frequency already applied is not tuned again.                            *)
ModeElements == {"rate", "filter"} \cup IF mode = "TX" THEN {"txvga"} ELSE {"lna", "vga"}
OffApplied == chip.dir = "OFF" /\ enabled = {} /\ ~pins.tx /\ pins.amp = "none" /\ ~pins.ant
ActiveApplied ==
  /\ chip.dir = mode /\ enabled = {mode} /\ pins.tx = (mode = "TX")
  /\ pins.amp = IF config.amp THEN mode ELSE "none"
  /\ \A e \in ModeElements : chip[e] = config[e]
  /\ ~lagging => pins.ant = config.ant
  /\ chip.freq = applied => config.freq = chip.freq
  /\ chip.freq = applied /\ ~torn => pins.band = Band[chip.freq]
Settled == pc = 0 /\ switches > 0 /\ result = "ok" /\ ~overlapped
SwitchApplies == Settled => IF mode = "OFF" THEN OffApplied ELSE ActiveApplied

(* radio.h:189: when the mode is not OFF, a setting updates the hardware as  *)
(* well as the configuration. For the antenna it does not.                  *)
SettingReachesAntenna == Settled /\ mode # "OFF" => pins.ant = config.ant

=============================================================================
