----------------------------- MODULE RadioProofs -----------------------------
(***************************************************************************)
(* TransmitsOnlyInTx and SwitchApplies, for all settings, frequencies and   *)
(* numbers of requests: first the steps of each routine and what comes      *)
(* before a store and a write of the pins, then each action against         *)
(* PathInv; then what a step of a switch changes, field by field, and how   *)
(* far a switch has come, against each part of ApplyInv.                    *)
(***************************************************************************)
EXTENDS RadioInv, TLAPS

-----------------------------------------------------------------------------
(* The steps of the routines.                                               *)

\* What the routines of a switch are, step by step: applying a plain setting ...
LEMMA ApplySteps ==
  ASSUME NEW e
  PROVE  /\ Len(Apply(e)) = 3
         /\ Apply(e)[1] = <<"get", e>> /\ Apply(e)[2] = <<"chip", e>> /\ Apply(e)[3] = <<"put", e>>
BY DEF Apply

\* ... the frequency, between whose match and tuning the filter band is set
LEMMA FreqSteps ==
  /\ Len(ApplyFreq) = 11
  /\ ApplyFreq[1] = <<"get", "freq">> /\ ApplyFreq[2] = <<"match", "freq">>
  /\ ApplyFreq[3] = <<"load", "switch">> /\ ApplyFreq[4] = <<"store", "filter">>
  /\ ApplyFreq[5] = <<"reload", "switch">> /\ ApplyFreq[6] = <<"pins", "path">>
  /\ ApplyFreq[7] = <<"pins", "amp">> /\ ApplyFreq[8] = <<"pins", "ant">>
  /\ ApplyFreq[9] = <<"tune", "freq">> /\ ApplyFreq[10] = <<"tuned", "freq">>
  /\ ApplyFreq[11] = <<"put", "freq">>
BY DEF ApplyFreq, Change, WritePins

\* ... the amplifier setting
LEMMA AmpSteps ==
  /\ Len(ApplyAmp) = 7
  /\ ApplyAmp[1] = <<"get", "amp">> /\ ApplyAmp[2] = <<"load", "switch">>
  /\ ApplyAmp[3] = <<"store", "lna">> /\ ApplyAmp[4] = <<"pins", "path">>
  /\ ApplyAmp[5] = <<"pins", "amp">> /\ ApplyAmp[6] = <<"pins", "ant">>
  /\ ApplyAmp[7] = <<"put", "amp">>
BY DEF ApplyAmp, Change, WritePins

\* ... and the antenna power, whose value is read twice.
LEMMA AntennaSteps ==
  /\ Len(ApplyAntenna) = 8
  /\ ApplyAntenna[1] = <<"get", "ant">> /\ ApplyAntenna[2] = <<"again", "ant">>
  /\ ApplyAntenna[3] = <<"load", "switch">> /\ ApplyAntenna[4] = <<"store", "antenna">>
  /\ ApplyAntenna[5] = <<"pins", "path">> /\ ApplyAntenna[6] = <<"pins", "amp">>
  /\ ApplyAntenna[7] = <<"pins", "ant">> /\ ApplyAntenna[8] = <<"put", "ant">>
BY DEF ApplyAntenna, Change, WritePins

\* The routines that turn things off ...
LEMMA AmplifiersOffSteps ==
  /\ Len(AmplifiersOff) = 2
  /\ AmplifiersOff[1] = <<"load", "switch">> /\ AmplifiersOff[2] = <<"store", "amps_off">>
BY DEF AmplifiersOff, Change, WritePins

LEMMA AntennaOffSteps ==
  /\ Len(AntennaOff) = 5
  /\ AntennaOff[1] = <<"load", "switch">> /\ AntennaOff[2] = <<"store", "antenna_off">>
  /\ AntennaOff[3] = <<"pins", "path">> /\ AntennaOff[4] = <<"pins", "amp">>
  /\ AntennaOff[5] = <<"pins", "ant">>
BY DEF AntennaOff, Change, WritePins

LEMMA LnaOffSteps ==
  /\ Len(LnaOff) = 5
  /\ LnaOff[1] = <<"load", "switch">> /\ LnaOff[2] = <<"store", "lna_off">>
  /\ LnaOff[3] = <<"pins", "path">> /\ LnaOff[4] = <<"pins", "amp">>
  /\ LnaOff[5] = <<"pins", "ant">>
BY DEF LnaOff, Change, WritePins

\* ... the one that sets the direction, and the mode of a switch to OFF.
LEMMA DirectionSteps ==
  /\ Len(Direction) = 10
  /\ Direction[1] = <<"load", "switch">> /\ Direction[2] = <<"store", "direction">>
  /\ Direction[3] = <<"direction", "chip">> /\ Direction[4] = <<"enable", "RX">>
  /\ Direction[5] = <<"enable", "TX">> /\ Direction[6] = <<"rfmode", "chip">>
  /\ Direction[7] = <<"reload", "switch">> /\ Direction[8] = <<"pins", "path">>
  /\ Direction[9] = <<"pins", "amp">> /\ Direction[10] = <<"pins", "ant">>
BY DEF Direction, Change, ChipMode, WritePins

LEMMA ModeOffSteps ==
  /\ Len(ModeOff) = 1
  /\ ModeOff[1] = <<"mode", "OFF">>
BY DEF ModeOff, Change, WritePins

Settings ==
  {Apply("rate"), Apply("filter"), Apply("lna"), Apply("vga"), Apply("txvga"), ApplyFreq, ApplyAmp,
   ApplyAntenna}
Offs == {AmplifiersOff, AntennaOff, LnaOff}
Routines == Settings \cup Offs \cup {Direction, ModeOff}

\* The routines of each switch.
LEMMA Calls ==
  /\ Len(Program["OFF"]) = 5 /\ Len(Program["RX"]) = 9 /\ Len(Program["TX"]) = 8
  /\ Program["OFF"][1] = AmplifiersOff /\ Program["OFF"][2] = AntennaOff
  /\ Program["OFF"][3] = LnaOff /\ Program["OFF"][4] = Direction /\ Program["OFF"][5] = ModeOff
  /\ Program["RX"][1] = Apply("rate") /\ Program["RX"][2] = ApplyFreq
  /\ Program["RX"][3] = Apply("filter") /\ Program["RX"][4] = ApplyAmp
  /\ Program["RX"][5] = Apply("lna") /\ Program["RX"][6] = Apply("vga")
  /\ Program["RX"][7] = ApplyAntenna /\ Program["RX"][8] = AmplifiersOff
  /\ Program["RX"][9] = Direction
  /\ Program["TX"][1] = Apply("rate") /\ Program["TX"][2] = ApplyFreq
  /\ Program["TX"][3] = Apply("filter") /\ Program["TX"][4] = ApplyAmp
  /\ Program["TX"][5] = Apply("txvga") /\ Program["TX"][6] = ApplyAntenna
  /\ Program["TX"][7] = AmplifiersOff /\ Program["TX"][8] = Direction
BY DEF Program

\* A switch calls nothing else.
LEMMA RoutinesOnly ==
  ASSUME NEW m \in {"OFF", "RX", "TX"}, NEW i \in 1 .. Len(Program[m])
  PROVE  Program[m][i] \in Routines
<1>1. CASE m = "OFF"
  <2>1. i = 1 \/ i = 2 \/ i = 3 \/ i = 4 \/ i = 5
    BY <1>1, Calls
  <2> QED
    BY <1>1, <2>1, Calls DEF Routines, Settings, Offs
<1>2. CASE m = "RX"
  <2>1. i = 1 \/ i = 2 \/ i = 3 \/ i = 4 \/ i = 5 \/ i = 6 \/ i = 7 \/ i = 8 \/ i = 9
    BY <1>2, Calls
  <2> QED
    BY <1>2, <2>1, Calls DEF Routines, Settings, Offs
<1>3. CASE m = "TX"
  <2>1. i = 1 \/ i = 2 \/ i = 3 \/ i = 4 \/ i = 5 \/ i = 6 \/ i = 7 \/ i = 8
    BY <1>3, Calls
  <2> QED
    BY <1>3, <2>1, Calls DEF Routines, Settings, Offs
<1> QED
  BY <1>1, <1>2, <1>3

\* Settings come first in a start, the direction is the last routine but for the
\* mode, which is stored last when it is OFF.
LEMMA Order ==
  ASSUME target \in {"OFF", "RX", "TX"}, pc \in 1 .. Len(Program[target])
  PROVE  \/ Routine \in Settings /\ target # "OFF" /\ pc < DirectionAt
         \/ Routine \in Offs /\ pc < DirectionAt
         \/ Routine = Direction /\ pc = DirectionAt
         \/ Routine = ModeOff /\ target = "OFF" /\ pc = 5
<1>1. CASE target = "OFF"
  <2>1. pc = 1 \/ pc = 2 \/ pc = 3 \/ pc = 4 \/ pc = 5
    BY <1>1, Calls
  <2> QED
    BY <1>1, <2>1, Calls DEF Settings, Offs, Routine, DirectionAt
<1>2. CASE target = "RX"
  <2>1. \/ pc = 1 \/ pc = 2 \/ pc = 3 \/ pc = 4 \/ pc = 5 \/ pc = 6 \/ pc = 7 \/ pc = 8 \/ pc = 9
    BY <1>2, Calls
  <2> QED
    BY <1>2, <2>1, Calls DEF Settings, Offs, Routine, DirectionAt
<1>3. CASE target = "TX"
  <2>1. pc = 1 \/ pc = 2 \/ pc = 3 \/ pc = 4 \/ pc = 5 \/ pc = 6 \/ pc = 7 \/ pc = 8
    BY <1>3, Calls
  <2> QED
    BY <1>3, <2>1, Calls DEF Settings, Offs, Routine, DirectionAt
<1> QED
  BY <1>1, <1>2, <1>3

Passed(op) ==
  \/ op[1] = "reload"
  \/ op[1] = "pins" /\ op[2] # "ant"
  \/ op[1] = "store" /\ op[2] \in {"lna", "lna_off", "antenna", "antenna_off"}

SettingOp(op) ==
  /\ op[1] \in {"get", "again", "chip", "put", "match", "load", "store", "reload", "pins", "tune",
                "tuned"}
  /\ op[1] = "pins" => op[2] \in {"path", "amp", "ant"}
  /\ op[1] = "chip" => op[2] \in ChipElements
  /\ op[1] = "store" => op[2] \in {"filter", "lna", "antenna"}

OffOp(op) ==
  /\ op[1] \in {"load", "store", "pins"}
  /\ op[1] = "pins" => op[2] \in {"path", "amp", "ant"}
  /\ op[1] = "store" => op[2] \in {"amps_off", "lna_off", "antenna_off"}

\* A store follows its load; the pins are written with what was loaded again, or
\* with what a store has just passed on.
Linked(r) ==
  /\ Len(r) \in Nat \ {0}
  /\ \A i \in 1 .. Len(r) :
       /\ r[i][1] = "store" => i > 1 /\ r[i - 1][1] = "load"
       /\ r[i][1] = "pins" => i > 1 /\ Passed(r[i - 1])

\* In a routine that applies a setting, what is stored has just been loaded.
LEMMA SettingsLinked ==
  ASSUME NEW r \in Settings
  PROVE  Linked(r) /\ \A i \in 1 .. Len(r) : SettingOp(r[i])
<1>1. CASE r = Apply("rate")
  <2>1. ASSUME NEW i \in 1 .. 3
        PROVE  i = 1 \/ i = 2 \/ i = 3
    OBVIOUS
  <2> QED
    BY <1>1, <2>1, ApplySteps DEF Linked, Passed, SettingOp, ChipElements
<1>2. CASE r = Apply("filter")
  <2>1. ASSUME NEW i \in 1 .. 3
        PROVE  i = 1 \/ i = 2 \/ i = 3
    OBVIOUS
  <2> QED
    BY <1>2, <2>1, ApplySteps DEF Linked, Passed, SettingOp, ChipElements
<1>3. CASE r = Apply("lna")
  <2>1. ASSUME NEW i \in 1 .. 3
        PROVE  i = 1 \/ i = 2 \/ i = 3
    OBVIOUS
  <2> QED
    BY <1>3, <2>1, ApplySteps DEF Linked, Passed, SettingOp, ChipElements
<1>4. CASE r = Apply("vga")
  <2>1. ASSUME NEW i \in 1 .. 3
        PROVE  i = 1 \/ i = 2 \/ i = 3
    OBVIOUS
  <2> QED
    BY <1>4, <2>1, ApplySteps DEF Linked, Passed, SettingOp, ChipElements
<1>5. CASE r = Apply("txvga")
  <2>1. ASSUME NEW i \in 1 .. 3
        PROVE  i = 1 \/ i = 2 \/ i = 3
    OBVIOUS
  <2> QED
    BY <1>5, <2>1, ApplySteps DEF Linked, Passed, SettingOp, ChipElements
<1>6. CASE r = ApplyFreq
  <2>1. ASSUME NEW i \in 1 .. 11
        PROVE  i = 1 \/ i = 2 \/ i = 3 \/ i = 4 \/ i = 5 \/ i = 6 \/ i = 7 \/ i = 8 \/ i = 9 \/ i = 10 \/ i = 11
    OBVIOUS
  <2> QED
    BY <1>6, <2>1, FreqSteps DEF Linked, Passed, SettingOp, ChipElements
<1>7. CASE r = ApplyAmp
  <2>1. ASSUME NEW i \in 1 .. 7
        PROVE  i = 1 \/ i = 2 \/ i = 3 \/ i = 4 \/ i = 5 \/ i = 6 \/ i = 7
    OBVIOUS
  <2> QED
    BY <1>7, <2>1, AmpSteps DEF Linked, Passed, SettingOp, ChipElements
<1>8. CASE r = ApplyAntenna
  <2>1. ASSUME NEW i \in 1 .. 8
        PROVE  i = 1 \/ i = 2 \/ i = 3 \/ i = 4 \/ i = 5 \/ i = 6 \/ i = 7 \/ i = 8
    OBVIOUS
  <2> QED
    BY <1>8, <2>1, AntennaSteps DEF Linked, Passed, SettingOp, ChipElements
<1> QED
  BY <1>1, <1>2, <1>3, <1>4, <1>5, <1>6, <1>7, <1>8 DEF Settings

\* The same of those that turn things off ...
LEMMA OffsLinked ==
  ASSUME NEW r \in Offs
  PROVE  Linked(r) /\ \A i \in 1 .. Len(r) : OffOp(r[i])
<1>1. CASE r = AmplifiersOff
  <2>1. ASSUME NEW i \in 1 .. 2
        PROVE  i = 1 \/ i = 2
    OBVIOUS
  <2> QED
    BY <1>1, <2>1, AmplifiersOffSteps DEF Linked, Passed, OffOp
<1>2. CASE r = AntennaOff
  <2>1. ASSUME NEW i \in 1 .. 5
        PROVE  i = 1 \/ i = 2 \/ i = 3 \/ i = 4 \/ i = 5
    OBVIOUS
  <2> QED
    BY <1>2, <2>1, AntennaOffSteps DEF Linked, Passed, OffOp
<1>3. CASE r = LnaOff
  <2>1. ASSUME NEW i \in 1 .. 5
        PROVE  i = 1 \/ i = 2 \/ i = 3 \/ i = 4 \/ i = 5
    OBVIOUS
  <2> QED
    BY <1>3, <2>1, LnaOffSteps DEF Linked, Passed, OffOp
<1> QED
  BY <1>1, <1>2, <1>3 DEF Offs

\* ... of the direction, and of the mode.
LEMMA DirectionLinked == Linked(Direction) /\ Linked(ModeOff)
<1>1. ASSUME NEW i \in 1 .. 10
      PROVE  i = 1 \/ i = 2 \/ i = 3 \/ i = 4 \/ i = 5 \/ i = 6 \/ i = 7 \/ i = 8 \/ i = 9 \/ i = 10
  OBVIOUS
<1>2. Linked(Direction)
  BY <1>1, DirectionSteps DEF Linked, Passed
<1>3. Linked(ModeOff)
  BY ModeOffSteps DEF Linked, Passed
<1> QED
  BY <1>2, <1>3

-----------------------------------------------------------------------------
(* Where the main loop is.                                                  *)

USE DEF configVars, xcvrVars, hwVars, localVars, switchVars, ghostVars

\* So it holds of whatever a switch calls.
LEMMA RoutineLinked ==
  ASSUME NEW m \in {"OFF", "RX", "TX"}, NEW i \in 1 .. Len(Program[m])
  PROVE  Linked(Program[m][i])
BY RoutinesOnly, SettingsLinked, OffsLinked, DirectionLinked DEF Routines

\* The switches to OFF, TX and RX call five, eight and nine routines.
LEMMA Lengths ==
  ASSUME NEW m \in {"OFF", "RX", "TX"}
  PROVE  Len(Program[m]) \in {5, 8, 9}
BY Calls

\* Where the switch stands, as numbers.
LEMMA Range ==
  ASSUME PathTypes
  PROVE  /\ Len(Program[target]) \in Nat \ {0}
         /\ DirectionAt \in Nat /\ DirectionAt \in {4, 8, 9}
         /\ pc \in Nat /\ step \in Nat \ {0}
         /\ pc > 0 => /\ pc \in 1 .. Len(Program[target]) /\ step \in 1 .. Len(Routine)
                      /\ Linked(Routine)
<1>1. Len(Program[target]) \in Nat \ {0} /\ DirectionAt \in {4, 8, 9}
  <2>1. Len(Program[target]) \in {5, 8, 9}
    BY Lengths DEF PathTypes
  <2>2. DirectionAt = 4 \/ DirectionAt = 8 \/ DirectionAt = 9
    BY DEF PathTypes, DirectionAt
  <2> QED
    BY <2>1, <2>2
<1>2. pc \in Nat
  BY <1>1 DEF PathTypes
<1>3. CASE pc > 0
  <2>1. pc \in 1 .. Len(Program[target]) /\ step \in 1 .. Len(Routine)
    BY <1>1, <1>2, <1>3 DEF PathTypes
  <2>2. Linked(Routine)
    BY <2>1, RoutineLinked DEF PathTypes, Routine
  <2> QED
    BY <1>1, <2>1, <2>2 DEF Linked
<1>4. CASE pc = 0
  BY <1>1, <1>4 DEF PathTypes
<1> QED
  BY <1>2, <1>3, <1>4

\* What the kind of a step says of its place.
LEMMA Where ==
  ASSUME PathTypes, pc > 0
  PROVE  /\ At("chip") \/ At("match") \/ At("tuned") => target # "OFF" /\ pc < DirectionAt
         /\ At("chip") => Arg \in ChipElements
         /\ At("direction") <=> pc = DirectionAt /\ step = 3
         /\ At("store") /\ Arg = "direction" <=> pc = DirectionAt /\ step = 2
         /\ At("enable") <=> pc = DirectionAt /\ step \in {4, 5}
         /\ At("enable") => Arg = IF step = 4 THEN "RX" ELSE "TX"
         /\ At("rfmode") <=> pc = DirectionAt /\ step = 6
         /\ pc = DirectionAt /\ step = 9 => At("pins") /\ Arg = "amp"
         /\ At("mode") <=> target = "OFF" /\ pc = 5
         /\ At("mode") => Arg = "OFF"
<1> USE DEF At, Arg
<1>1. pc \in 1 .. Len(Program[target]) /\ step \in 1 .. Len(Routine) /\ DirectionAt \in Nat
  BY Range
<1>2. CASE Routine \in Settings /\ target # "OFF" /\ pc < DirectionAt
  <2>1. SettingOp(Routine[step])
    BY <1>1, <1>2, SettingsLinked
  <2> QED
    BY <1>1, <1>2, <2>1 DEF SettingOp
<1>3. CASE Routine \in Offs /\ pc < DirectionAt
  <2>1. OffOp(Routine[step])
    BY <1>1, <1>3, OffsLinked
  <2>2. target = "OFF" => pc # 5
    BY <1>1, <1>3 DEF DirectionAt
  <2> QED
    BY <1>1, <1>3, <2>1, <2>2 DEF OffOp
<1>4. CASE Routine = Direction /\ pc = DirectionAt
  <2>1. \/ step = 1 \/ step = 2 \/ step = 3 \/ step = 4 \/ step = 5 \/ step = 6 \/ step = 7
        \/ step = 8 \/ step = 9 \/ step = 10
    BY <1>1, <1>4, DirectionSteps
  <2>2. target = "OFF" => pc # 5
    BY <1>1, <1>4 DEF DirectionAt
  <2> QED
    BY <1>1, <1>4, <2>1, <2>2, DirectionSteps
<1>5. CASE Routine = ModeOff /\ target = "OFF" /\ pc = 5
  <2>1. step = 1 /\ DirectionAt = 4
    BY <1>1, <1>5, ModeOffSteps DEF DirectionAt
  <2> QED
    BY <1>1, <1>5, <2>1, ModeOffSteps
<1> QED
  BY <1>1, <1>2, <1>3, <1>4, <1>5, Order DEF PathTypes

\* What stores and writes of the pins there are.
LEMMA Stores ==
  ASSUME PathTypes, pc > 0
  PROVE  /\ At("store") => Arg \in {"filter", "lna", "lna_off", "antenna", "antenna_off", "amps_off",
                                    "direction"}
         /\ At("pins") => Arg \in {"path", "amp", "ant"}
<1> USE DEF At, Arg
<1>1. pc \in 1 .. Len(Program[target]) /\ step \in 1 .. Len(Routine)
  BY Range
<1>2. CASE Routine \in Settings
  BY <1>1, <1>2, SettingsLinked DEF SettingOp
<1>3. CASE Routine \in Offs
  BY <1>1, <1>3, OffsLinked DEF OffOp
<1>4. CASE Routine = Direction
  <2>1. \/ step = 1 \/ step = 2 \/ step = 3 \/ step = 4 \/ step = 5 \/ step = 6 \/ step = 7
        \/ step = 8 \/ step = 9 \/ step = 10
    BY <1>1, <1>4, DirectionSteps
  <2> QED
    BY <1>4, <2>1, DirectionSteps
<1>5. CASE Routine = ModeOff
  BY <1>1, <1>5, ModeOffSteps
<1> QED
  BY <1>1, <1>2, <1>3, <1>4, <1>5, Order DEF PathTypes

\* A switch goes on to the next step, to the first one of the next routine, or ends.
LEMMA Returns ==
  ASSUME PathTypes, pc > 0, Return, UNCHANGED target
  PROVE  /\ pc' \in 0 .. Len(Program[target'])
         /\ step' \in 1 .. (IF pc' = 0 THEN 1 ELSE Len(Routine'))
         /\ result' \in {"ok", "failed"} /\ placed' \in BOOLEAN
         /\ step' = 1
         /\ \/ pc < Len(Program[target]) /\ pc' = pc + 1 /\ UNCHANGED <<result, placed>>
            \/ pc = Len(Program[target]) /\ pc' = 0 /\ result' = "ok" /\ placed' = TRUE
<1>1. Len(Program[target]) \in Nat \ {0} /\ pc \in 1 .. Len(Program[target])
  BY Range
<1>2. CASE pc < Len(Program[target])
  <2>1. pc' = pc + 1 /\ step' = 1 /\ UNCHANGED <<result, placed, target>>
    BY <1>2 DEF Return
  <2>2. pc' \in 1 .. Len(Program[target']) /\ target' \in {"OFF", "RX", "TX"}
    BY <1>1, <1>2, <2>1 DEF PathTypes
  <2>3. Linked(Routine')
    BY <2>2, RoutineLinked DEF Routine
  <2> QED
    BY <1>1, <1>2, <2>1, <2>2, <2>3 DEF PathTypes, Linked
<1>3. CASE pc = Len(Program[target])
  <2>1. ~(pc < Len(Program[target]))
    BY <1>1, <1>3
  <2>2. pc' = 0 /\ step' = 1 /\ result' = "ok" /\ placed' = TRUE
    BY <2>1 DEF Return
  <2>3. 0 \in 0 .. Len(Program[target']) /\ 1 \in 1 .. 1
    BY <1>1
  <2> QED
    BY <1>3, <2>2, <2>3
<1>4. pc < Len(Program[target]) \/ pc = Len(Program[target])
  BY <1>1
<1> QED
  BY <1>2, <1>3, <1>4

\* A step moves to the next of the routine, to the next routine, or out of the switch.
LEMMA Steps ==
  ASSUME PathTypes, pc > 0, Step
  PROVE  /\ pc' \in 0 .. Len(Program[target']) /\ target' = target
         /\ step' \in 1 .. (IF pc' = 0 THEN 1 ELSE Len(Routine'))
         /\ result' \in {"ok", "failed"} /\ placed' \in BOOLEAN
         /\ \/ pc' = pc /\ step' = step + 1 /\ UNCHANGED <<result, placed>>
            \/ step' = 1 /\ Return
<1>1. /\ Len(Program[target]) \in Nat \ {0} /\ pc \in 1 .. Len(Program[target])
      /\ step \in 1 .. Len(Routine) /\ Len(Routine) \in Nat \ {0}
  BY Range DEF Linked
<1>2. CASE step < Len(Routine)
  <2>1. pc' = pc /\ step' = step + 1 /\ UNCHANGED <<result, placed, target>>
    BY <1>2 DEF Step
  <2>2. Routine' = Routine
    BY <2>1 DEF Routine
  <2> QED
    BY <1>1, <1>2, <2>1, <2>2 DEF PathTypes
<1>3. CASE ~(step < Len(Routine))
  <2>1. Return /\ UNCHANGED target
    BY <1>3 DEF Step
  <2> QED
    BY <2>1, Returns
<1> QED
  BY <1>2, <1>3

\* What comes before a store, and before a write of the pins.
LEMMA Before ==
  ASSUME PathTypes, pc > 0, Step
  PROVE  /\ At("store")' => At("load")
         /\ At("pins")' => Passed(Routine[step])
<1>1. step \in 1 .. Len(Routine) /\ Linked(Routine)
  BY Range
<1>2. CASE pc' = pc /\ step' = step + 1
  <2>1. Routine' = Routine /\ step' \in 1 .. Len(Routine)
    BY <1>2, Steps DEF Routine
  <2> QED
    BY <1>1, <1>2, <2>1 DEF Linked, At
<1>3. CASE step' = 1 /\ Return
  <2>1. CASE pc' > 0
    <3>1. Linked(Routine')
      BY <2>1, Steps, RoutineLinked DEF Routine, PathTypes
    <3>2. 1 \in 1 .. Len(Routine')
      BY <3>1 DEF Linked
    <3> QED
      BY <1>3, <2>1, <3>1, <3>2 DEF Linked, At
  <2> QED
    BY <2>1 DEF At
<1> QED
  BY <1>2, <1>3, Steps

\* No routine begins with a store or with the pins.
LEMMA AfterReturn ==
  ASSUME PathTypes, pc > 0, Return, UNCHANGED target
  PROVE  ~At("store")' /\ ~At("pins")'
<1>1. CASE pc' > 0
  <2>1. pc' \in 1 .. Len(Program[target']) /\ target' \in {"OFF", "RX", "TX"}
    <3>1. target' \in {"OFF", "RX", "TX"} /\ Len(Program[target']) \in Nat
      BY Range DEF PathTypes
    <3>2. pc' \in 0 .. Len(Program[target'])
      BY Returns
    <3> QED
      BY <1>1, <3>1, <3>2
  <2>3. Linked(Routine')
    BY <2>1, RoutineLinked DEF Routine
  <2>2. step' = 1 /\ 1 \in 1 .. Len(Routine')
    BY <2>3, Returns DEF Linked
  <2> QED
    BY <1>1, <2>2, <2>3 DEF Linked, At
<1> QED
  BY <1>1 DEF At

\* Of the direction's own steps, exactly the one that is done is new.
LEMMA DirectedStep ==
  ASSUME PathTypes, pc > 0, Step, NEW n \in {2, 3, 5, 6, 9}
  PROVE  /\ DirectionAt' = DirectionAt /\ target' = target
         /\ pc' > 0 => (Directed(n)' <=> Directed(n) \/ (pc = DirectionAt /\ step = n))
         /\ pc' = 0 => Directed(n) /\ ~(pc = DirectionAt /\ step = n)
<1>1. /\ pc \in 1 .. Len(Program[target]) /\ step \in 1 .. Len(Routine)
      /\ DirectionAt \in {4, 8, 9} /\ target \in {"OFF", "RX", "TX"}
  BY Range DEF PathTypes
<1>2. DirectionAt' = DirectionAt /\ target' = target
  BY Steps DEF DirectionAt
<1>3. /\ target = "OFF" => DirectionAt = 4
      /\ target = "RX" => DirectionAt = 9
      /\ target = "TX" => DirectionAt = 8
  BY DEF DirectionAt
<1>4. pc = DirectionAt => Len(Routine) = 10
  BY <1>1, <1>3, Calls, DirectionSteps DEF Routine
<1>5. Len(Program[target]) >= DirectionAt
  <2>1. CASE target = "OFF"
    BY <1>3, <2>1, Calls
  <2>2. CASE target = "RX"
    BY <1>3, <2>2, Calls
  <2>3. CASE target = "TX"
    BY <1>3, <2>3, Calls
  <2> QED
    BY <1>1, <2>1, <2>2, <2>3
<1>6. CASE step < Len(Routine)
  <2>1. pc' = pc /\ step' = step + 1
    BY <1>6 DEF Step
  <2> QED
    BY <1>1, <1>2, <2>1 DEF Directed
<1>7. CASE ~(step < Len(Routine))
  <2>1. Return /\ step = Len(Routine)
    BY <1>1, <1>7, Range DEF Step, Linked
  <2>2. CASE pc < Len(Program[target])
    <3>1. pc' = pc + 1 /\ step' = 1
      BY <2>1, <2>2 DEF Return
    <3>2. CASE pc = DirectionAt
      <4>1. step = 10 /\ n < 10
        BY <1>4, <2>1, <3>2
      <4>2. Directed(n) /\ pc + 1 > DirectionAt
        BY <1>1, <3>2, <4>1 DEF Directed
      <4>3. Directed(n)'
        BY <1>2, <3>1, <4>2 DEF Directed
      <4> QED
        BY <3>1, <4>2, <4>3, <1>1, <1>2
    <3>3. CASE pc # DirectionAt
      BY <1>1, <1>2, <3>1, <3>3 DEF Directed
    <3> QED
      BY <3>2, <3>3
  <2>3. CASE ~(pc < Len(Program[target]))
    <3>1. pc' = 0
      BY <2>1, <2>3 DEF Return
    <3>2. pc > DirectionAt \/ (pc = DirectionAt /\ step = 10)
      BY <1>1, <1>4, <1>5, <2>1, <2>3
    <3> QED
      BY <1>1, <1>2, <3>1, <3>2 DEF Directed
  <2> QED
    BY <2>2, <2>3
<1> QED
  BY <1>6, <1>7

-----------------------------------------------------------------------------
(* The switch word and the pins.                                            *)

\* Only the direction turns the path: every other change of the switch word keeps it.
LEMMA WordChanges ==
  ASSUME NEW c, Word(c), NEW v, NEW f
  PROVE  /\ Word(SetFilter(c, f)) /\ SetFilter(c, f).tx = c.tx
         /\ Word(SetLna(c, v)) /\ SetLna(c, v).tx = c.tx
         /\ Word(SetAntenna(c, v)) /\ SetAntenna(c, v).tx = c.tx
         /\ Word(AmpsOff(c)) /\ AmpsOff(c).tx = c.tx
<1>1. Word(SetFilter(c, f)) /\ SetFilter(c, f).tx = c.tx
  BY DEF Word, SetFilter
<1>2. Word(SetLna(c, v)) /\ SetLna(c, v).tx = c.tx
  BY DEF Word, SetLna
<1>3. Word(SetAntenna(c, v)) /\ SetAntenna(c, v).tx = c.tx
  BY DEF Word, SetAntenna
<1>4. Word(AmpsOff(c)) /\ AmpsOff(c).tx = c.tx
  BY DEF Word, AmpsOff
<1> QED
  BY <1>1, <1>2, <1>3, <1>4

\* The direction points the path to the antenna for TX only.
LEMMA WordDirected ==
  ASSUME NEW c, Word(c), NEW d \in {"OFF", "RX", "TX"}
  PROVE  Word(SetDirection(c, d)) /\ (SetDirection(c, d).tx <=> d = "TX")
<1>1. CASE d = "TX"
  BY <1>1 DEF Word, SetDirection
<1>2. CASE d = "RX"
  BY <1>2 DEF Word, SetDirection
<1>3. CASE d = "OFF"
  BY <1>3 DEF Word, SetDirection
<1> QED
  BY <1>1, <1>2, <1>3

\* The transmit amplifier has power only if the path points to the antenna.
LEMMA AmpPower ==
  ASSUME NEW c, Word(c)
  PROVE  AmpPin(c) = "TX" => c.tx
<1>1. CASE c.bypass
  BY <1>1 DEF AmpPin, Word
<1>2. CASE ~c.bypass /\ ~c.tx
  BY <1>2 DEF AmpPin, Word
<1> QED
  BY <1>1, <1>2 DEF Word

\* Only the amplifier's group writes the amplifier's pins.
LEMMA PinsWritten ==
  ASSUME NEW p, "amp" \in DOMAIN p, NEW c, NEW g \in {"path", "amp", "ant"}
  PROVE  /\ "amp" \in DOMAIN SetPins(p, c, g)
         /\ SetPins(p, c, g).amp = IF g = "amp" THEN AmpPin(c) ELSE p.amp
<1>1. CASE g = "path"
  BY <1>1 DEF SetPins
<1>2. CASE g = "amp"
  BY <1>2 DEF SetPins
<1>3. CASE g = "ant"
  BY <1>3 DEF SetPins
<1> QED
  BY <1>1, <1>2, <1>3

-----------------------------------------------------------------------------
(* The steps of a switch.                                                   *)

\* A step that turns the path only where the direction is stored, powers the
\* transmit amplifier only if the path points to the antenna, and writes the
\* direction to the chips only where that is its step, keeps what follows the mode.
LEMMA StepFollows ==
  ASSUME PathInv, pc > 0, Step, UNCHANGED mode,
         switchctrl'.tx = IF pc = DirectionAt /\ step = 2 THEN target = "TX" ELSE switchctrl.tx,
         \/ pins'.amp = pins.amp /\ ~(pc = DirectionAt /\ step = 9)
         \/ (pins'.amp = "TX" => switchctrl.tx) /\ ~(pc = DirectionAt /\ step = 2),
         chip'.dir = IF pc = DirectionAt /\ step = 3 THEN target ELSE chip.dir
  PROVE  PathFollows' /\ ModeFollows' /\ ChipFollows'
<1> USE DEF PathInv
<1>1. /\ target \in {"OFF", "RX", "TX"} /\ mode # "OFF" /\ (target # "OFF" => mode = target)
      /\ switchctrl.tx \in BOOLEAN /\ placed \in BOOLEAN /\ pc \in Nat /\ step \in Nat
      /\ DirectionAt \in Nat
  BY Range DEF PathTypes, ModeFollows, Word
<1>2. /\ target' = target
      /\ \A n \in {2, 3, 9} :
           /\ pc' > 0 => (Directed(n)' <=> Directed(n) \/ (pc = DirectionAt /\ step = n))
           /\ pc' = 0 => Directed(n) /\ ~(pc = DirectionAt /\ step = n)
  BY DirectedStep DEF PathInv
<1>3. /\ pc' \in Nat
      /\ \/ pc' = pc /\ UNCHANGED <<result, placed>>
         \/ pc' > 0 /\ UNCHANGED <<result, placed>>
         \/ pc' = 0 /\ result' = "ok" /\ placed' = TRUE
  <2>1. Len(Program[target']) \in Nat
    BY <1>1, <1>2, Lengths
  <2>2. pc' \in Nat
    BY <2>1, Steps
  <2>3. CASE pc' = pc /\ step' = step + 1 /\ UNCHANGED <<result, placed>>
    BY <2>2, <2>3
  <2>4. CASE step' = 1 /\ Return
    <3>1. \/ pc' = pc + 1 /\ UNCHANGED <<result, placed>>
          \/ pc' = 0 /\ result' = "ok" /\ placed' = TRUE
      BY <1>2, <2>4, Returns
    <3> QED
      BY <1>1, <2>2, <3>1
  <2> QED
    BY <2>3, <2>4, Steps
<1>4. Directed(9) => Directed(3) /\ Directed(2)
  BY <1>1 DEF Directed
<1>5. /\ Directed(2) => ~(pc = DirectionAt /\ step = 2)
      /\ Directed(3) => ~(pc = DirectionAt /\ step = 3)
      /\ pc = DirectionAt /\ step = 9 => Directed(2)
  BY <1>1 DEF Directed
<1>6. switchctrl'.tx /\ placed' => mode' = "TX"
  BY <1>1, <1>2, <1>3, <1>5 DEF PathFollows
<1>7. pc' > 0 /\ target' # "TX" /\ Directed(2)' => ~switchctrl'.tx
  BY <1>1, <1>2, <1>5 DEF PathFollows
<1>8. pc' > 0 /\ target' # "TX" /\ Directed(9)' => pins'.amp # "TX"
  BY <1>1, <1>2, <1>4, <1>5 DEF PathFollows
<1>9. pins'.amp = "TX" => mode' = "TX" \/ ~placed'
  <2>1. CASE UNCHANGED placed
    BY <1>1, <2>1 DEF PathFollows
  <2>2. CASE pc' = 0
    BY <1>1, <1>2, <2>2 DEF PathFollows
  <2> QED
    BY <1>3, <2>1, <2>2
<1>10. ModeFollows'
  BY <1>1, <1>2 DEF ModeFollows
<1>11. pc' > 0 /\ (target' = "OFF" <=> Directed(3)') => chip'.dir = "OFF"
  BY <1>1, <1>2, <1>5 DEF ChipFollows
<1>12. chip'.dir = "TX" => mode' = "TX"
  BY <1>1 DEF ChipFollows
<1>13. ChipFollows'
  BY <1>1, <1>3, <1>11, <1>12 DEF ChipFollows
<1> QED
  BY <1>6, <1>7, <1>8, <1>9, <1>10, <1>13 DEF PathFollows

\* A step that stores the transceiver chip's mode only where that is its step, and
\* raises its transmit pin only where a switch to TX does, keeps what follows the mode.
LEMMA StepTransceiver ==
  ASSUME PathInv, pc > 0, Step, UNCHANGED mode, prior' = "OFF",
         rf_mode' = IF pc = DirectionAt /\ step = 6 THEN target ELSE rf_mode,
         Transmits' => IF pc = DirectionAt /\ step = 5 THEN target = "TX" ELSE Transmits
  PROVE  TransceiverFollows'
<1> USE DEF PathInv
<1>1. /\ target \in {"OFF", "RX", "TX"} /\ mode # "OFF" /\ (target # "OFF" => mode = target)
      /\ pc \in Nat /\ step \in Nat /\ DirectionAt \in Nat
  BY Range DEF PathTypes, ModeFollows
<1>2. /\ target' = target
      /\ \A n \in {5, 6} :
           /\ pc' > 0 => (Directed(n)' <=> Directed(n) \/ (pc = DirectionAt /\ step = n))
           /\ pc' = 0 => Directed(n) /\ ~(pc = DirectionAt /\ step = n)
  BY DirectedStep DEF PathInv
<1>3. \A n \in {5, 6} : Directed(n) => ~(pc = DirectionAt /\ step = n)
  BY <1>1 DEF Directed
<1>4. pc' = 0 => result' = "ok"
  <2>1. CASE pc' = pc
    BY <1>1, <2>1
  <2>2. CASE step' = 1 /\ Return
    <3>1. pc' = pc + 1 \/ result' = "ok"
      BY <1>2, <2>2, Returns
    <3> QED
      BY <1>1, <3>1
  <2> QED
    BY <2>1, <2>2, Steps
<1>5. pc' > 0 /\ (target' = "OFF" <=> Directed(5)') => ~Transmits'
  BY <1>1, <1>2, <1>3 DEF TransceiverFollows
<1>6. pc' > 0 /\ (target' = "OFF" <=> Directed(6)') => rf_mode' = "OFF"
  BY <1>1, <1>2, <1>3 DEF TransceiverFollows
<1>7. (rf_mode' = "TX" => mode' = "TX") /\ (Transmits' => mode' = "TX")
  BY <1>1 DEF TransceiverFollows
<1> QED
  BY <1>1, <1>4, <1>5, <1>6, <1>7 DEF TransceiverFollows

\* Most steps leave the transceiver chip alone.
LEMMA TransceiverKept ==
  ASSUME PathInv, pc > 0, Step, UNCHANGED <<mode, enabled, rf_mode, prior, crossed>>,
         ~At("enable"), ~At("rfmode")
  PROVE  TransceiverFollows'
<1>1. prior' = "OFF" /\ (Transmits' => Transmits)
  BY DEF PathInv, TransceiverFollows, Transmits
<1>2. ~(pc = DirectionAt /\ step = 6) /\ ~(pc = DirectionAt /\ step = 5)
  BY Where DEF PathInv
<1> QED
  BY <1>1, <1>2, StepTransceiver

\* A start that is not at its last routine has the chip in standby.
LEMMA Standby ==
  ASSUME PathInv, At("chip") \/ At("match") \/ At("tuned")
  PROVE  rf_mode = "OFF" /\ ~Transmits /\ prior = "OFF"
<1>1. pc > 0 /\ target # "OFF" /\ pc < DirectionAt /\ DirectionAt \in Nat /\ pc \in Nat
  BY Where, Range DEF At, PathInv
<1>2. ~Directed(5) /\ ~Directed(6)
  BY <1>1 DEF Directed
<1> QED
  BY <1>1, <1>2 DEF PathInv, TransceiverFollows

\* The steps that touch neither the path nor the direction of the chips.
LEMMA PlainSteps ==
  ASSUME PathInv, Get \/ GetAgain \/ WriteChip \/ Put \/ Tune \/ Tuned
  PROVE  PathInv'
<1> USE DEF PathInv
<1>1. /\ pc > 0 /\ Step /\ UNCHANGED <<mode, switchctrl, pins, reg, ctrl>>
      /\ At("get") \/ At("again") \/ At("chip") \/ At("put") \/ At("tune") \/ At("tuned")
  BY DEF Get, GetAgain, WriteChip, Put, Tune, Tuned, At
<1>2. chip'.dir = chip.dir /\ "dir" \in DOMAIN chip'
  <2>1. CASE WriteChip
    BY <1>1, <2>1, Where DEF WriteChip, PathTypes, ChipElements
  <2> QED
    BY <2>1 DEF Get, GetAgain, Put, Tune, Tuned, PathTypes
<1>3. ~At("load") /\ ~Passed(Routine[step]) /\ ~At("enable") /\ ~At("rfmode")
  BY <1>1 DEF At, Passed
<1>4. ~(pc = DirectionAt /\ step \in {2, 3, 5, 6, 9})
  BY <1>1, <1>3, Where DEF At
<1>5. Fresh'
  BY <1>1, <1>3, Before DEF Fresh
<1>6. TransceiverFollows' /\ enabled' \subseteq {"RX", "TX"} /\ rf_mode' \in {"OFF", "RX", "TX"}
  <2>1. CASE UNCHANGED <<enabled, rf_mode, prior, crossed>>
    BY <1>1, <1>3, <2>1, TransceiverKept DEF PathTypes
  <2>2. CASE Tuned /\ val \notin Explicit
    <3>1. rf_mode = "OFF" /\ prior = "OFF"
      BY <2>2, Standby DEF Tuned
    <3>2. rf_mode' = "OFF" /\ enabled' = {} /\ prior' = "OFF"
      BY <2>2, <3>1 DEF Tuned, Enables
    <3>3. ~Transmits'
      BY <3>2 DEF Transmits
    <3> QED
      BY <1>1, <1>4, <3>1, <3>2, <3>3, StepTransceiver
  <2> QED
    BY <2>1, <2>2 DEF Get, GetAgain, WriteChip, Put, Tune, Tuned
<1>7. PathTypes'
  BY <1>1, <1>2, <1>6, Steps DEF PathTypes
<1> QED
  BY <1>1, <1>2, <1>4, <1>5, <1>6, <1>7, StepFollows

\* A load takes the switch word with the direction it has.
LEMMA LoadKeepsPath ==
  ASSUME PathInv, Load
  PROVE  PathInv'
<1> USE DEF PathInv, Load
<1>1. pc > 0 /\ ~Passed(Routine[step])
  BY DEF At, Passed
<1>2. ~(pc = DirectionAt /\ step \in {2, 3, 9})
  BY <1>1, Where DEF At
<1>3. Fresh'
  BY <1>1, Before DEF Fresh
<1>4. PathTypes'
  BY <1>1, Steps DEF PathTypes
<1>9. TransceiverFollows'
  BY <1>1, TransceiverKept DEF At
<1> QED
  BY <1>1, <1>2, <1>3, <1>4, <1>9, StepFollows

\* So does the reading of the word that is passed to the pins.
LEMMA ReloadKeepsPath ==
  ASSUME PathInv, Reload
  PROVE  PathInv'
<1> USE DEF PathInv, Reload
<1>1. pc > 0 /\ ~At("load")
  BY DEF At
<1>2. ~(pc = DirectionAt /\ step \in {2, 3, 9})
  BY <1>1, Where DEF At
<1>3. Fresh'
  BY <1>1, Before DEF Fresh
<1>4. PathTypes'
  BY <1>1, Steps DEF PathTypes
<1>9. TransceiverFollows'
  BY <1>1, TransceiverKept DEF At
<1> QED
  BY <1>1, <1>2, <1>3, <1>4, <1>9, StepFollows

\* A store keeps the direction it was loaded with, except the one that is to set it.
LEMMA StoreKeepsPath ==
  ASSUME PathInv, Store
  PROVE  PathInv'
<1> USE DEF PathInv, Store
<1>1. pc > 0 /\ Word(reg) /\ reg.tx = switchctrl.tx /\ target \in {"OFF", "RX", "TX"} /\ ~At("load")
  BY DEF At, Fresh, PathTypes
<1>2. /\ Arg \in {"filter", "lna", "lna_off", "antenna", "antenna_off", "amps_off", "direction"}
      /\ Arg = "direction" <=> pc = DirectionAt /\ step = 2
  BY <1>1, Where, Stores
<1>3. Word(Changed) /\ Changed.tx = IF Arg = "direction" THEN target = "TX" ELSE switchctrl.tx
  <2>1. CASE Arg = "filter"
    BY <1>1, <2>1, WordChanges DEF Changed
  <2>2. CASE Arg = "lna"
    BY <1>1, <2>2, WordChanges DEF Changed
  <2>3. CASE Arg = "lna_off"
    BY <1>1, <2>3, WordChanges DEF Changed
  <2>4. CASE Arg = "antenna"
    BY <1>1, <2>4, WordChanges DEF Changed
  <2>5. CASE Arg = "antenna_off"
    BY <1>1, <2>5, WordChanges DEF Changed
  <2>6. CASE Arg = "amps_off"
    BY <1>1, <2>6, WordChanges DEF Changed
  <2>7. CASE Arg = "direction"
    <3>1. Changed = SetDirection(reg, target)
      BY <2>7 DEF Changed
    <3>2. Word(Changed) /\ Changed.tx \in BOOLEAN /\ (Changed.tx <=> target = "TX")
      BY <1>1, <3>1, WordDirected DEF Word
    <3> QED
      BY <2>7, <3>2
  <2> QED
    BY <1>2, <2>1, <2>2, <2>3, <2>4, <2>5, <2>6, <2>7
<1>4. Fresh'
  <2>1. ~At("store")'
    BY <1>1, Before
  <2>2. ASSUME At("pins")' PROVE ctrl'.tx = switchctrl'.tx
    <3>1. Passed(Routine[step])
      BY <1>1, <2>2, Before
    <3>2. Arg \in {"lna", "lna_off", "antenna", "antenna_off"}
      BY <3>1 DEF Passed, At, Arg
    <3> QED
      BY <3>2
  <2> QED
    BY <2>1, <2>2 DEF Fresh
<1>5. PathTypes'
  <2>1. Word(SWITCHCTRL_SAFE)
    BY DEF Word, SWITCHCTRL_SAFE
  <2> QED
    BY <1>1, <1>3, <2>1, Steps DEF PathTypes
<1>6. ~(pc = DirectionAt /\ step \in {3, 9})
  BY <1>1, Where DEF At
<1>9. TransceiverFollows'
  BY <1>1, TransceiverKept DEF At
<1> QED
  BY <1>1, <1>2, <1>3, <1>4, <1>5, <1>6, <1>9, StepFollows

\* The amplifier is powered for the direction of the path.
LEMMA WritePinKeepsPath ==
  ASSUME PathInv, WritePin
  PROVE  PathInv'
<1> USE DEF PathInv, WritePin
<1>1. /\ pc > 0 /\ Word(ctrl) /\ ctrl.tx = switchctrl.tx /\ "amp" \in DOMAIN pins
      /\ ~At("load") /\ ~At("direction")
  BY DEF At, Fresh, PathTypes
<1>2. Arg \in {"path", "amp", "ant"} /\ (pc = DirectionAt /\ step = 9 => Arg = "amp")
  BY <1>1, Where, Stores
<1>3. ~(pc = DirectionAt /\ step \in {2, 3})
  BY <1>1, Where DEF At
<1>4. "amp" \in DOMAIN pins' /\ pins'.amp = IF Arg = "amp" THEN AmpPin(ctrl) ELSE pins.amp
  BY <1>1, <1>2, PinsWritten
<1>5. (pins'.amp = pins.amp /\ Arg # "amp") \/ (pins'.amp = "TX" => switchctrl.tx)
  BY <1>1, <1>4, AmpPower
<1>6. Fresh'
  <2>1. ~At("store")'
    BY <1>1, Before
  <2>2. ASSUME At("pins")' PROVE ctrl'.tx = switchctrl'.tx
    <3>1. Passed(Routine[step])
      BY <1>1, <2>2, Before
    <3>2. Arg # "ant"
      BY <3>1 DEF Passed, At, Arg
    <3> QED
      BY <1>1, <3>2
  <2> QED
    BY <2>1, <2>2 DEF Fresh
<1>7. PathTypes'
  <2>1. Word(SWITCHCTRL_SAFE)
    BY DEF Word, SWITCHCTRL_SAFE
  <2> QED
    BY <1>1, <1>4, <2>1, Steps DEF PathTypes
<1>9. TransceiverFollows'
  BY <1>1, TransceiverKept DEF At
<1> QED
  BY <1>1, <1>2, <1>3, <1>5, <1>6, <1>7, <1>9, StepFollows

\* The chips are turned once the mode of the start is stored.
LEMMA ChipDirectionKeepsPath ==
  ASSUME PathInv, ChipDirection
  PROVE  PathInv'
<1> USE DEF PathInv, ChipDirection
<1>1. pc > 0 /\ ~At("load") /\ ~Passed(Routine[step])
  BY DEF At, Passed
<1>2. pc = DirectionAt /\ step = 3
  BY <1>1, Where
<1>3. chip'.dir = target /\ "dir" \in DOMAIN chip'
  BY DEF PathTypes
<1>4. Fresh'
  BY <1>1, Before DEF Fresh
<1>5. PathTypes'
  BY <1>1, <1>3, Steps DEF PathTypes
<1>9. TransceiverFollows'
  BY <1>1, TransceiverKept DEF At
<1> QED
  BY <1>1, <1>2, <1>3, <1>4, <1>5, <1>9, StepFollows

\* The receive pin follows the target, then the transmit pin.
LEMMA WriteEnableKeepsPath ==
  ASSUME PathInv, WriteEnable
  PROVE  PathInv'
<1> USE DEF PathInv, WriteEnable
<1>1. /\ pc > 0 /\ ~At("load") /\ ~Passed(Routine[step]) /\ ~At("store") /\ ~At("direction")
      /\ ~At("rfmode") /\ ~At("pins")
  BY DEF At, Passed
<1>2. /\ pc = DirectionAt /\ step \in {4, 5} /\ Arg = IF step = 4 THEN "RX" ELSE "TX"
  BY <1>1, Where
<1>3. enabled' \subseteq {"RX", "TX"}
  BY DEF PathTypes, Enables
<1>4. Transmits' => IF step = 5 THEN target = "TX" ELSE Transmits
  <2>1. CASE step = 5
    BY <1>2, <2>1 DEF Transmits, Enables
  <2>2. CASE step = 4
    <3>1. Arg = "RX"
      BY <1>2, <2>2
    <3>2. crossed => crossed'
      BY <3>1
    <3>3. "TX" \in enabled' => "TX" \in enabled
      BY <3>1 DEF Enables
    <3> QED
      BY <2>2, <3>2, <3>3 DEF Transmits
  <2> QED
    BY <1>2, <2>1, <2>2
<1>5. TransceiverFollows'
  <2>1. prior' = "OFF"
    BY DEF TransceiverFollows
  <2> QED
    BY <1>1, <1>2, <1>4, <2>1, StepTransceiver
<1>6. Fresh'
  BY <1>1, Before DEF Fresh
<1>7. PathTypes'
  BY <1>1, <1>3, Steps DEF PathTypes
<1> QED
  BY <1>1, <1>2, <1>5, <1>6, <1>7, StepFollows

\* The driver's copy of the mode comes after its pins.
LEMMA StoreChipModeKeepsPath ==
  ASSUME PathInv, StoreChipMode
  PROVE  PathInv'
<1> USE DEF PathInv, StoreChipMode
<1>1. pc > 0 /\ ~At("load") /\ ~Passed(Routine[step])
  BY DEF At, Passed
<1>2. pc = DirectionAt /\ step = 6
  BY <1>1, Where
<1>3. TransceiverFollows'
  <2>1. prior' = "OFF" /\ (Transmits' => Transmits)
    BY DEF TransceiverFollows, Transmits
  <2> QED
    BY <1>1, <1>2, <2>1, StepTransceiver
<1>4. Fresh'
  BY <1>1, Before DEF Fresh
<1>5. PathTypes'
  BY <1>1, Steps DEF PathTypes
<1> QED
  BY <1>1, <1>2, <1>3, <1>4, <1>5, StepFollows

\* OFF is stored when the path and the chips are off already.
LEMMA StoreModeKeepsPath ==
  ASSUME PathInv, StoreMode
  PROVE  PathInv'
<1> USE DEF PathInv, StoreMode
<1>1. pc > 0
  BY DEF At
<1>2. target = "OFF" /\ pc = 5 /\ mode' = "OFF"
  BY <1>1, Where
<1>3. DirectionAt = 4
  BY <1>2 DEF DirectionAt
<1>4. /\ ~switchctrl.tx /\ pins.amp # "TX" /\ chip.dir = "OFF"
      /\ rf_mode = "OFF" /\ ~Transmits /\ prior = "OFF"
  BY <1>2, <1>3 DEF PathFollows, ChipFollows, TransceiverFollows, Directed
<1>5. pc' = 0 /\ step' = 1 /\ result' = "ok" /\ placed' = TRUE /\ target' = target
  <2>1. step = 1 /\ Len(Routine) = 1
    BY <1>2, Range, Calls, ModeOffSteps DEF Routine
  <2> QED
    BY <1>2, <2>1, Calls DEF Step, Return
<1>6. PathTypes'
  BY <1>1, <1>2, <1>5, Steps DEF PathTypes
<1>7. TransceiverFollows'
  BY <1>2, <1>4, <1>5 DEF TransceiverFollows, Transmits
<1> QED
  BY <1>2, <1>4, <1>5, <1>6, <1>7 DEF Fresh, At, PathFollows, ModeFollows, ChipFollows

\* A switch fails before its chips are on.
LEMMA FailKeepsPath ==
  ASSUME PathInv, At("chip") \/ At("match"), Fail,
         UNCHANGED <<mode, chip, switchctrl, pins, reg, ctrl, rf_mode, prior>>,
         enabled' \subseteq {"RX", "TX"}, ~Transmits'
  PROVE  PathInv'
<1> USE DEF PathInv, Fail
<1>1. pc > 0
  BY DEF At
<1>2. target # "OFF" /\ pc < DirectionAt /\ DirectionAt \in Nat /\ pc \in Nat
  BY <1>1, Where, Range
<1>3. chip.dir = "OFF"
  BY <1>1, <1>2 DEF ChipFollows, Directed
<1>4. Len(Program[target]) \in Nat
  BY Range
<1>5. TransceiverFollows'
  BY Standby DEF TransceiverFollows
<1> QED
  BY <1>3, <1>4, <1>5 DEF PathTypes, Fresh, At, PathFollows, ModeFollows, ChipFollows

\* A frequency that is refused ends the switch with the chips still off.
LEMMA MatchKeepsPath ==
  ASSUME PathInv, Match
  PROVE  PathInv'
<1> USE DEF PathInv, Match
<1>1. rf_mode = "OFF" /\ ~Transmits /\ prior = "OFF"
  BY Standby
<1>2. rf_mode' = "OFF" /\ prior' = "OFF" /\ enabled' \subseteq {"RX", "TX"} /\ ~Transmits'
  <2>1. CASE val \in Explicit
    BY <1>1, <2>1 DEF Transmits, PathTypes
  <2>2. CASE val \notin Explicit
    <3>1. rf_mode' = "OFF" /\ prior' = "OFF" /\ enabled' = {}
      BY <1>1, <2>2 DEF Enables
    <3> QED
      BY <3>1 DEF Transmits
  <2> QED
    BY <2>1, <2>2
<1>3. CASE Fail
  BY <1>1, <1>2, <1>3, FailKeepsPath
<1>4. CASE Step
  <2>1. /\ pc > 0 /\ ~At("load") /\ ~Passed(Routine[step]) /\ ~At("enable") /\ ~At("rfmode")
  BY DEF At, Passed
  <2>2. ~(pc = DirectionAt /\ step \in {2, 3, 5, 6, 9})
    BY <2>1, Where DEF At
  <2>3. Fresh'
    BY <1>4, <2>1, Before DEF Fresh
  <2>4. PathTypes'
    BY <1>2, <1>4, <2>1, Steps DEF PathTypes
  <2>5. TransceiverFollows'
    BY <1>1, <1>2, <1>4, <2>1, <2>2, StepTransceiver
  <2> QED
    BY <1>4, <2>1, <2>2, <2>3, <2>4, <2>5, StepFollows
<1> QED
  BY <1>3, <1>4

\* The routine that tunes returns at once: the switch does not end there.
LEMMA AlreadyAppliedKeepsPath ==
  ASSUME PathInv, AlreadyApplied
  PROVE  PathInv'
<1> USE DEF PathInv, AlreadyApplied
<1>1. /\ pc > 0 /\ target # "OFF" /\ pc < DirectionAt /\ DirectionAt \in Nat
      /\ pc \in 1 .. Len(Program[target]) /\ Len(Program[target]) \in Nat
      /\ target \in {"OFF", "RX", "TX"}
  BY Where, Range DEF At, PathTypes
<1>2. pc < Len(Program[target])
  BY <1>1, Calls DEF DirectionAt
<1>3. pc' = pc + 1 /\ step' = 1 /\ UNCHANGED <<result, placed, target>>
  BY <1>2 DEF Return
<1>4. PathTypes'
  <2>1. step' \in 1 .. (IF pc' = 0 THEN 1 ELSE Len(Routine')) /\ pc' \in 0 .. Len(Program[target'])
    BY <1>1, Returns
  <2> QED
    BY <1>3, <2>1 DEF PathTypes
<1>5. Fresh'
  BY <1>1, AfterReturn DEF Fresh
<1>6. \A n \in {2, 3, 5, 6, 9} : ~Directed(n) /\ ~Directed(n)'
  BY <1>1, <1>3 DEF Directed, DirectionAt
<1>7. PathFollows'
  BY <1>3, <1>6 DEF PathFollows
<1>8. ModeFollows' /\ ChipFollows'
  BY <1>1, <1>3, <1>6 DEF ModeFollows, ChipFollows
<1>9. TransceiverFollows'
  <2>1. Transmits' <=> Transmits
    BY DEF Transmits
  <2> QED
    BY <1>1, <1>3, <1>6, <2>1 DEF TransceiverFollows
<1> QED
  BY <1>4, <1>5, <1>7, <1>8, <1>9

\* A start finds the chips off, and a path that is not placed or points away from
\* the antenna; OFF finds them as the mode has them.
LEMMA BeginKeepsPath ==
  ASSUME PathInv, NEW m \in {"OFF", "RX", "TX"}, Begin(m)
  PROVE  PathInv'
<1> USE DEF PathInv, Begin
<1>1. /\ target' = m /\ pc' = 1 /\ step' = 1
      /\ UNCHANGED <<hwVars, reg, ctrl, prior, crossed, placed, result>>
      /\ mode' = (IF m = "OFF" THEN mode ELSE m) /\ ((m = "OFF") # (mode = "OFF"))
  BY DEF ModeDuring, PathTypes
<1>2. Len(Program[m]) \in Nat \ {0} /\ Linked(Program[m][1])
  <2>1. Len(Program[m]) \in {5, 8, 9}
    BY Lengths
  <2> QED
    BY <2>1, RoutineLinked
<1>3. PathTypes'
  BY <1>1, <1>2 DEF PathTypes, Linked, Routine
<1>4. Fresh'
  BY <1>1, <1>2 DEF Fresh, At, Routine, Linked
<1>5. \A n \in {2, 3, 5, 6, 9} : ~Directed(n)'
  BY <1>1 DEF Directed, DirectionAt
<1>6. PathFollows'
  BY <1>1, <1>5 DEF PathFollows, PathTypes
<1>7. ModeFollows' /\ ChipFollows'
  BY <1>1, <1>5 DEF ModeFollows, ChipFollows, PathTypes
<1>8. TransceiverFollows'
  <2>1. Transmits' <=> Transmits
    BY <1>1 DEF Transmits
  <2> QED
    BY <1>1, <1>5, <2>1 DEF TransceiverFollows, PathTypes
<1> QED
  BY <1>3, <1>4, <1>6, <1>7, <1>8

-----------------------------------------------------------------------------
(* The requests of the host: none turns the path round.                     *)

\* A request leaves the direction of the path and of the chips alone.
LEMMA RequestKeepsPath ==
  ASSUME PathInv, NEW e \in Elements, NEW v, Request(e, v)
  PROVE  PathInv'
<1> USE DEF PathInv
<1>1. UNCHANGED <<mode, reg, ctrl, prior, pc, step, target, result, placed>>
  BY DEF Request
<1>2. Word(switchctrl) /\ "dir" \in DOMAIN chip /\ "amp" \in DOMAIN pins
  BY DEF PathTypes
<1>3. /\ chip'.dir = chip.dir /\ "dir" \in DOMAIN chip'
      /\ \/ UNCHANGED <<switchctrl, pins>>
         \/ /\ Word(switchctrl') /\ switchctrl'.tx = switchctrl.tx
            /\ "amp" \in DOMAIN pins' /\ pins'.amp = AmpPin(switchctrl')
  <2>1. CASE SetWhileOff(e, v)
    BY <1>2, <2>1 DEF SetWhileOff
  <2>2. CASE e \in ChipElements /\ SetChip(e, v)
    BY <1>2, <2>2 DEF SetChip, ChipElements
  <2>3. CASE SetFrequency(v)
    BY <1>2, <2>3, WordChanges DEF SetFrequency, SetSwitch, AllPins
  <2>4. CASE SetAmp(v)
    BY <1>2, <2>4, WordChanges DEF SetAmp, SetSwitch, AllPins
  <2>5. CASE SetAntennaEnable(v)
    BY <1>2, <2>5, WordChanges DEF SetAntennaEnable, SetSwitch, AllPins
  <2> QED
    BY <2>1, <2>2, <2>3, <2>4, <2>5 DEF Request, Elements, Switched
<1>4. switchctrl'.tx = switchctrl.tx /\ Word(switchctrl') /\ "amp" \in DOMAIN pins'
      /\ (pins'.amp = pins.amp \/ (pins'.amp = "TX" => switchctrl.tx))
  BY <1>2, <1>3, AmpPower
<1>5. \A n \in {2, 3, 5, 6, 9} : Directed(n)' <=> Directed(n)
  BY <1>1 DEF Directed, DirectionAt
<1>6. /\ rf_mode' = rf_mode /\ enabled' \subseteq {"RX", "TX"}
       /\ \/ UNCHANGED <<enabled, crossed>>
          \/ enabled' = Enables(rf_mode) /\ crossed' = (At("rfmode") /\ rf_mode = "TX")
  <2>1. CASE SetWhileOff(e, v)
    BY <2>1 DEF SetWhileOff, PathTypes
  <2>2. CASE e \in ChipElements /\ SetChip(e, v)
    BY <2>2 DEF SetChip, PathTypes
  <2>3. CASE SetFrequency(v)
    BY <2>3 DEF SetFrequency, PathTypes, Enables
  <2>4. CASE SetAmp(v)
    BY <2>4 DEF SetAmp, PathTypes
  <2>5. CASE SetAntennaEnable(v)
    BY <2>5 DEF SetAntennaEnable, PathTypes
  <2> QED
    BY <2>1, <2>2, <2>3, <2>4, <2>5 DEF Request, Elements, Switched
<1>7. TransceiverFollows'
  <2>1. CASE UNCHANGED <<enabled, crossed>>
    <3>1. Transmits' <=> Transmits
      BY <2>1 DEF Transmits
    <3> QED
      BY <1>1, <1>5, <1>6, <3>1 DEF TransceiverFollows
  <2>2. CASE enabled' = Enables(rf_mode) /\ crossed' = (At("rfmode") /\ rf_mode = "TX")
    <3>1. Transmits' => rf_mode = "TX" /\ ~At("rfmode")
      BY <2>2 DEF Transmits, Enables
    <3>2. pc > 0 => (Directed(5) <=> Directed(6) \/ At("rfmode"))
      BY Where, Range DEF Directed
    <3>3. pc > 0 /\ (target = "OFF" <=> Directed(5)) => ~Transmits'
      BY <3>1, <3>2 DEF TransceiverFollows
    <3>4. (mode = "OFF" \/ (pc = 0 /\ result = "failed") => ~Transmits') /\ (Transmits' => mode = "TX")
      BY <3>1 DEF TransceiverFollows
    <3> QED
      BY <1>1, <1>5, <1>6, <3>3, <3>4 DEF TransceiverFollows
  <2> QED
    BY <1>6, <2>1, <2>2
<1>8. PathTypes'
  BY <1>1, <1>3, <1>4, <1>6 DEF PathTypes, Routine
<1>9. Fresh'
  BY <1>1, <1>4 DEF Fresh, At, Routine
<1>10. Directed(9) => Directed(2)
  BY Range DEF Directed
<1>11. PathFollows'
  BY <1>1, <1>4, <1>5, <1>10 DEF PathFollows
<1>12. ModeFollows' /\ ChipFollows'
  BY <1>1, <1>3, <1>5 DEF ModeFollows, ChipFollows
<1> QED
  BY <1>8, <1>9, <1>11, <1>12, <1>7

-----------------------------------------------------------------------------

\* Boot leaves the path in the transmit direction, not yet placed by a switch.
LEMMA InitPath == Init => PathInv
<1> SUFFICES ASSUME Init PROVE PathInv
  OBVIOUS
<1>1. Word(SWITCHCTRL_SAFE) /\ pins.amp = "none" /\ "amp" \in DOMAIN pins
  BY DEF Init, Word, SWITCHCTRL_SAFE, AllPins, AmpPin
<1>2. "dir" \in DOMAIN chip /\ chip["dir"] = "OFF"
  BY DEF Init, ChipElements
<1>3. Len(Program[target]) \in Nat
  BY Calls DEF Init
<1>4. PathTypes
  <2>1. mode = "OFF" /\ target = "OFF" /\ result = "ok" /\ placed = FALSE
    BY DEF Init
  <2>2. pc \in 0 .. Len(Program[target])
    BY <1>3 DEF Init
  <2>3. step \in 1 .. (IF pc = 0 THEN 1 ELSE Len(Routine))
    BY DEF Init
  <2>4. Word(switchctrl) /\ Word(reg) /\ Word(ctrl)
    BY <1>1 DEF Init
  <2>5. enabled \subseteq {"RX", "TX"} /\ rf_mode \in {"OFF", "RX", "TX"}
    BY DEF Init
  <2> QED
    BY <1>1, <1>2, <2>1, <2>2, <2>3, <2>4, <2>5 DEF PathTypes
<1>5. TransceiverFollows
  BY DEF Init, TransceiverFollows, Transmits
<1> QED
  BY <1>1, <1>2, <1>4, <1>5
     DEF Init, PathInv, PathTypes, Fresh, At, PathFollows, ModeFollows, ChipFollows

\* One step per action: the invariant of the path is inductive.
LEMMA StepKeepsPath == PathInv /\ [Next]_vars => PathInv'
<1> SUFFICES ASSUME PathInv, [Next]_vars PROVE PathInv'
  OBVIOUS
<1>1. ASSUME NEW m \in {"OFF", "RX", "TX"}, Begin(m) PROVE PathInv'
  BY <1>1, BeginKeepsPath
<1>2. CASE Get \/ GetAgain \/ WriteChip \/ Put \/ Tune \/ Tuned
  BY <1>2, PlainSteps
<1>3. CASE RefuseChip
  <2>1. ~Transmits' /\ enabled' \subseteq {"RX", "TX"}
    BY <1>3, Standby DEF RefuseChip, Transmits, PathInv, PathTypes
  <2> QED
    BY <1>3, <2>1, FailKeepsPath DEF RefuseChip
<1>4. CASE AlreadyApplied \/ Match
  BY <1>4, AlreadyAppliedKeepsPath, MatchKeepsPath
<1>5. CASE Load \/ Store \/ Reload \/ WritePin \/ ChipDirection \/ WriteEnable \/ StoreChipMode
            \/ StoreMode
  BY <1>5, LoadKeepsPath, StoreKeepsPath, ReloadKeepsPath, WritePinKeepsPath,
     ChipDirectionKeepsPath, WriteEnableKeepsPath, StoreChipModeKeepsPath, StoreModeKeepsPath
<1>6. ASSUME NEW s \in Settable, Request(s[1], s[2]) PROVE PathInv'
  BY <1>6, RequestKeepsPath, SettingsAssumption
<1>7. CASE UNCHANGED vars
  <2>1. (Transmits' <=> Transmits) /\ (TransceiverFollows' <=> TransceiverFollows)
    BY <1>7 DEF vars, Transmits, TransceiverFollows, Directed, DirectionAt
  <2> QED
    BY <1>7, <2>1 DEF vars, PathInv, PathTypes, Fresh, At, Routine, PathFollows, ModeFollows,
       ChipFollows, Directed, DirectionAt
<1> QED
  BY <1>1, <1>2, <1>3, <1>4, <1>5, <1>6, <1>7 DEF Next, MainNext

\* The direction of the path, the amplifier, the converters and the transceiver chip
\* follow the mode through every step of radio_switch_mode() and every request; the
\* chip's transmit pin except where a tuning crossed the switch to OFF (tuning.c:116).
THEOREM PathInvariant == Spec => []PathInv
BY InitPath, StepKeepsPath, PTL DEF Spec

\* Nothing transmits outside TX mode, once a first switch has succeeded, unless a
\* tuning crossed the switch to OFF (radio_switch_mode(), rf_path_set_direction(),
\* set_freq()).
THEOREM NoStrayTransmission == Spec => []TransmitsOnlyInTx
<1>1. PathInv => TransmitsOnlyInTx
  BY DEF PathInv, PathFollows, ChipFollows, TransceiverFollows, Transmits, TransmitsOnlyInTx
<1> QED
  BY <1>1, PathInvariant, PTL

-----------------------------------------------------------------------------
(* Which steps the settings, the direction and the way to OFF consist of.   *)

\* A routine that applies a setting gets its value first and stores it last.
SettingForm(r) ==
  /\ Len(r) > 2 /\ r[1][1] = "get" /\ r[Len(r)] = <<"put", r[1][2]>>
  /\ r[1][2] \in Elements
  /\ \A i \in 1 .. Len(r) :
       /\ r[i][1] = "get" => i = 1
       /\ r[i][1] = "put" => i = Len(r)
       /\ r[i][1] = "chip" => r[i][2] = r[1][2]

\* A routine that applies a setting gets its value first, and nothing else later.
LEMMA SettingsFormed ==
  ASSUME NEW r \in Settings
  PROVE  SettingForm(r)
<1>1. CASE r = Apply("rate")
  <2>1. ASSUME NEW i \in 1 .. 3
        PROVE  i = 1 \/ i = 2 \/ i = 3
    OBVIOUS
  <2> QED
    BY <1>1, <2>1, ApplySteps DEF SettingForm, Elements, ChipElements, Switched
<1>2. CASE r = Apply("filter")
  <2>1. ASSUME NEW i \in 1 .. 3
        PROVE  i = 1 \/ i = 2 \/ i = 3
    OBVIOUS
  <2> QED
    BY <1>2, <2>1, ApplySteps DEF SettingForm, Elements, ChipElements, Switched
<1>3. CASE r = Apply("lna")
  <2>1. ASSUME NEW i \in 1 .. 3
        PROVE  i = 1 \/ i = 2 \/ i = 3
    OBVIOUS
  <2> QED
    BY <1>3, <2>1, ApplySteps DEF SettingForm, Elements, ChipElements, Switched
<1>4. CASE r = Apply("vga")
  <2>1. ASSUME NEW i \in 1 .. 3
        PROVE  i = 1 \/ i = 2 \/ i = 3
    OBVIOUS
  <2> QED
    BY <1>4, <2>1, ApplySteps DEF SettingForm, Elements, ChipElements, Switched
<1>5. CASE r = Apply("txvga")
  <2>1. ASSUME NEW i \in 1 .. 3
        PROVE  i = 1 \/ i = 2 \/ i = 3
    OBVIOUS
  <2> QED
    BY <1>5, <2>1, ApplySteps DEF SettingForm, Elements, ChipElements, Switched
<1>6. CASE r = ApplyFreq
  <2>1. ASSUME NEW i \in 1 .. 11
        PROVE  i = 1 \/ i = 2 \/ i = 3 \/ i = 4 \/ i = 5 \/ i = 6 \/ i = 7 \/ i = 8 \/ i = 9 \/ i = 10 \/ i = 11
    OBVIOUS
  <2> QED
    BY <1>6, <2>1, FreqSteps DEF SettingForm, Elements, ChipElements, Switched
<1>7. CASE r = ApplyAmp
  <2>1. ASSUME NEW i \in 1 .. 7
        PROVE  i = 1 \/ i = 2 \/ i = 3 \/ i = 4 \/ i = 5 \/ i = 6 \/ i = 7
    OBVIOUS
  <2> QED
    BY <1>7, <2>1, AmpSteps DEF SettingForm, Elements, ChipElements, Switched
<1>8. CASE r = ApplyAntenna
  <2>1. ASSUME NEW i \in 1 .. 8
        PROVE  i = 1 \/ i = 2 \/ i = 3 \/ i = 4 \/ i = 5 \/ i = 6 \/ i = 7 \/ i = 8
    OBVIOUS
  <2> QED
    BY <1>8, <2>1, AntennaSteps DEF SettingForm, Elements, ChipElements, Switched
<1> QED
  BY <1>1, <1>2, <1>3, <1>4, <1>5, <1>6, <1>7, <1>8 DEF Settings

\* The positions of the routines of a start.
LEMMA StartCalls ==
  ASSUME target \in {"RX", "TX"}, pc \in 1 .. Len(Program[target])
  PROVE  /\ Len(Program[target]) = DirectionAt
         /\ \/ target = "RX" /\ DirectionAt = 9 /\ AntennaAt = 7
            \/ target = "TX" /\ DirectionAt = 8 /\ AntennaAt = 6
         /\ \/ pc = 1 /\ Routine = Apply("rate")
            \/ pc = 2 /\ Routine = ApplyFreq
            \/ pc = 3 /\ Routine = Apply("filter")
            \/ pc = 4 /\ Routine = ApplyAmp
            \/ pc = 5 /\ Routine = Apply(IF target = "RX" THEN "lna" ELSE "txvga")
            \/ pc = 6 /\ target = "RX" /\ Routine = Apply("vga")
            \/ pc = AntennaAt /\ Routine = ApplyAntenna
            \/ pc = AntennaAt + 1 /\ Routine = AmplifiersOff
            \/ pc = DirectionAt /\ Routine = Direction
<1>1. CASE target = "RX"
  <2>1. DirectionAt = 9 /\ AntennaAt = 7
    BY <1>1 DEF DirectionAt, AntennaAt
  <2>2. pc = 1 \/ pc = 2 \/ pc = 3 \/ pc = 4 \/ pc = 5 \/ pc = 6 \/ pc = 7 \/ pc = 8 \/ pc = 9
    BY <1>1, Calls
  <2> QED
    BY <1>1, <2>1, <2>2, Calls DEF Routine
<1>2. CASE target = "TX"
  <2>1. DirectionAt = 8 /\ AntennaAt = 6
    BY <1>2 DEF DirectionAt, AntennaAt
  <2>2. pc = 1 \/ pc = 2 \/ pc = 3 \/ pc = 4 \/ pc = 5 \/ pc = 6 \/ pc = 7 \/ pc = 8
    BY <1>2, Calls
  <2> QED
    BY <1>2, <2>1, <2>2, Calls DEF Routine
<1> QED
  BY <1>1, <1>2

\* The positions of the steps of a start.
LEMMA StartPlaces ==
  ASSUME PathTypes, pc > 0, target # "OFF"
  PROVE  /\ At("chip") => \/ pc = 1 /\ Arg = "rate"
                          \/ pc = 3 /\ Arg = "filter"
                          \/ pc = 5 /\ Arg = IF target = "RX" THEN "lna" ELSE "txvga"
                          \/ pc = 6 /\ target = "RX" /\ Arg = "vga"
         /\ At("chip") <=> step = 2 /\ (pc \in {1, 3, 5} \/ (pc = 6 /\ target = "RX"))
         /\ At("again") <=> pc = AntennaAt /\ step = 2
         /\ At("again") => Arg = "ant"
         /\ At("match") <=> pc = 2 /\ step = 2
         /\ At("tune") <=> pc = 2 /\ step = 9
         /\ At("tuned") <=> pc = 2 /\ step = 10
         /\ At("store") /\ Arg = "filter" <=> pc = 2 /\ step = 4
         /\ At("store") /\ Arg = "lna" <=> pc = 4 /\ step = 3
         /\ At("store") /\ Arg = "antenna" <=> pc = AntennaAt /\ step = 4
         /\ ~(At("store") /\ Arg \in {"lna_off", "antenna_off"})
         /\ pc = 2 /\ step = 5 => At("reload")
         /\ pc = 2 /\ step = 6 => At("pins") /\ Arg = "path"
<1> USE DEF At, Arg
<1>1. pc \in 1 .. Len(Program[target]) /\ step \in 1 .. Len(Routine) /\ target \in {"RX", "TX"}
  BY Range DEF PathTypes
<1>2. \/ target = "RX" /\ DirectionAt = 9 /\ AntennaAt = 7
      \/ target = "TX" /\ DirectionAt = 8 /\ AntennaAt = 6
  BY <1>1, StartCalls
<1>3. CASE pc = 1 /\ Routine = Apply("rate")
  <2> DEFINE e == "rate"
  <2>1. /\ Len(Routine) = 3 /\ Routine[1] = <<"get", e>> /\ Routine[2] = <<"chip", e>>
        /\ Routine[3] = <<"put", e>>
    BY <1>3, ApplySteps
  <2>2. step = 1 \/ step = 2 \/ step = 3
    BY <1>1, <2>1
  <2> QED
    BY <1>2, <1>3, <2>1, <2>2
<1>4. CASE pc = 2 /\ Routine = ApplyFreq
  <2>1. step = 1 \/ step = 2 \/ step = 3 \/ step = 4 \/ step = 5 \/ step = 6
     \/ step = 7 \/ step = 8 \/ step = 9 \/ step = 10 \/ step = 11
    BY <1>1, <1>4, FreqSteps
  <2> QED
    BY <1>2, <1>4, <2>1, FreqSteps
<1>5. CASE pc = 3 /\ Routine = Apply("filter")
  <2> DEFINE e == "filter"
  <2>1. /\ Len(Routine) = 3 /\ Routine[1] = <<"get", e>> /\ Routine[2] = <<"chip", e>>
        /\ Routine[3] = <<"put", e>>
    BY <1>5, ApplySteps
  <2>2. step = 1 \/ step = 2 \/ step = 3
    BY <1>1, <2>1
  <2> QED
    BY <1>2, <1>5, <2>1, <2>2
<1>6. CASE pc = 4 /\ Routine = ApplyAmp
  <2>1. step = 1 \/ step = 2 \/ step = 3 \/ step = 4 \/ step = 5 \/ step = 6 \/ step = 7
    BY <1>1, <1>6, AmpSteps
  <2> QED
    BY <1>2, <1>6, <2>1, AmpSteps
<1>7. CASE pc = 5 /\ Routine = Apply(IF target = "RX" THEN "lna" ELSE "txvga")
  <2> DEFINE e == IF target = "RX" THEN "lna" ELSE "txvga"
  <2>1. /\ Len(Routine) = 3 /\ Routine[1] = <<"get", e>> /\ Routine[2] = <<"chip", e>>
        /\ Routine[3] = <<"put", e>>
    BY <1>7, ApplySteps
  <2>2. step = 1 \/ step = 2 \/ step = 3
    BY <1>1, <2>1
  <2> QED
    BY <1>2, <1>7, <2>1, <2>2
<1>8. CASE pc = 6 /\ target = "RX" /\ Routine = Apply("vga")
  <2> DEFINE e == "vga"
  <2>1. /\ Len(Routine) = 3 /\ Routine[1] = <<"get", e>> /\ Routine[2] = <<"chip", e>>
        /\ Routine[3] = <<"put", e>>
    BY <1>8, ApplySteps
  <2>2. step = 1 \/ step = 2 \/ step = 3
    BY <1>1, <2>1
  <2> QED
    BY <1>2, <1>8, <2>1, <2>2
<1>9. CASE pc = AntennaAt /\ Routine = ApplyAntenna
  <2>1. step = 1 \/ step = 2 \/ step = 3 \/ step = 4 \/ step = 5 \/ step = 6 \/ step = 7 \/ step = 8
    BY <1>1, <1>9, AntennaSteps
  <2> QED
    BY <1>2, <1>9, <2>1, AntennaSteps
<1>10. CASE pc = AntennaAt + 1 /\ Routine = AmplifiersOff
  <2>1. step = 1 \/ step = 2
    BY <1>1, <1>10, AmplifiersOffSteps
  <2> QED
    BY <1>2, <1>10, <2>1, AmplifiersOffSteps
<1>11. CASE pc = DirectionAt /\ Routine = Direction
  <2>1. \/ step = 1 \/ step = 2 \/ step = 3 \/ step = 4 \/ step = 5 \/ step = 6 \/ step = 7
        \/ step = 8 \/ step = 9 \/ step = 10
    BY <1>1, <1>11, DirectionSteps
  <2> QED
    BY <1>2, <1>11, <2>1, DirectionSteps
<1> QED
  BY <1>1, <1>3, <1>4, <1>5, <1>6, <1>7, <1>8, <1>9, <1>10, <1>11, StartCalls

\* The positions of the steps to OFF.
LEMMA OffPlaces ==
  ASSUME PathTypes, pc > 0, target = "OFF"
  PROVE  /\ DirectionAt = 4 /\ Len(Program[target]) = 5 /\ pc \in 1 .. 5
         /\ \/ At("load") \/ At("store") \/ At("pins") \/ At("direction") \/ At("enable")
            \/ At("rfmode") \/ At("reload") \/ At("mode")
         /\ At("store") /\ Arg = "antenna_off" <=> pc = 2 /\ step = 2
         /\ At("store") /\ Arg = "lna_off" <=> pc = 3 /\ step = 2
         /\ ~(At("store") /\ Arg \in {"filter", "lna", "antenna"})
<1> USE DEF At, Arg
<1>1. /\ pc \in 1 .. 5 /\ step \in 1 .. Len(Routine) /\ Len(Program[target]) = 5
      /\ DirectionAt = 4
  BY Range, Calls DEF DirectionAt
<1>2. CASE pc = 1
  <2>1. Routine = AmplifiersOff
    BY <1>2, Calls DEF Routine
  <2>2. step = 1 \/ step = 2
    BY <1>1, <2>1, AmplifiersOffSteps
  <2> QED
    BY <1>1, <1>2, <2>1, <2>2, AmplifiersOffSteps
<1>3. CASE pc = 2
  <2>1. Routine = AntennaOff
    BY <1>3, Calls DEF Routine
  <2>2. step = 1 \/ step = 2 \/ step = 3 \/ step = 4 \/ step = 5
    BY <1>1, <2>1, AntennaOffSteps
  <2> QED
    BY <1>1, <1>3, <2>1, <2>2, AntennaOffSteps
<1>4. CASE pc = 3
  <2>1. Routine = LnaOff
    BY <1>4, Calls DEF Routine
  <2>2. step = 1 \/ step = 2 \/ step = 3 \/ step = 4 \/ step = 5
    BY <1>1, <2>1, LnaOffSteps
  <2> QED
    BY <1>1, <1>4, <2>1, <2>2, LnaOffSteps
<1>5. CASE pc = 4
  <2>1. Routine = Direction
    BY <1>5, Calls DEF Routine
  <2>2. \/ step = 1 \/ step = 2 \/ step = 3 \/ step = 4 \/ step = 5 \/ step = 6 \/ step = 7
        \/ step = 8 \/ step = 9 \/ step = 10
    BY <1>1, <2>1, DirectionSteps
  <2> QED
    BY <1>1, <1>5, <2>1, <2>2, DirectionSteps
<1>6. CASE pc = 5
  <2>1. Routine = ModeOff
    BY <1>6, Calls DEF Routine
  <2>2. step = 1
    BY <1>1, <2>1, ModeOffSteps
  <2> QED
    BY <1>1, <1>6, <2>1, <2>2, ModeOffSteps
<1> QED
  BY <1>1, <1>2, <1>3, <1>4, <1>5, <1>6

\* In a routine that applies a setting, and outside of them.
LEMMA SettingPlaces ==
  ASSUME PathTypes, pc > 0
  PROVE  /\ Setting => SettingForm(Routine)
         /\ At("get") <=> Setting /\ step = 1
         /\ At("put") <=> Setting /\ step = Len(Routine)
         /\ At("get") \/ At("put") \/ At("chip") => Setting /\ Arg = Element /\ Element \in Elements
         /\ Setting => Len(Routine) > 2
<1> USE DEF At, Arg, Element
<1>1. pc \in 1 .. Len(Program[target]) /\ step \in 1 .. Len(Routine) /\ target \in {"OFF", "RX", "TX"}
  BY Range DEF PathTypes
<1>2. CASE target = "OFF"
  <2>1. ~At("get") /\ ~At("put") /\ ~At("chip")
    BY <1>2, OffPlaces
  <2> QED
    BY <1>2, <2>1 DEF Setting
<1>3. CASE target # "OFF"
  <2>1. target \in {"RX", "TX"}
    BY <1>1, <1>3
  <2>2. AntennaAt \in {6, 7} /\ DirectionAt = AntennaAt + 2
    BY <1>1, <2>1, StartCalls
  <2>3. CASE pc <= AntennaAt
    <3>1. Setting
      BY <1>1, <1>3, <2>2, <2>3 DEF Setting
    <3>2. Routine \in Settings
      <4>1. \/ Routine = Apply("rate") \/ Routine = ApplyFreq \/ Routine = Apply("filter")
            \/ Routine = ApplyAmp \/ Routine = Apply(IF target = "RX" THEN "lna" ELSE "txvga")
            \/ Routine = Apply("vga") \/ Routine = ApplyAntenna
        BY <1>1, <2>1, <2>2, <2>3, StartCalls
      <4> QED
        BY <4>1 DEF Settings
    <3>3. SettingForm(Routine)
      BY <3>2, SettingsFormed
    <3> QED
      BY <1>1, <3>1, <3>3 DEF SettingForm
  <2>4. CASE pc > AntennaAt
    <3>1. ~Setting
      BY <2>2, <2>4 DEF Setting
    <3>2. Routine = AmplifiersOff \/ Routine = Direction
      BY <1>1, <2>1, <2>2, <2>4, StartCalls
    <3>3. ~At("get") /\ ~At("put") /\ ~At("chip")
      <4>1. CASE Routine = AmplifiersOff
        <5>1. step = 1 \/ step = 2
          BY <1>1, <4>1, AmplifiersOffSteps
        <5> QED
          BY <4>1, <5>1, AmplifiersOffSteps
      <4>2. CASE Routine = Direction
        <5>1. \/ step = 1 \/ step = 2 \/ step = 3 \/ step = 4 \/ step = 5 \/ step = 6 \/ step = 7
            \/ step = 8 \/ step = 9 \/ step = 10
          BY <1>1, <4>2, DirectionSteps
        <5> QED
          BY <4>2, <5>1, DirectionSteps
      <4> QED
        BY <3>2, <4>1, <4>2
    <3> QED
      BY <3>1, <3>3
  <2> QED
    BY <1>1, <2>2, <2>3, <2>4
<1> QED
  BY <1>2, <1>3

\* What a step that is not the last of its routine leaves the same.
LEMMA Stay ==
  ASSUME PathTypes, pc > 0, Step, step' > 1
  PROVE  /\ pc' = pc /\ step' = step + 1 /\ target' = target /\ step < Len(Routine)
         /\ Routine' = Routine /\ Element' = Element /\ DirectionAt' = DirectionAt
         /\ AntennaAt' = AntennaAt /\ (Setting' <=> Setting)
<1>1. pc' = pc /\ step' = step + 1 /\ target' = target /\ step < Len(Routine)
  BY DEF Step, Return
<1> QED
  BY <1>1 DEF Routine, Element, DirectionAt, AntennaAt, Setting

\* The types survive a step that reads a value, or stores the one read.
LEMMA TypesStep ==
  ASSUME PathTypes, FrontEndTypes, pc > 0, Step,
         DOMAIN chip' = DOMAIN chip, DOMAIN pins' = DOMAIN pins,
         overlapped' \in BOOLEAN, torn' \in BOOLEAN, lagging' \in BOOLEAN,
         \/ UNCHANGED config /\ (IF At("get") THEN val' = config[Arg] ELSE UNCHANGED val)
         \/ At("put") /\ config' = [config EXCEPT ![Arg] = val]
  PROVE  FrontEndTypes'
<1> USE DEF FrontEndTypes
<1>1. step \in Nat \ {0}
  BY Range
<1>2. DOMAIN config' = Elements /\ \A e \in Elements : Fits(e, config[e])'
  <2>1. CASE UNCHANGED config
    BY <2>1 DEF Fits
  <2>2. CASE At("put") /\ config' = [config EXCEPT ![Arg] = val]
    <3>1. Setting /\ step > 1 /\ Arg = Element /\ Element \in Elements
      BY <1>1, <2>2, SettingPlaces
    <3>2. Fits(Arg, val)
      BY <3>1
    <3>3. ASSUME NEW e \in Elements
          PROVE  Fits(e, config'[e])
      <4>1. config'[e] = IF e = Arg THEN val ELSE config[e]
        BY <2>2
      <4> QED
        BY <3>2, <4>1
    <3> QED
      BY <2>2, <3>3
  <2> QED
    BY <2>1, <2>2
<1>3. ASSUME Setting', step' > 1
      PROVE  Fits(Element, val)'
  <2>1. Setting /\ Element' = Element /\ step' = step + 1 /\ step < Len(Routine)
    BY <1>3, Stay
  <2>2. ~At("put")
    BY <1>1, <2>1, SettingPlaces
  <2>3. CASE step = 1
    <3>1. At("get") /\ Arg = Element /\ Element \in Elements
      BY <2>1, <2>3, SettingPlaces
    <3>2. val' = config[Element]
      BY <2>2, <3>1
    <3> QED
      BY <2>1, <3>1, <3>2
  <2>4. CASE step # 1
    <3>1. val' = val /\ step > 1
      BY <1>1, <2>2, <2>4, SettingPlaces
    <3> QED
      BY <2>1, <3>1
  <2> QED
    BY <2>3, <2>4
<1> QED
  BY <1>2, <1>3

\* What the host sends fits the element it is sent for.
LEMMA RequestKeepsTypes ==
  ASSUME PathTypes, FrontEndTypes, NEW e \in Elements, NEW v, Fits(e, v), Request(e, v)
  PROVE  FrontEndTypes'
<1> USE DEF FrontEndTypes
<1>1. /\ UNCHANGED <<val, pc, step, target>> /\ overlapped' \in BOOLEAN
  BY DEF Request
<1>2. /\ UNCHANGED config \/ config' = [config EXCEPT ![e] = v]
      /\ DOMAIN chip' = DOMAIN chip /\ DOMAIN pins' = DOMAIN pins
      /\ torn' \in BOOLEAN /\ lagging' \in BOOLEAN
  <2>1. CASE SetWhileOff(e, v)
    BY <2>1 DEF SetWhileOff, StoreConfig
  <2>2. CASE SetChip(e, v)
    BY <2>2 DEF SetChip, StoreConfig
  <2>3. CASE e = "freq" /\ SetFrequency(v)
    BY <2>3 DEF SetFrequency, SetSwitch, AllPins, StoreConfig
  <2>4. CASE e = "amp" /\ SetAmp(v)
    BY <2>4 DEF SetAmp, SetSwitch, AllPins, StoreConfig
  <2>5. CASE e = "ant" /\ SetAntennaEnable(v)
    BY <2>5 DEF SetAntennaEnable, SetSwitch, AllPins, StoreConfig
  <2> QED
    BY <2>1, <2>2, <2>3, <2>4, <2>5 DEF Request, Elements, Switched
<1>3. \A a \in Elements : Fits(a, config'[a])
  BY <1>2
<1>4. (Setting' <=> Setting) /\ Element' = Element
  BY <1>1 DEF Setting, Element, Routine, AntennaAt, DirectionAt
<1> QED
  BY <1>1, <1>2, <1>3, <1>4

\* The types of the configuration, the chips and the pins are inductive.
LEMMA TypesKept ==
  ASSUME PathTypes, FrontEndTypes, Next
  PROVE  FrontEndTypes'
<1>1. ASSUME NEW m \in {"OFF", "RX", "TX"}, Begin(m) PROVE FrontEndTypes'
  <2>1. step' = 1
    BY <1>1 DEF Begin, PathTypes
  <2>2. ~(step' > 1)
    BY <2>1
  <2> QED
    BY <1>1, <2>2 DEF Begin, FrontEndTypes
<1>2. CASE Get \/ GetAgain \/ Put
  <2>1. pc > 0 /\ Step
    BY <1>2 DEF Get, GetAgain, Put, At
  <2> QED
    BY <1>2, <2>1, TypesStep DEF Get, GetAgain, Put, FrontEndTypes, At
<1>3. CASE WriteChip \/ Tune \/ Tuned \/ ChipDirection
  <2>1. pc > 0 /\ Step /\ ~At("get")
    BY <1>3 DEF WriteChip, Tune, Tuned, ChipDirection, At
  <2>2. DOMAIN chip' = DOMAIN chip /\ torn' \in BOOLEAN
    BY <1>3 DEF WriteChip, Tune, Tuned, ChipDirection, FrontEndTypes
  <2> QED
    BY <1>3, <2>1, <2>2, TypesStep DEF WriteChip, Tune, Tuned, ChipDirection, FrontEndTypes
<1>4. CASE Load \/ Store \/ Reload \/ WritePin \/ WriteEnable \/ StoreChipMode \/ StoreMode
  <2>1. pc > 0 /\ Step /\ ~At("get")
    BY <1>4 DEF Load, Store, Reload, WritePin, WriteEnable, StoreChipMode, StoreMode, At
  <2>2. DOMAIN pins' = DOMAIN pins
    <3>1. CASE WritePin
      <4>1. Arg \in {"path", "amp", "ant"}
        BY <2>1, <3>1, Stores DEF WritePin
      <4> QED
        BY <3>1, <4>1 DEF WritePin, SetPins
    <3> QED
      BY <1>4, <3>1 DEF Load, Store, Reload, WriteEnable, StoreChipMode, StoreMode
  <2> QED
    BY <1>4, <2>1, <2>2, TypesStep
       DEF Load, Store, Reload, WritePin, WriteEnable, StoreChipMode, StoreMode, FrontEndTypes
<1>5. ASSUME Fail, UNCHANGED <<config, chip, pins, overlapped, torn, lagging>>
      PROVE  FrontEndTypes'
  BY <1>5 DEF Fail, FrontEndTypes
<1>6. CASE RefuseChip
  BY <1>5, <1>6 DEF RefuseChip
<1>7. CASE Match
  <2>1. pc > 0 /\ ~At("get")
    BY <1>7 DEF Match, At
  <2>2. CASE Step /\ UNCHANGED val
    BY <1>7, <2>1, <2>2, TypesStep DEF Match, FrontEndTypes
  <2> QED
    BY <1>5, <1>7, <2>2 DEF Match
<1>8. CASE AlreadyApplied
  BY <1>8 DEF AlreadyApplied, Return, FrontEndTypes
<1>9. ASSUME NEW s \in Settable, Request(s[1], s[2]) PROVE FrontEndTypes'
  BY <1>9, RequestKeepsTypes, SettingsAssumption
<1> QED
  BY <1>1, <1>2, <1>3, <1>4, <1>6, <1>7, <1>8, <1>9 DEF Next, MainNext

-----------------------------------------------------------------------------
(* How far a switch has come.                                               *)

After(p, n) == pc > p \/ (pc = p /\ step >= n)

\* A step leaves the switch only as the last of its last routine.
LEMMA DoneEnd ==
  ASSUME PathTypes, pc > 0, Step, pc' = 0
  PROVE  pc = Len(Program[target]) /\ step = Len(Routine)
BY Range DEF Step, Return, Linked

\* What is done after a step was done before it, or by it.
LEMMA DoneStep ==
  ASSUME PathTypes, pc > 0, Step, pc' > 0, NEW p \in Nat, NEW n \in Nat \ {0},
         pc = p => n <= Len(Routine)
  PROVE  Done(p, n)' => After(p, n)
<1>1. /\ pc \in 1 .. Len(Program[target]) /\ Len(Program[target]) \in Nat
      /\ step \in 1 .. Len(Routine) /\ Len(Routine) \in Nat
  BY Range DEF Linked
<1>2. CASE step < Len(Routine)
  <2>1. pc' = pc /\ step' = step + 1
    BY <1>2 DEF Step
  <2> QED
    BY <1>1, <2>1 DEF Done, After
<1>3. CASE step = Len(Routine)
  <2>1. pc' = pc + 1 /\ step' = 1
    BY <1>3, <1>1 DEF Step, Return
  <2>2. Done(p, n)' => pc >= p
    BY <1>1, <2>1 DEF Done
  <2> QED
    BY <1>1, <1>3, <2>2 DEF After
<1> QED
  BY <1>1, <1>2, <1>3

\* What each routine applies, and how long it is.
LEMMA StartElements ==
  ASSUME PathTypes, pc > 0, target # "OFF"
  PROVE  /\ pc = 1 => Element = "rate" /\ Len(Routine) = 3
         /\ pc = 2 => Element = "freq" /\ Len(Routine) = 11
         /\ pc = 3 => Element = "filter" /\ Len(Routine) = 3
         /\ pc = 4 => Element = "amp" /\ Len(Routine) = 7
         /\ pc = 5 => Element = (IF target = "RX" THEN "lna" ELSE "txvga") /\ Len(Routine) = 3
         /\ pc = 6 /\ target = "RX" => Element = "vga" /\ Len(Routine) = 3
         /\ pc = AntennaAt => Element = "ant" /\ Len(Routine) = 8
         /\ pc = DirectionAt => Len(Routine) = 10
         /\ Len(Program[target]) = DirectionAt
         /\ \/ target = "RX" /\ DirectionAt = 9 /\ AntennaAt = 7
            \/ target = "TX" /\ DirectionAt = 8 /\ AntennaAt = 6
<1>1. pc \in 1 .. Len(Program[target]) /\ target \in {"RX", "TX"}
  BY Range DEF PathTypes
<1>2. /\ Len(Program[target]) = DirectionAt
      /\ \/ target = "RX" /\ DirectionAt = 9 /\ AntennaAt = 7
         \/ target = "TX" /\ DirectionAt = 8 /\ AntennaAt = 6
  BY <1>1, StartCalls
<1>3. \A e : Len(Apply(e)) = 3 /\ Apply(e)[1][2] = e
  BY ApplySteps
<1>4. /\ pc = 1 => Routine = Apply("rate")
      /\ pc = 2 => Routine = ApplyFreq
      /\ pc = 3 => Routine = Apply("filter")
      /\ pc = 4 => Routine = ApplyAmp
      /\ pc = 5 => Routine = Apply(IF target = "RX" THEN "lna" ELSE "txvga")
      /\ pc = 6 /\ target = "RX" => Routine = Apply("vga")
      /\ pc = AntennaAt => Routine = ApplyAntenna
      /\ pc = DirectionAt => Routine = Direction
  BY <1>1, <1>2, StartCalls
<1> QED
  BY <1>2, <1>3, <1>4, FreqSteps, AmpSteps, AntennaSteps, DirectionSteps DEF Element

\* The writes of the pins when the direction is set.
LEMMA DirectionPlaces ==
  ASSUME PathTypes, pc = DirectionAt
  PROVE  /\ Len(Routine) = 10
         /\ step = 7 <=> At("reload")
         /\ step \in {8, 9, 10} <=> At("pins")
         /\ step = 8 => Arg = "path"
         /\ step = 9 => Arg = "amp"
         /\ step = 10 => Arg = "ant"
<1> USE DEF At, Arg
<1>1. pc > 0 /\ pc \in 1 .. Len(Program[target]) /\ step \in 1 .. Len(Routine)
  BY Range
<1>2. Routine = Direction
  <2>1. CASE target = "OFF"
    BY <2>1, Calls DEF Routine, DirectionAt
  <2>2. CASE target = "RX"
    BY <2>2, Calls DEF Routine, DirectionAt
  <2>3. CASE target = "TX"
    BY <2>3, Calls DEF Routine, DirectionAt
  <2> QED
    BY <2>1, <2>2, <2>3 DEF PathTypes
<1>3. \/ step = 1 \/ step = 2 \/ step = 3 \/ step = 4 \/ step = 5 \/ step = 6 \/ step = 7
      \/ step = 8 \/ step = 9 \/ step = 10
  BY <1>1, <1>2, DirectionSteps
<1> QED
  BY <1>1, <1>2, <1>3, DirectionSteps

\* The steps that a switch to OFF counts.
LEMMA OffLengths ==
  ASSUME PathTypes, pc > 0, target = "OFF"
  PROVE  (pc \in {2, 3} => Len(Routine) = 5) /\ (pc = 4 => Len(Routine) = 10)
BY Calls, AntennaOffSteps, LnaOffSteps, DirectionSteps DEF Routine

\* What the steps that do not leave the program change.
Operation ==
  /\ \/ Get \/ GetAgain \/ WriteChip \/ Put \/ Tune \/ Tuned \/ Load \/ Store \/ Reload
     \/ WritePin \/ ChipDirection \/ WriteEnable \/ StoreChipMode \/ StoreMode
     \/ Match /\ ~Refused("freq", val)
  /\ pc > 0 /\ Step

\* What an operation of a switch changes, one conjunct per variable.
LEMMA Effects ==
  ASSUME Operation
  PROVE  /\ config' = IF At("put") THEN [config EXCEPT ![Arg] = val] ELSE config
         /\ mode' = IF At("mode") THEN Arg ELSE mode
         /\ applied' = IF At("match") /\ val \notin Explicit THEN val ELSE applied
         /\ chip' = CASE At("chip") -> [chip EXCEPT ![Arg] = val]
                      [] At("tune") -> [chip EXCEPT !.freq = Partial]
                      [] At("tuned") -> [chip EXCEPT !.freq = IF @ = Partial THEN val ELSE Mixed]
                      [] At("direction") -> [chip EXCEPT !.dir = target]
                      [] OTHER -> chip
         /\ switchctrl' = IF At("store") THEN Changed ELSE switchctrl
         /\ pins' = IF At("pins") THEN SetPins(pins, ctrl, Arg) ELSE pins
         /\ val' = IF At("get") THEN config[Arg] ELSE IF At("put") THEN Unset ELSE val
         /\ old' = IF At("again") THEN config[Arg] ELSE IF At("store") THEN FALSE ELSE old
         /\ reg' = IF At("load") THEN switchctrl ELSE IF At("store") THEN SWITCHCTRL_SAFE ELSE reg
         /\ At("reload") => ctrl' = switchctrl
         /\ At("store") /\ Arg \in {"lna", "lna_off", "antenna", "antenna_off"} => ctrl' = Changed
         /\ At("pins") /\ Arg # "ant" => ctrl' = ctrl
         /\ torn' = IF At("tuned") THEN torn /\ overlapped ELSE torn
         /\ At("enable") => enabled' = (enabled \ {Arg}) \cup (Enables(target) \cap {Arg})
         /\ At("rfmode") => rf_mode' = target
         /\ ~At("match") /\ ~At("tuned") =>
              (At("enable") \/ enabled' = enabled) /\ (At("rfmode") \/ rf_mode' = rf_mode)
         /\ UNCHANGED <<target, overlapped, lagging, switches>>
         /\ At("match") => ~Refused("freq", val)
<1>1. UNCHANGED <<target, switches>>
  BY DEF Operation, Step
<1>2. CASE Get \/ GetAgain \/ Put
  BY <1>1, <1>2 DEF Get, GetAgain, Put, At
<1>3. CASE WriteChip \/ Tune \/ Tuned \/ ChipDirection
  BY <1>1, <1>3 DEF WriteChip, Tune, Tuned, ChipDirection, At
<1>4. CASE Match /\ ~Refused("freq", val)
  BY <1>1, <1>4 DEF Match, At
<1>5. CASE Load \/ Store \/ Reload
  BY <1>1, <1>5 DEF Load, Store, Reload, At
<1>6. CASE WritePin \/ WriteEnable \/ StoreChipMode \/ StoreMode
  BY <1>1, <1>6 DEF WritePin, WriteEnable, StoreChipMode, StoreMode, At
<1> QED
  BY <1>2, <1>3, <1>4, <1>5, <1>6 DEF Operation

\* A setting is refused: the switch fails.
Failure ==
  /\ At("chip") \/ (At("match") /\ Refused("freq", val))
  /\ pc > 0 /\ pc' = 0 /\ step' = 1 /\ result' = "failed"
  /\ applied' = IF At("match") /\ val \notin Explicit THEN val ELSE applied
  /\ UNCHANGED <<config, mode, chip, switchctrl, pins, overlapped, torn, lagging, switches>>

\* The kinds of steps there are.
LEMMA Kinds ==
  ASSUME Next
  PROVE  \/ \E m \in {"OFF", "RX", "TX"} : Begin(m)
         \/ Operation \/ Failure \/ AlreadyApplied
         \/ \E s \in Settable : s[1] \in Elements /\ Fits(s[1], s[2]) /\ Request(s[1], s[2])
<1>1. CASE \/ Get \/ GetAgain \/ WriteChip \/ Put \/ Tune \/ Tuned \/ Load \/ Store \/ Reload
           \/ WritePin \/ ChipDirection \/ WriteEnable \/ StoreChipMode \/ StoreMode
  <2>1. pc > 0 /\ Step
    BY <1>1 DEF Get, GetAgain, WriteChip, Put, Tune, Tuned, Load, Store, Reload,
                WritePin, ChipDirection, WriteEnable, StoreChipMode, StoreMode, At
  <2> QED
    BY <1>1, <2>1 DEF Operation
<1>2. CASE RefuseChip
  BY <1>2 DEF RefuseChip, Fail, Failure, At
<1>3. CASE Match
  <2>1. CASE Refused("freq", val)
    BY <1>3, <2>1 DEF Match, Fail, Failure, At
  <2>2. CASE ~Refused("freq", val)
    <3>1. pc > 0 /\ Step
      BY <1>3, <2>2 DEF Match, At
    <3> QED
      BY <1>3, <2>2, <3>1 DEF Operation
  <2> QED
    BY <2>1, <2>2
<1>4. ASSUME NEW s \in Settable, Request(s[1], s[2])
      PROVE  s[1] \in Elements /\ Fits(s[1], s[2])
  BY <1>4, SettingsAssumption
<1> QED
  BY <1>1, <1>2, <1>3, <1>4 DEF Next, MainNext

\* A frequency that is already tuned: the switch goes on to the next setting.
LEMMA Already ==
  ASSUME PathInv, FrontEndTypes, AlreadyApplied
  PROVE  /\ pc = 2 /\ step = 2 /\ target # "OFF" /\ Element = "freq" /\ Setting
         /\ pc' = 3 /\ step' = 1 /\ target' = target /\ val = applied /\ Fits("freq", val)
         /\ DirectionAt' = DirectionAt /\ AntennaAt' = AntennaAt
         /\ ~At("store")' /\ ~At("pins")' /\ ~At("tuned")'
         /\ UNCHANGED <<config, mode, applied, chip, switchctrl, pins, ghostVars, result, switches>>
<1>1. At("match") /\ pc > 0 /\ Return /\ UNCHANGED target /\ PathTypes
  BY DEF AlreadyApplied, At, PathInv
<1>2. target # "OFF" /\ pc = 2 /\ step = 2
  BY <1>1, Where, StartPlaces
<1>3. Element = "freq" /\ Setting /\ (Len(Program[target]) = 8 \/ Len(Program[target]) = 9)
  <2>1. /\ Element = "freq" /\ Len(Program[target]) = DirectionAt
        /\ \/ DirectionAt = 9 /\ AntennaAt = 7
           \/ DirectionAt = 8 /\ AntennaAt = 6
    BY <1>1, <1>2, StartElements
  <2> QED
    BY <1>2, <2>1 DEF Setting
<1>4. pc' = 3 /\ step' = 1 /\ UNCHANGED <<result, target>>
  <2>1. pc < Len(Program[target])
    <3>1. CASE Len(Program[target]) = 8
      BY <1>2, <3>1
    <3>2. CASE Len(Program[target]) = 9
      BY <1>2, <3>2
    <3> QED
      BY <1>3, <3>1, <3>2
  <2> QED
    BY <1>1, <1>2, <2>1 DEF Return
<1>5. Fits("freq", val)
  BY <1>2, <1>3 DEF FrontEndTypes
<1>6. DirectionAt' = DirectionAt /\ AntennaAt' = AntennaAt
  BY <1>4 DEF DirectionAt, AntennaAt
<1>7. ~At("tuned")'
  <2>1. target' \in {"RX", "TX"} /\ Program[target'][3] = Apply("filter")
    BY <1>1, <1>2, <1>4, Calls DEF PathTypes
  <2>2. Routine' = Apply("filter") /\ Routine[1]'[1] = "get"
    BY <1>4, <2>1, ApplySteps DEF Routine
  <2> QED
    BY <1>4, <2>2 DEF At
<1> QED
  BY <1>1, <1>2, <1>3, <1>4, <1>5, <1>6, <1>7, AfterReturn DEF AlreadyApplied

-----------------------------------------------------------------------------
(* The cached frequency.                                                    *)

\* A switch stores the frequency as cached when it tunes, and tunes what is not refused.
LEMMA OperationKeepsCached ==
  ASSUME PathInv, FrontEndTypes, Cached, Operation
  PROVE  Cached'
<1> USE DEF PathInv, Cached
<1>1. /\ pc > 0 /\ Step /\ pc \in Nat /\ step \in Nat \ {0}
      /\ target' = target /\ target \in {"OFF", "RX", "TX"}
  BY Range, Steps DEF Operation, PathTypes
<1>2. At("match") \/ At("tune") \/ At("tuned") => target # "OFF"
  BY <1>1, OffPlaces DEF At
<1>3. ASSUME target # "OFF", pc = 2
      PROVE  step > 1 => Fits("freq", val)
  <2>1. Setting /\ Element = "freq"
    BY <1>1, <1>3, StartElements DEF Setting
  <2> QED
    BY <2>1 DEF FrontEndTypes
<1>4. At("match") \/ At("tuned") => Fits("freq", val)
  BY <1>1, <1>2, <1>3, StartPlaces
<1>5. applied' \notin Explicit /\ applied' \notin {Partial, Mixed}
  BY <1>4, Effects DEF Fits
<1>6. \/ chip'.freq = chip.freq /\ ~At("tune")
      \/ chip'.freq \in {Partial, Mixed}
      \/ At("tuned") /\ chip'.freq = val
  <2>1. CASE At("chip")
    BY <1>1, <2>1, Where, Effects DEF At, ChipElements, FrontEndTypes
  <2>2. CASE At("tune")
    BY <2>2, Effects DEF At, FrontEndTypes
  <2>3. CASE At("tuned")
    BY <2>3, Effects DEF At, FrontEndTypes
  <2>4. CASE At("direction")
    BY <2>4, Effects DEF At, FrontEndTypes
  <2> QED
    BY <2>1, <2>2, <2>3, <2>4, Effects DEF At
<1>7. Fits("freq", chip'.freq) => ~Refused("freq", chip'.freq)
  <2>1. CASE At("tuned")
    <3>1. Tuning(2)
      BY <1>1, <1>2, <2>1, StartPlaces DEF Tuning
    <3> QED
      BY <1>6, <3>1 DEF Fits
  <2> QED
    BY <1>6, <2>1 DEF Fits
<1>8. ASSUME Tuning(2)' PROVE ~Refused("freq", val')
  <2>0. target' # "OFF" /\ pc' = 2 /\ step' > 2 /\ step' \in Nat
    BY <1>1, <1>8, Steps DEF Tuning, Return
  <2>1. pc = 2 /\ target # "OFF" /\ step' = step + 1 /\ step >= 2 /\ step < Len(Routine)
    <3>1. step' > 1
      BY <2>0
    <3> QED
      BY <1>1, <2>0, <3>1, Stay
  <2>2. val' = val
    BY <1>1, <2>1, SettingPlaces, Effects
  <2>3. CASE step = 2
    BY <1>1, <2>1, <2>2, <2>3, StartPlaces, Effects
  <2>4. CASE step > 2
    BY <2>1, <2>2, <2>4 DEF Tuning
  <2> QED
    BY <1>1, <2>1, <2>3, <2>4
<1>9. ASSUME applied' = Unset, chip'.freq = Unset
      PROVE  /\ pc' > 0 /\ target' # "OFF" => ~Done(2, 9)'
             /\ pc' = 0 /\ result' = "ok" => mode' = "OFF"
  <2>1. ~At("tune") /\ chip.freq = Unset /\ applied = Unset
    BY <1>4, <1>6, <1>9, Effects DEF Fits, Unset, Partial, Mixed
  <2>2. target # "OFF" => ~After(2, 9)
    BY <1>1, <2>1, StartPlaces DEF Done, After
  <2>3. target # "OFF" /\ pc = 2 => Len(Routine) = 11
    BY <1>1, StartElements
  <2>4. pc' > 0 /\ target' # "OFF" => ~Done(2, 9)'
    BY <1>1, <2>2, <2>3, DoneStep
  <2>5. ASSUME pc' = 0 PROVE mode' = "OFF"
    <3>1. pc = Len(Program[target])
      BY <1>1, <2>5, DoneEnd
    <3>2. target = "OFF"
      <4>1. pc \in {5, 8, 9}
        BY <1>1, <3>1, Lengths
      <4>2. pc > 2
        BY <4>1
      <4> QED
        BY <2>2, <4>2 DEF After
    <3> QED
      BY <1>1, <3>1, <3>2, Calls, Where, Effects
  <2> QED
    BY <2>4, <2>5
<1> QED
  BY <1>5, <1>7, <1>8, <1>9

\* So does a request for a frequency.
LEMMA RequestKeepsCached ==
  ASSUME PathInv, FrontEndTypes, Cached, NEW e \in Elements, NEW v, Fits(e, v), Request(e, v)
  PROVE  Cached'
<1> USE DEF Cached, FrontEndTypes
<1>1. UNCHANGED <<val, pc, step, target, mode, result>>
  BY DEF Request
<1>2. UNCHANGED <<Tuning(2), Done(2, 9)>>
  BY <1>1 DEF Tuning, Done
<1>3. CASE applied' = applied /\ chip'.freq = chip.freq
  BY <1>1, <1>2, <1>3
<1>4. CASE e = "freq" /\ SetFrequency(v)
  <2>1. v \notin {Unset, Partial, Mixed}
    BY <1>4 DEF Fits
  <2>2. applied' \notin Explicit /\ applied' \notin {Partial, Mixed} /\ (applied' = Unset => applied = Unset)
    BY <1>4, <2>1 DEF SetFrequency
  <2>3. chip'.freq = chip.freq \/ (chip'.freq = v /\ ~Refused("freq", v))
    BY <1>4 DEF SetFrequency
  <2> QED
    BY <1>1, <1>2, <2>1, <2>2, <2>3
<1>5. (applied' = applied /\ chip'.freq = chip.freq) \/ (e = "freq" /\ SetFrequency(v))
  <2>1. CASE e \in ChipElements /\ SetChip(e, v)
    BY <2>1 DEF SetChip, ChipElements
  <2> QED
    BY <2>1 DEF Request, Elements, Switched, SetWhileOff, SetAmp, SetAntennaEnable
<1> QED
  BY <1>3, <1>4, <1>5

\* The cached frequency keeps what Cached says of it.
LEMMA CachedKept ==
  ASSUME PathInv, FrontEndTypes, Cached, Next
  PROVE  Cached'
<1>1. ASSUME NEW m \in {"OFF", "RX", "TX"}, Begin(m) PROVE Cached'
  <2>1. pc' = 1 /\ step' = 1 /\ UNCHANGED <<applied, chip>>
    BY <1>1 DEF Begin, PathInv, PathTypes
  <2> QED
    BY <2>1 DEF Cached, Tuning, Done
<1>2. CASE Failure
  <2>1. At("match") => Fits("freq", val)
    <3>1. ASSUME At("match") PROVE target # "OFF" /\ pc = 2 /\ step = 2
      BY <1>2, <3>1, Where, StartPlaces DEF Failure, PathInv
    <3>2. ASSUME At("match") PROVE Setting /\ Element = "freq"
      BY <1>2, <3>1, <3>2, StartElements DEF Setting, Failure, PathInv
    <3> QED
      BY <3>1, <3>2 DEF FrontEndTypes
  <2> QED
    BY <1>2, <2>1 DEF Failure, Cached, Tuning, Done, Fits
<1>3. CASE AlreadyApplied
  BY <1>3, Already DEF Cached, Tuning, Fits
<1> QED
  BY <1>1, <1>2, <1>3, Kinds, OperationKeepsCached, RequestKeepsCached

-----------------------------------------------------------------------------
(* The switch word and the pins, field by field.                            *)

\* Which field of the switch word a store changes.
LEMMA ChangedFields ==
  ASSUME PathTypes, pc > 0, At("store")
  PROVE  /\ Changed.band = IF Arg = "filter" THEN Band[val] ELSE reg.band
         /\ Changed.bypass = IF Arg = "lna" THEN ~val ELSE IF Arg = "lna_off" THEN TRUE ELSE reg.bypass
         /\ Changed.ant = IF Arg = "antenna" THEN old ELSE IF Arg = "antenna_off" THEN FALSE ELSE reg.ant
<1> USE DEF Changed
<1>1. Word(reg) /\ target \in {"OFF", "RX", "TX"}
  BY DEF PathTypes
<1>2. CASE Arg = "filter"
  BY <1>1, <1>2 DEF SetFilter, Word
<1>3. CASE Arg = "lna"
  BY <1>1, <1>3 DEF SetLna, Word
<1>4. CASE Arg = "lna_off"
  BY <1>1, <1>4 DEF SetLna, Word
<1>5. CASE Arg = "antenna"
  BY <1>1, <1>5 DEF SetAntenna, Word
<1>6. CASE Arg = "antenna_off"
  BY <1>1, <1>6 DEF SetAntenna, Word
<1>7. CASE Arg = "amps_off"
  BY <1>1, <1>7 DEF AmpsOff, Word
<1>8. CASE Arg = "direction"
  <2>1. Changed = SetDirection(reg, target)
    BY <1>8
  <2>2. CASE target = "TX"
    BY <1>1, <1>8, <2>1, <2>2 DEF SetDirection, Word
  <2>3. CASE target = "RX"
    BY <1>1, <1>8, <2>1, <2>3 DEF SetDirection, Word
  <2>4. CASE target = "OFF"
    BY <1>1, <1>8, <2>1, <2>4 DEF SetDirection, Word
  <2> QED
    BY <1>1, <2>2, <2>3, <2>4
<1> QED
  BY <1>2, <1>3, <1>4, <1>5, <1>6, <1>7, <1>8, Stores

\* Which pins a group writes.
LEMMA PinFields ==
  ASSUME NEW p, DOMAIN p = {"tx", "band", "amp", "ant"}, NEW c, NEW g \in {"path", "amp", "ant"}
  PROVE  /\ SetPins(p, c, g).tx = IF g = "path" THEN c.tx ELSE p.tx
         /\ SetPins(p, c, g).band = IF g = "path" THEN c.band ELSE p.band
         /\ SetPins(p, c, g).amp = IF g = "amp" THEN AmpPin(c) ELSE p.amp
         /\ SetPins(p, c, g).ant = IF g = "ant" THEN c.ant ELSE p.ant
<1>1. CASE g = "path"
  BY <1>1 DEF SetPins
<1>2. CASE g = "amp"
  BY <1>2 DEF SetPins
<1>3. CASE g = "ant"
  BY <1>3 DEF SetPins
<1> QED
  BY <1>1, <1>2, <1>3

-----------------------------------------------------------------------------
(* The filter band.                                                         *)

\* Where the band of the switch word and that of the pins change.
LEMMA BandStep ==
  ASSUME PathInv, FrontEndTypes, BandFollows, Straight, Operation
  PROVE  /\ switchctrl'.band = IF target # "OFF" /\ pc = 2 /\ step = 4 THEN Band[val]
                               ELSE switchctrl.band
         /\ pins'.band = IF At("pins") /\ Arg = "path" THEN switchctrl.band ELSE pins.band
         /\ (At("store")' => reg'.band = switchctrl'.band)
         /\ (At("pins")' => ctrl'.band = switchctrl'.band)
<1> USE DEF PathInv, BandFollows
<1>1. pc > 0 /\ Step /\ DOMAIN pins = {"tx", "band", "amp", "ant"}
  BY DEF Operation, FrontEndTypes
<1>2. At("store") /\ Arg = "filter" <=> target # "OFF" /\ pc = 2 /\ step = 4
  BY <1>1, StartPlaces, OffPlaces
<1>3. switchctrl'.band = IF target # "OFF" /\ pc = 2 /\ step = 4 THEN Band[val] ELSE switchctrl.band
  BY <1>1, <1>2, ChangedFields, Effects
<1>4. pins'.band = IF At("pins") /\ Arg = "path" THEN switchctrl.band ELSE pins.band
  BY <1>1, PinFields, Stores, Effects
<1>5. At("store")' => reg'.band = switchctrl'.band
  BY <1>1, Before, Effects DEF At
<1>6. ASSUME At("pins")' PROVE ctrl'.band = switchctrl'.band
  <2>1. Passed(Routine[step])
    BY <1>1, <1>6, Before
  <2>2. \/ At("reload")
        \/ At("pins") /\ Arg # "ant"
        \/ At("store") /\ Arg \in {"lna", "lna_off", "antenna", "antenna_off"}
    BY <1>1, <2>1 DEF Passed, At, Arg
  <2> QED
    BY <1>1, <2>2, Effects DEF At
<1> QED
  BY <1>3, <1>4, <1>5, <1>6

\* A step of the switch keeps the band with the frequency, if no tuning collided with it.
LEMMA OperationKeepsBand ==
  ASSUME PathInv, FrontEndTypes, Cached, BandFollows, Operation
  PROVE  BandFollows'
<1>1. /\ pc > 0 /\ Step /\ pc \in Nat /\ step \in Nat \ {0}
      /\ target' = target /\ PathTypes
  BY Range, Steps DEF Operation, PathInv
<1>2. /\ overlapped' = overlapped /\ torn' = (IF At("tuned") THEN torn /\ overlapped ELSE torn)
      /\ (Straight' <=> Straight)
  BY Effects DEF Straight, FrontEndTypes
<1>3. At("tune") \/ At("tuned") \/ At("match") => target # "OFF"
  BY <1>1, OffPlaces DEF At
<1>4. /\ At("tune") <=> target # "OFF" /\ pc = 2 /\ step = 9
      /\ At("tuned") <=> target # "OFF" /\ pc = 2 /\ step = 10
      /\ At("match") <=> target # "OFF" /\ pc = 2 /\ step = 2
  BY <1>1, <1>3, StartPlaces
<1>5. ASSUME NEW n \in Nat \ {0, 1}, Tuning(n)'
      PROVE  /\ target # "OFF" /\ pc = 2 /\ step' = step + 1 /\ step >= n /\ step < Len(Routine)
             /\ val' = val
  <2>1. target' # "OFF" /\ pc' = 2 /\ step' > n /\ step' \in Nat
    BY <1>1, <1>5, Steps DEF Tuning, Return
  <2>2. step' > 1
    BY <2>1
  <2>3. pc = 2 /\ step' = step + 1 /\ step < Len(Routine) /\ target # "OFF"
    BY <1>1, <2>1, <2>2, Stay
  <2>4. val' = val
    BY <1>1, <2>1, <2>3, SettingPlaces, Effects
  <2> QED
    BY <1>1, <2>1, <2>3, <2>4
<1>6. ASSUME target # "OFF", pc = 2, step < 11
      PROVE  pc' = 2 /\ step' = step + 1
  BY <1>1, <1>6, StartElements DEF Step
<1>7. ASSUME Straight', Tuning(9)', ~Tuning(10)' PROVE chip'.freq = Partial
  <2>1. step = 9
    BY <1>1, <1>5, <1>7 DEF Tuning
  <2>2. At("tune")
    BY <1>4, <1>5, <1>7, <2>1
  <2> QED
    BY <2>2, Effects DEF At, FrontEndTypes
<1>8. ASSUME Straight', Tuning(4)' PROVE switchctrl'.band = Band[val']
  <2>1. target # "OFF" /\ pc = 2 /\ step >= 4 /\ val' = val
    BY <1>5, <1>8
  <2>2. CASE step = 4
    BY <1>2, <1>8, <2>1, <2>2, BandStep
  <2>3. CASE step > 4
    BY <1>1, <1>2, <1>8, <2>1, <2>3, BandStep DEF BandFollows, Tuning
  <2> QED
    BY <1>1, <2>1, <2>2, <2>3
<1>9. target # "OFF" /\ pc = 2 /\ step = 6 => At("pins") /\ Arg = "path"
  BY <1>1, StartPlaces
<1>10. ASSUME ~torn', ~(Tuning(4)' /\ step' <= 6) PROVE pins'.band = switchctrl'.band
  <2>1. Straight
    BY <1>2, <1>10 DEF Straight, FrontEndTypes
  <2>2. ~(target # "OFF" /\ pc = 2 /\ step \in {4, 5})
    BY <1>1, <1>6, <1>10 DEF Tuning
  <2>3. CASE At("pins") /\ Arg = "path"
    BY <2>1, <2>2, <2>3, BandStep
  <2>4. CASE ~(At("pins") /\ Arg = "path")
    <3>1. pins'.band = pins.band /\ switchctrl'.band = switchctrl.band
      BY <2>1, <2>2, <2>4, BandStep
    <3>2. ~(Tuning(4) /\ step <= 6)
      BY <1>1, <1>9, <2>2, <2>4 DEF Tuning
    <3>3. torn => At("tuned") /\ ~overlapped
      BY <1>2, <1>10 DEF FrontEndTypes
    <3>4. torn => Tuning(6)
      BY <1>4, <3>3 DEF Tuning
    <3> QED
      BY <3>1, <3>2, <3>3, <3>4 DEF BandFollows
  <2> QED
    BY <2>3, <2>4
<1>11. ASSUME ~overlapped', Tuning(6)' PROVE pins'.band = switchctrl'.band
  <2>1. Straight
    BY <1>2, <1>11 DEF Straight
  <2>2. target # "OFF" /\ pc = 2 /\ step >= 6
    BY <1>5, <1>11
  <2>3. CASE step = 6
    BY <1>9, <2>1, <2>2, <2>3, BandStep
  <2>4. CASE step > 6
    BY <1>1, <1>2, <1>11, <2>1, <2>2, <2>4, BandStep DEF BandFollows, Tuning
  <2> QED
    BY <1>1, <2>2, <2>3, <2>4
<1>12. ASSUME ~torn', chip'.freq = applied', applied' # Unset, ~(Tuning(2)' /\ step' <= 10)
       PROVE  switchctrl'.band = Band[applied']
  <2>1. Straight
    BY <1>2, <1>12 DEF Straight, FrontEndTypes
  <2>2. ~(target # "OFF" /\ pc = 2 /\ step \in 2 .. 9)
    BY <1>1, <1>6, <1>12 DEF Tuning
  <2>3. ~At("match") /\ ~At("tune") /\ applied' = applied
    BY <1>4, <2>2, Effects
  <2>4. CASE At("tuned")
    <3>1. target # "OFF" /\ pc = 2 /\ step = 10
      BY <1>4, <2>4
    <3>2. Tuning(4) /\ Tuning(9) /\ ~Tuning(10)
      BY <3>1 DEF Tuning
    <3>3. chip'.freq = val
      BY <2>1, <2>4, <3>2, Effects DEF At, BandFollows, FrontEndTypes
    <3> QED
      BY <1>12, <2>1, <2>3, <3>1, <3>2, <3>3, BandStep DEF BandFollows
  <2>5. CASE ~At("tuned")
    <3>1. ~torn /\ ~(Tuning(2) /\ step <= 10)
      BY <1>1, <1>2, <1>4, <1>12, <2>2, <2>5 DEF Tuning
    <3>2. chip'.freq = chip.freq
      <4>1. CASE At("chip")
        BY <1>1, <4>1, Where, Effects DEF At, ChipElements, FrontEndTypes
      <4>2. CASE At("direction")
        BY <4>2, Effects DEF At, FrontEndTypes
      <4> QED
        BY <2>3, <2>5, <4>1, <4>2, Effects
    <3>3. switchctrl'.band = switchctrl.band
      BY <2>1, <2>2, BandStep
    <3> QED
      BY <1>12, <2>3, <3>1, <3>2, <3>3 DEF BandFollows
  <2> QED
    BY <2>4, <2>5
<1>13. Straight' /\ At("store")' => reg'.band = switchctrl'.band
  BY <1>2, BandStep
<1>14. Straight' /\ At("pins")' => ctrl'.band = switchctrl'.band
  BY <1>2, BandStep
<1> QED
  BY <1>7, <1>8, <1>10, <1>11, <1>12, <1>13, <1>14 DEF BandFollows

\* A switch begins at rest, with nothing loaded.
LEMMA Begins ==
  ASSUME PathInv, NEW m \in {"OFF", "RX", "TX"}, Begin(m)
  PROVE  /\ pc = 0 /\ pc' = 1 /\ step' = 1 /\ target' = m /\ overlapped' = FALSE
         /\ ~At("store")' /\ ~At("pins")'
         /\ UNCHANGED <<config, applied, hwVars, torn, result>>
<1>1. pc' = 1 /\ step' = 1 /\ target' = m
  BY DEF Begin, PathInv, PathTypes
<1>2. Linked(Routine') /\ 1 \in 1 .. Len(Routine')
  <2>1. 1 \in 1 .. Len(Program[m])
    <3>1. Len(Program[m]) \in {5, 8, 9}
      BY Lengths
    <3> QED
      BY <3>1
  <2> QED
    BY <1>1, <2>1, RoutineLinked DEF Routine, Linked
<1> QED
  BY <1>1, <1>2 DEF Begin, At, Linked

\* What a request changes of the front end.
LEMMA Requests ==
  ASSUME PathInv, FrontEndTypes, Cached, NEW e \in Elements, NEW v, Fits(e, v), Request(e, v)
  PROVE  /\ UNCHANGED <<mode, val, old, reg, ctrl, pc, step, target, result, switches>>
         /\ UNCHANGED Routine
         /\ overlapped' = (overlapped \/ pc # 0)
         /\ UNCHANGED <<DirectionAt, AntennaAt>>
<1>1. UNCHANGED <<mode, val, old, reg, ctrl, pc, step, target, result, switches>>
  BY DEF Request
<1> QED
  BY <1>1 DEF Request, Routine, DirectionAt, AntennaAt

\* A request that tunes sets the band with the frequency, or marks the switch as torn.
LEMMA RequestKeepsBand ==
  ASSUME PathInv, FrontEndTypes, Cached, BandFollows,
         NEW e \in Elements, NEW v, Fits(e, v), Request(e, v)
  PROVE  BandFollows'
<1> USE DEF FrontEndTypes
<1>1. /\ UNCHANGED <<val, reg, ctrl, pc, step, target, Routine>> /\ pc \in Nat
      /\ overlapped' = (overlapped \/ pc # 0)
  BY Requests, Range DEF PathInv
<1>2. /\ At("store")' <=> At("store")
      /\ At("pins")' <=> At("pins")
      /\ \A n \in {2, 4, 6, 9, 10} : Tuning(n)' <=> Tuning(n)
      /\ At("store") \/ At("pins") => pc # 0
      /\ \A n \in {2, 4, 6, 9, 10} : Tuning(n) => pc # 0
  BY <1>1 DEF At, Tuning
<1>3. ASSUME torn' = torn, chip'.freq = chip.freq, switchctrl'.band = switchctrl.band,
             pins'.band = pins.band \/ pins'.band = switchctrl.band,
             \/ applied' = applied
             \/ applied' # chip.freq
      PROVE  BandFollows'
  <2>1. Straight' => Straight
    BY <1>1, <1>3 DEF Straight
  <2>2. ~overlapped' => ~overlapped
    BY <1>1
  <2> QED
    BY <1>1, <1>2, <1>3, <2>1, <2>2 DEF BandFollows
<1>4. ASSUME torn' = (pc # 0), chip'.freq = v, switchctrl'.band = Band[v], pins'.band = switchctrl'.band
      PROVE  BandFollows'
  <2>1. pc # 0 => torn' /\ overlapped' /\ ~Straight'
    BY <1>1, <1>4 DEF Straight
  <2>2. CASE pc # 0
    BY <2>1, <2>2 DEF BandFollows
  <2>3. CASE pc = 0
    BY <1>2, <1>4, <2>3 DEF BandFollows
  <2> QED
    BY <2>2, <2>3
<1>5. CASE SetWhileOff(e, v)
  BY <1>3, <1>5 DEF SetWhileOff
<1>6. CASE e \in ChipElements /\ SetChip(e, v)
  BY <1>3, <1>6 DEF SetChip, ChipElements
<1>7. CASE e = "freq" /\ SetFrequency(v)
  <2>1. CASE Refused("freq", v) \/ v = applied
    <3>1. applied' = applied \/ (applied' = v /\ Refused("freq", v))
      BY <1>7, <2>1 DEF SetFrequency
    <3>2. applied' = applied \/ applied' # chip.freq
      BY <1>7, <3>1 DEF Cached
    <3> QED
      BY <1>3, <1>7, <2>1, <3>2 DEF SetFrequency
  <2>2. CASE ~(Refused("freq", v) \/ v = applied)
    <3>1. Word(switchctrl)
      BY DEF PathInv, PathTypes
    <3>2. switchctrl' = SetFilter(switchctrl, v) /\ pins' = AllPins(switchctrl') /\ chip'.freq = v
          /\ torn' = (pc # 0)
      BY <1>7, <2>2 DEF SetFrequency, SetSwitch
    <3>3. switchctrl'.band = Band[v] /\ pins'.band = switchctrl'.band
      BY <3>1, <3>2 DEF SetFilter, AllPins, Word
    <3> QED
      BY <1>4, <3>2, <3>3
  <2> QED
    BY <2>1, <2>2
<1>8. CASE e = "amp" /\ SetAmp(v)
  <2>1. Word(switchctrl)
    BY DEF PathInv, PathTypes
  <2>2. switchctrl'.band = switchctrl.band /\ pins'.band = switchctrl.band
    BY <1>8, <2>1 DEF SetAmp, SetSwitch, SetLna, AllPins, Word
  <2> QED
    BY <1>3, <1>8, <2>2 DEF SetAmp
<1>9. CASE e = "ant" /\ SetAntennaEnable(v)
  <2>1. Word(switchctrl)
    BY DEF PathInv, PathTypes
  <2>2. switchctrl'.band = switchctrl.band /\ pins'.band = switchctrl.band
    BY <1>9, <2>1 DEF SetAntennaEnable, SetSwitch, SetAntenna, AllPins, Word
  <2> QED
    BY <1>3, <1>9, <2>2 DEF SetAntennaEnable
<1> QED
  BY <1>5, <1>6, <1>7, <1>8, <1>9 DEF Request, Elements, Switched

\* The band follows the frequency in every step.
LEMMA BandKept ==
  ASSUME PathInv, FrontEndTypes, Cached, BandFollows, Next
  PROVE  BandFollows'
<1>1. ASSUME NEW m \in {"OFF", "RX", "TX"}, Begin(m) PROVE BandFollows'
  <2>1. \A n \in {2, 4, 6, 9, 10} : ~Tuning(n) /\ ~Tuning(n)'
    <3>1. pc = 0 /\ pc' = 1
      BY <1>1, Begins
    <3> QED
      BY <3>1 DEF Tuning
  <2> QED
    BY <1>1, <2>1, Begins DEF BandFollows
<1>2. CASE Failure
  <2>1. pc > 0 /\ pc' = 0 /\ PathTypes
    BY <1>2 DEF Failure, PathInv
  <2>2. step = 2 /\ target # "OFF" /\ (At("match") => pc = 2)
    BY <1>2, <2>1, Where, StartPlaces DEF Failure
  <2>3. \A n \in {2, 4, 6, 9, 10} : ~Tuning(n) /\ ~Tuning(n)'
    BY <2>1, <2>2 DEF Tuning
  <2>4. applied' = applied \/ applied' # chip.freq
    <3>1. At("match") => Fits("freq", val)
      BY <2>1, <2>2, StartElements DEF Setting, FrontEndTypes
    <3> QED
      BY <1>2, <3>1 DEF Failure, Cached, At
  <2> QED
    BY <1>2, <2>1, <2>3, <2>4 DEF Failure, BandFollows, At
<1>3. CASE AlreadyApplied
  <2>1. \A n \in {2, 4, 6, 9, 10} : ~Tuning(n) /\ ~Tuning(n)'
    BY <1>3, Already DEF Tuning
  <2> QED
    BY <1>3, <2>1, Already DEF BandFollows, Straight
<1> QED
  BY <1>1, <1>2, <1>3, Kinds, OperationKeepsBand, RequestKeepsBand

-----------------------------------------------------------------------------
(* What a switch that no request overlapped has done so far.                *)

\* Such a switch changes no setting, and each store changes what it is for.
LEMMA UndisturbedStep ==
  ASSUME PathInv, FrontEndTypes, BandFollows, Undisturbed, Operation, ~overlapped
  PROVE  /\ \A e \in Elements : config'[e] = config[e]
         /\ \A e \in ChipElements : chip'[e] = IF At("chip") /\ Arg = e THEN config[e] ELSE chip[e]
         /\ switchctrl'.bypass = IF At("store") /\ Arg = "lna" THEN ~config.amp
                                 ELSE IF At("store") /\ Arg = "lna_off" THEN TRUE
                                 ELSE switchctrl.bypass
         /\ switchctrl'.ant = IF At("store") /\ Arg = "antenna" THEN config.ant
                              ELSE IF At("store") /\ Arg = "antenna_off" THEN FALSE
                              ELSE switchctrl.ant
         /\ At("pins") => pins' = SetPins(pins, switchctrl, Arg)
<1>1. pc > 0 /\ Step /\ PathTypes /\ Current /\ pc \in Nat /\ step \in Nat \ {0}
  BY Range DEF Operation, PathInv, Undisturbed
<1>2. At("put") => Arg = Element /\ Element \in Elements /\ val = config[Element]
  <2>1. At("put") => Setting /\ Arg = Element /\ Element \in Elements /\ step > 1
    BY <1>1, SettingPlaces
  <2> QED
    BY <1>1, <2>1 DEF Current
<1>3. \A e \in Elements : config'[e] = config[e]
  BY <1>2, Effects DEF FrontEndTypes
<1>4. At("chip") => Arg \in ChipElements /\ val = config[Arg]
  <2>1. ASSUME At("chip") PROVE Setting /\ Arg = Element /\ step > 1
    <3>1. step = 2
      BY <1>1, <2>1, Where, StartPlaces
    <3> QED
      BY <1>1, <2>1, <3>1, SettingPlaces
  <2> QED
    BY <1>1, <2>1, Where DEF Current
<1>5. \A e \in ChipElements : chip'[e] = IF At("chip") /\ Arg = e THEN config[e] ELSE chip[e]
  <2>1. "freq" \notin ChipElements /\ "dir" \notin ChipElements
    BY DEF ChipElements
  <2>2. CASE At("chip")
    BY <1>4, <2>2, Effects DEF At, FrontEndTypes
  <2>3. CASE At("tune") \/ At("tuned") \/ At("direction")
    BY <2>1, <2>3, Effects DEF At, FrontEndTypes
  <2> QED
    BY <2>2, <2>3, Effects
<1>6. At("store") => reg = switchctrl
  BY <1>1 DEF Current
<1>7. At("store") /\ Arg = "lna" => val = config.amp
  <2>1. At("store") /\ Arg = "lna" => target # "OFF" /\ pc = 4 /\ step = 3
    BY <1>1, StartPlaces, OffPlaces
  <2>2. At("store") /\ Arg = "lna" => Setting /\ Element = "amp" /\ step > 1
    BY <1>1, <2>1, StartElements DEF Setting
  <2> QED
    BY <1>1, <2>2 DEF Current
<1>8. At("store") /\ Arg = "antenna" => old = config.ant
  <2>1. At("store") /\ Arg = "antenna" => target # "OFF" /\ pc = AntennaAt /\ step = 4
    BY <1>1, StartPlaces, OffPlaces
  <2>2. At("store") /\ Arg = "antenna" => Setting
    BY <1>1, <2>1, StartElements DEF Setting
  <2> QED
    BY <1>1, <2>1, <2>2 DEF Current
<1>9. /\ switchctrl'.bypass = IF At("store") /\ Arg = "lna" THEN ~config.amp
                              ELSE IF At("store") /\ Arg = "lna_off" THEN TRUE
                              ELSE switchctrl.bypass
      /\ switchctrl'.ant = IF At("store") /\ Arg = "antenna" THEN config.ant
                           ELSE IF At("store") /\ Arg = "antenna_off" THEN FALSE
                           ELSE switchctrl.ant
  BY <1>1, <1>6, <1>7, <1>8, ChangedFields, Effects
<1>10. At("pins") => pins' = SetPins(pins, switchctrl, Arg)
  BY <1>1, Effects DEF Current
<1> QED
  BY <1>3, <1>5, <1>9, <1>10

\* A start has applied one more setting, or as many as before.
LEMMA AppliedAfter ==
  ASSUME PathInv, FrontEndTypes, BandFollows, Undisturbed, Operation, ~overlapped, target # "OFF"
  PROVE  /\ After(1, 2) => chip'.rate = config.rate
         /\ After(2, 10) => (chip'.freq = applied' => config.freq = chip'.freq)
         /\ After(3, 2) => chip'.filter = config.filter
         /\ After(4, 3) => switchctrl'.bypass = ~config.amp
         /\ target = "RX" /\ After(5, 2) => chip'.lna = config.lna
         /\ target = "RX" /\ After(6, 2) => chip'.vga = config.vga
         /\ target = "TX" /\ After(5, 2) => chip'.txvga = config.txvga
         /\ After(AntennaAt, 4) => switchctrl'.ant = config.ant
<1>1. /\ pc > 0 /\ Step /\ PathTypes /\ pc \in Nat /\ step \in Nat \ {0}
      /\ AppliedSoFar /\ Current
  BY Range DEF Operation, PathInv, Undisturbed
<1>2. \/ target = "RX" /\ AntennaAt = 7
      \/ target = "TX" /\ AntennaAt = 6
  BY <1>1, StartElements
<1>3. \A p \in Nat, n \in Nat : After(p, n) => Done(p, n) \/ (pc = p /\ step = n)
  BY <1>1 DEF After, Done
<1>4. ASSUME NEW e \in ChipElements
      PROVE  chip'[e] = config[e] \/ (chip'[e] = chip[e] /\ ~(At("chip") /\ Arg = e))
  BY UndisturbedStep
<1>5. {"rate", "filter", "lna", "vga", "txvga"} \subseteq ChipElements
  BY DEF ChipElements
<1>6. pc = 1 /\ step = 2 => At("chip") /\ Arg = "rate"
  BY <1>1, <1>2, StartPlaces
<1>7. pc = 3 /\ step = 2 => At("chip") /\ Arg = "filter"
  BY <1>1, <1>2, StartPlaces
<1>8. /\ target = "RX" /\ pc = 5 /\ step = 2 => At("chip") /\ Arg = "lna"
      /\ target = "TX" /\ pc = 5 /\ step = 2 => At("chip") /\ Arg = "txvga"
  BY <1>1, <1>2, StartPlaces
<1>9. target = "RX" /\ pc = 6 /\ step = 2 => At("chip") /\ Arg = "vga"
  BY <1>1, <1>2, StartPlaces
<1>10. After(1, 2) => chip'.rate = config.rate
  BY <1>1, <1>3, <1>4, <1>5, <1>6 DEF AppliedSoFar
<1>11. After(3, 2) => chip'.filter = config.filter
  BY <1>1, <1>3, <1>4, <1>5, <1>7 DEF AppliedSoFar
<1>12. /\ target = "RX" /\ After(5, 2) => chip'.lna = config.lna
       /\ target = "TX" /\ After(5, 2) => chip'.txvga = config.txvga
  BY <1>1, <1>3, <1>4, <1>5, <1>8 DEF AppliedSoFar
<1>13. target = "RX" /\ After(6, 2) => chip'.vga = config.vga
  BY <1>1, <1>3, <1>4, <1>5, <1>9 DEF AppliedSoFar
<1>14. After(4, 3) => switchctrl'.bypass = ~config.amp
  <2>1. At("store") /\ Arg = "lna" <=> pc = 4 /\ step = 3
    BY <1>1, StartPlaces
  <2>2. ~(At("store") /\ Arg = "lna_off")
    BY <1>1, StartPlaces
  <2> QED
    BY <1>1, <1>3, <2>1, <2>2, UndisturbedStep DEF AppliedSoFar
<1>15. After(AntennaAt, 4) => switchctrl'.ant = config.ant
  <2>1. At("store") /\ Arg = "antenna" <=> pc = AntennaAt /\ step = 4
    BY <1>1, StartPlaces
  <2>2. ~(At("store") /\ Arg = "antenna_off")
    BY <1>1, StartPlaces
  <2>3. After(AntennaAt, 4) => Done(AntennaAt, 4) \/ (pc = AntennaAt /\ step = 4)
    BY <1>2, <1>3
  <2> QED
    BY <1>1, <2>1, <2>2, <2>3, UndisturbedStep DEF AppliedSoFar
<1>16. ASSUME After(2, 10), chip'.freq = applied' PROVE config.freq = chip'.freq
  <2>1. ~At("match") /\ ~At("tune")
    BY <1>1, <1>16, StartPlaces DEF After
  <2>2. CASE At("tuned")
    <3>1. pc = 2 /\ step = 10
      BY <1>1, <2>2, StartPlaces
    <3>2. chip.freq = Partial
      BY <3>1 DEF BandFollows, Straight, Tuning
    <3>3. chip'.freq = val
      BY <2>2, <3>2, Effects DEF At, FrontEndTypes
    <3>4. Setting /\ Element = "freq" /\ step > 1
      BY <1>1, <1>2, <3>1, StartElements DEF Setting
    <3> QED
      BY <1>1, <3>3, <3>4 DEF Current
  <2>3. CASE ~At("tuned")
    <3>1. chip'.freq = chip.freq /\ applied' = applied
      <4>1. CASE At("chip")
        BY <1>1, <2>1, <4>1, Where, Effects DEF At, ChipElements, FrontEndTypes
      <4>2. CASE At("direction")
        BY <2>1, <4>2, Effects DEF At, FrontEndTypes
      <4> QED
        BY <2>1, <2>3, <4>1, <4>2, Effects
    <3>2. Done(2, 10)
      BY <1>1, <1>3, <1>16, <2>3, StartPlaces
    <3> QED
      BY <1>1, <1>16, <3>1, <3>2 DEF AppliedSoFar
  <2> QED
    BY <2>2, <2>3
<1> QED
  BY <1>10, <1>11, <1>12, <1>13, <1>14, <1>15, <1>16

\* A switch to OFF has cleared one thing more, or as many as before.
LEMMA ClearedAfter ==
  ASSUME PathInv, FrontEndTypes, BandFollows, Undisturbed, Operation, ~overlapped, target = "OFF"
  PROVE  (After(2, 2) => ~switchctrl'.ant) /\ (After(3, 2) => switchctrl'.bypass)
<1>1. /\ pc > 0 /\ Step /\ PathTypes /\ pc \in Nat /\ step \in Nat \ {0}
      /\ ClearedSoFar
  BY Range DEF Operation, PathInv, Undisturbed
<1>2. \A p \in Nat, n \in Nat : After(p, n) => Done(p, n) \/ (pc = p /\ step = n)
  BY <1>1 DEF After, Done
<1>3. /\ At("store") /\ Arg = "antenna_off" <=> pc = 2 /\ step = 2
      /\ At("store") /\ Arg = "lna_off" <=> pc = 3 /\ step = 2
      /\ ~(At("store") /\ Arg \in {"filter", "lna", "antenna"})
  BY <1>1, OffPlaces
<1>4. After(2, 2) => ~switchctrl'.ant
  BY <1>1, <1>2, <1>3, UndisturbedStep DEF ClearedSoFar
<1>5. After(3, 2) => switchctrl'.bypass
  BY <1>1, <1>2, <1>3, UndisturbedStep DEF ClearedSoFar
<1> QED
  BY <1>4, <1>5

\* Setting a direction leaves its amplifier on, unless it is bypassed.
LEMMA LiveDirection ==
  ASSUME NEW c, Word(c), NEW d \in {"OFF", "RX", "TX"}, d = "OFF" => c.bypass
  PROVE  Live(SetDirection(c, d)) /\ SetDirection(c, d).bypass = c.bypass
<1>1. CASE d = "TX"
  BY <1>1 DEF Word, SetDirection, Live
<1>2. CASE d = "RX"
  BY <1>2 DEF Word, SetDirection, Live
<1>3. CASE d = "OFF"
  BY <1>3 DEF Word, SetDirection, Live
<1> QED
  BY <1>1, <1>2, <1>3

\* The direction's routine: the word, the chips, then the pins from the word.
LEMMA DirectedAfter ==
  ASSUME PathInv, FrontEndTypes, BandFollows, Undisturbed, Operation, ~overlapped
  PROVE  /\ After(DirectionAt, 2) => switchctrl'.tx = (target = "TX") /\ Live(switchctrl')
         /\ After(DirectionAt, 3) => chip'.dir = target
         /\ After(DirectionAt, 4) => ("RX" \in enabled' <=> target = "RX")
         /\ After(DirectionAt, 5) => enabled' = Enables(target)
         /\ After(DirectionAt, 6) => rf_mode' = target
         /\ After(DirectionAt, 8) => pins'.tx = switchctrl'.tx
         /\ After(DirectionAt, 9) => pins'.amp = AmpPin(switchctrl')
         /\ After(DirectionAt, 10) => pins'.ant = switchctrl'.ant
<1>1. /\ pc > 0 /\ Step /\ PathTypes /\ pc \in Nat /\ step \in Nat \ {0} /\ DirectionAt \in Nat
      /\ DirectedSoFar /\ Current /\ Word(switchctrl) /\ target \in {"OFF", "RX", "TX"}
  BY Range DEF Operation, PathInv, PathTypes, Undisturbed
<1>2. \A n \in Nat : After(DirectionAt, n) => Directed(n) \/ (pc = DirectionAt /\ step = n)
  BY <1>1 DEF After, Directed
<1>3. pc > DirectionAt => At("mode")
  <2>1. CASE target = "OFF"
    <3>1. pc \in 1 .. 5 /\ DirectionAt = 4
      BY <1>1, <2>1, OffPlaces
    <3> QED
      BY <1>1, <2>1, <3>1, Where
  <2>2. CASE target # "OFF"
    <3>1. pc \in 1 .. Len(Program[target]) /\ Len(Program[target]) = DirectionAt
      BY <1>1, <2>2, Range, StartElements
    <3> QED
      BY <1>1, <3>1
  <2> QED
    BY <2>1, <2>2
<1>4. Directed(2) => ~At("store")
  <2>1. CASE pc = DirectionAt /\ step > 2
    <3>1. step \in 1 .. 10
      BY <1>1, <2>1, Range, DirectionPlaces
    <3>2. step = 3 \/ step \in {4, 5} \/ step = 6 \/ step = 7 \/ step \in {8, 9, 10}
      BY <2>1, <3>1
    <3>3. At("direction") \/ At("enable") \/ At("rfmode") \/ At("reload") \/ At("pins")
      BY <1>1, <2>1, <3>2, DirectionPlaces, Where
    <3> QED
      BY <3>3 DEF At
  <2> QED
    BY <1>3, <2>1 DEF Directed, At
<1>5. pc = DirectionAt /\ step = 2 => At("store") /\ Arg = "direction"
  BY <1>1, Where
<1>6. ASSUME After(DirectionAt, 2)
      PROVE  switchctrl'.tx = (target = "TX") /\ Live(switchctrl')
  <2>1. CASE Directed(2)
    BY <1>1, <1>4, <2>1, Effects DEF DirectedSoFar
  <2>2. CASE pc = DirectionAt /\ step = 2
    <3>1. switchctrl' = SetDirection(switchctrl, target)
      BY <1>1, <1>5, <2>2, Effects DEF Changed, Current
    <3>2. target = "OFF" => switchctrl.bypass
      BY <1>1, <2>2 DEF DirectionAt, Undisturbed, ClearedSoFar, Done
    <3>3. Live(SetDirection(switchctrl, target))
      BY <1>1, <3>2, LiveDirection
    <3>4. /\ SetDirection(switchctrl, target).tx \in BOOLEAN
          /\ (SetDirection(switchctrl, target).tx <=> target = "TX")
      BY <1>1, WordDirected DEF Word
    <3> QED
      BY <3>1, <3>3, <3>4
  <2> QED
    BY <1>2, <1>6, <2>1, <2>2
<1>7. ASSUME After(DirectionAt, 3)
      PROVE  chip'.dir = target
  <2>1. At("direction") <=> pc = DirectionAt /\ step = 3
    BY <1>1, Where
  <2>2. CASE At("direction")
    BY <2>2, Effects DEF At, FrontEndTypes
  <2>3. CASE ~At("direction")
    <3>1. Directed(3)
      BY <1>2, <1>7, <2>1, <2>3
    <3>2. ~At("chip") /\ ~At("tune") /\ ~At("tuned")
      BY <1>1, <1>3, <3>1, OffPlaces, StartPlaces, StartElements, Where DEF Directed, At
    <3> QED
      BY <1>1, <2>3, <3>1, <3>2, Effects DEF DirectedSoFar
  <2> QED
    BY <2>2, <2>3
<1>8. ASSUME Directed(2)
      PROVE  /\ switchctrl' = switchctrl
             /\ pins'.tx = IF At("pins") /\ Arg = "path" THEN switchctrl.tx ELSE pins.tx
             /\ pins'.amp = IF At("pins") /\ Arg = "amp" THEN AmpPin(switchctrl) ELSE pins.amp
             /\ pins'.ant = IF At("pins") /\ Arg = "ant" THEN switchctrl.ant ELSE pins.ant
  <2>1. switchctrl' = switchctrl
    BY <1>4, <1>8, Effects
  <2>2. CASE At("pins")
    <3>1. pins' = SetPins(pins, switchctrl, Arg) /\ Arg \in {"path", "amp", "ant"}
      BY <1>1, <2>2, UndisturbedStep, Stores
    <3> QED
      BY <2>1, <2>2, <3>1, PinFields DEF FrontEndTypes
  <2>3. CASE ~At("pins")
    BY <2>1, <2>3, Effects
  <2> QED
    BY <2>2, <2>3
<1>9. \A n \in {8, 9, 10} : After(DirectionAt, n) => Directed(2)
  BY <1>1 DEF After, Directed
<1>10. After(DirectionAt, 8) => pins'.tx = switchctrl'.tx
  <2>1. pc = DirectionAt /\ step = 8 => At("pins") /\ Arg = "path"
    BY <1>1, DirectionPlaces
  <2> QED
    BY <1>1, <1>2, <1>8, <1>9, <2>1 DEF DirectedSoFar
<1>11. After(DirectionAt, 9) => pins'.amp = AmpPin(switchctrl')
  <2>1. pc = DirectionAt /\ step = 9 => At("pins") /\ Arg = "amp"
    BY <1>1, DirectionPlaces
  <2> QED
    BY <1>1, <1>2, <1>8, <1>9, <2>1 DEF DirectedSoFar
<1>12. After(DirectionAt, 10) => pins'.ant = switchctrl'.ant
  <2>1. pc = DirectionAt /\ step = 10 => At("pins") /\ Arg = "ant"
    BY <1>1, DirectionPlaces
  <2> QED
    BY <1>1, <1>2, <1>8, <1>9, <2>1 DEF DirectedSoFar
<1>13. ASSUME Directed(3)
       PROVE  /\ enabled' = IF At("enable") THEN (enabled \ {Arg}) \cup (Enables(target) \cap {Arg})
                            ELSE enabled
              /\ rf_mode' = IF At("rfmode") THEN target ELSE rf_mode
  <2>1. ~At("match") /\ ~At("tuned")
    <3>1. pc >= DirectionAt
      BY <1>1, <1>13 DEF Directed
    <3> QED
      BY <1>1, <3>1, Where
  <2>2. ~(At("enable") /\ At("rfmode"))
    BY DEF At
  <2> QED
    BY <2>1, <2>2, Effects
<1>14. \A n \in {4, 5, 6} : After(DirectionAt, n) => Directed(3)
  BY <1>1 DEF After, Directed
<1>15. /\ At("enable") <=> pc = DirectionAt /\ step \in {4, 5}
       /\ At("enable") => Arg = (IF step = 4 THEN "RX" ELSE "TX")
       /\ At("rfmode") <=> pc = DirectionAt /\ step = 6
  BY <1>1, Where
<1>16. After(DirectionAt, 4) => ("RX" \in enabled' <=> target = "RX")
  <2>1. CASE pc = DirectionAt /\ step = 4
    <3>1. enabled' = (enabled \ {"RX"}) \cup (Enables(target) \cap {"RX"})
      BY <1>13, <1>15, <2>1 DEF Directed
    <3> QED
      BY <1>1, <3>1 DEF Enables
  <2>2. CASE Directed(4)
    <3>1. enabled' = enabled \/ enabled' = (enabled \ {"TX"}) \cup (Enables(target) \cap {"TX"})
      BY <1>1, <1>13, <1>15, <2>2 DEF Directed
    <3> QED
      BY <1>1, <2>2, <3>1 DEF DirectedSoFar
  <2> QED
    BY <1>2, <2>1, <2>2
<1>17. After(DirectionAt, 5) => enabled' = Enables(target)
  <2>1. CASE pc = DirectionAt /\ step = 5
    <3>1. Directed(3) /\ Directed(4) /\ At("enable") /\ Arg = "TX"
      BY <1>1, <1>15, <2>1 DEF Directed
    <3>2. enabled' = (enabled \ {"TX"}) \cup (Enables(target) \cap {"TX"})
      BY <1>13, <3>1
    <3>3. ("RX" \in enabled <=> target = "RX") /\ enabled \subseteq {"RX", "TX"}
      BY <1>1, <3>1 DEF DirectedSoFar, PathTypes
    <3> QED
      BY <1>1, <3>2, <3>3 DEF Enables
  <2>2. CASE Directed(5)
    BY <1>1, <1>13, <1>14, <1>15, <2>2 DEF DirectedSoFar, Directed
  <2> QED
    BY <1>2, <2>1, <2>2
<1>18. After(DirectionAt, 6) => rf_mode' = target
  <2>1. CASE pc = DirectionAt /\ step = 6
    BY <1>13, <1>15, <2>1 DEF Directed
  <2>2. CASE Directed(6)
    BY <1>1, <1>13, <1>15, <2>2 DEF DirectedSoFar, Directed
  <2> QED
    BY <1>2, <2>1, <2>2
<1> QED
  BY <1>6, <1>7, <1>10, <1>11, <1>12, <1>16, <1>17, <1>18

\* With no request in between, what was read is still what is stored.
LEMMA CurrentAfter ==
  ASSUME PathInv, FrontEndTypes, BandFollows, Undisturbed, Operation, ~overlapped
  PROVE  Current'
<1>1. /\ pc > 0 /\ Step /\ PathTypes /\ pc \in Nat /\ step \in Nat \ {0} /\ Current
  BY Range DEF Operation, PathInv, Undisturbed
<1>2. At("store")' => reg' = switchctrl'
  BY <1>1, Before, Effects DEF At
<1>3. ASSUME At("pins")' PROVE ctrl' = switchctrl'
  <2>1. Passed(Routine[step])
    BY <1>1, <1>3, Before
  <2>2. \/ At("reload")
        \/ At("pins") /\ Arg # "ant"
        \/ At("store") /\ Arg \in {"lna", "lna_off", "antenna", "antenna_off"}
    BY <1>1, <2>1 DEF Passed, At, Arg
  <2> QED
    BY <1>1, <2>2, Effects DEF At, Current
<1>4. ASSUME Setting', step' > 1
      PROVE  /\ Setting /\ Element' = Element /\ step' = step + 1 /\ pc' = pc /\ target' = target
             /\ AntennaAt' = AntennaAt /\ step < Len(Routine)
  BY <1>1, <1>4, Stay
<1>5. ASSUME Setting', step' > 1 PROVE val' = config'[Element']
  <2>1. Setting /\ Element' = Element /\ step' = step + 1 /\ step < Len(Routine)
    BY <1>4, <1>5
  <2>2. Element \in Elements
    BY <1>1, <2>1, SettingPlaces DEF SettingForm, Element
  <2>3. config'[Element] = config[Element]
    BY <2>2, UndisturbedStep
  <2>4. CASE step = 1
    <3>1. At("get") /\ Arg = Element
      BY <1>1, <2>1, <2>4, SettingPlaces
    <3> QED
      BY <2>1, <2>3, <3>1, Effects
  <2>5. CASE step > 1
    <3>1. ~At("get") /\ ~At("put")
      BY <1>1, <2>1, <2>5, SettingPlaces
    <3> QED
      BY <1>1, <2>1, <2>3, <2>5, <3>1, Effects DEF Current
  <2> QED
    BY <1>1, <2>4, <2>5
<1>6. ASSUME Setting', pc' = AntennaAt', step' \in {3, 4} PROVE old' = config'.ant
  <2>1. Setting /\ pc = AntennaAt /\ (step = 2 \/ step = 3) /\ target # "OFF"
    <3>1. step' > 1
      BY <1>6
    <3> QED
      BY <1>1, <1>4, <1>6, <3>1 DEF Setting
  <2>2. config'.ant = config.ant
    BY UndisturbedStep DEF Elements, Switched
  <2>3. CASE step = 2
    BY <1>1, <2>1, <2>2, <2>3, StartPlaces, Effects
  <2>4. CASE step = 3
    <3>1. Routine = ApplyAntenna
      <4>1. target \in {"RX", "TX"} /\ pc \in 1 .. Len(Program[target])
        BY <1>1, <2>1, Range DEF PathTypes
      <4>2. AntennaAt \in {6, 7} /\ (target = "RX" => AntennaAt = 7)
        BY <1>1, <2>1, StartElements
      <4> QED
        BY <2>1, <4>1, <4>2, StartCalls
    <3>2. ~At("store") /\ ~At("again")
      BY <2>4, <3>1, AntennaSteps DEF At
    <3> QED
      BY <1>1, <2>1, <2>2, <2>4, <3>2, Effects DEF Current
  <2> QED
    BY <2>1, <2>3, <2>4
<1> QED
  BY <1>2, <1>3, <1>5, <1>6 DEF Current

\* An undisturbed switch has done what it should have up to its next step.
LEMMA OperationKeepsUndisturbed ==
  ASSUME PathInv, FrontEndTypes, BandFollows, Undisturbed, Operation
  PROVE  Undisturbed'
<1> SUFFICES ASSUME pc' > 0, ~overlapped'
             PROVE  Current' /\ DirectedSoFar'
                    /\ IF target' = "OFF" THEN ClearedSoFar' ELSE AppliedSoFar'
  BY DEF Undisturbed
<1>1. /\ pc > 0 /\ Step /\ PathTypes /\ ~overlapped /\ target' = target
      /\ target \in {"OFF", "RX", "TX"} /\ DirectionAt \in Nat
  <2>1. ~overlapped /\ target' = target
    BY Effects
  <2> QED
    BY <2>1, Range DEF Operation, PathInv, PathTypes
<1>2. DirectionAt' = DirectionAt /\ AntennaAt' = AntennaAt
  BY <1>1 DEF DirectionAt, AntennaAt
<1>3. Current'
  BY <1>1, CurrentAfter
<1>4. \A e \in Elements : config'[e] = config[e]
  BY <1>1, UndisturbedStep
<1>5. DirectedSoFar'
  <2>1. \A n \in {2, 3, 4, 5, 6, 8, 9, 10} : Directed(n)' => After(DirectionAt, n)
    <3>1. pc = DirectionAt => Len(Routine) = 10
      BY <1>1, DirectionPlaces
    <3>2. \A n \in {2, 3, 4, 5, 6, 8, 9, 10} : Done(DirectionAt, n)' => After(DirectionAt, n)
      BY <1>1, <1>2, <3>1, DoneStep
    <3> QED
      BY <1>2, <3>2 DEF Directed, Done
  <2> QED
    BY <1>1, <2>1, DirectedAfter DEF DirectedSoFar
<1>6. CASE target = "OFF"
  <2>1. Done(2, 2)' => After(2, 2)
    BY <1>1, <1>6, OffLengths, DoneStep
  <2>2. Done(3, 2)' => After(3, 2)
    BY <1>1, <1>6, OffLengths, DoneStep
  <2>3. ClearedSoFar'
    BY <1>1, <1>6, <2>1, <2>2, ClearedAfter DEF ClearedSoFar
  <2> QED
    BY <1>1, <1>3, <1>5, <1>6, <2>3
<1>7. CASE target # "OFF"
  <2>1. \/ target = "RX" /\ AntennaAt = 7
        \/ target = "TX" /\ AntennaAt = 6
    BY <1>1, <1>7, StartElements
  <2>2. /\ pc \in {1, 3, 5} => Len(Routine) = 3
        /\ pc = 2 => Len(Routine) = 11
        /\ pc = 4 => Len(Routine) = 7
        /\ pc = 6 /\ target = "RX" => Len(Routine) = 3
        /\ pc = AntennaAt => Len(Routine) = 8
    BY <1>1, <1>7, StartElements
  <2>3. \A p \in Nat, n \in Nat \ {0} : (pc = p => n <= Len(Routine)) => (Done(p, n)' => After(p, n))
    BY <1>1, DoneStep
  <2>4. (Done(1, 2)' => After(1, 2)) /\ (Done(3, 2)' => After(3, 2)) /\ (Done(5, 2)' => After(5, 2))
    <3>1. ASSUME pc \in {1, 3, 5} PROVE 2 <= Len(Routine)
      <4>1. Len(Routine) = 3
        BY <2>2, <3>1
      <4> QED
        BY <4>1
    <3> QED
      BY <2>3, <3>1
  <2>5. Done(2, 10)' => After(2, 10)
    <3>1. ASSUME pc = 2 PROVE 10 <= Len(Routine)
      <4>1. Len(Routine) = 11
        BY <2>2, <3>1
      <4> QED
        BY <4>1
    <3> QED
      BY <2>3, <3>1
  <2>6. Done(4, 3)' => After(4, 3)
    <3>1. ASSUME pc = 4 PROVE 3 <= Len(Routine)
      <4>1. Len(Routine) = 7
        BY <2>2, <3>1
      <4> QED
        BY <4>1
    <3> QED
      BY <2>3, <3>1
  <2>7. target = "RX" => (Done(6, 2)' => After(6, 2))
    <3>1. ASSUME target = "RX", pc = 6 PROVE 2 <= Len(Routine)
      <4>1. Len(Routine) = 3
        BY <2>2, <3>1
      <4> QED
        BY <4>1
    <3> QED
      BY <2>3, <3>1
  <2>8. Done(AntennaAt, 4)' => After(AntennaAt, 4)
    <3>1. AntennaAt \in Nat /\ AntennaAt' = AntennaAt
      BY <1>2, <2>1
    <3>2. \A p \in Nat : (pc = p => Len(Routine) = 8) => (Done(p, 4)' => After(p, 4))
      BY <1>1, DoneStep
    <3>3. Done(AntennaAt, 4)' <=> pc' > AntennaAt \/ (pc' = AntennaAt /\ step' > 4)
      BY <3>1 DEF Done
    <3>4. \A p : Done(p, 4)' <=> pc' > p \/ (pc' = p /\ step' > 4)
      BY DEF Done
    <3> QED
      BY <2>2, <3>1, <3>2, <3>3, <3>4
  <2>9. AppliedSoFar'
    <3>1. {"rate", "filter", "lna", "vga", "txvga", "freq", "amp", "ant"} = Elements
      BY DEF Elements, ChipElements, Switched
    <3>2. /\ config'.rate = config.rate /\ config'.filter = config.filter /\ config'.lna = config.lna
          /\ config'.vga = config.vga /\ config'.txvga = config.txvga /\ config'.freq = config.freq
          /\ config'.amp = config.amp /\ config'.ant = config.ant
      BY <1>4, <3>1
    <3> QED
      BY <1>1, <1>2, <1>7, <2>4, <2>5, <2>6, <2>7, <2>8, <3>2, AppliedAfter
         DEF AppliedSoFar
  <2> QED
    BY <1>1, <1>3, <1>5, <1>7, <2>9
<1> QED
  BY <1>6, <1>7

-----------------------------------------------------------------------------
(* What such a switch leaves behind.                                        *)

\* The last step of an undisturbed switch leaves the front end as configured.
LEMMA EndLeaves ==
  ASSUME PathInv, FrontEndTypes, BandFollows, Undisturbed, Operation
  PROVE  Rest'
<1> SUFFICES ASSUME Settled'
             PROVE  IF mode' = "OFF" THEN OffApplied'
                    ELSE /\ chip'.dir = mode' /\ rf_mode' = mode' /\ enabled' = {mode'}
                         /\ switchctrl'.tx = (mode' = "TX") /\ Live(switchctrl')
                         /\ switchctrl'.bypass = ~config'.amp
                         /\ pins'.tx = switchctrl'.tx /\ pins'.amp = AmpPin(switchctrl')
                         /\ \A e \in ModeElements' : chip'[e] = config'[e]
                         /\ ~lagging' => pins'.ant = config'.ant /\ switchctrl'.ant = config'.ant
                         /\ chip'.freq = applied' => config'.freq = chip'.freq
  BY DEF Rest
<1>1. pc > 0 /\ Step /\ PathTypes /\ target \in {"OFF", "RX", "TX"} /\ pc' = 0 /\ ~overlapped
  <2>1. pc' = 0 /\ ~overlapped
    BY Effects DEF Settled
  <2> QED
    BY <2>1 DEF Operation, PathInv, PathTypes
<1>2. pc = Len(Program[target]) /\ step = Len(Routine)
  BY <1>1, DoneEnd
<1>3. \A e \in Elements : config'[e] = config[e]
  BY <1>1, UndisturbedStep
<1>4. /\ config'.rate = config.rate /\ config'.filter = config.filter /\ config'.lna = config.lna
      /\ config'.vga = config.vga /\ config'.txvga = config.txvga /\ config'.freq = config.freq
      /\ config'.amp = config.amp /\ config'.ant = config.ant
  <2>1. {"rate", "filter", "lna", "vga", "txvga", "freq", "amp", "ant"} = Elements
    BY DEF Elements, ChipElements, Switched
  <2> QED
    BY <1>3, <2>1
<1>5. CASE target = "OFF"
  <2>1. pc = 5 /\ DirectionAt = 4
    BY <1>1, <1>2, <1>5, Calls DEF DirectionAt
  <2>2. mode' = "OFF"
    BY <1>1, <1>5, <2>1, Where, Effects
  <2>3. \A n \in {2, 3, 4, 5, 6, 8, 9, 10} : After(2, n) /\ After(3, n) /\ After(DirectionAt, n)
    BY <2>1 DEF After
  <2>4. ~switchctrl'.ant /\ switchctrl'.bypass
    BY <1>1, <1>5, <2>3, ClearedAfter
  <2>5. /\ switchctrl'.tx = (target = "TX") /\ chip'.dir = target /\ pins'.tx = switchctrl'.tx
        /\ pins'.amp = AmpPin(switchctrl') /\ pins'.ant = switchctrl'.ant
        /\ enabled' = Enables(target)
    BY <1>1, <2>3, DirectedAfter
  <2>6. AmpPin(switchctrl') = "none"
    BY <2>4 DEF AmpPin
  <2>7. OffApplied'
    BY <1>5, <2>4, <2>5, <2>6 DEF OffApplied, Enables
  <2> QED
    BY <2>2, <2>7
<1>6. CASE target # "OFF"
  <2>1. /\ pc = DirectionAt /\ step = 10
        /\ \/ target = "RX" /\ DirectionAt = 9 /\ AntennaAt = 7
           \/ target = "TX" /\ DirectionAt = 8 /\ AntennaAt = 6
    BY <1>1, <1>2, <1>6, StartElements
  <2>2. mode' = target
    <3>1. ~At("mode")
      BY <1>1, <1>6, Where
    <3> QED
      BY <1>1, <1>6, <3>1, Effects DEF PathInv, ModeFollows
  <2>3. \A n \in {2, 3, 4, 5, 6, 8, 9, 10} : After(DirectionAt, n)
    BY <2>1 DEF After
  <2>4. /\ After(1, 2) /\ After(2, 10) /\ After(3, 2) /\ After(4, 3) /\ After(5, 2) /\ After(6, 2)
        /\ After(AntennaAt, 4)
    BY <2>1 DEF After
  <2>5. /\ switchctrl'.tx = (target = "TX") /\ Live(switchctrl') /\ chip'.dir = target
        /\ rf_mode' = target /\ enabled' = Enables(target)
        /\ pins'.tx = switchctrl'.tx /\ pins'.amp = AmpPin(switchctrl') /\ pins'.ant = switchctrl'.ant
    BY <1>1, <2>3, DirectedAfter
  <2>6. /\ chip'.rate = config.rate /\ chip'.filter = config.filter
        /\ switchctrl'.bypass = ~config.amp /\ switchctrl'.ant = config.ant
        /\ target = "RX" => chip'.lna = config.lna /\ chip'.vga = config.vga
        /\ target = "TX" => chip'.txvga = config.txvga
        /\ chip'.freq = applied' => config.freq = chip'.freq
    BY <1>1, <1>6, <2>4, AppliedAfter
  <2>7. \A e \in ModeElements' : chip'[e] = config'[e]
    <3>1. CASE target = "RX"
      <4>1. ModeElements' = {"rate", "filter", "lna", "vga"}
        BY <2>2, <3>1 DEF ModeElements
      <4> QED
        BY <1>4, <2>6, <3>1, <4>1
    <3>2. CASE target = "TX"
      <4>1. ModeElements' = {"rate", "filter", "txvga"}
        BY <2>2, <3>2 DEF ModeElements
      <4> QED
        BY <1>4, <2>6, <3>2, <4>1
    <3> QED
      BY <1>1, <1>6, <3>1, <3>2
  <2>8. Enables(target) = {target}
    BY <1>1, <1>6 DEF Enables
  <2> QED
    BY <1>4, <1>6, <2>2, <2>5, <2>6, <2>7, <2>8
<1> QED
  BY <1>5, <1>6

\* A request at rest keeps the front end as configured.
LEMMA RequestKeepsRest ==
  ASSUME PathInv, FrontEndTypes, Cached, Rest,
         NEW e \in Elements, NEW v, Fits(e, v), Request(e, v)
  PROVE  Rest'
<1> USE DEF FrontEndTypes
<1> SUFFICES ASSUME Settled' PROVE Rest'
  BY DEF Rest
<1>1. Settled /\ pc = 0 /\ mode' = mode
  BY Requests DEF Settled
<1>2. CASE mode = "OFF"
  BY <1>1, <1>2 DEF Rest, Request, SetWhileOff, OffApplied
<1>3. CASE mode # "OFF"
  <2>1. /\ chip.dir = mode /\ rf_mode = mode /\ enabled = {mode}
        /\ switchctrl.tx = (mode = "TX") /\ Live(switchctrl)
        /\ switchctrl.bypass = ~config.amp
        /\ pins.tx = switchctrl.tx /\ pins.amp = AmpPin(switchctrl)
        /\ \A a \in ModeElements : chip[a] = config[a]
        /\ ~lagging => pins.ant = config.ant /\ switchctrl.ant = config.ant
        /\ chip.freq = applied => config.freq = chip.freq
    BY <1>1, <1>3 DEF Rest
  <2>2. ModeElements' = ModeElements /\ ModeElements \subseteq ChipElements
    BY <1>1 DEF ModeElements, ChipElements
  <2>3. Word(switchctrl)
    BY DEF PathInv, PathTypes
  <2>4. "amp" \notin ChipElements /\ "ant" \notin ChipElements /\ "freq" \notin ChipElements
        /\ "dir" \notin ChipElements /\ {"amp", "ant", "freq"} \subseteq Elements
    BY DEF Elements, ChipElements, Switched
  <2>5. CASE e \in ChipElements /\ SetChip(e, v)
    <3>1. CASE UNCHANGED <<config, chip>>
      BY <1>1, <1>3, <2>1, <2>2, <2>5, <3>1 DEF Rest, SetChip
    <3>2. CASE chip' = [chip EXCEPT ![e] = v] /\ StoreConfig(e, v)
      <4>1. \A a \in ModeElements : chip'[a] = config'[a]
        BY <2>1, <2>2, <2>5, <3>2 DEF StoreConfig, Elements
      <4>2. /\ chip'.dir = chip.dir /\ chip'.freq = chip.freq
            /\ config'.amp = config.amp /\ config'.ant = config.ant /\ config'.freq = config.freq
        BY <2>4, <2>5, <3>2 DEF StoreConfig
      <4> QED
        BY <1>1, <1>3, <2>1, <2>2, <2>5, <4>1, <4>2 DEF Rest, SetChip
    <3> QED
      BY <2>5, <3>1, <3>2 DEF SetChip
  <2>6. ASSUME SetFrequency(v) PROVE rf_mode' = mode /\ enabled' = {mode}
    <3>1. rf_mode' = rf_mode /\ (enabled' = enabled \/ enabled' = Enables(rf_mode))
      BY <2>6 DEF SetFrequency
    <3>2. Enables(mode) = {mode}
      BY <1>3 DEF Enables, PathInv, PathTypes
    <3> QED
      BY <2>1, <3>1, <3>2
  <2>7. CASE e = "freq" /\ SetFrequency(v)
    <3>1. CASE Refused("freq", v) \/ v = applied
      <4>1. UNCHANGED <<config, chip, switchctrl, pins, lagging>>
        BY <2>7, <3>1 DEF SetFrequency
      <4>2. applied' = applied \/ (applied' = v /\ Refused("freq", v))
        BY <2>7, <3>1 DEF SetFrequency
      <4>3. chip'.freq = applied' => config'.freq = chip'.freq
        BY <2>1, <2>7, <4>1, <4>2 DEF Cached
      <4> QED
        BY <1>1, <1>3, <2>1, <2>2, <2>6, <2>7, <4>1, <4>3 DEF Rest
    <3>2. CASE ~(Refused("freq", v) \/ v = applied)
      <4>1. /\ switchctrl' = SetFilter(switchctrl, v) /\ pins' = AllPins(switchctrl')
            /\ chip' = [chip EXCEPT !.freq = v] /\ config' = [config EXCEPT !["freq"] = v]
            /\ lagging' = lagging
        BY <2>7, <3>2 DEF SetFrequency, SetSwitch, StoreConfig
      <4>2. /\ switchctrl'.tx = switchctrl.tx /\ switchctrl'.bypass = switchctrl.bypass
            /\ switchctrl'.noTx = switchctrl.noTx /\ switchctrl'.noRx = switchctrl.noRx
            /\ switchctrl'.ant = switchctrl.ant
        BY <2>3, <4>1 DEF SetFilter, Word
      <4>3. /\ pins'.tx = switchctrl'.tx /\ pins'.amp = AmpPin(switchctrl') /\ pins'.ant = switchctrl'.ant
        BY <4>1 DEF AllPins
      <4>4. Live(switchctrl')
        BY <2>1, <4>2 DEF Live
      <4>5. /\ \A a \in ModeElements : chip'[a] = config'[a]
            /\ chip'.dir = chip.dir /\ chip'.freq = v /\ config'.freq = v
            /\ config'.amp = config.amp /\ config'.ant = config.ant
        BY <2>1, <2>2, <2>4, <4>1 DEF Elements
      <4> QED
        BY <1>1, <1>3, <2>1, <2>2, <2>6, <2>7, <4>1, <4>2, <4>3, <4>4, <4>5 DEF Rest
    <3> QED
      BY <3>1, <3>2
  <2>8. CASE e = "amp" /\ SetAmp(v)
    <3>1. /\ switchctrl' = SetLna(switchctrl, v) /\ pins' = AllPins(switchctrl')
          /\ config' = [config EXCEPT !["amp"] = v]
          /\ UNCHANGED <<applied, chip, enabled, rf_mode, lagging>> /\ v \in BOOLEAN
      BY <2>8 DEF SetAmp, SetSwitch, StoreConfig, Fits, Switched
    <3>2. /\ switchctrl'.tx = switchctrl.tx /\ switchctrl'.bypass = ~v
          /\ switchctrl'.ant = switchctrl.ant
          /\ switchctrl'.noTx = ~(v /\ switchctrl.tx) /\ switchctrl'.noRx = ~(v /\ ~switchctrl.tx)
      BY <2>3, <3>1 DEF SetLna, Word
    <3>3. pins'.tx = switchctrl'.tx /\ pins'.amp = AmpPin(switchctrl') /\ pins'.ant = switchctrl'.ant
      BY <3>1 DEF AllPins
    <3>4. Live(switchctrl')
      BY <2>3, <3>1, <3>2 DEF Live, Word
    <3>5. /\ \A a \in ModeElements : config'[a] = config[a]
          /\ config'.amp = v /\ config'.ant = config.ant /\ config'.freq = config.freq
      BY <2>2, <2>4, <3>1 DEF Elements
    <3> QED
      BY <1>1, <1>3, <2>1, <2>2, <3>1, <3>2, <3>3, <3>4, <3>5 DEF Rest
  <2>9. CASE e = "ant" /\ SetAntennaEnable(v)
    <3>1. /\ switchctrl' = SetAntenna(switchctrl, config.ant) /\ pins' = AllPins(switchctrl')
          /\ config' = [config EXCEPT !["ant"] = v] /\ lagging' = TRUE
          /\ UNCHANGED <<applied, chip, enabled, rf_mode>>
      BY <2>9 DEF SetAntennaEnable, SetSwitch, StoreConfig
    <3>2. /\ switchctrl'.tx = switchctrl.tx /\ switchctrl'.bypass = switchctrl.bypass
          /\ switchctrl'.noTx = switchctrl.noTx /\ switchctrl'.noRx = switchctrl.noRx
      BY <2>3, <3>1 DEF SetAntenna, Word
    <3>3. pins'.tx = switchctrl'.tx /\ pins'.amp = AmpPin(switchctrl')
      BY <3>1 DEF AllPins
    <3>4. Live(switchctrl')
      BY <2>1, <3>2 DEF Live
    <3>5. /\ \A a \in ModeElements : config'[a] = config[a]
          /\ config'.amp = config.amp /\ config'.freq = config.freq
      BY <2>2, <2>4, <3>1 DEF Elements
    <3> QED
      BY <1>1, <1>3, <2>1, <2>2, <3>1, <3>2, <3>3, <3>4, <3>5 DEF Rest
  <2> QED
    BY <1>3, <2>5, <2>7, <2>8, <2>9 DEF Request, Elements, Switched
<1> QED
  BY <1>2, <1>3

\* The record of an undisturbed switch is inductive: a request ends it.
LEMMA UndisturbedKept ==
  ASSUME PathInv, FrontEndTypes, Cached, BandFollows, Undisturbed, Next
  PROVE  Undisturbed'
<1>1. ASSUME NEW m \in {"OFF", "RX", "TX"}, Begin(m) PROVE Undisturbed'
  <2>1. pc' = 1 /\ step' = 1 /\ target' \in {"OFF", "RX", "TX"} /\ ~At("store")' /\ ~At("pins")'
    BY <1>1, Begins
  <2>2. DirectionAt' \in {4, 8, 9} /\ (target' # "OFF" => AntennaAt' \in {6, 7})
    BY <2>1 DEF DirectionAt, AntennaAt
  <2>3. \A n \in {2, 3, 4, 5, 6, 8, 9, 10} : ~Directed(n)'
    BY <2>1, <2>2 DEF Directed
  <2>4. \A p \in Nat \ {0}, n \in Nat \ {0} : ~Done(p, n)'
    BY <2>1 DEF Done
  <2>5. target' # "OFF" => ~Done(AntennaAt, 4)'
    BY <2>1, <2>2 DEF Done
  <2>6. Current'
    BY <2>1 DEF Current
  <2> QED
    BY <2>3, <2>4, <2>5, <2>6 DEF Undisturbed, DirectedSoFar, ClearedSoFar, AppliedSoFar
<1>2. CASE Failure
  BY <1>2 DEF Failure, Undisturbed
<1>3. CASE AlreadyApplied
  <2> SUFFICES ASSUME ~overlapped' PROVE Current' /\ DirectedSoFar' /\ AppliedSoFar' /\ target' # "OFF"
    BY DEF Undisturbed
  <2>1. /\ pc = 2 /\ step = 2 /\ target # "OFF" /\ pc' = 3 /\ step' = 1 /\ target' = target
        /\ DirectionAt' = DirectionAt /\ AntennaAt' = AntennaAt
        /\ UNCHANGED <<config, applied, chip, switchctrl, pins>>
        /\ ~At("store")' /\ ~At("pins")' /\ ~overlapped
        /\ Setting /\ Element = "freq" /\ val = applied
    BY <1>3, Already DEF ghostVars
  <2>2. /\ \/ target = "RX" /\ DirectionAt = 9 /\ AntennaAt = 7
           \/ target = "TX" /\ DirectionAt = 8 /\ AntennaAt = 6
    BY <2>1, StartElements DEF PathInv
  <2>3. Current /\ AppliedSoFar
    BY <2>1 DEF Undisturbed
  <2>4. config.freq = applied
    BY <2>1, <2>3 DEF Current
  <2>5. Current'
    BY <2>1 DEF Current
  <2>6. DirectedSoFar'
    <3>1. \A n \in {2, 3, 4, 5, 6, 8, 9, 10} : ~Directed(n)'
      BY <2>1, <2>2 DEF Directed
    <3> QED
      BY <3>1 DEF DirectedSoFar
  <2>7. Done(1, 2)
    BY <2>1 DEF Done
  <2>8. /\ ~Done(3, 2)' /\ ~Done(4, 3)' /\ ~Done(5, 2)' /\ ~Done(6, 2)' /\ ~Done(AntennaAt, 4)'
    BY <2>1, <2>2 DEF Done
  <2>9. AppliedSoFar'
    BY <2>1, <2>3, <2>4, <2>7, <2>8 DEF AppliedSoFar
  <2> QED
    BY <2>1, <2>5, <2>6, <2>9
<1>4. ASSUME NEW e \in Elements, NEW v, Fits(e, v), Request(e, v) PROVE Undisturbed'
  <2>1. pc' = pc /\ overlapped' = (overlapped \/ pc # 0) /\ pc \in Nat
    BY <1>4, Requests, Range DEF PathInv
  <2>2. pc # 0 => overlapped'
    BY <2>1
  <2>3. pc = 0 => ~(pc' > 0)
    BY <2>1
  <2> QED
    BY <2>2, <2>3 DEF Undisturbed
<1> QED
  BY <1>1, <1>2, <1>3, <1>4, Kinds, OperationKeepsUndisturbed

\* What a switch left stays so until the next one begins.
LEMMA RestKept ==
  ASSUME PathInv, FrontEndTypes, Cached, BandFollows, Undisturbed, Rest, Next
  PROVE  Rest'
<1>1. ASSUME NEW m \in {"OFF", "RX", "TX"}, Begin(m) PROVE Rest'
  BY <1>1, Begins DEF Rest, Settled
<1>2. CASE Failure
  BY <1>2 DEF Failure, Rest, Settled
<1>3. CASE AlreadyApplied
  BY <1>3, Already DEF Rest, Settled
<1> QED
  BY <1>1, <1>2, <1>3, Kinds, EndLeaves, RequestKeepsRest

\* At boot nothing has been applied and nothing is promised.
LEMMA InitApply == Init => ApplyInv
<1> SUFFICES ASSUME Init PROVE ApplyInv
  OBVIOUS
<1> USE DEF Init
<1>1. FrontEndTypes
  BY SettingsAssumption DEF FrontEndTypes, Setting, AllPins
<1>2. chip.freq = Unset /\ applied = Unset /\ mode = "OFF" /\ pc = 0
  BY DEF ChipElements
<1>3. Cached
  <2>1. Unset \notin Explicit /\ Unset \notin {Partial, Mixed}
    BY SettingsAssumption DEF Fits, Unset, Partial, Mixed
  <2> QED
    BY <1>2, <2>1 DEF Cached, Fits, Tuning
<1>4. BandFollows
  BY <1>2 DEF BandFollows, At, Tuning, AllPins
<1> QED
  BY <1>1, <1>2, <1>3, <1>4 DEF ApplyInv, Undisturbed, Rest, Settled

\* The parts of ApplyInv together.
LEMMA StepKeepsApply == PathInv /\ ApplyInv /\ [Next]_vars => ApplyInv'
<1> SUFFICES ASSUME PathInv, ApplyInv, [Next]_vars PROVE ApplyInv'
  OBVIOUS
<1>1. CASE Next
  BY <1>1, TypesKept, CachedKept, BandKept, UndisturbedKept, RestKept DEF ApplyInv, PathInv
<1>2. CASE UNCHANGED vars
  <2> USE <1>2 DEF vars
  <2>1. UNCHANGED <<Routine, DirectionAt, AntennaAt, Setting, Element>>
    BY DEF Routine, DirectionAt, AntennaAt, Setting, Element
  <2>2. FrontEndTypes'
    BY <2>1 DEF ApplyInv, FrontEndTypes
  <2>3. Cached'
    BY DEF ApplyInv, Cached, Tuning, Done
  <2>4. BandFollows'
    BY <2>1 DEF ApplyInv, BandFollows, Straight, Tuning, At
  <2>5. Current' <=> Current
    BY <2>1 DEF Current, At
  <2>6. DirectedSoFar' <=> DirectedSoFar
    BY <2>1 DEF DirectedSoFar, Directed, Live
  <2>7. (ClearedSoFar' <=> ClearedSoFar) /\ (AppliedSoFar' <=> AppliedSoFar)
    BY <2>1 DEF ClearedSoFar, AppliedSoFar, Done
  <2>8. Undisturbed'
    BY <2>5, <2>6, <2>7 DEF ApplyInv, Undisturbed
  <2>9. Rest'
    BY DEF ApplyInv, Rest, Settled, OffApplied, ModeElements, Live, AmpPin
  <2> QED
    BY <2>2, <2>3, <2>4, <2>8, <2>9 DEF ApplyInv
<1> QED
  BY <1>1, <1>2

\* The path, the chips, the switch word and the pins follow what the switch has done,
\* whatever requests come in between.
THEOREM SwitchInvariance == Spec => []SwitchInv
BY InitPath, InitApply, StepKeepsPath, StepKeepsApply, PTL DEF Spec, SwitchInv

\* A switch that no request overlapped leaves the front end exactly as configured,
\* whatever stale words, failed switches and requests came before it, and requests
\* at rest keep it so (radio_switch_mode(), the setters of radio.c).
THEOREM SwitchLeavesAsConfigured == Spec => []SwitchApplies
<1>1. SwitchInv => SwitchApplies
  <2> SUFFICES ASSUME PathInv, ApplyInv, Settled
               PROVE  IF mode = "OFF" THEN OffApplied ELSE ActiveApplied
    BY DEF SwitchInv, SwitchApplies
  <2> USE DEF ApplyInv
  <2>1. CASE mode = "OFF"
    BY <2>1 DEF Rest
  <2>2. CASE mode # "OFF"
    <3>1. /\ chip.dir = mode /\ enabled = {mode} /\ switchctrl.tx = (mode = "TX") /\ Live(switchctrl)
          /\ switchctrl.bypass = ~config.amp
          /\ pins.tx = switchctrl.tx /\ pins.amp = AmpPin(switchctrl)
          /\ \A e \in ModeElements : chip[e] = config[e]
          /\ ~lagging => pins.ant = config.ant
          /\ chip.freq = applied => config.freq = chip.freq
      BY <2>2 DEF Rest
    <3>2. mode \in {"RX", "TX"} /\ config.amp \in BOOLEAN
      BY <2>2 DEF PathInv, PathTypes, FrontEndTypes, Fits, Elements, Switched
    <3>3. pins.amp = IF config.amp THEN mode ELSE "none"
      BY <3>1, <3>2 DEF AmpPin, Live
    <3>4. ASSUME chip.freq = applied, ~torn PROVE pins.band = Band[chip.freq]
      <4>1. applied # Unset
        BY <2>2, <3>4 DEF Settled, Cached
      <4>2. \A n : ~Tuning(n)
        BY DEF Settled, Tuning
      <4> QED
        BY <3>4, <4>1, <4>2 DEF BandFollows
    <3> QED
      BY <2>2, <3>1, <3>3, <3>4 DEF ActiveApplied
  <2> QED
    BY <2>1, <2>2
<1> QED
  BY <1>1, SwitchInvariance, PTL

=============================================================================
