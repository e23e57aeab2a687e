--------------------------- MODULE SweepPlanProofs ---------------------------
(***************************************************************************)
(* TunedToLabel, for every plan, tuning of the host, range of the radio and  *)
(* width of a step: the frequency goes through three variables, and each is  *)
(* what the one before it asks for, unless the radio refused it, the host    *)
(* tuned it explicitly, or two tunings collided.                            *)
(***************************************************************************)
EXTENDS SweepPlan, TLAPS

USE DEF planVars, tunerVars, radioVars, requestVars, walkVars, historyVars
USE DEF Given, Tunable, Accepts, Skips

\* Automatic and explicit tunings and the marks of the chips are told apart.
LEMMA Marks ==
  /\ Partial # Mixed
  /\ \A f : Automatic(f) # Partial /\ Automatic(f) # Mixed /\ ~IsExplicit(Automatic(f))
  /\ \A f : Automatic(f).hz = f
  /\ \A v : IsExplicit(v) => v # Partial /\ v # Mixed
BY DEF Automatic, IsExplicit, Partial, Mixed

USE Marks

\* An automatic tuning with the radio on: what it is asked for it has, unless the
\* frequency is the one applied last.
LEMMA TunesWhenOn ==
  ASSUME NEW m, m # "OFF", NEW f, SetFrequency(m, Automatic(f))
  PROVE  /\ applied_freq' = f
         /\ \/ f = applied_freq /\ UNCHANGED tunerVars
            \/ f # applied_freq /\ Tunable(f) /\ hw_freq' = Automatic(f) /\ config_freq' = Automatic(f)
            \/ ~Tunable(f) /\ UNCHANGED <<hw_freq, config_freq>>
BY DEF SetFrequency

\* With the radio off the configuration alone takes the frequency.
LEMMA ConfiguresWhenOff ==
  ASSUME NEW v, SetFrequency("OFF", v)
  PROVE  config_freq' = v /\ UNCHANGED <<applied_freq, hw_freq>>
BY DEF SetFrequency

\* At boot the radio is untuned and no sweep is on.
LEMMA InitPlan == Init => PlanInv
<1> SUFFICES ASSUME Init PROVE PlanInv
  OBVIOUS
<1> USE DEF Init
<1>1. Applied /\ Configured /\ Read /\ Tuning /\ Collided
  BY DEF Applied, Configured, Read, Tuning, Collided, Starting, Untuned
<1>2. Ready /\ TunedToLabel
  BY DEF Ready, TunedToLabel, Chosen, Target
<1> QED
  BY <1>1, <1>2 DEF PlanInv

\* An init request that is refused leaves the target, or marks its offset as
\* refused; an accepted one configures the target, or tunes to it.
LEMMA DataKeepsPlan ==
  ASSUME PlanInv, InitData
  PROVE  PlanInv'
<1> USE DEF PlanInv, InitData
<1>1. PICK p \in data : RefuseData(p) \/ AcceptData(p)
  OBVIOUS
<1>2. CASE RefuseData(p)
  BY <1>2 DEF RefuseData, Applied, Configured, Ready, Read, Tuning, Collided, TunedToLabel,
              Promised, Chosen, Starting, Target
<1>3. CASE AcceptData(p)
  <2>1. /\ SetFrequency(config_mode, Automatic(Target'))
        /\ disturbed' = (Starting \/ (disturbed /\ hw_freq' = Mixed))
        /\ Starting' = Starting
    BY <1>3 DEF AcceptData, Target, Starting
  <2> HIDE DEF Tunable
  <2>2. CASE pc = "off"
    <3>1. config_freq' = Automatic(Target') /\ UNCHANGED <<applied_freq, hw_freq>>
      BY <2>1, <2>2, ConfiguresWhenOff
    <3> QED
      BY <2>1, <2>2, <3>1
      DEF Applied, Configured, Ready, Read, Tuning, Collided, TunedToLabel, Promised, Chosen, Starting
  <2>3. CASE pc # "off"
    <3>1. /\ applied_freq' = Target'
          /\ \/ Target' = applied_freq /\ UNCHANGED tunerVars
             \/ /\ Target' # applied_freq /\ Tunable(Target')
                /\ hw_freq' = Automatic(Target') /\ config_freq' = Automatic(Target')
             \/ ~Tunable(Target') /\ UNCHANGED <<hw_freq, config_freq>>
      BY <2>1, <2>3, TunesWhenOn
    <3>11. Applied'
      BY <2>1, <2>3, <3>1 DEF Applied
    <3>12. Configured'
      BY <2>1, <2>3, <3>1 DEF Applied, Configured, Read, Starting, Collided, Tuning
    <3>13. Ready'
      BY <2>1, <2>3, <3>1 DEF Applied, Configured, Ready, Read, Chosen, Promised, Starting, Collided, Tuning
    <3>14. Read'
      BY <2>1, <2>3, <3>1 DEF Read, Promised, Applied, Collided, Starting
    <3>15. Tuning'
      BY <2>1, <2>3, <3>1 DEF Applied, Ready, Read, Tuning, Chosen, Promised, Collided, Starting
    <3>16. Collided'
      BY <2>1, <2>3, <3>1 DEF Collided, Starting
    <3>17. TunedToLabel'
      BY <2>1, <2>3, <3>1 DEF Applied, Ready, Read, Tuning, Collided, TunedToLabel, Promised, Chosen, Starting
    <3> QED
      BY <2>1, <2>3, <3>1, <3>11, <3>12, <3>13, <3>14, <3>15, <3>16, <3>17
  <2> QED
    BY <2>2, <2>3
<1> QED
  BY <1>1, <1>2, <1>3

\* A tuning by the host ends the promise, and otherwise leaves the chain as any
\* tuning does.
LEMMA HostTuneKeepsPlan ==
  ASSUME PlanInv, NEW v \in Tunings, HostTune(v)
  PROVE  PlanInv'
<1> USE DEF PlanInv, HostTune
<1>1. Given(v)
  <2>1. v.explicit \in {"no", "in", "out"} /\ v = [hz |-> v.hz, explicit |-> v.explicit]
    BY PlanAssumption
  <2> QED
    BY <2>1 DEF Automatic, IsExplicit
<1>2. Target' = Target /\ Starting' = Starting
  BY DEF Target, Starting
<1> HIDE DEF Tunable
<1>3. CASE UNCHANGED tunerVars
  BY <1>2, <1>3
  DEF Applied, Configured, Ready, Read, Tuning, Collided, TunedToLabel, Promised, Chosen, Starting
<1>4. CASE ~UNCHANGED tunerVars
  <2>1. disturbed'
    BY <1>4
  <2>2. CASE pc = "off"
    <3>1. config_freq' = v /\ UNCHANGED <<applied_freq, hw_freq>>
      BY <2>2, ConfiguresWhenOff
    <3> QED
      BY <1>1, <2>1, <2>2, <3>1
      DEF Applied, Configured, Ready, Read, Tuning, Collided, TunedToLabel, Promised, Chosen, Starting
  <2>3. CASE pc # "off" /\ IsExplicit(v)
    <3>1. applied_freq' = applied_freq /\ hw_freq' = v /\ config_freq' = v
      BY <1>4, <2>3 DEF SetFrequency
    <3> QED
      BY <2>1, <2>3, <3>1
      DEF Applied, Configured, Ready, Read, Tuning, Collided, TunedToLabel, Promised, Chosen, Starting
  <2>4. CASE pc # "off" /\ ~IsExplicit(v)
    <3>1. v = Automatic(v.hz)
      BY <1>1, <2>4
    <3>2. /\ applied_freq' = v.hz
          /\ \/ Tunable(v.hz) /\ hw_freq' = Automatic(v.hz) /\ config_freq' = Automatic(v.hz)
             \/ ~Tunable(v.hz) /\ UNCHANGED <<hw_freq, config_freq>>
      BY <1>4, <2>4, <3>1, TunesWhenOn
    <3> QED
      BY <2>1, <2>4, <3>2
      DEF Applied, Configured, Ready, Read, Tuning, Collided, TunedToLabel, Promised, Chosen, Starting
  <2> QED
    BY <2>2, <2>3, <2>4
<1> QED
  BY <1>3, <1>4

\* A start reads the configured frequency and matches it with the applied one ...
LEMMA MatchKeepsPlan ==
  ASSUME PlanInv, Match
  PROVE  PlanInv'
<1> USE DEF PlanInv, Match, Begin
<1>1. Target' = Target
  BY DEF Target
<1> HIDE DEF Tunable
<1>2. CASE pc' = "tune"
  <2>11. Applied'
    BY <1>1, <1>2 DEF Applied, Accepts
  <2>12. Configured'
    BY <1>1, <1>2 DEF Applied, Configured, Read, Starting, Collided, Tuning, Accepts
  <2>13. Ready'
    BY <1>1, <1>2 DEF Applied, Configured, Ready, Read, Chosen, Promised, Starting, Collided, Tuning, Accepts
  <2>14. Read'
    BY <1>1, <1>2 DEF Read, Promised, Applied, Collided, Starting, Accepts
  <2>15. Tuning'
    BY <1>1, <1>2 DEF Applied, Ready, Read, Tuning, Chosen, Promised, Collided, Starting, Accepts
  <2>16. Collided'
    BY <1>1, <1>2 DEF Collided, Starting, Accepts
  <2>17. TunedToLabel'
    BY <1>1, <1>2 DEF Applied, Ready, Read, Tuning, Collided, TunedToLabel, Promised, Chosen, Starting, Accepts
  <2> QED
    BY <1>1, <1>2, <2>11, <2>12, <2>13, <2>14, <2>15, <2>16, <2>17
<1>3. CASE pc' = "block"
  <2>11. Applied'
    BY <1>1, <1>3 DEF Applied, Accepts
  <2>12. Configured'
    BY <1>1, <1>3 DEF Applied, Configured, Read, Starting, Collided, Tuning, Accepts
  <2>13. Ready'
    BY <1>1, <1>3 DEF Applied, Configured, Ready, Read, Chosen, Promised, Starting, Collided, Tuning, Accepts
  <2>14. Read'
    BY <1>1, <1>3 DEF Read, Promised, Applied, Collided, Starting, Accepts
  <2>15. Tuning'
    BY <1>1, <1>3 DEF Applied, Ready, Read, Tuning, Chosen, Promised, Collided, Starting, Accepts
  <2>16. Collided'
    BY <1>1, <1>3 DEF Collided, Starting, Accepts
  <2>17. TunedToLabel'
    BY <1>1, <1>3 DEF Applied, Ready, Read, Tuning, Collided, TunedToLabel, Promised, Chosen, Starting, Accepts
  <2> QED
    BY <1>1, <1>3, <2>11, <2>12, <2>13, <2>14, <2>15, <2>16, <2>17
<1> QED
  BY <1>2, <1>3

\* ... and has tuned to it unless a request did in between.
LEMMA TunedKeepsPlan ==
  ASSUME PlanInv, Tuned
  PROVE  PlanInv'
<1> USE DEF PlanInv, Tuned, Begin
<1>1. Target' = Target
  BY DEF Target
<1> HIDE DEF Tunable
<1>11. Applied'
  BY <1>1 DEF Applied, Tuning, Accepts
<1>12. Configured'
  BY <1>1 DEF Applied, Configured, Read, Starting, Collided, Tuning, Accepts
<1>13. Ready'
  BY <1>1 DEF Applied, Configured, Ready, Read, Chosen, Promised, Starting, Collided, Tuning, Accepts
<1>14. Read'
  BY <1>1 DEF Read, Promised, Applied, Collided, Starting, Accepts
<1>15. Tuning'
  BY <1>1 DEF Applied, Ready, Read, Tuning, Chosen, Promised, Collided, Starting, Accepts
<1>16. Collided'
  BY <1>1 DEF Collided, Tuning, Starting, Accepts
<1>17. TunedToLabel'
  BY <1>1 DEF Applied, Ready, Read, Tuning, Collided, TunedToLabel, Promised, Chosen, Starting, Accepts
<1> QED
  BY <1>1, <1>11, <1>12, <1>13, <1>14, <1>15, <1>16, <1>17

\* A retune asks for the target that the loop has just stored.
LEMMA RetuneKeepsPlan ==
  ASSUME PlanInv, Retune
  PROVE  PlanInv'
<1> USE DEF PlanInv, Retune
<1>1. SetFrequency(config_mode, Automatic(Target)) /\ config_mode # "OFF" /\ Target' = Target
  BY DEF Target
<1> HIDE DEF Tunable
<1>2. /\ applied_freq' = Target
      /\ \/ Target = applied_freq /\ UNCHANGED tunerVars
         \/ Target # applied_freq /\ Tunable(Target) /\ hw_freq' = Automatic(Target) /\ config_freq' = Automatic(Target)
         \/ ~Tunable(Target) /\ UNCHANGED <<hw_freq, config_freq>>
  BY <1>1, TunesWhenOn
<1>11. Applied'
  BY <1>1, <1>2 DEF Applied
<1>12. Configured'
  BY <1>1, <1>2 DEF Applied, Configured, Read, Starting, Collided, Tuning
<1>13. Ready'
  BY <1>1, <1>2 DEF Applied, Configured, Ready, Read, Chosen, Promised, Starting, Collided, Tuning
<1>14. Read'
  BY <1>1, <1>2 DEF Read, Promised, Applied, Collided, Starting
<1>15. Tuning'
  BY <1>1, <1>2 DEF Applied, Ready, Read, Tuning, Chosen, Promised, Collided, Starting
<1>16. Collided'
  BY <1>1, <1>2 DEF Collided, Starting
<1>17. TunedToLabel'
  BY <1>1, <1>2 DEF Applied, Ready, Read, Tuning, Collided, TunedToLabel, Promised, Chosen, Starting
<1> QED
  BY <1>1, <1>2, <1>11, <1>12, <1>13, <1>14, <1>15, <1>16, <1>17

\* The other steps leave the radio alone; those that move the target are taken
\* only between the blocks.
LEMMA RestKeepsPlan ==
  ASSUME PlanInv,
         \/ \E p \in Plans : InitSetup(p)
         \/ \E m \in {"OFF", "SWEEP"} : RequestMode(m)
         \/ TakeOff \/ Start \/ Get \/ Stop \/ Block \/ Choose \/ Compute \/ Store
         \/ UNCHANGED sweepVars
  PROVE  PlanInv'
<1> USE DEF PlanInv, Applied, Configured, Ready, Read, Tuning, Collided, TunedToLabel, Promised,
            Chosen, Starting, Target
<1>1. CASE \E p \in Plans : InitSetup(p)
  BY <1>1 DEF InitSetup
<1>2. CASE \E m \in {"OFF", "SWEEP"} : RequestMode(m)
  BY <1>2 DEF RequestMode
<1>3. CASE TakeOff
  BY <1>3 DEF TakeOff
<1>4. CASE Start
  BY <1>4 DEF Start
<1>5. CASE Get
  BY <1>5 DEF Get
<1>6. CASE Stop
  BY <1>6 DEF Stop
<1>7. CASE Block
  BY <1>7 DEF Block
<1>8. CASE Choose
  BY <1>8 DEF Choose
<1>9. CASE Compute
  BY <1>9 DEF Compute
<1>10. CASE Store
  BY <1>10 DEF Store
<1>11. CASE UNCHANGED sweepVars
  BY <1>11 DEF sweepVars
<1> QED
  BY <1>1, <1>2, <1>3, <1>4, <1>5, <1>6, <1>7, <1>8, <1>9, <1>10, <1>11

\* One lemma per action that takes part in the chain: the invariant is inductive.
LEMMA StepKeepsPlan == PlanInv /\ [Next]_sweepVars => PlanInv'
BY DataKeepsPlan, HostTuneKeepsPlan, MatchKeepsPlan, TunedKeepsPlan, RetuneKeepsPlan, RestKeepsPlan
   DEF Next, IsrNext, MainNext

\* The invariant of the plan (sweep_mode(), usb_vendor_request_init_sweep()).
THEOREM PlanInvariant == Spec => []PlanInv
BY InitPlan, StepKeepsPlan, PTL DEF Spec

\* Whenever sweep_mode() takes a block, the radio is tuned to the label of that
\* block plus the offset, unless the radio cannot be, or the offset is one of a
\* refused request.
THEOREM LabelsAreTuned == Spec => []TunedToLabel
<1>1. PlanInv => TunedToLabel
  BY DEF PlanInv
<1> QED
  BY <1>1, PlanInvariant, PTL

=============================================================================
