------------------------------ MODULE SweepPlan ------------------------------
(***************************************************************************)
(* The plan of a frequency sweep (usb_api_sweep.c): the init request writes  *)
(* it field by field from the USB interrupt, sweep_mode() walks it from the  *)
(* main loop.  Both share static variables that outlive a sweep; range and   *)
(* odd, where the walk is, start afresh with each sweep_mode().             *)
(*                                                                         *)
(* The host may also tune the radio itself, at any time.                    *)
(*                                                                         *)
(* The timing of the blocks is in Sweep; here the M0 delivers one block      *)
(* after the other.  Of radio_switch_mode() there is the tuning; the rest    *)
(* is in Radio.                                                             *)
(***************************************************************************)
EXTENDS Integers, SweepPoints

CONSTANTS
  FREQ_GRANULARITY,  \* units of a step in one unit of a range's ends
  MAX_RANGES,
  MaxFreq,           \* set_freq() refuses what is above
  Plans,             \* what the host may put into an init request
  Tunings,           \* what it may put into set_freq and set_freq_explicit
  WordMod,           \* width of step_width: 2^32, scaled
  MaxRequests,       \* bound: init requests and tunings by the host in a behaviour
  MaxSweepFreq,      \* bound: a walk off the plan is not followed above it
  BlockMod           \* bound: blocks_queued wraps here, not at 2^32

ASSUME PlanAssumption ==
  /\ FREQ_GRANULARITY \in Nat \ {0} /\ MAX_RANGES \in Nat \ {0}
  /\ MaxFreq \in Nat /\ WordMod \in Nat \ {0} /\ BlockMod \in Nat \ {0, 1}
  /\ MaxRequests \in Nat /\ MaxSweepFreq \in Nat
  /\ \A p \in Plans : p.dwell < BlockMod /\ p.step < WordMod
  /\ Tunings \subseteq [hz : Nat, explicit : {"no", "in", "out"}]

LINEAR == 0
INTERLEAVED == 1
Untuned == -1

\* A radio_frequency_t: automatic, or explicit and in or out of the chips' range.
\* The chips may also hold half of a tuning, or the halves of two.
Automatic(f) == [hz |-> f, explicit |-> "no"]
Partial == [hz |-> 0, explicit |-> "partial"]
Mixed == [hz |-> 0, explicit |-> "mixed"]
IsExplicit(v) == v.explicit \in {"in", "out"}

NoBlock == [at |-> <<>>, n |-> 0]

VARIABLES
  \* the static variables of usb_api_sweep.c
  dwell_blocks, num_ranges, step_width, offset, style, frequencies, sweep_freq,
  data,               \* the init request whose data stage is outstanding, or {}
  \* the part of the radio that a retune goes through
  config_mode, config_freq, applied_freq, hw_freq,
  \* the main loop
  request, pending, pc, range, odd, blocks_queued,
  next_freq,          \* sweep_freq as it was computed, before it is stored
  val,                \* the frequency that the start has read
  \* history
  block,              \* the last block of this sweep: the point of the walk, how many before it
  promise,            \* is the plan whole, new at the start of the sweep, and left alone since
  offset_refused,     \* is offset one that a refused request has left behind
  disturbed,          \* has the host tuned since the plan did, or a request during a start
  requests            \* init requests and tunings so far

planVars == <<dwell_blocks, num_ranges, step_width, offset, style, frequencies>>
tunerVars == <<config_freq, applied_freq, hw_freq>>
radioVars == <<config_mode, tunerVars>>
requestVars == <<request, pending>>
walkVars == <<range, odd, blocks_queued, next_freq, val>>
historyVars == <<block, promise, offset_refused, disturbed, requests>>
sweepVars == <<planVars, sweep_freq, data, radioVars, requestVars, pc, walkVars, historyVars>>

Init ==
  /\ dwell_blocks = 0 /\ num_ranges = 0 /\ step_width = 0 /\ offset = 0 /\ style = LINEAR
  /\ frequencies = [i \in 0 .. 2 * MAX_RANGES - 1 |-> 0] /\ sweep_freq = 0 /\ data = {}
  /\ config_mode = "OFF" /\ config_freq = Automatic(0) /\ applied_freq = Untuned
  /\ hw_freq = Automatic(Untuned)
  /\ request = "OFF" /\ pending = FALSE /\ pc = "off"
  /\ range = 0 /\ odd = TRUE /\ blocks_queued = 0 /\ next_freq = 0 /\ val = Automatic(0)
  /\ block = NoBlock /\ promise = "none" /\ offset_refused = FALSE
  /\ disturbed = FALSE /\ requests = 0

-----------------------------------------------------------------------------
(* radio_set_frequency() and, in it, set_freq() and set_freq_explicit(), with *)
(* the radio in mode m. An explicit tuning leaves applied_freq alone, and so  *)
(* an automatic one to the frequency last applied is skipped after it.       *)
Tunable(f) == f <= MaxFreq
Accepts(v) == IF IsExplicit(v) THEN v.explicit = "in" ELSE Tunable(v.hz)
Skips(v) == ~IsExplicit(v) /\ v.hz = applied_freq

SetFrequency(m, v) ==
  \/ m = "OFF" /\ config_freq' = v /\ UNCHANGED <<applied_freq, hw_freq>>
  \/ m # "OFF" /\ Skips(v) /\ UNCHANGED tunerVars
  \/ /\ m # "OFF" /\ ~Skips(v)
     /\ applied_freq' = IF IsExplicit(v) THEN applied_freq ELSE v.hz
     /\ \/ Accepts(v) /\ hw_freq' = v /\ config_freq' = v
        \/ ~Accepts(v) /\ UNCHANGED <<hw_freq, config_freq>>

Starting == pc \in {"get", "match", "tune"}

-----------------------------------------------------------------------------
(* usb_vendor_request_init_sweep(), in the USB interrupt.                    *)

\* Setup stage: two fields are stored before they are checked.
InitSetup(p) ==
  /\ requests < MaxRequests /\ requests' = requests + 1
  /\ dwell_blocks' = p.dwell
  /\ \/ p.dwell < 1 /\ data' = {} /\ UNCHANGED num_ranges
     \/ /\ p.dwell >= 1 /\ num_ranges' = p.ranges
        /\ data' = IF p.ranges \in 1 .. MAX_RANGES THEN {p} ELSE {}
  /\ promise' = "none"
  /\ UNCHANGED <<step_width, offset, style, frequencies, sweep_freq, radioVars, requestVars,
                 pc, walkVars, block, offset_refused, disturbed>>

\* Data stage: a refusal leaves what was stored before it.
Refused(p) == p.step < 1 \/ p.style > INTERLEAVED

RefuseData(p) ==
  /\ Refused(p) /\ step_width' = p.step
  /\ \/ p.step < 1 /\ UNCHANGED <<offset, style, offset_refused>>
     \/ p.step >= 1 /\ offset' = p.offset /\ style' = p.style /\ offset_refused' = TRUE
  /\ promise' = "none"
  /\ UNCHANGED <<frequencies, sweep_freq, tunerVars, disturbed>>

AcceptData(p) ==
  /\ ~Refused(p) /\ step_width' = p.step /\ offset' = p.offset /\ style' = p.style
  /\ frequencies' = [i \in DOMAIN frequencies |->
                       IF i < 2 * num_ranges THEN p.ends[i + 1] ELSE frequencies[i]]
  /\ sweep_freq' = frequencies'[0] * FREQ_GRANULARITY
  /\ SetFrequency(config_mode, Automatic(sweep_freq' + p.offset))
  /\ disturbed' = (Starting \/ (disturbed /\ hw_freq' = Mixed))
  /\ promise' = IF pc = "off" THEN "ready" ELSE "none"
  /\ offset_refused' = FALSE

InitData ==
  /\ \E p \in data : RefuseData(p) \/ AcceptData(p)
  /\ data' = {}
  /\ UNCHANGED <<dwell_blocks, num_ranges, config_mode, requestVars, pc, walkVars, block, requests>>

\* usb_vendor_request_set_freq() and usb_vendor_request_set_freq_explicit()
HostTune(v) ==
  /\ requests < MaxRequests /\ requests' = requests + 1
  /\ SetFrequency(config_mode, v)
  /\ disturbed' = (disturbed \/ tunerVars' # tunerVars)
  /\ UNCHANGED <<planVars, sweep_freq, data, config_mode, requestVars, pc, walkVars, block,
                 promise, offset_refused>>

\* request_transceiver_mode()
RequestMode(m) ==
  /\ request' = m /\ pending' = TRUE
  /\ UNCHANGED <<planVars, sweep_freq, data, radioVars, pc, walkVars, historyVars>>

IsrNext ==
  \/ \E p \in Plans : InitSetup(p)
  \/ InitData
  \/ \E v \in Tunings : HostTune(v)
  \/ \E m \in {"OFF", "SWEEP"} : RequestMode(m)

-----------------------------------------------------------------------------
(* The main loop: off_mode(), and sweep_mode() from its startup on.          *)

TakeOff ==
  /\ pc = "off" /\ pending /\ request = "OFF" /\ pending' = FALSE
  /\ UNCHANGED <<planVars, sweep_freq, data, radioVars, request, pc, walkVars, historyVars>>

Start ==
  /\ pc = "off" /\ pending /\ request = "SWEEP" /\ pending' = FALSE
  /\ config_mode' = "SWEEP" /\ pc' = "get"
  /\ promise' = IF promise = "ready" THEN "kept" ELSE "none"
  /\ block' = NoBlock
  /\ UNCHANGED <<planVars, sweep_freq, data, tunerVars, request, walkVars, offset_refused,
                 disturbed, requests>>

\* radio_switch_mode() tunes to the configured frequency, with the interrupt on.
Get ==
  /\ pc = "get" /\ pc' = "match" /\ val' = config_freq
  /\ UNCHANGED <<planVars, sweep_freq, data, radioVars, requestVars, range, odd, blocks_queued,
                 next_freq, historyVars>>

\* sweep_mode() goes on whatever the tuning returned.
Begin == range' = 0 /\ odd' = TRUE /\ blocks_queued' = 0 /\ val' = Automatic(0) /\ pc' = "block"

Match ==
  /\ pc = "match"
  /\ applied_freq' = IF IsExplicit(val) THEN applied_freq ELSE val.hz
  /\ \/ ~Skips(val) /\ Accepts(val) /\ pc' = "tune" /\ hw_freq' = Partial
        /\ UNCHANGED <<range, odd, blocks_queued, val>>
     \/ (Skips(val) \/ ~Accepts(val)) /\ Begin /\ UNCHANGED hw_freq
  /\ UNCHANGED <<planVars, sweep_freq, data, config_mode, config_freq, requestVars, next_freq,
                 historyVars>>

\* A tuning writes many registers of two chips: one that a request's tuning
\* interrupts leaves the frequency of neither.
Tuned ==
  /\ pc = "tune" /\ Begin
  /\ hw_freq' = IF hw_freq = Partial THEN val ELSE Mixed
  /\ config_freq' = val
  /\ UNCHANGED <<planVars, sweep_freq, data, config_mode, applied_freq, requestVars, next_freq,
                 historyVars>>

\* The loop's tests for a new request, and transceiver_shutdown().
Stop ==
  /\ pc = "block" /\ pending
  /\ config_mode' = "OFF" /\ pc' = "off" /\ promise' = "none"
  /\ UNCHANGED <<planVars, sweep_freq, data, tunerVars, requestVars, walkVars,
                 block, offset_refused, disturbed, requests>>

Point == <<range, odd, sweep_freq>>
Queued == (blocks_queued + 1) % BlockMod

\* A block has arrived: its metadata are written and its transfer is queued. The
\* label is one value here; the code writes it byte by byte from sweep_freq.
Block ==
  /\ pc = "block"
  /\ block' = [at |-> Point, n |-> blocks_queued] /\ blocks_queued' = Queued
  /\ pc' = IF Queued = dwell_blocks THEN "choose" ELSE "block"
  /\ UNCHANGED <<planVars, sweep_freq, data, radioVars, requestVars, range, odd, next_freq,
                 val, promise, offset_refused, disturbed, requests>>

RangeEnds == sweep_freq + step_width >= frequencies[1 + 2 * range] * FREQ_GRANULARITY
Over == RangeEnds /\ (style = INTERLEAVED => ~odd)

\* mutant: the walk does not wrap
NextRangeStops == IF range + 1 < num_ranges THEN range + 1 ELSE range
\* The processor's division by zero yields 0, so the remainder is the dividend.
NextRange == IF num_ranges = 0 THEN range + 1 ELSE (range + 1) % num_ranges

\* Bound: the walk is not followed past the end of frequencies[].
Choose ==
  /\ pc = "choose"
  /\ \/ Over /\ NextRange < MAX_RANGES /\ range' = NextRange /\ pc' = "jump"
     \/ ~Over /\ pc' = "stride" /\ UNCHANGED range
  /\ UNCHANGED <<planVars, sweep_freq, data, radioVars, requestVars, odd, blocks_queued,
                 next_freq, val, historyVars>>

\* mutant: the two strides of an interleaved sweep are exchanged
StrideSwapped ==
  IF style # INTERLEAVED THEN step_width
  ELSE IF odd THEN ((3 * step_width) % WordMod) \div 4
  ELSE step_width \div 4
Stride ==
  IF style # INTERLEAVED THEN step_width
  ELSE IF odd THEN step_width \div 4
  ELSE ((3 * step_width) % WordMod) \div 4

Compute ==
  /\ \/ pc = "jump" /\ next_freq' = frequencies[2 * range] * FREQ_GRANULARITY
     \/ pc = "stride" /\ next_freq' = sweep_freq + Stride /\ next_freq' <= MaxSweepFreq
  /\ odd' = IF style = INTERLEAVED THEN ~odd ELSE odd
  /\ pc' = "store"
  /\ UNCHANGED <<planVars, sweep_freq, data, radioVars, requestVars, range, blocks_queued,
                 val, historyVars>>

Store ==
  /\ pc = "store" /\ pc' = "retune"
  /\ sweep_freq' = next_freq /\ next_freq' = 0
  /\ UNCHANGED <<planVars, data, radioVars, requestVars, range, odd, blocks_queued, val,
                 historyVars>>

TargetBare == sweep_freq                          \* mutant: without the offset
Target == sweep_freq + offset

\* With the USB interrupt masked.
Retune ==
  /\ pc = "retune" /\ pc' = "block"
  /\ SetFrequency(config_mode, Automatic(Target))
  /\ blocks_queued' = 0 /\ offset_refused' = FALSE
  /\ disturbed' = (disturbed /\ hw_freq' = Mixed)
  /\ UNCHANGED <<planVars, sweep_freq, data, config_mode, requestVars, range, odd, next_freq,
                 val, block, promise, requests>>

MainNext ==
  \/ TakeOff \/ Start \/ Get \/ Match \/ Tuned
  \/ Stop \/ Block \/ Choose \/ Compute \/ Store \/ Retune

Next == IsrNext \/ MainNext

Spec == Init /\ [][Next]_sweepVars

\* The main loop runs, and a block arrives as long as it waits for one (Sweep
\* shows that of the M0).
FairSpec == Spec /\ WF_sweepVars(MainNext)

-----------------------------------------------------------------------------
\* The walk is exact if a quarter of the step is one, and three of them fit.
Exact == style = INTERLEAVED => step_width % 4 = 0 /\ 3 * step_width < WordMod

Kept == promise = "kept" /\ block # NoBlock /\ Exact

Reference ==
  Points(num_ranges,
         [r \in 0 .. num_ranges - 1 |-> frequencies[2 * r] * FREQ_GRANULARITY],
         [r \in 0 .. num_ranges - 1 |-> frequencies[2 * r + 1] * FREQ_GRANULARITY],
         step_width, style = INTERLEAVED)

\* The place of the last block among the plan's points; 0 if it has none.
Place ==
  LET places == {i \in 1 .. Len(Reference) : Reference[i] = block.at}
  IN IF places = {} THEN 0 ELSE Min(places)

\* A sweep that was started right after an accepted init request, with none
\* since, sends the blocks of the reference schedule: every point of every
\* range, in order, the same number of blocks at each, for ever.
Schedule ==
  INSTANCE SweepSchedule WITH
    points <- IF Kept THEN Reference ELSE <<>>,
    at <- IF Kept THEN Place ELSE 0,
    taken <- IF Kept THEN block.n ELSE 0,
    dwell <- IF Kept THEN dwell_blocks ELSE 0
FollowsSchedule == Schedule!Spec

\* What a label promises something of: a target that the radio can be tuned to,
\* with the offset of an accepted request, and no tuning of the host since the
\* plan was tuned to.
Promised == Tunable(Target) /\ ~offset_refused /\ ~disturbed

\* Whenever the loop takes a block, whatever requests came while it computed,
\* before it started or while the start was tuning, the radio is tuned to the
\* frequency the block will be labelled with, plus the offset. The exceptions
\* are those of Promised, and one that the plan cannot see: after an explicit
\* tuning by the host, a tuning to the frequency last applied is skipped.
TunedToLabel ==
  pc = "block" /\ Promised =>
    hw_freq = Automatic(Target) \/ (IsExplicit(hw_freq) /\ applied_freq = Target)

\* Why: what is tuned automatically last is what the radio is tuned to, if it
\* can be and nothing was tuned otherwise since; a running sweep does not leave
\* the configuration behind; the configuration has the target whenever a sweep
\* may start or stop; and a start reads it.
Applied ==
  Tunable(applied_freq) =>
    hw_freq = Automatic(applied_freq) \/ IsExplicit(hw_freq) \/ hw_freq \in {Partial, Mixed}
Configured ==
  pc # "off" /\ ~Starting /\ Tunable(applied_freq) =>
    config_freq = Automatic(applied_freq) \/ IsExplicit(config_freq) \/ hw_freq = Mixed
Chosen(v) == v = Automatic(Target) \/ (IsExplicit(v) /\ applied_freq = Target)
Ready == pc \in {"off", "get", "match", "block"} /\ Promised => Chosen(config_freq)
Read ==
  pc = "match" =>
    /\ Promised => val = config_freq
    /\ Tunable(applied_freq) =>
         \/ config_freq \in {val, Automatic(applied_freq)}
         \/ IsExplicit(config_freq) \/ hw_freq = Mixed
Tuning ==
  /\ hw_freq = Partial => pc = "tune"
  /\ pc = "tune" =>
       /\ Accepts(val) /\ hw_freq # Mixed
       /\ ~disturbed => hw_freq = Partial
       /\ Promised => Chosen(val) /\ applied_freq = Target
       /\ hw_freq = Partial => IsExplicit(val) \/ val = Automatic(applied_freq) \/ ~Tunable(applied_freq)
Collided == hw_freq = Mixed => disturbed

\* What a request or the configuration asks for is no mark of the chips.
Given(v) == v = Automatic(v.hz) \/ IsExplicit(v)

PlanInv ==
  /\ pc \in {"off", "get", "match", "tune", "block", "choose", "jump", "stride", "store", "retune"}
  /\ config_mode = IF pc = "off" THEN "OFF" ELSE "SWEEP"
  /\ disturbed \in BOOLEAN /\ Given(config_freq) /\ Given(val)
  /\ Applied /\ Configured /\ Ready /\ Read /\ Tuning /\ Collided /\ TunedToLabel

\* Such a sweep comes round to its first point again and again, until a request
\* ends or disturbs it.
GoesRound == Kept /\ ~pending ~> (Kept /\ Place = 1) \/ ~Kept \/ pending

=============================================================================
