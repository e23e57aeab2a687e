------------------------------- MODULE Sweep -------------------------------
(***************************************************************************)
(* The transceiver in its OFF and RX_SWEEP modes: sweep_mode() drives the   *)
(* M0 between RX and WAIT through threshold and next_mode, labels each      *)
(* captured block with its frequency, sends it, and retunes while the M0    *)
(* lets the samples of the settling radio pass.                            *)
(*                                                                         *)
(* Frequencies are the indices of the sweep's plan; `content' and `label'   *)
(* say of each half of the bulk buffer at which frequencies its samples     *)
(* were taken and what its metadata claims.                                 *)
(***************************************************************************)
EXTENDS Transceiver

CONSTANTS
  Throwaways,         \* values of THROWAWAY_BUFFERS in the firmware's builds
  DwellBlocks,        \* dwell_blocks: blocks captured at each frequency
  Frequencies         \* length of the sweep's plan

\* A transfer is more than one exchange (512 in the code): the first switch
\* is programmed after the M0 may have made one.
ASSUME SweepAssumption ==
  /\ HostModes \subseteq {"OFF", "SWEEP"}   \* the other modes are those of Streaming
  /\ TransferSize > 1
  /\ Throwaways \subseteq {1, 2}
  /\ DwellBlocks \in Nat \ {0} /\ Frequencies \in Nat \ {0}

VARIABLES
  THROWAWAY_BUFFERS,  \* blocks that pass in WAIT mode, fixed by the build: 2, or 1 on PRALINE
  blocks_queued, phase, sweep_freq,
  tuned,      \* frequency of the radio, or Settling
  content,    \* frequencies at which the samples of each half were taken
  label,      \* frequency in the metadata at the start of each half
  lag         \* exchanges the M4 is behind the last mode switch of the M0

sweepVars == <<blocks_queued, phase, sweep_freq, tuned, content, label, lag>>
vars == <<m0Vars, m4Vars, sweepVars>>   \* what a step may change

Settling == -1
NoLabel == -1
Halves == 0 .. 1
Half(c) == (c % BufferSize) \div TransferSize

Init ==
  /\ TransceiverInit
  /\ THROWAWAY_BUFFERS \in Throwaways
  /\ blocks_queued = 0 /\ phase = 0 /\ sweep_freq = 0 /\ tuned = 0
  /\ content = [h \in Halves |-> {}] /\ label = [h \in Halves |-> NoLabel]
  /\ lag = 0

-----------------------------------------------------------------------------
(* sweep_mode().  Every store to the shared state is a step of its own.     *)

\* The parts of the state that a step of sweep_mode leaves alone.
M0Rest == <<requestVars, active_mode, countVars, statVars, shortfall_limit, sgpio_flag, pc0>>
Radio == <<sweep_freq, tuned>>
Buffers == <<content, label>>

Goto(from, to) == pc4 = from /\ pc4' = to

SetThreshold(t) ==
  threshold' = t /\ UNCHANGED <<M0Rest, next_mode, streaming, hostVars, mode, bulkVars, sweepVars>>

SetNextMode(m) ==
  next_mode' = m /\ UNCHANGED <<M0Rest, threshold, streaming, hostVars, mode, bulkVars, sweepVars>>

FirstThreshold == mode = "SWEEP" /\ Goto("begin", "first_next") /\ SetThreshold(TransferSize)
FirstNext == Goto("first_next", "enable") /\ SetNextMode(WAIT)

Enable ==
  /\ Goto("enable", "loop")
  /\ streaming' = TRUE /\ blocks_queued' = 0 /\ phase' = 0
  /\ UNCHANGED <<M0Rest, threshold, next_mode, hostVars, mode, bulkVars,
                 Radio, Buffers, lag>>

Continue == current /\ Goto("loop", "wait_captured")
Captured == active_mode = WAIT /\ Goto("wait_captured", "resume_threshold")
Resumed == active_mode = RX /\ Goto("wait_resumed", "block_threshold")
\* mutant: the waits for the M0 do not look at the request
AbandonAtLoop == ~current /\ pc4' = "shutdown" /\ pc4 = "loop"

Abandon ==
  /\ ~current /\ pc4' = "shutdown"
  /\ \/ pc4 = "loop"
     \/ pc4 = "wait_captured" /\ active_mode # WAIT
     \/ pc4 = "wait_resumed" /\ active_mode # RX

Test ==
  /\ Continue \/ Captured \/ Resumed \/ Abandon
  /\ UNCHANGED <<m0Vars, hostVars, mode, bulkVars, sweepVars>>

DiscardedOne == TransferSize                     \* mutant: one block, whatever the board
Discarded == THROWAWAY_BUFFERS * TransferSize
ResumeThreshold ==
  Goto("resume_threshold", "resume_next") /\ SetThreshold(Plus(threshold, Discarded))
\* mutant: the M0 is left in WAIT mode
ResumeForgotten == Goto("resume_next", "metadata") /\ SetNextMode(WAIT)
ResumeNext == Goto("resume_next", "metadata") /\ SetNextMode(RX)

WriteMetadata ==
  /\ Goto("metadata", "schedule")
  /\ label' = [label EXCEPT ![phase] = sweep_freq]
  /\ UNCHANGED <<m0Vars, hostVars, mode, bulkVars, Radio, content,
                 blocks_queued, phase, lag>>

NextPhaseUnwrapped == phase + 1                  \* mutant
NextPhase == (phase + 1) % THROWAWAY_BUFFERS
DwellOver == blocks_queued + 1 = DwellBlocks

ScheduleBlock ==
  /\ bulk_in = None /\ bulk_in' = phase * TransferSize
  /\ pc4 = "schedule"
  /\ phase' = NextPhase
  /\ \/ /\ DwellOver
        /\ pc4' = "retune" /\ blocks_queued' = 0
        /\ sweep_freq' = (sweep_freq + 1) % Frequencies /\ tuned' = Settling
     \/ /\ ~DwellOver
        /\ pc4' = "wait_resumed" /\ blocks_queued' = blocks_queued + 1
        /\ UNCHANGED Radio
  /\ UNCHANGED <<m0Vars, hostVars, mode, bulk_out, Buffers, lag>>

\* radio_set_frequency(), with the USB interrupt masked
Retune ==
  /\ Goto("retune", "wait_resumed") /\ tuned' = sweep_freq
  /\ UNCHANGED <<m0Vars, hostVars, mode, bulkVars, sweep_freq, Buffers,
                 blocks_queued, phase, lag>>

\* mutant: `=' for `+='
BlockAssigned == Goto("block_threshold", "block_next") /\ SetThreshold(TransferSize)
BlockThreshold ==
  Goto("block_threshold", "block_next") /\ SetThreshold(Plus(threshold, TransferSize))
BlockNext == Goto("block_next", "loop") /\ SetNextMode(WAIT)

SweepNext ==
  \/ FirstThreshold \/ FirstNext \/ Enable \/ Test
  \/ ResumeThreshold \/ ResumeNext \/ WriteMetadata \/ ScheduleBlock \/ Retune
  \/ BlockThreshold \/ BlockNext

(* sweep_bulk_transfer_complete(): a block is paid for with the ones that    *)
(* are discarded after it.                                                  *)
BlockCreditDouble == 2 * (THROWAWAY_BUFFERS + 1) * TransferSize   \* mutant
BlockCredit == (THROWAWAY_BUFFERS + 1) * TransferSize

SweepBulkComplete ==
  /\ pc4 # "retune" /\ bulk_in # None
  /\ bulk_in' = None /\ m4_count' = Plus(m4_count, BlockCredit)
  /\ UNCHANGED <<requestVars, modeVars, m0_count, statVars, shortfall_limit, sgpio_flag,
                 streaming, pc0, hostVars, mainVars, bulk_out, sweepVars>>

-----------------------------------------------------------------------------
(* The M0 program; a copy puts a sample of the tuned frequency in the       *)
(* buffer, and the first one of a half overwrites its metadata.              *)
Copied ==
  LET h == Half(m0_count)
      first == m0_count % TransferSize = 0
  IN /\ content' = [content EXCEPT ![h] = IF first THEN {tuned} ELSE @ \cup {tuned}]
     /\ label' = [label EXCEPT ![h] = IF first THEN NoLabel ELSE @]

SweepCore ==
  /\ M0Next
  /\ \/ StartCopy /\ Copied
     \/ ~(pc0 = "exchange" /\ pc0' = "copy") /\ UNCHANGED Buffers
  /\ lag' = IF active_mode' # active_mode THEN 0 ELSE lag
  /\ UNCHANGED <<m4Vars, blocks_queued, phase, Radio>>

\* Where the M4 spins for the next mode switch of the M0.
Waiting ==
  \/ active_mode = WAIT /\ pc4 = "wait_resumed"
  \/ active_mode = RX /\ pc4 \in {"loop", "wait_captured"}
Looping == pc4 \in {"loop", "wait_captured", "resume_threshold", "resume_next", "metadata",
                    "schedule", "retune", "wait_resumed", "block_threshold", "block_next"}
Behind == Looping /\ ~Waiting

\* Timing assumption of sweep_mode, steps 3 to 6 of its comment: the M4 has
\* programmed the next switch, and a retune is over, before the blocks to
\* discard (in RX mode: the block) have passed.
Allowance == (IF active_mode = WAIT THEN Discarded ELSE TransferSize) - 1

SweepCodec ==
  /\ SgpioExchange
  /\ Behind => lag < Allowance
  /\ lag' = IF Behind THEN lag + 1 ELSE lag
  /\ UNCHANGED <<m4Vars, blocks_queued, phase, Radio, Buffers>>

MainNext == (TransceiverNext /\ UNCHANGED sweepVars) \/ SweepNext
IsrNext == (HostNext /\ pc4 # "retune" /\ UNCHANGED sweepVars) \/ SweepBulkComplete

Next ==
  /\ MainNext \/ IsrNext \/ SweepCore \/ SweepCodec
  /\ UNCHANGED THROWAWAY_BUFFERS

Spec == Init /\ [][Next]_<<vars, THROWAWAY_BUFFERS>>

FairSpec == Spec /\ WF_vars(MainNext) /\ WF_vars(SweepCore)

-----------------------------------------------------------------------------
\* Every variable has its type; a block is queued from the start of a half.
TypeOK ==
  /\ TransceiverTypeOK
  /\ THROWAWAY_BUFFERS \in Throwaways
  /\ bulk_in \in {None, 0, TransferSize} /\ bulk_out = None
  /\ blocks_queued \in 0 .. DwellBlocks - 1 /\ phase \in Halves
  /\ sweep_freq \in 0 .. Frequencies - 1
  /\ tuned \in 0 .. Frequencies - 1 \cup {Settling}
  /\ content \in [Halves -> SUBSET (0 .. Frequencies - 1 \cup {Settling})]
  /\ label \in [Halves -> 0 .. Frequencies - 1 \cup {NoLabel}]
  /\ lag \in 0 .. Discarded

\* A block on its way to the host was captured whole at one frequency, with
\* the radio settled, and its metadata names that frequency.
BlocksLabelled ==
  bulk_in # None => LET h == Half(bulk_in)
                    IN label[h] # NoLabel /\ content[h] = {label[h]}

\* The M0 never writes into the block the USB controller is reading.
BlocksUntouched == pc0 = "copy" /\ bulk_in # None => Half(m0_count) # Half(bulk_in)

\* The next switch is always ahead of the M0: once the M4 spins for it, the
\* count has not passed the threshold, so it cannot be missed until the
\* counters wrap.
SwitchAhead ==
  Waiting /\ streaming =>
    LET left == Minus(threshold, m0_count)
    IN left \in 1 .. (IF active_mode = WAIT THEN Discarded ELSE TransferSize)

\* Every mode request reaches the main loop, also from the sweep's three
\* spins and with the interrupt masked during a retune.
RequestServed == ~current ~> current

=============================================================================
