------------------------------ MODULE SweepInv ------------------------------
(***************************************************************************)
(* The inductive invariant of Sweep.  Its conjuncts follow a session: the   *)
(* handshake that opens it, the first block that the M4 prepares, the round  *)
(* from one block to the next, in which the M0 is never further than the    *)
(* exchanges the M4 is behind, and the block that is queued, with which the  *)
(* M0 does not go on capturing.                                             *)
(***************************************************************************)
EXTENDS Sweep

Idling == pc4 \in {"main", "off", "startup"}
Asking == pc4 \in {"set_flag", "wait_ack"}
Starting == pc4 \in {"set_limit", "begin", "first_next", "enable"}
Leaving == pc4 \in {"shutdown", "flush"}
InLoop == pc0 \in {"await", "int_wait", "exchange", "copy"}

\* m0_set_mode(): a request stands only while the M4 waits for it, the M0
\* takes it from its idle loop, and outside of a session the M0 is idle.
Handshake ==
  /\ Idling \/ Asking \/ Starting \/ Looping \/ Leaving \/ pc4 = "radio_off"
  /\ pc4 = "startup" => mode = "SWEEP"
  /\ request_flag => Asking
  /\ pc0 \in {"clear_flag", "ack"} =>
       request_flag /\ active_mode = requested_mode /\ next_mode = requested_mode
  /\ Idling => pc0 = "idle"
  /\ Asking => requested_mode \in {IDLE, RX}
  /\ Asking /\ requested_mode = IDLE /\ ~request_flag => pc0 = "idle"
  /\ Asking /\ requested_mode # IDLE /\ request_flag => ~InLoop
  /\ streaming => Looping \/ pc4 = "shutdown"

\* The M4 waits, and the M0 has taken the request for a new session.
Taken ==
  Asking /\ requested_mode # IDLE /\ (request_flag => pc0 \in {"clear_flag", "ack"})
Early == Taken \/ Starting

\* The M0 keeps to the two modes of a sweep, or it has stopped.
Modes ==
  /\ InLoop => active_mode \in {RX, WAIT} /\ next_mode \in {RX, WAIT}
  /\ pc0 = "copy" => active_mode = RX
  /\ (Taken /\ ~request_flag) \/ Starting \/ Looping \/ Leaving =>
       InLoop \/ (pc0 = "idle" /\ active_mode = IDLE)

\* The radio is at the frequency that the next block will be labelled with.
Tuned ==
  /\ tuned = IF pc4 = "retune" THEN Settling ELSE sweep_freq
  /\ pc4 = "retune" => active_mode # RX

\* Until the codec streams, the flag that m0_set_mode() sets lets the M0
\* complete at most one exchange, so that it is still in the first block.
Late ==
  (IF pc4 = "set_flag" THEN 1 ELSE 0)
    + (IF sgpio_flag /\ pc0 # "clear_flag" THEN 1 ELSE 0)
    + (IF pc0 \in {"exchange", "copy"} THEN 1 ELSE 0)

Opening ==
  Early =>
    /\ m4_count = 0 /\ m0_count + Late <= 1
    /\ threshold = IF pc4 \in {"first_next", "enable"} THEN TransferSize ELSE 0
    /\ next_mode = IF pc4 = "enable" THEN WAIT ELSE RX
    /\ InLoop => active_mode = RX
    /\ m0_count # 0 \/ pc0 = "copy" => content[0] = {sweep_freq}

\* The count at which the next block to be queued begins.
Base ==
  CASE pc4 \in {"loop", "wait_captured", "resume_threshold", "block_next"} ->
         Minus(threshold, TransferSize)
    [] pc4 \in {"resume_next", "metadata", "schedule"} -> Minus(threshold, BlockCredit)
    [] OTHER -> threshold

\* Where the M0 is since it last switched: it has counted up from the
\* threshold, or the threshold for its next switch is set and still ahead.
Unset == pc4 \in IF active_mode = WAIT THEN {"loop", "wait_captured", "resume_threshold"}
                                       ELSE {"wait_resumed", "block_threshold"}
Stretch == IF active_mode = WAIT THEN Discarded ELSE TransferSize
Passed == IF Unset THEN Minus(m0_count, threshold) ELSE Stretch - Minus(threshold, m0_count)
InFlight ==
  IF (sgpio_flag /\ pc0 = "int_wait") \/ pc0 \in {"exchange", "copy"} THEN 1 ELSE 0

\* The M0 has not reached the end of the stretch, and not got further than
\* the M4 is behind.
Position ==
  Looping /\ active_mode # IDLE =>
    /\ active_mode = WAIT => pc4 \notin {"block_threshold", "block_next"}
    /\ active_mode = RX => pc4 \in {"wait_resumed", "block_threshold", "block_next",
                                    "loop", "wait_captured"}
    /\ IF Unset THEN Minus(m0_count, threshold) < Stretch
                ELSE Minus(threshold, m0_count) \in 1 .. Stretch
    /\ Behind => Passed + InFlight <= lag /\ lag < Stretch

\* A captured block is whole, and the last one has been read.
Whole == m4_count = Base /\ content[phase] = {sweep_freq}
Round ==
  Looping =>
    /\ next_mode = IF pc4 \in {"loop", "wait_captured", "resume_threshold", "resume_next"}
                   THEN WAIT ELSE RX
    /\ Base % BufferSize = phase * TransferSize /\ phase < THROWAWAY_BUFFERS
    /\ m4_count = Base \/ Plus(m4_count, BlockCredit) = Base
    /\ bulk_in # None => Plus(m4_count, BlockCredit) = Base
    /\ pc4 \in {"resume_threshold", "resume_next", "metadata", "schedule"} => Whole
    /\ pc4 = "schedule" => label[phase] = sweep_freq
    /\ pc4 \in {"loop", "wait_captured"} /\ active_mode = WAIT => Whole
    /\ active_mode = RX /\ (m0_count # Base \/ pc0 = "copy") => Whole

\* With a block queued the M0 waits, and then is out of space.
Held ==
  /\ Looping \/ Leaving
  /\ pc0 # "copy"
  /\ active_mode = RX => m0_count = Plus(m4_count, BlockCredit)
  /\ active_mode = WAIT => /\ next_mode = RX /\ threshold = Plus(m4_count, BlockCredit)
                           /\ Minus(threshold, m0_count) \in 1 .. Discarded
Queued == bulk_in # None => Held

LoopInv ==
  /\ TypeOK /\ Handshake /\ Modes /\ Tuned /\ Opening /\ Position /\ Round /\ Queued
  /\ BlocksLabelled /\ SwitchAhead

=============================================================================
