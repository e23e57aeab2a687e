----------------------------- MODULE Streaming -----------------------------
(***************************************************************************)
(* The transceiver in its OFF, RX and TX modes: rx_mode(), tx_mode() and    *)
(* the completion of their bulk transfers, composed with the M0 program     *)
(* and the shared startup and shutdown.                                    *)
(***************************************************************************)
EXTENDS Transceiver

CONSTANT OutSizes   \* how much an OUT transfer may bring, in units of 32 bytes

ASSUME OutAssumption == OutSizes \subseteq 0 .. TransferSize

VARIABLES
  usb_count,   \* stream position of the next transfer to schedule
  started      \* tx_mode: the codec stream has been enabled

vars == <<m0Vars, m4Vars, usb_count, started>>
loopVars == <<usb_count, started>>

Init == TransceiverInit /\ usb_count = 0 /\ started = FALSE

-----------------------------------------------------------------------------
(* usb_transfer_schedule_block(): the queue holds one transfer, so the      *)
(* caller spins while the last one is still queued.                        *)
ScheduleIn == bulk_in = None /\ bulk_in' = usb_count /\ UNCHANGED bulk_out
ScheduleOut == bulk_out = None /\ bulk_out' = usb_count /\ UNCHANGED bulk_in
Scheduled == usb_count' = Plus(usb_count, TransferSize)

(* transceiver_bulk_transfer_complete(), from the USB interrupt handler *)
BulkInComplete ==
  /\ bulk_in # None
  /\ bulk_in' = None /\ m4_count' = Plus(m4_count, TransferSize)
  /\ UNCHANGED <<requestVars, modeVars, m0_count, statVars, shortfall_limit, sgpio_flag,
                 streaming, pc0, hostVars, mainVars, bulk_out, loopVars>>

BulkOutComplete(n) ==
  /\ bulk_out # None
  /\ bulk_out' = None /\ m4_count' = Plus(m4_count, n)
  /\ UNCHANGED <<requestVars, modeVars, m0_count, statVars, shortfall_limit, sgpio_flag,
                 streaming, pc0, hostVars, mainVars, bulk_in, loopVars>>

(* baseband_streaming_enable() *)
EnableStreaming ==
  /\ streaming' = TRUE
  /\ UNCHANGED <<requestVars, modeVars, countVars, statVars, shortfall_limit,
                 sgpio_flag, pc0, hostVars, mode, bulkVars>>

(* rx_mode() *)
RxBegin ==
  /\ pc4 = "begin" /\ mode = "RX"
  /\ EnableStreaming
  /\ usb_count' = 0 /\ pc4' = "rx_loop" /\ UNCHANGED started

CapturedEarly == Minus(m0_count, usb_count) >= TransferSize - 1   \* mutant
CapturedUnwrapped == m0_count - usb_count >= TransferSize         \* mutant: signed
Captured == Minus(m0_count, usb_count) >= TransferSize

RxReady ==
  /\ pc4 = "rx_loop" /\ current /\ Captured
  /\ pc4' = "rx_schedule"
  /\ UNCHANGED <<m0Vars, hostVars, mode, bulkVars, loopVars>>

RxSchedule ==
  /\ pc4 = "rx_schedule" /\ ScheduleIn /\ Scheduled
  /\ pc4' = "rx_loop"
  /\ UNCHANGED <<m0Vars, hostVars, mode, started>>

(* tx_mode() *)
TxBegin ==
  /\ pc4 = "begin" /\ mode = "TX"
  /\ bulk_out = None /\ bulk_out' = 0 /\ usb_count' = TransferSize
  /\ started' = FALSE /\ pc4' = "tx_loop"
  /\ UNCHANGED <<m0Vars, hostVars, mode, bulk_in>>

TxFull == ~started /\ m4_count = BufferSize

TxStart ==
  /\ pc4 = "tx_loop" /\ current /\ TxFull
  /\ EnableStreaming
  /\ started' = TRUE /\ UNCHANGED <<pc4, usb_count>>

DrainedEarly == Minus(usb_count, m0_count) <= TransferSize + 1    \* mutant
DrainedStrictly == Minus(usb_count, m0_count) < TransferSize      \* mutant
Drained == Minus(usb_count, m0_count) <= TransferSize

TxReady ==
  /\ pc4 = "tx_loop" /\ current /\ ~TxFull /\ Drained
  /\ pc4' = "tx_schedule"
  /\ UNCHANGED <<m0Vars, hostVars, mode, bulkVars, loopVars>>

TxSchedule ==
  /\ pc4 = "tx_schedule" /\ ScheduleOut /\ Scheduled
  /\ pc4' = "tx_loop"
  /\ UNCHANGED <<m0Vars, hostVars, mode, started>>

(* The host asked for another mode: leave the loop. *)
LeaveLoop ==
  /\ pc4 \in {"rx_loop", "tx_loop"} /\ ~current
  /\ pc4' = "shutdown"
  /\ UNCHANGED <<m0Vars, hostVars, mode, bulkVars, loopVars>>

-----------------------------------------------------------------------------
ModeNext ==
  RxBegin \/ RxReady \/ RxSchedule \/ TxBegin \/ TxStart \/ TxReady \/ TxSchedule \/ LeaveLoop

MainNext == (TransceiverNext /\ UNCHANGED loopVars) \/ ModeNext
IsrNext == (HostNext /\ UNCHANGED loopVars)
             \/ BulkInComplete \/ \E n \in OutSizes : BulkOutComplete(n)
CoreNext == M0Next /\ UNCHANGED <<m4Vars, loopVars>>
CodecNext == SgpioExchange /\ UNCHANGED <<m4Vars, loopVars>>

Next == MainNext \/ IsrNext \/ CoreNext \/ CodecNext

Spec == Init /\ [][Next]_vars

\* Both cores run all the time.
FairSpec == Spec /\ WF_vars(MainNext) /\ WF_vars(CoreNext)

-----------------------------------------------------------------------------
(* Safety *)

LoopDataOK ==
  /\ pc4 \in {"main", "off", "startup", "set_flag", "wait_ack", "set_limit", "begin",
              "rx_loop", "rx_schedule", "tx_loop", "tx_schedule",
              "shutdown", "flush", "radio_off"}
  /\ usb_count \in Counts

\* Every variable has its type: counters stay within their width.
TypeOK == TransceiverTypeOK /\ LoopDataOK /\ started \in BOOLEAN

Running == pc4 \in {"rx_loop", "rx_schedule", "tx_loop", "tx_schedule"}

\* The M0 and the USB controller never touch the same part of the bulk
\* buffer: the 32 bytes the M0 copies lie outside every queued transfer.
\* (The margins of sgpio_m0.s against the counts of rx_mode and tx_mode.)
Offset(c) == c % BufferSize
Region(p) == {Offset(p + i) : i \in 0 .. TransferSize - 1}

BufferDisjoint ==
  pc0 = "copy" => \A p \in {bulk_in, bulk_out} \ {None} : Offset(m0_count) \notin Region(p)

\* While no request is pending, the transfer that is queued carries the part
\* of the stream that follows the last one completed: nothing is sent twice
\* or skipped, and an IN transfer holds samples captured in this session.
TransfersInOrder ==
  current /\ Running =>
    /\ bulk_in # None => bulk_in = m4_count /\ Minus(m0_count, bulk_in) >= TransferSize
    /\ bulk_out # None => bulk_out = m4_count

\* When the M0 resets both counts for a new mode, no transfer is queued whose
\* completion could add to m4_count: the comment in the idle loop, that all
\* parts of the state may be written, also holds against the USB interrupt.
ResetIsQuiet ==
  pc0 = "idle" /\ request_flag /\ requested_mode # IDLE => bulk_in = None /\ bulk_out = None

\* While the M4 streams, an idle M0 has left an error code that says why.
StopsAreExplained == Running /\ active_mode = IDLE => error # ERROR_NONE

\* A timeout is raised exactly when the shortfall going on has reached the
\* limit of the running mode, and names the direction of the stream.
TimeoutExact ==
  Running =>
    /\ error \in {ERROR_RX_TIMEOUT, ERROR_TX_TIMEOUT}
         <=> shortfall_limit # 0 /\ shortfall_length >= shortfall_limit
    /\ error = ERROR_RX_TIMEOUT => mode = "RX"
    /\ error = ERROR_TX_TIMEOUT => mode = "TX"

\* The statistics count the shortfalls that data ended and the one that is
\* going on or stopped the M0, never one that a mode change cut short; and
\* the longest length is the larger of the one before and the current one.
InLoop == pc0 \in {"await", "int_wait", "exchange", "copy"}
Counted == shortfall_length > 0 /\ (InLoop \/ error # ERROR_NONE)
StatsExact ==
  /\ num_shortfalls = ended + (IF Counted THEN 1 ELSE 0)
  /\ Counted => longest_shortfall >= prev_longest /\ longest_shortfall >= shortfall_length
               /\ longest_shortfall \in {prev_longest, shortfall_length}
  /\ longest_shortfall = 0 <=> num_shortfalls = 0

(* A claim of the repository that the code does not keep *)

\* sgpio_m0.s: an underrun of a running transmission is a shortfall, and only
\* TX_START mode is exempt.  Once the codec streams, an empty buffer finds the
\* M0 past TX_START.
UnderrunIsCounted ==
  started /\ Running /\ streaming /\ m0_count = m4_count => active_mode # TX_START

-----------------------------------------------------------------------------
(* Liveness *)

\* Every mode request reaches the main loop, whatever the host does with the
\* bulk endpoints: no spin of the M4 outlasts it.
RequestServed == ~current ~> current

\* A reception delivers: a whole block that was captured and is not queued
\* yet gets queued, also when the counters wrap in it and after the M0 has
\* stopped with an error, unless the host asks for another mode.
RxDelivers ==
  (mode = "RX" /\ Running /\ bulk_in = None /\ Minus(m0_count, m4_count) >= TransferSize)
    ~> (bulk_in # None \/ ~current)

=============================================================================
