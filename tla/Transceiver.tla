---------------------------- MODULE Transceiver ----------------------------
(***************************************************************************)
(* The Cortex-M4 side shared by all streaming modes: the main loop of      *)
(* main.c, request_transceiver_mode() and the transfer limits set by the   *)
(* USB interrupt handler, transceiver_startup() and transceiver_shutdown()  *)
(* with the m0_set_mode() handshake, and the two bulk endpoints as the      *)
(* modes see them: a queue of one transfer each.                           *)
(*                                                                         *)
(* The interrupt handler preempts the main loop between any two of its      *)
(* steps; the M0 runs in parallel with both.                               *)
(*                                                                         *)
(* The sequence number of a request is only ever compared with the one the *)
(* running mode was started with, so `current' stands for both: it holds   *)
(* while no request has been made since the main loop read the last one.   *)
(***************************************************************************)
EXTENDS SgpioM0

CONSTANTS
  HostModes,    \* the transceiver modes the host asks for
  Limits        \* the shortfall limits the host sets; 0 is none

ASSUME HostAssumption ==
  /\ HostModes \subseteq {"OFF", "RX", "TX", "SWEEP"}
  /\ Limits \subseteq Nat

None == -1      \* no transfer is queued

VARIABLES
  host_mode,          \* transceiver_request.mode
  current,            \* transceiver_request.seq = seq
  mode,               \* the mode the main loop runs
  pc4,                \* where the main loop is
  rx_limit, tx_limit, \* _rx_overrun_limit, _tx_underrun_limit
  bulk_in, bulk_out   \* the queued transfer: its position in the stream, or None

hostVars == <<host_mode, current, rx_limit, tx_limit>>
mainVars == <<mode, pc4>>
bulkVars == <<bulk_in, bulk_out>>
m4Vars == <<hostVars, mainVars, bulkVars>>

-----------------------------------------------------------------------------
TransceiverInit ==
  /\ M0Init
  /\ host_mode = "OFF" /\ current = FALSE /\ mode = "OFF" /\ pc4 = "main"
  /\ rx_limit = 0 /\ tx_limit = 0
  /\ bulk_in = None /\ bulk_out = None

(* The USB interrupt handler *)

FlushBulk == bulk_in' = None /\ bulk_out' = None

\* mutant: a request leaves the queued transfers alone
RequestWithoutFlush(m) ==
  /\ host_mode' = m /\ current' = FALSE
  /\ UNCHANGED <<m0Vars, mainVars, rx_limit, tx_limit, bulkVars>>

RequestMode(m) ==
  /\ FlushBulk
  /\ host_mode' = m /\ current' = FALSE
  /\ UNCHANGED <<m0Vars, mainVars, rx_limit, tx_limit>>

SetOverrunLimit(v) ==
  /\ rx_limit' = v
  /\ UNCHANGED <<m0Vars, host_mode, current, tx_limit, mainVars, bulkVars>>

SetUnderrunLimit(v) ==
  /\ tx_limit' = v
  /\ UNCHANGED <<m0Vars, host_mode, current, rx_limit, mainVars, bulkVars>>

HostNext ==
  \/ \E m \in HostModes : RequestMode(m)
  \/ \E v \in Limits : SetOverrunLimit(v) \/ SetUnderrunLimit(v)

(* The main loop: read the request, with the interrupt masked. *)
ReadRequest ==
  /\ pc4 = "main"
  /\ mode' = host_mode /\ current' = TRUE
  /\ pc4' = IF host_mode = "OFF" THEN "off" ELSE "startup"
  /\ UNCHANGED <<m0Vars, host_mode, rx_limit, tx_limit, bulkVars>>

LeaveOff ==
  /\ pc4 = "off" /\ ~current /\ pc4' = "main"
  /\ UNCHANGED <<m0Vars, hostVars, mode, bulkVars>>

(* m0_set_mode(): write the request, set the SGPIO flag that may wake the   *)
(* M0, and spin until the M0 has cleared the request flag.                  *)
WriteRequest(m) ==
  /\ requested_mode' = m /\ request_flag' = TRUE
  /\ pc4' = "set_flag"
  /\ UNCHANGED <<modeVars, countVars, statVars, shortfall_limit, sgpio_flag,
                 streaming, pc0, hostVars, mode, bulkVars>>

Startup ==
  /\ pc4 = "startup"
  /\ WriteRequest(IF mode = "TX" THEN TX_START ELSE RX)

SetFlag ==
  /\ pc4 = "set_flag" /\ pc4' = "wait_ack" /\ sgpio_flag' = TRUE
  /\ UNCHANGED <<requestVars, modeVars, countVars, statVars, shortfall_limit,
                 streaming, pc0, hostVars, mode, bulkVars>>

WaitAck ==
  /\ pc4 = "wait_ack" /\ ~request_flag
  /\ pc4' = IF requested_mode = IDLE THEN "main" ELSE "set_limit"
  /\ UNCHANGED <<m0Vars, hostVars, mode, bulkVars>>

SetLimit ==
  /\ pc4 = "set_limit" /\ pc4' = "begin"
  /\ shortfall_limit' = IF mode = "TX" THEN tx_limit ELSE rx_limit
  /\ UNCHANGED <<requestVars, modeVars, countVars, statVars, sgpio_flag, streaming,
                 pc0, hostVars, mode, bulkVars>>

(* transceiver_shutdown(): a mode enters it at "shutdown". *)
DisableStreaming ==
  /\ pc4 = "shutdown" /\ pc4' = "flush" /\ streaming' = FALSE
  /\ UNCHANGED <<requestVars, modeVars, countVars, statVars, shortfall_limit,
                 sgpio_flag, pc0, hostVars, mode, bulkVars>>

\* mutant: what the mode queued after the request stays queued
ShutdownWithoutFlush ==
  /\ pc4 = "flush" /\ pc4' = "radio_off"
  /\ UNCHANGED <<m0Vars, hostVars, mode, bulkVars>>

ShutdownFlush ==
  /\ pc4 = "flush" /\ pc4' = "radio_off" /\ FlushBulk
  /\ UNCHANGED <<m0Vars, hostVars, mode>>

\* radio_switch_mode() moves the RF path to its off state register by
\* register, far longer than the M0 needs to finish with the last exchange:
\* by its end the M0 is back in a polling loop.
M0Settled == pc0 = "idle" \/ (pc0 = "int_wait" /\ ~sgpio_flag)

RadioOff ==
  /\ pc4 = "radio_off" /\ M0Settled
  /\ WriteRequest(IDLE)

TransceiverNext ==
  \/ ReadRequest \/ LeaveOff \/ Startup \/ SetFlag \/ WaitAck \/ SetLimit
  \/ DisableStreaming \/ ShutdownFlush \/ RadioOff

-----------------------------------------------------------------------------
HostDataOK ==
  /\ host_mode \in HostModes \cup {"OFF"} /\ mode \in HostModes \cup {"OFF"}
  /\ rx_limit \in Nat /\ tx_limit \in Nat
  /\ bulk_in \in Counts \cup {None} /\ bulk_out \in Counts \cup {None}

TransceiverTypeOK == M0TypeOK /\ HostDataOK /\ current \in BOOLEAN

=============================================================================
