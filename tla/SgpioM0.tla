------------------------------ MODULE SgpioM0 ------------------------------
(***************************************************************************)
(* The program of the Cortex-M0 core (src/sgpio_m0.s) and the state block  *)
(* it shares with the Cortex-M4 (struct m0_state).                         *)
(*                                                                         *)
(* One unit of every counter stands for the 32 bytes the M0 exchanges with *)
(* the SGPIO peripheral at once.  A step of this module ends where the M0  *)
(* touches something the M4, its interrupt handler or the peripheral can   *)
(* change; the register arithmetic between two such accesses is one step.  *)
(* The register `count' always equals m0_count while the M0 is in a loop,  *)
(* so one variable stands for both.                                        *)
(***************************************************************************)
EXTENDS Integers

CONSTANTS
  TransferSize,   \* USB_TRANSFER_SIZE: half of the bulk buffer
  CountMod,       \* a counter wraps to 0 here (2^32 bytes in the code)
  MaxShortfalls,  \* bound: shortfalls of one session that are explored
  MaxLength       \* bound: length of one shortfall that is explored

BufferSize == 2 * TransferSize

\* The counters wrap at a whole number of buffers, and are wide enough for
\* the sign of a margin to be that of the true difference.
ASSUME SizeAssumption ==
  /\ TransferSize \in Nat \ {0}
  /\ CountMod \in Nat
  /\ CountMod >= 2 * BufferSize
  /\ CountMod % BufferSize = 0
  /\ MaxShortfalls \in Nat
  /\ MaxLength \in Nat

(* enum m0_mode and the error codes of sgpio_m0.s *)
IDLE == 0
WAIT == 1
RX == 2
TX_START == 3
TX_RUN == 4
M0Modes == IDLE .. TX_RUN

ERROR_NONE == 0
ERROR_RX_TIMEOUT == 1
ERROR_TX_TIMEOUT == 2
ERROR_MISSED_DEADLINE == 3

VARIABLES
  requested_mode, request_flag,   \* m0_state.requested_mode: low half, flag bit
  active_mode, next_mode, threshold,
  m0_count, m4_count,
  num_shortfalls, longest_shortfall, prev_longest,
  shortfall_limit, error,
  shortfall_length,               \* register r10
  sgpio_flag,                     \* slice A bit of SGPIO_STATUS_1
  streaming,                      \* codec stream enabled (SGPIO10 low)
  pc0,                            \* where the M0 program is
  ended                           \* history: shortfalls of this session that data ended

requestVars == <<requested_mode, request_flag>>
modeVars == <<active_mode, next_mode, threshold>>
countVars == <<m0_count, m4_count>>
statVars == <<num_shortfalls, longest_shortfall, prev_longest, error,
              shortfall_length, ended>>
m0Vars == <<requestVars, modeVars, countVars, statVars, shortfall_limit,
            sgpio_flag, streaming, pc0>>

-----------------------------------------------------------------------------
(* 32-bit counter arithmetic *)

Counts == 0 .. CountMod - 1
Plus(a, n) == IF a + n < CountMod THEN a + n ELSE a + n - CountMod
Minus(a, b) == IF a >= b THEN a - b ELSE a - b + CountMod
Negative(x) == 2 * x >= CountMod          \* what bmi tests: the sign bit

-----------------------------------------------------------------------------
M0Init ==
  /\ requested_mode = IDLE /\ request_flag = FALSE
  /\ active_mode = IDLE /\ next_mode = IDLE /\ threshold = 0
  /\ m0_count = 0 /\ m4_count = 0
  /\ num_shortfalls = 0 /\ longest_shortfall = 0 /\ prev_longest = 0
  /\ shortfall_limit = 0 /\ error = ERROR_NONE /\ shortfall_length = 0
  /\ sgpio_flag = FALSE /\ streaming = FALSE
  /\ pc0 = "idle" /\ ended = 0

(* idle: wait for a request, make its mode active, and reset the counts     *)
(* unless the new mode is IDLE.                                             *)
\* mutant: r10 keeps the length of the last session's shortfall
ResetWithoutLength ==
  /\ m0_count' = 0 /\ m4_count' = 0 /\ threshold' = 0
  /\ num_shortfalls' = 0 /\ longest_shortfall' = 0 /\ prev_longest' = 0
  /\ error' = ERROR_NONE /\ ended' = 0 /\ UNCHANGED shortfall_length

ResetCounts ==
  /\ m0_count' = 0 /\ m4_count' = 0 /\ threshold' = 0
  /\ num_shortfalls' = 0 /\ longest_shortfall' = 0 /\ prev_longest' = 0
  /\ error' = ERROR_NONE /\ shortfall_length' = 0 /\ ended' = 0

TakeRequest ==
  /\ pc0 = "idle" /\ request_flag
  /\ active_mode' = requested_mode /\ next_mode' = requested_mode
  /\ \/ requested_mode # IDLE /\ ResetCounts
     \/ requested_mode = IDLE /\ UNCHANGED <<threshold, countVars, statVars>>
  /\ pc0' = "clear_flag"
  /\ UNCHANGED <<requestVars, shortfall_limit, sgpio_flag, streaming>>

ClearFlag ==
  /\ pc0 = "clear_flag" /\ pc0' = "ack" /\ sgpio_flag' = FALSE
  /\ UNCHANGED <<requestVars, modeVars, countVars, statVars, shortfall_limit, streaming>>

\* Where the M0 goes after entering a mode: the idle loop, or the wait for
\* the next exchange in the mode's own loop.
Dispatch(mode) == IF mode = IDLE THEN "idle" ELSE "await"

AckRequest ==
  /\ pc0 = "ack" /\ pc0' = Dispatch(active_mode)
  /\ request_flag' = FALSE /\ requested_mode' = active_mode
  /\ UNCHANGED <<modeVars, countVars, statVars, shortfall_limit, sgpio_flag, streaming>>

(* await_sgpio: a flag already set on the first look is a missed deadline;  *)
(* otherwise poll until it is set, and clear it.                            *)
\* mutant: the M0 stops without recording why
MissedSilently ==
  /\ pc0 = "await" /\ sgpio_flag
  /\ active_mode' = IDLE /\ pc0' = "idle"
  /\ UNCHANGED <<requestVars, next_mode, threshold, countVars, statVars,
                 shortfall_limit, sgpio_flag, streaming>>

MissedDeadline ==
  /\ pc0 = "await" /\ sgpio_flag
  /\ error' = ERROR_MISSED_DEADLINE /\ active_mode' = IDLE /\ pc0' = "idle"
  /\ UNCHANGED <<requestVars, next_mode, threshold, countVars, num_shortfalls,
                 longest_shortfall, prev_longest, shortfall_length, ended,
                 shortfall_limit, sgpio_flag, streaming>>

InTime ==
  /\ pc0 = "await" /\ ~sgpio_flag /\ pc0' = "int_wait"
  /\ UNCHANGED <<requestVars, modeVars, countVars, statVars, shortfall_limit,
                 sgpio_flag, streaming>>

Exchanged ==
  /\ pc0 = "int_wait" /\ sgpio_flag
  /\ sgpio_flag' = FALSE /\ pc0' = "exchange"
  /\ UNCHANGED <<requestVars, modeVars, countVars, statVars, shortfall_limit, streaming>>

(* on_request: leave for the idle loop.  The RX and TX loops go through     *)
(* checked_rollback, which forgets a shortfall that is going on.            *)
NeverRolledBack == FALSE     \* mutant: on_request without checked_rollback
RolledBack == active_mode # WAIT /\ shortfall_length # 0

OnRequest ==
  /\ pc0 = "exchange" /\ request_flag /\ pc0' = "idle"
  /\ num_shortfalls' = IF RolledBack THEN num_shortfalls - 1 ELSE num_shortfalls
  /\ longest_shortfall' = IF RolledBack THEN prev_longest ELSE longest_shortfall
  /\ UNCHANGED <<requestVars, modeVars, countVars, prev_longest, error, shortfall_length,
                 ended, shortfall_limit, sgpio_flag, streaming>>

(* The buffer margins, as the M0 computes them in 32 bits. *)
DataOffByOne == ~Negative(Minus(m4_count, m0_count))                      \* mutant
Space == ~Negative(Minus(Plus(m4_count, BufferSize - 1), m0_count))
Data == ~Negative(Minus(Minus(m4_count, m0_count), 1))
Blocked ==
  \/ active_mode = RX /\ ~Space
  \/ active_mode \in {TX_START, TX_RUN} /\ ~Data

(* The M0 has started to copy 32 bytes between the SGPIO registers and the  *)
(* buffer, at the offset m0_count points to.                                *)
StartCopy ==
  /\ pc0 = "exchange" /\ ~request_flag /\ active_mode # WAIT /\ ~Blocked
  /\ active_mode' = IF active_mode = RX THEN RX ELSE TX_RUN
  /\ pc0' = "copy"
  /\ UNCHANGED <<requestVars, next_mode, threshold, countVars, statVars,
                 shortfall_limit, sgpio_flag, streaming>>

(* update_counts and jump_next_mode: at the end of a copy, and at once in   *)
(* WAIT mode, which only counts.                                            *)
AtThreshold == Plus(m0_count, 1) = threshold

EndCopy ==
  /\ \/ pc0 = "copy"
     \/ pc0 = "exchange" /\ ~request_flag /\ active_mode = WAIT
  /\ m0_count' = Plus(m0_count, 1)
  /\ shortfall_length' = 0
  /\ ended' = IF shortfall_length > 0 THEN ended + 1 ELSE ended
  /\ active_mode' = IF AtThreshold THEN next_mode ELSE active_mode
  /\ pc0' = Dispatch(active_mode')
  /\ UNCHANGED <<requestVars, next_mode, threshold, m4_count, num_shortfalls,
                 longest_shortfall, prev_longest, error, shortfall_limit,
                 sgpio_flag, streaming>>

(* tx_zeros in TX_START: nothing to send yet, and not a shortfall. *)
SendZeros ==
  /\ pc0 = "exchange" /\ ~request_flag /\ active_mode = TX_START /\ ~Data
  /\ pc0' = "await"
  /\ UNCHANGED <<requestVars, modeVars, countVars, statVars, shortfall_limit,
                 sgpio_flag, streaming>>

(* handle_shortfall: statistics, and the timeout that ends the mode. *)
NewLength == shortfall_length + 1
\* mutant: the limit itself is still tolerated
TimedOutLate ==
  /\ NewLength >= longest_shortfall
  /\ shortfall_limit # 0 /\ NewLength > shortfall_limit

TimedOut ==
  /\ NewLength >= longest_shortfall
  /\ shortfall_limit # 0 /\ NewLength >= shortfall_limit

Shortfall ==
  /\ pc0 = "exchange" /\ ~request_flag /\ Blocked /\ active_mode # TX_START
  /\ num_shortfalls' = IF shortfall_length = 0 THEN num_shortfalls + 1 ELSE num_shortfalls
  /\ prev_longest' = IF shortfall_length = 0 THEN longest_shortfall ELSE prev_longest
  /\ shortfall_length' = NewLength
  /\ longest_shortfall' = IF NewLength < longest_shortfall THEN longest_shortfall
                                                           ELSE NewLength
  /\ \/ /\ TimedOut
        /\ error' = active_mode \div 2
        /\ active_mode' = IDLE /\ pc0' = "idle"
     \/ /\ ~TimedOut
        /\ pc0' = "await" /\ UNCHANGED <<error, active_mode>>
  /\ UNCHANGED <<requestVars, next_mode, threshold, countVars, ended,
                 shortfall_limit, sgpio_flag, streaming>>

M0Next ==
  \/ TakeRequest \/ ClearFlag \/ AckRequest
  \/ MissedDeadline \/ InTime \/ Exchanged
  \/ OnRequest \/ StartCopy \/ EndCopy \/ SendZeros \/ Shortfall

(* The peripheral: while the codec stream runs it may finish an exchange at *)
(* any time, whether or not the M0 has dealt with the last one.  Exchanges   *)
(* that would lead beyond the explored shortfalls are left out.              *)
WithinBounds ==
  /\ shortfall_length < MaxLength
  /\ shortfall_length > 0 \/ num_shortfalls < MaxShortfalls

SgpioExchange ==
  /\ streaming /\ ~sgpio_flag
  /\ active_mode = IDLE \/ WithinBounds
  /\ sgpio_flag' = TRUE
  /\ UNCHANGED <<requestVars, modeVars, countVars, statVars, shortfall_limit,
                 streaming, pc0>>

-----------------------------------------------------------------------------
M0DataOK ==
  /\ requested_mode \in M0Modes /\ active_mode \in M0Modes /\ next_mode \in M0Modes
  /\ threshold \in Counts /\ m0_count \in Counts /\ m4_count \in Counts
  /\ num_shortfalls \in Int /\ longest_shortfall \in Nat /\ prev_longest \in Nat
  /\ shortfall_limit \in Nat /\ shortfall_length \in Nat /\ ended \in Nat
  /\ error \in ERROR_NONE .. ERROR_MISSED_DEADLINE
  /\ pc0 \in {"idle", "clear_flag", "ack", "await", "int_wait", "exchange", "copy"}

M0TypeOK ==
  /\ M0DataOK
  /\ request_flag \in BOOLEAN /\ sgpio_flag \in BOOLEAN /\ streaming \in BOOLEAN

=============================================================================
