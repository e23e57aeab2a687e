---------------------------- MODULE StreamingInv ----------------------------
(***************************************************************************)
(* The inductive invariant of Streaming.  Its conjuncts follow the stages   *)
(* of a session: the handshake that opens it, the queue that is empty until *)
(* it is open, the modes the M0 can be in while it runs, the order of the   *)
(* three stream positions on either side of the buffer, the statistics, and *)
(* the timeout that must not come from before the session.                 *)
(***************************************************************************)
EXTENDS Streaming

StartMode == IF mode = "TX" THEN TX_START ELSE RX

Idling == pc4 \in {"main", "off", "startup"}
Asking == pc4 \in {"set_flag", "wait_ack"}
Starting == pc4 \in {"set_limit", "begin"}
Stopping == pc4 \in {"shutdown", "flush"}
Streams == Running \/ Stopping

\* m0_set_mode(): a request stands only while the M4 waits for it, the M0
\* takes it from its idle loop, and outside of a session the M0 is idle.
Handshake ==
  /\ request_flag => Asking
  /\ pc0 \in {"clear_flag", "ack"} =>
       request_flag /\ active_mode = requested_mode /\ next_mode = requested_mode
  /\ Idling => pc0 = "idle"
  /\ Asking => requested_mode \in {IDLE, StartMode}
  /\ Asking /\ requested_mode = IDLE /\ ~request_flag => pc0 = "idle"
  /\ Asking /\ requested_mode # IDLE /\ request_flag => ~InLoop
  /\ Starting \/ Streams \/ pc4 = "radio_off" => requested_mode = StartMode

\* The M4 waits, and the M0 has taken the request for a new session.
Taken ==
  Asking /\ requested_mode # IDLE /\ (request_flag => pc0 \in {"clear_flag", "ack"})

\* A transfer is queued only by a running mode, and only in its direction.
Queues ==
  /\ ~Streams => bulk_in = None /\ bulk_out = None
  /\ mode = "TX" => bulk_in = None
  /\ mode # "TX" => bulk_out = None
  /\ pc4 \in {"rx_loop", "rx_schedule"} => mode = "RX"
  /\ pc4 \in {"tx_loop", "tx_schedule"} => mode = "TX"

\* Without a threshold the M0 keeps to the direction of the session, and an
\* M0 that has stopped in it has recorded an error.
Modes ==
  /\ threshold = 0
  /\ InLoop => /\ active_mode \in IF mode = "TX" THEN {TX_START, TX_RUN} ELSE {RX}
               /\ next_mode = StartMode
               /\ error = ERROR_NONE
  /\ pc0 \in {"clear_flag", "ack"} /\ active_mode # IDLE => error = ERROR_NONE
  /\ pc0 = "copy" => active_mode # TX_START
  /\ (Taken /\ ~request_flag) \/ Starting \/ Streams => InLoop \/ error # ERROR_NONE

\* Reception: what the host has taken, what is queued and what is captured
\* lie in this order, within one buffer.
Early == Taken \/ Starting

RxOrder ==
  mode # "TX" =>
    /\ Early => m4_count = 0
    /\ Early \/ Streams => /\ Minus(m0_count, m4_count) <= BufferSize
                           /\ pc0 = "copy" => Minus(m0_count, m4_count) < BufferSize
    /\ Streams => Minus(usb_count, m4_count) + Minus(m0_count, usb_count)
                    = Minus(m0_count, m4_count)
    /\ pc4 = "rx_schedule" => Minus(m0_count, usb_count) >= TransferSize
    /\ bulk_in # None =>
         /\ usb_count = Plus(bulk_in, TransferSize)
         /\ Minus(bulk_in, m4_count) + TransferSize = Minus(usb_count, m4_count)

\* Transmission: what is sent, what has arrived and what is queued lie in
\* this order, within one buffer.
TxOrder ==
  mode = "TX" =>
    /\ Early => m4_count = 0 /\ m0_count = 0 /\ pc0 # "copy"
    /\ Streams => /\ Minus(m4_count, m0_count) + Minus(usb_count, m4_count)
                       = Minus(usb_count, m0_count)
                  /\ Minus(usb_count, m0_count) <= BufferSize
                  /\ pc0 = "copy" => m4_count # m0_count
    /\ pc4 = "tx_schedule" => Minus(usb_count, m0_count) <= TransferSize
    /\ bulk_out # None =>
         /\ usb_count = Plus(bulk_out, TransferSize)
         /\ Minus(bulk_out, m4_count) + TransferSize = Minus(usb_count, m4_count)

\* What the rollback and the count of shortfalls rest on.
Stats ==
  /\ StatsExact
  /\ Counted => (prev_longest = 0 <=> num_shortfalls = 1)
  /\ pc0 \in {"clear_flag", "ack"} /\ active_mode # IDLE => shortfall_length = 0

\* Until the codec streams, the flag that m0_set_mode() sets lets the M0
\* complete at most one exchange, so no shortfall and no timeout comes before
\* the limit of the session is in place; afterwards a length that reaches
\* the limit stops the M0.
Late ==
  (IF pc4 = "set_flag" THEN 1 ELSE 0)
    + (IF sgpio_flag /\ pc0 # "clear_flag" THEN 1 ELSE 0)
    + (IF pc0 \in {"exchange", "copy"} THEN 1 ELSE 0)

Timeouts ==
  /\ streaming => Running \/ pc4 = "shutdown"
  /\ Early => /\ longest_shortfall = 0 /\ shortfall_length = 0
              /\ error \in {ERROR_NONE, ERROR_MISSED_DEADLINE}
              /\ mode = "TX" /\ InLoop => active_mode = TX_START
              /\ mode # "TX" => m0_count + Late <= 1
  /\ Running => /\ TimeoutExact
                /\ shortfall_limit # 0 /\ error \in {ERROR_NONE, ERROR_MISSED_DEADLINE}
                     => longest_shortfall < shortfall_limit

IInv == TypeOK /\ Handshake /\ Queues /\ Modes /\ RxOrder /\ TxOrder /\ Stats /\ Timeouts

\* With OUT transfers of full size, the next transfer to complete is the one
\* at m4_count, and it is queued or about to be.
FullOrder ==
  current /\ Running =>
    /\ bulk_in # None => bulk_in = m4_count
    /\ bulk_out # None => bulk_out = m4_count
    /\ bulk_in = None /\ bulk_out = None => usb_count = m4_count

=============================================================================
