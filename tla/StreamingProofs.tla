-------------------------- MODULE StreamingProofs --------------------------
(***************************************************************************)
(* The safety properties of Streaming, proved for buffers and counters of   *)
(* every size: IInv is inductive, and each property follows from it.        *)
(* One lemma per part of IInv; in each, one step per actor, and the actions *)
(* that can disturb the part are singled out below it. The last part shows   *)
(* that Streaming implements the bounded buffer of SampleStream.            *)
(***************************************************************************)
EXTENDS StreamRefinement, TLAPS

USE DEF IDLE, WAIT, RX, TX_START, TX_RUN,
        ERROR_NONE, ERROR_RX_TIMEOUT, ERROR_TX_TIMEOUT, ERROR_MISSED_DEADLINE
USE DEF requestVars, modeVars, countVars, statVars, m0Vars,
        hostVars, mainVars, bulkVars, m4Vars, loopVars

-----------------------------------------------------------------------------
(* The sizes and the counters *)

\* A division leaves a quotient and a remainder ...
LEMMA Division ==
  ASSUME NEW n \in Nat \ {0}, NEW x \in Int
  PROVE  /\ x \div n \in Int /\ n * (x \div n) \in Int
         /\ x % n \in 0 .. n - 1
         /\ x = n * (x \div n) + (x % n)
OBVIOUS

\* ... and the remainder is determined by its range.
LEMMA Remainder ==
  ASSUME NEW n \in Nat \ {0}, NEW k \in Int, NEW r \in 0 .. n - 1
  PROVE  (n * k + r) % n = r
OBVIOUS

\* Adding a multiple does not change the remainder.
LEMMA AddMultiple ==
  ASSUME NEW n \in Nat \ {0}, NEW x \in Int, NEW m \in Int, m % n = 0
  PROVE  (x + m) % n = x % n
<1> DEFINE q == x \div n
           w == m \div n
           r == x % n
<1>1. q \in Int /\ w \in Int /\ r \in 0 .. n - 1 /\ x + m = n * (q + w) + r
  BY Division
<1> HIDE DEF q, r, w
<1>2. (n * (q + w) + r) % n = r
  BY <1>1, Remainder
<1> QED
  BY <1>1, <1>2 DEF r

\* What the proofs use of the constants: a counter holds four transfers.
LEMMA SizeFacts ==
  /\ TransferSize \in Nat /\ TransferSize >= 1 /\ BufferSize = 2 * TransferSize
  /\ CountMod \in Nat /\ CountMod >= 4 * TransferSize
  /\ 0 \in Counts /\ TransferSize \in Counts
BY SizeAssumption DEF BufferSize, Counts

\* Advancing a counter, by a sample or by a transfer, keeps it within its width.
LEMMA AdvanceType ==
  ASSUME NEW a \in Counts
  PROVE  /\ Plus(a, 1) \in Counts /\ Plus(a, TransferSize) \in Counts
         /\ \A n \in OutSizes : Plus(a, n) \in Counts
BY SizeFacts, OutAssumption DEF Counts, Plus

\* Plus and Minus are addition and subtraction modulo the width of a counter,
\* as the instructions of the M0 compute them.
LEMMA CounterArithmetic ==
  ASSUME NEW a \in Counts, NEW b \in Counts
  PROVE  Plus(a, b) = (a + b) % CountMod /\ Minus(a, b) = (a - b) % CountMod
<1>1. CountMod \in Nat \ {0} /\ a \in 0 .. CountMod - 1 /\ b \in 0 .. CountMod - 1
  BY SizeFacts DEF Counts
<1>2. ASSUME NEW r \in 0 .. CountMod - 1
      PROVE  /\ r % CountMod = r
             /\ (CountMod + r) % CountMod = r
             /\ (r - CountMod) % CountMod = r
  <2>1. /\ CountMod * 0 + r = r
        /\ CountMod * 1 + r = CountMod + r
        /\ CountMod * (-1) + r = r - CountMod
    BY <1>1
  <2> QED
    BY <1>1, <2>1, Remainder
<1>3. Plus(a, b) \in 0 .. CountMod - 1 /\ Minus(a, b) \in 0 .. CountMod - 1
  BY <1>1 DEF Plus, Minus
<1>4. a + b = Plus(a, b) \/ a + b = CountMod + Plus(a, b)
  BY <1>1 DEF Plus
<1>5. a - b = Minus(a, b) \/ a - b = Minus(a, b) - CountMod
  BY <1>1 DEF Minus
<1> QED
  BY <1>2, <1>3, <1>4, <1>5

\* Two positions less than a buffer apart have different offsets in it.
LEMMA OffsetsDiffer ==
  ASSUME NEW x \in Int, NEW d \in 1 .. BufferSize - 1
  PROVE  Offset(x + d) # Offset(x)
<1>1. BufferSize \in Nat \ {0}
  BY SizeFacts
<1> DEFINE q == x \div BufferSize
           r == x % BufferSize
<1>2. q \in Int /\ r \in 0 .. BufferSize - 1 /\ x = BufferSize * q + r
  BY <1>1, Division
<1> HIDE DEF q, r
<1>3. CASE r + d < BufferSize
  <2>1. x + d = BufferSize * q + (r + d) /\ r + d \in 0 .. BufferSize - 1
    BY <1>1, <1>2, <1>3
  <2>2. (x + d) % BufferSize = r + d
    BY <1>1, <1>2, <2>1, Remainder
  <2> QED
    BY <1>2, <2>2 DEF Offset, r
<1>4. CASE r + d >= BufferSize
  <2>1. x + d = BufferSize * (q + 1) + (r + d - BufferSize) /\ q + 1 \in Int
        /\ r + d - BufferSize \in 0 .. BufferSize - 1
    BY <1>1, <1>2, <1>4
  <2>2. (x + d) % BufferSize = r + d - BufferSize
    BY <1>1, <2>1, Remainder
  <2> QED
    BY <1>1, <1>2, <2>2 DEF Offset, r
<1> QED
  BY <1>1, <1>2, <1>3, <1>4

\* A whole number of buffers does not change the offset: where a counter
\* wraps, the offset goes on.
LEMMA WrapKeepsOffset ==
  ASSUME NEW x \in Int
  PROVE  Offset(x + CountMod) = Offset(x)
<1>1. BufferSize \in Nat \ {0} /\ CountMod \in Int /\ CountMod % BufferSize = 0
  BY SizeFacts, SizeAssumption
<1>2. (x + CountMod) % BufferSize = x % BufferSize
  BY <1>1, AddMultiple
<1> QED
  BY <1>2 DEF Offset

-----------------------------------------------------------------------------
(* The inductive invariant holds at first *)
\* The initial state: both cores idle, empty queues, counts at 0.
LEMMA InitInv == Init => IInv
<1> SUFFICES ASSUME Init PROVE IInv
  OBVIOUS
<1> USE SizeFacts DEF Init, TransceiverInit, M0Init
<1>1. M0DataOK /\ HostDataOK /\ LoopDataOK
  BY DEF M0DataOK, HostDataOK, LoopDataOK, M0Modes, None
<1>2. /\ request_flag \in BOOLEAN /\ sgpio_flag \in BOOLEAN /\ streaming \in BOOLEAN
      /\ current \in BOOLEAN /\ started \in BOOLEAN
  OBVIOUS
<1>3. Handshake /\ Queues /\ Modes
  BY DEF Handshake, Queues, Modes, Taken, Streams, Running, Stopping, Starting, Idling,
         Asking, InLoop
<1>4. RxOrder /\ TxOrder /\ Timeouts
  BY DEF RxOrder, TxOrder, Timeouts, Early, Taken, Streams, Running, Stopping, Starting,
         Asking, None
<1>5. Stats
  BY DEF Stats, StatsExact, Counted, InLoop
<1> QED
  BY <1>1, <1>2, <1>3, <1>4, <1>5 DEF IInv, TypeOK, TransceiverTypeOK, M0TypeOK

-----------------------------------------------------------------------------
(* Every step keeps each part of it *)

\* Types of the flags: what is assigned to them is TRUE or FALSE.
LEMMA FlagStep ==
  ASSUME TypeOK, Next
  PROVE  /\ request_flag' \in BOOLEAN /\ sgpio_flag' \in BOOLEAN
         /\ streaming' \in BOOLEAN /\ current' \in BOOLEAN /\ started' \in BOOLEAN
<1> USE DEF TypeOK, TransceiverTypeOK, M0TypeOK, Next,
            CoreNext, M0Next, TakeRequest, ResetCounts, ClearFlag, AckRequest,
            MissedDeadline, InTime, Exchanged, OnRequest, StartCopy, EndCopy, SendZeros,
            Shortfall, CodecNext, SgpioExchange,
            IsrNext, HostNext, RequestMode, SetOverrunLimit, SetUnderrunLimit,
            BulkInComplete, BulkOutComplete,
            MainNext, TransceiverNext, ReadRequest, LeaveOff, Startup, SetFlag, WaitAck,
            SetLimit, DisableStreaming, ShutdownFlush, RadioOff, WriteRequest,
            ModeNext, RxBegin, RxReady, RxSchedule, TxBegin, TxStart, TxReady,
            TxSchedule, LeaveLoop, EnableStreaming
<1>1. request_flag' \in BOOLEAN
  OBVIOUS
<1>2. sgpio_flag' \in BOOLEAN
  OBVIOUS
<1>3. streaming' \in BOOLEAN
  OBVIOUS
<1>4. current' \in BOOLEAN
  OBVIOUS
<1>5. started' \in BOOLEAN
  OBVIOUS
<1> QED
  BY <1>1, <1>2, <1>3, <1>4, <1>5

\* Types: the counters stay within their width, and an error is the code of
\* a direction.
LEMMA TypeStep == ASSUME TypeOK, Next PROVE TypeOK'
<1>1. M0DataOK' /\ HostDataOK' /\ LoopDataOK'
  <2> USE DEF TypeOK, TransceiverTypeOK, M0TypeOK, M0DataOK, HostDataOK, LoopDataOK, M0Modes
  <2>1. CASE CoreNext
    BY <2>1, AdvanceType, SizeFacts
    DEF CoreNext, M0Next, TakeRequest, ResetCounts, ClearFlag, AckRequest, Dispatch,
        MissedDeadline, InTime, Exchanged, OnRequest, StartCopy, EndCopy, SendZeros,
        Shortfall, NewLength
  <2>2. CASE CodecNext
    BY <2>2 DEF CodecNext, SgpioExchange
  <2>3. CASE IsrNext
    BY <2>3, HostAssumption, AdvanceType
    DEF IsrNext, HostNext, RequestMode, SetOverrunLimit, SetUnderrunLimit, FlushBulk,
        BulkInComplete, BulkOutComplete
  <2>4. CASE TransceiverNext /\ UNCHANGED loopVars
    BY <2>4
    DEF TransceiverNext, ReadRequest, LeaveOff, Startup, SetFlag, WaitAck, SetLimit,
        DisableStreaming, ShutdownFlush, RadioOff, WriteRequest, FlushBulk
  <2>5. CASE ModeNext
    BY <2>5, AdvanceType, SizeFacts
    DEF ModeNext, RxBegin, RxReady, RxSchedule, TxBegin, TxStart, TxReady, TxSchedule,
        LeaveLoop, EnableStreaming, ScheduleIn, ScheduleOut, Scheduled
  <2> QED
    BY <2>1, <2>2, <2>3, <2>4, <2>5 DEF Next, MainNext
<1> QED
  BY <1>1, FlagStep DEF TypeOK, TransceiverTypeOK, M0TypeOK

\* The handshake: only m0_set_mode() makes a request, and the M0 answers it
\* from its idle loop.
LEMMA HandshakeStep == ASSUME IInv, Next PROVE Handshake'
<1> USE DEF IInv, TypeOK, TransceiverTypeOK, M0TypeOK, M0DataOK, M0Modes, Handshake, Modes,
            Idling, Asking, InLoop, Starting, Streams, Running, Stopping, StartMode
<1>1. CASE CoreNext
  BY <1>1
  DEF CoreNext, M0Next, TakeRequest, ResetCounts, ClearFlag, AckRequest, Dispatch,
      MissedDeadline, InTime, Exchanged, OnRequest, StartCopy, EndCopy, AtThreshold,
      SendZeros, Shortfall
<1>2. CASE CodecNext
  BY <1>2 DEF CodecNext, SgpioExchange
<1>3. CASE IsrNext
  BY <1>3
  DEF IsrNext, HostNext, RequestMode, SetOverrunLimit, SetUnderrunLimit, FlushBulk,
      BulkInComplete, BulkOutComplete
<1>4. CASE TransceiverNext /\ UNCHANGED loopVars
  BY <1>4
  DEF TransceiverNext, ReadRequest, LeaveOff, Startup, SetFlag, WaitAck, SetLimit,
      DisableStreaming, ShutdownFlush, RadioOff, WriteRequest, FlushBulk, M0Settled
<1>5. CASE ModeNext
  BY <1>5
  DEF ModeNext, RxBegin, RxReady, RxSchedule, TxBegin, TxStart, TxReady, TxSchedule,
      LeaveLoop, EnableStreaming
<1> QED
  BY <1>1, <1>2, <1>3, <1>4, <1>5 DEF Next, MainNext

\* The queues: shutdown and every mode request flush what a mode has queued.
LEMMA QueuesStep == ASSUME IInv, Next PROVE Queues'
<1> USE DEF IInv, TypeOK, TransceiverTypeOK, HostDataOK, LoopDataOK, Handshake, Queues, Streams, Running, Stopping
<1>1. CASE CoreNext \/ CodecNext
  BY <1>1 DEF CoreNext, CodecNext
<1>2. CASE IsrNext
  BY <1>2
  DEF IsrNext, HostNext, RequestMode, SetOverrunLimit, SetUnderrunLimit, FlushBulk,
      BulkInComplete, BulkOutComplete
<1>3. CASE TransceiverNext /\ UNCHANGED loopVars
  BY <1>3
  DEF TransceiverNext, ReadRequest, LeaveOff, Startup, SetFlag, WaitAck, SetLimit,
      DisableStreaming, ShutdownFlush, RadioOff, WriteRequest, FlushBulk
<1>4. CASE ModeNext
  BY <1>4
  DEF ModeNext, RxBegin, RxReady, RxSchedule, TxBegin, TxStart, TxReady, TxSchedule,
      LeaveLoop, EnableStreaming, ScheduleIn, ScheduleOut
<1> QED
  BY <1>1, <1>2, <1>3, <1>4 DEF Next, MainNext

\* The modes of the M0: it changes them only on a request or on an error.
LEMMA ModesStep == ASSUME IInv, Next PROVE Modes'
<1> USE SizeFacts
    DEF IInv, TypeOK, TransceiverTypeOK, M0TypeOK, M0DataOK, M0Modes, Handshake, Modes, Taken,
        Idling, Asking, InLoop, Starting, Streams, Running, Stopping, StartMode
<1>1. CASE CoreNext
  <2>1. CASE TakeRequest \/ ClearFlag \/ AckRequest
    BY <1>1, <2>1 DEF CoreNext, TakeRequest, ResetCounts, ClearFlag, AckRequest, Dispatch
  <2>2. CASE MissedDeadline \/ Shortfall
    BY <1>1, <2>2 DEF CoreNext, MissedDeadline, Shortfall, Blocked
  <2>3. CASE InTime \/ Exchanged \/ OnRequest \/ StartCopy \/ SendZeros
    BY <1>1, <2>3
    DEF CoreNext, InTime, Exchanged, OnRequest, StartCopy, SendZeros
  <2>4. CASE EndCopy
    BY <1>1, <2>4 DEF CoreNext, EndCopy, Dispatch
  <2> QED
    BY <1>1, <2>1, <2>2, <2>3, <2>4 DEF CoreNext, M0Next
<1>2. CASE CodecNext
  BY <1>2 DEF CodecNext, SgpioExchange
<1>3. CASE IsrNext
  BY <1>3
  DEF IsrNext, HostNext, RequestMode, SetOverrunLimit, SetUnderrunLimit, FlushBulk,
      BulkInComplete, BulkOutComplete
<1>4. CASE TransceiverNext /\ UNCHANGED loopVars
  BY <1>4
  DEF TransceiverNext, ReadRequest, LeaveOff, Startup, SetFlag, WaitAck, SetLimit,
      DisableStreaming, ShutdownFlush, RadioOff, WriteRequest, FlushBulk, M0Settled
<1>5. CASE ModeNext
  BY <1>5
  DEF ModeNext, RxBegin, RxReady, RxSchedule, TxBegin, TxStart, TxReady, TxSchedule,
      LeaveLoop, EnableStreaming
<1> QED
  BY <1>1, <1>2, <1>3, <1>4, <1>5 DEF Next, MainNext

\* The order of the positions in a reception: a copy needs Space, a schedule
\* needs a captured transfer, a completion moves over a queued one.
LEMMA RxOrderStep == ASSUME IInv, Next PROVE RxOrder'
<1> USE SizeFacts
    DEF IInv, TypeOK, TransceiverTypeOK, M0TypeOK, M0DataOK, HostDataOK, LoopDataOK,
        Counts, None, M0Modes, Handshake, Queues, Modes, RxOrder, Early, Taken,
        Idling, Asking, InLoop, Starting, Streams, Running, Stopping, StartMode
<1>1. CASE CoreNext
  <2>1. CASE TakeRequest
    BY <1>1, <2>1 DEF CoreNext, TakeRequest, ResetCounts, Minus
  <2>2. CASE StartCopy
    BY <1>1, <2>2 DEF CoreNext, StartCopy, Blocked, Space, Negative, Plus, Minus
  <2>3. CASE EndCopy
    BY <1>1, <2>3 DEF CoreNext, EndCopy, Dispatch, Plus, Minus
  <2> QED
    BY <1>1, <2>1, <2>2, <2>3
    DEF CoreNext, M0Next, ClearFlag, AckRequest, Dispatch, MissedDeadline, InTime,
        Exchanged, OnRequest, SendZeros, Shortfall
<1>2. CASE CodecNext
  BY <1>2 DEF CodecNext, SgpioExchange
<1>3. CASE IsrNext
  <2>1. CASE BulkInComplete
    BY <2>1 DEF BulkInComplete, Plus, Minus
  <2>2. CASE (HostNext /\ UNCHANGED loopVars) \/ \E n \in OutSizes : BulkOutComplete(n)
    BY <2>2
    DEF HostNext, RequestMode, SetOverrunLimit, SetUnderrunLimit, FlushBulk,
        BulkOutComplete
  <2> QED
    BY <1>3, <2>1, <2>2 DEF IsrNext
<1>4. CASE TransceiverNext /\ UNCHANGED loopVars
  BY <1>4
  DEF TransceiverNext, ReadRequest, LeaveOff, Startup, SetFlag, WaitAck, SetLimit,
      DisableStreaming, ShutdownFlush, RadioOff, WriteRequest, FlushBulk, M0Settled
<1>5. CASE ModeNext
  <2>1. CASE RxBegin
    BY <2>1 DEF RxBegin, EnableStreaming, Minus
  <2>2. CASE RxReady
    BY <2>2 DEF RxReady, Captured
  <2>3. CASE RxSchedule
    BY <2>3 DEF RxSchedule, ScheduleIn, Scheduled, Plus, Minus
  <2> QED
    BY <1>5, <2>1, <2>2, <2>3
    DEF ModeNext, TxBegin, TxStart, TxReady, TxSchedule, LeaveLoop, EnableStreaming,
        ScheduleOut
<1> QED
  BY <1>1, <1>2, <1>3, <1>4, <1>5 DEF Next, MainNext

\* The order of the positions in a transmission: a copy needs Data, a schedule
\* needs a drained half, a completion brings at most a transfer.
LEMMA TxOrderStep == ASSUME IInv, Next PROVE TxOrder'
<1> USE SizeFacts
    DEF IInv, TypeOK, TransceiverTypeOK, M0TypeOK, M0DataOK, HostDataOK, LoopDataOK,
        Counts, None, M0Modes, Handshake, Queues, Modes, TxOrder, Early, Taken,
        Idling, Asking, InLoop, Starting, Streams, Running, Stopping, StartMode
<1>1. CASE CoreNext
  <2>1. CASE TakeRequest
    BY <1>1, <2>1 DEF CoreNext, TakeRequest, ResetCounts, Minus
  <2>2. CASE StartCopy
    BY <1>1, <2>2 DEF CoreNext, StartCopy, Blocked, Data, Negative, Plus, Minus
  <2>3. CASE EndCopy
    BY <1>1, <2>3 DEF CoreNext, EndCopy, Dispatch, Plus, Minus
  <2> QED
    BY <1>1, <2>1, <2>2, <2>3
    DEF CoreNext, M0Next, ClearFlag, AckRequest, Dispatch, MissedDeadline, InTime,
        Exchanged, OnRequest, SendZeros, Shortfall
<1>2. CASE CodecNext
  BY <1>2 DEF CodecNext, SgpioExchange
<1>3. CASE IsrNext
  <2>1. CASE \E n \in OutSizes : BulkOutComplete(n)
    BY <2>1, OutAssumption DEF BulkOutComplete, Plus, Minus
  <2>2. CASE (HostNext /\ UNCHANGED loopVars) \/ BulkInComplete
    BY <2>2
    DEF HostNext, RequestMode, SetOverrunLimit, SetUnderrunLimit, FlushBulk,
        BulkInComplete
  <2> QED
    BY <1>3, <2>1, <2>2 DEF IsrNext
<1>4. CASE TransceiverNext /\ UNCHANGED loopVars
  BY <1>4
  DEF TransceiverNext, ReadRequest, LeaveOff, Startup, SetFlag, WaitAck, SetLimit,
      DisableStreaming, ShutdownFlush, RadioOff, WriteRequest, FlushBulk, M0Settled
<1>5. CASE ModeNext
  <2>1. CASE TxBegin
    BY <2>1 DEF TxBegin, Plus, Minus
  <2>2. CASE TxReady
    BY <2>2 DEF TxReady, Drained
  <2>3. CASE TxSchedule
    BY <2>3 DEF TxSchedule, ScheduleOut, Scheduled, Plus, Minus
  <2> QED
    BY <1>5, <2>1, <2>2, <2>3
    DEF ModeNext, RxBegin, RxReady, RxSchedule, TxStart, LeaveLoop, EnableStreaming,
        ScheduleIn
<1> QED
  BY <1>1, <1>2, <1>3, <1>4, <1>5 DEF Next, MainNext

\* The statistics: a shortfall is counted when it begins, and rolled back when
\* a request cuts it short.
LEMMA StatsStep == ASSUME IInv, Next PROVE Stats'
<1> USE DEF IInv, TypeOK, TransceiverTypeOK, M0TypeOK, M0DataOK, M0Modes, Handshake, Modes,
            Stats, StatsExact, Counted, Idling, Asking, InLoop
<1>1. CASE CoreNext
  <2>1. CASE TakeRequest
    BY <1>1, <2>1 DEF CoreNext, TakeRequest, ResetCounts
  <2>2. CASE OnRequest
    BY <1>1, <2>2 DEF CoreNext, OnRequest, RolledBack
  <2>3. CASE EndCopy
    BY <1>1, <2>3 DEF CoreNext, EndCopy, Dispatch
  <2>4. CASE Shortfall
    BY <1>1, <2>4 DEF CoreNext, Shortfall, NewLength, Blocked, TimedOut
  <2> QED
    BY <1>1, <2>1, <2>2, <2>3, <2>4
    DEF CoreNext, M0Next, ClearFlag, AckRequest, Dispatch, MissedDeadline, InTime,
        Exchanged, StartCopy, SendZeros
<1>2. CASE CodecNext
  BY <1>2 DEF CodecNext, SgpioExchange
<1>3. CASE IsrNext
  BY <1>3
  DEF IsrNext, HostNext, RequestMode, SetOverrunLimit, SetUnderrunLimit, FlushBulk,
      BulkInComplete, BulkOutComplete
<1>4. CASE TransceiverNext /\ UNCHANGED loopVars
  BY <1>4
  DEF TransceiverNext, ReadRequest, LeaveOff, Startup, SetFlag, WaitAck, SetLimit,
      DisableStreaming, ShutdownFlush, RadioOff, WriteRequest, FlushBulk, M0Settled
<1>5. CASE ModeNext
  BY <1>5
  DEF ModeNext, RxBegin, RxReady, RxSchedule, TxBegin, TxStart, TxReady, TxSchedule,
      LeaveLoop, EnableStreaming
<1> QED
  BY <1>1, <1>2, <1>3, <1>4, <1>5 DEF Next, MainNext

\* The timeout: nothing raises it before the session has set its limit.
LEMMA TimeoutsStep == ASSUME IInv, Next PROVE Timeouts'
<1> USE SizeFacts
    DEF IInv, TypeOK, TransceiverTypeOK, M0TypeOK, M0DataOK, HostDataOK, LoopDataOK,
        Counts, M0Modes, Handshake, Queues, Modes, Timeouts, TimeoutExact, Late, Early,
        Taken, Idling, Asking, InLoop, Starting, Streams, Running, Stopping, StartMode
<1>1. CASE CoreNext
  <2>1. CASE TakeRequest \/ ClearFlag \/ AckRequest
    BY <1>1, <2>1 DEF CoreNext, TakeRequest, ResetCounts, ClearFlag, AckRequest, Dispatch
  <2>2. CASE OnRequest
    BY <1>1, <2>2 DEF CoreNext, OnRequest, RolledBack
  <2>3. CASE StartCopy
    BY <1>1, <2>3 DEF CoreNext, StartCopy, Blocked, Data, TxOrder, Negative, Minus
  <2>4. CASE EndCopy
    BY <1>1, <2>4 DEF CoreNext, EndCopy, Dispatch, TxOrder, Plus
  <2>5. CASE Shortfall
    BY <1>1, <2>5
    DEF CoreNext, Shortfall, NewLength, Blocked, TimedOut, Space, RxOrder, Stats,
        StatsExact, Counted, Negative, Plus, Minus
  <2> QED
    BY <1>1, <2>1, <2>2, <2>3, <2>4, <2>5
    DEF CoreNext, M0Next, MissedDeadline, InTime, Exchanged, SendZeros
<1>2. CASE CodecNext
  BY <1>2 DEF CodecNext, SgpioExchange
<1>3. CASE IsrNext
  BY <1>3
  DEF IsrNext, HostNext, RequestMode, SetOverrunLimit, SetUnderrunLimit, FlushBulk,
      BulkInComplete, BulkOutComplete
<1>4. CASE TransceiverNext /\ UNCHANGED loopVars
  BY <1>4
  DEF TransceiverNext, ReadRequest, LeaveOff, Startup, SetFlag, WaitAck, SetLimit,
      DisableStreaming, ShutdownFlush, RadioOff, WriteRequest, FlushBulk, M0Settled
<1>5. CASE ModeNext
  BY <1>5
  DEF ModeNext, RxBegin, RxReady, RxSchedule, TxBegin, TxStart, TxReady, TxSchedule,
      LeaveLoop, EnableStreaming
<1> QED
  BY <1>1, <1>2, <1>3, <1>4, <1>5 DEF Next, MainNext

-----------------------------------------------------------------------------
(* The invariant *)
\* A step that changes no variable keeps every conjunct.
LEMMA StutterStep == ASSUME IInv, UNCHANGED vars PROVE IInv'
BY DEF vars, IInv, TypeOK, TransceiverTypeOK, M0TypeOK, M0DataOK, HostDataOK, LoopDataOK,
       Handshake, Queues, Modes, RxOrder, TxOrder, Stats, StatsExact, Counted, Timeouts,
       TimeoutExact, Late, Early, Taken, Streams, Running, Stopping, Starting, Idling,
       Asking, InLoop, StartMode
\* The conjuncts together are inductive.
LEMMA InductiveStep == IInv /\ [Next]_vars => IInv'
<1> SUFFICES ASSUME IInv, [Next]_vars PROVE IInv'
  OBVIOUS
<1>1. CASE Next
  <2>1. TypeOK'
    BY <1>1, TypeStep DEF IInv
  <2> QED
    BY <1>1, <2>1, HandshakeStep, QueuesStep, ModesStep, RxOrderStep, TxOrderStep,
       StatsStep, TimeoutsStep
    DEF IInv
<1>2. CASE UNCHANGED vars
  BY <1>2, StutterStep
<1> QED
  BY <1>1, <1>2

\* The inductive invariant of the transceiver holds in every reachable state,
\* for buffers, counters and limits of every size.
THEOREM Invariance == Spec => []IInv
BY InitInv, InductiveStep, PTL DEF Spec

-----------------------------------------------------------------------------
(* The properties *)

\* The variables of both cores keep their types: no counter leaves its width.
THEOREM TypeCorrect == Spec => []TypeOK
<1>1. IInv => TypeOK
  BY DEF IInv
<1> QED
  BY <1>1, Invariance, PTL

\* The distance between the M0 and a queued transfer, from the order of the
\* positions: in a reception it is at least the transfer, in a transmission
\* it is in front of the M0.
LEMMA CopyDistance ==
  ASSUME IInv, pc0 = "copy"
  PROVE  /\ bulk_in # None => Minus(m0_count, bulk_in) \in TransferSize .. BufferSize - 1
         /\ bulk_out # None => Minus(bulk_out, m0_count) \in 1 .. TransferSize
<1> USE SizeFacts
    DEF IInv, TypeOK, TransceiverTypeOK, M0TypeOK, M0DataOK, HostDataOK, LoopDataOK, Counts,
        None, Queues, Streams, Running, Stopping
<1>1. bulk_in # None => Minus(m0_count, bulk_in) \in TransferSize .. BufferSize - 1
  BY DEF RxOrder, Plus, Minus
<1>2. bulk_out # None => Minus(bulk_out, m0_count) \in 1 .. TransferSize
  BY DEF TxOrder, Plus, Minus
<1> QED
  BY <1>1, <1>2

\* A wrapped distance determines how far two offsets are apart.
LEMMA ApartOffsets ==
  ASSUME NEW a \in Counts, NEW b \in Counts, NEW i \in Int,
         Minus(a, b) - i \in 1 .. BufferSize - 1
  PROVE  Offset(a) # Offset(b + i)
<1> DEFINE d == Minus(a, b) - i
<1>1. a \in Int /\ b + i \in Int /\ CountMod \in Int /\ d \in 1 .. BufferSize - 1
  BY SizeFacts DEF Counts
<1>2. (b + i) + d = a \/ (b + i) + d = a + CountMod
  BY <1>1 DEF Minus, Counts
<1>3. Offset((b + i) + d) # Offset(b + i)
  BY <1>1, OffsetsDiffer
<1>4. Offset(a + CountMod) = Offset(a)
  BY <1>1, WrapKeepsOffset
<1> HIDE DEF d
<1> QED
  BY <1>2, <1>3, <1>4

\* The M0 and the USB controller never touch the same part of the buffer, for
\* every size of the buffer and across the wrap of the counters.
THEOREM Disjoint == Spec => []BufferDisjoint
<1>1. ASSUME IInv, pc0 = "copy",
             NEW p \in {bulk_in, bulk_out} \ {None}, NEW i \in 0 .. TransferSize - 1
      PROVE  Offset(m0_count) # Offset(p + i)
  <2>1. /\ m0_count \in Counts /\ p \in Counts
        /\ TransferSize \in Nat /\ BufferSize = 2 * TransferSize /\ CountMod \in Nat
    BY <1>1, SizeFacts DEF IInv, TypeOK, TransceiverTypeOK, M0TypeOK, M0DataOK, HostDataOK
  <2>2. CASE p = bulk_in
    <3>1. Minus(m0_count, p) \in TransferSize .. BufferSize - 1
      BY <1>1, <2>2, CopyDistance
    <3>2. Minus(m0_count, p) - i \in 1 .. BufferSize - 1
      BY <2>1, <3>1
    <3> QED
      BY <2>1, <3>2, ApartOffsets
  <2>3. CASE p = bulk_out
    <3>1. Minus(p, m0_count) \in 1 .. TransferSize
      BY <1>1, <2>3, CopyDistance
    <3> DEFINE d == Minus(p, m0_count) + i
    <3>2. d \in 1 .. BufferSize - 1 /\ m0_count \in Int /\ p + i \in Int
      BY <2>1, <3>1 DEF Counts
    <3>3. m0_count + d = p + i \/ m0_count + d = (p + i) + CountMod
      BY <2>1 DEF Minus, Counts
    <3> HIDE DEF d
    <3>4. Offset(m0_count + d) # Offset(m0_count)
      BY <3>2, OffsetsDiffer
    <3>5. Offset((p + i) + CountMod) = Offset(p + i)
      BY <3>2, WrapKeepsOffset
    <3> QED
      BY <3>3, <3>4, <3>5
  <2> QED
    BY <2>2, <2>3
<1>2. IInv => BufferDisjoint
  BY <1>1 DEF BufferDisjoint, Region
<1> QED
  BY <1>2, Invariance, PTL

\* No transfer is queued when the M0 resets the counts for a new session.
THEOREM QuietReset == Spec => []ResetIsQuiet
<1>1. IInv => ResetIsQuiet
  BY DEF IInv, ResetIsQuiet, Handshake, Queues, Asking, Streams, Running, Stopping
<1> QED
  BY <1>1, Invariance, PTL

\* An M0 that stops while the M4 streams has recorded an error.
THEOREM ExplainedStops == Spec => []StopsAreExplained
<1>1. IInv => StopsAreExplained
  BY DEF IInv, StopsAreExplained, Modes, Streams
<1> QED
  BY <1>1, Invariance, PTL

\* A timeout is raised exactly when the shortfall has reached the limit.
THEOREM ExactTimeout == Spec => []TimeoutExact
<1>1. IInv => TimeoutExact
  BY DEF IInv, TimeoutExact, Timeouts
<1> QED
  BY <1>1, Invariance, PTL

\* The statistics are exact, rollbacks included.
THEOREM ExactStats == Spec => []StatsExact
<1>1. IInv => StatsExact
  BY DEF IInv, Stats
<1> QED
  BY <1>1, Invariance, PTL

-----------------------------------------------------------------------------
(* The order of the transfers, when the host sends OUT transfers of full     *)
(* size: a short one leaves m4_count behind the positions that follow it.    *)
\* With full-size OUT transfers, completions and schedules keep the order.
LEMMA FullOrderStep ==
  ASSUME OutSizes = {TransferSize}, IInv, FullOrder, [Next]_vars
  PROVE  FullOrder'
<1> USE SizeFacts
    DEF IInv, TypeOK, TransceiverTypeOK, M0TypeOK, M0DataOK, HostDataOK, LoopDataOK,
        Counts, None, Queues, FullOrder, Streams, Running, Stopping
<1>1. CASE CoreNext
  BY <1>1
  DEF CoreNext, M0Next, TakeRequest, ResetCounts, ClearFlag, AckRequest, MissedDeadline,
      InTime, Exchanged, OnRequest, StartCopy, EndCopy, SendZeros, Shortfall,
      Handshake, Asking
<1>2. CASE CodecNext \/ UNCHANGED vars
  BY <1>2 DEF CodecNext, SgpioExchange, vars
<1>3. CASE IsrNext
  <2>1. CASE BulkInComplete
    BY <2>1 DEF BulkInComplete, RxOrder
  <2>2. CASE \E n \in OutSizes : BulkOutComplete(n)
    BY <2>2 DEF BulkOutComplete, TxOrder
  <2>3. CASE HostNext /\ UNCHANGED loopVars
    BY <2>3 DEF HostNext, RequestMode, SetOverrunLimit, SetUnderrunLimit
  <2> QED
    BY <1>3, <2>1, <2>2, <2>3 DEF IsrNext
<1>4. CASE TransceiverNext /\ UNCHANGED loopVars
  BY <1>4
  DEF TransceiverNext, ReadRequest, LeaveOff, Startup, SetFlag, WaitAck, SetLimit,
      DisableStreaming, ShutdownFlush, RadioOff, WriteRequest, FlushBulk
<1>5. CASE ModeNext
  <2>1. CASE RxBegin
    <3>1. m4_count = 0 /\ bulk_in = None /\ bulk_out = None
      BY <2>1 DEF RxBegin, RxOrder, Early, Starting
    <3> QED
      BY <2>1, <3>1 DEF RxBegin, EnableStreaming
  <2>2. CASE TxBegin
    <3>1. m4_count = 0 /\ bulk_in = None
      BY <2>2 DEF TxBegin, TxOrder, Early, Starting
    <3> QED
      BY <2>2, <3>1 DEF TxBegin
  <2>3. CASE RxSchedule
    BY <2>3 DEF RxSchedule, ScheduleIn, Scheduled
  <2>4. CASE TxSchedule
    BY <2>4 DEF TxSchedule, ScheduleOut, Scheduled
  <2>5. CASE RxReady \/ TxStart \/ TxReady \/ LeaveLoop
    BY <2>5 DEF RxReady, TxStart, TxReady, LeaveLoop, EnableStreaming
  <2> QED
    BY <1>5, <2>1, <2>2, <2>3, <2>4, <2>5 DEF ModeNext
<1> QED
  BY <1>1, <1>2, <1>3, <1>4, <1>5 DEF Next, MainNext

\* While no request is pending, transfers complete in the order of the stream,
\* and an IN transfer holds samples captured in this session.
THEOREM OrderedTransfers ==
  ASSUME OutSizes = {TransferSize}
  PROVE  Spec => []TransfersInOrder
<1>1. Init => FullOrder
  BY DEF Init, TransceiverInit, FullOrder, Running
<1>2. IInv /\ FullOrder /\ [Next]_vars => FullOrder'
  BY FullOrderStep
<1>3. IInv /\ FullOrder => TransfersInOrder
  BY SizeFacts
  DEF IInv, TypeOK, TransceiverTypeOK, M0TypeOK, M0DataOK, HostDataOK, LoopDataOK, Counts,
      None, FullOrder, TransfersInOrder, RxOrder, Queues, Streams, Running, Plus, Minus
<1> QED
  BY <1>1, <1>2, <1>3, Invariance, PTL DEF Spec

-----------------------------------------------------------------------------
(* Streaming implements SampleStream: the initial state maps to the closed  *)
(* stream, and every step of either core, of the interrupt handler or of    *)
(* the codec maps to one step of the stream or to none.                     *)

\* The mapping, spelled out for a state and for its successor.
LEMMA Mapping ==
  /\ ~Open => Direction = "closed" /\ Fill = 0
  /\ Open /\ mode = "TX" => Direction = "out" /\ Fill = Minus(m4_count, m0_count)
  /\ Open /\ mode # "TX" => Direction = "in" /\ Fill = Minus(m0_count, m4_count)
  /\ ~Open' => Direction' = "closed" /\ Fill' = 0
  /\ Open' /\ mode' = "TX" => Direction' = "out" /\ Fill' = Minus(m4_count, m0_count)'
  /\ Open' /\ mode' # "TX" => Direction' = "in" /\ Fill' = Minus(m0_count, m4_count)'
BY DEF Direction, Fill

\* A step that neither opens nor closes a session and moves no count of an
\* open one is a step the stream does not see.
LEMMA Unseen ==
  ASSUME (Open' <=> Open), Open => UNCHANGED <<mode, countVars>>
  PROVE  UNCHANGED Stream!svars
BY Mapping DEF Stream!svars, Direction, Fill, Minus

\* The M0 opens a session, from its idle loop, and each copy moves one unit.
LEMMA CoreRefines ==
  ASSUME IInv, CoreNext
  PROVE  Stream!Next \/ UNCHANGED Stream!svars
<1> USE SizeFacts
    DEF IInv, TypeOK, TransceiverTypeOK, M0TypeOK, M0DataOK, HostDataOK, LoopDataOK, Counts,
        CoreNext, Open, Early, Taken, Asking, Starting, Running, Streams, Stopping
<1>1. CASE TakeRequest
  <2>1. ~Open
    BY <1>1 DEF TakeRequest, Handshake, Idling
  <2>2. CASE Open'
    <3>1. m0_count' = 0 /\ m4_count' = 0
      BY <1>1, <2>2 DEF TakeRequest, ResetCounts, Handshake
    <3>2. Fill' = 0 /\ Direction' \in {"in", "out"}
      BY <2>2, <3>1, Mapping DEF Minus
    <3> QED
      BY <2>1, <3>2, Mapping DEF Stream!Next, Stream!Open
  <2>3. CASE ~Open'
    BY <2>1, <2>3, Unseen
  <2> QED
    BY <2>2, <2>3
<1>2. CASE EndCopy
  <2>1. (Open' <=> Open) /\ mode' = mode
    BY <1>2 DEF EndCopy, Dispatch
  <2>2. CASE Open /\ mode # "TX"
    <3>1. /\ Minus(m0_count, m4_count) + 1 <= BufferSize
          /\ Minus(m0_count, m4_count)' = Minus(m0_count, m4_count) + 1
      BY <1>2, <2>2 DEF EndCopy, RxOrder, Modes, InLoop, Plus, Minus
    <3> QED
      BY <2>1, <2>2, <3>1, Mapping DEF Stream!Next, Stream!Receive, Stream!Put
  <2>3. CASE Open /\ mode = "TX"
    <3>1. /\ 1 <= Minus(m4_count, m0_count)
          /\ Minus(m4_count, m0_count)' = Minus(m4_count, m0_count) - 1
      BY <1>2, <2>3 DEF EndCopy, TxOrder, Modes, InLoop, Plus, Minus
    <3> QED
      BY <2>1, <2>3, <3>1, Mapping DEF Stream!Next, Stream!Transmit, Stream!Take
  <2>4. CASE ~Open
    BY <2>1, <2>4, Unseen
  <2> QED
    BY <2>2, <2>3, <2>4
<1>3. CASE ~TakeRequest /\ ~EndCopy
  <2>1. UNCHANGED <<mode, countVars>>
    BY <1>3
    DEF M0Next, ClearFlag, AckRequest, MissedDeadline, InTime, Exchanged, OnRequest,
        StartCopy, SendZeros, Shortfall
  <2>2. (Open' <=> Open)
    BY <1>3
    DEF M0Next, ClearFlag, AckRequest, MissedDeadline, InTime, Exchanged, OnRequest,
        StartCopy, SendZeros, Shortfall, Handshake, InLoop
  <2> QED
    BY <2>1, <2>2, Unseen
<1> QED
  BY <1>1, <1>2, <1>3

\* A completed transfer moves as much as it carries.
LEMMA IsrRefines ==
  ASSUME IInv, IsrNext
  PROVE  Stream!Next \/ UNCHANGED Stream!svars
<1> USE SizeFacts
    DEF IInv, TypeOK, TransceiverTypeOK, M0TypeOK, M0DataOK, HostDataOK, LoopDataOK, Counts,
        None, Queues, Open, Early, Taken, Asking, Starting, Running, Streams, Stopping
<1>1. CASE BulkInComplete
  <2>1. (Open' <=> Open) /\ mode' = mode /\ mode # "TX"
    BY <1>1 DEF BulkInComplete
  <2>2. CASE Open
    <3>1. /\ TransferSize <= Minus(m0_count, m4_count)
          /\ Minus(m0_count, m4_count)' = Minus(m0_count, m4_count) - TransferSize
      BY <1>1, <2>1, <2>2 DEF BulkInComplete, RxOrder, Plus, Minus
    <3> QED
      BY <2>1, <2>2, <3>1, Mapping DEF Stream!Next, Stream!Receive, Stream!Take
  <2> QED
    BY <2>1, <2>2, Unseen
<1>2. CASE \E n \in OutSizes : BulkOutComplete(n)
  <2>1. PICK n \in 0 .. TransferSize : BulkOutComplete(n)
    BY <1>2, OutAssumption
  <2>2. (Open' <=> Open) /\ mode' = mode /\ mode = "TX"
    BY <2>1 DEF BulkOutComplete
  <2>3. CASE Open
    <3>1. /\ Minus(m4_count, m0_count) + n <= BufferSize
          /\ Minus(m4_count, m0_count)' = Minus(m4_count, m0_count) + n
      BY <2>1, <2>2, <2>3 DEF BulkOutComplete, TxOrder, Plus, Minus
    <3> QED
      BY <2>2, <2>3, <3>1, Mapping DEF Stream!Next, Stream!Transmit, Stream!Put
  <2> QED
    BY <2>2, <2>3, Unseen
<1>3. CASE HostNext /\ UNCHANGED loopVars
  BY <1>3, Unseen DEF HostNext, RequestMode, SetOverrunLimit, SetUnderrunLimit
<1> QED
  BY <1>1, <1>2, <1>3 DEF IsrNext

\* The main loop moves no sample; only transceiver_shutdown() closes.
LEMMA MainRefines ==
  ASSUME IInv, MainNext
  PROVE  Stream!Next \/ UNCHANGED Stream!svars
<1> USE DEF IInv, Open, Early, Taken, Asking, Starting, Running
<1>1. CASE DisableStreaming
  <2>1. Open /\ ~Open'
    BY <1>1 DEF DisableStreaming
  <2> QED
    BY <2>1, Mapping DEF Stream!Next, Stream!Close
<1>2. CASE TransceiverNext /\ ~DisableStreaming /\ UNCHANGED loopVars
  <2>1. (Open' <=> Open)
    BY <1>2
    DEF TransceiverNext, ReadRequest, LeaveOff, Startup, SetFlag, WaitAck, SetLimit,
        ShutdownFlush, RadioOff, WriteRequest, Handshake, Idling
  <2>2. Open => UNCHANGED <<mode, countVars>>
    BY <1>2
    DEF TransceiverNext, ReadRequest, LeaveOff, Startup, SetFlag, WaitAck, SetLimit,
        ShutdownFlush, RadioOff, WriteRequest
  <2> QED
    BY <2>1, <2>2, Unseen
<1>3. CASE ModeNext
  <2>1. (Open' <=> Open) /\ UNCHANGED <<mode, countVars>>
    BY <1>3
    DEF ModeNext, RxBegin, RxReady, RxSchedule, TxBegin, TxStart, TxReady, TxSchedule,
        LeaveLoop, EnableStreaming
  <2> QED
    BY <2>1, Unseen
<1> QED
  BY <1>1, <1>2, <1>3 DEF MainNext

\* Every step of the transceiver is a step of the stream or a stutter.
LEMMA StepRefines == ASSUME IInv, Next PROVE Stream!Next \/ UNCHANGED Stream!svars
<1>1. CASE CodecNext
  BY <1>1, Unseen
  DEF CodecNext, SgpioExchange, Open, Early, Taken, Asking, Starting, Running
<1> QED
  BY <1>1, CoreRefines, IsrRefines, MainRefines DEF Next

\* The transceiver implements the bounded buffer for every size of buffer and
\* counter, every limit and every way the host cuts its transfers.
THEOREM Refinement == Spec => ImplementsStream
<1>1. Init => Stream!Init
  <2>1. Init => ~Open
    BY DEF Init, TransceiverInit, Open, Early, Taken, Asking, Starting, Running
  <2> QED
    BY <2>1, Mapping DEF Stream!Init
<1>2. IInv /\ [Next]_vars => [Stream!Next]_(Stream!svars)
  <2>1. ASSUME UNCHANGED vars PROVE UNCHANGED Stream!svars
    BY <2>1, Unseen DEF vars, Open, Early, Taken, Asking, Starting, Running
  <2> QED
    BY <2>1, StepRefines
<1> QED
  BY <1>1, <1>2, Invariance, PTL DEF Spec, ImplementsStream, Stream!Spec

=============================================================================
