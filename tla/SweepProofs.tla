---------------------------- MODULE SweepProofs ----------------------------
(***************************************************************************)
(* The safety properties of Sweep, proved for transfers and counters of     *)
(* every size, plans and dwells of every length and both numbers of         *)
(* discarded blocks: LoopInv is inductive, and each property follows.       *)
(* One lemma per conjunct; in each, one step per actor.                     *)
(***************************************************************************)
EXTENDS SweepInv, TLAPS

USE DEF IDLE, WAIT, RX, TX_START, TX_RUN,
        ERROR_NONE, ERROR_RX_TIMEOUT, ERROR_TX_TIMEOUT, ERROR_MISSED_DEADLINE
USE DEF requestVars, modeVars, countVars, statVars, m0Vars, hostVars, mainVars, bulkVars,
        m4Vars, sweepVars

-----------------------------------------------------------------------------
(* The sizes and the counters *)

\* Multiplication distributes over the sum.
LEMMA Distributive ==
  ASSUME NEW n \in Int, NEW a \in Int, NEW b \in Int
  PROVE  n * (a + b) = n * a + n * b
OBVIOUS

\* A division leaves a quotient and a remainder ...
LEMMA Division ==
  ASSUME NEW n \in Nat \ {0}, NEW x \in Int
  PROVE  /\ x \div n \in Int /\ n * (x \div n) \in Int
         /\ x % n \in 0 .. n - 1
         /\ x = n * (x \div n) + (x % n)
OBVIOUS

\* ... and the remainder is determined by its range.
LEMMA Remainder ==
  ASSUME NEW n \in Nat \ {0}, NEW k \in Int, NEW r \in 0 .. n - 1
  PROVE  (n * k + r) % n = r
OBVIOUS

\* So is the quotient.
LEMMA Quotient ==
  ASSUME NEW n \in Nat \ {0}, NEW k \in Int, NEW r \in 0 .. n - 1
  PROVE  (n * k + r) \div n = k
OBVIOUS

\* Adding a multiple does not change the remainder.
LEMMA AddMultiple ==
  ASSUME NEW n \in Nat \ {0}, NEW x \in Int, NEW m \in Int, m % n = 0
  PROVE  (x + m) % n = x % n
<1> DEFINE q == x \div n
           w == m \div n
           r == x % n
<1>1. q \in Int /\ w \in Int /\ r \in 0 .. n - 1 /\ x + m = n * (q + w) + r
  BY Division
<1> HIDE DEF q, r, w
<1>2. (n * (q + w) + r) % n = r
  BY <1>1, Remainder
<1> QED
  BY <1>1, <1>2 DEF r

\* What the proofs use of the sizes: a counter holds four transfers.
LEMMA SizeFacts ==
  /\ TransferSize \in Nat /\ TransferSize >= 2 /\ BufferSize = 2 * TransferSize
  /\ CountMod \in Nat /\ CountMod >= 4 * TransferSize
  /\ 0 \in Counts /\ TransferSize \in Counts
BY SizeAssumption, SweepAssumption DEF BufferSize, Counts

\* The M0 discards one block or two; the next one begins after them and the
\* captured one.
OneDiscarded ==
  THROWAWAY_BUFFERS = 1 /\ Discarded = TransferSize /\ BlockCredit = 2 * TransferSize
TwoDiscarded ==
  THROWAWAY_BUFFERS = 2 /\ Discarded = 2 * TransferSize /\ BlockCredit = 3 * TransferSize

\* The two builds: one discarded block or two, with buffers and counters to match.
LEMMA DiscardFacts == ASSUME TypeOK PROVE OneDiscarded \/ TwoDiscarded
<1>1. TransferSize \in Nat /\ THROWAWAY_BUFFERS \in {1, 2}
  BY SizeFacts, SweepAssumption DEF TypeOK
<1>2. CASE THROWAWAY_BUFFERS = 1
  BY <1>1, <1>2 DEF OneDiscarded, Discarded, BlockCredit
<1>3. CASE THROWAWAY_BUFFERS = 2
  BY <1>1, <1>3 DEF TwoDiscarded, Discarded, BlockCredit
<1> QED
  BY <1>1, <1>2, <1>3

\* The build fixes them.
LEMMA FixedSizes ==
  ASSUME Next
  PROVE  /\ THROWAWAY_BUFFERS' = THROWAWAY_BUFFERS
         /\ Discarded' = Discarded /\ BlockCredit' = BlockCredit
BY DEF Next, Discarded, BlockCredit

\* Advancing a counter keeps it within its width.
LEMMA AdvanceType ==
  ASSUME NEW a \in Counts, NEW n \in 0 .. 3 * TransferSize
  PROVE  Plus(a, n) \in Counts
BY SizeFacts DEF Counts, Plus

\* The position n past a, in the buffer.
LEMMA PositionOffset ==
  ASSUME NEW a \in Counts, NEW n \in 0 .. 3 * TransferSize,
         NEW q \in Int, NEW r \in 0 .. BufferSize - 1,
         (a % BufferSize) + n = BufferSize * q + r
  PROVE  Plus(a, n) % BufferSize = r
<1>1. BufferSize \in Nat \ {0} /\ CountMod \in Nat /\ a \in Nat /\ n \in Nat
      /\ CountMod % BufferSize = 0
  BY SizeFacts, SizeAssumption DEF Counts
<1> DEFINE d == a \div BufferSize
<1>2. d \in Int /\ BufferSize * d \in Int /\ a = BufferSize * d + (a % BufferSize)
  BY <1>1, Division
<1> HIDE DEF d
<1>3. BufferSize * (d + q) = BufferSize * d + BufferSize * q /\ BufferSize * q \in Int
      /\ d + q \in Int
  BY <1>1, <1>2, Distributive
<1>4. a + n = BufferSize * (d + q) + r
  BY <1>1, <1>2, <1>3
<1>5. (BufferSize * (d + q) + r) % BufferSize = r
  BY <1>1, <1>3, Remainder
<1>6. CASE Plus(a, n) = a + n
  BY <1>4, <1>5, <1>6
<1>7. CASE Plus(a, n) = a + n - CountMod
  <2> DEFINE c == Plus(a, n)
  <2>1. c \in Int /\ c + CountMod = a + n /\ CountMod \in Int
    BY <1>1, <1>7
  <2> HIDE DEF c
  <2>2. (c + CountMod) % BufferSize = c % BufferSize
    BY <1>1, <2>1, AddMultiple
  <2>3. (c + CountMod) % BufferSize = r
    BY <1>4, <1>5, <2>1
  <2> QED
    BY <2>2, <2>3 DEF c
<1> QED
  BY <1>6, <1>7 DEF Plus

\* Where a block that fills the half p of the buffer starts.
Start(p) == IF p = 0 THEN 0 ELSE TransferSize

\* Where the two halves of the bulk buffer begin.
LEMMA StartFacts ==
  ASSUME NEW p \in {0, 1}
  PROVE  Start(p) = p * TransferSize /\ Start(p) \in 0 .. TransferSize
BY SizeFacts DEF Start

\* The half of the buffer a position in a block is in, and where the block
\* starts.
LEMMA HalfOf ==
  ASSUME NEW a \in Counts, NEW p \in {0, 1}, NEW k \in 0 .. TransferSize - 1,
         a % BufferSize = Start(p)
  PROVE  /\ Half(Plus(a, k)) = p
         /\ Plus(a, k) % TransferSize = 0 <=> k = 0
<1>1. TransferSize \in Nat \ {0} /\ k \in 0 .. 3 * TransferSize
      /\ BufferSize = 2 * TransferSize /\ CountMod \in Nat /\ BufferSize \in Nat \ {0}
  BY SizeFacts
<1> DEFINE r == Start(p) + k
           c == Plus(a, k)
           d == c \div BufferSize
<1>2. r \in 0 .. BufferSize - 1 /\ BufferSize * 0 + r = r
      /\ r = TransferSize * p + k
  BY <1>1, StartFacts DEF Start
<1>3. c % BufferSize = r
  <2>1. (a % BufferSize) + k = BufferSize * 0 + r /\ 0 \in Int
    BY <1>2
  <2> HIDE DEF r
  <2> QED
    BY <1>1, <1>2, <2>1, PositionOffset
<1>4. (TransferSize * p + k) \div TransferSize = p
  BY <1>1, Quotient
<1>5. Half(c) = p
  BY <1>2, <1>3, <1>4 DEF Half
<1>6. c \in Int
  BY <1>1, AdvanceType DEF Counts
<1> HIDE DEF c, r
<1>7. d \in Int /\ BufferSize * d \in Int /\ c = BufferSize * d + r
  BY <1>1, <1>3, <1>6, Division
<1> HIDE DEF d
<1>8. TransferSize * (d + d) = TransferSize * d + TransferSize * d
      /\ TransferSize * ((d + d) + p) = TransferSize * (d + d) + TransferSize * p
      /\ (d + d) + p \in Int
  BY <1>1, <1>7, Distributive
<1>9. BufferSize * d = TransferSize * d + TransferSize * d
  BY <1>1, <1>7
<1>10. c = TransferSize * ((d + d) + p) + k
  BY <1>1, <1>2, <1>7, <1>8, <1>9
<1>11. (TransferSize * ((d + d) + p) + k) % TransferSize = k
  BY <1>1, <1>8, Remainder
<1> QED
  BY <1>5, <1>10, <1>11 DEF c

\* From one block to the next: the half stays when one block is discarded, and
\* alternates when two are.
LEMMA NextBlock ==
  ASSUME NEW a \in Counts, NEW p \in {0, 1}, a % BufferSize = Start(p)
  PROVE  /\ Plus(a, 2 * TransferSize) % BufferSize = Start(p)
         /\ Plus(a, 3 * TransferSize) % BufferSize = Start(1 - p)
<1> DEFINE two == 2 * TransferSize
           three == 3 * TransferSize
<1>1. two \in 0 .. 3 * TransferSize /\ three \in 0 .. 3 * TransferSize
  BY SizeFacts
<1>2. /\ Start(p) \in 0 .. BufferSize - 1 /\ Start(1 - p) \in 0 .. BufferSize - 1
      /\ Start(p) + two = BufferSize * 1 + Start(p)
      /\ Start(p) + three = BufferSize * (1 + p) + Start(1 - p)
      /\ 1 \in Int /\ 1 + p \in Int
  BY SizeFacts DEF Start
<1> HIDE DEF two, three
<1>3. Plus(a, two) % BufferSize = Start(p)
  BY <1>1, <1>2, PositionOffset
<1>4. Plus(a, three) % BufferSize = Start(1 - p)
  BY <1>1, <1>2, PositionOffset
<1> QED
  BY <1>3, <1>4 DEF two, three

-----------------------------------------------------------------------------
(* The inductive invariant holds at first *)

\* The initial state: both cores idle, nothing queued, counts at 0.
LEMMA InitInv == Init => LoopInv
<1> SUFFICES ASSUME Init PROVE LoopInv
  OBVIOUS
<1> USE SizeFacts DEF Init, TransceiverInit, M0Init
<1>1. M0DataOK /\ HostDataOK
  BY DEF M0DataOK, HostDataOK, M0Modes, None
<1>2. /\ request_flag \in BOOLEAN /\ sgpio_flag \in BOOLEAN /\ streaming \in BOOLEAN
      /\ current \in BOOLEAN
  OBVIOUS
<1>3. TypeOK
  <2>1. 0 \in 0 .. DwellBlocks - 1 /\ 0 \in 0 .. Frequencies - 1
    BY SweepAssumption
  <2>2. Discarded \in Nat
    BY SweepAssumption DEF Discarded
  <2> QED
    BY <1>1, <1>2, <2>1, <2>2
    DEF TypeOK, TransceiverTypeOK, M0TypeOK, None, NoLabel, Settling, Halves
<1>4. Handshake /\ Modes /\ Tuned
  BY DEF Handshake, Modes, Tuned, Idling, Asking, Starting, Looping, Leaving, InLoop, Taken
<1>5. Opening /\ Position /\ Round /\ Queued
  BY DEF Opening, Position, Round, Queued, Early, Taken, Asking, Starting, Looping, None
<1>6. BlocksLabelled /\ SwitchAhead
  BY DEF BlocksLabelled, SwitchAhead, Waiting, None
<1> QED
  BY <1>3, <1>4, <1>5, <1>6 DEF LoopInv

-----------------------------------------------------------------------------
(* Every step keeps each part of it *)

\* Types of the flags: what is assigned to them is TRUE or FALSE.
LEMMA FlagStep ==
  ASSUME TypeOK, Next
  PROVE  /\ request_flag' \in BOOLEAN /\ sgpio_flag' \in BOOLEAN
         /\ streaming' \in BOOLEAN /\ current' \in BOOLEAN
<1> USE DEF TypeOK, TransceiverTypeOK, M0TypeOK, Next,
            SweepCore, M0Next, TakeRequest, ResetCounts, ClearFlag, AckRequest,
            MissedDeadline, InTime, Exchanged, OnRequest, StartCopy, EndCopy, SendZeros,
            Shortfall, SweepCodec, SgpioExchange,
            IsrNext, HostNext, RequestMode, SetOverrunLimit, SetUnderrunLimit,
            SweepBulkComplete,
            MainNext, TransceiverNext, ReadRequest, LeaveOff, Startup, SetFlag, WaitAck,
            SetLimit, DisableStreaming, ShutdownFlush, RadioOff, WriteRequest,
            SweepNext, FirstThreshold, FirstNext, Enable, Test, ResumeThreshold,
            ResumeNext, WriteMetadata, ScheduleBlock, Retune, BlockThreshold, BlockNext,
            SetThreshold, SetNextMode, M0Rest
<1>1. request_flag' \in BOOLEAN
  OBVIOUS
<1>2. sgpio_flag' \in BOOLEAN
  OBVIOUS
<1>3. streaming' \in BOOLEAN
  OBVIOUS
<1>4. current' \in BOOLEAN
  OBVIOUS
<1> QED
  BY <1>1, <1>2, <1>3, <1>4

\* Types of what the two cores share: the counters stay within their width.
LEMMA SharedTypeStep == ASSUME TypeOK, Next PROVE M0DataOK' /\ HostDataOK'
<1> USE DEF TypeOK, TransceiverTypeOK, M0TypeOK, M0DataOK, HostDataOK, M0Modes
<1>1. /\ Plus(m0_count, 1) \in Counts /\ Plus(m4_count, BlockCredit) \in Counts
      /\ Plus(threshold, TransferSize) \in Counts /\ Plus(threshold, Discarded) \in Counts
      /\ TransferSize \in Counts /\ 0 \in Counts
  <2>1. /\ 1 \in 0 .. 3 * TransferSize /\ BlockCredit \in 0 .. 3 * TransferSize
        /\ TransferSize \in 0 .. 3 * TransferSize /\ Discarded \in 0 .. 3 * TransferSize
    BY SizeFacts, DiscardFacts DEF OneDiscarded, TwoDiscarded
  <2> QED
    BY <2>1, AdvanceType, SizeFacts
<1>2. CASE SweepCore
  BY <1>1, <1>2
  DEF SweepCore, M0Next, TakeRequest, ResetCounts, ClearFlag, AckRequest, Dispatch,
      MissedDeadline, InTime, Exchanged, OnRequest, StartCopy, EndCopy, SendZeros,
      Shortfall, NewLength
<1>3. CASE SweepCodec
  BY <1>3 DEF SweepCodec, SgpioExchange
<1>4. CASE IsrNext
  BY <1>1, <1>4, HostAssumption
  DEF IsrNext, HostNext, RequestMode, SetOverrunLimit, SetUnderrunLimit, FlushBulk,
      SweepBulkComplete
<1>5. CASE TransceiverNext /\ UNCHANGED sweepVars
  BY <1>5
  DEF TransceiverNext, ReadRequest, LeaveOff, Startup, SetFlag, WaitAck, SetLimit,
      DisableStreaming, ShutdownFlush, RadioOff, WriteRequest, FlushBulk
<1>6. CASE SweepNext
  <2>1. phase * TransferSize \in Counts
    BY SizeFacts DEF Halves, Counts
  <2> QED
    BY <1>1, <1>6, <2>1
    DEF SweepNext, FirstThreshold, FirstNext, Enable, Test, ResumeThreshold, ResumeNext,
        WriteMetadata, ScheduleBlock, Retune, BlockThreshold, BlockNext, SetThreshold,
        SetNextMode, M0Rest
<1> QED
  BY <1>2, <1>3, <1>4, <1>5, <1>6 DEF Next, MainNext

\* Types of what the sweep keeps for itself.
LEMMA SweepTypeStep ==
  ASSUME TypeOK, Next
  PROVE  /\ bulk_in' \in {None, 0, TransferSize} /\ bulk_out' = None
         /\ blocks_queued' \in 0 .. DwellBlocks - 1 /\ phase' \in Halves
         /\ sweep_freq' \in 0 .. Frequencies - 1
         /\ tuned' \in 0 .. Frequencies - 1 \cup {Settling}
         /\ content' \in [Halves -> SUBSET (0 .. Frequencies - 1 \cup {Settling})]
         /\ label' \in [Halves -> 0 .. Frequencies - 1 \cup {NoLabel}]
         /\ lag' \in 0 .. Discarded
<1> DEFINE Kept == /\ bulk_in' \in {None, 0, TransferSize} /\ bulk_out' = None
                   /\ blocks_queued' \in 0 .. DwellBlocks - 1 /\ phase' \in Halves
                   /\ sweep_freq' \in 0 .. Frequencies - 1
                   /\ tuned' \in 0 .. Frequencies - 1 \cup {Settling}
           Buffered ==
             /\ content' \in [Halves -> SUBSET (0 .. Frequencies - 1 \cup {Settling})]
             /\ label' \in [Halves -> 0 .. Frequencies - 1 \cup {NoLabel}]
           Lag == lag' \in 0 .. Discarded
<1>1. Discarded \in Nat /\ TransferSize \in Nat /\ Discarded >= TransferSize
  BY SizeFacts, DiscardFacts DEF OneDiscarded, TwoDiscarded
<1>2. CASE SweepCore
  <2>1. Kept
    BY <1>2 DEF SweepCore, TypeOK, Radio
  <2>2. Buffered
    <3>1. CASE StartCopy /\ Copied
      BY <3>1, <1>2 DEF Copied, TypeOK
    <3>2. CASE UNCHANGED Buffers
      BY <3>2 DEF Buffers, TypeOK
    <3> QED
      BY <1>2, <3>1, <3>2 DEF SweepCore
  <2>3. Lag
    BY <1>1, <1>2 DEF SweepCore, TypeOK
  <2> QED
    BY <2>1, <2>2, <2>3
<1>3. CASE SweepCodec
  <2>1. Lag
    BY <1>1, <1>3 DEF SweepCodec, TypeOK, Allowance
  <2> QED
    BY <1>3, <2>1 DEF SweepCodec, TypeOK, Radio, Buffers
<1>4. CASE IsrNext
  BY <1>4
  DEF TypeOK, IsrNext, HostNext, RequestMode, SetOverrunLimit, SetUnderrunLimit, FlushBulk,
      SweepBulkComplete
<1>5. CASE TransceiverNext /\ UNCHANGED sweepVars
  BY <1>5
  DEF TypeOK, TransceiverNext, ReadRequest, LeaveOff, Startup, SetFlag, WaitAck, SetLimit,
      DisableStreaming, ShutdownFlush, RadioOff, WriteRequest, FlushBulk
<1>6. CASE SweepNext
  <2>1. CASE ScheduleBlock
    <3>1. phase * TransferSize \in {0, TransferSize}
      BY <1>1 DEF TypeOK, Halves
    <3>2. NextPhase \in Halves
      BY DiscardFacts DEF OneDiscarded, TwoDiscarded, NextPhase, TypeOK, Halves
    <3>3. (sweep_freq + 1) % Frequencies \in 0 .. Frequencies - 1
      BY SweepAssumption, Division DEF TypeOK
    <3>4. blocks_queued' \in 0 .. DwellBlocks - 1
      BY <2>1, SweepAssumption DEF ScheduleBlock, DwellOver, TypeOK
    <3> QED
      BY <2>1, <3>1, <3>2, <3>3, <3>4 DEF ScheduleBlock, TypeOK, Radio, Buffers
  <2>2. CASE WriteMetadata
    BY <2>2 DEF WriteMetadata, TypeOK, Radio
  <2>3. CASE Enable \/ Retune
    <3>1. 0 \in Halves /\ 0 \in 0 .. DwellBlocks - 1
      BY SweepAssumption DEF Halves
    <3> QED
      BY <2>3, <3>1 DEF Enable, Retune, TypeOK, Radio, Buffers
  <2>4. CASE \/ FirstThreshold \/ FirstNext \/ Test \/ ResumeThreshold \/ ResumeNext
             \/ BlockThreshold \/ BlockNext
    BY <2>4
    DEF TypeOK, FirstThreshold, FirstNext, Test, ResumeThreshold, ResumeNext,
        BlockThreshold, BlockNext, SetThreshold, SetNextMode
  <2> QED
    BY <1>6, <2>1, <2>2, <2>3, <2>4 DEF SweepNext
<1> QED
  BY <1>2, <1>3, <1>4, <1>5, <1>6 DEF Next, MainNext

\* Types.
LEMMA TypeStep == ASSUME TypeOK, Next PROVE TypeOK'
BY FlagStep, SharedTypeStep, SweepTypeStep, FixedSizes
DEF TypeOK, TransceiverTypeOK, M0TypeOK

\* The handshake: only m0_set_mode() makes a request, and the M0 answers it
\* from its idle loop.
LEMMA HandshakeStep == ASSUME LoopInv, Next PROVE Handshake'
<1> USE DEF LoopInv, TypeOK, TransceiverTypeOK, M0TypeOK, M0DataOK, M0Modes, HostDataOK,
            Handshake, Modes, Idling, Asking, InLoop, Starting, Leaving, Looping, Taken
<1>1. CASE SweepCore
  BY <1>1
  DEF SweepCore, M0Next, TakeRequest, ResetCounts, ClearFlag, AckRequest, Dispatch,
      MissedDeadline, InTime, Exchanged, OnRequest, StartCopy, EndCopy, AtThreshold,
      SendZeros, Shortfall
<1>2. CASE SweepCodec
  BY <1>2 DEF SweepCodec, SgpioExchange
<1>3. CASE IsrNext
  BY <1>3
  DEF IsrNext, HostNext, RequestMode, SetOverrunLimit, SetUnderrunLimit, FlushBulk,
      SweepBulkComplete
<1>4. CASE TransceiverNext /\ UNCHANGED sweepVars
  BY <1>4, SweepAssumption
  DEF TransceiverNext, ReadRequest, LeaveOff, Startup, SetFlag, WaitAck, SetLimit,
      DisableStreaming, ShutdownFlush, RadioOff, WriteRequest, FlushBulk, M0Settled
<1>5. CASE SweepNext
  BY <1>5
  DEF SweepNext, FirstThreshold, FirstNext, Enable, Test, Continue, Captured, Resumed,
      Abandon, ResumeThreshold, ResumeNext, WriteMetadata, ScheduleBlock, Retune,
      BlockThreshold, BlockNext, Goto, SetThreshold, SetNextMode, M0Rest
<1> QED
  BY <1>1, <1>2, <1>3, <1>4, <1>5 DEF Next, MainNext

\* The modes of the M0: it takes them from the request, from next_mode, or
\* stops; the sweep programs only RX and WAIT.
LEMMA ModesStep == ASSUME LoopInv, Next PROVE Modes'
<1> USE DEF LoopInv, TypeOK, TransceiverTypeOK, M0TypeOK, M0DataOK, M0Modes, HostDataOK,
            Handshake, Modes, Idling, Asking, InLoop, Starting, Leaving, Looping, Taken
<1>1. CASE SweepCore
  <2>1. CASE TakeRequest \/ ClearFlag \/ AckRequest
    BY <1>1, <2>1 DEF TakeRequest, ResetCounts, ClearFlag, AckRequest, Dispatch, SweepCore
  <2>2. CASE MissedDeadline \/ Shortfall
    BY <1>1, <2>2 DEF MissedDeadline, Shortfall, Blocked, SweepCore
  <2>3. CASE InTime \/ Exchanged \/ OnRequest \/ StartCopy \/ SendZeros
    BY <1>1, <2>3 DEF InTime, Exchanged, OnRequest, StartCopy, SendZeros, SweepCore
  <2>4. CASE EndCopy
    BY <1>1, <2>4 DEF EndCopy, Dispatch, SweepCore
  <2> QED
    BY <1>1, <2>1, <2>2, <2>3, <2>4 DEF SweepCore, M0Next
<1>2. CASE SweepCodec
  BY <1>2 DEF SweepCodec, SgpioExchange
<1>3. CASE IsrNext
  BY <1>3
  DEF IsrNext, HostNext, RequestMode, SetOverrunLimit, SetUnderrunLimit, FlushBulk,
      SweepBulkComplete
<1>4. CASE TransceiverNext /\ UNCHANGED sweepVars
  BY <1>4
  DEF TransceiverNext, ReadRequest, LeaveOff, Startup, SetFlag, WaitAck, SetLimit,
      DisableStreaming, ShutdownFlush, RadioOff, WriteRequest, FlushBulk, M0Settled
<1>5. CASE SweepNext
  BY <1>5
  DEF SweepNext, FirstThreshold, FirstNext, Enable, Test, Continue, Captured, Resumed,
      Abandon, ResumeThreshold, ResumeNext, WriteMetadata, ScheduleBlock, Retune,
      BlockThreshold, BlockNext, Goto, SetThreshold, SetNextMode, M0Rest
<1> QED
  BY <1>1, <1>2, <1>3, <1>4, <1>5 DEF Next, MainNext

\* The M0 does not switch before the M4 waits for it: the threshold is not yet
\* set, or still ahead.
LEMMA NoEarlySwitch ==
  ASSUME LoopInv, Behind, active_mode # IDLE, EndCopy
  PROVE  active_mode' = active_mode /\ ~AtThreshold
<1>1. /\ m0_count \in Counts /\ threshold \in Counts /\ CountMod \in Nat
      /\ Stretch \in Nat /\ lag \in Nat
  BY SizeFacts, DiscardFacts
  DEF OneDiscarded, TwoDiscarded, LoopInv, TypeOK, TransceiverTypeOK, M0TypeOK, M0DataOK,
      Stretch
<1>2. Looping /\ Passed + InFlight <= lag /\ lag < Stretch
  BY DEF LoopInv, Position, Behind
<1>3. InFlight = 1
  BY DEF EndCopy, InFlight
<1>4. CASE Unset
  <2>1. Minus(m0_count, threshold) + 1 <= lag /\ Stretch < CountMod
    BY <1>1, <1>2, <1>3, <1>4, SizeFacts, DiscardFacts
    DEF Passed, OneDiscarded, TwoDiscarded, LoopInv, Stretch
  <2>2. Plus(m0_count, 1) # threshold
    BY <1>1, <1>2, <2>1 DEF Plus, Minus, Counts
  <2> QED
    BY <2>2 DEF EndCopy, AtThreshold
<1>5. CASE ~Unset
  <2>1. Minus(threshold, m0_count) \in Nat
    BY <1>1 DEF Minus, Counts
  <2>2. Minus(threshold, m0_count) > 1
    BY <1>1, <1>2, <1>3, <1>5, <2>1 DEF Passed
  <2>3. Plus(m0_count, 1) # threshold
    BY <1>1, <2>2, SizeFacts DEF Plus, Minus, Counts
  <2> QED
    BY <2>3 DEF EndCopy, AtThreshold
<1> QED
  BY <1>4, <1>5

\* The radio settles before a block is captured.
LEMMA TunedStep == ASSUME LoopInv, Next PROVE Tuned'
<1> USE DEF LoopInv, Tuned
<1>1. CASE SweepCore
  <2>1. pc4' = pc4 /\ tuned' = tuned /\ sweep_freq' = sweep_freq
    BY <1>1 DEF SweepCore, Radio
  <2>2. ASSUME pc4 = "retune" PROVE active_mode' # RX
    <3>1. CASE EndCopy /\ active_mode # IDLE
      BY <2>2, <3>1, NoEarlySwitch DEF Behind, Waiting, Looping
    <3>2. CASE EndCopy /\ active_mode = IDLE
      BY <3>2 DEF EndCopy, Modes, InLoop
    <3>3. CASE M0Next /\ ~EndCopy
      BY <2>2, <3>3
      DEF M0Next, TakeRequest, ClearFlag, AckRequest, MissedDeadline, InTime, Exchanged,
          OnRequest, StartCopy, SendZeros, Shortfall, Handshake, Asking
    <3> QED
      BY <1>1, <3>1, <3>2, <3>3 DEF SweepCore
  <2> QED
    BY <2>1, <2>2
<1>2. CASE SweepCodec
  BY <1>2 DEF SweepCodec, SgpioExchange, Radio
<1>3. CASE IsrNext
  BY <1>3
  DEF IsrNext, HostNext, RequestMode, SetOverrunLimit, SetUnderrunLimit, SweepBulkComplete
<1>4. CASE TransceiverNext /\ UNCHANGED sweepVars
  BY <1>4
  DEF TransceiverNext, ReadRequest, LeaveOff, Startup, SetFlag, WaitAck, SetLimit,
      DisableStreaming, ShutdownFlush, RadioOff, WriteRequest
<1>5. CASE SweepNext
  <2>1. CASE ScheduleBlock
    <3>1. active_mode # RX
      BY <2>1 DEF ScheduleBlock, Position, Looping
    <3> QED
      BY <2>1, <3>1 DEF ScheduleBlock, Radio
  <2> QED
    BY <1>5, <2>1
    DEF SweepNext, FirstThreshold, FirstNext, Enable, Test, Continue, Captured, Resumed,
        Abandon, ResumeThreshold, ResumeNext, WriteMetadata, Retune, BlockThreshold,
        BlockNext, Goto, SetThreshold, SetNextMode, M0Rest, Radio
<1> QED
  BY <1>1, <1>2, <1>3, <1>4, <1>5 DEF Next, MainNext

\* What a copy does to the buffer: the first one of a half begins its content
\* anew, the others add to it.
LEMMA CopiedHalf ==
  ASSUME LoopInv, Copied, NEW h \in Halves, Half(m0_count) = h,
         m0_count % TransferSize = 0 \/ content[h] = {tuned}
  PROVE  content'[h] = {tuned}
BY DEF Copied, LoopInv, TypeOK

\* The opening: the M0 may complete one exchange before the codec streams,
\* and is in the first block.
LEMMA OpeningStep == ASSUME LoopInv, Next PROVE Opening'
<1> USE DEF LoopInv, Opening, Early, Taken, Starting, Asking
<1>1. CASE SweepCore
  <2> DEFINE Rest == /\ pc4' = pc4 /\ sweep_freq' = sweep_freq /\ m4_count' = m4_count
                     /\ threshold' = threshold /\ next_mode' = next_mode
                     /\ requested_mode' = requested_mode
  <2>1. CASE TakeRequest
    <3>1. Early' => requested_mode = RX /\ pc4 \in {"set_flag", "wait_ack"}
      BY <1>1, <2>1 DEF SweepCore, TakeRequest, Handshake
    <3> QED
      BY <1>1, <2>1, <3>1 DEF SweepCore, TakeRequest, ResetCounts, Late, InLoop
  <2>2. CASE ClearFlag \/ AckRequest
    BY <1>1, <2>2
    DEF SweepCore, ClearFlag, AckRequest, Dispatch, Late, InLoop, Handshake, Modes, Buffers,
        StartCopy, Radio
  <2>3. CASE StartCopy
    <3>1. SUFFICES ASSUME Early' PROVE Opening'
      OBVIOUS
    <3>2. Early /\ m0_count = 0 /\ sweep_freq = tuned
      BY <1>1, <2>3, <3>1
      DEF SweepCore, StartCopy, Late, TypeOK, TransceiverTypeOK, M0TypeOK, M0DataOK, Counts,
          Tuned, Radio, Handshake
    <3>3. Half(m0_count) = 0 /\ m0_count % TransferSize = 0 /\ 0 \in Halves
      BY <3>2, SizeFacts DEF Half, Halves
    <3>4. content'[0] = {tuned}
      BY <1>1, <2>3, <3>3, CopiedHalf DEF SweepCore, StartCopy
    <3> QED
      BY <1>1, <2>3, <3>1, <3>2, <3>4 DEF SweepCore, StartCopy, Late, InLoop, Radio
  <2>4. CASE EndCopy
    <3>1. SUFFICES ASSUME Early' PROVE Opening'
      OBVIOUS
    <3>2. Early /\ m0_count + Late <= 1 /\ m0_count \in Counts /\ InLoop
      BY <1>1, <2>4, <3>1
      DEF SweepCore, EndCopy, Dispatch, TypeOK, TransceiverTypeOK, M0TypeOK, M0DataOK, InLoop
    <3>3. m0_count = 0 /\ pc0 = "copy" /\ ~sgpio_flag /\ pc4 # "set_flag"
      BY <2>4, <3>2 DEF EndCopy, Late, Counts
    <3>4. m0_count' = 1 /\ ~AtThreshold
      BY <2>4, <3>2, <3>3, SizeFacts DEF EndCopy, AtThreshold, Plus
    <3> QED
      BY <1>1, <2>4, <3>2, <3>3, <3>4
      DEF SweepCore, EndCopy, Late, InLoop, Dispatch, Radio, Buffers, StartCopy
  <2>5. CASE InTime \/ Exchanged
    BY <1>1, <2>5
    DEF SweepCore, InTime, Exchanged, Late, InLoop, Radio, Buffers, StartCopy, Handshake
  <2>6. CASE MissedDeadline \/ OnRequest \/ SendZeros \/ Shortfall
    BY <1>1, <2>6
    DEF SweepCore, MissedDeadline, OnRequest, SendZeros, Shortfall, Late, InLoop, Radio,
        Buffers, StartCopy, Handshake, TypeOK, TransceiverTypeOK, M0TypeOK, M0DataOK, Counts
  <2> QED
    BY <1>1, <2>1, <2>2, <2>3, <2>4, <2>5, <2>6 DEF SweepCore, M0Next
<1>2. CASE SweepCodec
  BY <1>2 DEF SweepCodec, SgpioExchange, Handshake, Looping
<1>3. CASE IsrNext
  BY <1>3
  DEF IsrNext, HostNext, RequestMode, SetOverrunLimit, SetUnderrunLimit, FlushBulk,
      SweepBulkComplete, Queued, Held, Looping, Leaving, Late, InLoop
<1>4. CASE TransceiverNext /\ UNCHANGED sweepVars
  <2>1. CASE SetFlag
    BY <1>4, <2>1
    DEF SetFlag, Late, InLoop, TypeOK, TransceiverTypeOK, M0TypeOK, M0DataOK, Counts
  <2>2. CASE WaitAck \/ SetLimit
    BY <1>4, <2>2 DEF WaitAck, SetLimit, Late, InLoop
  <2>3. CASE Startup \/ RadioOff
    BY <1>4, <2>3 DEF Startup, RadioOff, WriteRequest, M0Settled, Handshake, Idling
  <2>4. CASE ReadRequest \/ LeaveOff \/ DisableStreaming \/ ShutdownFlush
    BY <1>4, <2>4 DEF ReadRequest, LeaveOff, DisableStreaming, ShutdownFlush
  <2> QED
    BY <1>4, <2>1, <2>2, <2>3, <2>4 DEF TransceiverNext
<1>5. CASE SweepNext
  <2>1. CASE FirstThreshold \/ FirstNext
    BY <2>1
    DEF FirstThreshold, FirstNext, Goto, SetThreshold, SetNextMode, M0Rest, Late, InLoop
  <2>2. CASE ~(FirstThreshold \/ FirstNext)
    BY <1>5, <2>2
    DEF SweepNext, Enable, Test, Continue, Captured, Resumed, Abandon, ResumeThreshold,
        ResumeNext, WriteMetadata, ScheduleBlock, Retune, BlockThreshold, BlockNext, Goto
  <2> QED
    BY <2>1, <2>2
<1> QED
  BY <1>1, <1>2, <1>3, <1>4, <1>5 DEF Next, MainNext

\* What the proofs below use of the types.
LEMMA CountFacts ==
  ASSUME LoopInv
  PROVE  /\ m0_count \in Counts /\ m4_count \in Counts /\ threshold \in Counts
         /\ lag \in Nat /\ Stretch \in Nat /\ Discarded \in Nat
         /\ Stretch >= TransferSize /\ Stretch <= 2 * TransferSize
         /\ Discarded \in {TransferSize, 2 * TransferSize}
         /\ Stretch = IF active_mode = WAIT THEN Discarded ELSE TransferSize
BY SizeFacts, DiscardFacts
DEF OneDiscarded, TwoDiscarded, LoopInv, TypeOK, TransceiverTypeOK, M0TypeOK, M0DataOK, Stretch

\* A step of the M0 within the round: it counts on, and switches at the
\* threshold when the M4 waits for it.
LEMMA PositionCount == ASSUME LoopInv, Next, SweepCore, EndCopy PROVE Position'
<1> SUFFICES ASSUME Looping, active_mode # IDLE, active_mode' # IDLE PROVE Position'
  BY DEF SweepCore, EndCopy, Position, Looping, LoopInv, Modes, InLoop
<1>1. /\ pc4' = pc4 /\ threshold' = threshold /\ m0_count' = Plus(m0_count, 1)
      /\ Discarded' = Discarded /\ pc0' = "await" /\ InFlight' = 0
  BY FixedSizes DEF SweepCore, EndCopy, Dispatch, InFlight
<1>2. active_mode \in {RX, WAIT}
  BY DEF LoopInv, Modes, EndCopy, InLoop
<1>3. CASE Behind
  <2>1. active_mode' = active_mode /\ lag' = lag
    BY <1>3, NoEarlySwitch DEF SweepCore
  <2>2. Stretch' = Stretch /\ (Unset' <=> Unset) /\ (Behind' <=> Behind)
    BY <1>1, <2>1 DEF Stretch, Unset, Behind, Waiting, Looping
  <2>3. Passed + InFlight <= lag /\ lag < Stretch /\ InFlight = 1
    BY <1>3 DEF LoopInv, Position, InFlight, EndCopy
  <2>4. CASE Unset
    <3>1. Minus(m0_count, threshold) + 1 <= lag
      BY <2>3, <2>4 DEF Passed
    <3>2. /\ Minus(m0_count, threshold) \in Int
          /\ Minus(m0_count', threshold) = Minus(m0_count, threshold) + 1
      BY <1>1, <2>3, <3>1, CountFacts, SizeFacts DEF Plus, Minus, Counts
    <3>3. Minus(m0_count', threshold') < Stretch' /\ Passed' + InFlight' <= lag'
      BY <1>1, <2>1, <2>2, <2>3, <2>4, <3>1, <3>2, CountFacts DEF Passed
    <3> QED
      BY <1>1, <2>1, <2>2, <2>3, <2>4, <3>3 DEF LoopInv, Position
  <2>5. CASE ~Unset
    <3>1. Stretch - Minus(threshold, m0_count) + 1 <= lag
          /\ Minus(threshold, m0_count) \in 1 .. Stretch
      BY <2>3, <2>5 DEF Passed, LoopInv, Position
    <3>2. Minus(threshold, m0_count') = Minus(threshold, m0_count) - 1
      BY <1>1, <2>3, <3>1, CountFacts, SizeFacts DEF Plus, Minus, Counts
    <3>3. Minus(threshold', m0_count') \in 1 .. Stretch' /\ Passed' + InFlight' <= lag'
      BY <1>1, <2>1, <2>2, <2>3, <2>5, <3>1, <3>2, CountFacts DEF Passed
    <3> QED
      BY <1>1, <2>1, <2>2, <2>3, <2>5, <3>3 DEF LoopInv, Position
  <2> QED
    BY <2>4, <2>5
<1>4. CASE Waiting
  <2>1. ~Unset /\ Minus(threshold, m0_count) \in 1 .. Stretch
    BY <1>4 DEF LoopInv, Position, Waiting, Unset
  <2>2. CASE AtThreshold
    <3>1. next_mode = IF active_mode = RX THEN WAIT ELSE RX
      BY <1>2, <1>4 DEF LoopInv, Round, Waiting
    <3>2. active_mode' = next_mode /\ active_mode' # active_mode /\ lag' = 0
      BY <1>2, <2>2, <3>1 DEF SweepCore, EndCopy
    <3>3. Unset' /\ Minus(m0_count', threshold') = 0 /\ Stretch' \in Nat /\ Stretch' >= 1
      BY <1>1, <1>2, <1>4, <2>2, <3>1, <3>2, CountFacts, SizeFacts
      DEF Unset, Waiting, AtThreshold, Minus, Counts, Stretch
    <3>4. Minus(m0_count', threshold') < Stretch' /\ Passed' = 0 /\ lag' < Stretch'
      BY <3>2, <3>3, SizeFacts DEF Passed
    <3>5. /\ active_mode' = WAIT => pc4' \notin {"block_threshold", "block_next"}
          /\ active_mode' = RX => pc4' \in {"wait_resumed", "block_threshold", "block_next",
                                            "loop", "wait_captured"}
      BY <1>1, <1>2, <1>4, <3>1, <3>2 DEF Waiting
    <3> QED
      BY <1>1, <3>2, <3>3, <3>4, <3>5 DEF Position
  <2>3. CASE ~AtThreshold
    <3>1. active_mode' = active_mode
      BY <2>3 DEF EndCopy
    <3>2. Stretch' = Stretch /\ ~Unset' /\ Waiting'
      BY <1>1, <1>4, <2>1, <3>1 DEF Stretch, Unset, Waiting
    <3>3. Minus(threshold, m0_count') \in 1 .. Stretch
      BY <1>1, <2>1, <2>3, CountFacts, SizeFacts DEF AtThreshold, Plus, Minus, Counts
    <3> QED
      BY <1>1, <3>1, <3>2, <3>3 DEF LoopInv, Position, Behind
  <2> QED
    BY <2>2, <2>3
<1> QED
  BY <1>3, <1>4 DEF Behind

\* The M0's other steps do not count.
LEMMA PositionCore == ASSUME LoopInv, Next, SweepCore PROVE Position'
<1>1. CASE TakeRequest \/ ClearFlag \/ AckRequest
  BY <1>1
  DEF LoopInv, Handshake, SweepCore, TakeRequest, ClearFlag, AckRequest, Position, Looping,
      Asking
<1>2. CASE MissedDeadline
  BY <1>2 DEF MissedDeadline, Position
<1>3. CASE InTime \/ Exchanged \/ OnRequest \/ StartCopy \/ SendZeros \/ Shortfall
  <2> SUFFICES ASSUME Looping, active_mode # IDLE, active_mode' # IDLE PROVE Position'
    BY <1>3
    DEF SweepCore, Position, Looping, InTime, Exchanged, OnRequest, StartCopy, SendZeros,
        Shortfall, LoopInv, Modes, InLoop
  <2>1. active_mode' = active_mode
    BY <1>3
    DEF InTime, Exchanged, OnRequest, StartCopy, SendZeros, Shortfall, LoopInv, Modes, InLoop
  <2>2. /\ pc4' = pc4 /\ threshold' = threshold /\ m0_count' = m0_count
        /\ Discarded' = Discarded /\ lag' = lag
    BY <1>3, <2>1, FixedSizes
    DEF SweepCore, InTime, Exchanged, OnRequest, StartCopy, SendZeros, Shortfall
  <2>3. InFlight' <= InFlight
    BY <1>3, <2>1
    DEF InFlight, InTime, Exchanged, OnRequest, StartCopy, SendZeros, Shortfall, LoopInv,
        TypeOK, TransceiverTypeOK, M0TypeOK
  <2>4. /\ Stretch' = Stretch /\ (Unset' <=> Unset) /\ (Behind' <=> Behind)
        /\ Passed' = Passed
    BY <2>1, <2>2 DEF Stretch, Unset, Behind, Waiting, Looping, Passed
  <2>5. Passed \in Int /\ InFlight \in Int /\ InFlight' \in Int
    BY CountFacts, SizeFacts DEF Passed, InFlight, Minus, Counts
  <2> QED
    BY <2>1, <2>2, <2>3, <2>4, <2>5, CountFacts DEF LoopInv, Position, Looping
<1> QED
  BY <1>1, <1>2, <1>3, PositionCount DEF SweepCore, M0Next

\* The steps of the round, of the M4: it programs the switches one behind the
\* other, and is behind from one switch of the M0 until it waits for the next.
LEMMA PositionRound == ASSUME LoopInv, Next, SweepNext PROVE Position'
<1>1. CASE Enable
  <2>1. /\ threshold = TransferSize /\ m0_count \in 0 .. 1
        /\ InLoop => active_mode = RX
        /\ InLoop \/ active_mode = IDLE
    <3>1. Late \in Nat /\ Early
      BY <1>1 DEF Enable, Goto, Late, Early, Starting
    <3> QED
      BY <1>1, <3>1, CountFacts
      DEF Enable, Goto, LoopInv, Opening, Modes, Starting, Counts
  <2>2. Minus(threshold, m0_count) \in 1 .. TransferSize
    <3>1. threshold = TransferSize /\ (m0_count = 0 \/ m0_count = 1)
      BY <2>1
    <3> QED
      BY <3>1, SizeFacts DEF Minus
  <2>3. /\ pc4' = "loop" /\ UNCHANGED <<active_mode, threshold, m0_count>>
        /\ active_mode = RX \/ active_mode = IDLE
    BY <1>1, <2>1 DEF Enable, Goto, M0Rest
  <2>4. CASE active_mode = RX
    <3>1. ~Unset' /\ ~Behind' /\ Stretch' = TransferSize
      BY <2>3, <2>4 DEF Unset, Stretch, Behind, Waiting
    <3> QED
      BY <2>2, <2>3, <2>4, <3>1 DEF Position
  <2> QED
    BY <2>3, <2>4 DEF Position
<1>2. CASE Test
  <2> SUFFICES ASSUME Looping', active_mode' # IDLE PROVE Position'
    BY DEF Position
  <2>1. /\ Looping /\ UNCHANGED <<m0Vars, lag>> /\ Discarded' = Discarded
    BY <1>2, FixedSizes DEF Test, Continue, Captured, Resumed, Abandon, Goto, Looping
  <2>2. (Unset' <=> Unset) /\ (Behind' <=> Behind) /\ Stretch' = Stretch
    BY <1>2, <2>1
    DEF Test, Continue, Captured, Resumed, Abandon, Goto, Looping, Unset, Behind, Waiting,
        Stretch
  <2>3. Passed' = Passed /\ InFlight' = InFlight
    BY <2>1, <2>2 DEF Passed, InFlight
  <2>4. /\ active_mode' = WAIT => pc4' \notin {"block_threshold", "block_next"}
        /\ active_mode' = RX => pc4' \in {"wait_resumed", "block_threshold", "block_next",
                                          "loop", "wait_captured"}
    BY <1>2, <2>1
    DEF Test, Continue, Captured, Resumed, Abandon, Goto, LoopInv, Position, Looping
  <2> QED
    BY <2>1, <2>2, <2>3, <2>4 DEF LoopInv, Position
<1>3. CASE ResumeThreshold \/ BlockThreshold
  <2> SUFFICES ASSUME active_mode # IDLE PROVE Position'
    BY <1>3
    DEF Position, ResumeThreshold, BlockThreshold, SetThreshold, M0Rest
  <2>1. /\ Looping /\ active_mode \in {RX, WAIT} /\ Behind /\ Unset
        /\ active_mode = IF ResumeThreshold THEN WAIT ELSE RX
    <3>1. active_mode \in {RX, WAIT} /\ Looping
      BY <1>3 DEF ResumeThreshold, BlockThreshold, Goto, Looping, LoopInv, Modes
    <3> QED
      BY <1>3, <3>1
      DEF ResumeThreshold, BlockThreshold, Goto, Looping, LoopInv, Position, Behind, Waiting,
          Unset
  <2>2. /\ threshold' = Plus(threshold, Stretch) /\ UNCHANGED <<active_mode, m0_count, lag>>
        /\ UNCHANGED <<sgpio_flag, pc0>> /\ Discarded' = Discarded
        /\ ~Unset' /\ Behind'
    BY <1>3, <2>1, FixedSizes
    DEF ResumeThreshold, BlockThreshold, Goto, SetThreshold, M0Rest, Stretch, Unset, Behind,
        Waiting, Looping
  <2>3. /\ Minus(m0_count, threshold) < Stretch /\ lag < Stretch
        /\ Minus(m0_count, threshold) + InFlight <= lag
        /\ Minus(m0_count, threshold) \in Nat
    BY <2>1, CountFacts, SizeFacts DEF LoopInv, Position, Passed, Minus, Counts
  <2>4. Minus(Plus(threshold, Stretch), m0_count) = Stretch - Minus(m0_count, threshold)
    BY <2>3, CountFacts, SizeFacts DEF Plus, Minus, Counts
  <2>5. Stretch' = Stretch /\ InFlight' = InFlight
    BY <2>2 DEF Stretch, InFlight
  <2>6. Passed' = Minus(m0_count, threshold)
    BY <2>2, <2>3, <2>4, <2>5, CountFacts DEF Passed
  <2>7. Minus(threshold', m0_count') \in 1 .. Stretch'
    BY <2>2, <2>3, <2>4, <2>5, CountFacts
  <2>8. /\ active_mode' = WAIT => pc4' \notin {"block_threshold", "block_next"}
        /\ active_mode' = RX => pc4' \in {"wait_resumed", "block_threshold", "block_next",
                                          "loop", "wait_captured"}
    BY <1>3, <2>1, <2>2 DEF ResumeThreshold, BlockThreshold, Goto
  <2> QED
    BY <2>2, <2>3, <2>5, <2>6, <2>7, <2>8 DEF Position
<1>4. CASE ResumeNext \/ WriteMetadata \/ ScheduleBlock \/ Retune \/ BlockNext
  <2> SUFFICES ASSUME active_mode # IDLE PROVE Position'
    BY <1>4
    DEF Position, ResumeNext, WriteMetadata, ScheduleBlock, Retune, BlockNext, SetNextMode,
        M0Rest
  <2>1. /\ Looping /\ Looping' /\ ~Unset /\ ~Unset' /\ Behind
        /\ active_mode = IF BlockNext THEN RX ELSE WAIT
    <3>1. Looping /\ active_mode \in {RX, WAIT}
      BY <1>4
      DEF ResumeNext, WriteMetadata, ScheduleBlock, Retune, BlockNext, Goto, Looping, LoopInv,
          Modes
    <3>2. active_mode = IF BlockNext THEN RX ELSE WAIT
      BY <1>4, <3>1
      DEF ResumeNext, WriteMetadata, ScheduleBlock, Retune, BlockNext, Goto, LoopInv, Position
    <3> QED
      BY <1>4, <3>1, <3>2
      DEF ResumeNext, WriteMetadata, ScheduleBlock, Retune, BlockNext, Goto, SetNextMode,
          M0Rest, Looping, Unset, Behind, Waiting
  <2>2. /\ UNCHANGED <<active_mode, threshold, m0_count, lag, sgpio_flag, pc0>>
        /\ Discarded' = Discarded
    BY <1>4, FixedSizes
    DEF ResumeNext, WriteMetadata, ScheduleBlock, Retune, BlockNext, SetNextMode, M0Rest
  <2>3. Stretch' = Stretch /\ InFlight' = InFlight
    BY <2>2 DEF Stretch, InFlight
  <2>4. Passed' = Passed
    BY <2>1, <2>2, <2>3 DEF Passed
  <2>5. /\ active_mode' = WAIT => pc4' \notin {"block_threshold", "block_next"}
        /\ active_mode' = RX => pc4' \in {"wait_resumed", "block_threshold", "block_next",
                                          "loop", "wait_captured"}
    BY <1>4, <2>1, <2>2 DEF ResumeNext, WriteMetadata, ScheduleBlock, Retune, BlockNext, Goto
  <2> QED
    BY <2>1, <2>2, <2>3, <2>4, <2>5 DEF LoopInv, Position
<1>5. CASE FirstThreshold \/ FirstNext
  BY <1>5 DEF FirstThreshold, FirstNext, Goto, Position, Looping
<1> QED
  BY <1>1, <1>2, <1>3, <1>4, <1>5 DEF SweepNext

\* The M0 has not reached the end of the stretch, and not got further than
\* the M4 is behind.
LEMMA PositionStep == ASSUME LoopInv, Next PROVE Position'
<1>1. CASE SweepCodec
  <2>1. /\ UNCHANGED <<active_mode, threshold, m0_count, pc4, pc0>> /\ Discarded' = Discarded
        /\ ~sgpio_flag /\ lag' = IF Behind THEN lag + 1 ELSE lag
        /\ Behind => lag < Allowance
    BY <1>1, FixedSizes DEF SweepCodec, SgpioExchange
  <2>2. /\ Stretch' = Stretch /\ (Unset' <=> Unset) /\ (Behind' <=> Behind)
        /\ Passed' = Passed /\ (Looping' <=> Looping)
    BY <2>1 DEF Stretch, Unset, Behind, Waiting, Looping, Passed
  <2>3. /\ InFlight \in Nat /\ InFlight' \in Nat /\ InFlight' <= InFlight + 1
        /\ Passed \in Int
    BY <2>1, CountFacts, SizeFacts DEF InFlight, Passed, Minus, Counts
  <2>4. Allowance = Stretch - 1
    BY DEF Allowance, Stretch
  <2>5. Looping /\ active_mode # IDLE /\ Behind =>
          Passed' + InFlight' <= lag' /\ lag' < Stretch'
    BY <2>1, <2>2, <2>3, <2>4, CountFacts DEF LoopInv, Position
  <2> QED
    BY <2>1, <2>2, <2>5 DEF LoopInv, Position
<1>2. CASE IsrNext
  <2>1. UNCHANGED <<active_mode, threshold, m0_count, pc4, pc0, sgpio_flag, lag>>
        /\ Discarded' = Discarded
    BY <1>2, FixedSizes
    DEF IsrNext, HostNext, RequestMode, SetOverrunLimit, SetUnderrunLimit, SweepBulkComplete
  <2> QED
    BY <2>1
    DEF LoopInv, Position, Stretch, Unset, Behind, Waiting, Looping, Passed, InFlight
<1>3. CASE TransceiverNext /\ UNCHANGED sweepVars
  BY <1>3
  DEF TransceiverNext, ReadRequest, LeaveOff, Startup, SetFlag, WaitAck, SetLimit,
      DisableStreaming, ShutdownFlush, RadioOff, WriteRequest, Position, Looping
<1> QED
  BY <1>1, <1>2, <1>3, PositionCore, PositionRound DEF Next, MainNext

\* The next switch is ahead of the M0: it is what Position says of an M4 that
\* waits for it.
LEMMA SwitchAheadStep == ASSUME LoopInv, Next PROVE SwitchAhead'
<1>1. Position' /\ Discarded' = Discarded
  BY PositionStep, FixedSizes
<1> QED
  BY <1>1 DEF Position, SwitchAhead, Waiting, Unset, Stretch, Looping

\* What the loop knows of its positions: a block that is paid for is another
\* one than the block to be paid for.
LEMMA BaseFacts ==
  ASSUME LoopInv
  PROVE  /\ Base \in Counts /\ BlockCredit \in 0 .. 3 * TransferSize
         /\ Plus(m4_count, BlockCredit) \in Counts
         /\ Plus(m4_count, BlockCredit) # m4_count
         /\ phase \in {0, 1} /\ TransferSize \in Nat /\ CountMod \in Nat
<1>1. BlockCredit \in 0 .. 3 * TransferSize /\ BlockCredit >= 1
  BY SizeFacts, DiscardFacts DEF LoopInv, OneDiscarded, TwoDiscarded
<1>2. Plus(m4_count, BlockCredit) \in Counts
  BY <1>1, CountFacts, AdvanceType
<1>3. Plus(m4_count, BlockCredit) # m4_count
  BY <1>1, CountFacts, SizeFacts DEF Plus, Counts
<1>4. Minus(threshold, TransferSize) \in Counts /\ Minus(threshold, BlockCredit) \in Counts
  BY <1>1, CountFacts, SizeFacts DEF Minus, Counts
<1>5. Base \in Counts
  BY <1>4, CountFacts DEF Base
<1> QED
  BY <1>1, <1>2, <1>3, <1>5, SizeFacts DEF LoopInv, TypeOK, Halves

\* While a block is queued, the one before it is not paid for.
LEMMA QueuedUnpaid ==
  ASSUME LoopInv, Looping, bulk_in # None
  PROVE  m4_count # Base
BY BaseFacts DEF LoopInv, Round

\* In RX mode the M0 is in the block that is to be queued next.
LEMMA InBlock ==
  ASSUME LoopInv, Looping, active_mode = RX
  PROVE  /\ Half(m0_count) = phase
         /\ m0_count % TransferSize = 0 <=> m0_count = Base
<1> DEFINE k == Minus(m0_count, Base)
<1>1. /\ Base \in Counts /\ m0_count \in Counts /\ threshold \in Counts
      /\ phase \in {0, 1}
  BY BaseFacts, CountFacts
<1>2. Base % BufferSize = Start(phase)
  BY <1>1, StartFacts DEF LoopInv, Round
<1>3. k \in 0 .. TransferSize - 1
  <2>1. CASE pc4 \in {"wait_resumed", "block_threshold"}
    <3>1. Base = threshold /\ Unset /\ Stretch = TransferSize
      BY <2>1 DEF Base, Unset, Stretch
    <3>2. Minus(m0_count, threshold) < TransferSize
      BY <3>1 DEF LoopInv, Position
    <3> QED
      BY <1>1, <3>1, <3>2, SizeFacts DEF Minus, Counts
  <2>2. CASE pc4 \in {"block_next", "loop", "wait_captured"}
    <3>1. Base = Minus(threshold, TransferSize) /\ ~Unset /\ Stretch = TransferSize
      BY <2>2 DEF Base, Unset, Stretch
    <3>2. Minus(threshold, m0_count) \in 1 .. TransferSize
      BY <3>1 DEF LoopInv, Position
    <3> QED
      BY <1>1, <3>1, <3>2, SizeFacts DEF Minus, Counts
  <2> QED
    BY <2>1, <2>2 DEF LoopInv, Position
<1>4. m0_count = Plus(Base, k) /\ (k = 0 <=> m0_count = Base)
  BY <1>1, SizeFacts DEF Plus, Minus, Counts
<1> HIDE DEF k
<1>5. /\ Half(Plus(Base, k)) = phase
      /\ Plus(Base, k) % TransferSize = 0 <=> k = 0
  BY <1>1, <1>2, <1>3, HalfOf
<1> QED
  BY <1>4, <1>5

\* Once the M0 has passed the blocks it was paid for, it is out of space.
LEMMA OutOfSpace ==
  ASSUME LoopInv, m0_count = Plus(m4_count, BlockCredit)
  PROVE  ~Space
<1>1. m4_count \in Counts /\ CountMod \in Nat /\ CountMod >= 4 * TransferSize
      /\ TransferSize \in Nat /\ TransferSize >= 2 /\ BufferSize = 2 * TransferSize
  BY CountFacts, SizeFacts
<1>2. BlockCredit = 2 * TransferSize \/ BlockCredit = 3 * TransferSize
  BY DiscardFacts DEF LoopInv, OneDiscarded, TwoDiscarded
<1>3. CASE BlockCredit = 2 * TransferSize
  <2>1. Minus(Plus(m4_count, BufferSize - 1), Plus(m4_count, BlockCredit)) = CountMod - 1
    BY <1>1, <1>3 DEF Plus, Minus, Counts
  <2> QED
    BY <1>1, <2>1 DEF Space, Negative
<1>4. CASE BlockCredit = 3 * TransferSize
  <2>1. Minus(Plus(m4_count, BufferSize - 1), Plus(m4_count, BlockCredit))
          = CountMod - TransferSize - 1
    BY <1>1, <1>4 DEF Plus, Minus, Counts
  <2> QED
    BY <1>1, <2>1 DEF Space, Negative
<1> QED
  BY <1>2, <1>3, <1>4

\* A copy of the M0 in the round: it has space only when the last block is
\* paid for, and puts a sample of the block's frequency in its half.
LEMMA RoundCopy ==
  ASSUME LoopInv, Looping, SweepCore, StartCopy
  PROVE  active_mode = RX /\ m4_count = Base /\ content'[phase] = {sweep_freq}
<1>1. active_mode = RX
  BY DEF StartCopy, LoopInv, Modes, InLoop
<1>2. Copied
  BY DEF SweepCore, StartCopy
<1>3. m4_count = Base
  <2>1. CASE m0_count # Base
    BY <1>1, <2>1 DEF LoopInv, Round, Whole
  <2>2. CASE m0_count = Base
    BY <1>1, <2>2, OutOfSpace DEF LoopInv, Round, StartCopy, Blocked
  <2> QED
    BY <2>1, <2>2
<1>4. tuned = sweep_freq /\ phase \in Halves
  BY <1>1 DEF LoopInv, Tuned, TypeOK
<1>5. m0_count % TransferSize = 0 \/ content[phase] = {tuned}
  BY <1>1, <1>4, InBlock DEF LoopInv, Round, Whole
<1>6. Half(m0_count) = phase
  BY <1>1, InBlock
<1> QED
  BY <1>1, <1>2, <1>3, <1>4, <1>5, <1>6, CopiedHalf

\* The round, when the M0 steps.
LEMMA RoundCore == ASSUME LoopInv, Next, SweepCore PROVE Round'
<1>1. CASE TakeRequest \/ ClearFlag \/ AckRequest
  BY <1>1
  DEF LoopInv, Handshake, SweepCore, TakeRequest, ClearFlag, AckRequest, Round, Looping,
      Asking
<1> SUFFICES ASSUME Looping, ~(TakeRequest \/ ClearFlag \/ AckRequest) PROVE Round'
  BY <1>1 DEF SweepCore, Round, Looping
<1>2. /\ UNCHANGED <<pc4, threshold, next_mode, m4_count, phase, sweep_freq, bulk_in>>
      /\ THROWAWAY_BUFFERS' = THROWAWAY_BUFFERS /\ BlockCredit' = BlockCredit
  BY FixedSizes
  DEF SweepCore, M0Next, MissedDeadline, InTime, Exchanged, OnRequest, StartCopy, EndCopy,
      SendZeros, Shortfall, Radio
<1>3. Base' = Base
  BY <1>2 DEF Base
<1>4. CASE StartCopy
  <2>1. active_mode = RX /\ Whole'
    BY <1>2, <1>3, <1>4, RoundCopy DEF Whole
  <2>2. pc4 \notin {"resume_threshold", "resume_next", "metadata", "schedule"}
    BY <2>1 DEF LoopInv, Position
  <2> QED
    BY <1>2, <1>3, <2>1, <2>2 DEF LoopInv, Round
<1>5. CASE EndCopy
  <2>1. content' = content /\ label' = label /\ (Whole' <=> Whole)
    BY <1>2, <1>3, <1>5 DEF SweepCore, StartCopy, EndCopy, Dispatch, Buffers, Whole
  <2>2. pc0' # "copy"
    BY <1>5 DEF EndCopy, Dispatch
  <2>3. CASE active_mode' = active_mode
    <3>1. active_mode = RX => pc0 = "copy"
      BY <1>5 DEF EndCopy
    <3> QED
      BY <1>2, <1>3, <2>1, <2>3, <3>1 DEF LoopInv, Round
  <2>4. CASE active_mode' # active_mode
    <3>1. active_mode # IDLE /\ Waiting /\ AtThreshold /\ active_mode' = next_mode
      BY <1>5, <2>4, NoEarlySwitch DEF EndCopy, LoopInv, Modes, InLoop, Behind
    <3>2. CASE active_mode = RX
      <4>1. Whole
        BY <1>5, <3>2 DEF EndCopy, LoopInv, Round
      <4> QED
        BY <1>2, <1>3, <2>1, <3>1, <3>2, <4>1 DEF LoopInv, Round, Waiting
    <3>3. CASE active_mode = WAIT
      <4>1. m0_count' = Base
        BY <1>5, <3>1, <3>3 DEF EndCopy, AtThreshold, Waiting, Base
      <4> QED
        BY <1>2, <1>3, <2>1, <2>2, <3>1, <3>3, <4>1 DEF LoopInv, Round, Waiting
    <3> QED
      BY <3>1, <3>2, <3>3 DEF Waiting
  <2> QED
    BY <2>3, <2>4
<1>6. CASE MissedDeadline \/ InTime \/ Exchanged \/ OnRequest \/ SendZeros \/ Shortfall
  <2>1. content' = content /\ label' = label /\ (Whole' <=> Whole) /\ m0_count' = m0_count
        /\ pc0' # "copy"
    BY <1>2, <1>3, <1>6
    DEF SweepCore, StartCopy, MissedDeadline, InTime, Exchanged, OnRequest, SendZeros,
        Shortfall, Buffers, Whole
  <2>2. active_mode' = active_mode \/ active_mode' = IDLE
    BY <1>6 DEF MissedDeadline, InTime, Exchanged, OnRequest, SendZeros, Shortfall
  <2> QED
    BY <1>2, <1>3, <2>1, <2>2 DEF LoopInv, Round
<1> QED
  BY <1>4, <1>5, <1>6 DEF SweepCore, M0Next

\* From one block to the next: the block that is queued ends where it is paid
\* for, and the phase follows the discarded blocks.
LEMMA RoundSchedule == ASSUME LoopInv, Next, ScheduleBlock PROVE Round'
<1>1. /\ pc4 = "schedule" /\ Looping /\ Whole /\ active_mode # RX
      /\ Base = Minus(threshold, BlockCredit) /\ next_mode = RX
      /\ Base % BufferSize = phase * TransferSize
  BY DEF ScheduleBlock, LoopInv, Round, Position, Base, Looping
<1>2. /\ UNCHANGED <<active_mode, threshold, next_mode, m4_count>>
      /\ THROWAWAY_BUFFERS' = THROWAWAY_BUFFERS /\ BlockCredit' = BlockCredit
      /\ pc4' \in {"retune", "wait_resumed"} /\ phase' = NextPhase
  BY FixedSizes DEF ScheduleBlock
<1>3. Base' = threshold /\ threshold = Plus(Base, BlockCredit)
  <2>1. Base' = threshold
    BY <1>2 DEF Base
  <2> QED
    BY <1>1, <2>1, BaseFacts, CountFacts, SizeFacts DEF Plus, Minus, Counts
<1>4. m4_count = Base
  BY <1>1 DEF Whole
<1>5. phase \in {0, 1} /\ phase < THROWAWAY_BUFFERS /\ Base \in Counts
      /\ Base % BufferSize = Start(phase)
  BY <1>1, BaseFacts, StartFacts DEF LoopInv, Round
<1>6. Base' % BufferSize = phase' * TransferSize /\ phase' < THROWAWAY_BUFFERS'
  <2>1. /\ Plus(Base, 2 * TransferSize) % BufferSize = Start(phase)
        /\ Plus(Base, 3 * TransferSize) % BufferSize = Start(1 - phase)
    BY <1>5, NextBlock
  <2>2. CASE OneDiscarded
    <3>1. phase = 0 /\ phase' = 0
      BY <1>2, <1>5, <2>2 DEF OneDiscarded, NextPhase
    <3>2. Base' % BufferSize = Start(phase')
      BY <1>3, <2>1, <2>2, <3>1 DEF OneDiscarded
    <3> QED
      BY <1>2, <2>2, <3>1, <3>2, StartFacts DEF OneDiscarded
  <2>3. CASE TwoDiscarded
    <3>1. phase' = 1 - phase
      BY <1>2, <1>5, <2>3 DEF TwoDiscarded, NextPhase
    <3>2. Base' % BufferSize = Start(phase') /\ phase' \in {0, 1}
      BY <1>3, <1>5, <2>1, <2>3, <3>1 DEF TwoDiscarded
    <3> QED
      BY <1>2, <2>3, <3>2, StartFacts DEF TwoDiscarded
  <2> QED
    BY <2>2, <2>3, DiscardFacts DEF LoopInv
<1> QED
  BY <1>1, <1>2, <1>3, <1>4, <1>6 DEF Round

\* The round, when sweep_mode() steps.
LEMMA RoundSweep == ASSUME LoopInv, Next, SweepNext PROVE Round'
<1>1. CASE Enable
  <2>1. /\ pc4 = "enable" /\ Early /\ ~Looping /\ Late \in Nat
    BY <1>1 DEF Enable, Goto, Early, Starting, Looping, Late
  <2>2. /\ m4_count = 0 /\ m0_count \in Nat /\ threshold = TransferSize /\ next_mode = WAIT
        /\ m0_count # 0 \/ pc0 = "copy" => content[0] = {sweep_freq}
        /\ active_mode # WAIT /\ bulk_in = None
    BY <2>1, CountFacts
    DEF LoopInv, Opening, Modes, Queued, Held, Starting, Leaving, Looping, Counts
  <2>3. /\ UNCHANGED <<active_mode, next_mode, threshold, m4_count, m0_count, pc0,
                        content, sweep_freq, bulk_in>>
        /\ pc4' = "loop" /\ phase' = 0 /\ THROWAWAY_BUFFERS' = THROWAWAY_BUFFERS
    BY <1>1, FixedSizes DEF Enable, Goto, M0Rest, Radio, Buffers
  <2>4. Base' = 0
    BY <2>2, <2>3, SizeFacts DEF Base, Minus
  <2>5. 0 % BufferSize = 0 * TransferSize /\ 0 < THROWAWAY_BUFFERS
    BY SizeFacts, DiscardFacts DEF LoopInv, OneDiscarded, TwoDiscarded
  <2> QED
    BY <2>2, <2>3, <2>4, <2>5 DEF Round, Whole
<1>2. CASE FirstThreshold \/ FirstNext
  BY <1>2 DEF FirstThreshold, FirstNext, Goto, Round, Looping
<1>3. CASE Test
  <2> SUFFICES ASSUME Looping' PROVE Round'
    BY DEF Round
  <2>1. /\ Looping
        /\ UNCHANGED <<active_mode, next_mode, threshold, m4_count, m0_count, pc0, content,
                       label, sweep_freq, phase, bulk_in>>
        /\ THROWAWAY_BUFFERS' = THROWAWAY_BUFFERS /\ BlockCredit' = BlockCredit
    BY <1>3, FixedSizes DEF Test, Continue, Captured, Resumed, Abandon, Goto, Looping
  <2>2. Base' = Base
    BY <1>3, <2>1
    DEF Test, Continue, Captured, Resumed, Abandon, Goto, Looping, Base
  <2>3. Whole' <=> Whole
    BY <2>1, <2>2 DEF Whole
  <2> QED
    BY <1>3, <2>1, <2>2, <2>3
    DEF Test, Continue, Captured, Resumed, Abandon, Goto, Looping, LoopInv, Round
<1>4. CASE \/ ResumeThreshold \/ ResumeNext \/ WriteMetadata \/ Retune
           \/ BlockThreshold \/ BlockNext
  <2>1. /\ Looping /\ Looping'
        /\ UNCHANGED <<active_mode, m4_count, m0_count, pc0, content, sweep_freq, phase,
                       bulk_in>>
        /\ THROWAWAY_BUFFERS' = THROWAWAY_BUFFERS /\ BlockCredit' = BlockCredit
    BY <1>4, FixedSizes
    DEF ResumeThreshold, ResumeNext, WriteMetadata, Retune, BlockThreshold, BlockNext, Goto,
        SetThreshold, SetNextMode, M0Rest, Radio, Buffers, Looping
  <2>2. Base' = Base
    <3>1. CASE ResumeThreshold
      <4>1. Base = Minus(threshold, TransferSize)
            /\ Base' = Minus(Plus(threshold, Discarded), BlockCredit)
        BY <2>1, <3>1 DEF ResumeThreshold, Goto, SetThreshold, Base
      <4> QED
        BY <4>1, CountFacts, DiscardFacts, SizeFacts
        DEF LoopInv, OneDiscarded, TwoDiscarded, Plus, Minus, Counts
    <3>2. CASE BlockThreshold
      <4>1. Base = threshold /\ Base' = Minus(Plus(threshold, TransferSize), TransferSize)
        BY <3>2 DEF BlockThreshold, Goto, SetThreshold, Base
      <4> QED
        BY <4>1, CountFacts, SizeFacts DEF Plus, Minus, Counts
    <3>3. CASE ResumeNext \/ WriteMetadata \/ Retune \/ BlockNext
      BY <2>1, <3>3
      DEF ResumeNext, WriteMetadata, Retune, BlockNext, Goto, SetNextMode, M0Rest, Base
    <3> QED
      BY <1>4, <3>1, <3>2, <3>3
  <2>3. Whole' <=> Whole
    BY <2>1, <2>2 DEF Whole
  <2>4. active_mode = RX => pc4 \in {"wait_resumed", "block_threshold", "block_next",
                                     "loop", "wait_captured"}
    BY <2>1 DEF LoopInv, Position
  <2>5. CASE ResumeThreshold \/ BlockThreshold
    BY <2>1, <2>2, <2>3, <2>5
    DEF LoopInv, Round, ResumeThreshold, BlockThreshold, Goto, SetThreshold
  <2>6. CASE ResumeNext \/ Retune
    BY <2>1, <2>2, <2>3, <2>6
    DEF LoopInv, Round, ResumeNext, Retune, Goto, SetNextMode
  <2>7. CASE WriteMetadata
    <3>1. label'[phase] = sweep_freq
      BY <2>7 DEF WriteMetadata, LoopInv, TypeOK
    <3> QED
      BY <2>1, <2>2, <2>3, <2>7, <3>1 DEF LoopInv, Round, WriteMetadata, Goto
  <2>8. CASE BlockNext
    <3>1. active_mode # WAIT
      BY <2>1, <2>8 DEF BlockNext, Goto, LoopInv, Position
    <3> QED
      BY <2>1, <2>2, <2>3, <2>8, <3>1 DEF LoopInv, Round, BlockNext, Goto, SetNextMode
  <2> QED
    BY <1>4, <2>5, <2>6, <2>7, <2>8
<1> QED
  BY <1>1, <1>2, <1>3, <1>4, RoundSchedule DEF SweepNext

\* The round.
LEMMA RoundStep == ASSUME LoopInv, Next PROVE Round'
<1>1. CASE SweepCodec
  <2>1. /\ UNCHANGED <<active_mode, next_mode, threshold, countVars, pc0, pc4, content,
                        label, sweep_freq, phase, bulk_in>>
        /\ THROWAWAY_BUFFERS' = THROWAWAY_BUFFERS /\ BlockCredit' = BlockCredit
    BY <1>1, FixedSizes DEF SweepCodec, SgpioExchange, Radio, Buffers
  <2> QED
    BY <2>1 DEF LoopInv, Round, Whole, Base, Looping
<1>2. CASE IsrNext
  <2>1. /\ UNCHANGED <<active_mode, next_mode, threshold, m0_count, pc0, pc4, content,
                        label, sweep_freq, phase>>
        /\ THROWAWAY_BUFFERS' = THROWAWAY_BUFFERS /\ BlockCredit' = BlockCredit
        /\ bulk_in' = bulk_in \/ bulk_in' = None
    BY <1>2, FixedSizes
    DEF IsrNext, HostNext, RequestMode, SetOverrunLimit, SetUnderrunLimit, FlushBulk,
        SweepBulkComplete
  <2>2. Base' = Base /\ (Looping' <=> Looping)
    BY <2>1 DEF Base, Looping
  <2>3. CASE m4_count' = m4_count
    BY <2>1, <2>2, <2>3 DEF LoopInv, Round, Whole
  <2>4. CASE SweepBulkComplete
    <3>1. Looping => m4_count' = Base /\ ~Whole
      BY <2>4, QueuedUnpaid DEF SweepBulkComplete, LoopInv, Round, Whole
    <3>2. bulk_in' = None
      BY <2>4 DEF SweepBulkComplete
    <3> QED
      BY <2>1, <2>2, <3>1, <3>2 DEF LoopInv, Round
  <2> QED
    BY <1>2, <2>3, <2>4
    DEF IsrNext, HostNext, RequestMode, SetOverrunLimit, SetUnderrunLimit
<1>3. CASE TransceiverNext /\ UNCHANGED sweepVars
  BY <1>3
  DEF TransceiverNext, ReadRequest, LeaveOff, Startup, SetFlag, WaitAck, SetLimit,
      DisableStreaming, ShutdownFlush, RadioOff, WriteRequest, Round, Looping
<1> QED
  BY <1>1, <1>2, <1>3, RoundCore, RoundSweep DEF Next, MainNext

\* With a block queued the M0 waits, and then is out of space.
LEMMA QueuedStep == ASSUME LoopInv, Next PROVE Queued'
<1> SUFFICES ASSUME bulk_in' # None PROVE Queued'
  BY DEF Queued
<1>1. CASE SweepCore
  <2>1. /\ UNCHANGED <<pc4, threshold, next_mode, m4_count>> \/ request_flag
        /\ pc4' = pc4 /\ bulk_in' = bulk_in
        /\ Discarded' = Discarded /\ BlockCredit' = BlockCredit
    BY <1>1, FixedSizes
    DEF SweepCore, M0Next, TakeRequest, ClearFlag, AckRequest, MissedDeadline, InTime,
        Exchanged, OnRequest, StartCopy, EndCopy, SendZeros, Shortfall, LoopInv, Handshake
  <2>2. Held /\ ~request_flag
    BY <2>1 DEF LoopInv, Queued, Held, Handshake, Asking, Looping, Leaving
  <2>3. pc0 \notin {"clear_flag", "ack", "copy"}
    BY <2>2 DEF LoopInv, Handshake, Held
  <2>4. CASE EndCopy
    <3>1. active_mode = WAIT /\ pc0' # "copy" /\ m0_count' = Plus(m0_count, 1)
          /\ active_mode' = IF AtThreshold THEN RX ELSE WAIT
      BY <2>2, <2>3, <2>4 DEF EndCopy, Dispatch, Held
    <3>2. threshold = Plus(m4_count, BlockCredit)
          /\ Minus(threshold, m0_count) \in 1 .. Discarded
      BY <2>2, <3>1 DEF Held
    <3>3. AtThreshold => m0_count' = Plus(m4_count, BlockCredit)
      BY <3>1, <3>2 DEF AtThreshold
    <3>4. ~AtThreshold => Minus(threshold, m0_count') \in 1 .. Discarded
      BY <3>1, <3>2, CountFacts, SizeFacts DEF AtThreshold, Plus, Minus, Counts
    <3> QED
      BY <2>1, <2>2, <3>1, <3>2, <3>3, <3>4 DEF Queued, Held, Looping, Leaving
  <2>5. CASE StartCopy
    <3>1. active_mode = RX
      BY <2>5 DEF StartCopy, LoopInv, Modes, InLoop
    <3> QED
      BY <2>2, <2>5, <3>1, OutOfSpace DEF StartCopy, Blocked, Held
  <2>6. CASE TakeRequest
    BY <2>2, <2>6 DEF TakeRequest
  <2>7. CASE MissedDeadline \/ InTime \/ Exchanged \/ OnRequest \/ SendZeros \/ Shortfall
    <3>1. /\ active_mode' = active_mode \/ active_mode' = IDLE
          /\ pc0' # "copy" /\ m0_count' = m0_count
      BY <2>7 DEF MissedDeadline, InTime, Exchanged, OnRequest, SendZeros, Shortfall
    <3> QED
      BY <2>1, <2>2, <3>1 DEF Queued, Held, Looping, Leaving
  <2> QED
    BY <1>1, <2>3, <2>4, <2>5, <2>6, <2>7 DEF SweepCore, M0Next, ClearFlag, AckRequest
<1>2. CASE SweepCodec
  <2>1. UNCHANGED <<pc4, pc0, bulk_in, active_mode, next_mode, threshold, m0_count, m4_count>>
        /\ Discarded' = Discarded /\ BlockCredit' = BlockCredit
    BY <1>2, FixedSizes DEF SweepCodec, SgpioExchange
  <2> QED
    BY <2>1 DEF LoopInv, Queued, Held, Looping, Leaving
<1>3. CASE IsrNext
  <2>1. UNCHANGED <<pc4, pc0, bulk_in, active_mode, next_mode, threshold, m0_count, m4_count>>
        /\ Discarded' = Discarded /\ BlockCredit' = BlockCredit
    BY <1>3, FixedSizes
    DEF IsrNext, HostNext, RequestMode, SetOverrunLimit, SetUnderrunLimit, FlushBulk,
        SweepBulkComplete
  <2> QED
    BY <2>1 DEF LoopInv, Queued, Held, Looping, Leaving
<1>4. CASE TransceiverNext /\ UNCHANGED sweepVars
  <2>1. /\ UNCHANGED <<pc0, bulk_in, active_mode, next_mode, threshold, m0_count, m4_count>>
        /\ Discarded' = Discarded /\ BlockCredit' = BlockCredit
    BY <1>4, FixedSizes
    DEF TransceiverNext, ReadRequest, LeaveOff, Startup, SetFlag, WaitAck, SetLimit,
        DisableStreaming, ShutdownFlush, RadioOff, WriteRequest, FlushBulk
  <2>2. Looping' \/ Leaving'
    BY <1>4, <2>1
    DEF TransceiverNext, ReadRequest, LeaveOff, Startup, SetFlag, WaitAck, SetLimit,
        DisableStreaming, ShutdownFlush, RadioOff, WriteRequest, FlushBulk, LoopInv, Queued,
        Held, Looping, Leaving
  <2> QED
    BY <2>1, <2>2 DEF LoopInv, Queued, Held
<1>5. CASE SweepNext
  <2>1. CASE ScheduleBlock
    <3>1. /\ Looping /\ Looping' /\ active_mode # RX /\ next_mode = RX /\ Whole /\ ~Unset
          /\ pc4 = "schedule"
      BY <2>1 DEF ScheduleBlock, LoopInv, Round, Position, Looping, Unset
    <3>2. m4_count = Minus(threshold, BlockCredit)
      BY <3>1 DEF Whole, Base
    <3>3. threshold = Plus(m4_count, BlockCredit)
      BY <3>2, BaseFacts, CountFacts, SizeFacts DEF Plus, Minus, Counts
    <3>4. active_mode = WAIT => Minus(threshold, m0_count) \in 1 .. Discarded
      BY <3>1 DEF LoopInv, Position, Stretch
    <3>5. pc0 # "copy"
      BY <3>1 DEF LoopInv, Modes
    <3>6. /\ UNCHANGED <<pc0, active_mode, next_mode, threshold, m0_count, m4_count>>
          /\ Discarded' = Discarded /\ BlockCredit' = BlockCredit
      BY <2>1, FixedSizes DEF ScheduleBlock
    <3> QED
      BY <3>1, <3>3, <3>4, <3>5, <3>6 DEF Queued, Held
  <2>2. CASE ~ScheduleBlock
    <3>1. /\ UNCHANGED <<pc0, bulk_in, active_mode, m0_count, m4_count>>
          /\ Discarded' = Discarded /\ BlockCredit' = BlockCredit
          /\ Looping' \/ Leaving' \/ FirstThreshold \/ FirstNext
      BY <1>5, <2>2, FixedSizes
      DEF SweepNext, FirstThreshold, FirstNext, Enable, Test, Continue, Captured, Resumed,
          Abandon, ResumeThreshold, ResumeNext, WriteMetadata, Retune, BlockThreshold,
          BlockNext, Goto, SetThreshold, SetNextMode, M0Rest, Looping, Leaving
    <3>2. Held /\ bulk_in # None
      BY <3>1 DEF LoopInv, Queued, Held
    <3>3. ~(FirstThreshold \/ FirstNext \/ Enable)
      BY <3>2
      DEF FirstThreshold, FirstNext, Enable, Goto, LoopInv, Queued, Held, Looping, Leaving
    <3>4. Looping => ~Whole
      BY <3>2, QueuedUnpaid DEF Whole
    <3>5. ~ResumeThreshold /\ ~ResumeNext
      BY <3>4 DEF ResumeThreshold, ResumeNext, Goto, LoopInv, Round, Looping
    <3>6. CASE BlockThreshold \/ BlockNext
      <4>1. active_mode # WAIT
        BY <3>6 DEF BlockThreshold, BlockNext, Goto, LoopInv, Position, Looping
      <4> QED
        BY <3>1, <3>2, <3>3, <4>1 DEF Queued, Held
    <3>7. CASE Test \/ WriteMetadata \/ Retune
      <4>1. UNCHANGED <<next_mode, threshold>>
        BY <3>7 DEF Test, WriteMetadata, Retune
      <4> QED
        BY <3>1, <3>2, <3>3, <4>1 DEF Queued, Held
    <3> QED
      BY <1>5, <2>2, <3>3, <3>5, <3>6, <3>7 DEF SweepNext
  <2> QED
    BY <2>1, <2>2
<1> QED
  BY <1>1, <1>2, <1>3, <1>4, <1>5 DEF Next, MainNext

\* A queued block was captured whole at the frequency that its metadata names.
LEMMA BlocksLabelledStep == ASSUME LoopInv, Next PROVE BlocksLabelled'
<1> SUFFICES ASSUME bulk_in' # None PROVE BlocksLabelled'
  BY DEF BlocksLabelled
<1>1. CASE UNCHANGED <<bulk_in, content, label>>
  BY <1>1 DEF LoopInv, BlocksLabelled, Half
<1>2. CASE SweepCore
  <2>1. ~StartCopy
    <3>1. bulk_in # None
      BY <1>2 DEF SweepCore
    <3> QED
      BY <3>1, OutOfSpace
      DEF LoopInv, Queued, Held, StartCopy, Blocked, Modes, InLoop
  <2> QED
    BY <1>1, <1>2, <2>1 DEF SweepCore, StartCopy, Buffers
<1>3. CASE ScheduleBlock
  <2>1. Looping /\ Whole /\ label[phase] = sweep_freq
    BY <1>3 DEF ScheduleBlock, LoopInv, Round, Looping
  <2>2. Half(phase * TransferSize) = phase
    <3>1. CASE phase = 0
      BY <3>1, SizeFacts DEF Half
    <3>2. CASE phase = 1
      <4>1. TransferSize % BufferSize = TransferSize
        BY SizeFacts
      <4>2. TransferSize \div TransferSize = 1
        BY SizeFacts
      <4> QED
        BY <3>2, <4>1, <4>2, SizeFacts DEF Half
    <3> QED
      BY <3>1, <3>2, BaseFacts
  <2>3. sweep_freq # NoLabel
    BY DEF LoopInv, TypeOK, NoLabel
  <2>4. bulk_in' = phase * TransferSize /\ content' = content /\ label' = label
    BY <1>3 DEF ScheduleBlock, Buffers
  <2>5. Half(bulk_in') = phase
    BY <2>2, <2>4
  <2> QED
    BY <2>1, <2>3, <2>4, <2>5 DEF BlocksLabelled, Whole, Half
<1>4. CASE WriteMetadata
  <2>1. bulk_in = None
    BY <1>4, QueuedUnpaid DEF WriteMetadata, Goto, LoopInv, Round, Whole, Looping
  <2> QED
    BY <1>4, <2>1 DEF WriteMetadata
<1>5. CASE SweepCodec
  BY <1>1, <1>5 DEF SweepCodec, SgpioExchange, Buffers
<1>6. CASE IsrNext
  BY <1>1, <1>6
  DEF IsrNext, HostNext, RequestMode, SetOverrunLimit, SetUnderrunLimit, FlushBulk,
      SweepBulkComplete
<1>7. CASE TransceiverNext /\ UNCHANGED sweepVars
  BY <1>1, <1>7
  DEF TransceiverNext, ReadRequest, LeaveOff, Startup, SetFlag, WaitAck, SetLimit,
      DisableStreaming, ShutdownFlush, RadioOff, WriteRequest, FlushBulk
<1>8. CASE SweepNext /\ ~ScheduleBlock /\ ~WriteMetadata
  BY <1>1, <1>8
  DEF SweepNext, FirstThreshold, FirstNext, Enable, Test, ResumeThreshold, ResumeNext,
      Retune, BlockThreshold, BlockNext, SetThreshold, SetNextMode, Buffers
<1> QED
  BY <1>2, <1>3, <1>4, <1>5, <1>6, <1>7, <1>8 DEF Next, MainNext

-----------------------------------------------------------------------------
(* The invariant, and the properties that follow from it *)

\* A step that changes no variable keeps every conjunct.
LEMMA StutterStep ==
  ASSUME LoopInv, UNCHANGED <<vars, THROWAWAY_BUFFERS>>
  PROVE  LoopInv'
BY DEF vars, LoopInv, TypeOK, TransceiverTypeOK, M0TypeOK, M0DataOK, HostDataOK, Discarded,
       BlockCredit, Handshake, Modes, Tuned, Opening, Position, Round, Queued, Held,
       BlocksLabelled, SwitchAhead, Idling, Asking, Starting, Looping, Leaving, InLoop, Taken,
       Early, Late, Unset, Stretch, Passed, InFlight, Behind, Waiting, Base, Whole, Half

\* The sweep's loop keeps the M0 one switch ahead of it and never more: every
\* block that it queues is whole, settled, labelled with its frequency and left
\* alone by the M0.
THEOREM SweepInvariant == Spec => []LoopInv
<1>1. LoopInv /\ [Next]_<<vars, THROWAWAY_BUFFERS>> => LoopInv'
  <2> SUFFICES ASSUME LoopInv, [Next]_<<vars, THROWAWAY_BUFFERS>> PROVE LoopInv'
    OBVIOUS
  <2>1. CASE Next
    <3>1. TypeOK'
      BY <2>1, TypeStep DEF LoopInv
    <3> QED
      BY <2>1, <3>1, HandshakeStep, ModesStep, TunedStep, OpeningStep, PositionStep,
         RoundStep, QueuedStep, BlocksLabelledStep, SwitchAheadStep
      DEF LoopInv
  <2> QED
    BY <2>1, StutterStep
<1> QED
  BY <1>1, InitInv, PTL DEF Spec

\* A block on its way to the host was captured whole at one settled frequency,
\* which its metadata names.
THEOREM LabelledBlocks == Spec => []BlocksLabelled
<1>1. LoopInv => BlocksLabelled
  BY DEF LoopInv
<1> QED
  BY <1>1, SweepInvariant, PTL

\* The M0 never writes into the block the USB controller is reading.
THEOREM UntouchedBlocks == Spec => []BlocksUntouched
<1>1. LoopInv => BlocksUntouched
  BY DEF LoopInv, Queued, Held, BlocksUntouched
<1> QED
  BY <1>1, SweepInvariant, PTL

=============================================================================
