# Verification of the HackRF firmware

TLA+ models of the firmware in this repository (a HackRF One / PRALINE / rad1o
image built from `src/main.c`, `src/common`, `src/lib/hackrf_usb` and the
Cortex-M0 program `src/sgpio_m0.s`), model-checked with TLC, with theorems
checked by TLAPS. The modules model the code as it is, not as the documents
describe it; where the two disagree, a run shows the disagreement (section 6).

## 1. The system

The LPC43xx has two cores. The **M0** moves samples between the SGPIO
peripheral (the link to the codec) and a 32 KiB bulk buffer. The **M4** runs a
main loop, `main()`, which starts and stops streaming modes, and the USB
interrupt handler, `usb0_isr()`, which preempts it and serves the control
requests of the host. The USB controller reads and writes the same bulk buffer
on its own. Nothing is locked: the cores share a block of words, each written by
one side at a time by convention.

| Component | State it keeps | Operations | Interacts with |
|---|---|---|---|
| M0 sample mover (`sgpio_m0.s`) | active mode, `m0_count`, shortfall statistics, register copies | request, exchange, copy, threshold switch, shortfall, timeout, missed deadline | shared block, SGPIO flag, bulk buffer |
| M0 state block (`m0_state.c`) | `requested_mode` with its flag, `next_mode`, `threshold`, counts, limits | `m0_set_mode` (spins for the acknowledgement), read-out | both cores |
| Transceiver control (`usb_api_transceiver.c`, main loop) | `transceiver_request` with a sequence number, running mode, limits | request (interrupt), startup, RX, TX, OFF, shutdown | M0 block, bulk endpoints, radio |
| Sweep (`usb_api_sweep.c`) | plan, `sweep_freq`, `phase`, block counters | init request, `sweep_mode` loop, completion callback | M0 block, bulk IN, radio |
| USB transfer queue (`usb_queue.c`) | free list, active list per endpoint | schedule, flush, complete | controller, interrupt and main loop |
| USB controller driver (`usb.c`) | queue heads, prime/flush/complete bits | prime, append with tripwire, flush, interrupt handler, bus reset | controller |
| Control requests (`usb_request.c`, `usb_standard_request.c`, request table) | the copied SETUP packet | setup, data and status stage, stall | host, all handlers |
| Radio configuration (`radio.c`, `tuning.c`, `rf_path.c`) | requested and applied settings, switch register | set frequency, gain, filter, antenna, switch mode | front-end chips; called by interrupt and main loop |
| RF front-end chips (`max2837.c`, `max2839.c`, `rffc5071.c`, `max2871.c`, ...) | register shadows and dirty bits | set, commit | SPI |
| Opera Cake (`operacake.c`, `operacake_sctimer.c`) | board modes, ports, ranges, dwell times | set mode, ports, ranges, retune callback | I2C, SCT timer, tuning |
| SPI flash (`w25q80bv.c`) | chip state | erase, program, read by requests | SPI, control endpoint |
| CPLD update (`usb_api_cpld.c`) | refill buffer | update loop, refill | bulk OUT |
| Board support, user interfaces, information requests | clocks, pins, displays | start-up, read-outs | everything |

What is hard here: the cores and the controller run concurrently and share
memory without locks; counters wrap every 2^32 bytes (107 s at 20 Msps) and are
compared with signed or unsigned differences; the main loop spins on what an
interrupt or the other core must do; requests arrive in the middle of any of it;
a host may stop reading, send short transfers, abort requests or reset the bus;
the controller retires descriptors while the driver appends to them.

What makes each part correct:

* *M0 and streaming*: the M0 and the USB controller never touch the same bytes;
  samples pass in order, none lost or doubled; shortfalls are counted exactly; a
  stop has a reason; a session inherits nothing from the one before; no spin
  outlasts a request.
* *Sweep*: every block is of one settled frequency and labelled with it; the
  M4 is always ahead of the M0's next switch.
* *Queue and driver*: no descriptor is lost, doubled, rewritten while in use or
  stranded; completions are reported in order, once, only for what was executed.
* *Control requests*: an answer belongs to the request it is given for; success
  means that the device acted; the interrupt handler always returns.
* *Radio*: a mode switch makes the front end what was configured, whatever failed
  or overlapped before it; nothing transmits outside TX mode.
* *Opera Cake*: every board does what it was told last; a timed rotation gives each
  antenna exactly its dwell, in clocks of the timer.
* *SPI flash*: each request takes effect once, on its own bytes, with its own data,
  although the chip works on for seconds after a command was acknowledged; success
  is true; every wait for the chip ends.

## 2. Modules

| Module | Models | Extends |
|---|---|---|
| `SgpioM0` | `sgpio_m0.s`, `struct m0_state`, SGPIO exchanges | - |
| `Transceiver` | main loop, mode requests, startup, shutdown, `m0_set_mode` | `SgpioM0` |
| `Streaming` | OFF, RX and TX modes: the composed system and its properties | `Transceiver` |
| `StreamingInv` | its inductive invariant | `Streaming` |
| `SampleStream` | what streaming promises: a bounded buffer | - |
| `StreamRefinement` | the refinement mapping | `StreamingInv` |
| `StreamingProofs` | theorems on `Streaming` and its refinement | `StreamRefinement`, TLAPS |
| `Sweep` | OFF and RX_SWEEP modes, on the same core and main loop | `Transceiver` |
| `SweepInv` | its inductive invariant | `Sweep` |
| `SweepProofs` | theorems | `SweepInv`, TLAPS |
| `UsbController` | one endpoint of the USB controller, as the driver uses it (external) | - |
| `UsbQueue` | `usb_queue.c` and the priming part of `usb.c` | `UsbController` |
| `UsbQueueInv` | its inductive invariant | `UsbQueue` |
| `UsbQueueProofs` | theorems | `UsbQueueInv`, TLAPS |
| `UsbControl` | `usb0_isr()`, `usb_request.c`, the shapes of request handlers | - |
| `UsbControlProofs` | theorems | `UsbControl`, TLAPS |
| `SweepPoints` | the points a sweep plan stands for, as a function | - |
| `SweepSchedule` | what a sweep promises: its points in order, again and again | - |
| `SweepPlan` | the init request in both stages, the host's own tunings, the walk through the ranges, the tuning of the start and the retune | `SweepPoints` |
| `SweepPlanProofs` | theorems | `SweepPlan`, TLAPS |
| `Radio` | `radio.c`, `tuning.c`, `rf_path.c`: configuration, mode switch, switch word and pins; the enable pins and the mode of the transceiver chip (`max2837_target.c`) | - |
| `RadioInv` | its inductive invariants | `Radio` |
| `RadioProofs` | theorems | `RadioInv`, TLAPS |
| `Sctimer` | `operacake_sctimer.c` and the timer it programs | - |
| `Operacake` | `operacake.c`, `usb_api_operacake.c` | `Sctimer` |
| `OperacakeInv` | the inductive invariants of the boards and of the timer | `Operacake` |
| `OperacakeProofs` | theorems | `OperacakeInv`, TLAPS |
| `FlashStore` | what the flash requests promise: an array of bytes | - |
| `SpiFlash` | `usb_api_spiflash.c`, `w25q80bv.c`, the chip (external) | - |
| `SpiFlashProofs` | theorems | `SpiFlash`, TLAPS |
| `MCStreaming`, `MCSweep`, `MCUsbQueue` | the environments that liveness properties assume | the module named |
| `MCSweepPlan`, `MCRadio`, `MCOperacake`, `MCSpiFlash` | the plans, settings, boards and requests of the instance | the module named |

How they correspond to the code:

* **One unit of a counter is 32 bytes**, what the M0 exchanges at once.
  `TransferSize` is `USB_TRANSFER_SIZE` (16 KiB) in these units, `CountMod` is
  2^32 bytes. `Plus`, `Minus` and `Negative` are the 32-bit addition,
  subtraction and sign test of the instructions.
* **A step of the M0** ends where it touches something another actor can change
  (`pc0`). The register `count` equals `m0_count` in every loop, so one variable
  stands for both. `SgpioExchange` is the peripheral: it raises the flag
  whether or not the M0 has dealt with the last one.
* **A step of the M4** (`pc4`) ends at a store to, or a load from, what the M0,
  the interrupt or the controller shares. The interrupt's actions may come
  between any two of them, except where the code masks it (`ReadRequest`, which
  is one step, and the sweep's retune).
* **Requests**: `transceiver_request.seq` is only compared with the number the
  running mode was started with; `current` says that they are equal, which
  keeps an unbounded counter out of the state.
* **Bulk endpoints** have a queue of one transfer (`usb_endpoint.c`). For
  `Streaming` and `Sweep` a queued transfer is its position in the stream
  (`bulk_in`, `bulk_out`), and `schedule_block` a guard that waits until the
  queue is empty. `UsbQueue` opens that up: lists, exclusive loads and stores,
  descriptors, tripwire.
* **Bounds**: `MaxShortfalls` and `MaxLength` stop the peripheral, not the
  program, from leading further; `MaxJobs`, `MaxRequests` and `MaxResets` stop
  the clients. `ended`, `lag`, `ran`, `refused`, `issued`, `done`, `acted`, `arrived`,
  `aborted`, `disturbed`, `crossed`, `mixed` and `torn` are history variables or stand for
  time; the program does not read them.
* In `UsbControl` the handlers are four shapes: a read that queues its acknowledgement in
  the setup stage (`usb_send_descriptor` and most read-outs), one that queues it after the
  data (SPI flash), a write with data (`set_freq`, `init_sweep`, flash programming), and a
  command without. Each may be refused, at either stage that has a check, which stalls the
  endpoint. Control queues are used by the interrupt alone, so scheduling is one step there.
  What the handlers do is in the modules below.
* **`SweepPlan`**: `Sweep` has the timing of blocks and a walk of numbered
  frequencies; `SweepPlan` has the real walk, over ranges, and the request that
  rewrites them, and takes one block after the other. The statements of the loop
  are steps (`pc`), between which the request's two stages and the host's `set_freq` and
  `set_freq_explicit` may come, at any time, before a sweep as well. An explicit tuning
  changes the hardware and leaves `applied_freq`. The retune is one step, as the code masks
  the interrupt; the tuning of the start is three (get, match, tune), as it does not there.
  The label of a block is one value, although the code writes it byte by byte: an init
  request in between may mix two. `SweepPoints` computes what a plan covers from the plan
  alone.
* **`Radio`**: `radio_switch_mode()` is a program (`Program`): the routines it calls
  (`pc`), each a sequence of steps (`step`). Each read, change and write of
  `rf_path->switchctrl` is a load and a store, and the pins are written in three groups. A
  request is one action, as it runs in the interrupt. A switch begins with any configuration
  the host may have stored while OFF. The chips hold one value per setting; a tuning writes
  in two steps, and two that interleave leave a frequency of neither (`Mixed`).
  The transceiver chip is the MAX2837 of HackRF One: its two enable pins (`enabled`) are
  what it does, `drv->mode` (`rf_mode`) is what its driver believes. A change of direction
  writes the receive pin, the transmit pin and then the mode, one step each; a tuning saves
  the mode, goes to standby and puts back what it saved (`tuning.c:71-72,116`),
  in the main loop's own tuning with its two steps. There the chip is in standby anyway,
  whatever requests came before, which is proved (`prior = "OFF"` in `TransceiverFollows`),
  so that the writes of its pins to the same values are not steps of their own.
* **`Operacake`**: a request is one action (two with a data stage); `operacake_set_range()`
  is one step in the interrupt and a program of steps in the main loop. A mode that is none
  of the three is stored like any other, and puts the board back on its outputs with the
  ports set last. `timer_pins` are the five pins of the timer that all boards share: a GPIO
  test makes them inputs, and nothing but boot gives them back. A request with the address
  of no board (8 and more) is left out: `operacake_set_ports()` writes past
  `operacake_boards` for it, and what that changes is not defined. A list of ranges that
  ends in a part of an entry adds one more range, completed with what an earlier request
  left in the buffer; the list of the model is what is added.
* **`Sctimer`**: the five output bits of the timer select one port, which stands for
  them; event *i* of a program fires at the match value the code computes. The
  counter is in SCT clocks. From boot it counts every second one (`prescaled`), which is a
  sample; `operacake_sctimer_enable()` and the dwell request assign the whole control
  register and so clear the prescaler set at `operacake_sctimer.c:108`, whatever the rate
  that was meant. A dwell that was programmed is therefore one of SCT clocks, not of
  samples.
* **`SpiFlash`**: the driver goes command by command, and waits where it waits (two
  waits without a command between them are one). The chip ignores what is sent while
  it works, except status reads, clears its write enable when it is done, wraps
  inside a page, and acknowledges but ignores writes to protected cells. The handlers
  act on the SETUP packet current at the time of a stage, and share one buffer.
  The packet is copied field by field, once for each direction, from where the controller
  puts the next one; then its status is cleared, then the endpoints are flushed. One that
  comes meanwhile is torn or dropped (`mixed`, `torn`).

## 3. Runs

| Run | What it asks | Instance |
|---|---|---|
| `Streaming_safety` | buffer ownership, quiet resets, explained stops, timeouts, statistics; the inductive invariant `IInv` (with `TypeOK`); the refinement to `SampleStream` | transfers of 2 units, counters that wrap at 8, OUT transfers of 0, 1, 2, limits 0 and 2, two shortfalls of length up to 2 |
| `Streaming_live` | the queued transfer continues the stream; every mode request reaches the main loop; transmission starts, reception delivers | the same sizes, full-size OUT transfers, no limit |
| `Sweep` | the inductive invariant `LoopInv`; switches in time; settled, labelled and untouched blocks; requests served, blocks delivered | two discarded blocks and one (PRALINE), two blocks per frequency, two frequencies, counters that wrap at 16 |
| `SweepPlan` | tuned to the label; a kept sweep follows `SweepSchedule`, round after round | three plans that are accepted and four refused; the host tunes to a frequency of a plan, to one out of reach, and explicitly, in range and out of it; two requests, each an init request or a tuning; words of 32, frequencies up to 34 |
| `UsbQueue` | the inductive invariant `QueueInv`: lists, ownership of descriptors, priming, order; spins end; transfers are reported | pool of 2, three transfers |
| `UsbControl` | no self-deadlock; the inductive invariant `ControlInv`: aborted means gone, no event forgotten; own answers, success means acted, requests end | pool of 4, three requests, a reset, aborts anywhere |
| `Radio` | nothing transmits outside TX; an undisturbed switch applies the configuration; the inductive invariant `SwitchInv` behind both | two bands, a refused frequency, an explicit tuning, good and bad gain, rate set or not; two requests, four switches |
| `Operacake` | boards as commanded; dwells exact in SCT clocks | two boards, an undefined mode, one of which may be missing, lists of one and two overlapping ranges, two frequencies, programs of one and two dwells and one with an empty dwell; five requests |
| `SpiFlash` | the inductive invariant `FlashInv`; the refinement to `FlashStore`; success is true; requests end | two pages of two one-bit bytes; writes within, across and past pages, too long, and past the end; three requests |
| `Streaming_wrap`, `UsbControl_stale`, `Radio_antenna` | disagreements, section 6 | smallest that shows them |

Why the bounds are enough. A transfer of two units has an inside, so an overlap by less than
a transfer shows; the buffer is two transfers as in the code; the counters wrap after two
buffers, the narrowest for which the sign of a margin is meaningful (`SizeAssumption`), so
every position relative to the wrap is met within a few transfers. Two shortfalls of length
2 with a limit of 2 meet the first, the longest, a repeated and a timed-out shortfall, and
the rollback with and without an earlier one. For streaming the theorems remove these
bounds. A sweep over two frequencies tells a block from its neighbour's; two discarded
blocks, or one, and two kept ones make three and four blocks per round, and the counter of
16 wraps at changing places of a round. A pool of two lets a transfer be appended behind one
being retired and be reused at once; the code's bulk queues have one transfer, its control
queues four. The control runs use the code's pool of four: with three, a torn SETUP packet
and a stale completion together exhaust it. Three requests are one that leaves completions
behind, one that is taken for it, one that follows.

The plans of `SweepPlan` have a range of several points and one of a single point, a range
out of the radio's reach, descending ends, both styles and an interleaved step without a
quarter; two requests are an init request that starts a sweep and one, or a tuning, that
hits it at any statement, or between its end and the next, or a tuning before it. A walk
that has left its ranges is not followed past `MaxSweepFreq`. A step of 0 cannot come from
an accepted request; while a refused one has stored it, the division by it yields 0, as the
M4 divides.

In `Radio` a start can fail before and after the amplifier step, and four switches are two
rounds of starting and stopping. Two requests can hit the same switch, two switches, or one
a switch and one the time after it: the first loses an update of the switch word, the second
works on what it left. In `Operacake` five requests are enough to add ranges, select the
mode of both boards, disturb them and come back; the counter wraps at 4, more than any
program. In `SpiFlash` three requests are one the chip is still busy with, one that is
aborted, also while it is copied, and one that must not suffer from either; a page of two
has an inside and an edge.

The theorems of section 5 remove these bounds for the safety properties of every run,
and in `SweepPlan` for `TunedToLabel`. Most inductive invariants they rest on are
properties of a run too. The others are `PlanInv`, which TLC checks when it is added to
`SweepPlan.cfg` (half a minute), and `CommandInv` and `TimerInv`, when they are added to
`Operacake.cfg` as invariants of a module that extends `OperacakeInv` (a minute).

`CHECK_DEADLOCK FALSE` is set for `UsbControl`, `UsbControl_stale`, `Radio`,
`Radio_antenna`, `Operacake` and `SpiFlash`: there a host that has sent its last request
leaves nothing to do. The other modules have a main loop that always goes on.

What the properties of the newer modules do not promise, because the code does not
keep it:

* `FollowsSchedule`: only a sweep that starts after an accepted init request, and is
  left alone, follows its plan. `sweep_freq` outlives a sweep while `range` and `odd`
  do not, so a restarted interleaved sweep is off by a quarter step, and each restart
  adds another; and a quarter of the step must be a whole number, three of which fit
  in a word.
* `TunedToLabel`: not for frequencies the radio refuses, nor when a refused request
  has changed the offset; not from a tuning of the host on until the plan tunes again, nor
  after a request whose tuning fell into that of the start (`disturbed`). And not while an
  explicit tuning is in effect and the target is the frequency that was applied before it:
  the plan's own tuning is then skipped (`radio.c:190`), in the middle of a sweep as well as
  at its start, and the block is labelled with a frequency the radio is not at.
* `SwitchApplies`: not the antenna after the host has set it (section 6); not the
  frequency once `applied_freq` is not what is tuned, because it is stored before a
  tuning succeeds and not changed by an explicit one, so that the next switch does
  not tune; not the filter band after a tuning collided with a switch, until another
  frequency. Requests that overlap a switch may be lost or overwritten.
* `TransmitsOnlyInTx`: boot leaves the path in the transmit direction of
  `SWITCHCTRL_SAFE`; until a first switch succeeds the amplifier setting powers the
  transmit amplifier. `transceiver_startup` ignores a switch that failed. And in the switch
  from TX to OFF, `max2837_set_mode()` writes the pins before `drv->mode`
  (`max2837_target.c:73-76`), and `config->mode` is still TX (`radio.c:352-353`): a tuning
  by the host just there reads TX as the mode to restore and raises the transmit pin again
  (`tuning.c:71-72,116`). The switch then reports OFF with the chip transmitting, until
  the next tuning or direction sets the pins (`crossed`).
* `BoardsAsCommanded`: not ports that were never set (boot stores the pins of A1
  and B1 in place of their numbers), nor a board whose switch to time mode was refused,
  which is stored all the same, nor a board after its GPIO test, nor one that a request
  changed during a tuning of the main loop. After a GPIO test of any board, no board in time
  mode follows the timer until the next boot: the test takes the pins all of them share
  (`operacake.c:390-394,455-457`). In frequency mode only the first such board is moved.
* `DwellInPhase`: its dwells are SCT clocks, two to the sample the comment at
  `operacake_sctimer.c:107` speaks of (section 2). A new program does not clear the counter,
  and a disabled timer counts on, so the phase is promised only from a reset with the timer
  on and the program untouched; nor for a program with an empty dwell, or with more than the
  counter counts, which the request accepts (`Fits`).
* `ImplementsStore`, `SuccessIsTrue` and `Served` (SPI flash): not for a request that was
  handled before an older completion, which is then taken for its data (`stale`, the
  finding of `UsbControl`) and may write what was read to its address; and not for one
  that was copied while the SETUP packet of another arrived (`torn`; `usb.c:578-589`),
  which may be programmed at an address nobody asked for, or acknowledged to a host that
  takes it for the answer to its new request, or leave it waiting. The exception is for
  that request alone: the next one does again what it should.

## 4. Fairness and timing

* The specifications assume weak fairness of the main loop and of the M0 only:
  both cores run all the time, and an interrupt handler ends. None is assumed of
  the codec, the host's bulk transfers or its requests: `RequestServed` must hold
  without them.
* Where a property needs its environment, it says so itself, as the left side of
  an implication: `TxStarts` and `SweepDelivers` a host that sends or reads and a
  codec that delivers once enabled; `Delivered` a host that polls and a last
  packet (strong fairness, as a transfer may take any number of packets).
  `SpinsEnd` needs only that the controller does what needs no packet. `Served`
  needs the host to go on with its request, which `UsbControl` assumes.
* `TxStarts` needs transfers of more than one unit: until the codec streams, the
  flag `m0_set_mode` leaves behind lets one exchange through, and with transfers
  as small as that a third one would be queued before the buffer was found full.
* `Allowance` (Sweep): the M4 programs the next switch, and a retune ends, before
  the discarded blocks have passed: the claim of steps 3 to 6 of the comment in
  `sweep_mode`. Without it a late threshold is missed until the counters wrap.
* `SlowerThanAppend` (UsbQueue): appending a descriptor takes less than a
  packet. Otherwise the new descriptor could be finished before the append ends
  and be primed again.
* `SpiFlash`: the chip finishes, the interrupt is served and the host polls; a host
  that gives up on a request is part of the model. `SweepPlan`: the main loop runs,
  and a block comes as long as it waits for one, which `Sweep` shows. `Radio` and
  `Operacake` state safety only and assume nothing.
* `Answers` (UsbControl, SpiFlash): a SETUP packet holds off the host until the driver has
  flushed: it does not get between the clearing of the packet's status and the flush.
* A host that aborts a request (`aborted`) and a controller that drops a flush
  because of a packet in progress (`refused`; the comment at `usb.c:106` says that
  it may) are part of the models. Properties that do not survive them say so with
  `~aborted` or `~refused`; the others hold throughout. After a dropped flush the
  driver rewrites a descriptor that is still executed, and the wait for an idle
  endpoint, with interrupts masked, lasts as long as the host makes it.

## 5. Proofs

| Module proved about | For every | Assumptions | Theorems (property) |
|---|---|---|---|
| `Streaming` | transfer size, counter width, limit, OUT length | `SizeAssumption`, `HostAssumption`, `OutAssumption` | `Invariance` (`IInv`), `TypeCorrect`, `Disjoint` (`BufferDisjoint`), `QuietReset`, `ExplainedStops`, `ExactTimeout`, `ExactStats`; for full-size OUT transfers `OrderedTransfers`; `Refinement` (`ImplementsStream`) |
| `Sweep` | transfer size, counter width, dwell, sweep length, build | the same and `SweepAssumption` | `SweepInvariant` (`LoopInv`), `LabelledBlocks`, `UntouchedBlocks` |
| `SweepPlan` | set of plans and of tunings, word width, tuning limit, number of requests | `PlanAssumption` | `PlanInvariant` (`PlanInv`), `LabelsAreTuned` (`TunedToLabel`) |
| `UsbQueue` | pool size, number of transfers | `ControllerAssumption`, `JobsAssumption` | `QueueInvariant` (`QueueInv`), `QueueNeverRewritten`, `QueuePrimedOnlyIdle`, `QueueNeverStranded`, `QueueInOrder` |
| `UsbControl` | pool size, number of requests and resets | `ControlAssumption` | `ControlInvariance` (`ControlInv`), `ActedBeforeSuccess`, `AnswersAreOwn`; with four transfers or more `HandlerNeverSpins` |
| `Radio` | set of settings, configurations, bands and explicit tunings, number of requests and switches | `SettingsAssumption` | `PathInvariant` (`PathInv`), `NoStrayTransmission` (`TransmitsOnlyInTx`), `SwitchInvariance` (`SwitchInv`), `SwitchLeavesAsConfigured` (`SwitchApplies`) |
| `Operacake` | set of boards, range lists, port pairs, dwell programs, frequencies, counter width, number of requests | `BoardsAssumption`, `ProgramAssumption` | `CommandInvariance` (`CommandInv`), `BoardsFollowCommands` (`BoardsAsCommanded`), `RotationInPhase` (`DwellInPhase`) |
| `SpiFlash` | page length, number of pages, byte width, set of requests | `FlashAssumption` | `FlashInvariance` (`FlashInv`), `TrueSuccess`, `FlashRefinement` (`ImplementsStore`) |

The assumptions say that sizes and bounds are numbers and, beyond that: counters hold two
buffers and are a multiple of one (`SizeAssumption`); an OUT transfer is no longer than its
buffer (`OutAssumption`); the modes are those the module covers (`HostAssumption`,
`SweepAssumption`); a sweep's transfer is more than one exchange, 512 in the code
(`SweepAssumption`); a dwell and a step fit their words, and a tuning is automatic or
explicit, in range or out of it (`PlanAssumption`); amplifier and antenna settings are
switches, and no frequency is one of the marks the model uses for chips that are untuned or
half tuned (`SettingsAssumption`); boards are numbered from 0 without a gap, and a list of
ranges fits the table (`BoardsAssumption`); a dwell program is not empty
(`ProgramAssumption`). The timing assumptions of section 4 (`Allowance`, `SlowerThanAppend`)
are guards of the models, and so also of the theorems.

None of the properties is inductive; each rests on an invariant that is.

**Streaming** (`IInv`) follows
the stages of a session: `Handshake` (a request stands only while the M4 waits
for it, and the M0 is idle outside of a session), `Queues` (a transfer is queued
only by a running mode), `Modes` (what mode the M0 may be in, or that it has left
an error), `RxOrder` and `TxOrder` (the three stream positions on either side
lie in order within one buffer), `Stats` (what the rollback needs), `Timeouts`
(nothing raises a timeout before the session's limit is in place: until the codec
streams, the flag `m0_set_mode` sets lets at most one exchange through, which is
what `Late` counts). Each conjunct has a lemma, with a case per action.
`BufferDisjoint` then needs arithmetic only: two positions less than a buffer
apart have different offsets, also across the wrap, because `CountMod` is a
multiple of the buffer. The refinement maps a session to the open buffer and the
difference of the counts to its fill, and needs the same invariant: opening
happens on an idle M0, puts and takes stay within the capacity.

**Sweep** (`LoopInv`) keeps `Handshake`, `Modes` and `Opening` of a session and adds the
rounds. `Base` is the count at which the next block begins, computed from the threshold
and from where the M4 is. `Position`: the M0 is `Passed` exchanges into its stretch; while
the M4 is behind, what it passed and what is in flight is at most `lag`, and `lag` is less
than the stretch by the timing assumption, so the M0 never meets a threshold that has not
been programmed (`SwitchAhead`). `Round`: the phase follows the base through the buffer,
also past discarded blocks and the wrap, and a captured block means that the M4 is at its
base: the M0 copies only with space left, and with a block still unpaid the base is as far
as the credit goes. From that, `Queued`: while a block is queued, the M0 waits or has run
out of space. `BlocksLabelled` and `BlocksUntouched` are then consequences: a whole block
was captured at one frequency, and nothing is copied while one is queued.

**Sweep plan** (`PlanInv`): the frequency goes through three variables, and each holds what
the one before it asks for, unless the radio refuses it: `Ready` (between two blocks and
before a start has read it, the configuration holds the target of the label), `Configured`
(a frequency that was applied is the configured one), `Applied` (the hardware is at the
applied one). `Read` and `Tuning` carry this through the steps of a start: what it has
read is the configuration, and what it writes is the target, unless a request came in
between. Each says what an explicit tuning makes of it: it is what is configured and
tuned then, and `applied_freq` is the frequency of the tuning before. `disturbed` is the
history of a tuning that was not the plan's, and of a request during a start; only it
leaves the halves of two tunings in the hardware (`Collided`). A refused init request may
overwrite the plan under the label, which is what `offset_refused` excepts.

**Queue** (`QueueInv`). The lists: `Apart` (every transfer is in one of the lists, once, or
held by the allocation), `Turns` (as long as the exclusive monitor is set, the list that was
loaded is the list, which makes the pop of the free list safe against the interrupt's
pushes), `Chain` (the descriptors are linked as the active list is, and a handover works on
its end), `Jobs` (the list is in the order of scheduling). The controller: `Bits` (a
priming finds the endpoint off; with the tripwire kept, a ready sample was true) and
`Progress` (it works on the first live descriptor of the chain; what it will not come to by
itself is only what the main loop is still handing over; what is finished has an interrupt
pending, `Pending`). While a flush goes on, `Flushing` takes the place of `Progress`: the
controller is inside a part of the free list that it does not leave, and nothing of it is
allocated. A flush the controller drops ends these last parts, and the properties that rest
on them say `~refused`; `Apart` to `Jobs` outlive it. `SlowerThanAppend` is used where a
descriptor must not be finished before its append ends.

**Control requests** (`ControlInv`) follows a request through the handler: `Copied` (what
the driver copied and queued is of packets the host has sent), `NothingOlder` (after the
flush no transfer of an older request is left), `ActedFirst` (an acknowledgement is offered
only once the handler has acted), `Undisturbed` (without an abort the driver has the
host's packet or will find it pending), `InOrder` (nothing that waits has something
finished behind it, so what a completion frees is not followed by an answer),
`NoEventForgotten` (a completion or a SETUP packet is always still announced or about
to be looked at). The two action properties then take one case per action. `NeverSpins`
needs a count: `Load` is what an endpoint may come to hold before the next request, its
unfinished transfers, its finished ones until they are freed, and a stage for each
completion still to be handled. A request begins with empty queues and at most one stale
completion per endpoint, so the load is at most four over both (`Room`), and each stage
queues at most one transfer and uses up one completion. `Lost` covers what a bus reset
drops without freeing: nothing is scheduled after it until the next SETUP packet has
flushed it. Four transfers are what `USB_DEFINE_QUEUE` gives a control endpoint
(`usb_endpoint.c`); with three the claim is false.

**Radio** has two invariants. `PathInv`, for `TransmitsOnlyInTx`: only one store of the
switch turns the path (`PathFollows`), a request never does, so that every word the main
loop has loaded has the current direction, whatever else of it is stale (`Fresh`); the mode
is stored before everything else, or last when it is OFF (`ModeFollows`); the chips are off
until a start comes to its last routine, behind every step that can fail (`ChipFollows`).
So is the transceiver chip, pins and stored mode in the order they are written
(`TransceiverFollows`): what a tuning in the interrupt saves and restores is the stored mode,
which in a start is standby up to the last routine, and in a stop is behind the pins for
one step; a tuning that falls into it is `crossed`.
`ApplyInv`, for `SwitchApplies`: `Cached` (the cached frequency is none of the marks and no
explicit one, and chips are only tuned to what they accept, so that "already applied" is
taken for a true frequency or not at all), `BandFollows` (while no tuning collided with
the switch, loaded words have the current band, and the band follows the frequency),
`Undisturbed` (with no request in between, what the switch has read is what is stored, and
every setting, the word, the chips and the pins are applied up to its step: `AppliedSoFar`,
`ClearedSoFar`, `DirectedSoFar`), and `Rest` (what the last step leaves, and requests at
rest keep). The proof first says what each routine consists of; then one lemma per kind of
step tells what it changes (`Effects`), and each part of the invariant is one comparison of
"before" and "after" that step.

**Opera Cake** has two invariants as well. `CommandInv`, for `BoardsAsCommanded`:
`Commanded` (what does not depend on ranges: every board outside of time mode is on its
outputs, known or not, which is why ports that are set later reach them), `Cached` (a range
is only cached while the first board in frequency mode is at its ports, and at rest it is
the one that the last frequency chooses, so that a retune may skip the boards), and `Walk`
(how far `operacake_set_range()` is in the main loop as long as no request has come in
between: the ranges before the index do not match, the one it ends with is the one the
interrupt would have chosen, and the boards before the loop's index do not follow). One
lemma per request and per step. The interrupt's form is one step with a minimum in it, the
main loop's a search; `LastChosen` and `MovedFirst` say that they come to the same. A GPIO
test takes every board in time mode out of `known`, as it takes the timer's pins.
`TimerInv`, for `DwellInPhase`: a program clears the prescaler, the counter is in range, and
a reset selects the first port of the program in the timer. What the loop of
`operacake_sctimer_set_dwell_times()` adds up is a recursive function, so its values need
induction: `UpTo` states it for a set of numbers, from the least element that is missing,
and `DwelledIs` (the sums exist), `DwellsInOrder` and `InOneDwell` (every count is in one
dwell, and no other) follow.

**SPI flash** (`FlashInv`) adds to the types `OwnPacket` (what was copied, and what the
handler was called with, is one packet, and the host's last one unless that is still
pending, or another came while it was copied), `OnCourse` (a command is sent only to a
chip that takes it; address and length left are the tail of the request) and, for a
request neither stale nor torn, `OwnData` (the buffer holds the data of the request in
progress) and `ReadBack`. The next request sets these two up again from nothing: the
flush leaves no transfer behind, and the packet is whole. The mapping
takes a write for done when its data has come: `Content` is the flash as it will be
when the command in the chip and the pages still to come have ended. A step of the
driver or the chip is then a stutter, which needs that a chunk never crosses a page
(`WithinBlock`): only then does the chip not wrap.

Only model-checked:

* Liveness under fairness, and `ENABLED`, are out of the prover's reach: `RequestServed`,
  `TxStarts`, `RxDelivers`, `SweepDelivers`, `SpinsEnd`, `Delivered`, `GoesRound`, and
  `Served` of `UsbControl` and `SpiFlash`.
* `FollowsSchedule`: its reference, `SweepPoints`, is built with the library's fold over the
  ranges of a plan. That the walk computes it for every plan needs induction over that
  list, on top of an invariant that relates the walk to a place in it.

## 6. Disagreements between the code and its text

* `UnderrunIsCounted` (`Streaming_wrap`): TX never sets a threshold; its value 0
  is met when the count wraps, and the M0 falls back to TX_START, in which an
  underrun is not counted.
* `DataStageHasData` (`UsbControl_stale`): SETUP events are handled before older
  completions, which are then taken for those of the new request: a write may be
  acted on before its data has come. No abort is needed, only an interrupt
  delayed from the end of one request to the start of the next.

* `SettingReachesAntenna` (`Radio_antenna`): `radio_set_antenna()` applies the value
  configured before and stores the new one afterwards (`radio.c:241`); `radio.h:189`
  says that a setting made in an active mode reaches the hardware.

More that the models contain and no run is spent on:

* `m0_set_mode` writes the request and then sets the SGPIO flag; an idle M0 may
  acknowledge in between, and the flag stays set, against the comment at `m0_state.c:33`
  (`Late` in `IInv` and the remark on `TxStarts` are its consequences).
* A SETUP packet that arrives while the one before it is copied is torn, and one between
  the copy and the clearing of its status (`usb.c:587`) is dropped.
* The timer is set up to count "at the sample clock" (`operacake_sctimer.c:107`), and
  every request that enables or programs it clears the prescaler that makes it so
  (`operacake_sctimer.c:129,136`): `prescaled` holds at boot only.
* A switch to OFF can end with the transceiver chip transmitting (`crossed`, section 3),
  and a block of a sweep can carry a label that an explicit tuning has made false
  (`TunedToLabel`, section 3).

## 7. Plan

The components with a state machine of their own have a module. What is left, in order:

1. Theorem: `FollowsSchedule` of `SweepPlan`, the last property of safety without one. The
   reference would become a recursive function over the ranges, and the proof the
   induction of `OperacakeProofs` (`UpTo`) over it.
2. `ClockSelect`: clock source and clock output selection, if more of it turns out to
   be state than register writes.

## 8. Not modelled

* **RF front-end chips**, beyond one value per setting and the interleaving of two
  tunings: registers and bit fields are data.
* **CPLD update**: what is not the vendored XSVF player or JTAG register writes is one
  buffer refilled from bulk transfers. A mode request during an update flushes that
  transfer and `refill` waits for ever (`usb_api_cpld.c:59`), which is visible in the
  code and listed as a hazard.
* **SGPIO configuration, board support, clock selection**: register writes without an
  order that could be disturbed. **User interfaces, information requests, descriptor
  contents**: output, or data.
* In `Radio`, the pins of the MAX2839 (HackRF One r9 and later select between the two) and
  of other boards' chips, the clock output, the trigger flag and the bias options a user may
  store in the flash; in `Operacake`, the I2C bus that main loop and interrupt share, and
  read-outs; in `SpiFlash`, the status read-out.
* **Vendored and generated code**: libopencm3, xapp058 and the rad1o display library
  are third-party and, with register maps (`sct.h`) and fonts, the bulk of the
  repository's lines. What is modelled is the firmware's own control logic, a small share
  of the whole.
* Bus errors on a transfer end in an endless loop in the code (`usb_queue.c:215`):
  nothing can be said after it, and the controller of the model reports none. The
  configuration callback reads through a null pointer on a bus reset (`main.c:187`);
  its outcome depends on what address 0 holds, so only the mode request it makes is
  modelled, as a request like any other.
