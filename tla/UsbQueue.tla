------------------------------ MODULE UsbQueue ------------------------------
(***************************************************************************)
(* The transfer queue of an endpoint (src/common/usb_queue.c) and the part *)
(* of src/common/usb.c that hands its descriptors to the controller.       *)
(*                                                                         *)
(* The main loop schedules transfers and flushes; the USB interrupt        *)
(* completes them, and flushes when a request arrives.  The interrupt      *)
(* preempts the main loop anywhere but between cm_disable_interrupts() and *)
(* cm_enable_interrupts(), and the main loop never runs during it; the     *)
(* controller runs in parallel with both.  The lists are sequences: the    *)
(* free list pops and pushes at its head.                                  *)
(***************************************************************************)
EXTENDS UsbController, SequencesExt

CONSTANT MaxJobs   \* bound: transfers that are scheduled

ASSUME JobsAssumption == MaxJobs \in Nat

VARIABLES
  free_transfers, active,
  pc,          \* where the main loop and the interrupt handler are
  monitor,     \* the exclusive monitor of ldrex and strex
  held,        \* allocate_transfer: the free list as ldrex found it
  transfer,    \* usb_transfer_schedule: the allocated transfer
  sampled,     \* usb_endpoint_schedule_append: done
  issued,      \* number of transfers scheduled so far
  done         \* the last one whose completion was reported

listVars == <<free_transfers, active>>
allocVars == <<monitor, held, transfer>>
vars == <<controllerVars, listVars, pc, allocVars, sampled, issued, done>>

Threads == {"main", "isr"}

Init ==
  /\ ControllerInit
  /\ free_transfers = [i \in Transfers |-> i] /\ active = <<>>
  /\ pc = [th \in Threads |-> "idle"]
  /\ monitor = FALSE /\ held = <<>> /\ transfer = TERMINATE
  /\ sampled = FALSE /\ issued = 0 /\ done = 0

\* Interrupts are masked from linking the transfer until it is primed.
Appending == pc["main"] \in {"append", "tripwire", "sample", "confirm"}
Masked == pc["main"] = "wait_ready" \/ Appending

\* A thread goes from one place to another.  The main loop stands still
\* while the interrupt handler runs.
Step(th, from, to) ==
  /\ pc[th] = from /\ pc' = [pc EXCEPT ![th] = to]
  /\ th = "main" => pc["isr"] = "idle"

-----------------------------------------------------------------------------
(* usb_transfer_schedule_block(): try until there is a free transfer *)

Schedule ==
  /\ Step("main", "idle", "alloc") /\ issued < MaxJobs
  /\ UNCHANGED <<controllerVars, listVars, allocVars, sampled, issued, done>>

CheckFree ==
  /\ Step("main", "alloc", "load") /\ free_transfers # <<>>
  /\ UNCHANGED <<controllerVars, listVars, allocVars, sampled, issued, done>>

LoadExclusive ==
  /\ Step("main", "load", "store")
  /\ held' = free_transfers /\ monitor' = TRUE
  /\ UNCHANGED <<controllerVars, listVars, transfer, sampled, issued, done>>

Pop == free_transfers' = Tail(held) /\ transfer' = Head(held)

\* mutant: a plain store
StorePlain ==
  /\ Step("main", "store", "fill") /\ Pop /\ monitor' = FALSE
  /\ UNCHANGED <<controllerVars, active, held, sampled, issued, done>>

StoreExclusive ==
  /\ \/ monitor /\ Step("main", "store", "fill") /\ Pop
     \/ ~monitor /\ Step("main", "store", "load") /\ UNCHANGED <<free_transfers, transfer>>
  /\ monitor' = FALSE
  /\ UNCHANGED <<controllerVars, active, held, sampled, issued, done>>

\* The descriptor is filled in before interrupts are masked.
Fill ==
  /\ Step("main", "fill", "link")
  /\ td_next' = [td_next EXCEPT ![transfer] = TERMINATE]
  /\ td_active' = [td_active EXCEPT ![transfer] = TRUE]
  /\ job' = [job EXCEPT ![transfer] = issued + 1] /\ issued' = issued + 1
  /\ UNCHANGED <<bitVars, unitVars, listVars, allocVars, sampled, done>>

\* mutant: the transfer is put before the others
LinkFirst ==
  /\ active' = <<transfer>> \o active
  /\ \/ /\ active = <<>> /\ Step("main", "link", "wait_ready")
        /\ UNCHANGED td_next
     \/ /\ active # <<>> /\ Step("main", "link", "append")
        /\ td_next' = [td_next EXCEPT ![Last(active)] = transfer]
  /\ UNCHANGED <<td_active, job, bitVars, unitVars, free_transfers, allocVars, sampled, issued, done>>

\* endpoint_queue_transfer(), and the link that schedule_append stores
Link ==
  /\ active' = Append(active, transfer)
  /\ \/ /\ active = <<>> /\ Step("main", "link", "wait_ready")
        /\ UNCHANGED td_next
     \/ /\ active # <<>> /\ Step("main", "link", "append")
        /\ td_next' = [td_next EXCEPT ![Last(active)] = transfer]
  /\ UNCHANGED <<td_active, job, bitVars, unitVars, free_transfers, allocVars, sampled, issued, done>>

\* usb_endpoint_schedule_wait()
\* mutant: no wait for the endpoint to become idle
WaitNever ==
  /\ Step("main", "wait_ready", "idle") /\ Prime(transfer)
  /\ td_next' = [td_next EXCEPT ![transfer] = TERMINATE]
  /\ UNCHANGED <<PrimeStays, tripwire, listVars, allocVars, sampled, issued, done>>

WaitReady ==
  /\ Step("main", "wait_ready", "idle") /\ ~Ready /\ Prime(transfer)
  /\ td_next' = [td_next EXCEPT ![transfer] = TERMINATE]
  /\ UNCHANGED <<PrimeStays, tripwire, listVars, allocVars, sampled, issued, done>>

\* usb_endpoint_schedule_append()
CheckPriming ==
  /\ \/ prime /\ Step("main", "append", "idle")
     \/ ~prime /\ Step("main", "append", "tripwire")
  /\ UNCHANGED <<controllerVars, listVars, allocVars, sampled, issued, done>>

SetTripwire ==
  /\ Step("main", "tripwire", "sample") /\ tripwire' = ~Hazard
  /\ UNCHANGED <<tdVars, qh_next, prime, flush, complete, unitVars, listVars, allocVars,
                 sampled, issued, done>>

SampleReady ==
  /\ Step("main", "sample", "confirm") /\ sampled' = Ready
  /\ UNCHANGED <<controllerVars, listVars, allocVars, issued, done>>

\* mutant: the sample is trusted though the tripwire was cleared
TrustSample ==
  /\ Step("main", "confirm", "idle") /\ tripwire' = FALSE
  /\ IF sampled THEN UNCHANGED <<qh_next, prime>> ELSE Prime(transfer)
  /\ UNCHANGED <<PrimeStays, td_next, listVars, allocVars, sampled, issued, done>>

ConfirmSample ==
  /\ tripwire' = FALSE
  /\ \/ /\ ~tripwire /\ Step("main", "confirm", "tripwire")
        /\ UNCHANGED <<qh_next, prime>>
     \/ /\ tripwire /\ Step("main", "confirm", "idle")
        /\ IF sampled THEN UNCHANGED <<qh_next, prime>> ELSE Prime(transfer)
  /\ UNCHANGED <<PrimeStays, td_next, listVars, allocVars, sampled, issued, done>>

(* usb_endpoint_flush(), by either thread *)

BeginFlush ==
  /\ Step("main", "idle", "flush")
  /\ UNCHANGED <<controllerVars, listVars, allocVars, sampled, issued, done>>

FlushQueue(th) ==
  /\ Step(th, "flush", "flush_primed")
  /\ free_transfers' = Reverse(active) \o free_transfers /\ active' = <<>>
  /\ UNCHANGED <<controllerVars, allocVars, sampled, issued, done>>

\* mutant: the controller keeps what it has primed
FlushForgotten(th) ==
  /\ Step(th, "flush_primed", "idle")
  /\ UNCHANGED <<controllerVars, listVars, allocVars, sampled, issued, done>>

FlushPrimed(th) ==
  /\ Step(th, "flush_primed", "flush_wait") /\ ~prime /\ flush' = TRUE
  /\ UNCHANGED <<tdVars, qh_next, prime, complete, tripwire, unitVars, listVars,
                 allocVars, sampled, issued, done>>

FlushWait(th) ==
  /\ Step(th, "flush_wait", "idle") /\ ~flush
  /\ UNCHANGED <<controllerVars, listVars, allocVars, sampled, issued, done>>

Flush(th) == FlushQueue(th) \/ FlushPrimed(th) \/ FlushWait(th)

-----------------------------------------------------------------------------
(* usb0_isr(): entering it clears the exclusive monitor *)

EnterIsr(to) == Step("isr", "idle", to) /\ ~Masked /\ monitor' = FALSE

\* A request arrives that flushes the endpoint.
RequestEvent ==
  /\ EnterIsr("flush")
  /\ UNCHANGED <<controllerVars, listVars, held, transfer, sampled, issued, done>>

\* usb_check_for_transfer_events() acknowledges before it looks.
TransferEvent ==
  /\ complete /\ complete' = FALSE /\ EnterIsr("completing")
  /\ UNCHANGED <<tdVars, qh_next, prime, flush, tripwire, unitVars, listVars, held, transfer,
                 sampled, issued, done>>

(* usb_queue_transfer_complete(): report and free what has finished *)
Finished == active # <<>> /\ ~td_active[Head(active)]

CompleteTransfer ==
  /\ pc["isr"] = "completing" /\ Finished
  /\ active' = Tail(active) /\ free_transfers' = <<Head(active)>> \o free_transfers
  /\ done' = job[Head(active)]
  /\ UNCHANGED <<controllerVars, pc, allocVars, sampled, issued>>

CompleteEnd ==
  /\ Step("isr", "completing", "idle") /\ ~Finished
  /\ UNCHANGED <<controllerVars, listVars, allocVars, sampled, issued, done>>

-----------------------------------------------------------------------------
ScheduleNext ==
  \/ CheckFree \/ LoadExclusive \/ StoreExclusive \/ Fill \/ Link \/ WaitReady
  \/ CheckPriming \/ SetTripwire \/ SampleReady \/ ConfirmSample

MainNext == ScheduleNext \/ Flush("main")
IsrNext == TransferEvent \/ CompleteTransfer \/ CompleteEnd \/ Flush("isr")
Client == Schedule \/ BeginFlush \/ RequestEvent

\* Timing assumption: appending a descriptor takes less than a packet, so the
\* controller cannot carry out the new one before schedule_append() is over.
SlowerThanAppend == Appending /\ cur = transfer => unit' # "packet"

HwNext ==
  /\ ControllerNext /\ SlowerThanAppend
  /\ UNCHANGED <<listVars, pc, allocVars, sampled, issued, done>>

Next == MainNext \/ IsrNext \/ Client \/ HwNext

Spec == Init /\ [][Next]_vars

\* The CPU runs, and the controller does what needs no host.
FairSpec ==
  /\ Spec /\ WF_vars(MainNext) /\ WF_vars(IsrNext)
  /\ WF_vars(ControllerAlone /\ UNCHANGED <<listVars, pc, allocVars, sampled, issued, done>>)

-----------------------------------------------------------------------------
(* Safety *)

Places == {"idle", "alloc", "load", "store", "fill", "link", "wait_ready", "append",
         "tripwire", "sample", "confirm", "flush", "flush_primed", "flush_wait", "completing"}

\* Every variable has its type; no list grows beyond the pool.
TypeOK ==
  /\ ControllerTypeOK
  /\ free_transfers \in Seq(Transfers) /\ active \in Seq(Transfers) /\ held \in Seq(Transfers)
  /\ Len(free_transfers) <= PoolSize /\ Len(active) <= PoolSize
  /\ pc \in [Threads -> Places]
  /\ monitor \in BOOLEAN /\ sampled \in BOOLEAN
  /\ transfer \in Transfers \cup {TERMINATE}
  /\ issued \in 0 .. MaxJobs /\ done \in 0 .. MaxJobs

\* Every transfer is in exactly one place: on the free list, on the active
\* list, or in the hand of the main loop that has allocated it.  (The free
\* list is popped and pushed by two threads without a lock.)
InHand == IF pc["main"] \in {"fill", "link"} THEN <<transfer>> ELSE <<>>
PoolConserved ==
  LET all == free_transfers \o active \o InHand
  IN Len(all) = PoolSize /\ ToSet(all) = Transfers

\* allocate_transfer() looks for an empty list once, before its loop, and yet
\* never takes the head of an empty one.
NeverPopsEmpty == pc["main"] = "store" => held # <<>>

\* The descriptor that is filled in is not one the controller still executes,
\* is about to turn to, or was primed with.  (Unless the controller has
\* dropped a flush because of a packet, which the driver does not notice.)
Owned(t) ==
  \/ prime /\ qh_next = t
  \/ unit \in {"armed", "packet", "retire"} /\ cur = t
  \/ unit = "advance" /\ seen = t
NeverRewritten == pc["main"] = "fill" /\ ~refused => ~Owned(transfer)

\* Only an endpoint that has nothing to do is primed.
PrimedOnlyIdle == prime => ~Ready

\* No transfer is stranded: once the main loop has handed a transfer over,
\* and no interrupt is pending or running, the controller is executing the
\* head of the queue, on its way to it, or primed with it.
Quiet == pc["isr"] = "idle" /\ ~Masked /\ pc["main"] # "flush_wait" /\ ~complete
NeverStranded == Quiet /\ active # <<>> /\ ~refused => Owned(Head(active))

\* Completions are reported in the order the transfers were scheduled, each
\* at most once, and only for transfers the controller has executed.
InOrder == [][done' # done /\ ~refused => done' > done /\ done' \in ran]_done

-----------------------------------------------------------------------------
(* Liveness *)

\* No spin waits for the host: the main loop masks interrupts for a bounded
\* time only, and the interrupt handler returns, though both wait for the
\* controller to prime and to flush.  (After a flush that was dropped, the
\* wait for an idle endpoint does last as long as the host makes it.)
SpinsEnd ==
  /\ Masked ~> (~Masked \/ refused)
  /\ (pc["isr"] # "idle") ~> (pc["isr"] = "idle")

=============================================================================
