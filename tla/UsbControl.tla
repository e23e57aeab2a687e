----------------------------- MODULE UsbControl -----------------------------
(***************************************************************************)
(* Control transfers: the USB interrupt handler (usb0_isr in src/common/    *)
(* usb.c), the dispatch of their stages (src/common/usb_request.c) and the  *)
(* shapes their handlers have, against a host that may abort a transfer    *)
(* with a new SETUP packet or reset the bus, and against the controller    *)
(* that goes on while the handler runs.                                    *)
(*                                                                         *)
(* Only the interrupt handler uses the control queues, so allocating and   *)
(* appending are one step here; UsbQueue opens them up.  What the handlers *)
(* do is abstracted to that they act, and on which request.                *)
(***************************************************************************)
EXTENDS Integers, Sequences

CONSTANTS
  PoolSize,     \* transfers of a control queue: USB_DEFINE_QUEUE(.., 4)
  MaxRequests,  \* bound: SETUP packets the host sends
  MaxResets     \* bound: bus resets

ASSUME ControlAssumption ==
  PoolSize \in Nat \ {0} /\ MaxRequests \in Nat /\ MaxResets \in Nat

Eps == {"out", "in"}
Other(ep) == IF ep = "out" THEN "in" ELSE "out"

\* The shapes of requests: device to host, with the acknowledgement queued
\* at once or after the data; host to device, with data or without.
Kinds == {"read", "read_late", "write", "command"}
Direction(kind) == IF kind \in {"read", "read_late"} THEN "in" ELSE "out"
NoRequest == [serial |-> 0, kind |-> "command"]
Requests == [serial : 0 .. MaxRequests, kind : Kinds]

VARIABLES
  host,        \* the host's request and the stage it is in
  setup_buffer, setup_stat, \* the queue head's SETUP packet; ENDPTSETUPSTAT
  complete,    \* ENDPTCOMPLETE
  stalled,     \* stall bits of endpoint 0
  ui, uri,     \* USBSTS: a transfer or SETUP event; a bus reset
  queue,       \* per endpoint: the active transfers
  setup,       \* per endpoint: the driver's copy of the SETUP packet
  pc, resetting, seen, \* the interrupt handler, and what it has read
  acted, arrived,      \* history: requests acted on, and whose data came
  resets,
  aborted      \* history: the host began a request before the last one had
               \* ended or the last bus reset was handled

hostVars == <<host, resets, arrived, aborted>>
hwVars == <<setup_buffer, setup_stat, complete, stalled, ui, uri>>
isrVars == <<setup, pc, resetting, seen, acted>>
vars == <<hostVars, hwVars, queue, isrVars>>

Init ==
  /\ host = [request |-> NoRequest, stage |-> "idle"]
  /\ setup_buffer = [direction |-> "out", request |-> NoRequest] /\ setup_stat = FALSE
  /\ complete = [ep \in Eps |-> FALSE] /\ stalled = FALSE /\ ui = FALSE /\ uri = FALSE
  /\ queue = [ep \in Eps |-> <<>>]
  /\ setup = [ep \in Eps |-> setup_buffer]
  /\ pc = "idle" /\ resetting = FALSE /\ seen = {}
  /\ acted = {} /\ arrived = {} /\ resets = 0 /\ aborted = FALSE

-----------------------------------------------------------------------------
(* The host and the controller *)

\* Setting the SETUP status also ends a stall, and NAKs what is primed.
HostSetup(kind) ==
  LET request == [serial |-> host.request.serial + 1, kind |-> kind]
  IN /\ host.request.serial < MaxRequests
     /\ aborted' = (aborted \/ host.stage # "idle" \/ uri \/ resetting)
     /\ host' = [request |-> request,
                 stage |-> IF kind = "command" THEN "status" ELSE "data"]
     /\ setup_buffer' = [direction |-> Direction(kind), request |-> request]
     /\ setup_stat' = TRUE /\ stalled' = FALSE /\ ui' = TRUE
     /\ UNCHANGED <<resets, arrived, complete, uri, queue, isrVars>>

\* The controller answers nothing but SETUP packets until the last one is
\* dealt with.  Timing assumption: the few instructions between clearing the SETUP status
\* and flushing both endpoints take less than the host to its next packet.
Answers == ~setup_stat /\ pc \notin {"flush_in", "flush_out"}

\* It carries out the first transfer queued for an endpoint.
Active(t) == t.status = "active"
Execute(ep) ==
  /\ Answers /\ ~stalled
  /\ \E i \in DOMAIN queue[ep] :
       /\ Active(queue[ep][i]) /\ \A j \in 1 .. i - 1 : ~Active(queue[ep][j])
       /\ queue' = [queue EXCEPT ![ep][i].status = "done"]
  /\ complete' = [complete EXCEPT ![ep] = TRUE] /\ ui' = TRUE
  /\ UNCHANGED <<setup_buffer, setup_stat, stalled, uri, resets, aborted, isrVars>>

HostData ==
  /\ host.stage = "data" /\ Execute(Direction(host.request.kind))
  /\ host' = [host EXCEPT !.stage = "status"]
  /\ arrived' = arrived \cup {host.request}

HostStatus ==
  /\ host.stage = "status" /\ Execute(Other(Direction(host.request.kind)))
  /\ host' = [host EXCEPT !.stage = "idle"] /\ UNCHANGED arrived

HostStalled ==
  /\ Answers /\ host.stage # "idle" /\ stalled /\ host' = [host EXCEPT !.stage = "idle"]
  /\ UNCHANGED <<resets, arrived, aborted, hwVars, queue, isrVars>>

HostReset ==
  /\ resets < MaxResets /\ resets' = resets + 1
  /\ uri' = TRUE /\ host' = [host EXCEPT !.stage = "idle"]
  /\ UNCHANGED <<arrived, aborted, setup_buffer, setup_stat, complete, stalled, ui, queue, isrVars>>

-----------------------------------------------------------------------------
(* usb0_isr() *)

Goto(from, to) == pc = from /\ pc' = to

Enter ==
  /\ ui \/ uri
  /\ Goto("idle", IF ui THEN "check_setup" ELSE "check_reset") /\ resetting' = uri
  /\ ui' = FALSE /\ uri' = FALSE
  /\ UNCHANGED <<hostVars, setup_buffer, setup_stat, complete, stalled, queue, setup, seen, acted>>

(* usb_check_for_setup_events() *)
CheckSetup ==
  /\ Goto("check_setup", IF setup_stat THEN "copy_out" ELSE "check_complete")
  /\ UNCHANGED <<hostVars, hwVars, queue, setup, resetting, seen, acted>>

\* copy_setup() reads the packet byte by byte: first the type, with the
\* direction, then the rest.
Copy(ep, part, from, to) ==
  /\ Goto(from, to) /\ setup' = [setup EXCEPT ![ep][part] = setup_buffer[part]]
  /\ UNCHANGED <<hostVars, hwVars, queue, resetting, seen, acted>>

CopySetup ==
  \/ Copy("out", "direction", "copy_out", "copy_out_rest")
  \/ Copy("out", "request", "copy_out_rest", "copy_in")
  \/ Copy("in", "direction", "copy_in", "copy_in_rest")
  \/ Copy("in", "request", "copy_in_rest", "clear_setup")

ClearSetup ==
  /\ Goto("clear_setup", "flush_in") /\ setup_stat' = FALSE
  /\ UNCHANGED <<hostVars, setup_buffer, complete, stalled, ui, uri, queue, setup, resetting, seen, acted>>

\* usb_setup_complete() aborts what is in progress.
FlushNothing(ep) == UNCHANGED queue               \* mutant
FlushEndpoint(ep) == queue' = [queue EXCEPT ![ep] = <<>>]

FlushControl ==
  /\ \/ Goto("flush_in", "flush_out") /\ FlushEndpoint("in")
     \/ Goto("flush_out", "setup_stage") /\ FlushEndpoint("out")
  /\ UNCHANGED <<hostVars, hwVars, setup, resetting, seen, acted>>

\* usb_transfer_schedule_block() by a handler: it would spin on a full queue.
HandledBy(ep) == setup[ep].request
Schedule(ep, by) ==
  /\ Len(queue[ep]) < PoolSize
  /\ queue' = [queue EXCEPT ![ep] = Append(@, [serial |-> HandledBy(by).serial,
                                               status |-> "active"])]

\* Without a handler, or when it refuses, the endpoint is stalled.
Refuse(by) == stalled' = TRUE /\ UNCHANGED <<queue, acted>>
Act(by) == acted' = acted \cup {HandledBy(by)}
Ignore == UNCHANGED <<queue, acted, stalled>>

HandlerFrame ==
  UNCHANGED <<hostVars, setup_buffer, setup_stat, complete, ui, uri, setup, resetting, seen>>

SetupRead ==
  /\ \/ /\ HandledBy("out").kind = "read" /\ Goto("setup_stage", "setup_ack")
        /\ Schedule("in", "out")
     \/ Goto("setup_ack", "check_complete") /\ Schedule("out", "out")
  /\ UNCHANGED <<acted, stalled>>

SetupReadLate ==
  /\ HandledBy("out").kind = "read_late" /\ Goto("setup_stage", "check_complete")
  /\ Schedule("in", "out") /\ UNCHANGED <<acted, stalled>>

\* mutant: the status stage is offered before the data has come
SetupWriteAck ==
  /\ HandledBy("out").kind = "write"
  /\ Goto("setup_stage", "setup_ack") /\ Schedule("in", "out")
  /\ UNCHANGED <<acted, stalled>>

SetupWrite ==
  /\ HandledBy("out").kind = "write" /\ Goto("setup_stage", "check_complete")
  /\ Schedule("out", "out") /\ UNCHANGED <<acted, stalled>>

SetupCommand ==
  /\ HandledBy("out").kind = "command" /\ Goto("setup_stage", "check_complete")
  /\ Act("out") /\ Schedule("in", "out") /\ UNCHANGED stalled

SetupStage ==
  /\ \/ SetupRead \/ SetupReadLate \/ SetupWrite \/ SetupCommand
     \/ Goto("setup_stage", "check_complete") /\ Refuse("out")
  /\ HandlerFrame

(* usb_check_for_transfer_events(): OUT before IN *)
CheckComplete ==
  /\ Goto("check_complete", "complete_out") /\ seen' = {ep \in Eps : complete[ep]}
  /\ UNCHANGED <<hostVars, hwVars, queue, setup, resetting, acted>>

CompleteAt(ep) == IF ep = "out" THEN "complete_out" ELSE "complete_in"
StageAt(ep) == IF ep = "out" THEN "stage_out" ELSE "stage_in"
ReapAt(ep) == IF ep = "out" THEN "reap_out" ELSE "reap_in"
AfterReap(ep) == IF ep = "out" THEN "complete_in" ELSE "check_reset"

\* mutant: the completion is left standing
ClearNothing(ep) ==
  /\ Goto(CompleteAt(ep), IF ep \in seen THEN StageAt(ep) ELSE AfterReap(ep))
  /\ UNCHANGED <<hostVars, hwVars, queue, setup, resetting, seen, acted>>

ClearComplete(ep) ==
  /\ \/ ep \in seen /\ Goto(CompleteAt(ep), StageAt(ep)) /\ complete' = [complete EXCEPT ![ep] = FALSE]
     \/ ep \notin seen /\ Goto(CompleteAt(ep), AfterReap(ep)) /\ UNCHANGED complete
  /\ UNCHANGED <<hostVars, setup_buffer, setup_stat, stalled, ui, uri, queue, setup, resetting, seen, acted>>

\* usb_control_out_complete(), usb_control_in_complete(): the stage follows
\* from the direction of the copied SETUP packet.
DataStage(ep) == setup[ep].direction = ep

\* mutant: the data stage has no handler
HandleNothing(ep) == Goto(StageAt(ep), ReapAt(ep)) /\ Ignore /\ HandlerFrame

HandleStage(ep) ==
  LET kind == HandledBy(ep).kind
  IN /\ Goto(StageAt(ep), ReapAt(ep))
     /\ \/ DataStage(ep) /\ kind = "write" /\ Act(ep) /\ Schedule("in", ep) /\ UNCHANGED stalled
        \/ DataStage(ep) /\ kind \in {"write", "read_late"} /\ Refuse(ep)
        \/ DataStage(ep) /\ kind = "read_late" /\ Schedule("out", ep) /\ UNCHANGED <<acted, stalled>>
        \/ ~(DataStage(ep) /\ kind \in {"write", "read_late"}) /\ Ignore
     /\ HandlerFrame

\* usb_queue_transfer_complete() frees transfers up to the first whose status
\* is still active, which it is in one that a bus reset dropped.
Reap(ep) ==
  /\ Goto(ReapAt(ep), AfterReap(ep))
  /\ \E n \in 0 .. Len(queue[ep]) :
       /\ \A i \in 1 .. n : queue[ep][i].status = "done"
       /\ n < Len(queue[ep]) => queue[ep][n + 1].status # "done"
       /\ queue' = [queue EXCEPT ![ep] = SubSeq(@, n + 1, Len(@))]
  /\ UNCHANGED <<hostVars, hwVars, setup, resetting, seen, acted>>

\* usb_bus_reset(): the controller forgets its transfers, the lists do not.
Dropped(q) == [i \in DOMAIN q |-> IF Active(q[i]) THEN [q[i] EXCEPT !.status = "dropped"] ELSE q[i]]

BusReset ==
  /\ resetting /\ Goto("check_reset", "idle") /\ resetting' = FALSE
  /\ ui' = FALSE /\ uri' = FALSE /\ setup_stat' = FALSE
  /\ complete' = [ep \in Eps |-> FALSE]
  /\ queue' = [ep \in Eps |-> Dropped(queue[ep])]
  /\ UNCHANGED <<hostVars, setup_buffer, stalled, setup, seen, acted>>

\* mutant: the status is cleared when the handler is done
LeaveCleared ==
  /\ ~resetting /\ Goto("check_reset", "idle") /\ ui' = FALSE
  /\ UNCHANGED <<hostVars, setup_buffer, setup_stat, complete, stalled, uri, queue, setup,
                 resetting, seen, acted>>

Leave ==
  /\ ~resetting /\ Goto("check_reset", "idle")
  /\ UNCHANGED <<hostVars, hwVars, queue, setup, resetting, seen, acted>>

-----------------------------------------------------------------------------
IsrNext ==
  \/ Enter \/ CheckSetup \/ CopySetup \/ ClearSetup \/ FlushControl \/ SetupStage
  \/ CheckComplete \/ \E ep \in Eps : ClearComplete(ep) \/ HandleStage(ep) \/ Reap(ep)
  \/ BusReset \/ Leave

HostAnswers == HostData \/ HostStatus \/ HostStalled
HostNext == HostAnswers \/ HostReset \/ \E kind \in Kinds : HostSetup(kind)

Next == IsrNext \/ HostNext

Spec == Init /\ [][Next]_vars

\* The interrupt handler runs, and the host polls the stage it is in.
FairSpec == Spec /\ WF_vars(IsrNext) /\ WF_vars(HostAnswers)

-----------------------------------------------------------------------------
Places == {"idle", "check_setup", "copy_out", "copy_out_rest", "copy_in", "copy_in_rest",
           "clear_setup", "flush_in", "flush_out", "setup_stage", "setup_ack",
           "check_complete", "complete_out", "stage_out", "reap_out",
           "complete_in", "stage_in", "reap_in", "check_reset"}
Transfer == [serial : 0 .. MaxRequests, status : {"active", "done", "dropped"}]
Setups == [direction : Eps, request : Requests]

\* Every variable has its type.
TypeOK ==
  /\ host \in [request : Requests, stage : {"idle", "data", "status"}]
  /\ setup_buffer \in Setups /\ setup \in [Eps -> Setups]
  /\ complete \in [Eps -> BOOLEAN]
  /\ setup_stat \in BOOLEAN /\ stalled \in BOOLEAN /\ ui \in BOOLEAN /\ uri \in BOOLEAN
  /\ queue \in [Eps -> Seq(Transfer)]
  /\ pc \in Places /\ resetting \in BOOLEAN /\ seen \subseteq Eps
  /\ acted \subseteq Requests /\ arrived \subseteq Requests /\ resets \in 0 .. MaxResets
  /\ aborted \in BOOLEAN

\* A handler that queues a transfer finds a free one, so it never spins for
\* it in the interrupt that alone could free one: neither a stale completion
\* nor a SETUP packet copied in two halves brings more than the pool holds.
NeverSpins ==
  /\ pc = "setup_ack" => Len(queue["out"]) < PoolSize
  /\ \A ep \in Eps : pc = StageAt(ep) /\ DataStage(ep) =>
       /\ HandledBy(ep).kind = "write" => Len(queue["in"]) < PoolSize
       /\ HandledBy(ep).kind = "read_late" => Len(queue["out"]) < PoolSize

\* The transfers queued for an endpoint that the controller may still carry out.
PendingOf(q) == {q[i] : i \in {j \in 1 .. Len(q) : Active(q[j])}}
Pending(ep) == PendingOf(queue[ep])

\* The handler's copies are of packets the host has sent, that of the IN
\* endpoint being taken last; and so is all that is queued.
Copied ==
  /\ setup_buffer.request = host.request
  /\ \A ep \in Eps :
       /\ setup[ep].request.serial <= host.request.serial
       /\ setup[ep].request.serial = host.request.serial => setup[ep].request = host.request
       /\ \A t \in Pending(ep) : t.serial <= host.request.serial
  /\ pc \notin {"copy_in", "copy_in_rest"} => setup["out"].request.serial <= setup["in"].request.serial

\* From the end of the flush until the next packet is copied, nothing of an
\* earlier request is queued.
Flushing == {"copy_in", "copy_in_rest", "clear_setup", "flush_in", "flush_out"}
NothingOlder ==
  /\ pc = "flush_out" => Pending("in") = {}
  /\ pc \notin Flushing =>
       \A ep \in Eps : \A t \in Pending(ep) : t.serial >= setup["out"].request.serial

\* The status stage of a request is offered to the host only once its
\* handler has acted.
ActedFirst ==
  \A t \in Pending("in") :
    t.serial = host.request.serial /\ Direction(host.request.kind) = "out" => host.request \in acted

\* As long as the host lets requests end, the handler has its packet, or will
\* find it pending.
Undisturbed ==
  /\ pc \in {"copy_out", "copy_out_rest", "copy_in", "copy_in_rest", "clear_setup"} => setup_stat
  /\ pc = "idle" => ~resetting
  /\ ~aborted =>
       /\ uri \/ resetting => host.stage = "idle"
       /\ setup_stat => uri \/ resetting \/ host.stage # "idle"
       /\ pc \in {"copy_in", "copy_in_rest", "clear_setup"} => setup["out"].request = host.request
       /\ host.stage # "idle" /\ ~setup_stat => setup["out"].request = host.request

\* No event waits without an interrupt: one that arrives after the handler
\* has looked for its kind raises it again.
ToCopy == {"check_setup", "copy_out", "copy_out_rest", "copy_in", "copy_in_rest", "clear_setup"}
ToLook == ToCopy \cup {"flush_in", "flush_out", "setup_stage", "setup_ack", "check_complete"}
NoEventForgotten ==
  ~ui =>
    /\ setup_stat => pc \in ToCopy
    /\ complete["out"] => pc \in ToLook \/ ("out" \in seen /\ pc = "complete_out")
    /\ complete["in"] => pc \in ToLook
         \/ ("in" \in seen /\ pc \in {"complete_out", "stage_out", "reap_out", "complete_in"})

\* Nothing that waits has something finished behind it, so what the handler
\* frees is never followed by an answer it would free later.
FinishedFirst(q) ==
  \A i, j \in 1 .. Len(q) : i < j /\ q[j].status = "done" => ~Active(q[i])
InOrder == \A ep \in Eps : FinishedFirst(queue[ep])

\* What holds of the requests and events, whatever the host does.
RequestInv ==
  /\ TypeOK /\ Copied /\ NothingOlder /\ ActedFirst /\ Undisturbed
  /\ InOrder /\ NoEventForgotten

\* The number of finished transfers, which are at the head of a queue.
CutAt(q, n) == \A i \in 1 .. Len(q) : q[i].status = "done" <=> i <= n
Finished(q) == CHOOSE n \in 0 .. Len(q) : CutAt(q, n)

\* The stages that completions still call for, and what an endpoint may come to
\* hold: each of its unfinished transfers brings at most one more stage, each
\* stage queues at most one transfer, and the finished ones are freed after it.
Due(ep) == (IF complete[ep] THEN 1 ELSE 0) + (IF pc = StageAt(ep) THEN 1 ELSE 0)
Burden(ep) == Len(queue[ep]) - Finished(queue[ep]) + Due(ep)
Load(ep) ==
  IF pc # ReapAt(ep) /\ Len(queue[ep]) >= Burden(ep) THEN Len(queue[ep]) ELSE Burden(ep)

\* Transfers that a bus reset dropped stay where nothing is scheduled any more.
Lost ==
  (\E ep \in Eps : \E i \in 1 .. Len(queue[ep]) : queue[ep][i].status = "dropped") =>
    /\ \A ep \in Eps : ~complete[ep] /\ \A i \in 1 .. Len(queue[ep]) : ~Active(queue[ep][i])
    /\ pc \notin {"setup_stage", "setup_ack", "stage_out", "reap_out", "stage_in", "reap_in"}
    /\ pc \in {"complete_out", "complete_in"} => seen = {}

\* A request begins with empty queues and at most a stale completion of each
\* endpoint; one that reads queues two transfers, every other one.
SeenStands ==
  /\ pc = "complete_out" => \A ep \in seen : complete[ep]
  /\ pc \in {"stage_out", "reap_out", "complete_in"} /\ "in" \in seen => complete["in"]
Room ==
  /\ \A ep \in Eps : \E n \in 0 .. Len(queue[ep]) : CutAt(queue[ep], n)
  /\ pc \in {"flush_out", "setup_stage"} => queue["in"] = <<>>
  /\ pc \in {"setup_stage", "setup_ack"} => queue["out"] = <<>>
  /\ pc = "setup_ack" => setup["out"].request.kind = "read"
  /\ pc \notin (ToCopy \ {"check_setup"}) \cup {"flush_in", "flush_out"} =>
       /\ setup["out"].request.kind = "read" => Load("in") <= 2
       /\ Load("in") + Load("out") <= IF setup["out"].request.kind = "read" THEN 4 ELSE 3

\* An inductive invariant: the requests, and the room in the queues.
ControlInv == RequestInv /\ Lost /\ SeenStands /\ Room

\* As long as the host lets requests end, a request that succeeds for it was
\* acted on before.
SuccessMeansActed ==
  [][HostStatus /\ ~aborted /\ Direction(host.request.kind) = "out"
       => host.request \in acted]_vars

\* As long as the host lets requests end, it only ever takes, or fills, a
\* transfer scheduled for the request it is in: an answer never serves
\* another request.
OwnAnswers ==
  [][\A ep \in Eps : \A i \in DOMAIN queue[ep] \cap DOMAIN queue'[ep] :
       Active(queue[ep][i]) /\ queue'[ep][i].status = "done" /\ ~aborted
         => queue[ep][i].serial = host.request.serial]_vars

(* A claim of the repository that the code does not keep *)

\* usb_request.c: "If we've received a new SETUP token, then any previously
\* in-progress request is now aborted."  So a write is acted on only once its
\* own data has come, never because of what completed for the one before it,
\* not even when that one has ended.
DataStageHasData ==
  \A r \in acted : r.kind = "write" /\ ~aborted => r \in arrived

-----------------------------------------------------------------------------
\* A request that the host does not abort ends, with success or a stall,
\* stale completions of the last one notwithstanding.
Served == (host.stage # "idle") ~> (host.stage = "idle" \/ aborted)

=============================================================================
