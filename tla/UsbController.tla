--------------------------- MODULE UsbController ---------------------------
(***************************************************************************)
(* One endpoint of the USB device controller, as the driver in             *)
(* src/common/usb.c uses it: the descriptors (dTD) it shares with the CPU, *)
(* the prime, flush, status and complete bits, and the tripwire.           *)
(*                                                                         *)
(* The controller runs in parallel with the CPU and executes a chain of    *)
(* descriptors, one packet at a time, whenever the host polls the endpoint. *)
(* Before it retires a descriptor it reads the link to the next one; a     *)
(* link stored after that goes unnoticed, and the tripwire bit, which the  *)
(* controller keeps clear in that region, tells the driver so.             *)
(***************************************************************************)
EXTENDS Integers

CONSTANT PoolSize   \* transfers of the endpoint's queue

ASSUME ControllerAssumption == PoolSize \in Nat \ {0}

Transfers == 1 .. PoolSize
TERMINATE == 0    \* USB_TD_NEXT_DTD_POINTER_TERMINATE

VARIABLES
  td_next, td_active,  \* per descriptor: link, and STATUS_ACTIVE
  job,                 \* per descriptor: which scheduled transfer it carries
  qh_next,             \* next_dtd_pointer of the queue head
  prime, flush,        \* ENDPTPRIME, ENDPTFLUSH
  complete,            \* ENDPTCOMPLETE: the interrupt is pending
  tripwire,            \* USBCMD_D.ATDTW
  unit,                \* what the controller does
  cur, cur_job, seen,  \* the descriptor it executes; the link it has read
  ran,                 \* history: jobs the controller has executed
  refused              \* history: a flush during a packet was dropped

tdVars == <<td_next, td_active, job>>
bitVars == <<qh_next, prime, flush, complete, tripwire>>
unitVars == <<unit, cur, cur_job, seen, ran, refused>>
controllerVars == <<tdVars, bitVars, unitVars>>

ControllerInit ==
  /\ td_next = [t \in Transfers |-> TERMINATE]
  /\ td_active = [t \in Transfers |-> FALSE]
  /\ job = [t \in Transfers |-> 0]
  /\ qh_next = TERMINATE /\ prime = FALSE /\ flush = FALSE
  /\ complete = FALSE /\ tripwire = FALSE
  /\ unit = "off" /\ cur = TERMINATE /\ cur_job = 0 /\ seen = TERMINATE
  /\ ran = {} /\ refused = FALSE

\* usb_endpoint_is_ready(): ENDPTSTAT
Ready == unit # "off"
\* The controller has read a link and has not acted on it yet.
Hazard == unit \in {"retire", "advance"}

\* What the controller turns to: the descriptor t, if there is an active one.
Execute(t) ==
  IF t \in Transfers /\ td_active[t]
  THEN unit' = "armed" /\ cur' = t /\ cur_job' = job[t]
  ELSE unit' = "off" /\ cur' = TERMINATE /\ cur_job' = 0

HwPrime ==
  /\ prime /\ ~Ready /\ prime' = FALSE /\ Execute(qh_next)
  /\ UNCHANGED <<tdVars, qh_next, flush, complete, tripwire, seen, ran, refused>>

\* The host polls the endpoint; the transfer may take several packets.
HwPacket ==
  /\ unit = "armed" /\ unit' = "packet"
  /\ UNCHANGED <<tdVars, bitVars, cur, cur_job, seen, ran, refused>>

HwMorePackets ==
  /\ unit = "packet" /\ unit' = "armed"
  /\ UNCHANGED <<tdVars, bitVars, cur, cur_job, seen, ran, refused>>

HwReadLink ==
  /\ unit = "packet" /\ unit' = "retire"
  /\ seen' = td_next[cur] /\ tripwire' = FALSE
  /\ UNCHANGED <<tdVars, qh_next, prime, flush, complete, cur, cur_job, ran, refused>>

HwRetire ==
  /\ unit = "retire" /\ unit' = "advance"
  /\ td_active' = [td_active EXCEPT ![cur] = FALSE] /\ complete' = TRUE
  /\ ran' = ran \cup {cur_job}
  /\ UNCHANGED <<td_next, job, qh_next, prime, flush, tripwire, cur, cur_job, seen, refused>>

HwAdvance ==
  /\ unit = "advance" /\ Execute(seen)
  /\ UNCHANGED <<tdVars, bitVars, seen, ran, refused>>

\* A flush waits for the packet in progress, or is dropped because of it.
HwFlush ==
  /\ flush /\ flush' = FALSE
  /\ \/ /\ unit \in {"off", "armed"} /\ unit' = "off" /\ cur' = TERMINATE /\ cur_job' = 0
        /\ UNCHANGED refused
     \/ unit = "packet" /\ refused' = TRUE /\ UNCHANGED <<unit, cur, cur_job>>
  /\ UNCHANGED <<tdVars, qh_next, prime, complete, tripwire, seen, ran>>

\* What the controller does without the host, and what needs a packet.
ControllerAlone == HwPrime \/ HwReadLink \/ HwRetire \/ HwAdvance \/ HwFlush
ControllerNext == ControllerAlone \/ HwPacket \/ HwMorePackets

-----------------------------------------------------------------------------
(* The driver.  These are parts of steps: each says what it does to the     *)
(* controller's variables, under "stays" for what it does not touch.        *)

\* usb_endpoint_prime()
PrimeStays == <<td_active, job, flush, complete, unitVars>>
Prime(t) == qh_next' = t /\ prime' = TRUE

ControllerTypeOK ==
  /\ td_next \in [Transfers -> Transfers \cup {TERMINATE}]
  /\ td_active \in [Transfers -> BOOLEAN] /\ job \in [Transfers -> Nat]
  /\ qh_next \in Transfers \cup {TERMINATE}
  /\ prime \in BOOLEAN /\ flush \in BOOLEAN /\ complete \in BOOLEAN /\ tripwire \in BOOLEAN
  /\ unit \in {"off", "armed", "packet", "retire", "advance"}
  /\ cur \in Transfers \cup {TERMINATE} /\ seen \in Transfers \cup {TERMINATE}
  /\ cur_job \in Nat /\ ran \subseteq Nat /\ refused \in BOOLEAN

=============================================================================
