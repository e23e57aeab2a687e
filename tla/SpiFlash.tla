------------------------------ MODULE SpiFlash ------------------------------
(***************************************************************************)
(* The SPI flash that holds the firmware: the requests that erase, write,   *)
(* read and unprotect it (usb_api_spiflash.c), the driver they call         *)
(* (w25q80bv.c), and the chip, which works on a command after it was        *)
(* acknowledged and ignores everything but status reads meanwhile.          *)
(*                                                                         *)
(* The handlers run in the USB interrupt, on the copy of the SETUP packet   *)
(* that is current when the stage is handled. UsbControl has that interrupt *)
(* step by step; here it handles one event at a time, in any order it may,   *)
(* except that the copying of the packet is opened up as well: one that      *)
(* aborts another meanwhile is torn. What is answered to the wrong stage of   *)
(* a torn request is left out. The status read-out changes nothing.         *)
(***************************************************************************)
EXTENDS Integers, Sequences

CONSTANTS
  Bits,               \* of a byte
  PageLen, NumPages,
  Images,             \* what the flash may hold at boot
  Requests,           \* what the host asks: [kind, addr, len]
  MaxRequests         \* bound: SETUP packets the host sends

NumBytes == PageLen * NumPages
Cells == 0 .. NumBytes - 1
Bytes == SUBSET Bits
Blank == [c \in Cells |-> Bits]
Eps == {"out", "in"}
Kinds == {"read", "write", "erase", "clear"}

ASSUME FlashAssumption ==
  /\ PageLen \in Nat \ {0} /\ NumPages \in Nat \ {0} /\ MaxRequests \in Nat
  /\ Images \subseteq [Cells -> Bytes]
  /\ Requests \subseteq [kind : Kinds, addr : Nat, len : Nat]

Ready == [kind |-> "none"]

VARIABLES
  host, requests,         \* the host's request, its stage, what it has read; how many
  setup_pending, primed, complete, stalled, \* the control endpoint, as UsbControl
  setup, copied,          \* per endpoint: the copy of the SETUP packet; how far it is
  request,                \* what the handler was called with: endpoint->setup
  spiflash_buffer,
  pc, addr, len, at,      \* the handler; locals of w25q80bv_program()
  flash, protected, wel, op, \* the chip: content, block protection, WEL, command it works on
  sent, done,             \* history: data that came for the request; it was carried out
  stale,                  \* history: its SETUP was handled before an older completion
  mixed, torn             \* history: a SETUP packet came while `setup' was copied;
                          \* `request' is from such a copy

hostVars == <<host, requests, setup_pending>>
copyVars == <<setup, copied, mixed>>
endpointVars == <<primed, complete, stalled>>
localVars == <<addr, len, at>>
chipVars == <<flash, protected, wel, op>>
history == <<sent, done, stale, torn>>
vars == <<hostVars, copyVars, endpointVars, request, spiflash_buffer, pc, localVars, chipVars, history>>

\* The SETUP packet of a request, in the order its fields are copied.
Fields == <<"direction", "kind", "addr", "len">>
Direction(kind) == IF kind = "read" THEN "in" ELSE "out"
Packet(r) == [direction |-> Direction(r.kind), kind |-> r.kind, addr |-> r.addr, len |-> r.len]
Asked(p) == [kind |-> p.kind, addr |-> p.addr, len |-> p.len]

Init ==
  /\ request \in {r \in Requests : r.kind = "erase"}
  /\ host = [request |-> request, stage |-> "idle", got |-> <<>>]
  /\ requests = 0 /\ setup_pending = FALSE
  /\ setup = [ep \in Eps |-> Packet(request)] /\ copied = 0 /\ mixed = FALSE
  /\ primed = [ep \in Eps |-> "none"] /\ complete = {} /\ stalled = FALSE
  /\ spiflash_buffer = [i \in 1 .. PageLen |-> {}]
  /\ pc = "idle" /\ addr = 0 /\ len = 0 /\ at = 1
  /\ flash \in Images /\ protected \in BOOLEAN /\ wel = FALSE /\ op = Ready
  /\ sent = <<>> /\ done = TRUE /\ stale = FALSE /\ torn = FALSE

-----------------------------------------------------------------------------
(* The chip *)

Accepts == op = Ready

\* A page program that reaches the end of its page goes on at its start.
Wrapped(a, i) == (a - (a % PageLen)) + ((a + i - 1) % PageLen)
Programmed(f, a, d) == [c \in Cells |->
  IF \E i \in DOMAIN d : c = Wrapped(a, i)
  THEN f[c] \cap d[CHOOSE i \in DOMAIN d : c = Wrapped(a, i)] ELSE f[c]]

Settled ==
  CASE op.kind = "program" -> Programmed(flash, op.addr, op.data)
    [] op.kind = "erase" -> Blank
    [] OTHER -> flash

ChipFinishes ==
  /\ ~Accepts /\ op' = Ready /\ wel' = FALSE
  /\ flash' = Settled /\ protected' = (protected /\ op.kind # "clear")
  /\ UNCHANGED <<hostVars, copyVars, endpointVars, request, spiflash_buffer, pc, localVars, history>>

\* It takes a command when it is not busy, was enabled, and its blocks are
\* not protected.
Command(c) ==
  /\ op' = IF Accepts /\ wel /\ (protected => c.kind = "clear") THEN c ELSE op
  /\ UNCHANGED <<flash, protected, wel>>

-----------------------------------------------------------------------------
(* The host, which may give up on a request at any time, and the controller *)

HostSetup ==
  /\ requests < MaxRequests /\ requests' = requests + 1
  /\ \E r \in Requests :
       host' = [request |-> r, got |-> <<>>,
                stage |-> IF r.kind \in {"read", "write"} THEN "data" ELSE "status"]
  /\ setup_pending' = TRUE /\ stalled' = FALSE
  /\ mixed' = (mixed \/ (pc = "copy" /\ copied > 0))
  /\ UNCHANGED <<setup, copied, primed, complete, request, spiflash_buffer, pc, localVars, chipVars, history>>

\* Timing assumption, as in UsbControl: the host does not get between the clearing
\* of the SETUP status and the flush.
Answers == ~setup_pending /\ pc # "flush"

Execute(ep, what) ==
  /\ Answers /\ ~stalled /\ primed[ep] = what
  /\ primed' = [primed EXCEPT ![ep] = "none"] /\ complete' = complete \cup {ep}
  /\ UNCHANGED <<requests, setup_pending, copyVars, stalled, request, pc, localVars, chipVars,
                 done, stale, torn>>

\* The bytes that the host and the transfer agree on.
Length == IF host.request.len < request.len THEN host.request.len ELSE request.len

HostSends ==
  /\ host.stage = "data" /\ host.request.kind = "write" /\ Execute("out", "data")
  /\ \E d \in [1 .. Length -> Bytes] :
       /\ sent' = d
       /\ spiflash_buffer' = [i \in 1 .. PageLen |-> IF i \in DOMAIN d THEN d[i] ELSE spiflash_buffer[i]]
  /\ host' = [host EXCEPT !.stage = "status"]

HostReceives ==
  /\ host.stage = "data" /\ host.request.kind = "read" /\ Execute("in", "data")
  /\ host' = [host EXCEPT !.stage = "status", !.got = SubSeq(spiflash_buffer, 1, Length)]
  /\ UNCHANGED <<spiflash_buffer, sent>>

HostStatus ==
  /\ host.stage = "status" /\ Execute(IF host.request.kind = "read" THEN "out" ELSE "in", "ack")
  /\ host' = [host EXCEPT !.stage = "idle"] /\ UNCHANGED <<spiflash_buffer, sent>>

HostStalled ==
  /\ Answers /\ stalled /\ host.stage # "idle" /\ host' = [host EXCEPT !.stage = "idle"]
  /\ UNCHANGED <<requests, setup_pending, copyVars, endpointVars, request, spiflash_buffer, pc, localVars,
                 chipVars, history>>

HostAnswers == HostSends \/ HostReceives \/ HostStatus \/ HostStalled

-----------------------------------------------------------------------------
(* usb_api_spiflash.c: the SETUP stage *)

\* usb_check_for_setup_events() copies the packet for either endpoint, field by field,
\* from where the controller stores the next one, and then clears its status.
CopySetup ==
  \/ /\ pc = "idle" /\ setup_pending /\ pc' = "copy" /\ copied' = 0 /\ mixed' = FALSE
     /\ UNCHANGED <<setup, setup_pending>>
  \/ /\ pc = "copy" /\ copied < 8 /\ copied' = copied + 1
     /\ LET ep == IF copied < 4 THEN "out" ELSE "in"
            field == Fields[(copied % 4) + 1]
        IN setup' = [setup EXCEPT ![ep][field] = Packet(host.request)[field]]
     /\ UNCHANGED <<pc, mixed, setup_pending>>
  \/ /\ pc = "copy" /\ copied = 8 /\ pc' = "flush" /\ setup_pending' = FALSE
     /\ UNCHANGED copyVars

TakeSetup ==
  /\ CopySetup
  /\ UNCHANGED <<host, requests, endpointVars, request, spiflash_buffer, localVars, chipVars, history>>

\* usb_setup_complete() flushes both endpoints and calls the handler.
Setup ==
  /\ pc = "flush" /\ pc' = "setup"
  /\ request' = Asked(setup["out"]) /\ primed' = [ep \in Eps |-> "none"]
  /\ sent' = <<>> /\ done' = FALSE /\ stale' = ("out" \in complete) /\ torn' = mixed
  /\ UNCHANGED <<hostVars, copyVars, complete, stalled, spiflash_buffer, localVars, chipVars>>

InRange(a, l) == a <= NumBytes /\ a + l <= NumBytes
Acceptable(r) == r.len <= PageLen /\ InRange(r.addr, r.len)
Accepted == Acceptable(request)

HandlerFrame == UNCHANGED <<hostVars, copyVars, sent, stale, torn>>
Prime(ep, what) == primed' = [primed EXCEPT ![ep] = what] /\ UNCHANGED <<complete, stalled>>

\* A write is acted on when its data has come, but waits here for the chip
\* to answer with its device id.
SetupWrite ==
  /\ request.kind = "write" /\ Accepted /\ Prime("out", "data") /\ pc' = "prepare" /\ done' = done

SetupRead ==
  /\ request.kind = "read" /\ Accepted /\ pc' = "read"
  /\ done' = done /\ UNCHANGED endpointVars

SetupErase ==
  /\ request.kind = "erase" /\ pc' = "identify" /\ done' = TRUE /\ UNCHANGED endpointVars

SetupClear ==
  /\ request.kind = "clear" /\ pc' = "enable" /\ done' = TRUE /\ UNCHANGED endpointVars

SetupRefused ==
  /\ request.kind \in {"read", "write"} /\ ~Accepted
  /\ stalled' = TRUE /\ pc' = "idle" /\ UNCHANGED <<primed, complete, done>>

SetupStage ==
  /\ pc = "setup"
  /\ SetupWrite \/ SetupRead \/ SetupErase \/ SetupClear \/ SetupRefused
  /\ HandlerFrame /\ UNCHANGED <<request, spiflash_buffer, localVars, chipVars>>

-----------------------------------------------------------------------------
(* The DATA stage: the data of a write is programmed, that of a read acknowledged. *)

\* usb_control_out_complete(), usb_control_in_complete(): the copy of the endpoint
\* says whether this is the data stage, and of what.
DataStage(ep) ==
  LET packet == setup[ep]
      data == packet.direction = ep /\ packet.kind \in {"read", "write"}
  IN
  /\ pc = "idle" /\ ep \in complete /\ complete' = complete \ {ep}
  /\ \/ /\ data /\ packet.kind = "write" /\ Acceptable(packet) /\ request' = Asked(packet)
        /\ pc' = "identify" /\ addr' = packet.addr /\ len' = packet.len /\ at' = 1 /\ done' = TRUE
        /\ UNCHANGED <<primed, stalled>>
     \/ /\ data /\ packet.kind = "read" /\ Acceptable(packet)
        /\ primed' = [primed EXCEPT !["out"] = "ack"]
        /\ UNCHANGED <<request, pc, localVars, done, stalled>>
     \/ /\ data /\ ~Acceptable(packet)
        /\ stalled' = TRUE /\ UNCHANGED <<request, pc, localVars, done, primed>>
     \/ /\ ~data
        /\ UNCHANGED <<request, pc, localVars, done, primed, stalled>>
  /\ HandlerFrame /\ UNCHANGED <<spiflash_buffer, chipVars>>

-----------------------------------------------------------------------------
(* w25q80bv.c. A loop that waits for the chip is a guard; the chip answers   *)
(* with its device id when it is not busy.                                  *)

DriverFrame == HandlerFrame /\ UNCHANGED <<request, done>>

\* w25q80bv_setup(), and the first loops of chip_erase() and program()
Identify ==
  /\ \/ pc = "prepare" /\ pc' = "idle"
     \/ pc = "identify" /\ pc' = "enable"
  /\ Accepts
  /\ DriverFrame /\ UNCHANGED <<endpointVars, spiflash_buffer, localVars, chipVars>>

\* w25q80bv_wait_while_busy(), w25q80bv_write_enable()
EnableAtOnce ==                                   \* mutant: without waiting
  /\ pc = "enable" /\ pc' = "enabled" /\ wel' = (wel \/ Accepts)
  /\ DriverFrame /\ UNCHANGED <<endpointVars, spiflash_buffer, localVars, flash, protected, op>>

WriteEnable ==
  /\ pc = "enable" /\ Accepts /\ pc' = "enabled" /\ wel' = TRUE
  /\ DriverFrame /\ UNCHANGED <<endpointVars, spiflash_buffer, localVars, flash, protected, op>>

\* The bytes that w25q80bv_program() hands to page_program() at once: up to
\* the end of the first page, whole pages, and the rest.
ChunkWhole == IF len < PageLen THEN len ELSE PageLen   \* mutant: the first page is full
Chunk ==
  LET room == PageLen - (addr % PageLen)
  IN IF len < room THEN len ELSE room

\* w25q80bv_page_program() does nothing across the end of a page.
Programs(n) == (addr % PageLen) + n <= PageLen /\ addr <= NumBytes - n

ProgramChunk ==
  LET n == Chunk
  IN /\ request.kind = "write" /\ addr' = addr + n /\ len' = len - n /\ at' = at + n
     /\ IF Programs(n)
        THEN Command([kind |-> "program", addr |-> addr, data |-> SubSeq(spiflash_buffer, at, at + n - 1)])
        ELSE UNCHANGED chipVars
     /\ \/ n < len /\ pc' = "enable" /\ UNCHANGED endpointVars
        \/ n = len /\ pc' = "idle" /\ Prime("in", "ack")

\* w25q80bv_chip_erase(), w25q80bv_clear_status()
EraseOrClear ==
  /\ request.kind \in {"erase", "clear"} /\ Command([kind |-> request.kind])
  /\ pc' = "idle" /\ Prime("in", "ack") /\ UNCHANGED localVars

SendCommand ==
  /\ pc = "enabled" /\ wel
  /\ ProgramChunk \/ EraseOrClear
  /\ DriverFrame /\ UNCHANGED spiflash_buffer

\* w25q80bv_read(): a busy chip would send nothing but ones.
Slice(a, l) == [i \in 1 .. PageLen |-> IF i <= l THEN flash[a + i - 1] ELSE spiflash_buffer[i]]
ReadFrame ==
  /\ pc' = "idle" /\ Prime("in", "data") /\ done' = TRUE
  /\ HandlerFrame /\ UNCHANGED <<request, localVars, chipVars>>

ReadAtOnce ==                                     \* mutant: without waiting
  /\ pc = "read" /\ ReadFrame
  /\ spiflash_buffer' = IF Accepts THEN Slice(request.addr, request.len) ELSE [i \in 1 .. PageLen |-> Bits]

Read ==
  /\ pc = "read" /\ Accepts /\ ReadFrame
  /\ spiflash_buffer' = Slice(request.addr, request.len)

-----------------------------------------------------------------------------
IsrNext ==
  \/ TakeSetup \/ Setup \/ SetupStage \/ DataStage("out") \/ DataStage("in")
  \/ Identify \/ WriteEnable \/ SendCommand \/ Read

Next == ChipFinishes \/ HostAnswers \/ HostSetup \/ IsrNext

Spec == Init /\ [][Next]_vars

\* The chip finishes, the interrupt is served, and the host polls.
FairSpec ==
  /\ Spec
  /\ WF_vars(ChipFinishes) /\ WF_vars(IsrNext) /\ WF_vars(HostAnswers)

-----------------------------------------------------------------------------
\* What is left of the request that the handler is carrying out.
Carrying == pc \in {"identify", "enable", "enabled"}
Locked == protected /\ op.kind # "clear" /\ ~(Carrying /\ request.kind = "clear")

Places == {"idle", "copy", "flush", "setup", "prepare", "read", "identify", "enable", "enabled"}
Commands == [kind : {"none", "erase", "clear"}] \cup [kind : {"program"}, addr : Nat, data : Seq(Bytes)]

\* Every variable has its type.
TypeOK ==
  /\ host \in [request : Requests, stage : {"idle", "data", "status"}, got : Seq(Bytes)]
  /\ requests \in 0 .. MaxRequests /\ setup_pending \in BOOLEAN
  /\ setup \in [Eps -> [direction : Eps, kind : Kinds, addr : Nat, len : Nat]]
  /\ copied \in 0 .. 8 /\ mixed \in BOOLEAN
  /\ primed \in [Eps -> {"none", "data", "ack"}]
  /\ complete \subseteq Eps /\ stalled \in BOOLEAN
  /\ request \in [kind : Kinds, addr : Nat, len : Nat] /\ spiflash_buffer \in [1 .. PageLen -> Bytes]
  /\ pc \in Places /\ addr \in Nat /\ len \in Nat /\ at \in Nat \ {0}
  /\ flash \in [Cells -> Bytes] /\ protected \in BOOLEAN /\ wel \in BOOLEAN /\ op \in Commands
  /\ sent \in Seq(Bytes) /\ done \in BOOLEAN /\ stale \in BOOLEAN /\ torn \in BOOLEAN

\* What was copied of a packet is what the host sent last, unless another came
\* meanwhile; and then the handler works on what the host asks.
Copying == {"copy", "flush"}
OwnPacket ==
  /\ pc = "copy" => setup_pending
  /\ ~Answers /\ host.request.kind = "read" => host.stage = "data"
  /\ pc = "copy" /\ ~mixed => \A i \in 1 .. 4 :
       /\ i <= copied => setup["out"][Fields[i]] = Packet(host.request)[Fields[i]]
       /\ i + 4 <= copied => setup["in"][Fields[i]] = Packet(host.request)[Fields[i]]
  /\ pc = "flush" /\ ~mixed => \E r \in Requests :
       /\ \A ep \in Eps : setup[ep] = Packet(r)
       /\ ~setup_pending => r = host.request
  /\ pc \notin Copying => torn = mixed
  /\ ~torn =>
       /\ request \in Requests
       /\ pc \notin Copying => \A ep \in Eps : setup[ep] = Packet(request)
       /\ Answers => host.request = request

\* A command is sent to a chip that will take it; what is left of a write is
\* the end of its range.
OnCourse ==
  /\ pc = "enabled" => Accepts /\ wel
  /\ pc = "read" => request.kind = "read" /\ Accepted
  /\ primed["in"] = "data" => Accepted /\ (~torn => request.kind = "read")
  /\ Carrying => request.kind # "read"
  /\ Carrying /\ request.kind = "write" =>
       Accepted /\ addr = request.addr + at - 1 /\ addr + len = request.addr + request.len

\* The data of a write comes once, for the request that is handled, and stays
\* in the buffer until it is programmed.
OwnData ==
  /\ pc \in {"setup", "prepare", "read"} => ~done
  /\ pc = "setup" => primed["out"] = "none" /\ "out" \notin complete /\ sent = <<>>
  /\ Carrying => done
  /\ primed["out"] = "data" =>
       /\ request.kind = "write" /\ Accepted /\ ~done
       /\ sent = <<>> /\ "out" \notin complete
  /\ "out" \in complete /\ request.kind = "write" /\ Accepted =>
       /\ ~done /\ Len(sent) = request.len
       /\ \A i \in 1 .. request.len : spiflash_buffer[i] = sent[i]

\* What a read returns is what the flash holds; and nothing is acknowledged
\* before it was carried out.
ReadBack ==
  /\ primed["in"] = "ack" => done
  /\ primed["in"] = "data" =>
       done /\ \A i \in 1 .. request.len : spiflash_buffer[i] = Settled[request.addr + i - 1]
  /\ Answers /\ request.kind = "read" /\ host.stage = "status" =>
       done /\ host.got = [i \in 1 .. request.len |-> Settled[request.addr + i - 1]]

\* An inductive invariant.
FlashInv == TypeOK /\ OwnPacket /\ OnCourse /\ (~stale /\ ~torn => OwnData /\ ReadBack)

\* The content of the flash when all that was begun has ended.
Content ==
  IF ~Carrying \/ Locked \/ request.kind = "clear" THEN Settled
  ELSE IF request.kind = "erase" THEN Blank
  ELSE [c \in Cells |-> IF c \in addr .. addr + len - 1
                        THEN Settled[c] \cap spiflash_buffer[at + c - addr] ELSE Settled[c]]

Store == INSTANCE FlashStore
  WITH store <- Content, locked <- Locked, call <- request, data <- sent, broken <- stale \/ torn

\* Whatever the order of requests, writes across pages and aborted ones, and
\* while the chip is still busy with the last command, each request takes
\* effect once, as FlashStore says: exactly the bytes of its data at exactly
\* its addresses. Not so a request that was copied while the packet of another
\* came, and one handled before an older completion, which is then taken for its
\* data (the finding of UsbControl): those two may do anything; the request after
\* them does again what it should.
ImplementsStore == Store!Spec

\* A request that succeeds for the host was carried out, a write with the
\* data the host sent, and what a read returned is what the flash holds: no
\* other request has used the shared buffer in between. Excepted are the same two:
\* the host may take the end of a request for that of the one that aborted it.
SuccessIsTrue ==
  [][HostStatus /\ ~stale /\ ~torn =>
       /\ done /\ request = host.request
       /\ request.kind = "read" =>
            host.got = [i \in 1 .. request.len |-> Content[request.addr + i - 1]]]_vars

\* The loops that wait for the chip end, and so does every request that the
\* host does not give up on, unless its packet came while another was copied: what
\* the host is then waiting for may never be primed, until it gives up as well.
Served == (host.stage # "idle") ~> (host.stage = "idle" \/ mixed)

=============================================================================
