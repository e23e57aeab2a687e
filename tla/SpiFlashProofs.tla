--------------------------- MODULE SpiFlashProofs ---------------------------
(***************************************************************************)
(* SpiFlash implements FlashStore, proved for pages and flashes of every    *)
(* size: the pages that a write is cut into, the chip that works behind the  *)
(* driver's back, and the requests that the host gives up on. First the     *)
(* invariant, one step per action; then what each step does to the content. *)
(***************************************************************************)
EXTENDS SpiFlash, TLAPS, SequenceTheorems

USE DEF hostVars, copyVars, Eps, endpointVars, localVars, chipVars, history, vars, Accepts, Ready,
        HandlerFrame, DriverFrame, Prime, Carrying

-----------------------------------------------------------------------------
(* Addresses in a page *)

\* A division leaves a quotient and a remainder ...
LEMMA Division ==
  ASSUME NEW n \in Nat \ {0}, NEW x \in Int
  PROVE  /\ x \div n \in Int /\ n * (x \div n) \in Int
         /\ x % n \in 0 .. n - 1
         /\ x = n * (x \div n) + (x % n)
OBVIOUS

\* ... and the remainder is determined by its range.
LEMMA Remainder ==
  ASSUME NEW n \in Nat \ {0}, NEW k \in Int, NEW r \in 0 .. n - 1
  PROVE  (n * k + r) % n = r
OBVIOUS

\* A distance within what is left of a page adds to the remainder.
LEMMA WithinBlock ==
  ASSUME NEW n \in Nat \ {0}, NEW a \in Nat, NEW k \in Nat, (a % n) + k < n
  PROVE  (a + k) % n = (a % n) + k
<1> DEFINE q == a \div n
           r == a % n
<1>1. q \in Int /\ r + k \in 0 .. n - 1 /\ a + k = n * q + (r + k)
  BY Division
<1> HIDE DEF q, r
<1>2. (n * q + (r + k)) % n = r + k
  BY <1>1, Remainder
<1> QED
  BY <1>1, <1>2 DEF r

-----------------------------------------------------------------------------
(* The invariant *)

\* What the steps use of the types.
LEMMA TypeFacts ==
  /\ PageLen \in Nat \ {0} /\ NumBytes \in Nat
  /\ \A r \in Requests : r.kind \in Kinds /\ r.addr \in Nat /\ r.len \in Nat
  /\ TypeOK => /\ host.request \in Requests
               /\ request.kind \in Kinds /\ request.addr \in Nat /\ request.len \in Nat
               /\ spiflash_buffer \in [1 .. PageLen -> Bytes]
               /\ addr \in Nat /\ len \in Nat /\ at \in Nat \ {0}
               /\ flash \in [Cells -> Bytes]
<1>1. NumBytes \in Nat
  BY FlashAssumption DEF NumBytes
<1> QED
  BY <1>1, FlashAssumption DEF TypeOK

\* A part of the buffer, and the data of a request.
LEMMA BufferParts ==
  ASSUME NEW b \in [1 .. PageLen -> Bytes], NEW i \in Nat \ {0}, NEW n \in Nat, i + n - 1 <= PageLen
  PROVE  /\ SubSeq(b, i, i + n - 1) \in Seq(Bytes)
         /\ Len(SubSeq(b, i, i + n - 1)) = n
         /\ DOMAIN SubSeq(b, i, i + n - 1) = 1 .. n
         /\ \A j \in 1 .. n : SubSeq(b, i, i + n - 1)[j] = b[i + j - 1]
<1> DEFINE s == SubSeq(b, i, i + n - 1)
<1>1. \A j \in i .. i + n - 1 : b[j] \in Bytes
  BY TypeFacts
<1>2. i \in Int /\ i + n - 1 \in Int
  OBVIOUS
<1>3. /\ s \in Seq(Bytes)
      /\ Len(s) = IF i <= i + n - 1 THEN (i + n - 1) - i + 1 ELSE 0
      /\ \A j \in 1 .. (i + n - 1) - i + 1 : s[j] = b[i + j - 1]
  BY <1>1, <1>2, SubSeqProperties
<1>4. DOMAIN s = 1 .. Len(s)
  BY <1>3, LenProperties
<1> HIDE DEF s
<1>5. Len(s) = n /\ (i + n - 1) - i + 1 = n
  BY <1>3
<1> QED
  BY <1>3, <1>4, <1>5 DEF s

\* The data that a host sends is a sequence.
LEMMA DataIsSeq ==
  ASSUME NEW n \in Nat, NEW d \in [1 .. n -> Bytes]
  PROVE  d \in Seq(Bytes) /\ Len(d) = n /\ DOMAIN d = 1 .. n
<1>1. d = [i \in 1 .. n |-> d[i]] /\ \A i \in 1 .. n : d[i] \in Bytes
  OBVIOUS
<1>2. d \in Seq(Bytes)
  BY <1>1, IsASeq
<1> QED
  BY <1>2, LenProperties

\* What the flash holds in the end is a content, and the chip's end of its
\* command leaves it.
LEMMA SettledFacts ==
  ASSUME TypeOK
  PROVE  /\ Settled \in [Cells -> Bytes]
         /\ Accepts => Settled = flash
         /\ UNCHANGED <<flash, op>> => Settled' = Settled
         /\ ChipFinishes => Settled' = Settled
<1>1. flash \in [Cells -> Bytes]
  BY DEF TypeOK
<1>2. Settled \in [Cells -> Bytes]
  BY <1>1 DEF Settled, Programmed, Blank, Bytes
<1>3. Accepts => Settled = flash
  BY DEF Settled
<1>4. UNCHANGED <<flash, op>> => Settled' = Settled
  BY DEF Settled, Programmed
<1>5. ChipFinishes => Settled' = Settled
  <2>1. ChipFinishes => op' = Ready /\ flash' = Settled
    BY DEF ChipFinishes
  <2>2. op' = Ready => Settled' = flash'
    BY DEF Settled
  <2> QED
    BY <2>1, <2>2
<1> QED
  BY <1>2, <1>3, <1>4, <1>5

\* Init establishes the invariant.
LEMMA InitFlash == Init => FlashInv
<1> SUFFICES ASSUME Init PROVE FlashInv
  OBVIOUS
<1> USE FlashAssumption
<1>1. request \in Requests /\ request.kind = "erase"
  BY DEF Init
<1>2. TypeOK
  <2>1. host \in [request : Requests, stage : {"idle", "data", "status"}, got : Seq(Bytes)]
    BY <1>1, EmptySeq DEF Init
  <2>2. requests \in 0 .. MaxRequests /\ setup_pending \in BOOLEAN
    <3>1. MaxRequests \in Nat /\ requests = 0
      BY DEF Init
    <3>2. requests \in 0 .. MaxRequests
      BY <3>1
    <3> QED
      BY <3>2 DEF Init
  <2>3. primed \in [{"out", "in"} -> {"none", "data", "ack"}] /\ complete \subseteq {"out", "in"}
    BY DEF Init
  <2>4. spiflash_buffer \in [1 .. PageLen -> Bytes]
    BY DEF Init, Bytes
  <2>5. pc \in Places /\ addr \in Nat /\ len \in Nat /\ at \in Nat \ {0}
    BY DEF Init, Places
  <2>6. flash \in [Cells -> Bytes] /\ op \in Commands
    BY DEF Init, Commands
  <2>7. sent \in Seq(Bytes)
    BY EmptySeq DEF Init
  <2>8. /\ stalled \in BOOLEAN /\ protected \in BOOLEAN /\ wel \in BOOLEAN
        /\ done \in BOOLEAN /\ stale \in BOOLEAN /\ torn \in BOOLEAN /\ mixed \in BOOLEAN
    BY DEF Init
  <2>9. copied \in 0 .. 8 /\ request \in [kind : Kinds, addr : Nat, len : Nat]
    BY <1>1 DEF Init
  <2>10. setup \in [Eps -> [direction : Eps, kind : Kinds, addr : Nat, len : Nat]]
    BY <1>1, TypeFacts DEF Init, Packet, Direction
  <2> QED
    BY <2>1, <2>2, <2>3, <2>4, <2>5, <2>6, <2>7, <2>8, <2>9, <2>10 DEF TypeOK
<1>3. OnCourse
  BY DEF Init, OnCourse
<1>4. OwnData /\ ReadBack
  BY <1>1 DEF Init, OwnData, ReadBack, Answers
<1>5. OwnPacket
  BY <1>1 DEF Init, OwnPacket, Copying, Answers
<1> QED
  BY <1>2, <1>3, <1>4, <1>5 DEF FlashInv

\* The copies are what they were after a step that neither copies nor takes them.
LEMMA PacketKept ==
  ASSUME OwnPacket, UNCHANGED <<setup_pending, setup, copied, mixed, torn, request>>,
         host'.request = host.request,
         pc' = pc \/ (pc \notin Copying /\ pc' \notin Copying),
         Answers \/ host'.stage = host.stage
  PROVE  OwnPacket'
<1>1. Answers' <=> Answers
  BY DEF Answers, Copying
<1> QED
  BY <1>1 DEF OwnPacket, Packet, Copying

\* The host is answered only when no packet is copied, and its request is then
\* the handler's if that was copied whole.
LEMMA Answered ==
  ASSUME OwnPacket, Answers
  PROVE  pc \notin Copying /\ ~setup_pending /\ (~torn => host.request = request)
BY DEF OwnPacket, Answers, Copying

\* What an action keeps that changes nothing the request is about, and does
\* not begin or end a handler's work.
LEMMA AllKept ==
  ASSUME FlashInv, TypeOK', OwnPacket', Settled' = Settled,
         pc' = pc \/ {pc, pc'} \subseteq {"idle", "copy", "flush"},
         UNCHANGED <<request, localVars, spiflash_buffer, primed, complete, sent, done, stale, torn>>,
         Answers' /\ host'.stage = "status" => Answers /\ host.stage = "status" /\ host'.got = host.got,
         pc = "enabled" => UNCHANGED <<op, wel>>
  PROVE  FlashInv'
<1>1. OnCourse'
  BY DEF FlashInv, OnCourse, Accepted, Acceptable, InRange
<1>2. ~stale' /\ ~torn' => OwnData'
  BY DEF FlashInv, OwnData, Accepted, Acceptable, InRange
<1>3. ~stale' /\ ~torn' => ReadBack'
  BY DEF FlashInv, ReadBack, Answers
<1> QED
  BY <1>1, <1>2, <1>3 DEF FlashInv

\* The chip ends what it works on.
LEMMA ChipPreserves ==
  ASSUME FlashInv, ChipFinishes
  PROVE  FlashInv'
<1>1. TypeOK /\ Settled \in [Cells -> Bytes] /\ Settled' = Settled
  BY SettledFacts DEF FlashInv
<1>2. op' \in Commands /\ protected' \in BOOLEAN /\ wel' \in BOOLEAN
  BY <1>1 DEF ChipFinishes, Commands, TypeOK
<1>3. TypeOK'
  BY <1>1, <1>2 DEF ChipFinishes, TypeOK
<1>4. pc # "enabled"
  BY DEF FlashInv, OnCourse, ChipFinishes
<1>5. OwnPacket'
  BY PacketKept DEF ChipFinishes, FlashInv
<1>6. Answers' <=> Answers
  BY DEF ChipFinishes, Answers
<1> QED
  BY <1>1, <1>3, <1>4, <1>5, <1>6, AllKept DEF ChipFinishes

\* A new SETUP packet
LEMMA SetupSentPreserves ==
  ASSUME FlashInv, HostSetup
  PROVE  FlashInv'
<1> USE DEF HostSetup
<1>1. TypeOK /\ Settled' = Settled
  BY SettledFacts DEF FlashInv
<1>2. PICK r \in Requests :
        host' = [request |-> r, got |-> <<>>,
                 stage |-> IF r.kind \in {"read", "write"} THEN "data" ELSE "status"]
  OBVIOUS
<1>3. host' \in [request : Requests, stage : {"idle", "data", "status"}, got : Seq(Bytes)]
  BY <1>2, EmptySeq
<1>4. requests' \in 0 .. MaxRequests
  <2>1. requests \in Nat /\ MaxRequests \in Nat
    BY <1>1, FlashAssumption DEF TypeOK
  <2> QED
    BY <2>1
<1>5. TypeOK'
  BY <1>1, <1>3, <1>4 DEF TypeOK
<1>6. ~Answers' /\ setup_pending'
  BY DEF Answers
<1>7. host'.request \in Requests /\ (host'.request.kind = "read" => host'.stage = "data")
  BY <1>2
<1>8. OwnPacket'
  <2>1. OwnPacket /\ UNCHANGED <<setup, copied, torn, request, pc>> /\ copied \in 0 .. 8
    BY <1>1 DEF FlashInv, TypeOK
  <2>2. mixed' = (mixed \/ (pc = "copy" /\ copied > 0)) /\ mixed \in BOOLEAN
    BY <1>1 DEF TypeOK
  <2>3. (~mixed' => ~mixed /\ ~(pc = "copy" /\ copied > 0)) /\ (pc # "copy" => mixed' = mixed)
    BY <2>2, Zenon
  <2>4. pc = "copy" /\ ~mixed' => copied = 0
    BY <2>1, <2>3
  <2> QED
    BY <1>6, <1>7, <2>1, <2>3, <2>4 DEF OwnPacket, Copying
<1> QED
  BY <1>1, <1>5, <1>6, <1>8, AllKept

\* The host ends a request that was refused.
LEMMA StalledPreserves ==
  ASSUME FlashInv, HostStalled
  PROVE  FlashInv'
<1> USE DEF HostStalled
<1>1. TypeOK /\ Settled' = Settled
  BY SettledFacts DEF FlashInv
<1>2. /\ host' \in [request : Requests, stage : {"idle", "data", "status"}, got : Seq(Bytes)]
      /\ host'.request = host.request /\ host'.stage = "idle"
  BY <1>1 DEF TypeOK
<1>3. TypeOK'
  BY <1>1, <1>2 DEF TypeOK
<1>4. OwnPacket'
  BY <1>2, PacketKept DEF FlashInv
<1>5. Answers' <=> Answers
  BY DEF Answers
<1> QED
  BY <1>1, <1>2, <1>3, <1>4, <1>5, AllKept

\* The data of a write arrives.
LEMMA SendsPreserves ==
  ASSUME FlashInv, HostSends
  PROVE  FlashInv'
<1>1. TypeOK /\ OwnPacket /\ OnCourse /\ Settled' = Settled /\ Answers
  BY SettledFacts DEF FlashInv, HostSends, Execute
<1>2. /\ host.request.kind = "write" /\ pc \notin Copying /\ (~torn => host.request = request)
      /\ request.len \in Nat /\ host.request.len \in Nat /\ primed["out"] = "data"
  BY <1>1, Answered, TypeFacts DEF HostSends, Execute
<1>3. Length \in Nat /\ (~torn => Length = request.len)
  BY <1>2 DEF Length
<1>4. PICK d \in [1 .. Length -> Bytes] :
        /\ sent' = d
        /\ spiflash_buffer' = [i \in 1 .. PageLen |-> IF i \in DOMAIN d THEN d[i] ELSE spiflash_buffer[i]]
  BY DEF HostSends
<1>5. d \in Seq(Bytes) /\ Len(d) = Length /\ DOMAIN d = 1 .. Length
  BY <1>3, DataIsSeq
<1>6. /\ host' \in [request : Requests, stage : {"idle", "data", "status"}, got : Seq(Bytes)]
      /\ host'.request = host.request
  BY <1>1 DEF TypeOK, HostSends
<1>7. primed' = [primed EXCEPT !["out"] = "none"] /\ complete' = complete \cup {"out"}
  BY DEF HostSends, Execute
<1>8. /\ primed' \in [{"out", "in"} -> {"none", "data", "ack"}] /\ complete' \subseteq {"out", "in"}
      /\ primed'["out"] = "none" /\ primed'["in"] = primed["in"]
  BY <1>1, <1>7 DEF TypeOK
<1>9. spiflash_buffer' \in [1 .. PageLen -> Bytes]
  BY <1>1, <1>4 DEF TypeOK
<1>10. UNCHANGED <<requests, setup_pending, copyVars, stalled, request, pc, localVars, chipVars,
                   done, stale, torn>>
  BY DEF HostSends, Execute
<1>11. TypeOK'
  BY <1>1, <1>4, <1>5, <1>6, <1>8, <1>9, <1>10 DEF TypeOK
<1>12. OwnPacket'
  BY <1>1, <1>6, <1>10, PacketKept
<1>13. OnCourse'
  BY <1>1, <1>8, <1>10 DEF OnCourse, Accepted, Acceptable, InRange
<1>14. ASSUME ~stale', ~torn'
       PROVE  OwnData' /\ ReadBack'
  <2>1. OwnData /\ ReadBack /\ Length = request.len /\ host'.request = request
    BY <1>2, <1>3, <1>6, <1>10, <1>14 DEF FlashInv
  <2>2. request.kind = "write" /\ Accepted /\ ~done /\ pc # "setup" /\ ~Carrying
    BY <1>2, <2>1 DEF OwnData
  <2>3. request.len <= PageLen /\ PageLen \in Nat
    BY <2>2, TypeFacts DEF Accepted, Acceptable
  <2>4. \A i \in 1 .. request.len : i \in 1 .. PageLen
    BY <1>2, <2>3
  <2>5. \A i \in 1 .. request.len : spiflash_buffer'[i] = sent'[i]
    BY <1>4, <1>5, <2>1, <2>4
  <2>6. OwnData'
    BY <1>4, <1>5, <1>8, <1>10, <2>1, <2>2, <2>5 DEF OwnData
  <2>7. primed["in"] = "none"
    BY <1>1, <2>1, <2>2 DEF ReadBack, TypeOK
  <2> QED
    BY <2>2, <1>8, <1>10, <2>6, <2>7 DEF ReadBack
<1> QED
  BY <1>11, <1>12, <1>13, <1>14 DEF FlashInv

\* What a read returns is taken.
LEMMA ReceivesPreserves ==
  ASSUME FlashInv, HostReceives
  PROVE  FlashInv'
<1>1. TypeOK /\ OwnPacket /\ OnCourse /\ Settled' = Settled /\ Answers /\ primed["in"] = "data"
  BY SettledFacts DEF FlashInv, HostReceives, Execute
<1>2. /\ host.request.kind = "read" /\ (~torn => host.request = request) /\ Accepted
      /\ request.len \in Nat /\ host.request.len \in Nat /\ request.len <= PageLen
  BY <1>1, Answered, TypeFacts DEF HostReceives, OnCourse, Accepted, Acceptable
<1>3. UNCHANGED <<requests, setup_pending, copyVars, stalled, request, pc, localVars, chipVars,
                  done, stale, torn, spiflash_buffer, sent>>
  BY DEF HostReceives, Execute
<1>4. Length \in Nat /\ Length <= PageLen /\ PageLen \in Nat /\ (~torn => Length = request.len)
  BY <1>2, TypeFacts DEF Length
<1> DEFINE got == SubSeq(spiflash_buffer, 1, 1 + Length - 1)
<1>5. /\ got \in Seq(Bytes) /\ DOMAIN got = 1 .. Length
      /\ \A j \in 1 .. Length : got[j] = spiflash_buffer[1 + j - 1]
  BY <1>1, <1>4, TypeFacts, BufferParts
<1>6. /\ \A j \in 1 .. Length : got[j] = spiflash_buffer[j]
      /\ got = SubSeq(spiflash_buffer, 1, Length)
  BY <1>4, <1>5
<1>7. got = [j \in 1 .. Length |-> got[j]]
  <2>1. got = [j \in DOMAIN got |-> got[j]]
    BY <1>5, LenProperties
  <2> QED
    BY <1>5, <2>1
<1>8. host' = [host EXCEPT !.stage = "status", !.got = got]
  BY <1>6 DEF HostReceives
<1> HIDE DEF got
<1>9. /\ host' \in [request : Requests, stage : {"idle", "data", "status"}, got : Seq(Bytes)]
      /\ host'.request = host.request /\ host'.got = got
  BY <1>1, <1>5, <1>8 DEF TypeOK
<1>10. primed' = [primed EXCEPT !["in"] = "none"] /\ complete' = complete \cup {"in"}
  BY DEF HostReceives, Execute
<1>11. /\ primed' \in [{"out", "in"} -> {"none", "data", "ack"}] /\ complete' \subseteq {"out", "in"}
       /\ primed'["in"] = "none" /\ primed'["out"] = primed["out"]
       /\ ("out" \in complete' <=> "out" \in complete)
  BY <1>1, <1>10 DEF TypeOK
<1>12. TypeOK'
  BY <1>1, <1>3, <1>9, <1>11 DEF TypeOK
<1>13. OwnPacket'
  BY <1>1, <1>3, <1>9, PacketKept
<1>14. OnCourse'
  BY <1>1, <1>3, <1>11 DEF OnCourse, Accepted, Acceptable, InRange
<1>15. ASSUME ~stale', ~torn'
       PROVE  OwnData' /\ ReadBack'
  <2>1. OwnData /\ ReadBack /\ Length = request.len
    BY <1>3, <1>4, <1>15 DEF FlashInv
  <2>2. OwnData'
    BY <1>3, <1>11, <2>1 DEF OwnData, Accepted, Acceptable, InRange
  <2>3. done /\ \A j \in 1 .. request.len : got[j] = Settled[request.addr + j - 1]
    BY <1>1, <1>6, <2>1 DEF ReadBack
  <2>4. got = [j \in 1 .. request.len |-> Settled[request.addr + j - 1]]
    BY <1>7, <2>1, <2>3
  <2> QED
    BY <1>1, <1>3, <1>9, <1>11, <2>1, <2>2, <2>3, <2>4 DEF ReadBack
<1> QED
  BY <1>12, <1>13, <1>14, <1>15 DEF FlashInv

\* A request is acknowledged.
LEMMA StatusPreserves ==
  ASSUME FlashInv, HostStatus
  PROVE  FlashInv'
<1> DEFINE ep == IF host.request.kind = "read" THEN "out" ELSE "in"
<1>1. TypeOK /\ OwnPacket /\ OnCourse /\ Settled' = Settled /\ Answers
  BY SettledFacts DEF FlashInv, HostStatus, Execute
<1>2. /\ ~torn => host.request = request
      /\ UNCHANGED <<requests, setup_pending, copyVars, stalled, request, pc, localVars, chipVars,
                     done, stale, torn, spiflash_buffer, sent>>
  BY <1>1, Answered DEF HostStatus, Execute
<1>3. /\ host' \in [request : Requests, stage : {"idle", "data", "status"}, got : Seq(Bytes)]
      /\ host'.request = host.request /\ host'.stage = "idle"
  BY <1>1 DEF HostStatus, TypeOK
<1>4. /\ primed[ep] = "ack" /\ primed' = [primed EXCEPT ![ep] = "none"]
      /\ complete' = complete \cup {ep}
  BY DEF HostStatus, Execute
<1>5. /\ primed' \in [{"out", "in"} -> {"none", "data", "ack"}] /\ complete' \subseteq {"out", "in"}
      /\ \A e \in {"out", "in"} : primed'[e] \in {primed[e], "none"}
  BY <1>1, <1>4 DEF TypeOK
<1>6. "out" \in complete' => "out" \in complete \/ host.request.kind = "read"
  BY <1>4
<1>7. TypeOK'
  BY <1>1, <1>2, <1>3, <1>5 DEF TypeOK
<1>8. OwnPacket'
  BY <1>1, <1>2, <1>3, PacketKept
<1>9. OnCourse'
  BY <1>1, <1>2, <1>5 DEF OnCourse, Accepted, Acceptable, InRange
<1>10. ASSUME ~stale', ~torn'
       PROVE  OwnData' /\ ReadBack'
  <2>1. OwnData /\ ReadBack /\ host.request = request
    BY <1>2, <1>10 DEF FlashInv
  <2>2. pc # "setup"
    BY <1>4, <2>1 DEF OwnData, ReadBack
  <2>3. OwnData'
    BY <1>2, <1>5, <1>6, <2>1, <2>2 DEF OwnData, Accepted, Acceptable, InRange
  <2>4. ReadBack'
    BY <1>1, <1>2, <1>3, <1>5, <2>1 DEF ReadBack
  <2> QED
    BY <2>3, <2>4
<1> QED
  BY <1>7, <1>8, <1>9, <1>10 DEF FlashInv

\* A field of a packet is copied: the next one in the order of Fields.
LEMMA FieldCopied ==
  ASSUME TypeOK, pc = "copy", copied < 8, CopySetup
  PROVE  /\ copied' \in 0 .. 8 /\ copied' = copied + 1 /\ UNCHANGED <<pc, mixed, setup_pending>>
         /\ setup' \in [Eps -> [direction : Eps, kind : Kinds, addr : Nat, len : Nat]]
         /\ \A i \in 1 .. 4 :
              /\ setup'["out"][Fields[i]] = IF i = copied' THEN Packet(host.request)[Fields[i]]
                                            ELSE setup["out"][Fields[i]]
              /\ setup'["in"][Fields[i]] = IF i + 4 = copied' THEN Packet(host.request)[Fields[i]]
                                           ELSE setup["in"][Fields[i]]
<1> DEFINE ep == IF copied < 4 THEN "out" ELSE "in"
           n == (copied % 4) + 1
           r == host.request
<1>1. /\ copied' = copied + 1 /\ UNCHANGED <<pc, mixed, setup_pending>>
      /\ setup' = [setup EXCEPT ![ep][Fields[n]] = Packet(r)[Fields[n]]]
  BY DEF CopySetup
<1>2. /\ copied \in 0 .. 7 /\ copied' \in 0 .. 8 /\ r.kind \in Kinds /\ r.addr \in Nat /\ r.len \in Nat
      /\ setup \in [Eps -> [direction : Eps, kind : Kinds, addr : Nat, len : Nat]]
  BY <1>1, TypeFacts DEF TypeOK
<1>3. /\ Packet(r).direction \in Eps /\ Packet(r).kind \in Kinds
      /\ Packet(r).addr \in Nat /\ Packet(r).len \in Nat
  BY <1>2 DEF Packet, Direction
<1>4. /\ ep \in Eps /\ n \in 1 .. 4
      /\ \A i \in 1 .. 4 : (ep = "out" /\ i = n <=> i = copied') /\ (ep = "in" /\ i = n <=> i + 4 = copied')
  BY <1>1, <1>2
<1> HIDE DEF ep, n, r
<1>5. /\ Fields[1] = "direction" /\ Fields[2] = "kind" /\ Fields[3] = "addr" /\ Fields[4] = "len"
  BY DEF Fields
<1>6. setup' \in [Eps -> [direction : Eps, kind : Kinds, addr : Nat, len : Nat]]
  <2>1. CASE n = 1
    BY <1>1, <1>2, <1>3, <1>4, <1>5, <2>1
  <2>2. CASE n = 2
    BY <1>1, <1>2, <1>3, <1>4, <1>5, <2>2
  <2>3. CASE n = 3
    BY <1>1, <1>2, <1>3, <1>4, <1>5, <2>3
  <2>4. CASE n = 4
    BY <1>1, <1>2, <1>3, <1>4, <1>5, <2>4
  <2> QED
    BY <1>4, <2>1, <2>2, <2>3, <2>4
<1>7. ASSUME NEW e \in Eps, NEW i \in 1 .. 4
      PROVE  setup'[e][Fields[i]] = IF e = ep /\ i = n THEN Packet(r)[Fields[i]] ELSE setup[e][Fields[i]]
  <2>1. /\ e # ep => setup'[e] = setup[e]
        /\ e = ep => setup'[e] = [setup[e] EXCEPT ![Fields[n]] = Packet(r)[Fields[n]]]
    BY <1>1, <1>2, <1>4
  <2>2. Fields[i] \in {"direction", "kind", "addr", "len"} /\ (i # n => Fields[i] # Fields[n])
    BY <1>4, <1>5
  <2>3. DOMAIN setup[e] = {"direction", "kind", "addr", "len"}
    BY <1>2
  <2> QED
    BY <2>1, <2>2, <2>3
<1>8. \A i \in 1 .. 4 :
        /\ setup'["out"][Fields[i]] = IF i = copied' THEN Packet(r)[Fields[i]] ELSE setup["out"][Fields[i]]
        /\ setup'["in"][Fields[i]] = IF i + 4 = copied' THEN Packet(r)[Fields[i]] ELSE setup["in"][Fields[i]]
  BY <1>4, <1>7
<1> QED
  BY <1>1, <1>2, <1>6, <1>8 DEF r

\* A packet is copied, field by field, and its status is cleared.
LEMMA CopyPreserves ==
  ASSUME FlashInv, TakeSetup
  PROVE  FlashInv'
<1>1. /\ TypeOK /\ OwnPacket /\ Settled' = Settled
      /\ UNCHANGED <<host, requests, endpointVars, request, spiflash_buffer, localVars, chipVars, history>>
  BY SettledFacts DEF FlashInv, TakeSetup
<1>2. \/ /\ pc = "idle" /\ setup_pending /\ pc' = "copy" /\ copied' = 0 /\ mixed' = FALSE
         /\ UNCHANGED <<setup, setup_pending>>
      \/ pc = "copy" /\ copied < 8 /\ CopySetup
      \/ pc = "copy" /\ copied = 8 /\ pc' = "flush" /\ setup_pending' = FALSE /\ UNCHANGED copyVars
  BY DEF TakeSetup, CopySetup
<1>3. TypeOK'
  <2>1. /\ setup' \in [Eps -> [direction : Eps, kind : Kinds, addr : Nat, len : Nat]]
        /\ copied' \in 0 .. 8 /\ mixed' \in BOOLEAN /\ setup_pending' \in BOOLEAN /\ pc' \in Places
    <3>1. CASE pc = "copy" /\ copied < 8 /\ CopySetup
      BY <1>1, <3>1, FieldCopied DEF TypeOK
    <3>2. CASE pc' = "copy" /\ copied' = 0 /\ mixed' = FALSE /\ UNCHANGED <<setup, setup_pending>>
      <4>1. copied' \in 0 .. 8
        BY <3>2
      <4>2. mixed' \in BOOLEAN /\ pc' \in Places
        BY <3>2, Zenon DEF Places
      <4>3. setup_pending' \in BOOLEAN /\ setup' = setup
        BY <1>1, <3>2 DEF TypeOK
      <4> QED
        BY <1>1, <4>1, <4>2, <4>3 DEF TypeOK
    <3>3. CASE pc' = "flush" /\ setup_pending' = FALSE /\ UNCHANGED copyVars
      BY <1>1, <3>3 DEF TypeOK, Places
    <3> QED
      BY <1>2, <3>1, <3>2, <3>3
  <2> QED
    BY <1>1, <2>1 DEF TypeOK
<1>4. ~Answers' /\ {pc, pc'} \subseteq {"idle", "copy", "flush"}
  BY <1>1, <1>2, FieldCopied DEF OwnPacket, Answers
<1>5. ~Answers
  BY <1>1, <1>2 DEF OwnPacket, Answers
<1>6. OwnPacket'
  <2>1. CASE pc' = "copy" /\ copied' = 0 /\ setup_pending'
    BY <1>1, <1>4, <1>5, <2>1 DEF OwnPacket, Copying
  <2>2. CASE pc = "copy" /\ copied < 8 /\ CopySetup
    <3>1. copied \in Nat /\ copied' = copied + 1 /\ UNCHANGED <<pc, mixed, setup_pending>>
      BY <1>1, <2>2, FieldCopied DEF TypeOK
    <3>2. ~mixed => \A i \in 1 .. 4 :
            /\ i <= copied' => setup'["out"][Fields[i]] = Packet(host.request)[Fields[i]]
            /\ i + 4 <= copied' => setup'["in"][Fields[i]] = Packet(host.request)[Fields[i]]
      BY <1>1, <2>2, <3>1, FieldCopied DEF OwnPacket
    <3> QED
      BY <1>1, <1>4, <1>5, <2>2, <3>1, <3>2 DEF OwnPacket, Copying, Packet
  <2>3. CASE pc = "copy" /\ copied = 8 /\ pc' = "flush" /\ UNCHANGED copyVars
    <3>1. host.request \in Requests /\ setup \in [Eps -> [direction : Eps, kind : Kinds, addr : Nat, len : Nat]]
      BY <1>1 DEF TypeOK
    <3>2. ASSUME ~mixed
          PROVE  \A ep \in Eps : setup[ep] = Packet(host.request)
      <4>1. \A i \in 1 .. 4 : /\ setup["out"][Fields[i]] = Packet(host.request)[Fields[i]]
                              /\ setup["in"][Fields[i]] = Packet(host.request)[Fields[i]]
        BY <1>1, <2>3, <3>2 DEF OwnPacket
      <4>2. \A ep \in Eps :
              /\ setup[ep].direction = Packet(host.request).direction
              /\ setup[ep].kind = Packet(host.request).kind
              /\ setup[ep].addr = Packet(host.request).addr
              /\ setup[ep].len = Packet(host.request).len
        BY <4>1 DEF Fields
      <4>3. \A ep \in Eps : setup[ep] = [direction |-> setup[ep].direction, kind |-> setup[ep].kind,
                                         addr |-> setup[ep].addr, len |-> setup[ep].len]
        BY <3>1
      <4> QED
        BY <4>2, <4>3 DEF Packet
    <3> QED
      BY <1>1, <1>4, <1>5, <2>3, <3>1, <3>2 DEF OwnPacket, Copying, Packet
  <2> QED
    BY <1>2, <2>1, <2>2, <2>3
<1> QED
  BY <1>1, <1>3, <1>4, <1>6, AllKept

\* The packet of a request says what is asked.
LEMMA AskedPacket ==
  ASSUME NEW r \in Requests
  PROVE  Asked(Packet(r)) = r
BY FlashAssumption DEF Asked, Packet

\* The handler is called with the copy, and what was primed before is flushed.
LEMMA SetupPreserves ==
  ASSUME FlashInv, Setup
  PROVE  FlashInv'
<1> USE DEF Setup
<1>1. TypeOK /\ OwnPacket /\ OnCourse /\ Settled' = Settled
  BY SettledFacts DEF FlashInv
<1>2. request' = Asked(setup["out"]) /\ request' \in [kind : Kinds, addr : Nat, len : Nat] /\ pc' = "setup"
  BY <1>1 DEF TypeOK, Asked
<1>3. primed' \in [{"out", "in"} -> {"none", "data", "ack"}] /\ sent' \in Seq(Bytes) /\ stale' \in BOOLEAN
  BY <1>1, EmptySeq DEF TypeOK
<1>4. TypeOK'
  BY <1>1, <1>2, <1>3 DEF TypeOK, Places
<1>5. OwnPacket'
  <2>1. UNCHANGED <<setup, copied, mixed, host, setup_pending>> /\ torn' = mixed /\ ~Answers
    BY DEF Answers
  <2>2. ASSUME ~mixed
        PROVE  /\ request' \in Requests /\ \A ep \in Eps : setup'[ep] = Packet(request')
               /\ ~setup_pending' => request' = host.request
    <3>1. PICK r \in Requests : /\ \A ep \in Eps : setup[ep] = Packet(r)
                                /\ ~setup_pending => r = host.request
      BY <1>1, <2>2 DEF OwnPacket
    <3>2. request' = r
      BY <1>2, <3>1, AskedPacket
    <3> QED
      BY <2>1, <3>1, <3>2
  <2>3. (Answers' <=> ~setup_pending') /\ (~Answers' => ~Answers)
    BY <1>2, <2>1 DEF Answers
  <2> QED
    BY <1>1, <1>2, <2>1, <2>2, <2>3 DEF OwnPacket, Copying
<1>6. OnCourse'
  BY DEF OnCourse
<1>7. ASSUME ~stale', ~torn'
      PROVE  OwnData' /\ ReadBack'
  <2>1. "out" \notin complete
    BY <1>7
  <2>2. OwnData'
    BY <2>1 DEF OwnData
  <2>3. Answers' /\ request'.kind = "read" => host'.stage = "data"
    <3>1. torn' = mixed /\ ~Answers /\ UNCHANGED <<host, setup_pending>> /\ ~mixed
      BY <1>7 DEF Answers
    <3>2. ~setup_pending => request' = host.request
      BY <1>1, <1>2, <1>5, <1>7, <3>1 DEF OwnPacket, Answers
    <3> QED
      BY <1>1, <3>1, <3>2 DEF OwnPacket, Answers
  <2> QED
    BY <2>2, <2>3 DEF ReadBack
<1> QED
  BY <1>4, <1>5, <1>6, <1>7 DEF FlashInv

\* The SETUP stage: a write is prepared, a read begun, an erase or a clear
\* carried out, a request out of range refused.
LEMMA StagePreserves ==
  ASSUME FlashInv, SetupStage
  PROVE  FlashInv'
<1> USE DEF SetupStage
<1>1. TypeOK /\ OnCourse /\ Settled' = Settled /\ pc = "setup"
  BY SettledFacts DEF FlashInv
<1>2. \/ /\ request.kind = "write" /\ Accepted /\ pc' = "prepare" /\ done' = done
         /\ primed' = [primed EXCEPT !["out"] = "data"] /\ UNCHANGED <<complete, stalled>>
      \/ request.kind = "read" /\ Accepted /\ pc' = "read" /\ done' = done /\ UNCHANGED endpointVars
      \/ request.kind = "erase" /\ pc' = "identify" /\ done' = TRUE /\ UNCHANGED endpointVars
      \/ request.kind = "clear" /\ pc' = "enable" /\ done' = TRUE /\ UNCHANGED endpointVars
      \/ pc' = "idle" /\ done' = done /\ stalled' = TRUE /\ UNCHANGED <<primed, complete>>
  BY DEF SetupWrite, SetupRead, SetupErase, SetupClear, SetupRefused
<1>3. /\ primed' \in [{"out", "in"} -> {"none", "data", "ack"}] /\ primed'["in"] = primed["in"]
      /\ primed'["out"] = IF pc' = "prepare" THEN "data" ELSE primed["out"]
      /\ complete' = complete /\ stalled' \in BOOLEAN /\ done' \in BOOLEAN /\ pc' \in Places
  BY <1>1, <1>2 DEF TypeOK, Places
<1>4. TypeOK'
  BY <1>1, <1>3 DEF TypeOK
<1>5. OnCourse'
  BY <1>1, <1>2, <1>3 DEF OnCourse, Accepted, Acceptable, InRange
<1>6. OwnPacket'
  BY <1>1, <1>2, PacketKept DEF FlashInv, Copying
<1>7. ASSUME ~stale', ~torn'
      PROVE  OwnData' /\ ReadBack'
  <2>1. OwnData /\ ReadBack
    BY <1>7 DEF FlashInv
  <2>2. OwnData'
    BY <1>1, <1>2, <1>3, <2>1 DEF OwnData, Accepted, Acceptable, InRange
  <2>3. done => done'
    BY <1>2
  <2>4. ReadBack'
    BY <1>1, <1>2, <1>3, <2>1, <2>3 DEF ReadBack, Answers
  <2> QED
    BY <2>2, <2>4
<1> QED
  BY <1>4, <1>5, <1>6, <1>7 DEF FlashInv

\* The DATA stage: the data of a write is taken to be programmed, that of a
\* read is acknowledged.
LEMMA DataPreserves ==
  ASSUME FlashInv, NEW ep \in {"out", "in"}, DataStage(ep)
  PROVE  FlashInv'
<1> USE DEF DataStage
<1>1. TypeOK /\ OwnPacket /\ OnCourse /\ Settled' = Settled /\ pc = "idle"
  BY SettledFacts DEF FlashInv
<1>2. /\ UNCHANGED <<hostVars, copyVars, sent, stale, torn, spiflash_buffer, chipVars>>
      /\ ~torn => Asked(setup[ep]) = request /\ setup[ep] = Packet(request) /\ request \in Requests
  <2>1. ~torn => setup[ep] = Packet(request) /\ request \in Requests
    BY <1>1 DEF OwnPacket, Copying
  <2> QED
    BY <2>1, AskedPacket
<1>3. \/ /\ setup[ep].direction = ep /\ setup[ep].kind = "write" /\ Acceptable(setup[ep])
         /\ request' = Asked(setup[ep]) /\ pc' = "identify" /\ done' = TRUE
         /\ addr' = setup[ep].addr /\ len' = setup[ep].len /\ at' = 1 /\ UNCHANGED <<primed, stalled>>
      \/ /\ setup[ep].direction = ep /\ setup[ep].kind = "read" /\ primed' = [primed EXCEPT !["out"] = "ack"]
         /\ UNCHANGED <<request, pc, localVars, done, stalled>>
      \/ /\ ~(setup[ep].direction = ep /\ setup[ep].kind = "write" /\ Acceptable(setup[ep]))
         /\ stalled' \in BOOLEAN /\ UNCHANGED <<request, pc, localVars, done, primed>>
  BY <1>1 DEF TypeOK
<1>4. /\ setup[ep].kind \in Kinds /\ setup[ep].addr \in Nat /\ setup[ep].len \in Nat
      /\ Asked(setup[ep]).kind = setup[ep].kind /\ Asked(setup[ep]).addr = setup[ep].addr
      /\ Asked(setup[ep]).len = setup[ep].len
  BY <1>1 DEF TypeOK, Asked
<1>5. /\ primed' \in [{"out", "in"} -> {"none", "data", "ack"}] /\ primed'["in"] = primed["in"]
      /\ primed'["out"] \in {"ack", primed["out"]}
      /\ complete' = complete \ {ep} /\ stalled' \in BOOLEAN /\ done' \in BOOLEAN /\ pc' \in Places
  BY <1>1, <1>3 DEF TypeOK, Places
<1>6. addr' \in Nat /\ len' \in Nat /\ at' \in Nat \ {0} /\ request' \in [kind : Kinds, addr : Nat, len : Nat]
  <2>1. Asked(setup[ep]) \in [kind : Kinds, addr : Nat, len : Nat]
    BY <1>4 DEF Asked
  <2>2. request' \in [kind : Kinds, addr : Nat, len : Nat]
    BY <1>1, <1>3, <2>1 DEF TypeOK
  <2> QED
    BY <1>1, <1>3, <1>4, <2>2, TypeFacts
<1>7. TypeOK'
  BY <1>1, <1>2, <1>5, <1>6 DEF TypeOK
<1>8. ~torn => request' = request
  BY <1>2, <1>3
<1>9. OwnPacket'
  <2>1. (Answers' <=> Answers) /\ pc' \notin Copying
    BY <1>1, <1>2, <1>3 DEF Answers, Copying
  <2> QED
    BY <1>1, <1>2, <1>8, <2>1 DEF OwnPacket, Packet, Copying
<1>10. OnCourse'
  <2>1. CASE pc' = "identify"
    <3>1. /\ request'.kind = "write" /\ Accepted' /\ addr' = request'.addr /\ len' = request'.len /\ at' = 1
          /\ primed' = primed /\ request'.addr \in Nat /\ request'.len \in Nat
      BY <1>1, <1>3, <1>4, <2>1 DEF Accepted, Acceptable, InRange
    <3>2. request'.addr = request'.addr + 1 - 1
      BY <3>1
    <3> QED
      BY <1>1, <1>2, <1>8, <2>1, <3>1, <3>2 DEF OnCourse
  <2>2. CASE pc' = "idle" /\ request' = request
    BY <1>1, <1>2, <1>5, <2>2 DEF OnCourse, Accepted, Acceptable, InRange
  <2> QED
    BY <1>1, <1>3, <2>1, <2>2
<1>11. ASSUME ~stale', ~torn'
       PROVE  OwnData' /\ ReadBack'
  <2>1. OwnData /\ ReadBack /\ ~torn /\ request' = request
    BY <1>2, <1>8, <1>11 DEF FlashInv
  <2>2. OwnData'
    <3>1. CASE pc' = "identify"
      <4>1. request.kind = "write" /\ Accepted /\ ep = "out"
        <5>1. setup[ep].direction = ep /\ setup[ep].kind = "write" /\ Acceptable(setup[ep])
          BY <1>1, <1>3, <3>1
        <5> QED
          BY <1>2, <2>1, <5>1 DEF Packet, Direction, Accepted, Acceptable
      <4>2. "out" \in complete /\ done' /\ primed' = primed
        BY <1>1, <1>3, <3>1, <4>1
      <4>3. primed["out"] # "data" /\ "out" \notin complete'
        BY <1>5, <2>1, <4>1, <4>2 DEF OwnData
      <4> QED
        BY <3>1, <4>2, <4>3 DEF OwnData
    <3>2. CASE pc' = "idle"
      <4>1. done' = done /\ ("out" \in complete' => "out" \in complete)
        BY <1>3, <1>5, <3>2
      <4> QED
        BY <1>2, <1>5, <2>1, <3>2, <4>1 DEF OwnData, Accepted, Acceptable, InRange
    <3> QED
      BY <1>1, <1>3, <3>1, <3>2
  <2>3. done => done'
    BY <1>3
  <2>4. Answers' => Answers
    BY <1>1, <1>2 DEF Answers
  <2>5. ReadBack'
    BY <1>1, <1>2, <1>5, <2>1, <2>3, <2>4 DEF ReadBack
  <2> QED
    BY <2>2, <2>5
<1> QED
  BY <1>7, <1>9, <1>10, <1>11 DEF FlashInv

\* The driver waits for the chip, and enables it.
LEMMA WaitsPreserve ==
  ASSUME FlashInv, Identify \/ WriteEnable
  PROVE  FlashInv'
<1>1. TypeOK /\ OnCourse /\ Settled' = Settled
  BY SettledFacts DEF FlashInv, Identify, WriteEnable
<1>2. /\ UNCHANGED <<hostVars, copyVars, sent, stale, torn, request, done, endpointVars, spiflash_buffer, localVars,
                     flash, protected, op>>
      /\ \/ pc = "prepare" /\ pc' = "idle" /\ UNCHANGED wel
         \/ pc = "identify" /\ pc' = "enable" /\ UNCHANGED wel
         \/ pc = "enable" /\ pc' = "enabled" /\ wel' = TRUE /\ Accepts
  BY DEF Identify, WriteEnable
<1>3. wel' \in BOOLEAN /\ pc' \in Places
  BY <1>1, <1>2 DEF TypeOK, Places
<1>4. TypeOK'
  BY <1>1, <1>2, <1>3 DEF TypeOK
<1>5. OnCourse'
  BY <1>1, <1>2 DEF OnCourse, Accepted, Acceptable, InRange
<1>6. ~stale' /\ ~torn' => OwnData'
  BY <1>2 DEF FlashInv, OwnData, Accepted, Acceptable, InRange
<1>7. ~stale' /\ ~torn' => ReadBack'
  BY <1>1, <1>2 DEF FlashInv, ReadBack, Answers
<1>8. OwnPacket'
  BY <1>2, PacketKept DEF FlashInv, Copying
<1> QED
  BY <1>4, <1>5, <1>6, <1>7, <1>8 DEF FlashInv

\* The buffer is filled from the flash.
LEMMA ReadPreserves ==
  ASSUME FlashInv, Read
  PROVE  FlashInv'
<1> USE DEF Read, ReadFrame
<1>1. /\ TypeOK /\ OnCourse /\ Settled' = Settled /\ Settled = flash
      /\ pc = "read" /\ request.kind = "read" /\ Accepted
  BY SettledFacts DEF FlashInv, OnCourse
<1>2. /\ request.addr \in Nat /\ request.len \in Nat /\ PageLen \in Nat /\ NumBytes \in Nat
      /\ request.len <= PageLen /\ request.addr + request.len <= NumBytes
  BY <1>1, TypeFacts DEF Accepted, Acceptable, InRange
<1>3. \A i \in 1 .. request.len : i \in 1 .. PageLen /\ request.addr + i - 1 \in Cells
  BY <1>2 DEF Cells
<1>4. spiflash_buffer' = [i \in 1 .. PageLen |->
                            IF i <= request.len THEN flash[request.addr + i - 1] ELSE spiflash_buffer[i]]
  BY DEF Slice
<1>5. spiflash_buffer' \in [1 .. PageLen -> Bytes]
  <2>1. \A i \in 1 .. PageLen : i <= request.len => i \in 1 .. request.len
    BY <1>2
  <2> QED
    BY <1>1, <1>3, <1>4, <2>1, TypeFacts
<1>6. \A i \in 1 .. request.len : spiflash_buffer'[i] = flash[request.addr + i - 1]
  <2>1. \A i \in 1 .. request.len : i <= request.len
    BY <1>2
  <2> QED
    BY <1>3, <1>4, <2>1
<1>7. /\ primed' \in [{"out", "in"} -> {"none", "data", "ack"}]
      /\ primed'["in"] = "data" /\ primed'["out"] = primed["out"]
  BY <1>1 DEF TypeOK
<1>8. UNCHANGED <<hostVars, copyVars, sent, stale, torn, request, localVars, chipVars, complete, stalled>>
      /\ pc' = "idle" /\ done' = TRUE
  OBVIOUS
<1>9. TypeOK'
  BY <1>1, <1>5, <1>7, <1>8 DEF TypeOK, Places
<1>10. OnCourse'
  BY <1>1, <1>7, <1>8 DEF OnCourse, Accepted, Acceptable, InRange
<1>11. ASSUME ~stale', ~torn'
       PROVE  OwnData' /\ ReadBack'
  <2>1. OwnData /\ ReadBack
    BY <1>11 DEF FlashInv
  <2>2. OwnData'
    BY <1>1, <1>7, <1>8, <2>1 DEF OwnData
  <2>3. \A i \in 1 .. request.len : spiflash_buffer'[i] = Settled'[request.addr + i - 1]
    BY <1>1, <1>6
  <2>4. ReadBack'
    BY <1>1, <1>7, <1>8, <2>1, <2>3 DEF ReadBack, Answers
  <2> QED
    BY <2>2, <2>4
<1>12. OwnPacket'
  BY <1>1, <1>8, PacketKept DEF FlashInv, Copying
<1> QED
  BY <1>9, <1>10, <1>11, <1>12 DEF FlashInv

\* What is handed to the chip is part of what is left, and within a page.
LEMMA ChunkFacts ==
  ASSUME TypeOK
  PROVE  Chunk \in Nat /\ Chunk <= len /\ (addr % PageLen) + Chunk <= PageLen
<1>1. addr \in Nat /\ len \in Nat /\ PageLen \in Nat \ {0}
  BY TypeFacts
<1>2. addr % PageLen \in 0 .. PageLen - 1
  BY <1>1, Division
<1> DEFINE room == PageLen - (addr % PageLen)
<1>3. room \in Nat /\ (addr % PageLen) + room = PageLen
  BY <1>1, <1>2
<1>4. Chunk = IF len < room THEN len ELSE room
  BY DEF Chunk
<1> HIDE DEF room
<1>5. addr % PageLen \in Nat
  BY <1>1, <1>2
<1> QED
  BY <1>1, <1>3, <1>4, <1>5

\* A chunk of a write, its data, and what is left.
LEMMA WriteFacts ==
  ASSUME FlashInv, pc = "enabled", request.kind = "write"
  PROVE  /\ Programs(Chunk) /\ at + Chunk - 1 <= PageLen /\ at + len - 1 <= PageLen
         /\ addr + Chunk \in Nat /\ len - Chunk \in Nat /\ at + Chunk \in Nat \ {0}
         /\ addr + Chunk = request.addr + (at + Chunk) - 1
         /\ (addr + Chunk) + (len - Chunk) = request.addr + request.len
         /\ addr + len <= NumBytes
<1>1. TypeOK /\ OnCourse /\ Accepted
  BY DEF FlashInv, OnCourse
<1>2. /\ addr \in Nat /\ len \in Nat /\ at \in Nat \ {0} /\ PageLen \in Nat /\ NumBytes \in Nat
      /\ request.addr \in Nat /\ request.len \in Nat
  BY <1>1, TypeFacts
<1>3. /\ addr = request.addr + at - 1 /\ addr + len = request.addr + request.len
      /\ request.len <= PageLen /\ request.addr + request.len <= NumBytes
  BY <1>1 DEF OnCourse, Accepted, Acceptable, InRange
<1>4. Chunk \in Nat /\ Chunk <= len /\ (addr % PageLen) + Chunk <= PageLen
  BY <1>1, ChunkFacts
<1>5. /\ at + Chunk - 1 <= PageLen /\ at + len - 1 <= PageLen /\ addr <= NumBytes - Chunk
      /\ addr + len <= NumBytes
  BY <1>2, <1>3, <1>4
<1>6. /\ addr + Chunk \in Nat /\ len - Chunk \in Nat /\ at + Chunk \in Nat \ {0}
      /\ addr + Chunk = request.addr + (at + Chunk) - 1
      /\ (addr + Chunk) + (len - Chunk) = request.addr + request.len
  BY <1>2, <1>3, <1>4
<1> QED
  BY <1>4, <1>5, <1>6 DEF Programs

\* A command is sent: the next chunk of a write, an erase or a clear.
LEMMA CommandPreserves ==
  ASSUME FlashInv, SendCommand
  PROVE  FlashInv'
<1>1. TypeOK /\ OnCourse /\ pc = "enabled" /\ request.kind # "read"
  BY DEF FlashInv, SendCommand, OnCourse
<1>2. /\ UNCHANGED <<hostVars, copyVars, sent, stale, torn, request, done, spiflash_buffer, flash, protected, wel,
                     complete, stalled>>
      /\ \/ pc' = "enable" /\ primed' = primed /\ request.kind = "write"
         \/ pc' = "idle" /\ primed' = [primed EXCEPT !["in"] = "ack"]
  BY DEF SendCommand, ProgramChunk, EraseOrClear, Command
<1>3. /\ primed' \in [{"out", "in"} -> {"none", "data", "ack"}] /\ primed'["out"] = primed["out"]
      /\ primed'["in"] \in {"ack", primed["in"]} /\ pc' \in Places
  BY <1>1, <1>2 DEF TypeOK, Places
<1>4. addr' \in Nat /\ len' \in Nat /\ at' \in Nat \ {0} /\ op' \in Commands
  <2>1. CASE ProgramChunk
    <3>1. request.kind = "write" /\ addr' = addr + Chunk /\ len' = len - Chunk /\ at' = at + Chunk
      BY <2>1 DEF ProgramChunk
    <3>2. SubSeq(spiflash_buffer, at, at + Chunk - 1) \in Seq(Bytes)
      BY <1>1, <3>1, TypeFacts, WriteFacts, ChunkFacts, BufferParts
    <3>3. op' \in {op, [kind |-> "program", addr |-> addr, data |-> SubSeq(spiflash_buffer, at, at + Chunk - 1)]}
      BY <2>1 DEF ProgramChunk, Command
    <3>4. ASSUME NEW d \in Seq(Bytes)
          PROVE  [kind |-> "program", addr |-> addr, data |-> d] \in Commands
      BY <1>1, TypeFacts DEF Commands
    <3>5. op' \in Commands
      BY <1>1, <3>2, <3>3, <3>4 DEF TypeOK
    <3> QED
      BY <1>1, <3>1, <3>5, WriteFacts
  <2>2. CASE EraseOrClear
    <3>1. op' \in {op, [kind |-> request.kind]} /\ request.kind \in {"erase", "clear"}
      BY <2>2 DEF EraseOrClear, Command
    <3>2. op' \in Commands
      BY <1>1, <3>1 DEF TypeOK, Commands
    <3> QED
      BY <1>1, <2>2, <3>2 DEF EraseOrClear, TypeOK
  <2> QED
    BY <2>1, <2>2 DEF SendCommand
<1>5. TypeOK'
  BY <1>1, <1>2, <1>3, <1>4 DEF TypeOK
<1>6. OnCourse'
  <2>1. CASE pc' = "enable"
    <3>1. request.kind = "write" /\ addr' = addr + Chunk /\ len' = len - Chunk /\ at' = at + Chunk
      BY <2>1 DEF SendCommand, ProgramChunk, EraseOrClear
    <3>2. addr' = request.addr + at' - 1 /\ addr' + len' = request.addr + request.len
      BY <1>1, <3>1, WriteFacts
    <3>3. Accepted /\ primed' = primed
      BY <1>1, <1>2, <2>1, <3>1 DEF OnCourse
    <3> QED
      BY <1>1, <1>2, <2>1, <3>1, <3>2, <3>3 DEF OnCourse, Accepted, Acceptable, InRange
  <2>2. CASE pc' = "idle"
    BY <1>1, <1>2, <1>3, <2>2 DEF OnCourse, Accepted, Acceptable, InRange
  <2> QED
    BY <1>2, <2>1, <2>2
<1>7. ASSUME ~stale', ~torn'
      PROVE  OwnData' /\ ReadBack'
  <2>1. OwnData /\ ReadBack /\ done
    BY <1>1, <1>2, <1>7 DEF FlashInv, OwnData
  <2>2. OwnData'
    BY <1>2, <1>3, <2>1 DEF OwnData, Accepted, Acceptable, InRange
  <2>3. primed["in"] # "data"
    BY <1>1, <1>2, <1>7 DEF OnCourse
  <2>4. ReadBack'
    BY <1>1, <1>2, <1>3, <2>1, <2>3 DEF ReadBack, Answers
  <2> QED
    BY <2>2, <2>4
<1>8. OwnPacket'
  BY <1>1, <1>2, PacketKept DEF FlashInv, Copying
<1> QED
  BY <1>5, <1>6, <1>7, <1>8 DEF FlashInv

\* Every step preserves the invariant: one case per action.
LEMMA NextFlash == FlashInv /\ [Next]_vars => FlashInv'
<1> SUFFICES ASSUME FlashInv, [Next]_vars PROVE FlashInv'
  OBVIOUS
<1>1. CASE ChipFinishes
  BY <1>1, ChipPreserves
<1>2. CASE HostSetup
  BY <1>2, SetupSentPreserves
<1>3. CASE HostAnswers
  BY <1>3, SendsPreserves, ReceivesPreserves, StatusPreserves, StalledPreserves DEF HostAnswers
<1>4. CASE Setup
  BY <1>4, SetupPreserves
<1>5. CASE SetupStage
  BY <1>5, StagePreserves
<1>6. CASE DataStage("out") \/ DataStage("in")
  BY <1>6, DataPreserves
<1>7. CASE Identify \/ WriteEnable
  BY <1>7, WaitsPreserve
<1>8. CASE SendCommand
  BY <1>8, CommandPreserves
<1>9. CASE Read
  BY <1>9, ReadPreserves
<1>10. CASE UNCHANGED vars
  <2>1. Settled' = Settled
    BY <1>10, SettledFacts DEF FlashInv
  <2>2. TypeOK'
    BY <1>10 DEF FlashInv, TypeOK
  <2>3. OwnPacket'
    BY <1>10, PacketKept DEF FlashInv
  <2>4. Answers' <=> Answers
    BY <1>10 DEF Answers
  <2> QED
    BY <1>10, <2>1, <2>2, <2>3, <2>4, AllKept
<1>11. CASE TakeSetup
  BY <1>11, CopyPreserves
<1> QED
  BY <1>1, <1>2, <1>3, <1>4, <1>5, <1>6, <1>7, <1>8, <1>9, <1>10, <1>11 DEF Next, IsrNext

\* In every state the driver sends a command only to a chip that takes it, the
\* handler works on the packet the host sent last unless another tore it, and the
\* buffer and the history of data agree for a request that was neither torn nor
\* handled before an older completion.
THEOREM FlashInvariance == Spec => []FlashInv
BY InitFlash, NextFlash, PTL DEF Spec

\* A request that succeeds was carried out, and a read returned what the flash
\* holds, unless its packet was torn or handled before an older completion.
THEOREM TrueSuccess == Spec => SuccessIsTrue
<1>1. FlashInv /\ [Next]_vars =>
        [HostStatus /\ ~stale /\ ~torn =>
           /\ done /\ request = host.request
           /\ request.kind = "read" =>
                host.got = [i \in 1 .. request.len |-> Content[request.addr + i - 1]]]_vars
  <2> SUFFICES ASSUME FlashInv, HostStatus, ~stale, ~torn
               PROVE  /\ done /\ request = host.request
                      /\ request.kind = "read" =>
                           host.got = [i \in 1 .. request.len |-> Content[request.addr + i - 1]]
    OBVIOUS
  <2>1. OnCourse /\ ReadBack /\ Answers /\ host.request = request /\ host.stage = "status"
    BY Answered DEF FlashInv, HostStatus, Execute
  <2>2. CASE request.kind = "read"
    <3>1. Content = Settled
      BY <2>1, <2>2 DEF Content, OnCourse
    <3> QED
      BY <2>1, <2>2, <3>1 DEF ReadBack, Answers
  <2>3. CASE request.kind # "read"
    BY <2>1, <2>3 DEF HostStatus, Execute, ReadBack, Answers
  <2> QED
    BY <2>2, <2>3
<1> QED
  BY <1>1, FlashInvariance, PTL DEF Spec, SuccessIsTrue

-----------------------------------------------------------------------------
(* The refinement *)

\* A page program within a page writes its bytes to their addresses.
LEMMA ProgramEffect ==
  ASSUME NEW f \in [Cells -> Bytes], NEW a \in Nat, NEW n \in Nat, NEW d \in Seq(Bytes),
         DOMAIN d = 1 .. n, (a % PageLen) + n <= PageLen, NEW c \in Cells
  PROVE  /\ c \in a .. a + n - 1 => Programmed(f, a, d)[c] = f[c] \cap d[c - a + 1]
         /\ c \notin a .. a + n - 1 => Programmed(f, a, d)[c] = f[c]
<1>1. PageLen \in Nat \ {0} /\ c \in Nat
  BY FlashAssumption DEF Cells
<1>2. a % PageLen \in 0 .. PageLen - 1
  BY <1>1, Division
<1>3. ASSUME NEW i \in 1 .. n
      PROVE  Wrapped(a, i) = a + i - 1
  <2>1. i - 1 \in Nat /\ (a % PageLen) + (i - 1) < PageLen /\ a + (i - 1) = a + i - 1
    BY <1>1, <1>2
  <2>2. (a + (i - 1)) % PageLen = (a % PageLen) + (i - 1)
    BY <1>1, <2>1, WithinBlock
  <2> DEFINE r == a % PageLen
  <2>3. Wrapped(a, i) = (a - r) + (r + (i - 1))
    BY <2>1, <2>2 DEF Wrapped
  <2>4. r \in Nat
    BY <1>1, <1>2
  <2> HIDE DEF r
  <2> QED
    BY <2>3, <2>4
<1>4. Programmed(f, a, d)[c] = IF \E i \in 1 .. n : c = Wrapped(a, i)
                               THEN f[c] \cap d[CHOOSE i \in 1 .. n : c = Wrapped(a, i)] ELSE f[c]
  BY DEF Programmed
<1>5. CASE c \in a .. a + n - 1
  <2> DEFINE i == c - a + 1
  <2>1. i \in 1 .. n /\ c = a + i - 1
    BY <1>1, <1>5
  <2>2. c = Wrapped(a, i) /\ \A j \in 1 .. n : c = Wrapped(a, j) => j = i
    BY <1>1, <1>3, <2>1
  <2>3. (CHOOSE j \in 1 .. n : c = Wrapped(a, j)) = i
    BY <2>1, <2>2
  <2> QED
    BY <1>4, <1>5, <2>1, <2>2, <2>3
<1>6. CASE c \notin a .. a + n - 1
  <2>1. \A i \in 1 .. n : c # Wrapped(a, i)
    BY <1>1, <1>3, <1>6
  <2> QED
    BY <1>4, <1>6, <2>1
<1> QED
  BY <1>5, <1>6

\* The mapping, for a state without a request that is being carried out and for
\* its successor.
LEMMA Mapping ==
  /\ ~Carrying => Content = Settled /\ (Locked <=> protected /\ op.kind # "clear")
  /\ ~Carrying' => Content' = Settled' /\ (Locked' <=> protected' /\ op'.kind # "clear")
BY DEF Content, Locked

\* A step that neither begins nor ends what a handler carries out, and that
\* leaves what the chip will hold, is one that the store does not see.
LEMMA Unseen ==
  ASSUME Settled' = Settled, Locked' <=> Locked,
         UNCHANGED <<request, sent, done, stale, torn>>,
         Carrying' <=> Carrying, Carrying => UNCHANGED <<localVars, spiflash_buffer>>
  PROVE  UNCHANGED Store!vars
<1>1. Content' = Content
  <2>1. CASE ~Carrying
    BY <2>1, Mapping
  <2>2. CASE Carrying
    BY <2>2 DEF Content
  <2> QED
    BY <2>1, <2>2
<1>2. Locked' = Locked
  BY DEF Locked
<1> QED
  BY <1>1, <1>2 DEF Store!vars

\* The host's steps: a new packet and the end of a request are not seen, the
\* data of a write comes.
LEMMA HostRefines ==
  ASSUME FlashInv, HostSetup \/ HostAnswers, ~stale', ~torn'
  PROVE  Store!Send \/ UNCHANGED Store!vars
<1>1. TypeOK /\ OwnPacket /\ OwnData
  BY DEF FlashInv, HostSetup, HostAnswers, HostSends, HostReceives, HostStatus, HostStalled, Execute
<1>2. CASE HostSends
  <2>1. UNCHANGED <<pc, request, chipVars, done, stale, torn>>
    BY <1>2 DEF HostSends, Execute
  <2>2. request.kind = "write" /\ ~done /\ sent = <<>> /\ ~Carrying /\ host.request = request
    BY <1>1, <1>2, <2>1, Answered DEF HostSends, Execute, OwnData
  <2>3. sent' \in [1 .. request.len -> Bytes]
    <3>1. Length = request.len
      BY <2>2 DEF Length
    <3> QED
      BY <1>2, <3>1 DEF HostSends
  <2>4. Settled' = Settled
    BY <1>1, <2>1, SettledFacts
  <2>5. Content' = Content /\ Locked' = Locked
    <3>1. Content' = Content
      BY <2>1, <2>2, <2>4, Mapping
    <3>2. Locked' = Locked
      BY <2>1 DEF Locked
    <3> QED
      BY <3>1, <3>2
  <2> QED
    BY <2>1, <2>2, <2>3, <2>5 DEF Store!Send, Bytes
<1>3. CASE HostSetup \/ HostReceives \/ HostStatus \/ HostStalled
  <2>1. UNCHANGED <<pc, request, chipVars, localVars, spiflash_buffer, sent, done, stale, torn>>
    BY <1>3 DEF HostSetup, HostReceives, HostStatus, HostStalled, Execute
  <2>2. Settled' = Settled
    BY <1>1, <2>1, SettledFacts
  <2>3. Locked' <=> Locked
    BY <2>1 DEF Locked
  <2> QED
    BY <2>1, <2>2, <2>3, Unseen
<1> QED
  BY <1>2, <1>3 DEF HostAnswers

\* The chip ends a command, a packet is copied, the driver waits, a read takes
\* effect.
LEMMA QuietRefines ==
  ASSUME FlashInv, ChipFinishes \/ TakeSetup \/ Identify \/ WriteEnable \/ Read, ~stale', ~torn'
  PROVE  Store!Effect \/ UNCHANGED Store!vars
<1>1. TypeOK /\ OnCourse /\ OwnData /\ Settled' = Settled
  BY SettledFacts DEF FlashInv, ChipFinishes, TakeSetup, Identify, WriteEnable, Read, ReadFrame
<1>2. CASE ChipFinishes
  <2>1. Locked' <=> Locked
    BY <1>2 DEF ChipFinishes, Locked
  <2> QED
    BY <1>1, <1>2, <2>1, Unseen DEF ChipFinishes
<1>3. CASE Identify \/ WriteEnable
  <2>1. /\ UNCHANGED <<request, sent, done, stale, torn, localVars, spiflash_buffer, flash, protected, op>>
        /\ Carrying' <=> Carrying
    BY <1>3 DEF Identify, WriteEnable
  <2>2. Locked' <=> Locked
    BY <2>1 DEF Locked
  <2> QED
    BY <1>1, <2>1, <2>2, Unseen
<1>4. CASE Read
  <2>1. /\ pc = "read" /\ pc' = "idle" /\ ~done /\ done' = TRUE /\ request.kind = "read"
        /\ UNCHANGED <<request, sent, stale, torn, protected, op>>
    BY <1>1, <1>4 DEF Read, ReadFrame, OnCourse, OwnData
  <2>2. Content' = Content
    BY <1>1, <2>1, Mapping
  <2>3. Locked' = Locked
    BY <2>1 DEF Locked
  <2>4. Locked' = (Locked /\ request.kind # "clear")
    BY <2>1, <2>3 DEF Locked
  <2> QED
    BY <2>1, <2>2, <2>4 DEF Store!Effect
<1>5. CASE TakeSetup
  <2>1. ~Carrying /\ ~Carrying' /\ UNCHANGED <<request, sent, done, stale, torn, protected, op>>
    BY <1>5 DEF TakeSetup, CopySetup
  <2>2. Locked' <=> Locked
    BY <2>1 DEF Locked
  <2> QED
    BY <1>1, <2>1, <2>2, Unseen
<1> QED
  BY <1>2, <1>3, <1>4, <1>5

\* The SETUP stage: a packet is a call; an erase and a clear take effect.
LEMMA SetupRefines ==
  ASSUME FlashInv, Setup \/ SetupStage, ~stale', ~torn'
  PROVE  Store!Call \/ Store!Effect \/ UNCHANGED Store!vars
<1>1. TypeOK /\ OnCourse /\ Settled' = Settled /\ ~Carrying
  BY SettledFacts DEF FlashInv, Setup, SetupStage
<1>2. UNCHANGED <<protected, op, flash>>
  BY DEF Setup, SetupStage
<1>3. CASE Setup
  <2>1. Content' = Content
    BY <1>1, <1>3, Mapping DEF Setup
  <2>2. Locked' = Locked
    BY <1>1, <1>2, <1>3 DEF Setup, Locked
  <2>3. (stale' \/ torn') = FALSE
    OBVIOUS
  <2>4. request' \in Requests /\ sent' = <<>> /\ done' = FALSE
    <3>1. FlashInv'
      BY <1>3, SetupPreserves
    <3> QED
      BY <1>3, <3>1 DEF Setup, FlashInv, OwnPacket
  <2> QED
    BY <2>1, <2>2, <2>3, <2>4 DEF Store!Call
<1>4. CASE SetupStage
  <2>1. UNCHANGED <<request, sent, stale, torn, spiflash_buffer, localVars>> /\ ~done
    BY <1>4 DEF FlashInv, SetupStage, OwnData
  <2>2. CASE request.kind = "erase" /\ pc' = "identify" /\ done' = TRUE
    <3>1. Locked' = Locked
      BY <1>1, <1>2, <2>1, <2>2 DEF Locked
    <3>2. Content = Settled
      BY <1>1, Mapping
    <3>3. Content' = IF Locked THEN Content ELSE Blank
      BY <1>1, <2>1, <2>2, <3>1, <3>2 DEF Content
    <3>4. Locked' = (Locked /\ request.kind # "clear")
      BY <2>2, <3>1 DEF Locked
    <3> QED
      BY <2>1, <2>2, <3>3, <3>4 DEF Store!Effect, Blank
  <2>3. CASE request.kind = "clear" /\ pc' = "enable" /\ done' = TRUE
    <3>1. ~Locked'
      BY <2>1, <2>3 DEF Locked
    <3>2. Content' = Content
      BY <1>1, <2>1, <2>3, Mapping DEF Content
    <3>3. Locked' = (Locked /\ request.kind # "clear")
      BY <2>3, <3>1 DEF Locked
    <3> QED
      BY <2>1, <2>3, <3>2, <3>3 DEF Store!Effect
  <2>4. CASE pc' \in {"prepare", "read", "idle"} /\ done' = done
    <3>1. Locked' <=> Locked
      BY <1>1, <1>2, <2>1, <2>4 DEF Locked
    <3> QED
      BY <1>1, <2>1, <2>4, <3>1, Unseen
  <2> QED
    BY <1>4, <2>2, <2>3, <2>4
    DEF SetupStage, SetupWrite, SetupRead, SetupErase, SetupClear, SetupRefused
<1> QED
  BY <1>3, <1>4

\* The DATA stage: a write takes effect, with the data that came.
LEMMA DataRefines ==
  ASSUME FlashInv, NEW ep \in {"out", "in"}, DataStage(ep), ~stale', ~torn'
  PROVE  Store!Effect \/ UNCHANGED Store!vars
<1>1. TypeOK /\ OwnPacket /\ OwnData /\ Settled' = Settled /\ pc = "idle"
  BY SettledFacts DEF FlashInv, DataStage
<1>2. UNCHANGED <<request, sent, stale, torn, spiflash_buffer, protected, op, flash>>
  <2>1. setup[ep] = Packet(request) /\ request \in Requests
    BY <1>1 DEF OwnPacket, Copying, DataStage
  <2> QED
    BY <2>1, AskedPacket DEF DataStage
<1>3. CASE /\ ep = "out" /\ request.kind = "write" /\ Accepted /\ pc' = "identify" /\ done' = TRUE
           /\ addr' = request.addr /\ len' = request.len /\ at' = 1
  <2>1. /\ ~done /\ Len(sent) = request.len
        /\ \A i \in 1 .. request.len : spiflash_buffer[i] = sent[i]
    BY <1>1, <1>3 DEF OwnData, DataStage
  <2>2. Locked' = Locked
    BY <1>1, <1>2, <1>3 DEF Locked
  <2>3. Content = Settled
    BY <1>1, Mapping
  <2>4. ASSUME NEW c \in Cells, c \in request.addr .. request.addr + request.len - 1
        PROVE  spiflash_buffer[1 + c - request.addr] = sent[c - request.addr + 1]
    <3>1. request.addr \in Nat /\ request.len \in Nat
      BY <1>1, TypeFacts
    <3>2. c - request.addr + 1 \in 1 .. request.len /\ 1 + c - request.addr = c - request.addr + 1
      BY <2>4, <3>1
    <3> QED
      BY <2>1, <3>2
  <2>5. Content' = IF Locked THEN Content ELSE Store!Written
    <3>1. CASE Locked
      BY <1>1, <1>2, <1>3, <2>2, <2>3, <3>1 DEF Content
    <3>2. CASE ~Locked
      <4>1. Content' = [c \in Cells |->
                          IF c \in request.addr .. request.addr + request.len - 1
                          THEN Settled[c] \cap spiflash_buffer[1 + c - request.addr] ELSE Settled[c]]
        BY <1>1, <1>2, <1>3, <2>2, <3>2 DEF Content
      <4> QED
        BY <2>3, <2>4, <3>2, <4>1 DEF Store!Written
    <3> QED
      BY <3>1, <3>2
  <2>6. Locked' = (Locked /\ request.kind # "clear")
    BY <1>3, <2>2 DEF Locked
  <2> QED
    BY <1>2, <1>3, <2>1, <2>5, <2>6 DEF Store!Effect
<1>4. CASE pc' = pc /\ done' = done
  <2>1. Locked' <=> Locked
    BY <1>2, <1>4 DEF Locked
  <2> QED
    BY <1>1, <1>2, <1>4, <2>1, Unseen
<1> QED
  <2>1. \/ /\ setup[ep].direction = ep /\ setup[ep].kind = "write" /\ Acceptable(setup[ep])
           /\ pc' = "identify" /\ done' = TRUE
           /\ addr' = setup[ep].addr /\ len' = setup[ep].len /\ at' = 1
        \/ pc' = pc /\ done' = done
    BY DEF DataStage
  <2>2. /\ setup[ep].direction = Direction(request.kind) /\ setup[ep].kind = request.kind
        /\ setup[ep].addr = request.addr /\ setup[ep].len = request.len
    BY <1>1 DEF OwnPacket, Copying, DataStage, Packet
  <2>3. Acceptable(setup[ep]) <=> Accepted
    BY <2>2 DEF Accepted, Acceptable
  <2>4. setup[ep].direction = ep /\ setup[ep].kind = "write" => ep = "out"
    BY <2>2 DEF Direction
  <2> QED
    BY <1>3, <1>4, <2>1, <2>2, <2>3, <2>4

\* A chunk of a write, an erase or a clear is sent: what is left of the request
\* is now what the chip is at, and the store does not see it.
LEMMA CommandRefines ==
  ASSUME FlashInv, SendCommand, ~stale', ~torn'
  PROVE  UNCHANGED Store!vars
<1>1. TypeOK /\ OnCourse /\ pc = "enabled" /\ Carrying /\ op = Ready /\ wel /\ Settled = flash
  BY SettledFacts DEF FlashInv, SendCommand, OnCourse
<1>2. UNCHANGED <<request, sent, done, stale, torn, spiflash_buffer, protected, flash>>
  BY DEF SendCommand, ProgramChunk, EraseOrClear, Command
<1>3. Locked <=> protected /\ request.kind # "clear"
  BY <1>1 DEF Locked
<1>4. CASE EraseOrClear
  <2>1. /\ request.kind \in {"erase", "clear"} /\ pc' = "idle"
        /\ op' = IF protected => request.kind = "clear" THEN [kind |-> request.kind] ELSE op
    BY <1>1, <1>4 DEF EraseOrClear, Command
  <2>2. Settled' = IF op'.kind = "erase" THEN Blank ELSE flash
    BY <1>1, <1>2, <2>1 DEF Settled
  <2>3. Content' = Settled' /\ (Locked' <=> protected /\ op'.kind # "clear")
    BY <1>2, <2>1, Mapping
  <2>4. Locked' <=> Locked
    BY <1>1, <1>3, <2>1, <2>3
  <2>5. Content = IF ~Locked /\ request.kind = "erase" THEN Blank ELSE flash
    BY <1>1, <2>1 DEF Content
  <2>6. op'.kind = "erase" <=> ~Locked /\ request.kind = "erase"
    BY <1>1, <1>3, <2>1
  <2>7. Content' = Content
    BY <2>2, <2>3, <2>5, <2>6
  <2>8. Locked' = Locked
    BY <2>4 DEF Locked
  <2> QED
    BY <1>2, <2>7, <2>8 DEF Store!vars
<1>5. CASE ProgramChunk
  <2> DEFINE n == Chunk
             d == SubSeq(spiflash_buffer, at, at + n - 1)
  <2>1. /\ request.kind = "write" /\ addr' = addr + n /\ len' = len - n /\ at' = at + n
        /\ op' = IF ~protected THEN [kind |-> "program", addr |-> addr, data |-> d] ELSE op
        /\ pc' = "enable" \/ (n = len /\ pc' = "idle")
    BY <1>1, <1>5, WriteFacts DEF ProgramChunk, Command, FlashInv
  <2>2. /\ Locked <=> protected
        /\ Locked' <=> protected
    BY <1>1, <1>2, <2>1 DEF Locked
  <2>3. Locked' = Locked
    BY <2>2 DEF Locked
  <2>4. CASE protected
    <3>1. Settled' = flash
      BY <1>1, <1>2, <2>1, <2>4 DEF Settled
    <3> QED
      BY <1>1, <1>2, <2>2, <2>3, <2>4, <3>1 DEF Content, Store!vars
  <2>5. CASE ~protected
    <3>1. /\ addr \in Nat /\ len \in Nat /\ at \in Nat \ {0} /\ n \in Nat /\ n <= len
          /\ PageLen \in Nat /\ (addr % PageLen) + n <= PageLen /\ at + n - 1 <= PageLen
          /\ flash \in [Cells -> Bytes] /\ spiflash_buffer \in [1 .. PageLen -> Bytes]
      BY <1>1, <2>1, TypeFacts, WriteFacts, ChunkFacts
    <3>2. d \in Seq(Bytes) /\ DOMAIN d = 1 .. n /\ \A j \in 1 .. n : d[j] = spiflash_buffer[at + j - 1]
      BY <3>1, BufferParts
    <3> HIDE DEF n, d
    <3>3. Settled' = Programmed(flash, addr, d)
      BY <1>2, <2>1, <2>5 DEF Settled, Programmed
    <3>4. Content = [c \in Cells |-> IF c \in addr .. addr + len - 1
                                     THEN flash[c] \cap spiflash_buffer[at + c - addr] ELSE flash[c]]
      BY <1>1, <2>1, <2>2, <2>5 DEF Content
    <3>5. ASSUME NEW c \in Cells
          PROVE  Settled'[c] = IF c \in addr .. addr + n - 1
                               THEN flash[c] \cap spiflash_buffer[at + c - addr] ELSE flash[c]
      <4>1. /\ c \in addr .. addr + n - 1 => Programmed(flash, addr, d)[c] = flash[c] \cap d[c - addr + 1]
            /\ c \notin addr .. addr + n - 1 => Programmed(flash, addr, d)[c] = flash[c]
        <5>1. addr \in Nat /\ n \in Nat /\ flash \in [Cells -> Bytes]
          BY <3>1
        <5>2. d \in Seq(Bytes) /\ DOMAIN d = 1 .. n /\ (addr % PageLen) + n <= PageLen
          BY <3>1, <3>2
        <5> QED
          BY <5>1, <5>2, ProgramEffect
      <4>2. ASSUME c \in addr .. addr + n - 1
            PROVE  d[c - addr + 1] = spiflash_buffer[at + c - addr]
        <5>1. c - addr + 1 \in 1 .. n /\ at + (c - addr + 1) - 1 = at + c - addr
          BY <3>1, <4>2
        <5> QED
          BY <3>2, <5>1
      <4> QED
        BY <3>3, <4>1, <4>2
    <3>6. Settled' \in [Cells -> Bytes] /\ Settled' = [c \in Cells |-> Settled'[c]]
      BY <3>1, <3>3 DEF Programmed, Bytes
    <3>7. CASE pc' = "idle"
      <4>1. Content' = Settled' /\ n = len
        BY <2>1, <3>7, Mapping
      <4> QED
        BY <1>2, <2>3, <3>4, <3>5, <3>6, <4>1 DEF Store!vars
    <3>8. CASE pc' = "enable"
      <4>1. Content' = [c \in Cells |->
                          IF c \in addr' .. addr' + len' - 1
                          THEN Settled'[c] \cap spiflash_buffer[at' + c - addr'] ELSE Settled'[c]]
        BY <1>2, <2>1, <2>2, <2>5, <3>8 DEF Content
      <4>2. ASSUME NEW c \in Cells
            PROVE  Content'[c] = Content[c]
        <5>1. c \in Nat
          BY <3>1, TypeFacts DEF Cells
        <5>2. /\ addr' = addr + n /\ addr' + len' - 1 = addr + len - 1
              /\ at' + c - addr' = at + c - addr
          BY <2>1, <3>1, <5>1
        <5>3. CASE c \in addr .. addr + n - 1
          <6>1. c \notin addr' .. addr' + len' - 1 /\ c \in addr .. addr + len - 1
            BY <3>1, <5>1, <5>2, <5>3
          <6> QED
            BY <3>4, <3>5, <4>1, <5>3, <6>1
        <5>4. CASE c \notin addr .. addr + n - 1
          <6>1. c \in addr' .. addr' + len' - 1 <=> c \in addr .. addr + len - 1
            BY <3>1, <5>1, <5>2, <5>4
          <6>2. Settled'[c] = flash[c]
            BY <3>5, <5>4
          <6>3. Content'[c] = IF c \in addr' .. addr' + len' - 1
                              THEN flash[c] \cap spiflash_buffer[at + c - addr] ELSE flash[c]
            BY <4>1, <5>2, <6>2
          <6>4. Content[c] = IF c \in addr .. addr + len - 1
                             THEN flash[c] \cap spiflash_buffer[at + c - addr] ELSE flash[c]
            BY <3>4
          <6> QED
            BY <6>1, <6>3, <6>4
        <5> QED
          BY <5>3, <5>4
      <4>3. Content' = Content
        BY <3>4, <4>1, <4>2
      <4> QED
        BY <1>2, <2>3, <4>3 DEF Store!vars
    <3> QED
      BY <2>1, <3>7, <3>8
  <2> QED
    BY <2>4, <2>5
<1> QED
  BY <1>4, <1>5 DEF SendCommand

\* The initial states map to initial states.
LEMMA InitRefines == Init => Store!Init
<1> SUFFICES ASSUME Init PROVE Store!Init
  OBVIOUS
<1>1. /\ request \in Requests /\ sent = <<>> /\ done = TRUE /\ (stale \/ torn) = FALSE
      /\ flash \in [Cells -> Bytes] /\ protected \in BOOLEAN /\ op = Ready /\ ~Carrying
  BY FlashAssumption DEF Init
<1>2. Content = flash
  BY <1>1 DEF Content, Settled
<1>3. Locked \in BOOLEAN
  BY DEF Locked
<1> QED
  BY <1>1, <1>2, <1>3 DEF Store!Init, Bytes

\* Every step maps to a step of the store, or to none.
LEMMA NextRefines ==
  FlashInv /\ [Next]_vars
    => [(stale' \/ torn') \/ Store!Call \/ Store!Send \/ Store!Effect]_(Store!vars)
<1> SUFFICES ASSUME FlashInv, [Next]_vars, ~stale', ~torn'
             PROVE  Store!Call \/ Store!Send \/ Store!Effect \/ UNCHANGED Store!vars
  OBVIOUS
<1>1. CASE HostSetup \/ HostAnswers
  BY <1>1, HostRefines
<1>2. CASE ChipFinishes \/ TakeSetup \/ Identify \/ WriteEnable \/ Read
  BY <1>2, QuietRefines
<1>3. CASE Setup \/ SetupStage
  BY <1>3, SetupRefines
<1>4. CASE DataStage("out") \/ DataStage("in")
  BY <1>4, DataRefines
<1>5. CASE SendCommand
  BY <1>5, CommandRefines
<1>6. CASE UNCHANGED vars
  <2>1. Settled' = Settled
    BY <1>6, SettledFacts DEF FlashInv
  <2>2. Locked' <=> Locked
    BY <1>6 DEF Locked
  <2> QED
    BY <1>6, <2>1, <2>2, Unseen
<1> QED
  BY <1>1, <1>2, <1>3, <1>4, <1>5, <1>6 DEF Next, IsrNext

\* SpiFlash implements FlashStore: each request takes effect at once, at most
\* one time and with its own data, however the driver cuts it into pages and
\* however late the chip is done (usb_api_spiflash.c, w25q80bv.c). Of a request
\* whose packet was torn, or handled before an older completion, nothing is
\* promised; the next one is again what FlashStore says.
THEOREM FlashRefinement == Spec => ImplementsStore
BY InitRefines, NextRefines, FlashInvariance, PTL DEF Spec, ImplementsStore, Store!Spec

=============================================================================
