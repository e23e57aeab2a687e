-------------------------- MODULE UsbControlProofs --------------------------
(***************************************************************************)
(* ControlInv is an inductive invariant of UsbControl, for queues of every   *)
(* size and any number of requests and resets; a host that lets its         *)
(* requests end is served with their own answers, and a handler never waits *)
(* for a free transfer.  First the part of the invariant about requests,     *)
(* with what the actions do to one queue, then the part about the room in   *)
(* the queues, one step per action each, then the properties.               *)
(***************************************************************************)
EXTENDS UsbControl, TLAPS, SequenceTheorems

USE DEF hostVars, hwVars, isrVars, vars

-----------------------------------------------------------------------------
(* Queues *)

\* A queue to which a transfer is appended.
LEMMA AppendedQueue ==
  ASSUME NEW q \in Seq(Transfer), NEW t \in Transfer, t.status = "active"
  PROVE  /\ Append(q, t) \in Seq(Transfer)
         /\ PendingOf(Append(q, t)) \subseteq PendingOf(q) \cup {t}
         /\ FinishedFirst(q) => FinishedFirst(Append(q, t))
         /\ \A i \in DOMAIN q : Append(q, t)[i] = q[i]
<1>1. /\ Append(q, t) \in Seq(Transfer) /\ Len(Append(q, t)) = Len(q) + 1
      /\ \A i \in 1 .. Len(q) : Append(q, t)[i] = q[i]
      /\ Append(q, t)[Len(q) + 1] = t
  BY AppendProperties
<1>2. Len(q) \in Nat /\ DOMAIN q = 1 .. Len(q)
  BY LenProperties
<1>3. PendingOf(Append(q, t)) \subseteq PendingOf(q) \cup {t}
  BY <1>1, <1>2 DEF PendingOf
<1>4. FinishedFirst(q) => FinishedFirst(Append(q, t))
  BY <1>1, <1>2 DEF FinishedFirst
<1> QED
  BY <1>1, <1>2, <1>3, <1>4

\* A queue of which the first active transfer is carried out.
LEMMA ExecutedQueue ==
  ASSUME NEW q \in Seq(Transfer), NEW k \in DOMAIN q, Active(q[k]),
         \A j \in 1 .. k - 1 : ~Active(q[j])
  PROVE  /\ [q EXCEPT ![k].status = "done"] \in Seq(Transfer)
         /\ PendingOf([q EXCEPT ![k].status = "done"]) \subseteq PendingOf(q)
         /\ FinishedFirst(q) => FinishedFirst([q EXCEPT ![k].status = "done"])
         /\ \A i \in DOMAIN q : i # k => [q EXCEPT ![k].status = "done"][i] = q[i]
<1> DEFINE t == [q[k] EXCEPT !.status = "done"]
           r == [q EXCEPT ![k] = t]
<1>1. DOMAIN q = 1 .. Len(q) /\ Len(q) \in Nat
  BY LenProperties
<1>2. q[k] \in Transfer
  BY <1>1, ElementOfSeq
<1>3. t \in Transfer /\ ~Active(t)
  BY <1>2 DEF Transfer, Active
<1>4. /\ r \in Seq(Transfer) /\ Len(r) = Len(q)
      /\ \A i \in 1 .. Len(q) : r[i] = IF i = k THEN t ELSE q[i]
  BY <1>1, <1>3, ExceptSeq
<1>5. r = [q EXCEPT ![k].status = "done"]
  OBVIOUS
<1>6. PendingOf(r) \subseteq PendingOf(q)
  BY <1>3, <1>4 DEF PendingOf
<1>7. FinishedFirst(q) => FinishedFirst(r)
  BY <1>1, <1>3, <1>4 DEF FinishedFirst
<1>8. \A i \in DOMAIN q : i # k => r[i] = q[i]
  BY <1>1, <1>4
<1> QED
  BY <1>4, <1>5, <1>6, <1>7, <1>8

\* A queue whose transfers a bus reset drops.
LEMMA DroppedQueue ==
  ASSUME NEW q \in Seq(Transfer)
  PROVE  /\ Dropped(q) \in Seq(Transfer) /\ PendingOf(Dropped(q)) = {}
         /\ FinishedFirst(Dropped(q))
         /\ \A i \in DOMAIN q : Active(q[i]) => Dropped(q)[i].status # "done"
<1>1. DOMAIN q = 1 .. Len(q) /\ Len(q) \in Nat
  BY LenProperties
<1>2. \A i \in 1 .. Len(q) : q[i] \in Transfer
  BY ElementOfSeq
<1>3. \A i \in 1 .. Len(q) : Dropped(q)[i] \in Transfer /\ ~Active(Dropped(q)[i])
  BY <1>1, <1>2 DEF Dropped, Active, Transfer
<1>4. Dropped(q) = [i \in 1 .. Len(q) |-> Dropped(q)[i]]
  BY <1>1 DEF Dropped
<1>5. Dropped(q) \in Seq(Transfer) /\ Len(Dropped(q)) = Len(q)
  BY <1>1, <1>3, <1>4, IsASeq, LenProperties
<1>6. \A i \in DOMAIN q : Active(q[i]) => Dropped(q)[i].status # "done"
  BY <1>1, <1>2 DEF Dropped, Transfer
<1> QED
  BY <1>3, <1>5, <1>6 DEF PendingOf, FinishedFirst

\* What is left of a queue without its first transfers.
LEMMA RestOfQueue ==
  ASSUME NEW q \in Seq(Transfer), NEW k \in 0 .. Len(q)
  PROVE  LET r == SubSeq(q, k + 1, Len(q))
         IN  /\ Len(q) \in Nat /\ k \in Nat /\ DOMAIN q = 1 .. Len(q)
             /\ r \in Seq(Transfer) /\ Len(r) = Len(q) - k /\ DOMAIN r = 1 .. Len(r)
             /\ \A i \in 1 .. Len(r) : r[i] = q[k + i] /\ k + i \in 1 .. Len(q)
<1> DEFINE r == SubSeq(q, k + 1, Len(q))
<1>1. Len(q) \in Nat /\ k \in Nat /\ DOMAIN q = 1 .. Len(q)
  BY LenProperties
<1>2. /\ r \in Seq(Transfer) /\ Len(r) = Len(q) - k
      /\ \A i \in 1 .. Len(r) : r[i] = q[k + i]
  <2>1. \A i \in k + 1 .. Len(q) : q[i] \in Transfer
    BY <1>1, ElementOfSeq
  <2> QED
    BY <1>1, <2>1, SubSeqProperties
<1>3. \A i \in 1 .. Len(r) : k + i \in 1 .. Len(q)
  <2> HIDE DEF r
  <2> QED
    BY <1>1, <1>2
<1>4. DOMAIN r = 1 .. Len(r)
  BY <1>2, LenProperties
<1> QED
  BY <1>1, <1>2, <1>3, <1>4

\* A queue of which the first transfers, finished ones, are freed: one that
\* waits moves up, and what takes its place is not a finished one.
LEMMA ReapedQueue ==
  ASSUME NEW q \in Seq(Transfer), NEW k \in 0 .. Len(q),
         \A i \in 1 .. k : q[i].status = "done", FinishedFirst(q)
  PROVE  LET r == SubSeq(q, k + 1, Len(q))
         IN  /\ r \in Seq(Transfer) /\ PendingOf(r) \subseteq PendingOf(q)
             /\ FinishedFirst(r)
             /\ \A i \in DOMAIN q \cap DOMAIN r : Active(q[i]) => r[i].status # "done"
<1> DEFINE r == SubSeq(q, k + 1, Len(q))
<1>1. /\ Len(q) \in Nat /\ k \in Nat /\ DOMAIN q = 1 .. Len(q)
      /\ r \in Seq(Transfer) /\ Len(r) = Len(q) - k /\ DOMAIN r = 1 .. Len(r)
      /\ \A i \in 1 .. Len(r) : r[i] = q[k + i] /\ k + i \in 1 .. Len(q)
  BY RestOfQueue
<1> HIDE DEF r
<1>2. PendingOf(r) \subseteq PendingOf(q)
  BY <1>1 DEF PendingOf
<1>3. FinishedFirst(r)
  <2> SUFFICES ASSUME NEW i \in 1 .. Len(r), NEW j \in 1 .. Len(r), i < j, r[j].status = "done"
               PROVE  ~Active(r[i])
    BY DEF FinishedFirst
  <2>1. k + i \in 1 .. Len(q) /\ k + j \in 1 .. Len(q) /\ k + i < k + j
    BY <1>1
  <2> QED
    BY <1>1, <2>1 DEF FinishedFirst
<1>4. ASSUME NEW i \in DOMAIN q \cap DOMAIN r, Active(q[i])
      PROVE  r[i].status # "done"
  <2>1. i \in 1 .. Len(q) /\ k + i \in 1 .. Len(q) /\ r[i] = q[k + i]
    BY <1>1
  <2>2. CASE k = 0
    BY <1>1, <1>4, <2>1, <2>2 DEF Active
  <2>3. CASE k > 0
    <3>1. i < k + i
      BY <1>1, <2>1, <2>3
    <3> QED
      BY <1>4, <2>1, <3>1 DEF FinishedFirst
  <2> QED
    BY <1>1, <2>2, <2>3
<1> QED
  BY <1>1, <1>2, <1>3, <1>4 DEF r

\* An emptied queue.
LEMMA EmptyQueue ==
  <<>> \in Seq(Transfer) /\ PendingOf(<<>>) = {} /\ FinishedFirst(<<>>)
BY EmptySeq DEF PendingOf, FinishedFirst

-----------------------------------------------------------------------------
(* The invariant *)

\* What the steps use of the types.
LEMMA TypeFacts ==
  ASSUME TypeOK
  PROVE  /\ Eps = {"out", "in"} /\ DOMAIN queue = Eps /\ DOMAIN setup = Eps
         /\ \A ep \in Eps : queue[ep] \in Seq(Transfer)
         /\ host.request \in Requests /\ setup_buffer.request \in Requests
         /\ \A ep \in Eps : setup[ep].request \in Requests
         /\ \A r \in Requests : r.serial \in 0 .. MaxRequests /\ r.kind \in Kinds
         /\ \A ep \in Eps : setup[ep].request.serial \in Nat
         /\ host.request.serial \in Nat
         /\ \A ep \in Eps : \A t \in Pending(ep) : t.serial \in Nat
<1>1. \A ep \in Eps : queue[ep] \in Seq(Transfer)
  BY DEF TypeOK
<1>2. \A ep \in Eps : \A i \in 1 .. Len(queue[ep]) : queue[ep][i] \in Transfer
  BY <1>1, ElementOfSeq
<1>3. \A ep \in Eps : \A t \in Pending(ep) : t.serial \in Nat
  BY <1>2, ControlAssumption DEF Pending, PendingOf, Transfer
<1> QED
  BY <1>1, <1>3, ControlAssumption DEF TypeOK, Eps, Setups, Requests

\* Init establishes the invariant.
LEMMA InitRequests == Init => RequestInv
<1> SUFFICES ASSUME Init PROVE RequestInv
  OBVIOUS
<1>1. NoRequest \in Requests /\ NoRequest.serial = 0
  BY ControlAssumption DEF NoRequest, Requests, Kinds
<1>2. TypeOK
  <2>1. queue \in [Eps -> Seq(Transfer)]
    BY EmptySeq DEF Init
  <2>2. setup_buffer \in Setups /\ setup \in [Eps -> Setups]
    BY <1>1 DEF Init, Setups, Eps
  <2>3. resets \in 0 .. MaxResets
    BY ControlAssumption DEF Init
  <2>4. host \in [request : Requests, stage : {"idle", "data", "status"}] /\ pc \in Places
    BY <1>1 DEF Init, Places
  <2>5. complete \in [Eps -> BOOLEAN]
    BY DEF Init
  <2>6. /\ setup_stat \in BOOLEAN /\ stalled \in BOOLEAN /\ ui \in BOOLEAN /\ uri \in BOOLEAN
        /\ resetting \in BOOLEAN /\ aborted \in BOOLEAN
    BY DEF Init
  <2>7. seen \subseteq Eps /\ acted \subseteq Requests /\ arrived \subseteq Requests
    BY DEF Init
  <2> QED
    BY <2>1, <2>2, <2>3, <2>4, <2>5, <2>6, <2>7 DEF TypeOK
<1>3. \A ep \in Eps : Pending(ep) = {} /\ FinishedFirst(queue[ep])
  BY EmptyQueue DEF Init, Pending
<1>4. Copied
  BY <1>1, <1>3 DEF Init, Copied, Eps
<1>5. NothingOlder /\ ActedFirst /\ InOrder
  BY <1>3 DEF Init, NothingOlder, ActedFirst, InOrder, Eps
<1>6. Undisturbed /\ NoEventForgotten
  BY DEF Init, Undisturbed, NoEventForgotten, Eps
<1> QED
  BY <1>2, <1>4, <1>5, <1>6 DEF RequestInv

\* A new SETUP packet
LEMMA SetupSentPreserves ==
  ASSUME RequestInv, NEW kind \in Kinds, HostSetup(kind)
  PROVE  RequestInv'
<1> USE TypeFacts, ControlAssumption DEF RequestInv
<1> DEFINE request == [serial |-> host.request.serial + 1, kind |-> kind]
<1>1. host.request.serial \in 0 .. MaxRequests /\ host.request.serial < MaxRequests
  BY DEF HostSetup
<1>2. TypeOK'
  <2>1. request \in Requests
    BY <1>1 DEF Requests
  <2>2. host' \in [request : Requests, stage : {"idle", "data", "status"}]
    BY <2>1 DEF HostSetup
  <2>3. setup_buffer' \in Setups
    BY <2>1 DEF HostSetup, Setups, Direction, Eps
  <2>4. aborted' \in BOOLEAN
    BY DEF HostSetup
  <2> QED
    BY <2>2, <2>3, <2>4 DEF HostSetup, TypeOK
<1>3. /\ host'.request.serial = host.request.serial + 1 /\ host'.stage # "idle"
      /\ setup_buffer'.request = host'.request
  BY DEF HostSetup
<1>4. UNCHANGED <<queue, setup, pc, acted, uri, resetting>> /\ setup_stat'
  BY DEF HostSetup
<1>5. Copied' /\ ActedFirst'
  BY <1>1, <1>3, <1>4 DEF Copied, ActedFirst, Pending
<1>6. Undisturbed'
  <2>1. ~aborted' => host.stage = "idle" /\ ~uri /\ ~resetting /\ ~aborted
    BY DEF HostSetup
  <2>2. ~aborted' => pc \notin {"copy_in", "copy_in_rest", "clear_setup"}
    BY <2>1 DEF Undisturbed
  <2>3. pc = "idle" => ~resetting
    BY DEF Undisturbed
  <2> QED
    BY <1>3, <1>4, <2>1, <2>2, <2>3 DEF Undisturbed
<1>7. NothingOlder' /\ InOrder' /\ NoEventForgotten'
  BY <1>4 DEF HostSetup, NothingOlder, InOrder, NoEventForgotten, Pending
<1> QED
  BY <1>2, <1>5, <1>6, <1>7

\* The steps of the host that move no transfer.
LEMMA HostPreserves ==
  ASSUME RequestInv, HostStalled \/ HostReset
  PROVE  RequestInv'
<1> USE TypeFacts, ControlAssumption DEF RequestInv
<1>1. /\ host' = [host EXCEPT !.stage = "idle"]
      /\ UNCHANGED <<queue, isrVars, arrived, aborted, setup_buffer, setup_stat, complete, stalled, ui>>
  BY DEF HostStalled, HostReset
<1>0. TypeOK'
  <2>1. host' \in [request : Requests, stage : {"idle", "data", "status"}]
    BY <1>1 DEF TypeOK
  <2>2. uri' \in BOOLEAN
    BY DEF HostStalled, HostReset, TypeOK
  <2>3. resets' \in 0 .. MaxResets
    <3>1. resets \in 0 .. MaxResets /\ MaxResets \in Nat
      BY DEF TypeOK
    <3>2. resets' = resets \/ (resets < MaxResets /\ resets' = resets + 1)
      BY DEF HostStalled, HostReset
    <3> QED
      BY <3>1, <3>2
  <2> QED
    BY <1>1, <2>1, <2>2, <2>3 DEF TypeOK
<1>2. /\ host'.request = host.request /\ host'.stage = "idle" /\ (uri => uri')
      /\ UNCHANGED <<queue, setup, setup_buffer, setup_stat, pc, acted, aborted, resetting>>
  <2>1. host.request = [host EXCEPT !.stage = "idle"].request /\ [host EXCEPT !.stage = "idle"].stage = "idle"
    BY DEF TypeOK
  <2>2. uri => uri'
    BY DEF HostStalled, HostReset
  <2> QED
    BY <1>1, <2>1, <2>2
<1>3. Copied' /\ ActedFirst' /\ NothingOlder' /\ InOrder'
  BY <1>2 DEF Copied, ActedFirst, NothingOlder, InOrder, Pending
<1>4. setup_stat => uri'
  BY DEF HostStalled, HostReset, Answers
<1>5. Undisturbed'
  BY <1>2, <1>4 DEF Undisturbed
<1>6. NoEventForgotten'
  BY DEF HostStalled, HostReset, NoEventForgotten
<1> QED
  BY <1>0, <1>3, <1>5, <1>6

\* What becomes of the queues when the controller carries out a transfer.
LEMMA ExecuteQueues ==
  ASSUME RequestInv, NEW ep \in Eps, Execute(ep)
  PROVE  /\ queue' \in [Eps -> Seq(Transfer)]
         /\ \A e \in Eps : Pending(e)' \subseteq Pending(e)
         /\ InOrder'
         /\ \A e \in Eps : \A i \in DOMAIN queue[e] :
              Active(queue[e][i]) /\ queue'[e][i].status = "done" => e = ep /\ queue[e][i] \in Pending(ep)
<1> USE TypeFacts DEF RequestInv
<1>1. PICK k \in DOMAIN queue[ep] :
        /\ Active(queue[ep][k]) /\ \A j \in 1 .. k - 1 : ~Active(queue[ep][j])
        /\ queue' = [queue EXCEPT ![ep][k].status = "done"]
  BY DEF Execute
<1> DEFINE q == [queue[ep] EXCEPT ![k].status = "done"]
<1>2. queue' = [queue EXCEPT ![ep] = q]
  BY <1>1
<1>3. /\ q \in Seq(Transfer) /\ PendingOf(q) \subseteq PendingOf(queue[ep])
      /\ FinishedFirst(q)
      /\ \A i \in DOMAIN queue[ep] : i # k => q[i] = queue[ep][i]
  BY <1>1, ExecutedQueue DEF InOrder
<1>4. queue' \in [Eps -> Seq(Transfer)]
  BY <1>2, <1>3 DEF TypeOK
<1>5. \A e \in Eps : Pending(e)' \subseteq Pending(e)
  BY <1>2, <1>3 DEF Pending
<1>6. InOrder'
  BY <1>2, <1>3 DEF InOrder
<1>7. ASSUME NEW e \in Eps, NEW i \in DOMAIN queue[e],
             Active(queue[e][i]), queue'[e][i].status = "done"
      PROVE  e = ep /\ queue[e][i] \in Pending(ep)
  <2>1. e = ep
    BY <1>2, <1>7 DEF Active
  <2>2. i \in 1 .. Len(queue[ep])
    BY <2>1, LenProperties
  <2> QED
    BY <1>7, <2>1, <2>2 DEF Pending, PendingOf
<1> QED
  BY <1>4, <1>5, <1>6, <1>7

\* A transfer that the controller carries out, for a stage of a request.
LEMMA ExecutePreserves ==
  ASSUME RequestInv, NEW ep \in Eps, Execute(ep), host.stage # "idle",
         host' \in [request : Requests, stage : {"idle", "data", "status"}],
         host'.request = host.request, arrived' \subseteq Requests
  PROVE  RequestInv'
<1> USE TypeFacts DEF RequestInv
<1>1. /\ queue' \in [Eps -> Seq(Transfer)] /\ InOrder'
      /\ \A e \in Eps : Pending(e)' \subseteq Pending(e)
  BY ExecuteQueues
<1>2. TypeOK'
  BY <1>1 DEF Execute, TypeOK
<1>3. /\ pc # "flush_out" /\ ~setup_stat
      /\ UNCHANGED <<pc, setup, setup_buffer, setup_stat, acted, uri, resetting, aborted>>
  BY DEF Execute, Answers
<1>4. Copied'
  BY <1>1, <1>3 DEF Copied
<1>5. NothingOlder' /\ ActedFirst'
  BY <1>1, <1>3 DEF NothingOlder, ActedFirst
<1>6. Undisturbed'
  BY <1>3 DEF Undisturbed
<1>7. NoEventForgotten'
  BY DEF Execute, NoEventForgotten
<1> QED
  BY <1>1, <1>2, <1>4, <1>5, <1>6, <1>7

-----------------------------------------------------------------------------
(* The interrupt handler *)

\* Where a step of the handler changes no transfer: entering, copying a
\* SETUP packet, looking for completions, leaving.
LEMMA IsrQuiet ==
  ASSUME RequestInv,
         Enter \/ CheckSetup \/ CopySetup \/ ClearSetup \/ CheckComplete
           \/ Leave \/ \E ep \in Eps : ClearComplete(ep)
  PROVE  RequestInv'
<1> USE TypeFacts DEF RequestInv, Goto
<1>0. UNCHANGED <<queue, host, acted, aborted, setup_buffer>>
  BY DEF Enter, CheckSetup, CopySetup, Copy, ClearSetup, CheckComplete, Leave, ClearComplete
<1>1. /\ \A e \in Eps : Pending(e)' = Pending(e)
      /\ ActedFirst' /\ InOrder'
  BY <1>0 DEF Pending, ActedFirst, InOrder
<1>2. CASE Enter \/ CheckSetup \/ ClearSetup \/ CheckComplete \/ Leave
  <2>1. TypeOK'
    BY <1>2 DEF Enter, CheckSetup, ClearSetup, CheckComplete, Leave, TypeOK, Places
  <2>2. Copied'
    BY <1>1, <1>2 DEF Enter, CheckSetup, ClearSetup, CheckComplete, Leave, Copied
  <2>3. NothingOlder'
    BY <1>1, <1>2 DEF Enter, CheckSetup, ClearSetup, CheckComplete, Leave, NothingOlder, Flushing
  <2>4. Undisturbed'
    BY <1>2 DEF Enter, CheckSetup, ClearSetup, CheckComplete, Leave, Undisturbed
  <2>5. NoEventForgotten'
    BY <1>2 DEF Enter, CheckSetup, ClearSetup, CheckComplete, Leave, NoEventForgotten,
                ToCopy, ToLook, Eps
  <2> QED
    BY <1>1, <2>1, <2>2, <2>3, <2>4, <2>5
<1>3. CASE CopySetup
  <2>0. /\ pc \in {"copy_out", "copy_out_rest", "copy_in", "copy_in_rest"}
        /\ pc' \in {"copy_out_rest", "copy_in", "copy_in_rest", "clear_setup"}
        /\ UNCHANGED <<hostVars, hwVars, queue, resetting, seen, acted>>
    BY <1>3 DEF CopySetup, Copy
  <2>1. TypeOK'
    <3>1. setup' \in [Eps -> Setups]
      BY <1>3 DEF CopySetup, Copy, TypeOK, Setups, Eps
    <3>2. pc' \in Places
      BY <2>0 DEF Places
    <3> QED
      BY <2>0, <3>1, <3>2 DEF TypeOK
  <2>2. /\ \A ep \in Eps : setup'[ep].request \in {setup[ep].request, host.request}
        /\ pc = "copy_out_rest" => setup'["out"].request = host.request /\ pc' = "copy_in"
        /\ pc = "copy_in_rest" => setup'["in"].request = host.request /\ pc' = "clear_setup"
        /\ pc # "copy_out_rest" => setup'["out"].request = setup["out"].request
        /\ pc # "copy_in_rest" => setup'["in"].request = setup["in"].request
        /\ pc = "copy_out" => pc' = "copy_out_rest"
        /\ pc = "copy_in" => pc' = "copy_in_rest"
    BY <1>3 DEF CopySetup, Copy, Copied, TypeOK, Setups, Eps
  <2>3. Copied'
    <3>1. /\ setup_buffer' = setup_buffer /\ host' = host
          /\ \A ep \in Eps : \A t \in Pending(ep)' : t.serial <= host.request.serial
      BY <1>1, <2>0 DEF Copied
    <3>2. \A ep \in Eps :
            /\ setup'[ep].request.serial <= host.request.serial
            /\ setup'[ep].request.serial = host.request.serial => setup'[ep].request = host.request
      BY <2>2 DEF Copied
    <3>3. pc' \notin {"copy_in", "copy_in_rest"}
            => setup'["out"].request.serial <= setup'["in"].request.serial
      BY <2>0, <2>2, <3>2 DEF Copied, Eps
    <3> QED
      BY <3>1, <3>2, <3>3 DEF Copied
  <2>4. NothingOlder'
    BY <1>1, <2>0, <2>2 DEF NothingOlder, Flushing
  <2>5. Undisturbed'
    BY <2>0, <2>2 DEF Undisturbed
  <2>6. NoEventForgotten'
    BY <2>0 DEF NoEventForgotten, ToCopy, ToLook
  <2> QED
    BY <1>1, <2>1, <2>3, <2>4, <2>5, <2>6
<1>4. ASSUME NEW ep \in Eps, ClearComplete(ep)
      PROVE  RequestInv'
  <2>0. /\ pc \in {"complete_out", "complete_in"}
        /\ pc' \in {"stage_out", "stage_in", "complete_in", "check_reset"}
        /\ UNCHANGED <<hostVars, setup_buffer, setup_stat, stalled, ui, uri, queue, setup, resetting, seen, acted>>
    BY <1>4 DEF ClearComplete, CompleteAt, StageAt, AfterReap
  <2>1. TypeOK'
    <3>1. complete' \in [Eps -> BOOLEAN]
      BY <1>4 DEF ClearComplete, TypeOK
    <3>2. pc' \in Places
      BY <2>0 DEF Places
    <3> QED
      BY <2>0, <3>1, <3>2 DEF TypeOK
  <2>2. Copied' /\ NothingOlder' /\ Undisturbed'
    BY <1>1, <2>0 DEF Copied, NothingOlder, Flushing, Undisturbed
  <2>3. NoEventForgotten'
    BY <1>4 DEF ClearComplete, CompleteAt, StageAt, AfterReap, TypeOK, NoEventForgotten, ToCopy, ToLook, Eps
  <2> QED
    BY <1>1, <2>1, <2>2, <2>3
<1> QED
  BY <1>2, <1>3, <1>4

\* What a step needs that replaces queues and moves on, past the copying.
LEMMA QueuesPreserve ==
  ASSUME RequestInv, queue' \in [Eps -> Seq(Transfer)],
         pc' \in Places \ ({"idle", "flush_in"} \cup ToCopy), acted' \subseteq Requests,
         stalled' \in BOOLEAN, UNCHANGED <<hostVars, setup_buffer, setup, setup_stat, complete, ui, uri, seen>>,
         UNCHANGED resetting, NothingOlder', ActedFirst', InOrder', NoEventForgotten',
         pc \notin {"copy_in", "copy_in_rest"},
         \A ep \in Eps : \A t \in Pending(ep)' : t.serial <= host.request.serial
  PROVE  RequestInv'
<1>1. TypeOK'
  BY DEF RequestInv, TypeOK
<1>2. Copied'
  BY DEF RequestInv, Copied
<1>3. Undisturbed'
  BY DEF RequestInv, Undisturbed, ToCopy
<1> QED
  BY <1>1, <1>2, <1>3 DEF RequestInv

\* FlushControl
LEMMA FlushPreserves ==
  ASSUME RequestInv, FlushControl
  PROVE  RequestInv'
<1> USE TypeFacts DEF RequestInv, Goto, FlushControl, FlushEndpoint
<1>1. queue' \in [Eps -> Seq(Transfer)] /\ \A e \in Eps : queue'[e] \in {queue[e], <<>>}
  <2>1. \A ep \in Eps : queue' = [queue EXCEPT ![ep] = <<>>] =>
          queue' \in [Eps -> Seq(Transfer)] /\ \A e \in Eps : queue'[e] \in {queue[e], <<>>}
    BY EmptyQueue DEF TypeOK
  <2> QED
    BY <2>1 DEF Eps
<1>2. InOrder' /\ \A e \in Eps : Pending(e)' \subseteq Pending(e)
  BY <1>1, EmptyQueue DEF InOrder, Pending
<1>3. NothingOlder'
  <2>1. CASE pc = "flush_in"
    BY <2>1, EmptyQueue DEF NothingOlder, Flushing, Pending, TypeOK, Eps
  <2>2. CASE pc = "flush_out"
    <3>1. \A e \in Eps : Pending(e)' = {}
      BY <2>2, EmptyQueue DEF NothingOlder, Pending, TypeOK, Eps
    <3> QED
      BY <2>2, <3>1 DEF NothingOlder
  <2> QED
    BY <2>1, <2>2
<1>4. ActedFirst'
  BY <1>2 DEF ActedFirst
<1>5. NoEventForgotten' /\ pc' \in Places \ ({"idle", "flush_in"} \cup ToCopy)
  BY DEF NoEventForgotten, ToCopy, ToLook, Places
<1>6. \A e \in Eps : \A t \in Pending(e)' : t.serial <= host.request.serial
  BY <1>2 DEF Copied
<1> QED
  BY <1>1, <1>2, <1>3, <1>4, <1>5, <1>6, QueuesPreserve DEF TypeOK

\* Where the handler may schedule: nothing queued is of an earlier request.
Handling == pc \notin Flushing

\* Scheduling for the copied request, or for the later one of the IN copy.
LEMMA ScheduleQueues ==
  ASSUME RequestInv, Handling, NEW ep \in Eps, NEW by \in Eps, Schedule(ep, by)
  PROVE  /\ queue' \in [Eps -> Seq(Transfer)]
         /\ InOrder'
         /\ \A e \in Eps : \A t \in Pending(e)' :
              \/ t \in Pending(e)
              \/ e = ep /\ t.serial = HandledBy(by).serial
         /\ \A e \in Eps : \A t \in Pending(e)' :
              /\ t.serial >= setup["out"].request.serial
              /\ t.serial <= host.request.serial
         /\ \A e \in Eps : \A i \in DOMAIN queue[e] : queue'[e][i] = queue[e][i]
<1> USE TypeFacts DEF RequestInv
<1> DEFINE t0 == [serial |-> HandledBy(by).serial, status |-> "active"]
<1>1. t0 \in Transfer /\ t0.status = "active"
  BY DEF Transfer, HandledBy, Eps
<1>2. t0.serial >= setup["out"].request.serial /\ t0.serial <= host.request.serial
  BY DEF HandledBy, Copied, Handling, Flushing, Eps
<1> DEFINE q == Append(queue[ep], t0)
<1>3. /\ q \in Seq(Transfer) /\ FinishedFirst(q)
      /\ PendingOf(q) \subseteq PendingOf(queue[ep]) \cup {t0}
      /\ \A i \in DOMAIN queue[ep] : q[i] = queue[ep][i]
  <2>1. FinishedFirst(queue[ep])
    BY DEF InOrder
  <2> QED
    BY <1>1, <2>1, AppendedQueue
<1>4. queue' = [queue EXCEPT ![ep] = q]
  BY DEF Schedule
<1>5. queue' \in [Eps -> Seq(Transfer)] /\ InOrder'
  BY <1>3, <1>4 DEF TypeOK, InOrder
<1>6. \A e \in Eps : \A t \in Pending(e)' : t \in Pending(e) \/ (e = ep /\ t = t0)
  BY <1>3, <1>4 DEF Pending
<1>7. \A e \in Eps : \A t \in Pending(e) :
        t.serial >= setup["out"].request.serial /\ t.serial <= host.request.serial
  BY DEF NothingOlder, Copied, Handling
<1>8. \A e \in Eps : \A i \in DOMAIN queue[e] : queue'[e][i] = queue[e][i]
  BY <1>3, <1>4
<1> QED
  BY <1>2, <1>5, <1>6, <1>7, <1>8

\* SetupStage: the handler's answer to the SETUP packet
LEMMA SetupPreserves ==
  ASSUME RequestInv, SetupStage
  PROVE  RequestInv'
<1> USE TypeFacts DEF RequestInv, Goto
<1>1. /\ pc \in {"setup_stage", "setup_ack"} /\ pc' \in {"setup_ack", "check_complete"}
      /\ acted' \subseteq Requests /\ acted \subseteq acted' /\ stalled' \in BOOLEAN
      /\ UNCHANGED <<hostVars, setup_buffer, setup, setup_stat, complete, ui, uri, resetting, seen>>
  BY DEF SetupStage, HandlerFrame, SetupRead, SetupReadLate, SetupWrite, SetupCommand,
         Refuse, Act, HandledBy, TypeOK, Eps
<1>2. Handling
  BY <1>1 DEF Handling, Flushing
<1>3. /\ queue' \in [Eps -> Seq(Transfer)] /\ InOrder'
      /\ \A e \in Eps : \A t \in Pending(e)' :
           t.serial >= setup["out"].request.serial /\ t.serial <= host.request.serial
  <2>1. CASE \E ep \in Eps : Schedule(ep, "out")
    BY <1>2, <2>1, ScheduleQueues DEF Eps
  <2>2. CASE UNCHANGED queue
    BY <1>1, <1>2, <2>2 DEF NothingOlder, Copied, InOrder, Pending, Handling, TypeOK
  <2> QED
    BY <2>1, <2>2 DEF SetupStage, SetupRead, SetupReadLate, SetupWrite, SetupCommand, Refuse, Eps
<1>4. ActedFirst'
  <2> SUFFICES ASSUME NEW t \in Pending("in")', t.serial = host.request.serial,
                      Direction(host.request.kind) = "out"
               PROVE  host.request \in acted'
    BY <1>1 DEF ActedFirst
  <2>1. CASE t \in Pending("in")
    BY <1>1, <2>1 DEF ActedFirst
  <2>2. CASE Schedule("in", "out") /\ t.serial = setup["out"].request.serial
    <3>1. setup["out"].request = host.request
      BY <2>2 DEF Copied, Eps
    <3>2. host.request.kind \notin {"read", "read_late"}
      BY DEF Direction
    <3>3. queue' # [queue EXCEPT !["out"] = Append(@, [serial |-> HandledBy("out").serial, status |-> "active"])]
          \/ t \in Pending("in")
      BY DEF Pending
    <3>4. (SetupWrite \/ SetupRead \/ SetupReadLate \/ Refuse("out")) => t \in Pending("in")
      BY <3>1, <3>2, <3>3 DEF SetupRead, SetupReadLate, SetupWrite, HandledBy, Refuse, Schedule, Pending
    <3>5. SetupCommand => host.request \in acted'
      BY <3>1 DEF SetupCommand, Act, HandledBy
    <3> QED
      BY <2>1, <3>4, <3>5 DEF SetupStage
  <2>3. t \in Pending("in") \/ (Schedule("in", "out") /\ t.serial = setup["out"].request.serial)
    <3>1. CASE Schedule("in", "out")
      BY <1>2, <3>1, ScheduleQueues DEF Eps, HandledBy
    <3>2. CASE Schedule("out", "out")
      BY <1>2, <3>2, ScheduleQueues DEF Eps
    <3>3. CASE UNCHANGED queue
      BY <3>3 DEF Pending
    <3> QED
      BY <3>1, <3>2, <3>3 DEF SetupStage, SetupRead, SetupReadLate, SetupWrite, SetupCommand, Refuse
  <2> QED
    BY <2>1, <2>2, <2>3
<1>5. NothingOlder'
  BY <1>1, <1>3 DEF NothingOlder
<1>6. NoEventForgotten' /\ pc' \in Places \ ({"idle", "flush_in"} \cup ToCopy)
  BY <1>1 DEF NoEventForgotten, ToCopy, ToLook, Places
<1> QED
  BY <1>1, <1>3, <1>4, <1>5, <1>6, QueuesPreserve DEF TypeOK

\* HandleStage: a completion, handled by the copy of its endpoint
LEMMA StagePreserves ==
  ASSUME RequestInv, NEW ep \in Eps, HandleStage(ep)
  PROVE  RequestInv'
<1> USE TypeFacts DEF RequestInv, Goto
<1>1. /\ pc = StageAt(ep) /\ pc' = ReapAt(ep)
      /\ acted' \subseteq Requests /\ acted \subseteq acted' /\ stalled' \in BOOLEAN
      /\ UNCHANGED <<hostVars, setup_buffer, setup, setup_stat, complete, ui, uri, resetting, seen>>
  BY DEF HandleStage, HandlerFrame, Refuse, Act, Ignore, HandledBy, TypeOK
<1>2. Handling /\ pc' \in {"reap_out", "reap_in"}
  BY <1>1 DEF Handling, Flushing, StageAt, ReapAt
<1>3. \/ Schedule("in", ep) /\ acted' = acted \cup {setup[ep].request}
      \/ Schedule("out", ep)
      \/ UNCHANGED queue
  BY DEF HandleStage, Act, Refuse, Ignore, HandledBy
<1>4. /\ queue' \in [Eps -> Seq(Transfer)] /\ InOrder'
      /\ \A e \in Eps : \A t \in Pending(e)' :
           t.serial >= setup["out"].request.serial /\ t.serial <= host.request.serial
  <2>1. CASE \E e \in Eps : Schedule(e, ep)
    BY <1>2, <2>1, ScheduleQueues
  <2>2. CASE UNCHANGED queue
    BY <1>1, <1>2, <2>2 DEF NothingOlder, Copied, InOrder, Pending, Handling, TypeOK
  <2> QED
    BY <1>3, <2>1, <2>2 DEF Eps
<1>5. ActedFirst'
  <2> SUFFICES ASSUME NEW t \in Pending("in")', t.serial = host.request.serial,
                      Direction(host.request.kind) = "out"
               PROVE  host.request \in acted'
    BY <1>1 DEF ActedFirst
  <2>1. CASE t \in Pending("in")
    BY <1>1, <2>1 DEF ActedFirst
  <2>2. CASE Schedule("in", ep) /\ acted' = acted \cup {setup[ep].request} /\ t \notin Pending("in")
    <3>1. t.serial = setup[ep].request.serial
      BY <1>2, <2>2, ScheduleQueues DEF Eps, HandledBy
    <3> QED
      BY <2>2, <3>1 DEF Copied
  <2>3. CASE Schedule("out", ep)
    <3>1. t \in Pending("in")
      BY <1>2, <2>3, ScheduleQueues DEF Eps
    <3> QED
      BY <2>1, <3>1
  <2>4. CASE UNCHANGED queue
    <3>1. t \in Pending("in")
      BY <2>4 DEF Pending
    <3> QED
      BY <2>1, <3>1
  <2> QED
    BY <1>3, <2>1, <2>2, <2>3, <2>4
<1>6. NothingOlder'
  BY <1>1, <1>2, <1>4 DEF NothingOlder
<1>7. NoEventForgotten' /\ pc' \in Places \ ({"idle", "flush_in"} \cup ToCopy)
  BY <1>1 DEF StageAt, ReapAt, NoEventForgotten, ToCopy, ToLook, Places, Eps
<1> QED
  BY <1>1, <1>2, <1>4, <1>5, <1>6, <1>7, QueuesPreserve DEF Handling, Flushing, TypeOK

\* What becomes of the queues when the handler frees finished transfers.
LEMMA ReapQueues ==
  ASSUME RequestInv, NEW ep \in Eps, Reap(ep)
  PROVE  /\ queue' \in [Eps -> Seq(Transfer)]
         /\ \A e \in Eps : Pending(e)' \subseteq Pending(e)
         /\ InOrder'
         /\ \A e \in Eps : \A i \in DOMAIN queue[e] \cap DOMAIN queue'[e] :
              Active(queue[e][i]) => queue'[e][i].status # "done"
<1> USE TypeFacts DEF RequestInv
<1>1. PICK k \in 0 .. Len(queue[ep]) :
        /\ \A i \in 1 .. k : queue[ep][i].status = "done"
        /\ queue' = [queue EXCEPT ![ep] = SubSeq(queue[ep], k + 1, Len(queue[ep]))]
  BY DEF Reap
<1> DEFINE q == SubSeq(queue[ep], k + 1, Len(queue[ep]))
<1>2. /\ q \in Seq(Transfer) /\ PendingOf(q) \subseteq PendingOf(queue[ep])
      /\ FinishedFirst(q)
      /\ \A i \in DOMAIN queue[ep] \cap DOMAIN q : Active(queue[ep][i]) => q[i].status # "done"
  <2>1. FinishedFirst(queue[ep])
    BY DEF InOrder
  <2> QED
    BY <1>1, <2>1, ReapedQueue
<1>3. queue' = [queue EXCEPT ![ep] = q]
  BY <1>1
<1>4. queue' \in [Eps -> Seq(Transfer)] /\ InOrder'
  BY <1>2, <1>3 DEF TypeOK, InOrder
<1>5. \A e \in Eps : Pending(e)' \subseteq Pending(e)
  BY <1>2, <1>3 DEF Pending
<1>6. \A e \in Eps : \A i \in DOMAIN queue[e] \cap DOMAIN queue'[e] :
        Active(queue[e][i]) => queue'[e][i].status # "done"
  BY <1>2, <1>3 DEF Active
<1> QED
  BY <1>4, <1>5, <1>6

\* Reap: the finished transfers are freed
LEMMA ReapPreserves ==
  ASSUME RequestInv, NEW ep \in Eps, Reap(ep)
  PROVE  RequestInv'
<1> USE TypeFacts DEF RequestInv, Goto
<1>1. /\ pc = ReapAt(ep) /\ pc' = AfterReap(ep)
      /\ UNCHANGED <<hostVars, hwVars, setup, resetting, seen, acted>>
  BY DEF Reap
<1>2. Handling /\ pc' \in {"complete_in", "check_reset"}
  BY <1>1 DEF Handling, Flushing, ReapAt, AfterReap
<1>3. /\ queue' \in [Eps -> Seq(Transfer)] /\ InOrder'
      /\ \A e \in Eps : Pending(e)' \subseteq Pending(e)
  BY ReapQueues
<1>4. NothingOlder' /\ ActedFirst'
  BY <1>1, <1>2, <1>3 DEF NothingOlder, ActedFirst, Handling
<1>5. NoEventForgotten' /\ pc' \in Places \ ({"idle", "flush_in"} \cup ToCopy)
  BY <1>1 DEF ReapAt, AfterReap, NoEventForgotten, ToCopy, ToLook, Places, Eps
<1>6. \A e \in Eps : \A t \in Pending(e)' : t.serial <= host.request.serial
  BY <1>3 DEF Copied
<1> QED
  BY <1>1, <1>2, <1>3, <1>4, <1>5, <1>6, QueuesPreserve DEF Handling, Flushing, TypeOK

\* BusReset: every event and transfer is forgotten
LEMMA ResetPreserves ==
  ASSUME RequestInv, BusReset
  PROVE  /\ RequestInv'
         /\ \A e \in Eps : \A i \in DOMAIN queue[e] : Active(queue[e][i]) => queue'[e][i].status # "done"
<1> USE TypeFacts DEF RequestInv, Goto, BusReset
<1>1. \A ep \in Eps :
        /\ Dropped(queue[ep]) \in Seq(Transfer) /\ PendingOf(Dropped(queue[ep])) = {}
        /\ FinishedFirst(Dropped(queue[ep]))
        /\ \A i \in DOMAIN queue[ep] : Active(queue[ep][i]) => Dropped(queue[ep])[i].status # "done"
  BY DroppedQueue
<1>2. queue' \in [Eps -> Seq(Transfer)] /\ complete' \in [Eps -> BOOLEAN] /\ pc' \in Places
  BY <1>1 DEF Places
<1>3. TypeOK'
  BY <1>2 DEF TypeOK
<1>4. InOrder' /\ \A ep \in Eps : Pending(ep)' = {}
  BY <1>1 DEF InOrder, Pending
<1>5. Copied' /\ NothingOlder' /\ ActedFirst'
  BY <1>4 DEF Copied, NothingOlder, ActedFirst
<1>6. Undisturbed' /\ NoEventForgotten'
  BY DEF Undisturbed, NoEventForgotten, Eps
<1> QED
  BY <1>1, <1>3, <1>4, <1>5, <1>6

-----------------------------------------------------------------------------
\* Every step preserves the invariant: one case per action.
LEMMA NextRequests == RequestInv /\ [Next]_vars => RequestInv'
<1> SUFFICES ASSUME RequestInv, [Next]_vars PROVE RequestInv'
  OBVIOUS
<1>1. CASE HostData
  <2>1. Direction(host.request.kind) \in Eps /\ host.request \in Requests
    BY TypeFacts DEF RequestInv, Direction, Eps
  <2> QED
    BY <1>1, <2>1, ExecutePreserves DEF HostData, RequestInv, TypeOK
<1>2. CASE HostStatus
  <2>1. Other(Direction(host.request.kind)) \in Eps
    BY DEF Other, Direction, Eps
  <2> QED
    BY <1>2, <2>1, ExecutePreserves DEF HostStatus, RequestInv, TypeOK
<1>3. CASE HostStalled \/ HostReset
  BY <1>3, HostPreserves
<1>4. CASE \E kind \in Kinds : HostSetup(kind)
  BY <1>4, SetupSentPreserves
<1>5. CASE Enter \/ CheckSetup \/ CopySetup \/ ClearSetup \/ CheckComplete
             \/ Leave \/ \E ep \in Eps : ClearComplete(ep)
  BY <1>5, IsrQuiet
<1>6. CASE FlushControl
  BY <1>6, FlushPreserves
<1>7. CASE SetupStage
  BY <1>7, SetupPreserves
<1>8. CASE \E ep \in Eps : HandleStage(ep)
  BY <1>8, StagePreserves
<1>9. CASE \E ep \in Eps : Reap(ep)
  BY <1>9, ReapPreserves
<1>10. CASE BusReset
  BY <1>10, ResetPreserves
<1>11. CASE UNCHANGED vars
  BY <1>11 DEF RequestInv, TypeOK, Copied, NothingOlder, ActedFirst, Undisturbed, InOrder,
               NoEventForgotten, Pending
<1> QED
  BY <1>1, <1>2, <1>3, <1>4, <1>5, <1>6, <1>7, <1>8, <1>9, <1>10, <1>11
  DEF Next, IsrNext, HostNext, HostAnswers

-----------------------------------------------------------------------------
(* The room in the queues: first what the actions do to the finished        *)
(* transfers at the head of one, then one step per action.                  *)

\* There is only one number of finished transfers.
LEMMA FinishedIs ==
  ASSUME NEW q \in Seq(Transfer), NEW n \in 0 .. Len(q), CutAt(q, n)
  PROVE  Finished(q) = n
<1>1. Len(q) \in Nat
  BY LenProperties
<1>2. ASSUME NEW m \in 0 .. Len(q), CutAt(q, m)
      PROVE  m = n
  <2>1. CASE m < n
    BY <1>1, <1>2, <2>1 DEF CutAt
  <2>2. CASE n < m
    BY <1>1, <1>2, <2>2 DEF CutAt
  <2> QED
    BY <1>1, <2>1, <2>2
<1> QED
  BY <1>2 DEF Finished

\* What a queue that has one may be relied on for.
LEMMA CutFacts ==
  ASSUME NEW q \in Seq(Transfer), \E n \in 0 .. Len(q) : CutAt(q, n)
  PROVE  Len(q) \in Nat /\ Finished(q) \in 0 .. Len(q) /\ CutAt(q, Finished(q))
BY LenProperties DEF Finished

\* A queue to which a transfer is appended keeps its finished ones.
LEMMA AppendedCut ==
  ASSUME NEW q \in Seq(Transfer), NEW t \in Transfer, t.status = "active",
         NEW n \in 0 .. Len(q), CutAt(q, n)
  PROVE  /\ Len(Append(q, t)) = Len(q) + 1 /\ n \in 0 .. Len(Append(q, t))
         /\ CutAt(Append(q, t), n) /\ Finished(Append(q, t)) = n
<1>1. /\ Append(q, t) \in Seq(Transfer) /\ Len(Append(q, t)) = Len(q) + 1
      /\ \A i \in 1 .. Len(q) : Append(q, t)[i] = q[i]
      /\ Append(q, t)[Len(q) + 1] = t /\ Len(q) \in Nat
  BY AppendProperties, LenProperties
<1>2. CutAt(Append(q, t), n)
  BY <1>1 DEF CutAt
<1>3. n \in 0 .. Len(Append(q, t))
  BY <1>1
<1>4. Finished(Append(q, t)) = n
  BY <1>1, <1>2, <1>3, FinishedIs
<1> QED
  BY <1>1, <1>2, <1>3, <1>4

\* One of which the first active transfer is carried out has one more.
LEMMA ExecutedCut ==
  ASSUME NEW q \in Seq(Transfer), NEW k \in DOMAIN q, Active(q[k]),
         \A j \in 1 .. k - 1 : ~Active(q[j]), \A j \in 1 .. Len(q) : q[j].status # "dropped",
         NEW n \in 0 .. Len(q), CutAt(q, n)
  PROVE  LET r == [q EXCEPT ![k].status = "done"]
         IN  /\ Len(r) = Len(q) /\ n + 1 \in 0 .. Len(r)
             /\ CutAt(r, n + 1) /\ Finished(r) = n + 1
<1> DEFINE t == [q[k] EXCEPT !.status = "done"]
           r == [q EXCEPT ![k] = t]
<1>1. DOMAIN q = 1 .. Len(q) /\ Len(q) \in Nat
  BY LenProperties
<1>2. \A j \in 1 .. Len(q) : q[j] \in Transfer
  BY ElementOfSeq
<1>3. t \in Transfer /\ t.status = "done"
  BY <1>1, <1>2 DEF Transfer
<1>4. /\ r \in Seq(Transfer) /\ Len(r) = Len(q)
      /\ \A i \in 1 .. Len(q) : r[i] = IF i = k THEN t ELSE q[i]
  BY <1>1, <1>3, ExceptSeq
<1>5. k = n + 1
  <2>1. \A j \in 1 .. Len(q) : ~Active(q[j]) => q[j].status = "done"
    BY <1>2 DEF Transfer, Active
  <2>2. k > n
    BY <1>1 DEF CutAt, Active
  <2>3. CASE k > n + 1
    <3>1. n + 1 \in 1 .. k - 1 /\ n + 1 \in 1 .. Len(q)
      BY <1>1, <2>3
    <3>2. q[n + 1].status = "done"
      BY <2>1, <3>1
    <3> QED
      BY <1>1, <3>1, <3>2 DEF CutAt
  <2> QED
    BY <1>1, <2>2, <2>3
<1>6. CutAt(r, n + 1)
  <2> HIDE DEF r, t
  <2> QED
    BY <1>1, <1>3, <1>4, <1>5 DEF CutAt
<1>7. n + 1 \in 0 .. Len(r)
  BY <1>1, <1>4, <1>5
<1>8. Finished(r) = n + 1
  BY <1>4, <1>6, <1>7, FinishedIs
<1>9. r = [q EXCEPT ![k].status = "done"]
  OBVIOUS
<1> QED
  BY <1>4, <1>6, <1>7, <1>8, <1>9

\* One whose transfers a bus reset drops keeps its finished ones.
LEMMA DroppedCut ==
  ASSUME NEW q \in Seq(Transfer), NEW n \in 0 .. Len(q), CutAt(q, n)
  PROVE  /\ Len(Dropped(q)) = Len(q) /\ CutAt(Dropped(q), n) /\ Finished(Dropped(q)) = n
         /\ \A i \in 1 .. Len(Dropped(q)) : ~Active(Dropped(q)[i])
<1>1. DOMAIN q = 1 .. Len(q) /\ Len(q) \in Nat
  BY LenProperties
<1>2. Dropped(q) \in Seq(Transfer)
  BY DroppedQueue
<1>3. DOMAIN Dropped(q) = 1 .. Len(q)
  BY <1>1 DEF Dropped
<1>4. Len(Dropped(q)) = Len(q)
  BY <1>1, <1>2, <1>3, LenProperties
<1>5. \A i \in 1 .. Len(q) : q[i] \in Transfer
  BY ElementOfSeq
<1>6. \A i \in 1 .. Len(q) :
        ~Active(Dropped(q)[i]) /\ (Dropped(q)[i].status = "done" <=> q[i].status = "done")
  BY <1>1, <1>5 DEF Dropped, Active, Transfer
<1>7. CutAt(Dropped(q), n)
  BY <1>4, <1>6 DEF CutAt
<1> QED
  BY <1>2, <1>4, <1>6, <1>7, FinishedIs

\* One of which the finished transfers are freed has none left.
LEMMA ReapedCut ==
  ASSUME NEW q \in Seq(Transfer), NEW k \in 0 .. Len(q),
         \A i \in 1 .. k : q[i].status = "done",
         k < Len(q) => q[k + 1].status # "done",
         NEW n \in 0 .. Len(q), CutAt(q, n)
  PROVE  LET r == SubSeq(q, k + 1, Len(q))
         IN  Len(r) = Len(q) - n /\ CutAt(r, 0) /\ Finished(r) = 0
<1> DEFINE r == SubSeq(q, k + 1, Len(q))
<1>1. /\ Len(q) \in Nat /\ k \in Nat /\ r \in Seq(Transfer) /\ Len(r) = Len(q) - k
      /\ \A i \in 1 .. Len(r) : r[i] = q[k + i] /\ k + i \in 1 .. Len(q)
  BY RestOfQueue
<1> HIDE DEF r
<1>2. k = n
  <2>1. CASE k < n
    BY <1>1, <2>1 DEF CutAt
  <2>2. CASE n < k
    BY <1>1, <2>2 DEF CutAt
  <2> QED
    BY <1>1, <2>1, <2>2
<1>3. CutAt(r, 0)
  <2> SUFFICES ASSUME NEW i \in 1 .. Len(r) PROVE r[i].status # "done"
    BY <1>1 DEF CutAt
  <2>1. k + i \in 1 .. Len(q) /\ r[i] = q[k + i] /\ ~(k + i <= n)
    BY <1>1, <1>2
  <2> QED
    BY <2>1 DEF CutAt
<1>4. 0 \in 0 .. Len(r)
  BY <1>1
<1>5. Finished(r) = 0
  BY <1>1, <1>3, <1>4, FinishedIs
<1> QED
  BY <1>1, <1>2, <1>3, <1>5 DEF r

\* An empty one has none.
LEMMA EmptyCut ==
  Len(<<>>) = 0 /\ CutAt(<<>>, 0) /\ Finished(<<>>) = 0
<1>1. Len(<<>>) = 0 /\ <<>> \in Seq(Transfer)
  BY EmptySeq
<1>2. CutAt(<<>>, 0)
  BY <1>1 DEF CutAt
<1>3. 0 \in 0 .. Len(<<>>)
  BY <1>1
<1>4. Finished(<<>>) = 0
  BY <1>1, <1>2, <1>3, FinishedIs
<1> QED
  BY <1>1, <1>2, <1>4

\* A state of which the counts make sense.
Split == \A ep \in Eps : \E n \in 0 .. Len(queue[ep]) : CutAt(queue[ep], n)
CountsMakeSense ==
  TypeOK /\ Split => \A ep \in Eps :
    /\ queue[ep] \in Seq(Transfer) /\ Len(queue[ep]) \in Nat
    /\ Finished(queue[ep]) \in 0 .. Len(queue[ep])
    /\ CutAt(queue[ep], Finished(queue[ep]))
    /\ Due(ep) \in 0 .. 2 /\ Burden(ep) \in Nat /\ Load(ep) \in Nat
    /\ pc # ReapAt(ep) => Len(queue[ep]) <= Load(ep)
    /\ Burden(ep) <= Load(ep)

\* The counts of transfers that the room of a queue is computed from are numbers.
LEMMA LoadFacts == CountsMakeSense
<1> SUFFICES ASSUME TypeOK, Split, NEW ep \in Eps
             PROVE  /\ queue[ep] \in Seq(Transfer) /\ Len(queue[ep]) \in Nat
                    /\ Finished(queue[ep]) \in 0 .. Len(queue[ep])
                    /\ CutAt(queue[ep], Finished(queue[ep]))
                    /\ Due(ep) \in 0 .. 2 /\ Burden(ep) \in Nat /\ Load(ep) \in Nat
                    /\ pc # ReapAt(ep) => Len(queue[ep]) <= Load(ep)
                    /\ Burden(ep) <= Load(ep)
  BY DEF CountsMakeSense
<1>1. queue[ep] \in Seq(Transfer)
  BY DEF TypeOK
<1>2. /\ Len(queue[ep]) \in Nat /\ Finished(queue[ep]) \in 0 .. Len(queue[ep])
      /\ CutAt(queue[ep], Finished(queue[ep]))
  BY <1>1, CutFacts DEF Split
<1>3. Due(ep) \in 0 .. 2
  BY DEF Due
<1>4. Burden(ep) \in Nat
  BY <1>2, <1>3 DEF Burden
<1> QED
  BY <1>1, <1>2, <1>3, <1>4 DEF Load

\* The same after a step.
LEMMA LoadFactsNext == CountsMakeSense'
BY LoadFacts, PTL

\* Where the counts are kept: outside of the copying and flushing.
Uncounted == (ToCopy \ {"check_setup"}) \cup {"flush_in", "flush_out"}

\* What a step needs that loads no endpoint more than it was.
LEMMA LoadsKept ==
  ASSUME TypeOK, Room, TypeOK', UNCHANGED setup, pc \notin Uncounted,
         pc' \notin {"flush_out", "setup_stage", "setup_ack"},
         Split', Load("in")' <= Load("in"), Load("out")' <= Load("out")
  PROVE  Room'
<1>1. /\ Load("in") \in Nat /\ Load("out") \in Nat /\ Load("in")' \in Nat /\ Load("out")' \in Nat
  BY LoadFacts, LoadFactsNext DEF CountsMakeSense, Room, Split, Eps
<1> QED
  BY <1>1 DEF Room, Split, Uncounted

RoomInv == Lost /\ SeenStands /\ Room

\* At first the queues are empty.
LEMMA InitRoom == Init => RoomInv
<1> SUFFICES ASSUME Init PROVE RoomInv
  OBVIOUS
<1>1. \A ep \in Eps : queue[ep] = <<>> /\ complete[ep] = FALSE
  BY DEF Init
<1>2. pc = "idle" /\ seen = {}
  BY DEF Init
<1>3. \A ep \in Eps : Due(ep) = 0 /\ Burden(ep) = 0 /\ Load(ep) = 0
  BY <1>1, <1>2, EmptyCut DEF Due, Burden, Load, StageAt, ReapAt
<1>4. Split
  BY <1>1, EmptyCut DEF Split
<1>5. Room
  BY <1>2, <1>3, <1>4 DEF Room, Split, Eps
<1> QED
  BY <1>1, <1>2, <1>5, EmptyCut DEF RoomInv, Lost, SeenStands

\* Steps that change neither queues nor completions.
LEMMA QuietRoom ==
  ASSUME RequestInv, RoomInv, RequestInv', UNCHANGED <<queue, complete>>,
         \/ UNCHANGED <<pc, seen, setup>>
         \/ Enter \/ CheckSetup \/ CopySetup \/ ClearSetup \/ CheckComplete \/ Leave
  PROVE  RoomInv'
<1> USE DEF RoomInv, Goto
<1>1. Split' /\ Split
  BY DEF Split, Room
<1>2. CASE UNCHANGED <<pc, seen, setup>>
  BY <1>2 DEF Lost, SeenStands, Room, Load, Burden, Due
<1>3. CASE Enter \/ CheckSetup \/ CheckComplete \/ Leave
  <2>0. /\ pc \in {"idle", "check_setup", "check_complete", "check_reset"}
        /\ pc' \in {"check_setup", "copy_out", "check_complete", "complete_out", "check_reset", "idle"}
        /\ UNCHANGED setup
    BY <1>3 DEF Enter, CheckSetup, CheckComplete, Leave
  <2>1. \A ep \in Eps : Load(ep)' = Load(ep)
    BY <2>0 DEF Load, Burden, Due, StageAt, ReapAt
  <2>2. TypeOK /\ TypeOK' /\ pc \notin Uncounted
    BY <2>0 DEF RequestInv, Uncounted, ToCopy
  <2>3. Load("in")' <= Load("in") /\ Load("out")' <= Load("out")
    BY <1>1, <2>1, <2>2, LoadFacts DEF CountsMakeSense, Eps
  <2>4. Room'
    BY <1>1, <2>0, <2>2, <2>3, LoadsKept
  <2>5. Lost'
    BY <1>3 DEF Enter, CheckSetup, CheckComplete, Leave, Lost
  <2>6. SeenStands'
    BY <1>3, <2>0 DEF CheckComplete, Enter, CheckSetup, Leave, SeenStands
  <2> QED
    BY <2>4, <2>5, <2>6
<1>4. CASE CopySetup \/ ClearSetup
  <2>1. /\ pc' \in {"copy_out_rest", "copy_in", "copy_in_rest", "clear_setup", "flush_in"}
        /\ UNCHANGED seen
    BY <1>4 DEF CopySetup, Copy, ClearSetup
  <2>2. Room'
    BY <1>1, <2>1 DEF Room, Split, ToCopy
  <2> QED
    BY <2>1, <2>2 DEF Lost, SeenStands
<1> QED
  BY <1>2, <1>3, <1>4

\* ClearComplete: a stage that was called for is entered
LEMMA ClearRoom ==
  ASSUME RequestInv, RoomInv, RequestInv', NEW ep \in Eps, ClearComplete(ep)
  PROVE  RoomInv'
<1> USE DEF RoomInv, Goto
<1>0. /\ TypeOK /\ TypeOK' /\ pc = CompleteAt(ep) /\ pc \in {"complete_out", "complete_in"}
      /\ UNCHANGED <<queue, setup, seen>> /\ complete \in [Eps -> BOOLEAN] /\ ep \in {"out", "in"}
  BY DEF RequestInv, TypeOK, ClearComplete, CompleteAt, Eps
<1>1. Split' /\ Split
  BY <1>0 DEF Split, Room
<1>2. CASE ep \in seen
  <2>1. pc' = StageAt(ep) /\ complete[ep] /\ complete' = [complete EXCEPT ![ep] = FALSE]
    BY <1>0, <1>2 DEF ClearComplete, CompleteAt, SeenStands
  <2>2. \A e \in Eps : Due(e)' = Due(e)
    BY <1>0, <2>1 DEF Due, StageAt, CompleteAt, Eps
  <2>3. \A e \in Eps : Load(e)' = Load(e)
    BY <1>0, <2>1, <2>2 DEF Load, Burden, ReapAt, StageAt, CompleteAt, Eps
  <2>4. Load("in")' <= Load("in") /\ Load("out")' <= Load("out")
    BY <1>0, <1>1, <2>3, LoadFacts DEF CountsMakeSense, Eps
  <2>5. Room'
    BY <1>0, <1>1, <2>1, <2>4, LoadsKept DEF Uncounted, ToCopy, StageAt
  <2>6. Lost'
    BY <1>0, <1>2, <2>1 DEF Lost
  <2>7. SeenStands'
    BY <1>0, <2>1 DEF SeenStands, StageAt, CompleteAt, Eps
  <2> QED
    BY <2>5, <2>6, <2>7
<1>3. CASE ep \notin seen
  <2>1. pc' = AfterReap(ep) /\ UNCHANGED complete
    BY <1>3 DEF ClearComplete
  <2>2. \A e \in Eps : Load(e)' = Load(e)
    BY <1>0, <2>1 DEF Due, Load, Burden, ReapAt, StageAt, AfterReap
  <2>3. Load("in")' <= Load("in") /\ Load("out")' <= Load("out")
    BY <1>0, <1>1, <2>2, LoadFacts DEF CountsMakeSense, Eps
  <2>4. Room'
    BY <1>0, <1>1, <2>1, <2>3, LoadsKept DEF Uncounted, ToCopy, AfterReap
  <2>5. Lost' /\ SeenStands'
    BY <1>0, <1>3, <2>1 DEF Lost, SeenStands, AfterReap, CompleteAt, Eps
  <2> QED
    BY <2>4, <2>5
<1> QED
  BY <1>2, <1>3

\* Execute: an unfinished transfer becomes a completion
LEMMA ExecuteRoom ==
  ASSUME RequestInv, RoomInv, RequestInv', NEW ep \in Eps, Execute(ep)
  PROVE  RoomInv'
<1> USE DEF RoomInv
<1>0. /\ TypeOK /\ TypeOK' /\ UNCHANGED <<pc, seen, setup>>
      /\ complete' = [complete EXCEPT ![ep] = TRUE] /\ complete \in [Eps -> BOOLEAN]
      /\ queue \in [Eps -> Seq(Transfer)] /\ pc \notin {"flush_in", "flush_out"}
  BY DEF RequestInv, TypeOK, Execute, Answers
<1>1. PICK k \in DOMAIN queue[ep] :
        /\ Active(queue[ep][k]) /\ \A j \in 1 .. k - 1 : ~Active(queue[ep][j])
        /\ queue' = [queue EXCEPT ![ep][k].status = "done"]
  BY DEF Execute
<1> DEFINE q == [queue[ep] EXCEPT ![k].status = "done"]
<1>2. queue' = [queue EXCEPT ![ep] = q]
  BY <1>1
<1>3. k \in 1 .. Len(queue[ep])
  BY <1>0, <1>1, LenProperties
<1>4. \A e \in Eps : \A i \in 1 .. Len(queue[e]) : queue[e][i].status # "dropped"
  BY <1>1, <1>3 DEF Lost
<1>5. PICK n \in 0 .. Len(queue[ep]) : CutAt(queue[ep], n)
  BY DEF Room
<1>6. Len(q) = Len(queue[ep]) /\ n + 1 \in 0 .. Len(q) /\ CutAt(q, n + 1) /\ Finished(q) = n + 1
  <2>1. \A j \in 1 .. Len(queue[ep]) : queue[ep][j].status # "dropped"
    BY <1>4
  <2> QED
    BY <1>0, <1>1, <1>5, <2>1, ExecutedCut
<1>7. Finished(queue[ep]) = n
  BY <1>0, <1>5, FinishedIs
<1>8. Split'
  BY <1>0, <1>2, <1>6 DEF Split, Room
<1>9. Split /\ Len(queue[ep]) \in Nat /\ Due(ep) \in 0 .. 2 /\ Due(ep)' \in 0 .. 2
  BY <1>0, <1>8, LoadFacts, LoadFactsNext DEF CountsMakeSense, Split, Room
<1> HIDE DEF q
<1>10. Due(ep)' <= Due(ep) + 1
  BY <1>0 DEF Due
<1>11. /\ Len(queue[ep])' = Len(queue[ep]) /\ Finished(queue[ep])' = Finished(queue[ep]) + 1
  BY <1>0, <1>2, <1>6, <1>7
<1>12. Burden(ep)' <= Burden(ep) /\ Burden(ep) \in Nat /\ Burden(ep)' \in Nat
  <2>1. Burden(ep) \in Nat /\ Burden(ep)' \in Nat
    BY <1>0, <1>8, <1>9, LoadFacts, LoadFactsNext DEF CountsMakeSense
  <2>2. Finished(queue[ep]) \in Nat /\ Len(queue[ep]) \in Nat
    BY <1>5, <1>7, <1>9
  <2>3. Due(ep) \in 0 .. 2 /\ Due(ep)' \in 0 .. 2
    BY <1>9
  <2>4. Burden(ep)' <= Burden(ep)
    BY <1>10, <1>11, <2>2, <2>3 DEF Burden
  <2> QED
    BY <2>1, <2>4
<1>13. Load(ep)' <= Load(ep)
  BY <1>0, <1>9, <1>11, <1>12 DEF Load
<1>14. \A e \in Eps : e # ep => Load(e)' = Load(e)
  BY <1>0, <1>2 DEF Load, Burden, Due
<1>15. Load("in")' <= Load("in") /\ Load("out")' <= Load("out")
  BY <1>0, <1>9, <1>13, <1>14, LoadFacts DEF CountsMakeSense, Eps
<1>16. Lost'
  <2>1. \A i \in 1 .. Len(q) : q[i].status # "dropped"
    <3>1. \A i \in 1 .. Len(queue[ep]) : q[i] = IF i = k THEN [queue[ep][k] EXCEPT !.status = "done"]
                                                  ELSE queue[ep][i]
      BY <1>0, <1>3, LenProperties DEF q
    <3>2. queue[ep][k] \in Transfer
      BY <1>0, <1>3, ElementOfSeq
    <3> QED
      BY <1>4, <1>6, <3>1, <3>2 DEF Transfer
  <2> QED
    BY <1>0, <1>2, <1>4, <2>1 DEF Lost
<1>17. SeenStands'
  BY <1>0 DEF SeenStands, RequestInv, TypeOK
<1>18. Room'
  <2>1. queue[ep] # <<>>
    BY <1>3, EmptySeq
  <2>2. CASE pc \in Uncounted
    BY <1>0, <1>8, <2>2 DEF Room, Uncounted, ToCopy, Split
  <2>3. CASE pc \in {"setup_stage", "setup_ack"}
    <3>1. pc = "setup_ack" /\ ep = "in"
      BY <2>1, <2>3 DEF Room, Eps
    <3>2. queue'["out"] = queue["out"]
      BY <1>0, <1>2, <3>1 DEF Eps
    <3>3. Load("in") \in Nat /\ Load("out") \in Nat /\ Load("in")' \in Nat /\ Load("out")' \in Nat
      BY <1>0, <1>8, <1>9, LoadFacts, LoadFactsNext DEF CountsMakeSense, Eps
    <3> QED
      BY <1>0, <1>8, <1>15, <3>1, <3>2, <3>3 DEF Room, Split, ToCopy
  <2>4. CASE pc \notin Uncounted \cup {"setup_stage", "setup_ack"}
    BY <1>0, <1>8, <1>15, <2>4, LoadsKept DEF Uncounted
  <2> QED
    BY <2>2, <2>3, <2>4
<1> QED
  BY <1>16, <1>17, <1>18

\* FlushControl: a queue is emptied
LEMMA FlushRoom ==
  ASSUME RequestInv, RoomInv, RequestInv', FlushControl
  PROVE  RoomInv'
<1> USE DEF RoomInv, Goto
<1>0. /\ TypeOK /\ TypeOK' /\ UNCHANGED <<complete, seen, setup>>
      /\ pc \in {"flush_in", "flush_out"} /\ queue \in [Eps -> Seq(Transfer)]
      /\ complete \in [Eps -> BOOLEAN]
  BY DEF RequestInv, TypeOK, FlushControl
<1>1. \A e \in Eps : queue'[e] = queue[e] \/ queue'[e] = <<>>
  BY <1>0 DEF FlushControl, FlushEndpoint, Eps
<1>2. Split'
  BY <1>0, <1>1, EmptyCut DEF Split, Room
<1>3. \A e \in Eps : \A i \in 1 .. Len(queue'[e]) : queue'[e] = queue[e]
  BY <1>1, EmptyCut
<1>4. CASE pc = "flush_in"
  <2>1. pc' = "flush_out" /\ queue'["in"] = <<>>
    BY <1>0, <1>4 DEF FlushControl, FlushEndpoint, Eps
  <2>2. Room'
    BY <1>2, <2>1 DEF Room, Split, ToCopy
  <2>3. Lost' /\ SeenStands'
    BY <1>0, <1>3, <2>1 DEF Lost, SeenStands
  <2> QED
    BY <2>2, <2>3
<1>5. CASE pc = "flush_out"
  <2>1. pc' = "setup_stage" /\ \A e \in Eps : queue'[e] = <<>>
    BY <1>0, <1>5 DEF FlushControl, FlushEndpoint, Eps, Room
  <2>2. \A e \in Eps : Load(e)' \in 0 .. 1
    BY <2>1, EmptyCut DEF Load, Burden, Due, StageAt, ReapAt
  <2>3. Room'
    BY <1>2, <2>1, <2>2 DEF Room, Split, Eps
  <2>4. Lost'
    BY <2>1, EmptyCut DEF Lost
  <2> QED
    BY <1>0, <2>1, <2>3, <2>4 DEF SeenStands
<1> QED
  BY <1>0, <1>4, <1>5

\* What becomes of the counts when a transfer is scheduled.
LEMMA ScheduleRoom ==
  ASSUME RequestInv, Split, RequestInv', NEW ep \in Eps, NEW by \in Eps, Schedule(ep, by),
         \A e \in Eps : \A i \in 1 .. Len(queue[e]) : queue[e][i].status # "dropped"
  PROVE  /\ Split'
         /\ \A e \in Eps : \A i \in 1 .. Len(queue'[e]) : queue'[e][i].status # "dropped"
         /\ Len(queue'[ep]) = Len(queue[ep]) + 1 /\ Finished(queue'[ep]) = Finished(queue[ep])
         /\ \A e \in Eps : e # ep => queue'[e] = queue[e]
<1> USE TypeFacts DEF RequestInv
<1> DEFINE t == [serial |-> HandledBy(by).serial, status |-> "active"]
           q == Append(queue[ep], t)
<1>1. t \in Transfer /\ t.status = "active"
  BY DEF Transfer, HandledBy
<1>2. queue' = [queue EXCEPT ![ep] = q] /\ queue[ep] \in Seq(Transfer)
  BY DEF Schedule
<1>3. PICK n \in 0 .. Len(queue[ep]) : CutAt(queue[ep], n)
  BY DEF Split
<1>4. Finished(queue[ep]) = n
  BY <1>2, <1>3, FinishedIs
<1>5. Len(q) = Len(queue[ep]) + 1 /\ n \in 0 .. Len(q) /\ CutAt(q, n) /\ Finished(q) = n
  BY <1>1, <1>2, <1>3, AppendedCut
<1>6. \A i \in 1 .. Len(q) : q[i].status # "dropped"
  <2>1. /\ \A i \in 1 .. Len(queue[ep]) : q[i] = queue[ep][i]
        /\ q[Len(queue[ep]) + 1] = t /\ Len(queue[ep]) \in Nat
    BY <1>1, <1>2, AppendProperties, LenProperties
  <2> HIDE DEF q, t
  <2> QED
    BY <1>1, <1>5, <2>1
<1> HIDE DEF q
<1> QED
  BY <1>2, <1>4, <1>5, <1>6 DEF Split

\* SetupStage: two transfers for a request that reads, at most one for others
LEMMA SetupRoom ==
  ASSUME RequestInv, RoomInv, RequestInv', SetupStage
  PROVE  RoomInv'
<1> USE DEF RoomInv, Goto
<1>0. /\ TypeOK /\ TypeOK' /\ UNCHANGED <<complete, seen, setup>> /\ Split
      /\ pc \in {"setup_stage", "setup_ack"} /\ pc' \in {"setup_ack", "check_complete"}
      /\ queue["out"] = <<>> /\ (pc = "setup_stage" => queue["in"] = <<>>)
      /\ "out" \in Eps /\ "in" \in Eps
  BY DEF RequestInv, SetupStage, HandlerFrame, SetupRead, SetupReadLate, SetupWrite,
         SetupCommand, Room, Split, Eps
<1>1. \/ pc = "setup_stage" /\ UNCHANGED queue /\ pc' = "check_complete"
      \/ /\ pc = "setup_stage" /\ Schedule("in", "out")
         /\ HandledBy("out").kind = "read" \/ pc' = "check_complete"
      \/ pc = "setup_stage" /\ Schedule("out", "out") /\ pc' = "check_complete"
      \/ pc = "setup_ack" /\ Schedule("out", "out") /\ pc' = "check_complete"
  BY DEF SetupStage, SetupRead, SetupReadLate, SetupWrite, SetupCommand, Refuse
<1>2. \A e \in Eps : \A i \in 1 .. Len(queue[e]) : queue[e][i].status # "dropped"
  BY <1>0 DEF Lost
<1>3. \A e \in Eps : queue[e] = <<>> => Len(queue[e]) = 0 /\ Finished(queue[e]) = 0
  BY EmptyCut
<1>4. /\ \A e \in Eps : Due(e) \in 0 .. 1 /\ Due(e)' = Due(e)
      /\ \A e \in Eps : Load(e) \in Nat
  BY <1>0, LoadFacts DEF Due, StageAt, CountsMakeSense
<1>5. CASE UNCHANGED queue /\ pc = "setup_stage" /\ pc' = "check_complete"
  <2>1. \A e \in Eps : Load(e)' \in 0 .. 1
    BY <1>0, <1>3, <1>4, <1>5 DEF Load, Burden, ReapAt, Eps
  <2>2. Split'
    BY <1>0, <1>5 DEF Split
  <2>3. Room'
    BY <1>0, <1>5, <2>1, <2>2 DEF Room, Split
  <2> QED
    BY <1>0, <1>2, <1>5, <2>3 DEF Lost, SeenStands
<1>6. ASSUME NEW ep \in Eps, Schedule(ep, "out"), queue[ep] = <<>>
      PROVE  /\ Split' /\ Lost' /\ SeenStands' /\ Load(ep)' \in 0 .. 2
             /\ \A e \in Eps : e # ep =>
                  /\ queue'[e] = queue[e] /\ Load(e)' = Load(e)
                  /\ queue[e] = <<>> => Load(e) \in 0 .. 1
  <2>1. /\ Split'
        /\ \A e \in Eps : \A i \in 1 .. Len(queue'[e]) : queue'[e][i].status # "dropped"
        /\ Len(queue'[ep]) = Len(queue[ep]) + 1 /\ Finished(queue'[ep]) = Finished(queue[ep])
        /\ \A e \in Eps : e # ep => queue'[e] = queue[e]
    BY <1>0, <1>2, <1>6, ScheduleRoom
  <2>2. Load(ep)' \in 0 .. 2
    BY <1>0, <1>3, <1>4, <1>6, <2>1 DEF Load, Burden, ReapAt
  <2>3. \A e \in Eps : e # ep => Load(e)' = Load(e) /\ (queue[e] = <<>> => Load(e) \in 0 .. 1)
    BY <1>0, <1>3, <1>4, <2>1 DEF Load, Burden, ReapAt
  <2>4. Lost' /\ SeenStands'
    BY <1>0, <2>1 DEF Lost, SeenStands
  <2> QED
    BY <2>1, <2>2, <2>3, <2>4
<1>7. CASE /\ pc = "setup_stage" /\ Schedule("in", "out")
           /\ HandledBy("out").kind = "read" \/ pc' = "check_complete"
  <2>1. /\ Split' /\ Lost' /\ SeenStands' /\ Load("in")' \in 0 .. 2 /\ Load("out")' \in 0 .. 1
        /\ queue'["out"] = <<>>
    BY <1>0, <1>6, <1>7
  <2>2. setup'["out"].request.kind = "read" \/ pc' = "check_complete"
    BY <1>0, <1>7 DEF HandledBy
  <2> QED
    BY <1>0, <2>1, <2>2 DEF Room, Split
<1>8. CASE /\ pc = "setup_stage" /\ Schedule("out", "out") /\ pc' = "check_complete"
  <2>1. /\ Split' /\ Lost' /\ SeenStands' /\ Load("out")' \in 0 .. 2 /\ Load("in")' \in 0 .. 1
    BY <1>0, <1>6, <1>8
  <2> QED
    BY <1>8, <2>1 DEF Room, Split
<1>9. CASE pc = "setup_ack" /\ Schedule("out", "out") /\ pc' = "check_complete"
  <2>1. /\ Split' /\ Lost' /\ SeenStands' /\ Load("out")' \in 0 .. 2 /\ Load("in")' = Load("in")
    BY <1>0, <1>6, <1>9
  <2>2. setup'["out"].request.kind = "read" /\ Load("in")' \in 0 .. 2
    BY <1>0, <1>4, <1>9, <2>1 DEF Room, ToCopy
  <2> QED
    BY <1>9, <2>1, <2>2 DEF Room, Split
<1> QED
  BY <1>1, <1>5, <1>7, <1>8, <1>9

\* HandleStage: the completion is used up, and at most one transfer queued
LEMMA StageRoom ==
  ASSUME RequestInv, RoomInv, RequestInv', NEW ep \in Eps, HandleStage(ep)
  PROVE  RoomInv'
<1> USE DEF RoomInv, Goto
<1>0. /\ TypeOK /\ TypeOK' /\ UNCHANGED <<complete, seen, setup>> /\ Split
      /\ pc = StageAt(ep) /\ pc' = ReapAt(ep) /\ ep \in {"out", "in"}
      /\ pc \in {"stage_out", "stage_in"} /\ complete \in [Eps -> BOOLEAN]
  BY DEF RequestInv, TypeOK, HandleStage, HandlerFrame, Room, Split, StageAt, Eps
<1>1. \A e \in Eps : \A i \in 1 .. Len(queue[e]) : queue[e][i].status # "dropped"
  BY <1>0 DEF Lost
<1>2. \/ UNCHANGED queue
      \/ \E e \in Eps : /\ Schedule(e, ep)
                        /\ HandledBy(ep).kind = "read_late" => e = "out"
                        /\ HandledBy(ep).kind \in {"write", "read_late"}
  BY DEF HandleStage, Refuse, Ignore, Eps
<1>3. /\ \A e \in Eps : Len(queue[e]) \in Nat /\ Finished(queue[e]) \in 0 .. Len(queue[e])
      /\ \A e \in Eps : Load(e) \in Nat /\ Burden(e) \in Nat /\ Burden(e) <= Load(e)
      /\ \A e \in Eps : pc # ReapAt(e) => Len(queue[e]) <= Load(e)
      /\ \A e \in Eps : Due(e) \in 0 .. 2
  BY <1>0, LoadFacts DEF CountsMakeSense
<1>4. /\ Due(ep)' = Due(ep) - 1 /\ Due(ep)' \in Nat
      /\ \A e \in Eps : e # ep => Due(e)' = Due(e) /\ pc # ReapAt(e) /\ pc' # ReapAt(e)
  BY <1>0 DEF Due, StageAt, ReapAt, Eps
<1>5. SeenStands'
  BY <1>0 DEF SeenStands, StageAt, ReapAt
<1>6. pc' \in {"reap_out", "reap_in"}
  BY <1>0 DEF ReapAt
<1>7. CASE UNCHANGED queue
  <2>1. Split' /\ Lost'
    BY <1>0, <1>1, <1>7 DEF Split, Lost
  <2>2. Load(ep)' <= Load(ep)
    BY <1>0, <1>3, <1>4, <1>7 DEF Load, Burden
  <2>3. \A e \in Eps : e # ep => Load(e)' = Load(e)
    BY <1>0, <1>3, <1>4, <1>7 DEF Load, Burden
  <2>4. Load("in")' <= Load("in") /\ Load("out")' <= Load("out")
    BY <1>0, <1>3, <2>2, <2>3 DEF Eps
  <2> QED
    BY <1>0, <1>5, <1>6, <2>1, <2>4, LoadsKept DEF Uncounted, ToCopy
<1>8. ASSUME NEW e \in Eps, Schedule(e, ep), HandledBy(ep).kind = "read_late" => e = "out",
             HandledBy(ep).kind \in {"write", "read_late"}
      PROVE  RoomInv'
  <2>1. /\ Split'
        /\ \A f \in Eps : \A i \in 1 .. Len(queue'[f]) : queue'[f][i].status # "dropped"
        /\ Len(queue'[e]) = Len(queue[e]) + 1 /\ Finished(queue'[e]) = Finished(queue[e])
        /\ \A f \in Eps : f # e => queue'[f] = queue[f]
    BY <1>0, <1>1, <1>8, ScheduleRoom
  <2>2. Lost'
    BY <2>1 DEF Lost
  <2>3. CASE e = ep
    <3>1. Load(ep)' <= Load(ep)
      <4>1. Burden(ep)' = Burden(ep)
        BY <1>3, <1>4, <2>1, <2>3 DEF Burden
      <4> QED
        BY <1>0, <1>3, <4>1 DEF Load
    <3>2. \A f \in Eps : f # ep => Load(f)' = Load(f)
      BY <1>0, <1>3, <1>4, <2>1, <2>3 DEF Load, Burden
    <3>3. Load("in")' <= Load("in") /\ Load("out")' <= Load("out")
      BY <1>0, <1>3, <3>1, <3>2 DEF Eps
    <3> QED
      BY <1>0, <1>5, <1>6, <2>1, <2>2, <3>3, LoadsKept DEF Uncounted, ToCopy
  <2>4. CASE e # ep
    <3>1. Load(ep)' <= Load(ep) - 1
      <4>1. Len(queue[ep]) \in Nat /\ Finished(queue[ep]) \in Nat /\ Due(ep) \in Nat
        BY <1>3
      <4>2. queue'[ep] = queue[ep] /\ Due(ep)' = Due(ep) - 1
        BY <1>4, <2>1, <2>4
      <4>3. Burden(ep)' = Burden(ep) - 1
        BY <4>1, <4>2 DEF Burden
      <4> QED
        BY <1>0, <1>3, <4>2, <4>3 DEF Load
    <3>2. Load(e)' <= Load(e) + 1
      <4>1. Len(queue[e]) \in Nat /\ Finished(queue[e]) \in Nat /\ Due(e) \in Nat
        BY <1>3
      <4>2. Due(e)' = Due(e) /\ pc # ReapAt(e) /\ pc' # ReapAt(e)
        BY <1>4, <2>4
      <4>3. Burden(e)' = Burden(e) + 1
        BY <2>1, <4>1, <4>2 DEF Burden
      <4> QED
        BY <1>3, <2>1, <4>2, <4>3 DEF Load
    <3>3. Load(ep)' \in Nat /\ Load(e)' \in Nat
      BY <1>0, <2>1, LoadFactsNext DEF CountsMakeSense
    <3>4. setup["out"].request.kind = "read" => ep = "in" /\ e = "out"
      BY <1>0, <1>8, <2>4 DEF HandledBy, Eps
    <3>5. /\ setup["out"].request.kind = "read" => Load("in") <= 2
          /\ Load("in") + Load("out") <= IF setup["out"].request.kind = "read" THEN 4 ELSE 3
      BY <1>0 DEF Room, ToCopy
    <3>6. /\ setup["out"].request.kind = "read" => Load("in")' <= 2
          /\ Load("in")' + Load("out")' <= IF setup["out"].request.kind = "read" THEN 4 ELSE 3
      <4>1. CASE ep = "in" /\ e = "out"
        BY <1>3, <3>1, <3>2, <3>3, <3>5, <4>1
      <4>2. CASE ep = "out" /\ e = "in"
        BY <1>3, <3>1, <3>2, <3>3, <3>4, <3>5, <4>2
      <4> QED
        BY <2>4, <4>1, <4>2 DEF Eps
    <3> QED
      BY <1>0, <1>5, <1>6, <2>1, <2>2, <3>6 DEF Room, Split
  <2> QED
    BY <2>3, <2>4
<1> QED
  BY <1>2, <1>7, <1>8

\* Reap: what is left is what was unfinished
LEMMA ReapRoom ==
  ASSUME RequestInv, RoomInv, RequestInv', NEW ep \in Eps, Reap(ep)
  PROVE  RoomInv'
<1> USE DEF RoomInv, Goto
<1>0. /\ TypeOK /\ TypeOK' /\ UNCHANGED <<complete, seen, setup>> /\ Split
      /\ pc = ReapAt(ep) /\ pc' = AfterReap(ep) /\ ep \in {"out", "in"}
      /\ pc \in {"reap_out", "reap_in"} /\ queue \in [Eps -> Seq(Transfer)]
      /\ pc' \in {"complete_in", "check_reset"}
  BY DEF RequestInv, TypeOK, Reap, Room, Split, ReapAt, AfterReap, Eps
<1>1. \A e \in Eps : \A i \in 1 .. Len(queue[e]) : queue[e][i].status # "dropped"
  BY <1>0 DEF Lost
<1>2. PICK k \in 0 .. Len(queue[ep]) :
        /\ \A i \in 1 .. k : queue[ep][i].status = "done"
        /\ k < Len(queue[ep]) => queue[ep][k + 1].status # "done"
        /\ queue' = [queue EXCEPT ![ep] = SubSeq(queue[ep], k + 1, Len(queue[ep]))]
  BY DEF Reap
<1> DEFINE q == SubSeq(queue[ep], k + 1, Len(queue[ep]))
<1>3. /\ Len(queue[ep]) \in Nat /\ Finished(queue[ep]) \in 0 .. Len(queue[ep])
      /\ CutAt(queue[ep], Finished(queue[ep])) /\ Due(ep) \in 0 .. 2
      /\ \A e \in Eps : Load(e) \in Nat
  BY <1>0, LoadFacts DEF CountsMakeSense
<1>4. Len(q) = Len(queue[ep]) - Finished(queue[ep]) /\ CutAt(q, 0) /\ Finished(q) = 0
  BY <1>0, <1>2, <1>3, ReapedCut
<1>5. queue' = [queue EXCEPT ![ep] = q]
  BY <1>2
<1>6. \A i \in 1 .. Len(q) : q[i].status # "dropped"
  <2>1. \A i \in 1 .. Len(q) : q[i] = queue[ep][k + i] /\ k + i \in 1 .. Len(queue[ep])
    BY <1>0, RestOfQueue
  <2> HIDE DEF q
  <2> QED
    BY <1>1, <2>1
<1> HIDE DEF q
<1>7. Split'
  BY <1>0, <1>3, <1>4, <1>5 DEF Split
<1>8. Due(ep)' = Due(ep)
  BY <1>0 DEF Due, StageAt, ReapAt, AfterReap
<1>9. Load(ep)' = Load(ep)
  BY <1>0, <1>3, <1>4, <1>5, <1>8 DEF Load, Burden, ReapAt
<1>10. \A e \in Eps : e # ep => Load(e)' = Load(e)
  <2>1. \A e \in Eps : e # ep => /\ queue'[e] = queue[e] /\ Due(e)' = Due(e)
                                /\ pc # ReapAt(e) /\ pc' # ReapAt(e)
    BY <1>0, <1>5 DEF Due, ReapAt, StageAt, AfterReap, Eps
  <2> QED
    BY <2>1 DEF Load, Burden
<1>11. Load("in")' <= Load("in") /\ Load("out")' <= Load("out")
  BY <1>3, <1>9, <1>10 DEF Eps
<1>12. Room'
  BY <1>0, <1>7, <1>11, LoadsKept DEF Uncounted, ToCopy
<1>13. Lost'
  BY <1>0, <1>1, <1>5, <1>6 DEF Lost
<1>14. SeenStands'
  BY <1>0 DEF SeenStands, ReapAt, AfterReap
<1> QED
  BY <1>12, <1>13, <1>14

\* BusReset: nothing is left to schedule for
LEMMA ResetRoom ==
  ASSUME RequestInv, RoomInv, RequestInv', BusReset
  PROVE  RoomInv'
<1> USE DEF RoomInv, Goto
<1>0. /\ TypeOK /\ TypeOK' /\ UNCHANGED <<seen, setup>> /\ Split
      /\ pc = "check_reset" /\ pc' = "idle" /\ queue \in [Eps -> Seq(Transfer)]
      /\ \A e \in Eps : complete'[e] = FALSE /\ queue'[e] = Dropped(queue[e])
  BY DEF RequestInv, TypeOK, BusReset, Room, Split
<1>1. \A e \in Eps :
        /\ Len(queue[e]) \in Nat /\ Finished(queue[e]) \in 0 .. Len(queue[e])
        /\ CutAt(queue[e], Finished(queue[e])) /\ Load(e) \in Nat /\ Due(e) \in 0 .. 2
        /\ Len(queue[e]) <= Load(e)
  BY <1>0, LoadFacts DEF CountsMakeSense, ReapAt
<1>2. \A e \in Eps :
        /\ Len(queue'[e]) = Len(queue[e]) /\ Finished(queue'[e]) = Finished(queue[e])
        /\ CutAt(queue'[e], Finished(queue[e]))
        /\ \A i \in 1 .. Len(queue'[e]) : ~Active(queue'[e][i])
  BY <1>0, <1>1, DroppedCut
<1>3. Split'
  BY <1>1, <1>2 DEF Split
<1>4. \A e \in Eps : Due(e)' = 0
  BY <1>0 DEF Due, StageAt
<1>5. \A e \in Eps : Load(e)' <= Load(e)
  BY <1>0, <1>1, <1>2, <1>4 DEF Load, Burden
<1>6. Room'
  BY <1>0, <1>3, <1>5, LoadsKept DEF Uncounted, ToCopy, Eps
<1>7. Lost' /\ SeenStands'
  BY <1>0, <1>2 DEF Lost, SeenStands
<1> QED
  BY <1>6, <1>7

\* Every step preserves the room: one case per action.
LEMMA NextRoom == RequestInv /\ RoomInv /\ RequestInv' /\ [Next]_vars => RoomInv'
<1> SUFFICES ASSUME RequestInv, RoomInv, RequestInv', [Next]_vars PROVE RoomInv'
  OBVIOUS
<1>1. CASE HostData \/ HostStatus
  <2>1. Direction(host.request.kind) \in Eps /\ Other(Direction(host.request.kind)) \in Eps
    BY DEF Other, Direction, Eps
  <2> QED
    BY <1>1, <2>1, ExecuteRoom DEF HostData, HostStatus
<1>2. CASE HostStalled \/ HostReset \/ (\E kind \in Kinds : HostSetup(kind)) \/ UNCHANGED vars
  BY <1>2, QuietRoom DEF HostStalled, HostReset, HostSetup
<1>3. CASE Enter \/ CheckSetup \/ CopySetup \/ ClearSetup \/ CheckComplete \/ Leave
  BY <1>3, QuietRoom DEF Enter, CheckSetup, CopySetup, Copy, ClearSetup, CheckComplete, Leave
<1>4. CASE \E ep \in Eps : ClearComplete(ep)
  BY <1>4, ClearRoom
<1>5. CASE FlushControl
  BY <1>5, FlushRoom
<1>6. CASE SetupStage
  BY <1>6, SetupRoom
<1>7. CASE \E ep \in Eps : HandleStage(ep)
  BY <1>7, StageRoom
<1>8. CASE \E ep \in Eps : Reap(ep)
  BY <1>8, ReapRoom
<1>9. CASE BusReset
  BY <1>9, ResetRoom
<1> QED
  BY <1>1, <1>2, <1>3, <1>4, <1>5, <1>6, <1>7, <1>8, <1>9
  DEF Next, IsrNext, HostNext, HostAnswers

\* The whole invariant holds at first ...
LEMMA InitControl == Init => ControlInv
BY InitRequests, InitRoom DEF ControlInv, RoomInv

\* ... and is kept by every step.
LEMMA NextControl == ControlInv /\ [Next]_vars => ControlInv'
BY NextRequests, NextRoom DEF ControlInv, RoomInv

\* In every state no transfer outlives its request, none is acknowledged
\* before its handler acted, no event is forgotten, and the queues hold no more
\* than a few transfers, whatever the host aborts and however often it resets
\* the bus (usb0_isr in usb.c).
THEOREM ControlInvariance == Spec => []ControlInv
BY InitControl, NextControl, PTL DEF Spec

\* With four transfers to a queue, as USB_DEFINE_QUEUE gives the control
\* endpoints, a handler never waits for a free one in the interrupt that alone
\* could free it.
THEOREM HandlerNeverSpins ==
  ASSUME PoolSize >= 4
  PROVE  Spec => []NeverSpins
<1>1. ControlInv => NeverSpins
  <2> SUFFICES ASSUME RequestInv, RoomInv PROVE NeverSpins
    BY DEF ControlInv, RoomInv
  <2> USE ControlAssumption DEF RoomInv
  <2>1. TypeOK /\ Split
    BY DEF RequestInv, Room, Split
  <2>2. \A e \in Eps : /\ Len(queue[e]) \in Nat /\ Load(e) \in Nat
                       /\ pc # ReapAt(e) => Len(queue[e]) <= Load(e)
                       /\ Burden(e) <= Load(e) /\ Finished(queue[e]) \in 0 .. Len(queue[e])
    BY <2>1, LoadFacts DEF CountsMakeSense
  <2>3. pc = "setup_ack" => Len(queue["out"]) < PoolSize
    BY EmptyCut DEF Room
  <2>4. ASSUME NEW ep \in Eps, pc = StageAt(ep)
        PROVE  /\ HandledBy(ep).kind = "write" => Len(queue["in"]) < PoolSize
               /\ HandledBy(ep).kind = "read_late" => Len(queue["out"]) < PoolSize
    <3>1. /\ Len(queue["in"]) <= Load("in") /\ Len(queue["out"]) <= Load("out")
          /\ Load("in") \in Nat /\ Load("out") \in Nat
      BY <2>2, <2>4 DEF StageAt, ReapAt, Eps
    <3>2. Load(ep) >= 1
      BY <2>2, <2>4 DEF Burden, Due
    <3>3. /\ setup["out"].request.kind = "read" => Load("in") <= 2
          /\ Load("in") + Load("out") <= IF setup["out"].request.kind = "read" THEN 4 ELSE 3
      BY <2>4 DEF Room, ToCopy, StageAt
    <3>4. Len(queue["in"]) \in Nat /\ Len(queue["out"]) \in Nat
      BY <2>2 DEF Eps
    <3>5. CASE setup["out"].request.kind = "read" /\ ep = "in"
      BY <3>1, <3>2, <3>3, <3>4, <3>5
    <3>6. CASE setup["out"].request.kind = "read" /\ ep = "out"
      BY <3>6 DEF HandledBy
    <3>7. CASE setup["out"].request.kind # "read"
      BY <3>1, <3>3, <3>4, <3>7
    <3> QED
      BY <3>5, <3>6, <3>7 DEF Eps
  <2> QED
    BY <2>3, <2>4 DEF NeverSpins
<1> QED
  BY <1>1, ControlInvariance, PTL

-----------------------------------------------------------------------------
(* What the host gets *)

\* A transfer that the controller carries out for a host that lets its
\* requests end is one scheduled for the request the host is in.
LEMMA PendingIsOwn ==
  ASSUME RequestInv, ~aborted, host.stage # "idle", Answers, NEW ep \in Eps, NEW t \in Pending(ep)
  PROVE  t.serial = host.request.serial
<1> USE TypeFacts DEF RequestInv
<1>1. pc \notin Flushing /\ ~setup_stat
  BY DEF Answers, Undisturbed, Flushing
<1>2. setup["out"].request = host.request
  BY <1>1 DEF Undisturbed
<1> QED
  BY <1>1, <1>2 DEF NothingOlder, Copied

\* SuccessMeansActed, of a step
LEMMA StepActed ==
  ASSUME RequestInv, HostStatus, ~aborted, Direction(host.request.kind) = "out"
  PROVE  host.request \in acted
<1> USE TypeFacts DEF RequestInv
<1>1. Execute("in") /\ host.stage # "idle"
  BY DEF HostStatus, Other
<1>2. PICK i \in DOMAIN queue["in"] : Active(queue["in"][i])
  BY <1>1 DEF Execute
<1>3. i \in 1 .. Len(queue["in"])
  BY <1>2, LenProperties DEF Eps
<1>4. queue["in"][i] \in Pending("in")
  BY <1>2, <1>3 DEF Pending, PendingOf
<1>5. queue["in"][i].serial = host.request.serial
  BY <1>1, <1>4, PendingIsOwn DEF Execute, Eps
<1> QED
  BY <1>4, <1>5 DEF ActedFirst

\* OwnAnswers, of a step
LEMMA StepOwn ==
  ASSUME RequestInv, Next, NEW ep \in Eps, NEW i \in DOMAIN queue[ep] \cap DOMAIN queue'[ep],
         Active(queue[ep][i]), queue'[ep][i].status = "done", ~aborted
  PROVE  queue[ep][i].serial = host.request.serial
<1> USE TypeFacts DEF RequestInv
<1>1. CASE \E e \in Eps : Execute(e) /\ host.stage # "idle"
  <2>1. PICK e \in Eps : Execute(e) /\ host.stage # "idle"
    BY <1>1
  <2>2. queue[ep][i] \in Pending(ep)
    BY <2>1, ExecuteQueues
  <2> QED
    BY <2>1, <2>2, PendingIsOwn DEF Execute
<1>2. CASE UNCHANGED queue
  BY <1>2 DEF Active
<1>3. CASE FlushControl
  <2>1. queue'[ep] \in {queue[ep], <<>>}
    BY <1>3 DEF FlushControl, FlushEndpoint
  <2>2. DOMAIN <<>> = {}
    BY EmptySeq
  <2> QED
    BY <2>1, <2>2 DEF Active
<1>4. CASE \E e \in Eps, by \in Eps : Schedule(e, by) /\ Handling
  BY <1>4, ScheduleQueues DEF Active
<1>5. CASE \E e \in Eps : Reap(e)
  BY <1>5, ReapQueues
<1>6. CASE BusReset
  BY <1>6, ResetPreserves
<1>7. CASE SetupStage
  <2>1. Handling
    BY <1>7 DEF SetupStage, SetupRead, SetupReadLate, SetupWrite, SetupCommand, Goto, Handling, Flushing
  <2>2. UNCHANGED queue \/ \E e \in Eps : Schedule(e, "out")
    BY <1>7 DEF SetupStage, SetupRead, SetupReadLate, SetupWrite, SetupCommand, Refuse, Eps
  <2> QED
    BY <1>2, <1>4, <2>1, <2>2 DEF Eps
<1>8. CASE \E e \in Eps : HandleStage(e)
  <2>1. PICK by \in Eps : HandleStage(by)
    BY <1>8
  <2>2. Handling
    BY <2>1 DEF HandleStage, Goto, StageAt, Handling, Flushing
  <2>3. UNCHANGED queue \/ \E e \in Eps : Schedule(e, by)
    BY <2>1 DEF HandleStage, Refuse, Ignore, Eps
  <2> QED
    BY <1>2, <1>4, <2>2, <2>3
<1>9. CASE HostData \/ HostStatus
  <2>1. Direction(host.request.kind) \in Eps /\ Other(Direction(host.request.kind)) \in Eps
    BY DEF Other, Direction, Eps
  <2> QED
    BY <1>1, <1>9, <2>1 DEF HostData, HostStatus
<1>10. CASE \/ HostStalled \/ HostReset \/ \E kind \in Kinds : HostSetup(kind)
            \/ Enter \/ CheckSetup \/ CopySetup \/ ClearSetup \/ CheckComplete \/ Leave
            \/ \E e \in Eps : ClearComplete(e)
  BY <1>2, <1>10 DEF HostStalled, HostReset, HostSetup, Enter, CheckSetup, CopySetup, Copy,
                     ClearSetup, CheckComplete, Leave, ClearComplete
<1> QED
  BY <1>3, <1>5, <1>6, <1>7, <1>8, <1>9, <1>10 DEF Next, IsrNext, HostNext, HostAnswers

\* A request that succeeds for a host that lets its requests end was acted on
\* before: no handler acknowledges what it has not done.
THEOREM ActedBeforeSuccess == Spec => SuccessMeansActed
<1>1. RequestInv /\ [Next]_vars
        => [HostStatus /\ ~aborted /\ Direction(host.request.kind) = "out" => host.request \in acted]_vars
  BY StepActed
<1> QED
  BY <1>1, ControlInvariance, PTL DEF Spec, SuccessMeansActed, ControlInv

\* A host that lets its requests end takes, and fills, only transfers that
\* were scheduled for the request it is in.
THEOREM AnswersAreOwn == Spec => OwnAnswers
<1>1. RequestInv /\ [Next]_vars
        => [\A ep \in Eps : \A i \in DOMAIN queue[ep] \cap DOMAIN queue'[ep] :
              Active(queue[ep][i]) /\ queue'[ep][i].status = "done" /\ ~aborted
                => queue[ep][i].serial = host.request.serial]_vars
  BY StepOwn
<1> QED
  BY <1>1, ControlInvariance, PTL DEF Spec, OwnAnswers, ControlInv

=============================================================================
