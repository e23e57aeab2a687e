--------------------------- MODULE UsbQueueProofs ---------------------------
(***************************************************************************)
(* QueueInv is an inductive invariant of UsbQueue, for pools of every size   *)
(* and any number of transfers, and what it says of rewriting, priming,      *)
(* stranding and order follows. First what the lists' operations do to their *)
(* elements, then one lemma per conjunct of the invariant, with a step per   *)
(* action that can disturb it.                                              *)
(***************************************************************************)
EXTENDS UsbQueueInv, TLAPS, SequenceTheorems, FiniteSetTheorems

USE DEF tdVars, bitVars, unitVars, controllerVars, listVars, allocVars, vars, PrimeStays

-----------------------------------------------------------------------------
(* Lists *)

\* A sequence over a set: its length, its positions, its elements.
LEMMA Elements ==
  ASSUME NEW S, NEW s \in Seq(S)
  PROVE  /\ Len(s) \in Nat /\ DOMAIN s = 1 .. Len(s)
         /\ \A i \in 1 .. Len(s) : s[i] \in S
         /\ ToSet(s) = {s[i] : i \in 1 .. Len(s)} /\ ToSet(s) \subseteq S
         /\ s # <<>> <=> Len(s) > 0
<1>1. Len(s) \in Nat /\ DOMAIN s = 1 .. Len(s) /\ s \in [1 .. Len(s) -> S]
  BY LenProperties
<1>2. s # <<>> <=> Len(s) > 0
  BY <1>1, EmptySeq
<1> QED
  BY <1>1, <1>2 DEF ToSet

\* A transfer queued at the end.
LEMMA Appended ==
  ASSUME NEW S, NEW s \in Seq(S), NEW e \in S
  PROVE  /\ Append(s, e) \in Seq(S) /\ Len(Append(s, e)) = Len(s) + 1
         /\ \A i \in 1 .. Len(s) : Append(s, e)[i] = s[i]
         /\ Append(s, e)[Len(s) + 1] = e
         /\ ToSet(Append(s, e)) = ToSet(s) \cup {e}
         /\ Once(s) /\ e \notin ToSet(s) => Once(Append(s, e))
<1> DEFINE r == Append(s, e)
<1>1. /\ r \in Seq(S) /\ Len(r) = Len(s) + 1
      /\ \A i \in 1 .. Len(s) : r[i] = s[i]
      /\ r[Len(s) + 1] = e
  BY AppendProperties
<1> HIDE DEF r
<1>2. /\ Len(s) \in Nat /\ ToSet(s) = {s[i] : i \in 1 .. Len(s)}
      /\ ToSet(r) = {r[i] : i \in 1 .. Len(r)}
  BY <1>1, Elements
<1>3. ToSet(r) = ToSet(s) \cup {e}
  BY <1>1, <1>2
<1>4. Once(s) /\ e \notin ToSet(s) => Once(r)
  BY <1>1, <1>2 DEF Once
<1> QED
  BY <1>1, <1>3, <1>4 DEF r

\* A list without its first transfer.
LEMMA Popped ==
  ASSUME NEW S, NEW s \in Seq(S), s # <<>>
  PROVE  /\ Head(s) = s[1] /\ Head(s) \in S
         /\ Tail(s) \in Seq(S) /\ Len(Tail(s)) = Len(s) - 1
         /\ \A i \in 1 .. Len(s) - 1 : Tail(s)[i] = s[i + 1]
         /\ ToSet(s) = ToSet(Tail(s)) \cup {Head(s)}
         /\ Once(s) => Once(Tail(s)) /\ Head(s) \notin ToSet(Tail(s))
<1> DEFINE r == Tail(s)
<1>1. Len(s) \in Nat /\ Len(s) > 0 /\ ToSet(s) = {s[i] : i \in 1 .. Len(s)}
  BY Elements
<1>2. /\ Head(s) \in S /\ r \in Seq(S) /\ Len(r) = Len(s) - 1
      /\ \A i \in 1 .. Len(r) : r[i] = s[i + 1]
  BY HeadTailProperties
<1>3. Head(s) = s[1]
  BY <1>1
<1> HIDE DEF r
<1>4. ToSet(r) = {r[i] : i \in 1 .. Len(r)}
  BY <1>2, Elements
<1>5. ToSet(s) = ToSet(r) \cup {Head(s)}
  <2>1. ASSUME NEW i \in 1 .. Len(s)
        PROVE  s[i] \in ToSet(r) \cup {Head(s)}
    <3>1. CASE i = 1
      BY <3>1, <1>3
    <3>2. CASE i # 1
      <4>1. i - 1 \in 1 .. Len(r) /\ r[i - 1] = s[i]
        BY <3>2, <1>1, <1>2
      <4> QED
        BY <4>1, <1>4
    <3> QED
      BY <3>1, <3>2
  <2>2. ASSUME NEW i \in 1 .. Len(r)
        PROVE  r[i] \in ToSet(s)
    <3>1. i + 1 \in 1 .. Len(s)
      BY <1>1, <1>2
    <3> QED
      BY <3>1, <1>1, <1>2
  <2> QED
    BY <2>1, <2>2, <1>1, <1>3, <1>4
<1>6. Once(s) => Once(r) /\ Head(s) \notin ToSet(r)
  <2> SUFFICES ASSUME Once(s)
               PROVE  Once(r) /\ Head(s) \notin ToSet(r)
    OBVIOUS
  <2>1. \A i \in 1 .. Len(r) : i + 1 \in 1 .. Len(s) /\ r[i] = s[i + 1]
    BY <1>1, <1>2
  <2>2. Once(r)
    BY <2>1, <1>1, <1>2 DEF Once
  <2>3. \A i \in 1 .. Len(r) : r[i] # s[1]
    BY <2>1, <1>1, <1>2 DEF Once
  <2> QED
    BY <2>2, <2>3, <1>3, <1>4
<1>7. \A i \in 1 .. Len(s) - 1 : r[i] = s[i + 1]
  BY <1>2
<1> QED
  BY <1>2, <1>3, <1>5, <1>6, <1>7 DEF r

\* Two lists of different transfers put together.
LEMMA Joined ==
  ASSUME NEW S, NEW s \in Seq(S), NEW r \in Seq(S)
  PROVE  /\ s \o r \in Seq(S) /\ Len(s \o r) = Len(s) + Len(r)
         /\ ToSet(s \o r) = ToSet(s) \cup ToSet(r)
         /\ Once(s) /\ Once(r) /\ ToSet(s) \cap ToSet(r) = {} => Once(s \o r)
<1> DEFINE q == s \o r
<1>1. /\ q \in Seq(S) /\ Len(q) = Len(s) + Len(r)
      /\ \A i \in 1 .. Len(s) + Len(r) : q[i] = IF i <= Len(s) THEN s[i] ELSE r[i - Len(s)]
  BY ConcatProperties
<1> HIDE DEF q
<1>2. /\ Len(s) \in Nat /\ Len(r) \in Nat /\ ToSet(s) = {s[i] : i \in 1 .. Len(s)}
      /\ ToSet(r) = {r[i] : i \in 1 .. Len(r)} /\ ToSet(q) = {q[i] : i \in 1 .. Len(q)}
  BY <1>1, Elements
<1>3. ToSet(q) = ToSet(s) \cup ToSet(r)
  <2>1. \A i \in 1 .. Len(q) : q[i] \in ToSet(s) \cup ToSet(r)
    <3> TAKE i \in 1 .. Len(q)
    <3>1. CASE i <= Len(s)
      BY <3>1, <1>1, <1>2
    <3>2. CASE ~(i <= Len(s))
      <4>1. i - Len(s) \in 1 .. Len(r) /\ q[i] = r[i - Len(s)]
        BY <3>2, <1>1, <1>2
      <4> QED
        BY <4>1, <1>2
    <3> QED
      BY <3>1, <3>2
  <2>2. \A i \in 1 .. Len(s) : s[i] \in ToSet(q)
    <3> TAKE i \in 1 .. Len(s)
    <3>1. i \in 1 .. Len(q) /\ q[i] = s[i]
      BY <1>1, <1>2
    <3> QED
      BY <3>1, <1>2
  <2>3. \A i \in 1 .. Len(r) : r[i] \in ToSet(q)
    <3> TAKE i \in 1 .. Len(r)
    <3> DEFINE k == Len(s) + i
    <3>1. k \in 1 .. Len(s) + Len(r) /\ ~(k <= Len(s)) /\ k - Len(s) = i
      BY <1>2
    <3> HIDE DEF k
    <3>2. q[k] = r[k - Len(s)] /\ q[k] \in ToSet(q)
      BY <3>1, <1>1, <1>2
    <3> QED
      BY <3>1, <3>2
  <2>4. ToSet(q) \subseteq ToSet(s) \cup ToSet(r)
    BY <2>1, <1>2
  <2>5. ToSet(s) \subseteq ToSet(q)
    BY <2>2, <1>2
  <2>6. ToSet(r) \subseteq ToSet(q)
    BY <2>3, <1>2
  <2> QED
    BY <2>4, <2>5, <2>6
<1>4. ASSUME Once(s), Once(r), ToSet(s) \cap ToSet(r) = {}
      PROVE  Once(q)
  <2> SUFFICES ASSUME NEW i \in 1 .. Len(q), NEW j \in 1 .. Len(q), q[i] = q[j]
               PROVE  i = j
    BY DEF Once
  <2>1. CASE i <= Len(s) /\ j <= Len(s)
    <3>1. i \in 1 .. Len(s) /\ j \in 1 .. Len(s) /\ q[i] = s[i] /\ q[j] = s[j]
      BY <2>1, <1>1, <1>2
    <3> QED
      BY <3>1, <1>4 DEF Once
  <2>2. CASE ~(i <= Len(s)) /\ ~(j <= Len(s))
    <3>1. /\ i - Len(s) \in 1 .. Len(r) /\ j - Len(s) \in 1 .. Len(r)
          /\ q[i] = r[i - Len(s)] /\ q[j] = r[j - Len(s)]
      BY <2>2, <1>1, <1>2
    <3>2. i - Len(s) = j - Len(s)
      BY <3>1, <1>4 DEF Once
    <3> QED
      BY <3>2, <1>2
  <2>3. ASSUME NEW k \in 1 .. Len(q), NEW l \in 1 .. Len(q), k <= Len(s), ~(l <= Len(s))
        PROVE  q[k] # q[l]
    <3>1. /\ k \in 1 .. Len(s) /\ l - Len(s) \in 1 .. Len(r)
          /\ q[k] = s[k] /\ q[l] = r[l - Len(s)]
      BY <2>3, <1>1, <1>2
    <3>2. s[k] \in ToSet(s) /\ r[l - Len(s)] \in ToSet(r)
      BY <3>1, <1>2
    <3> QED
      BY <3>1, <3>2, <1>4
  <2> QED
    BY <2>1, <2>2, <2>3
<1> QED
  BY <1>1, <1>3, <1>4 DEF q

\* Reversing a list keeps its length and its transfers.
LEMMA Reversed ==
  ASSUME NEW S, NEW s \in Seq(S)
  PROVE  /\ Reverse(s) \in Seq(S) /\ Len(Reverse(s)) = Len(s)
         /\ ToSet(Reverse(s)) = ToSet(s)
         /\ Once(s) => Once(Reverse(s))
<1> DEFINE r == Reverse(s)
<1>1. Len(s) \in Nat /\ \A i \in 1 .. Len(s) : s[i] \in S
  BY Elements
<1>2. \A i \in 1 .. Len(s) : Len(s) - i + 1 \in 1 .. Len(s)
  BY <1>1
<1>3. r = [i \in 1 .. Len(s) |-> s[Len(s) - i + 1]]
  BY DEF Reverse
<1>4. r \in [1 .. Len(s) -> S]
  BY <1>1, <1>2, <1>3
<1>5. r \in Seq(S) /\ Len(r) = Len(s)
  <2>1. r \in Seq(S)
    BY <1>1, <1>4, SeqDef
  <2>2. Len(r) \in Nat /\ DOMAIN r = 1 .. Len(r)
    BY <2>1, LenProperties
  <2>3. DOMAIN r = 1 .. Len(s)
    BY <1>4
  <2> QED
    BY <2>1, <2>2, <2>3, <1>1
<1>6. \A i \in 1 .. Len(s) : r[i] = s[Len(s) - i + 1] /\ r[Len(s) - i + 1] = s[i]
  <2> TAKE i \in 1 .. Len(s)
  <2>1. Len(s) - (Len(s) - i + 1) + 1 = i
    BY <1>1
  <2> QED
    BY <2>1, <1>2, <1>3
<1> HIDE DEF r
<1>7. ToSet(r) = {r[i] : i \in 1 .. Len(r)} /\ ToSet(s) = {s[i] : i \in 1 .. Len(s)}
  BY <1>5, Elements
<1>8. ToSet(r) = ToSet(s)
  <2>1. \A i \in 1 .. Len(s) : r[i] \in ToSet(s)
    BY <1>2, <1>6, <1>7
  <2>2. \A i \in 1 .. Len(s) : s[i] \in ToSet(r)
    BY <1>2, <1>5, <1>6, <1>7
  <2> QED
    BY <2>1, <2>2, <1>5, <1>7
<1>9. Once(s) => Once(r)
  <2> SUFFICES ASSUME Once(s), NEW i \in 1 .. Len(s), NEW j \in 1 .. Len(s), r[i] = r[j]
               PROVE  i = j
    BY <1>5 DEF Once
  <2>1. Len(s) - i + 1 = Len(s) - j + 1
    BY <1>2, <1>6 DEF Once
  <2> QED
    BY <2>1, <1>1
<1> QED
  BY <1>5, <1>8, <1>9 DEF r

-----------------------------------------------------------------------------
(* Steps *)

Control == Schedule \/ CheckFree \/ LoadExclusive \/ CheckPriming \/ SetTripwire \/ SampleReady
Spins == \E th \in Threads : FlushPrimed(th) \/ FlushWait(th)
Entries == BeginFlush \/ RequestEvent \/ TransferEvent \/ CompleteEnd

\* The steps of the CPU by what they change: a place and a bit, the lists, a
\* descriptor; and those of the controller.
LEMMA Steps ==
  ASSUME [Next]_vars
  PROVE  \/ Control \/ Spins \/ Entries
         \/ StoreExclusive \/ Fill \/ Link \/ WaitReady \/ ConfirmSample
         \/ (\E th \in Threads : FlushQueue(th)) \/ CompleteTransfer
         \/ HwNext \/ UNCHANGED vars
BY DEF Next, MainNext, IsrNext, Client, ScheduleNext, Flush, Control, Spins, Entries, Threads

\* Where a thread goes, the other one stays.
LEMMA Moves ==
  ASSUME pc \in [Threads -> Places], NEW th \in Threads, NEW from, NEW to \in Places,
         Step(th, from, to)
  PROVE  /\ pc' \in [Threads -> Places] /\ pc[th] = from /\ pc'[th] = to
         /\ \A o \in Threads \ {th} : pc'[o] = pc[o]
BY DEF Step

\* The lists change in four steps; whether a transfer is in hand, in two.
LEMMA ListSteps ==
  ASSUME pc \in [Threads -> Places], [Next]_vars
  PROVE  \/ (StoreExclusive /\ monitor) \/ Link
         \/ (\E th \in Threads : FlushQueue(th)) \/ CompleteTransfer
         \/ UNCHANGED <<free_transfers, active, transfer>> /\ Holding' = Holding
<1>1. CASE Control \/ Spins \/ Entries
  BY <1>1 DEF Control, Spins, Entries, Schedule, CheckFree, LoadExclusive, CheckPriming,
     SetTripwire, SampleReady, FlushPrimed, FlushWait, BeginFlush, RequestEvent, TransferEvent,
     CompleteEnd, EnterIsr, Step, Threads, Holding
<1>2. CASE (StoreExclusive /\ ~monitor) \/ Fill \/ WaitReady \/ ConfirmSample
  BY <1>2 DEF StoreExclusive, Fill, WaitReady, ConfirmSample, Step, Threads, Holding
<1>3. CASE HwNext \/ UNCHANGED vars
  BY <1>3 DEF HwNext, Holding
<1> QED
  BY <1>1, <1>2, <1>3, Steps

-----------------------------------------------------------------------------
(* The pool *)

\* What TypeOK says but for the lengths, which the pool bounds.
Types ==
  /\ ControllerTypeOK
  /\ free_transfers \in Seq(Transfers) /\ active \in Seq(Transfers) /\ held \in Seq(Transfers)
  /\ pc \in [Threads -> Places]
  /\ monitor \in BOOLEAN /\ sampled \in BOOLEAN
  /\ transfer \in Transfers \cup {TERMINATE}
  /\ issued \in 0 .. MaxJobs /\ done \in 0 .. MaxJobs

\* No list is longer than the pool, and no transfer is lost.
LEMMA PoolBounds ==
  ASSUME Types, Apart
  PROVE  Len(free_transfers) <= PoolSize /\ Len(active) <= PoolSize /\ PoolConserved
<1>1. /\ free_transfers \in Seq(Transfers) /\ active \in Seq(Transfers)
      /\ InHand \in Seq(Transfers) /\ Once(InHand)
      /\ ToSet(InHand) = IF Holding THEN {transfer} ELSE {}
  <2>1. CASE Holding
    <3>1. transfer \in Transfers
      BY <2>1 DEF Apart
    <3>2. InHand = Append(<<>>, transfer)
      BY <2>1 DEF InHand, Holding
    <3>3. <<>> \in Seq(Transfers) /\ ToSet(<<>>) = {} /\ Once(<<>>)
      BY DEF ToSet, Once
    <3> DEFINE none == <<>>
    <3>4. InHand = Append(none, transfer) /\ none \in Seq(Transfers) /\ transfer \notin ToSet(none)
          /\ Once(none)
      BY <3>2, <3>3
    <3> HIDE DEF none
    <3>5. /\ InHand \in Seq(Transfers) /\ ToSet(InHand) = ToSet(none) \cup {transfer}
          /\ Once(InHand)
      BY <3>1, <3>4, Appended
    <3> QED
      BY <2>1, <3>3, <3>5 DEF Types, none
  <2>2. CASE ~Holding
    BY <2>2 DEF InHand, Holding, Types, ToSet, Once
  <2> QED
    BY <2>1, <2>2
<1> DEFINE listed == free_transfers \o active
           all == listed \o InHand
<1>2. /\ listed \in Seq(Transfers) /\ Once(listed)
      /\ ToSet(listed) = ToSet(free_transfers) \cup ToSet(active)
      /\ Len(listed) = Len(free_transfers) + Len(active)
  BY <1>1, Joined DEF Apart
<1>3. /\ all \in Seq(Transfers) /\ Once(all) /\ ToSet(all) = Transfers
      /\ Len(all) = Len(free_transfers) + Len(active) + Len(InHand)
  <2> HIDE DEF listed
  <2>1. ToSet(listed) \cap ToSet(InHand) = {}
    BY <1>1, <1>2 DEF Apart
  <2>2. /\ all \in Seq(Transfers) /\ Once(all)
        /\ ToSet(all) = ToSet(listed) \cup ToSet(InHand)
        /\ Len(all) = Len(listed) + Len(InHand)
    <3>1. InHand \in Seq(Transfers) /\ Once(InHand) /\ listed \in Seq(Transfers) /\ Once(listed)
      BY <1>1, <1>2
    <3> QED
      BY ONLY <2>1, <3>1, Joined
  <2>3. ToSet(listed) \cup ToSet(InHand) = Transfers
    <3>1. ToSet(listed) \subseteq Transfers
      BY <1>2, Elements
    <3> QED
      BY <1>1, <1>2, <3>1 DEF Apart
  <2> QED
    BY <1>2, <2>2, <2>3
<1>4. Len(all) = PoolSize
  <2> HIDE DEF all
  <2>1. Len(all) \in Nat /\ all \in [1 .. Len(all) -> Transfers] /\ {all[i] : i \in 1 .. Len(all)} = Transfers
    BY <1>3, Elements, LenProperties
  <2>2. all \in Bijection(1 .. Len(all), Transfers)
    BY <1>3, <2>1 DEF Once, Bijection, Injection, Surjection, IsInjective
  <2>3. ExistsBijection(1 .. Len(all), Transfers)
    BY <2>2 DEF ExistsBijection
  <2>4. \A n \in Nat : IsFiniteSet(1 .. n) /\ Cardinality(1 .. n) = n
    <3> TAKE n \in Nat
    <3>1. /\ IsFiniteSet(1 .. n)
          /\ Cardinality(1 .. n) = IF 1 > n THEN 0 ELSE n - 1 + 1
      BY FS_Interval
    <3> QED
      BY <3>1
  <2> QED
    BY <2>1, <2>3, <2>4, FS_Bijection, ControllerAssumption DEF Transfers
<1>5. Len(free_transfers) \in Nat /\ Len(active) \in Nat /\ Len(InHand) \in Nat
  BY <1>1, Elements
<1> QED
  BY <1>3, <1>4, <1>5 DEF PoolConserved

\* The four steps that move a transfer leave every transfer in one place.
LEMMA ApartKept ==
  ASSUME Types, Apart, Turns, NeverPopsEmpty, [Next]_vars
  PROVE  Apart'
<1>1. CASE StoreExclusive /\ monitor
  <2>1. /\ free_transfers # <<>> /\ held = free_transfers
        /\ free_transfers' = Tail(free_transfers) /\ transfer' = Head(free_transfers)
        /\ active' = active /\ ~Holding /\ Holding'
    BY <1>1 DEF StoreExclusive, Pop, Turns, NeverPopsEmpty, Step, Holding, Types, Threads
  <2>2. /\ ToSet(free_transfers) = ToSet(free_transfers') \cup {transfer'}
        /\ Once(free_transfers') /\ transfer' \notin ToSet(free_transfers')
        /\ transfer' \in Transfers
    BY <2>1, Popped DEF Apart, Types
  <2>3. Once(free_transfers)' /\ ToSet(free_transfers)' = ToSet(free_transfers')
    BY <2>2 DEF Once, ToSet
  <2>4. Once(active)' /\ ToSet(active)' = ToSet(active)
    BY <2>1 DEF Apart, Once, ToSet
  <2> QED
    BY <2>1, <2>2, <2>3, <2>4 DEF Apart
<1>2. CASE Link
  <2>1. /\ active' = Append(active, transfer) /\ transfer' = transfer
        /\ free_transfers' = free_transfers /\ Holding /\ ~Holding'
    BY <1>2 DEF Link, Step, Holding, Types, Threads
  <2>2. transfer \in Transfers /\ transfer \notin ToSet(active)
    BY <2>1 DEF Apart
  <2>3. Once(active') /\ ToSet(active') = ToSet(active) \cup {transfer}
    BY <2>1, <2>2, Appended DEF Apart, Types
  <2>4. Once(active)' /\ ToSet(active)' = ToSet(active')
    BY <2>3 DEF Once, ToSet
  <2>5. Once(free_transfers)' /\ ToSet(free_transfers)' = ToSet(free_transfers)
    BY <2>1 DEF Apart, Once, ToSet
  <2> QED
    BY <2>1, <2>3, <2>4, <2>5 DEF Apart
<1>3. CASE \E th \in Threads : FlushQueue(th)
  <2>1. /\ free_transfers' = Reverse(active) \o free_transfers /\ active' = <<>>
        /\ transfer' = transfer /\ Holding' = Holding
    BY <1>3 DEF FlushQueue, Step, Holding, Types, Threads
  <2> DEFINE back == Reverse(active)
  <2>2. /\ back \in Seq(Transfers) /\ ToSet(back) = ToSet(active) /\ Once(back)
    BY Reversed DEF Apart, Types
  <2>3. /\ Once(free_transfers')
        /\ ToSet(free_transfers') = ToSet(active) \cup ToSet(free_transfers)
    <3>1. free_transfers' = back \o free_transfers
      BY <2>1
    <3> HIDE DEF back
    <3> QED
      BY <2>2, <3>1, Joined DEF Apart, Types
  <2>4. Once(free_transfers)' /\ ToSet(free_transfers)' = ToSet(free_transfers')
    BY <2>3 DEF Once, ToSet
  <2>5. Once(active)' /\ ToSet(active)' = {}
    BY <2>1 DEF Once, ToSet
  <2> QED
    BY <2>1, <2>3, <2>4, <2>5 DEF Apart
<1>4. CASE CompleteTransfer
  <2>1. /\ active # <<>> /\ active' = Tail(active)
        /\ free_transfers' = <<Head(active)>> \o free_transfers
        /\ transfer' = transfer /\ Holding' = Holding
    BY <1>4 DEF CompleteTransfer, Finished, Holding
  <2>2. /\ Head(active) \in Transfers /\ Once(active') /\ Head(active) \notin ToSet(active')
        /\ ToSet(active) = ToSet(active') \cup {Head(active)}
    BY <2>1, Popped DEF Apart, Types
  <2> DEFINE none == <<>>
             one == Append(none, Head(active))
  <2>3. one = <<Head(active)>> /\ none \in Seq(Transfers) /\ ToSet(none) = {} /\ Once(none)
    BY DEF ToSet, Once
  <2> HIDE DEF none
  <2>4. one \in Seq(Transfers) /\ ToSet(one) = {Head(active)} /\ Once(one)
    BY <2>2, <2>3, Appended
  <2>5. /\ Once(free_transfers')
        /\ ToSet(free_transfers') = ToSet(free_transfers) \cup {Head(active)}
    <3>1. free_transfers' = one \o free_transfers
      BY <2>1, <2>3
    <3>2. ToSet(one) \cap ToSet(free_transfers) = {}
      BY <2>2, <2>4 DEF Apart
    <3> HIDE DEF one
    <3> QED
      BY <2>4, <3>1, <3>2, Joined DEF Apart, Types
  <2>6. Once(free_transfers)' /\ ToSet(free_transfers)' = ToSet(free_transfers')
    BY <2>5 DEF Once, ToSet
  <2>7. Once(active)' /\ ToSet(active)' = ToSet(active')
    BY <2>2 DEF Once, ToSet
  <2> QED
    BY <2>1, <2>2, <2>5, <2>6, <2>7 DEF Apart
<1>5. CASE UNCHANGED <<free_transfers, active, transfer>> /\ Holding' = Holding
  BY <1>5 DEF Apart, Once, ToSet
<1> QED
  BY <1>1, <1>2, <1>3, <1>4, <1>5, ListSteps DEF Types

-----------------------------------------------------------------------------
(* The threads *)

\* Pushing to the free list leaves it with a head.
LEMMA Pushed ==
  ASSUME Types
  PROVE  /\ free_transfers # <<>> => Reverse(active) \o free_transfers # <<>>
         /\ active # <<>> => <<Head(active)>> \o free_transfers # <<>>
         /\ Reverse(active) \o free_transfers \in Seq(Transfers)
         /\ active # <<>> => <<Head(active)>> \o free_transfers \in Seq(Transfers)
<1>1. ASSUME NEW s \in Seq(Transfers)
      PROVE  /\ s \o free_transfers \in Seq(Transfers)
             /\ s # <<>> \/ free_transfers # <<>> => s \o free_transfers # <<>>
  <2>1. /\ s \o free_transfers \in Seq(Transfers)
        /\ Len(s \o free_transfers) = Len(s) + Len(free_transfers)
    BY Joined DEF Types
  <2>2. /\ Len(s) \in Nat /\ Len(free_transfers) \in Nat
        /\ s # <<>> <=> Len(s) > 0
        /\ free_transfers # <<>> <=> Len(free_transfers) > 0
        /\ s \o free_transfers # <<>> <=> Len(s \o free_transfers) > 0
    BY <2>1, Elements DEF Types
  <2> QED
    BY <2>1, <2>2
<1>2. Reverse(active) \in Seq(Transfers)
  BY Reversed DEF Types
<1>3. active # <<>> => Head(active) \in Transfers
  BY Popped DEF Types
<1>4. active # <<>> => <<Head(active)>> \in Seq(Transfers) /\ <<Head(active)>> # <<>>
  BY <1>3
<1> QED
  BY <1>1, <1>2, <1>4

\* The list that was loaded is stored back only if no interrupt came between.
LEMMA TurnsKept ==
  ASSUME Types, Turns, [Next]_vars
  PROVE  Turns' /\ (NeverPopsEmpty => NeverPopsEmpty')
<1> USE DEF Turns, Masked, Appending, NeverPopsEmpty, Types, Threads, Step
<1>1. CASE Control
  BY <1>1 DEF Control, Schedule, CheckFree, LoadExclusive, CheckPriming, SetTripwire, SampleReady
<1>2. CASE Spins \/ Entries
  BY <1>2 DEF Spins, Entries, FlushPrimed, FlushWait, BeginFlush, RequestEvent, TransferEvent,
     CompleteEnd, EnterIsr
<1>3. CASE StoreExclusive \/ Fill \/ Link \/ WaitReady \/ ConfirmSample
  BY <1>3 DEF StoreExclusive, Pop, Fill, Link, WaitReady, ConfirmSample
<1>4. CASE \E th \in Threads : FlushQueue(th)
  BY <1>4, Pushed DEF FlushQueue
<1>5. CASE CompleteTransfer
  BY <1>5, Pushed DEF CompleteTransfer, Finished
<1>6. CASE HwNext \/ UNCHANGED vars
  BY <1>6 DEF HwNext
<1> QED
  BY <1>1, <1>2, <1>3, <1>4, <1>5, <1>6, Steps

\* The controller's state keeps its types.
LEMMA ControllerTypesKept ==
  ASSUME Types, Bits, ControllerNext
  PROVE  ControllerTypeOK'
<1> USE DEF Types, ControllerTypeOK
<1>1. CASE HwPrime \/ HwAdvance
  <2>1. /\ UNCHANGED <<tdVars, qh_next, flush, complete, tripwire, seen, ran, refused>>
        /\ prime' \in BOOLEAN
    BY <1>1 DEF HwPrime, HwAdvance
  <2>2. unit' \in {"off", "armed"} /\ cur' \in Transfers \cup {TERMINATE} /\ cur_job' \in Nat
    BY <1>1 DEF HwPrime, HwAdvance, Execute
  <2> QED
    BY <2>1, <2>2
<1>2. CASE HwPacket \/ HwMorePackets \/ HwFlush
  <2>1. /\ UNCHANGED <<tdVars, qh_next, prime, complete, tripwire, seen, ran>>
        /\ flush' \in BOOLEAN /\ refused' \in BOOLEAN /\ unit' \in {"off", "armed", "packet"}
        /\ cur' \in {cur, TERMINATE} /\ cur_job' \in {cur_job, 0}
    BY <1>2 DEF HwPacket, HwMorePackets, HwFlush
  <2> QED
    BY <2>1
<1>3. CASE HwReadLink
  <2>1. td_next[cur] \in Transfers \cup {TERMINATE}
    BY <1>3 DEF HwReadLink, Bits
  <2> QED
    BY <1>3, <2>1 DEF HwReadLink
<1>4. CASE HwRetire
  BY <1>4 DEF HwRetire
<1> QED
  BY <1>1, <1>2, <1>3, <1>4 DEF ControllerNext, ControllerAlone

\* The types are kept by every step.
LEMMA TypesKept ==
  ASSUME Types, Apart, Turns, Bits, Chain, Jobs, NeverPopsEmpty, [Next]_vars
  PROVE  Types'
<1> USE DEF Types
<1>1. CASE Control \/ Spins \/ Entries
  <2>1. UNCHANGED <<listVars, transfer, issued, done, tdVars, qh_next, prime, unitVars>>
    BY <1>1 DEF Control, Schedule, CheckFree, LoadExclusive, CheckPriming, SetTripwire,
       SampleReady, Spins, Entries, FlushPrimed, FlushWait, BeginFlush, RequestEvent,
       TransferEvent, CompleteEnd
  <2>2. /\ flush' \in BOOLEAN /\ complete' \in BOOLEAN /\ tripwire' \in BOOLEAN
        /\ monitor' \in BOOLEAN /\ sampled' \in BOOLEAN /\ held' \in Seq(Transfers)
    BY <1>1 DEF Control, Schedule, CheckFree, LoadExclusive, CheckPriming, SetTripwire,
       SampleReady, Spins, Entries, FlushPrimed, FlushWait, BeginFlush, RequestEvent,
       TransferEvent, CompleteEnd, EnterIsr, ControllerTypeOK, Hazard, Ready
  <2>3. pc' \in [Threads -> Places]
    BY <1>1 DEF Control, Schedule, CheckFree, LoadExclusive, CheckPriming, SetTripwire,
       SampleReady, Spins, Entries, FlushPrimed, FlushWait, BeginFlush, RequestEvent,
       TransferEvent, CompleteEnd, EnterIsr, Step, Places
  <2> QED
    BY <2>1, <2>2, <2>3 DEF ControllerTypeOK
<1>2. CASE StoreExclusive
  <2>1. free_transfers' \in Seq(Transfers) /\ transfer' \in Transfers \cup {TERMINATE}
    <3>1. CASE monitor
      <4>1. /\ free_transfers' = Tail(free_transfers) /\ transfer' = Head(free_transfers)
            /\ free_transfers # <<>>
        BY <1>2, <3>1 DEF StoreExclusive, Pop, Step, Turns, NeverPopsEmpty
      <4> QED
        BY <4>1, Popped
    <3>2. CASE ~monitor
      BY <1>2, <3>2 DEF StoreExclusive
    <3> QED
      BY <3>1, <3>2
  <2>2. pc' \in [Threads -> Places] /\ monitor' \in BOOLEAN
    BY <1>2 DEF StoreExclusive, Step, Places
  <2> QED
    BY <1>2, <2>1, <2>2 DEF StoreExclusive, ControllerTypeOK
<1>3. CASE Fill
  <2>1. issued + 1 \in 0 .. MaxJobs /\ issued + 1 \in Nat
    BY <1>3, JobsAssumption DEF Fill, Step, Jobs
  <2>2. /\ td_next' \in [Transfers -> Transfers \cup {TERMINATE}]
        /\ td_active' \in [Transfers -> BOOLEAN]
    BY <1>3 DEF Fill, ControllerTypeOK
  <2>3. job' \in [Transfers -> Nat]
    BY <1>3, <2>1 DEF Fill, ControllerTypeOK
  <2>4. pc' \in [Threads -> Places]
    BY <1>3 DEF Fill, Step, Places
  <2> QED
    BY <1>3, <2>1, <2>2, <2>3, <2>4 DEF Fill, ControllerTypeOK
<1>4. CASE Link
  <2>1. transfer \in Transfers
    BY <1>4 DEF Link, Step, Holding, Apart
  <2>2. active' \in Seq(Transfers)
    BY <1>4, <2>1, Appended DEF Link
  <2>3. td_next' \in [Transfers -> Transfers \cup {TERMINATE}]
    BY <1>4, <2>1 DEF Link, ControllerTypeOK
  <2>4. pc' \in [Threads -> Places]
    BY <1>4 DEF Link, Step, Places
  <2> QED
    BY <1>4, <2>2, <2>3, <2>4 DEF Link, ControllerTypeOK
<1>5. CASE WaitReady \/ ConfirmSample
  <2>1. UNCHANGED <<PrimeStays, listVars, allocVars, sampled, issued, done>>
    BY <1>5 DEF WaitReady, ConfirmSample
  <2>2. /\ td_next' \in [Transfers -> Transfers \cup {TERMINATE}]
        /\ qh_next' \in Transfers \cup {TERMINATE} /\ prime' \in BOOLEAN /\ tripwire' \in BOOLEAN
    BY <1>5 DEF WaitReady, ConfirmSample, Prime, ControllerTypeOK
  <2>3. pc' \in [Threads -> Places]
    BY <1>5 DEF WaitReady, ConfirmSample, Step, Places
  <2> QED
    BY <2>1, <2>2, <2>3 DEF ControllerTypeOK
<1>6. CASE \E th \in Threads : FlushQueue(th)
  <2>1. free_transfers' \in Seq(Transfers) /\ active' = <<>>
    BY <1>6, Pushed DEF FlushQueue
  <2> QED
    BY <1>6, <2>1 DEF FlushQueue, Step, Places, ControllerTypeOK
<1>7. CASE CompleteTransfer
  <2>1. /\ active # <<>> /\ Head(active) = active[1]
        /\ free_transfers' \in Seq(Transfers) /\ active' \in Seq(Transfers)
    BY <1>7, Pushed, Popped DEF CompleteTransfer, Finished
  <2>2. 1 \in 1 .. Len(active) /\ active[1] \in Transfers
    BY <2>1, Elements
  <2>3. done' \in 0 .. MaxJobs
    <3>1. done' = job[active[1]] /\ job[active[1]] \in Nat
      BY <1>7, <2>1, <2>2 DEF CompleteTransfer, ControllerTypeOK
    <3>2. job[active[1]] <= issued
      BY <2>2 DEF Jobs
    <3> QED
      BY <3>1, <3>2, JobsAssumption
  <2> QED
    BY <1>7, <2>1, <2>3 DEF CompleteTransfer, ControllerTypeOK
<1>8. CASE HwNext
  <2>1. ControllerTypeOK' /\ UNCHANGED <<listVars, pc, allocVars, sampled, issued, done>>
    BY <1>8, ControllerTypesKept DEF HwNext
  <2> QED
    BY <2>1
<1>9. CASE UNCHANGED vars
  BY <1>9 DEF ControllerTypeOK
<1> QED
  BY <1>1, <1>2, <1>3, <1>4, <1>5, <1>6, <1>7, <1>8, <1>9, Steps

-----------------------------------------------------------------------------
(* What the driver tells the controller *)

\* The bits of the controller and the turns of the threads stay consistent.
LEMMA BitsKept ==
  ASSUME Types, Turns, Bits, Chain, [Next]_vars
  PROVE  Bits'
<1> USE DEF Types, ControllerTypeOK, Bits, Threads, Hazard, Ready, Step
<1>1. CASE Control
  <2>1. CASE SetTripwire
    <3>1. UNCHANGED <<qh_next, prime, flush, unitVars, sampled>> /\ (tripwire' => ~Hazard)
      BY <2>1, Zenon DEF SetTripwire
    <3>2. Step("main", "tripwire", "sample")
      BY <2>1 DEF SetTripwire
    <3> QED
      BY <3>1, <3>2
  <2>3. CASE SampleReady
    <3>1. UNCHANGED <<qh_next, prime, flush, tripwire, unitVars>> /\ (sampled' <=> Ready)
      BY <2>3, Zenon DEF SampleReady
    <3>2. Step("main", "sample", "confirm")
      BY <2>3 DEF SampleReady
    <3> QED
      BY <3>1, <3>2
  <2>2. CASE Schedule \/ CheckFree \/ LoadExclusive \/ CheckPriming
    BY <2>2 DEF Schedule, CheckFree, LoadExclusive, CheckPriming
  <2> QED
    BY <1>1, <2>1, <2>2, <2>3 DEF Control
<1>2. CASE Spins
  BY <1>2 DEF Spins, FlushPrimed, FlushWait
<1>3. CASE Entries
  BY <1>3 DEF Entries, BeginFlush, RequestEvent, TransferEvent, CompleteEnd, EnterIsr
<1>4. CASE StoreExclusive \/ Fill \/ Link
  BY <1>4 DEF StoreExclusive, Fill, Link
<1>5. CASE WaitReady \/ ConfirmSample
  <2>1. Masked
    BY <1>5 DEF WaitReady, ConfirmSample, Masked, Appending
  <2>2. transfer \in Transfers
    <3>1. Len(active) \in 1 .. Len(active) /\ transfer = active[Len(active)]
      BY <2>1, Elements DEF Chain
    <3> QED
      BY <3>1, Elements
  <2> QED
    BY <1>5, <2>2 DEF WaitReady, ConfirmSample, Prime
<1>6. CASE (\E th \in Threads : FlushQueue(th)) \/ CompleteTransfer
  BY <1>6 DEF FlushQueue, CompleteTransfer
<1>7. CASE HwNext
  <2>1. UNCHANGED <<pc, sampled>>
    BY <1>7 DEF HwNext
  <2>2. pc["main"] = "confirm" => pc["isr"] = "idle"
    BY DEF Turns, Masked, Appending
  <2>3. CASE HwPrime \/ HwAdvance
    BY <2>1, <2>2, <2>3 DEF HwPrime, HwAdvance, Execute
  <2>4. CASE HwPacket \/ HwMorePackets \/ HwReadLink \/ HwRetire
    BY <2>1, <2>2, <2>4 DEF HwPacket, HwMorePackets, HwReadLink, HwRetire
  <2>5. CASE HwFlush
    BY <2>1, <2>2, <2>5 DEF HwFlush
  <2> QED
    BY <1>7, <2>3, <2>4, <2>5 DEF HwNext, ControllerNext, ControllerAlone
<1>8. CASE UNCHANGED vars
  BY <1>8
<1> QED
  BY <1>1, <1>2, <1>3, <1>4, <1>5, <1>6, <1>7, <1>8, Steps

-----------------------------------------------------------------------------
(* The chain of descriptors *)

\* In the list, a transfer that is in hand or masked.
LEMMA InList ==
  ASSUME Types, Apart, Chain
  PROVE  /\ \A i \in 1 .. Len(active) : active[i] \in Transfers /\ active[i] \in ToSet(active)
         /\ Holding => \A i \in 1 .. Len(active) : active[i] # transfer
         /\ Masked => /\ Len(active) \in 1 .. Len(active) /\ transfer = active[Len(active)]
                      /\ transfer \in Transfers
         /\ Len(active) \in Nat
<1>1. /\ \A i \in 1 .. Len(active) : active[i] \in Transfers /\ active[i] \in ToSet(active)
      /\ Len(active) \in Nat /\ (active # <<>> <=> Len(active) > 0)
  BY Elements DEF Types
<1>2. Masked => /\ Len(active) \in 1 .. Len(active) /\ transfer = active[Len(active)]
                /\ transfer \in Transfers
  BY <1>1 DEF Chain
<1> QED
  BY <1>1, <1>2 DEF Apart

\* What the steps that move transfers do to the indices of the active list.
LEMMA LinkedAt ==
  ASSUME Types, Apart, Link
  PROVE  /\ transfer \in Transfers /\ transfer' = transfer /\ Len(active) \in Nat
         /\ Len(active') = Len(active) + 1 /\ active'[Len(active')] = transfer
         /\ \A i \in 1 .. Len(active) : active'[i] = active[i]
         /\ active = <<>> => Len(active) = 0 /\ td_next' = td_next
         /\ active # <<>> => /\ Len(active) > 0
                             /\ td_next' = [td_next EXCEPT ![active[Len(active)]] = transfer]
<1>1. transfer \in Transfers /\ transfer' = transfer /\ active' = Append(active, transfer)
  BY DEF Link, Step, Holding, Apart
<1>2. /\ Len(active') = Len(active) + 1 /\ active'[Len(active) + 1] = transfer
      /\ \A i \in 1 .. Len(active) : active'[i] = active[i]
  BY <1>1, Appended DEF Types
<1>3. Len(active) \in Nat /\ (active # <<>> <=> Len(active) > 0)
  BY Elements DEF Types
<1>4. active = <<>> => td_next' = td_next
  BY DEF Link
<1>5. active # <<>> => td_next' = [td_next EXCEPT ![active[Len(active)]] = transfer]
  BY DEF Link, Last
<1> QED
  BY <1>1, <1>2, <1>3, <1>4, <1>5

\* A completion takes the first of the active list, which the controller has retired.
LEMMA CompletedAt ==
  ASSUME Types, CompleteTransfer
  PROVE  /\ Len(active) \in Nat \ {0} /\ active # <<>> /\ ~td_active[active[1]]
         /\ Len(active') = Len(active) - 1
         /\ \A i \in 1 .. Len(active') : i + 1 \in 1 .. Len(active) /\ active'[i] = active[i + 1]
         /\ done' = job[active[1]]
<1>1. active # <<>> /\ active' = Tail(active) /\ ~td_active[Head(active)] /\ done' = job[Head(active)]
  BY DEF CompleteTransfer, Finished
<1>2. Len(active) \in Nat /\ Len(active) > 0 /\ Head(active) = active[1]
  BY <1>1, Elements, Popped DEF Types
<1>3. Len(active') = Len(active) - 1 /\ \A i \in 1 .. Len(active) - 1 : active'[i] = active[i + 1]
  BY <1>1, Popped DEF Types
<1> QED
  BY <1>1, <1>2, <1>3

\* The descriptors stay linked in the order of the active list.
LEMMA ChainKept ==
  ASSUME Types, Apart, Turns, Chain, [Next]_vars
  PROVE  Chain'
<1> USE DEF Types, ControllerTypeOK, Threads, Step
<1>1. CASE Control
  <2>1. UNCHANGED <<active, transfer, td_next>>
    BY <1>1 DEF Control, Schedule, CheckFree, LoadExclusive, CheckPriming, SetTripwire, SampleReady
  <2>2. (Masked' => Masked) /\ pc'["main"] \notin {"link", "wait_ready"} /\ Window' = Window
    BY <1>1 DEF Control, Schedule, CheckFree, LoadExclusive, CheckPriming, SetTripwire,
       SampleReady, Masked, Appending, Window
  <2> QED
    BY <2>1, <2>2 DEF Chain
<1>2. CASE Spins \/ Entries
  <2>1. UNCHANGED <<active, transfer, td_next>>
    BY <1>2 DEF Spins, Entries, FlushPrimed, FlushWait, BeginFlush, RequestEvent, TransferEvent,
       CompleteEnd
  <2>2. /\ Masked' = Masked /\ (Window' => Window)
        /\ pc'["main"] = "link" => pc["main"] = "link"
        /\ pc'["main"] = "wait_ready" => pc["main"] = "wait_ready"
    BY <1>2 DEF Spins, Entries, FlushPrimed, FlushWait, BeginFlush, RequestEvent, TransferEvent,
       CompleteEnd, EnterIsr, Masked, Appending, Window
  <2> QED
    BY <2>1, <2>2 DEF Chain
<1>3. CASE StoreExclusive
  <2>1. UNCHANGED <<active, td_next>> /\ ~Masked' /\ ~Window' /\ pc'["main"] # "link"
    BY <1>3, Zenon DEF StoreExclusive, Masked, Appending, Window, Turns
  <2> QED
    BY <2>1 DEF Chain, Masked, Appending
<1>4. CASE Fill
  <2>1. UNCHANGED <<active, transfer>> /\ td_next' = [td_next EXCEPT ![transfer] = TERMINATE]
        /\ transfer \in Transfers
    BY <1>4 DEF Fill, Holding, Apart
  <2>2. ~Masked' /\ pc'["main"] = "link" /\ (Window' => Window)
    BY <1>4 DEF Fill, Masked, Appending, Window
  <2>3. \A i \in 1 .. Len(active) : td_next'[active[i]] = td_next[active[i]]
    BY <1>4, <2>1, InList DEF Fill, Holding
  <2> QED
    BY <2>1, <2>2, <2>3 DEF Chain
<1>5. CASE Link
  <2>1. ~Window' /\ Masked' /\ pc'["main"] # "link"
    BY <1>5 DEF Link, Masked, Appending, Window, Turns
  <2>2. pc'["main"] = "wait_ready" => active = <<>>
    BY <1>5 DEF Link
  <2> DEFINE n == Len(active)
  <2>3. /\ n \in Nat /\ Len(active') = n + 1 /\ active'[n + 1] = transfer /\ active' # <<>>
        /\ \A i \in 1 .. n : active'[i] = active[i] /\ active[i] \in Transfers /\ active[i] # transfer
        /\ \A i, j \in 1 .. n : active[i] = active[j] => i = j
        /\ transfer \in Transfers /\ transfer' = transfer
    <3>1. Holding
      BY <1>5 DEF Link, Holding
    <3>2. active' # <<>>
      BY <1>5, LinkedAt
    <3> QED
      BY <1>5, <3>1, <3>2, LinkedAt, InList DEF Apart, Once
  <2>4. /\ n = 0 => td_next' = td_next
        /\ n # 0 => td_next' = [td_next EXCEPT ![active[n]] = transfer]
        /\ n = 0 <=> active = <<>>
    BY <1>5, LinkedAt
  <2>5. /\ \A i \in 1 .. n : td_next[active[i]] = IF i = n THEN TERMINATE ELSE active[i + 1]
        /\ td_next[transfer] = TERMINATE /\ td_next \in [Transfers -> Transfers \cup {TERMINATE}]
    BY <1>5 DEF Link, Chain
  <2>6. \A i \in 1 .. n : td_next'[active[i]] = IF i = n THEN transfer ELSE active[i + 1]
    <3> HIDE DEF n
    <3> TAKE i \in 1 .. n
    <3>1. n # 0 /\ n \in 1 .. n /\ active[i] \in Transfers
      BY <2>3
    <3>2. td_next' = [td_next EXCEPT ![active[n]] = transfer]
      BY <2>4, <3>1
    <3>3. i # n => active[i] # active[n]
      BY <2>3, <3>1
    <3> QED
      BY <2>5, <3>1, <3>2, <3>3
  <2>7. td_next'[transfer] = TERMINATE
    BY <2>3, <2>4, <2>5
  <2>8. \A i \in 1 .. n + 1 : td_next'[active'[i]] = IF i = n + 1 THEN TERMINATE ELSE active'[i + 1]
    <3> HIDE DEF n
    <3> TAKE i \in 1 .. n + 1
    <3>1. CASE i = n + 1
      BY <3>1, <2>3, <2>7
    <3>2. CASE i # n + 1
      <4>1. i \in 1 .. n
        BY <3>2, <2>3
      <4>2. i # n => i + 1 \in 1 .. n
        BY <4>1, <2>3
      <4> QED
        BY <4>1, <4>2, <3>2, <2>3, <2>6
    <3> QED
      BY <3>1, <3>2
  <2>9. pc'["main"] = "wait_ready" => Len(active') = 1
    BY <2>2, <2>3, <2>4
  <2> QED
    BY <2>1, <2>3, <2>8, <2>9 DEF Chain
<1>6. CASE WaitReady
  <2>1. /\ UNCHANGED <<active, transfer>> /\ td_next' = [td_next EXCEPT ![transfer] = TERMINATE]
        /\ Len(active) = 1 /\ transfer = active[1] /\ transfer \in Transfers
    BY <1>6, InList DEF WaitReady, Masked, Chain
  <2>2. ~Masked' /\ ~Window' /\ pc'["main"] = "idle"
    BY <1>6 DEF WaitReady, Masked, Appending, Window
  <2> QED
    BY <2>1, <2>2 DEF Chain
<1>7. CASE ConfirmSample
  <2>1. UNCHANGED <<active, transfer, td_next>>
    BY <1>7 DEF ConfirmSample
  <2>2. Masked /\ (Window' => Window) /\ pc'["main"] \notin {"link", "wait_ready"}
    BY <1>7 DEF ConfirmSample, Masked, Appending, Window
  <2> QED
    BY <2>1, <2>2 DEF Chain
<1>8. CASE \E th \in Threads : FlushQueue(th)
  <2>1. active' = <<>> /\ UNCHANGED <<transfer, td_next>>
    BY <1>8 DEF FlushQueue
  <2>2. ~Masked' /\ (pc'["main"] = "link" => pc["main"] = "link")
    BY <1>8 DEF FlushQueue, Masked, Appending, Turns
  <2> QED
    BY <2>1, <2>2 DEF Chain, Masked, Appending
<1>9. CASE CompleteTransfer
  <2>1. UNCHANGED <<pc, td_next, transfer>> /\ ~Masked
    BY <1>9 DEF CompleteTransfer, Turns
  <2>2. ~Window
    BY <1>9, CompletedAt DEF Chain
  <2> DEFINE n == Len(active)
  <2>3. /\ n \in Nat /\ Len(active') = n - 1
        /\ \A i \in 1 .. n - 1 : i + 1 \in 1 .. n /\ active'[i] = active[i + 1]
    BY <1>9, CompletedAt
  <2>4. \A i \in 1 .. n : td_next[active[i]] = IF i = n THEN TERMINATE ELSE active[i + 1]
    BY DEF Chain
  <2>5. \A i \in 1 .. n - 1 : td_next[active'[i]] = IF i = n - 1 THEN TERMINATE ELSE active'[i + 1]
    <3> HIDE DEF n
    <3> TAKE i \in 1 .. n - 1
    <3>1. i + 1 \in 1 .. n /\ active'[i] = active[i + 1]
      BY <2>3
    <3>2. td_next[active[i + 1]] = IF i + 1 = n THEN TERMINATE ELSE active[i + 1 + 1]
      BY <2>4, <3>1
    <3>3. i # n - 1 => i + 1 \in 1 .. n - 1
      BY <2>3
    <3> QED
      BY <3>1, <3>2, <3>3, <2>3
  <2> QED
    BY <2>1, <2>2, <2>3, <2>5 DEF Chain, Masked, Appending, Window
<1>10. CASE HwNext
  <2>1. UNCHANGED <<active, transfer, td_next, pc>>
    BY <1>10 DEF HwNext, ControllerNext, ControllerAlone, HwPrime, HwPacket, HwMorePackets,
       HwReadLink, HwRetire, HwAdvance, HwFlush
  <2> QED
    BY <2>1 DEF Chain, Masked, Appending, Window
<1>11. CASE UNCHANGED vars
  BY <1>11 DEF Chain, Masked, Appending, Window
<1> QED
  BY <1>1, <1>2, <1>3, <1>4, <1>5, <1>6, <1>7, <1>8, <1>9, <1>10, <1>11, Steps

\* The jobs of the active transfers stay in the order of scheduling.
LEMMA JobsKept ==
  ASSUME Types, Apart, Turns, Chain, Jobs, [Next]_vars
  PROVE  Jobs'
<1> USE DEF Types, Threads, Step
<1>1. CASE Control \/ Spins \/ Entries
  <2>1. UNCHANGED <<active, transfer, job, done, issued>>
    BY <1>1 DEF Control, Schedule, CheckFree, LoadExclusive, CheckPriming, SetTripwire,
       SampleReady, Spins, Entries, FlushPrimed, FlushWait, BeginFlush, RequestEvent,
       TransferEvent, CompleteEnd
  <2>2. /\ pc'["main"] = "link" => pc["main"] = "link"
        /\ pc'["main"] \in {"alloc", "load", "store", "fill"} => issued < MaxJobs
    BY <1>1 DEF Control, Schedule, CheckFree, LoadExclusive, CheckPriming, SetTripwire,
       SampleReady, Spins, Entries, FlushPrimed, FlushWait, BeginFlush, RequestEvent,
       TransferEvent, CompleteEnd, EnterIsr, Jobs
  <2> QED
    BY <2>1, <2>2 DEF Jobs
<1>2. CASE StoreExclusive \/ WaitReady \/ ConfirmSample
  <2>1. UNCHANGED <<active, job, done, issued>>
    BY <1>2 DEF StoreExclusive, WaitReady, ConfirmSample
  <2>2. /\ pc'["main"] # "link"
        /\ pc'["main"] \in {"alloc", "load", "store", "fill"} => issued < MaxJobs
    BY <1>2 DEF StoreExclusive, WaitReady, ConfirmSample, Jobs
  <2> QED
    BY <2>1, <2>2 DEF Jobs
<1>3. CASE Fill
  <2>1. /\ UNCHANGED <<active, transfer, done>> /\ job' = [job EXCEPT ![transfer] = issued + 1]
        /\ issued' = issued + 1 /\ issued \in Nat /\ issued < MaxJobs /\ transfer \in Transfers
        /\ pc["main"] = "fill" /\ pc'["main"] = "link"
    BY <1>3 DEF Fill, Holding, Apart, Jobs
  <2>2. \A i \in 1 .. Len(active) : job'[active[i]] = job[active[i]] /\ job[active[i]] \in Nat
    BY <2>1, InList DEF Holding, ControllerTypeOK
  <2>3. job'[transfer] = issued' /\ done \in Nat /\ done <= issued
    BY <2>1 DEF ControllerTypeOK, Jobs
  <2>4. \A i \in 1 .. Len(active) : done < job[active[i]] /\ job[active[i]] <= issued
    BY DEF Jobs
  <2>5. \A i, j \in 1 .. Len(active) : i < j => job[active[i]] < job[active[j]]
    BY DEF Jobs
  <2> QED
    BY <2>1, <2>2, <2>3, <2>4, <2>5 DEF Jobs
<1>4. CASE Link
  <2> DEFINE n == Len(active)
  <2>1. /\ n \in Nat /\ Len(active') = n + 1 /\ active'[n + 1] = transfer
        /\ \A i \in 1 .. n : active'[i] = active[i]
    BY <1>4, LinkedAt
  <2>2. UNCHANGED <<job, issued, done>> /\ pc["main"] = "link" /\ pc'["main"] \in {"wait_ready", "append"}
    BY <1>4 DEF Link
  <2>3. /\ \A i, j \in 1 .. n : i < j => job[active[i]] < job[active[j]]
        /\ \A i \in 1 .. n : done < job[active[i]] /\ job[active[i]] < issued
        /\ job[transfer] = issued /\ done < issued /\ issued \in Nat
    BY <2>2 DEF Jobs
  <2>4. \A i \in 1 .. n + 1 : done < job[active'[i]] /\ job[active'[i]] <= issued
    <3> HIDE DEF n
    <3> TAKE i \in 1 .. n + 1
    <3>1. CASE i = n + 1
      BY <3>1, <2>1, <2>3
    <3>2. CASE i # n + 1
      <4>1. i \in 1 .. n
        BY <3>2, <2>1
      <4>2. active'[i] = active[i] /\ done < job[active[i]] /\ job[active[i]] < issued
        BY <4>1, <2>1, <2>3
      <4>3. job[active[i]] \in Nat
        BY <4>1, InList DEF ControllerTypeOK, n
      <4> QED
        BY <4>2, <4>3, <2>3
    <3> QED
      BY <3>1, <3>2
  <2>5. \A i, j \in 1 .. n + 1 : i < j => job[active'[i]] < job[active'[j]]
    <3> HIDE DEF n
    <3> TAKE i, j \in 1 .. n + 1
    <3> HAVE i < j
    <3>1. i \in 1 .. n /\ active'[i] = active[i]
      BY <2>1
    <3>2. CASE j = n + 1
      BY <3>1, <3>2, <2>1, <2>3
    <3>3. CASE j # n + 1
      <4>1. j \in 1 .. n
        BY <3>3, <2>1
      <4> QED
        BY <4>1, <3>1, <2>1, <2>3
    <3> QED
      BY <3>2, <3>3
  <2> QED
    BY <2>1, <2>2, <2>3, <2>4, <2>5 DEF Jobs
<1>5. CASE \E th \in Threads : FlushQueue(th)
  <2>1. active' = <<>> /\ UNCHANGED <<transfer, job, done, issued>>
    BY <1>5 DEF FlushQueue
  <2>2. /\ pc'["main"] = "link" => pc["main"] = "link"
        /\ pc'["main"] \in {"alloc", "load", "store", "fill"} => issued < MaxJobs
    BY <1>5 DEF FlushQueue, Jobs
  <2>3. Len(active') = 0
    BY <2>1
  <2> QED
    BY <2>1, <2>2, <2>3 DEF Jobs
<1>6. CASE CompleteTransfer
  <2> DEFINE n == Len(active)
  <2>1. /\ n \in Nat \ {0} /\ Len(active') = n - 1 /\ done' = job[active[1]]
        /\ \A i \in 1 .. n - 1 : i + 1 \in 1 .. n /\ active'[i] = active[i + 1]
    BY <1>6, CompletedAt
  <2>2. UNCHANGED <<pc, transfer, job, issued>>
    BY <1>6 DEF CompleteTransfer
  <2>3. /\ \A i, j \in 1 .. n : i < j => job[active[i]] < job[active[j]]
        /\ \A i \in 1 .. n : job[active[i]] <= issued
        /\ pc["main"] = "link" => /\ job[transfer] = issued
                                  /\ \A i \in 1 .. n : job[active[i]] < issued
        /\ pc["main"] \in {"alloc", "load", "store", "fill"} => issued < MaxJobs
    BY DEF Jobs
  <2>4. 1 \in 1 .. n
    BY <2>1
  <2>5. \A i \in 1 .. n - 1 : done' < job[active'[i]] /\ job[active'[i]] <= issued
    <3> HIDE DEF n
    <3> TAKE i \in 1 .. n - 1
    <3>1. i + 1 \in 1 .. n /\ 1 < i + 1 /\ active'[i] = active[i + 1]
      BY <2>1
    <3> QED
      BY <3>1, <2>1, <2>3, <2>4
  <2>6. \A i, j \in 1 .. n - 1 : i < j => job[active'[i]] < job[active'[j]]
    <3> HIDE DEF n
    <3> TAKE i, j \in 1 .. n - 1
    <3> HAVE i < j
    <3>1. /\ i + 1 \in 1 .. n /\ active'[i] = active[i + 1]
          /\ j + 1 \in 1 .. n /\ active'[j] = active[j + 1] /\ i + 1 < j + 1
      BY <2>1
    <3> QED
      BY <3>1, <2>3
  <2> QED
    BY <2>1, <2>2, <2>3, <2>4, <2>5, <2>6 DEF Jobs
<1>7. CASE HwNext
  <2>1. UNCHANGED <<active, transfer, job, pc, issued, done>>
    BY <1>7 DEF HwNext, ControllerNext, ControllerAlone, HwPrime, HwPacket, HwMorePackets,
       HwReadLink, HwRetire, HwAdvance, HwFlush
  <2> QED
    BY <2>1 DEF Jobs
<1>8. CASE UNCHANGED vars
  BY <1>8 DEF Jobs
<1> QED
  BY <1>1, <1>2, <1>3, <1>4, <1>5, <1>6, <1>7, <1>8, Steps

-----------------------------------------------------------------------------
(* What the controller follows *)

\* A flush that was dropped is not undone.
LEMMA RefusedStays ==
  ASSUME [Next]_vars, ~refused'
  PROVE  ~refused
<1>1. CASE Control \/ Spins \/ Entries
  BY <1>1 DEF Control, Schedule, CheckFree, LoadExclusive, CheckPriming, SetTripwire, SampleReady,
     Spins, Entries, FlushPrimed, FlushWait, BeginFlush, RequestEvent, TransferEvent, CompleteEnd
<1>2. CASE StoreExclusive \/ Fill \/ Link \/ WaitReady \/ ConfirmSample \/ CompleteTransfer
  BY <1>2 DEF StoreExclusive, Fill, Link, WaitReady, ConfirmSample, CompleteTransfer
<1>3. CASE \E th \in Threads : FlushQueue(th)
  BY <1>3 DEF FlushQueue
<1>4. CASE HwNext
  BY <1>4 DEF HwNext, ControllerNext, ControllerAlone, HwPrime, HwPacket, HwMorePackets,
     HwReadLink, HwRetire, HwAdvance, HwFlush
<1> QED
  BY <1>1, <1>2, <1>3, <1>4, Steps

\* Between emptying the list and the end of the flush.
LEMMA FlushingKept ==
  ASSUME Types, Turns, Bits, Chain, Window, Flushing, [Next]_vars
  PROVE  Flushing'
<1>1. PICK C \in SUBSET ToSet(free_transfers) : Within(C)
  BY DEF Flushing
<1> SUFFICES C \subseteq ToSet(free_transfers)' /\ Within(C)'
  BY DEF Flushing
<1> USE DEF Types, ControllerTypeOK, Threads, Step
<1>2. CASE Control \/ Spins \/ Entries
  <2>1. UNCHANGED <<free_transfers, td_next>>
    BY <1>2 DEF Control, Schedule, CheckFree, LoadExclusive, CheckPriming, SetTripwire,
       SampleReady, Spins, Entries, FlushPrimed, FlushWait, BeginFlush, RequestEvent,
       TransferEvent, CompleteEnd
  <2>2. UNCHANGED <<prime, qh_next, unit, cur, seen>>
    BY <1>2 DEF Control, Schedule, CheckFree, LoadExclusive, CheckPriming, SetTripwire,
       SampleReady, Spins, Entries, FlushPrimed, FlushWait, BeginFlush, RequestEvent,
       TransferEvent, CompleteEnd
  <2> QED
    BY <1>1, <2>1, <2>2 DEF Within, ToSet
<1>3. ASSUME StoreExclusive \/ Fill \/ Link \/ WaitReady \/ ConfirmSample
      PROVE  FALSE
  BY <1>3 DEF Window, StoreExclusive, Fill, Link, WaitReady, ConfirmSample
<1>4. CASE \E th \in Threads : FlushQueue(th)
  <2>1. UNCHANGED <<td_next, prime, qh_next, unit, cur, seen>>
    BY <1>4 DEF FlushQueue
  <2>2. active = <<>> /\ free_transfers' = Reverse(active) \o free_transfers
    BY <1>4 DEF FlushQueue, Chain
  <2> DEFINE back == Reverse(active)
  <2>3. back \in Seq(Transfers)
    BY Reversed
  <2>4. free_transfers' = back \o free_transfers
    BY <2>2
  <2>5. ToSet(free_transfers) \subseteq ToSet(free_transfers')
    <3> HIDE DEF back
    <3> QED
      BY <2>3, <2>4, Joined
  <2>6. ToSet(free_transfers)' = ToSet(free_transfers')
    BY DEF ToSet
  <2> QED
    BY <1>1, <2>1, <2>5, <2>6 DEF Within
<1>5. ASSUME CompleteTransfer
      PROVE  FALSE
  BY <1>5, CompletedAt DEF Chain
<1>6. CASE HwNext
  <2>1. UNCHANGED <<free_transfers, td_next>>
    BY <1>6 DEF HwNext, ControllerNext, ControllerAlone, HwPrime, HwPacket, HwMorePackets,
       HwReadLink, HwRetire, HwAdvance, HwFlush
  <2>2. /\ prime' => qh_next' \in C
        /\ unit' \in {"armed", "packet", "retire"} => cur' \in C
        /\ unit' \in {"retire", "advance"} => seen' \in C \cup {TERMINATE}
    <3>1. CASE HwPrime
      BY <1>1, <3>1 DEF HwPrime, Execute, Within
    <3>2. CASE HwAdvance
      BY <1>1, <3>2 DEF HwAdvance, Execute, Within, Transfers, TERMINATE, Bits
    <3>3. CASE HwPacket \/ HwMorePackets \/ HwReadLink \/ HwRetire \/ HwFlush
      BY <1>1, <3>3 DEF HwPacket, HwMorePackets, HwReadLink, HwRetire, HwFlush, Within
    <3> QED
      BY <1>6, <3>1, <3>2, <3>3 DEF HwNext, ControllerNext, ControllerAlone
  <2> QED
    BY <1>1, <2>1, <2>2 DEF Within, ToSet
<1>7. CASE UNCHANGED vars
  BY <1>1, <1>7 DEF Within, ToSet
<1> QED
  BY <1>2, <1>3, <1>4, <1>5, <1>6, <1>7, Steps

\* What the controller was following is on the free list after the flush.
LEMMA FlushingStarts ==
  ASSUME Types, Apart, Bits, Chain, Progress, NEW th \in Threads, FlushQueue(th)
  PROVE  Flushing'
<1> DEFINE back == Reverse(active)
<1>0. PICK C : C = ToSet(active)
  OBVIOUS
<1> USE DEF Types, ControllerTypeOK
<1>1. C \subseteq ToSet(free_transfers)'
  <2>1. back \in Seq(Transfers) /\ ToSet(back) = C
    BY <1>0, Reversed
  <2>2. free_transfers' = back \o free_transfers
    BY DEF FlushQueue
  <2>3. ToSet(free_transfers') = C \cup ToSet(free_transfers)
    <3> HIDE DEF back
    <3> QED
      BY <2>1, <2>2, Joined
  <2>4. ToSet(free_transfers)' = ToSet(free_transfers')
    BY DEF ToSet
  <2> QED
    BY <2>3, <2>4
<1>2. UNCHANGED <<td_next, prime, qh_next, unit, cur, seen>>
  BY DEF FlushQueue
<1>3. \A t : First(t) => t \in C
  BY <1>0, InList DEF First, FirstIn
<1>4. \A t \in C : td_next[t] \in C \cup {TERMINATE}
  <2> TAKE t \in C
  <2>0. C = {active[i] : i \in 1 .. Len(active)} /\ Len(active) \in Nat
    BY <1>0, Elements
  <2>1. PICK i \in 1 .. Len(active) : active[i] = t
    BY <2>0
  <2>2. i # Len(active) => active[i + 1] \in C
    <3>1. i # Len(active) => i + 1 \in 1 .. Len(active)
      BY <2>0
    <3> QED
      BY <2>0, <3>1
  <2>3. td_next[active[i]] = IF i = Len(active) THEN TERMINATE ELSE active[i + 1]
    BY DEF Chain
  <2> QED
    BY <2>1, <2>2, <2>3
<1>5. /\ prime => qh_next \in C
      /\ unit \in {"armed", "packet", "retire"} => cur \in C
      /\ unit \in {"retire", "advance"} => seen \in C \cup {TERMINATE}
  <2>1. unit = "retire" => seen \in {td_next[cur], TERMINATE} /\ cur \in C
    BY <1>3 DEF Progress
  <2> QED
    BY <1>3, <1>4, <2>1 DEF Progress
<1>6. Within(C)'
  BY <1>2, <1>4, <1>5 DEF Within
<1> QED
  BY <1>1, <1>6, Zenon DEF Flushing

\* The first active transfer of a list.
LEMMA FirstKept ==
  ASSUME NEW s \in Seq(Transfers), NEW live, NEW live2, NEW t,
         \A i \in 1 .. Len(s) : live2[s[i]] = live[s[i]], FirstIn(s, live, t)
  PROVE  FirstIn(s, live2, t) /\ t \in ToSet(s) /\ t \in Transfers /\ live[t]
<1>1. Len(s) \in Nat
  BY Elements
<1>2. PICK i \in 1 .. Len(s) : s[i] = t /\ live[t] /\ \A j \in 1 .. i - 1 : ~live[s[j]]
  BY DEF FirstIn
<1>3. \A j \in 1 .. i - 1 : j \in 1 .. Len(s)
  BY <1>1
<1>4. FirstIn(s, live2, t)
  BY <1>2, <1>3 DEF FirstIn
<1>5. t \in ToSet(s) /\ t \in Transfers
  BY <1>2, Elements
<1> QED
  BY <1>2, <1>4, <1>5

\* The first live transfer of a list stays the first when the list grows at its end ...
LEMMA FirstOfMore ==
  ASSUME NEW s \in Seq(Transfers), NEW r \in Seq(Transfers), Len(r) = Len(s) + 1,
         \A i \in 1 .. Len(s) : r[i] = s[i], NEW live, NEW t, FirstIn(s, live, t)
  PROVE  FirstIn(r, live, t)
<1>1. Len(s) \in Nat
  BY Elements
<1>2. PICK i \in 1 .. Len(s) : s[i] = t /\ live[t] /\ \A j \in 1 .. i - 1 : ~live[s[j]]
  BY DEF FirstIn
<1>3. \A j \in 1 .. i - 1 : j \in 1 .. Len(s)
  BY <1>1
<1>4. i \in 1 .. Len(r)
  BY <1>1
<1> QED
  BY <1>2, <1>3, <1>4 DEF FirstIn

\* ... and when a finished one is taken from its front.
LEMMA FirstOfFewer ==
  ASSUME NEW s \in Seq(Transfers), NEW r \in Seq(Transfers), Len(r) = Len(s) - 1,
         \A i \in 1 .. Len(r) : r[i] = s[i + 1], NEW live, ~live[s[1]],
         NEW t, FirstIn(s, live, t)
  PROVE  FirstIn(r, live, t)
<1>1. Len(s) \in Nat
  BY Elements
<1>2. PICK i \in 1 .. Len(s) : s[i] = t /\ live[t] /\ \A j \in 1 .. i - 1 : ~live[s[j]]
  BY DEF FirstIn
<1>3. i # 1
  BY <1>2
<1>4. i - 1 \in 1 .. Len(r) /\ r[i - 1] = s[i]
  BY <1>1, <1>3
<1>5. \A j \in 1 .. i - 1 - 1 : j \in 1 .. Len(r) /\ j + 1 \in 1 .. i - 1
  BY <1>1
<1>6. \A j \in 1 .. i - 1 - 1 : ~live[r[j]]
  BY <1>2, <1>5
<1> QED
  BY <1>2, <1>4, <1>6 DEF FirstIn

\* When the first one is carried out, the next one is first.
LEMMA FirstMoves ==
  ASSUME NEW s \in Seq(Transfers), Once(s), NEW live \in [Transfers -> BOOLEAN],
         NEW t, FirstIn(s, live, t)
  PROVE  \E k \in 1 .. Len(s) :
           /\ s[k] = t /\ \A i \in 1 .. k : ~[live EXCEPT ![t] = FALSE][s[i]]
           /\ \A i \in k + 1 .. Len(s) :
                i \in 1 .. Len(s) /\ [live EXCEPT ![t] = FALSE][s[i]] = live[s[i]]
           /\ k # Len(s) /\ live[s[k + 1]] => FirstIn(s, [live EXCEPT ![t] = FALSE], s[k + 1])
<1> DEFINE live2 == [live EXCEPT ![t] = FALSE]
<1>1. Len(s) \in Nat /\ \A i \in 1 .. Len(s) : s[i] \in Transfers
  BY Elements
<1>2. PICK k \in 1 .. Len(s) : s[k] = t /\ live[t] /\ \A j \in 1 .. k - 1 : ~live[s[j]]
  BY DEF FirstIn
<1>3. \A i \in 1 .. k : ~live2[s[i]]
  <2> TAKE i \in 1 .. k
  <2>1. i \in 1 .. Len(s) /\ (i = k \/ i \in 1 .. k - 1)
    BY <1>1
  <2> QED
    BY <1>1, <1>2, <2>1
<1>4. \A i \in k + 1 .. Len(s) : i \in 1 .. Len(s) /\ live2[s[i]] = live[s[i]]
  <2> TAKE i \in k + 1 .. Len(s)
  <2>1. i \in 1 .. Len(s) /\ i # k
    BY <1>1
  <2>2. s[i] # t
    BY <1>2, <2>1 DEF Once
  <2> QED
    BY <1>1, <2>1, <2>2
<1>5. k # Len(s) /\ live[s[k + 1]] => FirstIn(s, live2, s[k + 1])
  <2> HAVE k # Len(s) /\ live[s[k + 1]]
  <2>1. k + 1 \in k + 1 .. Len(s) /\ k + 1 \in 1 .. Len(s) /\ k + 1 - 1 = k
    BY <1>1
  <2>2. live2[s[k + 1]] = live[s[k + 1]]
    BY <1>4, <2>1
  <2> HIDE DEF live2
  <2> QED
    BY <1>3, <2>1, <2>2 DEF FirstIn
<1> QED
  BY <1>2, <1>3, <1>4, <1>5

\* The steps of the CPU outside a flush, but for those that move a transfer.
LEMMA ProgressOfSteps ==
  ASSUME Types, Apart, Turns, Bits, Chain, Progress, Pending, ~Window, ~Window',
         \/ Control \/ Spins \/ Entries \/ StoreExclusive \/ UNCHANGED vars
         \/ Fill \/ WaitReady \/ ConfirmSample
  PROVE  Progress'
<1> USE DEF Types, ControllerTypeOK, Threads, Step
<1>1. CASE Control \/ Spins \/ Entries \/ StoreExclusive \/ UNCHANGED vars
  <2>1. UNCHANGED <<active, tdVars, qh_next, prime, unitVars>>
    BY <1>1 DEF Control, Schedule, CheckFree, LoadExclusive, CheckPriming, SetTripwire,
       SampleReady, Spins, Entries, FlushPrimed, FlushWait, BeginFlush, RequestEvent,
       TransferEvent, CompleteEnd, StoreExclusive
  <2>2. (Masked => Masked' /\ transfer' = transfer) \/ prime
    BY <1>1 DEF Control, Schedule, CheckFree, LoadExclusive, CheckPriming, SetTripwire,
       SampleReady, Spins, Entries, FlushPrimed, FlushWait, BeginFlush, RequestEvent,
       TransferEvent, CompleteEnd, EnterIsr, StoreExclusive, Masked, Appending
  <2>3. prime => unit = "off"
    BY DEF Bits
  <2> QED
    BY <2>1, <2>2, <2>3 DEF Progress, First
<1>2. CASE Fill
  <2>1. /\ UNCHANGED <<active, qh_next, prime, unitVars>> /\ ~Masked
        /\ td_next' = [td_next EXCEPT ![transfer] = TERMINATE]
        /\ td_active' = [td_active EXCEPT ![transfer] = TRUE]
        /\ job' = [job EXCEPT ![transfer] = issued + 1] /\ Holding
    BY <1>2 DEF Fill, Masked, Appending, Holding
  <2>2. /\ \A i \in 1 .. Len(active) : active[i] # transfer /\ active[i] \in Transfers
        /\ Len(active) \in Nat
    BY <2>1, InList
  <2>3. \A i \in 1 .. Len(active) :
          /\ td_next'[active[i]] = td_next[active[i]]
          /\ td_active'[active[i]] = td_active[active[i]] /\ job'[active[i]] = job[active[i]]
    BY <2>1, <2>2
  <2>4. ASSUME NEW t, First(t)
        PROVE  /\ FirstIn(active, td_active', t) /\ td_next'[t] = td_next[t] /\ job'[t] = job[t]
    <3>1. FirstIn(active, td_active', t) /\ t \in ToSet(active)
      BY <2>3, <2>4, FirstKept DEF First
    <3>2. t # transfer /\ t \in Transfers
      BY <2>1, <3>1, Elements DEF Apart
    <3> QED
      BY <2>1, <3>1, <3>2
  <2>5. \A i \in 1 .. Len(active) - 1 : i \in 1 .. Len(active) /\ i + 1 \in 1 .. Len(active)
    BY <2>2
  <2>6. \A i \in 1 .. Len(active) - 1 : td_active'[active[i]] => td_active'[active[i + 1]]
    BY <2>3, <2>5 DEF Progress
  <2>7. \A i \in 1 .. Len(active) : ~td_active'[active[i]] => job'[active[i]] \in ran
    BY <2>3 DEF Progress
  <2>8. /\ prime => FirstIn(active, td_active', qh_next)
        /\ unit \in {"armed", "packet", "retire"} =>
             FirstIn(active, td_active', cur) /\ cur_job = job'[cur]
        /\ unit = "retire" => seen = td_next'[cur]
        /\ unit = "advance" => seen = TERMINATE \/ FirstIn(active, td_active', seen)
    BY <2>1, <2>4 DEF Progress
  <2>9. (unit = "off" /\ ~prime) \/ (unit = "advance" /\ seen = TERMINATE) =>
          \A i \in 1 .. Len(active) : ~td_active'[active[i]]
    BY <2>1, <2>3 DEF Progress
  <2> QED
    BY <2>1, <2>6, <2>7, <2>8, <2>9 DEF Progress, First
<1>3. CASE WaitReady \/ ConfirmSample
  <2>1. /\ UNCHANGED <<active, td_active, job, unitVars, transfer>> /\ Masked
        /\ \A t \in Transfers : t # transfer => td_next'[t] = td_next[t]
    BY <1>3 DEF WaitReady, ConfirmSample, Masked, Appending
  <2>2. \/ UNCHANGED <<qh_next, prime, td_next>> /\ (Masked' \/ unit \in {"armed", "packet"})
        \/ unit = "off" /\ prime' /\ qh_next' = transfer /\ ~prime
    <3>1. CASE WaitReady
      BY <3>1 DEF WaitReady, Prime, Ready, Masked, Appending, Bits, Pending
    <3>2. CASE ConfirmSample
      <4>1. pc["main"] = "confirm" /\ ~prime /\ UNCHANGED td_next
        BY <3>2 DEF ConfirmSample, Bits
      <4>2. CASE ~tripwire
        BY <3>2, <4>1, <4>2 DEF ConfirmSample, Masked, Appending
      <4>3. CASE tripwire /\ sampled
        BY <3>2, <4>1, <4>3 DEF ConfirmSample, Bits
      <4>4. CASE tripwire /\ ~sampled
        BY <3>2, <4>1, <4>4 DEF ConfirmSample, Prime, Bits
      <4> QED
        BY <4>2, <4>3, <4>4
    <3> QED
      BY <1>3, <3>1, <3>2
  <2>3. CASE UNCHANGED <<qh_next, prime, td_next>> /\ (Masked' \/ unit \in {"armed", "packet"})
    BY <2>1, <2>3 DEF Progress, First, Bits
  <2>4. CASE unit = "off" /\ prime' /\ qh_next' = transfer /\ ~prime
    <3>1. Len(active) \in 1 .. Len(active) /\ transfer = active[Len(active)] /\ Len(active) \in Nat
      BY <2>1, InList
    <3>2. \A i \in 1 .. Len(active) : td_active[active[i]] => i = Len(active)
      BY <2>4 DEF Progress
    <3>3. \A i \in 1 .. Len(active) - 1 : i \in 1 .. Len(active) /\ i # Len(active)
      BY <3>1
    <3>4. First(transfer)
      BY <2>1, <3>1, <3>2, <3>3 DEF First, FirstIn, Pending
    <3> QED
      BY <2>1, <2>4, <3>4 DEF Progress, First
  <2> QED
    BY <2>2, <2>3, <2>4
<1> QED
  BY <1>1, <1>2, <1>3

\* Linking a transfer: what the controller has not read, it will come to.
LEMMA ProgressOfLink ==
  ASSUME Types, Apart, Turns, Bits, Chain, Progress, Pending, Link
  PROVE  Progress'
<1> USE DEF Types, ControllerTypeOK, Threads, Step
<1> DEFINE n == Len(active)
<1>1. /\ n \in Nat /\ Len(active') = n + 1 /\ active'[n + 1] = transfer /\ transfer' = transfer
      /\ \A i \in 1 .. n : active'[i] = active[i] /\ active[i] # transfer /\ active[i] \in Transfers
      /\ transfer \in Transfers /\ active' \in Seq(Transfers)
  <2>1. Holding
    BY DEF Link, Holding
  <2>2. active' \in Seq(Transfers)
    BY LinkedAt, Appended DEF Link
  <2> QED
    BY <2>1, <2>2, LinkedAt, InList
<1>2. UNCHANGED <<td_active, job, bitVars, unitVars>> /\ Masked' /\ ~Masked /\ td_active[transfer]
  BY DEF Link, Masked, Appending, Pending
<1>3. /\ n = 0 => td_next' = td_next
      /\ n # 0 => td_next' = [td_next EXCEPT ![active[n]] = transfer]
  BY LinkedAt
<1>4. ASSUME NEW t, First(t)
      PROVE  /\ FirstIn(active', td_active, t) /\ n # 0
             /\ t # active[n] => td_next'[t] = td_next[t]
             /\ t = active[n] => td_next[t] = TERMINATE /\ td_next'[t] = transfer
  <2>1. FirstIn(active', td_active, t)
    BY <1>1, <1>4, FirstOfMore DEF First
  <2>2. PICK i \in 1 .. n : active[i] = t
    BY <1>4 DEF First, FirstIn
  <2>3. n # 0 /\ n \in 1 .. n /\ active[n] \in Transfers /\ t \in Transfers
    <3> HIDE DEF n
    <3>1. n # 0 /\ n \in 1 .. n
      BY <1>1, <2>2
    <3> QED
      BY <1>1, <2>2, <3>1
  <2>4. td_next[active[n]] = TERMINATE
    BY <2>3 DEF Chain
  <2> QED
    BY <1>3, <2>1, <2>2, <2>3, <2>4
<1> HIDE DEF n
<1>5. \A i \in 1 .. n : td_active[active[i]] => i + 1 \in 1 .. n + 1 /\ td_active[active'[i + 1]]
  <2> TAKE i \in 1 .. n
  <2> HAVE td_active[active[i]]
  <2>1. CASE i = n
    BY <2>1, <1>1, <1>2
  <2>2. CASE i # n
    <3>1. i \in 1 .. n - 1 /\ i + 1 \in 1 .. n
      BY <1>1, <2>2
    <3>2. td_active[active[i + 1]]
      BY <3>1 DEF Progress, n
    <3> QED
      BY <1>1, <3>1, <3>2
  <2> QED
    BY <2>1, <2>2
<1>6. \A i \in 1 .. n + 1 : i = n + 1 \/ i \in 1 .. n
  BY <1>1
<1>7. n + 1 - 1 = n
  BY <1>1
<1>8. \A i \in 1 .. n : ~td_active[active[i]] => job[active[i]] \in ran
  BY DEF Progress, n
<1>9. (unit = "off" /\ ~prime) \/ (unit = "advance" /\ seen = TERMINATE) =>
        \A i \in 1 .. n : ~td_active[active[i]]
  BY <1>2 DEF Progress, n
<1>10. /\ prime => First(qh_next)
       /\ unit \in {"armed", "packet", "retire"} => First(cur) /\ cur_job = job[cur]
       /\ unit = "retire" => seen = td_next[cur]
       /\ unit = "advance" => seen = TERMINATE \/ First(seen)
  BY <1>2 DEF Progress
<1>11. /\ \A i \in 1 .. n + 1 : ~td_active[active'[i]] => job[active'[i]] \in ran
       /\ (unit = "off" /\ ~prime) \/ (unit = "advance" /\ seen = TERMINATE) =>
            \A i \in 1 .. n + 1 : td_active[active'[i]] => i = n + 1
  BY <1>1, <1>2, <1>6, <1>8, <1>9
<1>12. \A i \in 1 .. n : td_active[active'[i]] => td_active[active'[i + 1]]
  BY <1>1, <1>5
<1>13. unit = "retire" => seen = td_next'[cur] \/ (seen = TERMINATE /\ td_next'[cur] = transfer)
  BY <1>4, <1>10
<1> QED
  BY <1>1, <1>2, <1>4, <1>7, <1>10, <1>11, <1>12, <1>13 DEF Progress, First

\* A completion leaves the controller where it was in the list.
LEMMA ProgressOfComplete ==
  ASSUME Types, Apart, Turns, Progress, CompleteTransfer
  PROVE  Progress'
<1> USE DEF Types, ControllerTypeOK, Threads, Step
<1> DEFINE n == Len(active)
<1>1. /\ n \in Nat \ {0} /\ Len(active') = n - 1 /\ active # <<>> /\ ~td_active[active[1]]
      /\ \A i \in 1 .. n - 1 : i + 1 \in 1 .. n /\ active'[i] = active[i + 1]
  BY CompletedAt
<1>2. active' \in Seq(Transfers)
  BY <1>1, Popped DEF CompleteTransfer
<1>3. UNCHANGED <<tdVars, bitVars, unitVars, pc, transfer>> /\ ~Masked
  BY DEF CompleteTransfer, Turns
<1>4. ASSUME NEW t, First(t)
      PROVE  FirstIn(active', td_active, t)
  BY <1>1, <1>2, <1>4, FirstOfFewer DEF First
<1>5. \A i \in 1 .. n - 1 - 1 : td_active[active'[i]] => td_active[active'[i + 1]]
  <2>1. \A i \in 1 .. n - 1 : td_active[active[i]] => td_active[active[i + 1]]
    BY DEF Progress
  <2> HIDE DEF n
  <2> TAKE i \in 1 .. n - 1 - 1
  <2>2. i + 1 \in 1 .. n - 1 /\ i \in 1 .. n - 1
    BY <1>1
  <2> QED
    BY <1>1, <2>1, <2>2
<1>6. \A i \in 1 .. n - 1 : ~td_active[active'[i]] => job[active'[i]] \in ran
  BY <1>1 DEF Progress
<1>7. (unit = "off" /\ ~prime) \/ (unit = "advance" /\ seen = TERMINATE) =>
        \A i \in 1 .. n - 1 : ~td_active[active'[i]]
  BY <1>1, <1>3 DEF Progress
<1>8. /\ prime => First(qh_next)
      /\ unit \in {"armed", "packet", "retire"} => First(cur) /\ cur_job = job[cur]
      /\ unit = "retire" => seen = td_next[cur]
      /\ unit = "advance" => seen = TERMINATE \/ First(seen)
  BY <1>3 DEF Progress
<1> HIDE DEF n
<1> QED
  BY <1>1, <1>3, <1>4, <1>5, <1>6, <1>7, <1>8 DEF Progress, First

\* The controller, outside a flush.
LEMMA ProgressOfController ==
  ASSUME Types, Apart, Turns, Bits, Chain, Progress, ~Window, HwNext
  PROVE  Progress'
<1> USE DEF Types, ControllerTypeOK
<1>1. UNCHANGED <<active, td_next, job, pc, transfer>>
  BY DEF HwNext, ControllerNext, ControllerAlone, HwPrime, HwPacket, HwMorePackets,
     HwReadLink, HwRetire, HwAdvance, HwFlush
<1>2. Masked' = Masked
  BY <1>1 DEF Masked, Appending
<1>3. ~flush
  BY DEF Bits, Window
<1>4. ASSUME NEW t, First(t)
      PROVE  t \in Transfers /\ td_active[t] /\ t # TERMINATE
  <2>1. t \in Transfers /\ td_active[t]
    BY <1>4, FirstKept DEF First
  <2> QED
    BY <2>1, ControllerAssumption DEF Transfers, TERMINATE
<1>5. CASE HwPrime
  <2>1. /\ prime /\ unit = "off" /\ ~prime' /\ UNCHANGED <<td_active, ran, seen>>
        /\ First(qh_next) /\ Execute(qh_next)
    BY <1>5 DEF HwPrime, Ready, Progress
  <2>2. unit' = "armed" /\ cur' = qh_next /\ cur_job' = job[qh_next]
    BY <1>4, <2>1 DEF Execute
  <2> QED
    BY <1>1, <2>1, <2>2 DEF Progress, First
<1>6. CASE HwAdvance
  <2>1. /\ unit = "advance" /\ Execute(seen) /\ UNCHANGED <<td_active, ran, seen, prime>> /\ ~prime
        /\ seen = TERMINATE \/ First(seen)
    BY <1>6 DEF HwAdvance, Progress, Bits
  <2>2. CASE seen = TERMINATE
    <3>1. unit' = "off"
      BY <2>1, <2>2 DEF Execute, Transfers, TERMINATE
    <3> QED
      BY <1>1, <1>2, <2>1, <2>2, <3>1 DEF Progress
  <2>3. CASE First(seen)
    <3>1. unit' = "armed" /\ cur' = seen /\ cur_job' = job[seen]
      BY <1>4, <2>1, <2>3 DEF Execute
    <3> QED
      BY <1>1, <2>1, <2>3, <3>1 DEF Progress, First
  <2> QED
    BY <2>1, <2>2, <2>3
<1>7. CASE HwPacket \/ HwMorePackets
  <2>1. /\ unit' \in {"armed", "packet"} /\ unit \in {"armed", "packet"}
        /\ UNCHANGED <<td_active, ran, prime, qh_next, cur, cur_job>>
    BY <1>7 DEF HwPacket, HwMorePackets
  <2> QED
    BY <1>1, <2>1 DEF Progress, First
<1>8. CASE HwReadLink
  <2>1. /\ unit = "packet" /\ unit' = "retire" /\ seen' = td_next[cur]
        /\ UNCHANGED <<td_active, ran, prime, qh_next, cur, cur_job>>
    BY <1>8 DEF HwReadLink
  <2> QED
    BY <1>1, <2>1 DEF Progress, First
<1>9. CASE HwRetire
  <2>1. /\ unit = "retire" /\ unit' = "advance" /\ td_active' = [td_active EXCEPT ![cur] = FALSE]
        /\ ran' = ran \cup {cur_job} /\ UNCHANGED <<prime, qh_next, cur, cur_job, seen>> /\ ~prime
    BY <1>9 DEF HwRetire, Bits
  <2>2. First(cur) /\ cur_job = job[cur]
    BY <2>1 DEF Progress
  <2> DEFINE n == Len(active)
  <2>3. PICK k \in 1 .. n :
          /\ active[k] = cur /\ \A i \in 1 .. k : ~td_active'[active[i]]
          /\ \A i \in k + 1 .. n : i \in 1 .. n /\ td_active'[active[i]] = td_active[active[i]]
          /\ k # n /\ td_active[active[k + 1]] => FirstIn(active, td_active', active[k + 1])
    <3> DEFINE live2 == [td_active EXCEPT ![cur] = FALSE]
    <3>1. FirstIn(active, td_active, cur) /\ Once(active)
      BY <2>2 DEF First, Apart
    <3>2. \E k \in 1 .. n :
            /\ active[k] = cur /\ \A i \in 1 .. k : ~live2[active[i]]
            /\ \A i \in k + 1 .. n : i \in 1 .. n /\ live2[active[i]] = td_active[active[i]]
            /\ k # n /\ td_active[active[k + 1]] => FirstIn(active, live2, active[k + 1])
      BY <3>1, FirstMoves
    <3>3. td_active' = live2
      BY <2>1
    <3> HIDE DEF live2, n
    <3> QED
      BY <3>2, <3>3
  <2>4. n \in Nat /\ \A i \in 1 .. n : active[i] \in Transfers
    BY InList
  <2>5. /\ \A i \in 1 .. n - 1 : td_active[active[i]] => td_active[active[i + 1]]
        /\ \A i \in 1 .. n : ~td_active[active[i]] => job[active[i]] \in ran
        /\ seen = td_next[cur] \/ (seen = TERMINATE /\ Masked /\ td_next[cur] = transfer)
    BY <2>1 DEF Progress
  <2>6. td_active[cur] /\ cur \in Transfers
    BY <1>4, <2>2
  <2>7. td_next[cur] = IF k = n THEN TERMINATE ELSE active[k + 1]
    BY <2>3 DEF Chain
  <2>8. k # n => k + 1 \in 1 .. n /\ active[k + 1] \in Transfers /\ active[k + 1] # TERMINATE
    <3> HIDE DEF n
    <3>1. k # n => k + 1 \in 1 .. n
      BY <2>3, <2>4
    <3> QED
      BY <2>4, <3>1 DEF Transfers, TERMINATE
  <2>9. Masked => active[n] = transfer /\ n \in 1 .. n
    BY InList
  <2>10. \A i, j \in 1 .. n : active[i] = active[j] => i = j
    BY DEF Apart, Once
  <2> HIDE DEF n
  <2>11. \A i \in 1 .. n - 1 : td_active'[active[i]] => td_active'[active[i + 1]]
    <3> TAKE i \in 1 .. n - 1
    <3> HAVE td_active'[active[i]]
    <3>1. i \in 1 .. n /\ ~(i \in 1 .. k)
      BY <2>3, <2>4
    <3>2. i \in k + 1 .. n /\ i + 1 \in k + 1 .. n
      BY <2>4, <3>1
    <3> QED
      BY <2>3, <2>5, <3>2
  <2>12. \A i \in 1 .. n : ~td_active'[active[i]] => job[active[i]] \in ran'
    BY <2>1, <2>2, <2>4, <2>5, <2>6
  <2>13. k # n => td_active[active[k + 1]]
    BY <2>3, <2>4, <2>5, <2>6
  <2>14. seen = TERMINATE \/ FirstIn(active, td_active', seen)
    BY <2>3, <2>5, <2>7, <2>13
  <2>15. seen = TERMINATE => \A i \in 1 .. n : td_active'[active[i]] => Masked /\ i = n
    <3> HAVE seen = TERMINATE
    <3> TAKE i \in 1 .. n
    <3> HAVE td_active'[active[i]]
    <3>1. i \in k + 1 .. n
      BY <2>3, <2>4
    <3>2. k # n
      BY <2>3, <2>4, <3>1
    <3>3. Masked /\ active[k + 1] = active[n]
      BY <2>5, <2>7, <2>8, <2>9, <3>2
    <3>4. k + 1 = n
      BY <2>8, <2>9, <2>10, <3>2, <3>3
    <3> QED
      BY <2>3, <2>4, <3>1, <3>3, <3>4
  <2> QED
    BY <1>1, <1>2, <2>1, <2>11, <2>12, <2>14, <2>15 DEF Progress, First, n
<1> QED
  BY <1>3, <1>5, <1>6, <1>7, <1>8, <1>9 DEF HwNext, ControllerNext, ControllerAlone, HwFlush

\* Without a dropped flush, the controller works on the first live transfer of the list,
\* or, while a flush is going on, on what the flush has freed.
LEMMA TrackedKept ==
  ASSUME Types, Apart, Turns, Bits, Chain, ~refused => Tracked /\ Pending, [Next]_vars, ~refused'
  PROVE  Tracked'
<1>0. ~refused /\ Tracked /\ Pending
  BY RefusedStays
<1>1. CASE Window /\ Window'
  BY <1>0, <1>1, FlushingKept DEF Tracked
<1>2. CASE ~Window /\ Window'
  <2>1. PICK th \in Threads : FlushQueue(th)
    <3>1. CASE Control \/ Spins \/ Entries
      BY <1>2, <3>1 DEF Types, Threads, Step, Window, Control, Schedule, CheckFree, LoadExclusive,
         CheckPriming, SetTripwire, SampleReady, Spins, Entries, FlushPrimed, FlushWait,
         BeginFlush, RequestEvent, TransferEvent, CompleteEnd, EnterIsr
    <3>2. CASE StoreExclusive \/ Fill \/ Link \/ WaitReady \/ ConfirmSample
      BY <1>2, <3>2 DEF Types, Threads, Step, Window, StoreExclusive, Fill, Link, WaitReady,
         ConfirmSample
    <3>3. CASE CompleteTransfer \/ HwNext \/ UNCHANGED vars
      BY <1>2, <3>3 DEF Window, CompleteTransfer, HwNext
    <3> QED
      BY <3>1, <3>2, <3>3, Steps
  <2> QED
    BY <1>0, <1>2, <2>1, FlushingStarts DEF Tracked
<1>3. CASE ~Window'
  <2>1. CASE Window
    <3>1. PICK th \in Threads : FlushWait(th)
      <4>1. CASE Control \/ Spins \/ Entries
        BY <1>3, <2>1, <4>1 DEF Types, Threads, Step, Window, Turns, Control, Schedule, CheckFree,
           LoadExclusive, CheckPriming, SetTripwire, SampleReady, Spins, Entries, FlushPrimed,
           FlushWait, BeginFlush, RequestEvent, TransferEvent, CompleteEnd, EnterIsr
      <4>2. CASE StoreExclusive \/ Fill \/ Link \/ WaitReady \/ ConfirmSample
        BY <1>3, <2>1, <4>2 DEF Types, Threads, Step, Window, Turns, StoreExclusive, Fill, Link,
           WaitReady, ConfirmSample
      <4>3. CASE (\E th \in Threads : FlushQueue(th)) \/ CompleteTransfer \/ HwNext \/ UNCHANGED vars
        BY <1>3, <2>1, <4>3 DEF Types, Threads, Step, Window, FlushQueue, CompleteTransfer, HwNext
      <4> QED
        BY <4>1, <4>2, <4>3, Steps
    <3>2. /\ active' = <<>> /\ prime' = prime /\ unit' = unit /\ ~flush /\ pc[th] = "flush_wait"
      BY <2>1, <3>1 DEF FlushWait, Chain, Step
    <3>3. ~prime /\ unit = "off"
      BY <1>0, <3>2 DEF Bits
    <3>4. Len(active') = 0
      BY <3>2
    <3> QED
      BY <1>3, <3>2, <3>3, <3>4 DEF Tracked, Progress
  <2>2. CASE ~Window
    <3>1. Progress
      BY <1>0, <2>2 DEF Tracked
    <3>2. \A th \in Threads : ~FlushQueue(th)
      BY <1>3 DEF FlushQueue, Step, Window, Types
    <3>3. Progress'
      BY <1>0, <1>3, <2>2, <3>1, <3>2, Steps, ProgressOfSteps, ProgressOfLink, ProgressOfComplete,
         ProgressOfController
    <3> QED
      BY <1>3, <3>3 DEF Tracked
  <2> QED
    BY <2>1, <2>2
<1> QED
  BY <1>1, <1>2, <1>3

\* What was handed over is not carried out before it was, and is reported.
LEMMA PendingKept ==
  ASSUME Types, Apart, Turns, Bits, Chain, Tracked, Pending, [Next]_vars, ~refused'
  PROVE  Pending'
<1> USE DEF Types, ControllerTypeOK, Threads, Step
<1>1. CASE Control
  <2>1. UNCHANGED <<active, transfer, td_active, cur, unit, seen, prime, complete>>
    BY <1>1 DEF Control, Schedule, CheckFree, LoadExclusive, CheckPriming, SetTripwire, SampleReady
  <2>2. /\ (Masked' => Masked) /\ (Appending' => Appending)
        /\ pc'["main"] \notin {"link", "wait_ready"} /\ pc'["isr"] = pc["isr"]
    BY <1>1 DEF Control, Schedule, CheckFree, LoadExclusive, CheckPriming, SetTripwire,
       SampleReady, Masked, Appending
  <2> QED
    BY <2>1, <2>2 DEF Pending
<1>2. CASE Spins \/ Entries
  <2>1. UNCHANGED <<active, transfer, td_active, cur, unit, seen, prime>>
    BY <1>2 DEF Spins, Entries, FlushPrimed, FlushWait, BeginFlush, RequestEvent, TransferEvent,
       CompleteEnd
  <2>2. /\ Masked' = Masked /\ Appending' = Appending
        /\ pc'["main"] = "link" => pc["main"] = "link"
        /\ pc'["main"] = "wait_ready" => pc["main"] = "wait_ready"
    BY <1>2 DEF Spins, Entries, FlushPrimed, FlushWait, BeginFlush, RequestEvent, TransferEvent,
       CompleteEnd, EnterIsr, Masked, Appending
  <2>3. CASE CompleteEnd
    <3>1. active = <<>> \/ td_active[active[1]]
      BY <2>3, Popped DEF CompleteEnd, Finished
    <3> QED
      BY <2>1, <2>2, <3>1 DEF Pending
  <2>4. CASE Spins \/ BeginFlush \/ RequestEvent \/ TransferEvent
    <3>1. complete \/ pc["isr"] = "completing" => complete' \/ pc'["isr"] = "completing"
      BY <2>4 DEF Spins, FlushPrimed, FlushWait, BeginFlush, RequestEvent, TransferEvent, EnterIsr
    <3> QED
      BY <2>1, <2>2, <3>1 DEF Pending
  <2> QED
    BY <1>2, <2>3, <2>4 DEF Entries
<1>3. CASE StoreExclusive
  <2>1. UNCHANGED <<active, td_active, complete>> /\ ~Masked' /\ ~Appending'
    BY <1>3 DEF StoreExclusive, Masked, Appending
  <2>2. pc'["main"] \notin {"link", "wait_ready"} /\ pc'["isr"] = pc["isr"]
    BY <1>3 DEF StoreExclusive
  <2> QED
    BY <2>1, <2>2 DEF Pending
<1>4. CASE Fill
  <2>1. /\ UNCHANGED <<active, transfer, complete>> /\ ~Masked' /\ ~Appending' /\ Holding
        /\ td_active' = [td_active EXCEPT ![transfer] = TRUE] /\ pc'["isr"] = pc["isr"]
        /\ pc'["main"] = "link"
    BY <1>4 DEF Fill, Masked, Appending, Holding
  <2>2. transfer \in Transfers
    BY <2>1 DEF Apart
  <2>3. active # <<>> => td_active'[active[1]] = td_active[active[1]]
    <3>1. active # <<>> => 1 \in 1 .. Len(active)
      BY Elements
    <3> QED
      BY <2>1, <2>2, <3>1, InList
  <2> QED
    BY <2>1, <2>2, <2>3 DEF Pending
<1>5. CASE Link
  <2>1. /\ UNCHANGED <<td_active, complete, unit, cur, seen, prime, transfer>>
        /\ pc'["main"] # "link" /\ pc'["isr"] = pc["isr"] /\ pc["isr"] = "idle"
        /\ pc'["main"] = "wait_ready" => active = <<>>
        /\ td_active[transfer] /\ Holding
    BY <1>5 DEF Link, Pending, Holding
  <2>2. Progress
    BY <1>5, <2>1 DEF Tracked, Window, Link
  <2>3. \A t : First(t) => t \in ToSet(active) /\ active # <<>>
    <3> TAKE t
    <3> HAVE First(t)
    <3>1. t \in ToSet(active)
      BY FirstKept DEF First
    <3> QED
      BY <3>1 DEF ToSet
  <2>4. cur = transfer => unit \notin {"armed", "packet", "retire"}
    BY <2>1, <2>2, <2>3 DEF Progress, Apart
  <2>5. active = <<>> => ~prime /\ (unit = "off" \/ (unit = "advance" /\ seen = TERMINATE))
    BY <2>2, <2>3 DEF Progress
  <2>6. active' # <<>> /\ ~td_active[active'[1]] => active # <<>> /\ ~td_active[active[1]]
    <3>1. CASE active = <<>>
      BY <1>5, <2>1, <3>1, LinkedAt
    <3>2. CASE active # <<>>
      <4>1. 1 \in 1 .. Len(active)
        BY <1>5, <3>2, LinkedAt
      <4> QED
        BY <1>5, <3>2, <4>1, LinkedAt
    <3> QED
      BY <3>1, <3>2
  <2> QED
    BY <2>1, <2>4, <2>5, <2>6 DEF Pending
<1>6. CASE WaitReady \/ ConfirmSample
  <2>1. UNCHANGED <<active, transfer, td_active, cur, unit, complete>>
    BY <1>6 DEF WaitReady, ConfirmSample
  <2>2. /\ (Masked' => Masked) /\ (Appending' => Appending)
        /\ pc'["main"] \notin {"link", "wait_ready"} /\ pc'["isr"] = pc["isr"]
    BY <1>6 DEF WaitReady, ConfirmSample, Masked, Appending
  <2> QED
    BY <2>1, <2>2 DEF Pending
<1>7. CASE \E th \in Threads : FlushQueue(th)
  <2>1. active' = <<>> /\ UNCHANGED <<transfer, td_active, cur, unit, seen, prime>>
    BY <1>7 DEF FlushQueue
  <2>2. /\ Masked' = Masked /\ Appending' = Appending
        /\ pc'["main"] = "link" => pc["main"] = "link"
        /\ pc'["main"] = "wait_ready" => pc["main"] = "wait_ready"
    BY <1>7 DEF FlushQueue, Masked, Appending
  <2> QED
    BY <2>1, <2>2 DEF Pending
<1>8. CASE CompleteTransfer
  <2>1. UNCHANGED <<pc, transfer, td_active, cur, unit, seen, prime>> /\ pc["isr"] = "completing"
    BY <1>8 DEF CompleteTransfer
  <2> QED
    BY <2>1 DEF Pending, Masked, Appending
<1>9. CASE HwNext
  <2>1. UNCHANGED <<active, transfer, pc>> /\ SlowerThanAppend
    BY <1>9 DEF HwNext
  <2>2. Masked' = Masked /\ Appending' = Appending
    BY <2>1 DEF Masked, Appending
  <2>3. Appending => Masked /\ pc["isr"] = "idle" /\ ~flush
    BY DEF Masked, Appending, Turns, Bits
  <2>4. (complete => complete') /\ (~HwRetire => td_active' = td_active)
    BY <1>9 DEF HwNext, ControllerNext, ControllerAlone, HwPrime, HwPacket, HwMorePackets,
       HwReadLink, HwRetire, HwAdvance, HwFlush
  <2>5. Appending' /\ cur' = transfer' => unit' \notin {"packet", "retire"}
    <3>1. CASE HwPrime \/ HwAdvance
      BY <3>1 DEF HwPrime, HwAdvance, Execute
    <3>2. CASE HwPacket \/ HwMorePackets \/ HwReadLink \/ HwRetire
      BY <2>1, <2>2, <3>2 DEF HwPacket, HwMorePackets, HwReadLink, HwRetire, SlowerThanAppend,
         Pending
    <3>3. CASE HwFlush
      BY <2>2, <2>3, <3>3 DEF HwFlush
    <3> QED
      BY <1>9, <3>1, <3>2, <3>3 DEF HwNext, ControllerNext, ControllerAlone
  <2>6. pc["main"] = "wait_ready" =>
          ~prime' /\ (unit' = "off" \/ (unit' = "advance" /\ seen' = TERMINATE))
    <3>1. pc["main"] = "wait_ready" =>
            ~flush /\ ~prime /\ (unit = "off" \/ (unit = "advance" /\ seen = TERMINATE))
      BY DEF Masked, Turns, Bits, Pending
    <3>2. CASE HwPrime \/ HwFlush
      BY <3>1, <3>2 DEF HwPrime, HwFlush
    <3>3. CASE HwPacket \/ HwMorePackets \/ HwReadLink \/ HwRetire
      BY <3>1, <3>3 DEF HwPacket, HwMorePackets, HwReadLink, HwRetire
    <3>4. CASE HwAdvance
      BY <3>1, <3>4 DEF HwAdvance, Execute, Transfers, TERMINATE
    <3> QED
      BY <1>9, <3>2, <3>3, <3>4 DEF HwNext, ControllerNext, ControllerAlone
  <2>7. CASE ~HwRetire
    BY <2>1, <2>2, <2>4, <2>5, <2>6, <2>7 DEF Pending
  <2>8. CASE HwRetire
    <3>1. /\ unit = "retire" /\ complete' /\ cur \in Transfers
          /\ td_active' = [td_active EXCEPT ![cur] = FALSE]
      BY <2>8 DEF HwRetire, Bits
    <3>2. pc["main"] = "link" => cur # transfer
      <4> HAVE pc["main"] = "link"
      <4>1. transfer \notin ToSet(active) /\ transfer \notin ToSet(free_transfers)
        BY DEF Apart, Holding
      <4>2. CASE Window
        BY <3>1, <4>1, <4>2 DEF Tracked, Flushing, Within
      <4>3. CASE ~Window
        <5>1. First(cur)
          BY <3>1, <4>3 DEF Tracked, Progress
        <5>2. cur \in ToSet(active)
          BY <5>1, FirstKept DEF First
        <5> QED
          BY <4>1, <5>2
      <4> QED
        BY <4>2, <4>3
    <3>3. Masked => cur # transfer
      BY <3>1 DEF Masked, Pending
    <3>4. pc["main"] = "link" \/ Masked => td_active'[transfer]
      <4>1. pc["main"] = "link" \/ Masked => transfer \in Transfers /\ td_active[transfer]
        BY InList DEF Apart, Holding, Pending
      <4> QED
        BY <3>1, <3>2, <3>3, <4>1
    <3> QED
      BY <2>1, <2>2, <2>5, <2>6, <3>1, <3>4 DEF Pending
  <2> QED
    BY <2>7, <2>8
<1>10. CASE UNCHANGED vars
  BY <1>10 DEF Pending, Masked, Appending
<1> QED
  BY <1>1, <1>2, <1>3, <1>4, <1>5, <1>6, <1>7, <1>8, <1>9, <1>10, Steps

-----------------------------------------------------------------------------
(* The inductive invariant, and what follows from it *)

\* QueueInv as the list of its parts.
LEMMA QueueParts ==
  /\ QueueInv => /\ Types /\ Apart /\ Turns /\ Bits /\ Chain /\ Jobs /\ NeverPopsEmpty
                 /\ (~refused => Tracked /\ Pending)
  /\ /\ Types /\ Apart /\ Turns /\ Bits /\ Chain /\ Jobs /\ NeverPopsEmpty
     /\ (~refused => Tracked /\ Pending)
     => QueueInv
<1>1. TypeOK => Types
  BY DEF TypeOK, Types
<1>2. Types /\ Apart => TypeOK /\ PoolConserved
  BY PoolBounds DEF TypeOK, Types
<1> QED
  BY <1>1, <1>2 DEF QueueInv

\* It holds at first ...
LEMMA QueueInit ==
  ASSUME Init
  PROVE  QueueInv
<1>1. /\ Types /\ free_transfers = [i \in Transfers |-> i]
      /\ active = <<>> /\ Len(active) = 0
  <2>1. free_transfers \in Seq(Transfers)
    <3>1. free_transfers \in [1 .. PoolSize -> Transfers]
      BY DEF Init, Transfers
    <3> QED
      BY <3>1, SeqDef, ControllerAssumption
  <2>2. ControllerTypeOK
    BY DEF Init, ControllerInit, ControllerTypeOK, Transfers, TERMINATE
  <2>3. pc \in [Threads -> Places]
    BY DEF Init, Threads, Places
  <2>4. /\ active \in Seq(Transfers) /\ held \in Seq(Transfers)
        /\ monitor \in BOOLEAN /\ sampled \in BOOLEAN /\ transfer = TERMINATE
        /\ issued \in 0 .. MaxJobs /\ done \in 0 .. MaxJobs
    <3>1. /\ active = <<>> /\ held = <<>> /\ monitor = FALSE /\ sampled = FALSE
          /\ transfer = TERMINATE /\ issued = 0 /\ done = 0
      BY DEF Init
    <3>2. <<>> \in Seq(Transfers) /\ 0 \in 0 .. MaxJobs
      BY JobsAssumption
    <3> QED
      BY <3>1, <3>2
  <2> QED
    BY <2>1, <2>2, <2>3, <2>4 DEF Init, Types
<1>2. /\ \A th \in Threads : pc[th] = "idle"
      /\ pc["main"] = "idle" /\ pc["isr"] = "idle"
      /\ monitor = FALSE /\ done = 0 /\ issued = 0
  BY DEF Init, Threads
<1>3. /\ prime = FALSE /\ flush = FALSE /\ tripwire = FALSE /\ unit = "off" /\ cur = TERMINATE
  BY DEF Init, ControllerInit
<1>4. Apart
  <2>1. /\ Len(free_transfers) \in Nat /\ DOMAIN free_transfers = 1 .. Len(free_transfers)
        /\ ToSet(free_transfers) = {free_transfers[i] : i \in 1 .. Len(free_transfers)}
    <3>1. free_transfers \in Seq(Transfers)
      BY <1>1 DEF Types
    <3> QED
      BY <3>1, Elements
  <2>2. 1 .. Len(free_transfers) = Transfers
    BY <1>1, <2>1
  <2>3. Once(free_transfers)
    BY <1>1, <2>2 DEF Once
  <2>4. ToSet(free_transfers) = Transfers
    <3>1. \A i \in Transfers : free_transfers[i] = i
      BY <1>1
    <3> QED
      BY <2>1, <2>2, <3>1
  <2>5. ToSet(active) = {} /\ Once(active)
    BY <1>1 DEF ToSet, Once
  <2> QED
    BY <1>2, <2>3, <2>4, <2>5 DEF Apart, Holding
<1>5. Turns /\ NeverPopsEmpty
  BY <1>2 DEF Turns, Masked, Appending, NeverPopsEmpty
<1>6. Bits
  BY <1>2, <1>3 DEF Bits, Hazard
<1>7. Chain /\ Jobs
  BY <1>1, <1>2 DEF Chain, Jobs, Masked, Appending, Window
<1>8. Tracked
  BY <1>1, <1>2, <1>3 DEF Tracked, Window, Progress
<1>9. Pending
  BY <1>1, <1>2 DEF Pending, Masked, Appending
<1> QED
  BY <1>1, <1>4, <1>5, <1>6, <1>7, <1>8, <1>9, QueueParts

\* ... and is kept by every step.
LEMMA QueueNext ==
  ASSUME QueueInv, [Next]_vars
  PROVE  QueueInv'
<1>1. /\ Types /\ Apart /\ Turns /\ Bits /\ Chain /\ Jobs /\ NeverPopsEmpty
      /\ (~refused => Tracked /\ Pending)
  BY QueueParts
<1>2. Types' /\ Apart' /\ Turns' /\ NeverPopsEmpty'
  BY <1>1, TypesKept, ApartKept, TurnsKept
<1>3. Bits' /\ Chain' /\ Jobs'
  BY <1>1, BitsKept, ChainKept, JobsKept
<1>4. ~refused' => Tracked' /\ Pending'
  BY <1>1, RefusedStays, TrackedKept, PendingKept
<1> QED
  BY <1>2, <1>3, <1>4, QueueParts, PTL

\* The transfers are conserved and the controller follows the active list,
\* whatever the main loop, the interrupt and the controller do at once.
THEOREM QueueInvariant == Spec => []QueueInv
<1>1. Init => QueueInv
  BY QueueInit
<1>2. QueueInv /\ [Next]_vars => QueueInv'
  BY QueueNext
<1> QED
  BY <1>1, <1>2, PTL DEF Spec

\* The transfer the controller works on is in the list, and live only if first.
LEMMA FirstAlone ==
  ASSUME Types, NEW t, First(t)
  PROVE  /\ t \in ToSet(active) /\ t \in Transfers /\ active # <<>>
         /\ td_active[active[1]] => t = active[1]
<1>1. t \in ToSet(active) /\ t \in Transfers
  BY FirstKept DEF First, Types
<1>2. active # <<>>
  BY <1>1 DEF ToSet
<1>3. PICK i \in 1 .. Len(active) : active[i] = t /\ \A j \in 1 .. i - 1 : ~td_active[active[j]]
  BY DEF First, FirstIn
<1>4. Len(active) \in Nat
  BY Elements DEF Types
<1>5. i # 1 => 1 \in 1 .. i - 1
  BY <1>4
<1> QED
  BY <1>1, <1>2, <1>3, <1>5

\* A descriptor is filled in only while the controller has nothing to do with
\* it: allocate_transfer() hands out what neither the active list nor a flush
\* that is still going on has left to the controller.
THEOREM QueueNeverRewritten == Spec => []NeverRewritten
<1>1. QueueInv => NeverRewritten
  <2> SUFFICES ASSUME QueueInv, pc["main"] = "fill", ~refused
               PROVE  ~Owned(transfer)
    BY DEF NeverRewritten
  <2>1. Types /\ Apart /\ Bits /\ Tracked
    BY QueueParts
  <2>2. /\ transfer \in Transfers /\ transfer # TERMINATE
        /\ transfer \notin ToSet(active) /\ transfer \notin ToSet(free_transfers)
    BY <2>1, ControllerAssumption DEF Apart, Holding, Transfers, TERMINATE
  <2>3. CASE Window
    BY <2>1, <2>2, <2>3 DEF Tracked, Flushing, Within, Owned
  <2>4. CASE ~Window
    <3>1. Progress /\ ~First(transfer)
      BY <2>1, <2>2, <2>4, FirstAlone DEF Tracked
    <3> QED
      BY <2>2, <3>1 DEF Progress, Owned
  <2> QED
    BY <2>3, <2>4
<1> QED
  BY <1>1, QueueInvariant, PTL

\* usb_endpoint_prime() is reached only with an endpoint that is off, and it
\* stays off until the controller takes the priming up.
THEOREM QueuePrimedOnlyIdle == Spec => []PrimedOnlyIdle
<1>1. QueueInv => PrimedOnlyIdle
  BY DEF QueueInv, Bits, PrimedOnlyIdle, Ready
<1> QED
  BY <1>1, QueueInvariant, PTL

\* However the tripwire, the sampling of the endpoint and the retiring of
\* descriptors interleave, schedule_append() leaves no transfer behind that
\* the controller would not come to.
THEOREM QueueNeverStranded == Spec => []NeverStranded
<1>1. QueueInv => NeverStranded
  <2> SUFFICES ASSUME QueueInv, Quiet, active # <<>>, ~refused
               PROVE  Owned(Head(active))
    BY DEF NeverStranded
  <2>1. Types /\ Turns /\ Bits /\ Chain /\ Tracked /\ Pending
    BY QueueParts
  <2>2. Progress /\ td_active[active[1]]
    BY <2>1 DEF Tracked, Chain, Pending, Quiet
  <2>3. Head(active) = active[1] /\ 1 \in 1 .. Len(active)
    BY <2>1, Popped, Elements DEF Types
  <2>4. ~((unit = "off" /\ ~prime) \/ (unit = "advance" /\ seen = TERMINATE))
    BY <2>2, <2>3 DEF Progress, Quiet
  <2>5. \A t : First(t) => t = active[1]
    BY <2>1, <2>2, FirstAlone
  <2>6. unit \in {"off", "armed", "packet", "retire", "advance"}
    BY <2>1 DEF Types, ControllerTypeOK
  <2> QED
    BY <2>2, <2>3, <2>4, <2>5, <2>6 DEF Progress, Owned
<1> QED
  BY <1>1, QueueInvariant, PTL

\* The list is walked from its head, so that a completion is reported after
\* those of all transfers scheduled before it, and never twice.
THEOREM QueueInOrder == Spec => InOrder
<1>1. ASSUME QueueInv, [Next]_vars, done' # done, ~refused
      PROVE  done' > done /\ done' \in ran
  <2>1. Types /\ Chain /\ Jobs /\ Tracked
    BY <1>1, QueueParts
  <2>2. CompleteTransfer
    <3>1. CASE Control \/ Spins \/ Entries
      BY <1>1, <3>1 DEF Control, Schedule, CheckFree, LoadExclusive, CheckPriming, SetTripwire,
         SampleReady, Spins, Entries, FlushPrimed, FlushWait, BeginFlush, RequestEvent,
         TransferEvent, CompleteEnd
    <3>2. CASE StoreExclusive \/ Fill \/ Link \/ WaitReady \/ ConfirmSample
      BY <1>1, <3>2 DEF StoreExclusive, Fill, Link, WaitReady, ConfirmSample
    <3>3. CASE (\E th \in Threads : FlushQueue(th)) \/ HwNext \/ UNCHANGED vars
      BY <1>1, <3>3 DEF FlushQueue, HwNext
    <3> QED
      BY <1>1, <3>1, <3>2, <3>3, Steps
  <2>3. 1 \in 1 .. Len(active) /\ ~td_active[active[1]] /\ done' = job[active[1]]
    BY <2>1, <2>2, CompletedAt
  <2>4. active[1] \in Transfers /\ done < job[active[1]] /\ done \in Nat /\ job[active[1]] \in Nat
    BY <2>1, <2>3, Elements DEF Jobs, Types, ControllerTypeOK
  <2>5. ~Window
    BY <2>1, <2>2, CompletedAt DEF Chain
  <2>6. job[active[1]] \in ran
    BY <2>1, <2>3, <2>5 DEF Tracked, Progress
  <2> QED
    BY <2>3, <2>4, <2>6
<1>2. QueueInv /\ [Next]_vars => [done' # done /\ ~refused => done' > done /\ done' \in ran]_done
  BY <1>1
<1> QED
  BY <1>2, QueueInvariant, PTL DEF Spec, InOrder

=============================================================================
