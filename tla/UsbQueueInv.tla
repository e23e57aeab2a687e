----------------------------- MODULE UsbQueueInv -----------------------------
(***************************************************************************)
(* The inductive invariant of UsbQueue: where the two threads and the        *)
(* controller may be, and how the chain of descriptors that the controller   *)
(* follows corresponds to the active list.                                  *)
(***************************************************************************)
EXTENDS UsbQueue

Once(s) == \A i, j \in 1 .. Len(s) : s[i] = s[j] => i = j

Holding == pc["main"] \in {"fill", "link"}

\* A thread has emptied the list and has not finished flushing the controller.
Window == \E th \in Threads : pc[th] \in {"flush_primed", "flush_wait"}

\* PoolConserved, element by element.
Apart ==
  /\ Once(free_transfers) /\ Once(active)
  /\ ToSet(free_transfers) \cap ToSet(active) = {}
  /\ Holding => transfer \in Transfers \ (ToSet(free_transfers) \cup ToSet(active))
  /\ \A t \in Transfers :
       t \in ToSet(free_transfers) \cup ToSet(active) \/ (Holding /\ t = transfer)

\* Who runs, and what the allocation relies on: as long as the monitor is
\* set, nothing has touched the list that was loaded.
Turns ==
  /\ pc["main"] # "completing"
  /\ pc["isr"] \in {"idle", "flush", "flush_primed", "flush_wait", "completing"}
  /\ pc["isr"] # "idle" => ~Masked
  /\ monitor => pc["main"] = "store" /\ pc["isr"] = "idle" /\ held = free_transfers
  /\ pc["main"] \in {"load", "store"} => free_transfers # <<>>

\* What the driver has told the controller.
Bits ==
  /\ flush => \E th \in Threads : pc[th] = "flush_wait"
  /\ prime => unit = "off"
  /\ prime => qh_next \in Transfers
  /\ pc["main"] \in {"tripwire", "sample", "confirm"} => ~prime
  /\ \A th \in Threads : pc[th] = "flush_wait" => ~prime /\ (flush \/ unit = "off" \/ refused)
  /\ unit \in {"armed", "packet", "retire"} => cur \in Transfers
  /\ tripwire => ~Hazard
  /\ pc["main"] = "confirm" /\ ~sampled => unit = "off"
  /\ pc["main"] = "confirm" /\ sampled /\ tripwire => unit \in {"armed", "packet"}

\* The active list is a chain; what is being handed over is its end.
Chain ==
  /\ \A i \in 1 .. Len(active) :
       td_next[active[i]] = IF i = Len(active) THEN TERMINATE ELSE active[i + 1]
  /\ pc["main"] = "link" => td_next[transfer] = TERMINATE
  /\ Masked => active # <<>> /\ transfer = active[Len(active)]
  /\ pc["main"] = "wait_ready" => Len(active) = 1
  /\ Window => active = <<>>

\* Jobs are scheduled in order and reported in order.
Jobs ==
  /\ \A i, j \in 1 .. Len(active) : i < j => job[active[i]] < job[active[j]]
  /\ \A i \in 1 .. Len(active) : done < job[active[i]] /\ job[active[i]] <= issued
  /\ done <= issued
  /\ pc["main"] \in {"alloc", "load", "store", "fill"} => issued < MaxJobs
  /\ pc["main"] = "link" =>
       /\ job[transfer] = issued /\ done < issued
       /\ \A i \in 1 .. Len(active) : job[active[i]] < issued

\* The transfer the controller has to turn to next: the first active one.
FirstIn(s, live, t) ==
  \E i \in 1 .. Len(s) : s[i] = t /\ live[t] /\ \A j \in 1 .. i - 1 : ~live[s[j]]
First(t) == FirstIn(active, td_active, t)

\* The controller works on the chain from its first active transfer on, and
\* what it will not come to by itself is what the main loop is still handing
\* over.
Progress ==
  /\ \A i \in 1 .. Len(active) - 1 : td_active[active[i]] => td_active[active[i + 1]]
  /\ \A i \in 1 .. Len(active) : ~td_active[active[i]] => job[active[i]] \in ran
  /\ prime => First(qh_next)
  /\ unit \in {"armed", "packet", "retire"} => First(cur) /\ cur_job = job[cur]
  /\ unit = "retire" =>
       seen = td_next[cur] \/ (seen = TERMINATE /\ Masked /\ td_next[cur] = transfer)
  /\ unit = "advance" => seen = TERMINATE \/ First(seen)
  /\ (unit = "off" /\ ~prime) \/ (unit = "advance" /\ seen = TERMINATE) =>
       \A i \in 1 .. Len(active) : td_active[active[i]] => Masked /\ i = Len(active)

\* What was handed over is not finished before it was, and what is finished
\* has an interrupt pending.
Pending ==
  /\ pc["main"] = "link" \/ Masked => td_active[transfer]
  /\ pc["main"] = "wait_ready" =>
       ~prime /\ (unit = "off" \/ (unit = "advance" /\ seen = TERMINATE))
  /\ Appending /\ cur = transfer => unit \notin {"packet", "retire"}
  /\ active # <<>> /\ ~td_active[active[1]] => complete \/ pc["isr"] = "completing"

\* While a flush is going on the controller is within a part of the free list
\* that it does not leave, and nothing of it is allocated.
Within(C) ==
  /\ \A t \in C : td_next[t] \in C \cup {TERMINATE}
  /\ prime => qh_next \in C
  /\ unit \in {"armed", "packet", "retire"} => cur \in C
  /\ unit \in {"retire", "advance"} => seen \in C \cup {TERMINATE}
Flushing == \E C \in SUBSET ToSet(free_transfers) : Within(C)

Tracked == IF Window THEN Flushing ELSE Progress

\* What holds of the lists whatever the controller does, and, up to the first
\* flush it drops, of what the controller does with them: an inductive
\* invariant.
QueueInv ==
  /\ TypeOK /\ PoolConserved /\ NeverPopsEmpty
  /\ Apart /\ Turns /\ Bits /\ Chain /\ Jobs
  /\ ~refused => Tracked /\ Pending

=============================================================================
