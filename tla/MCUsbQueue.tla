----------------------------- MODULE MCUsbQueue -----------------------------
(***************************************************************************)
(* UsbQueue with the environment under which its transfers are delivered.   *)
(***************************************************************************)
EXTENDS UsbQueueInv

\* What a property may assume of the host: it polls the endpoint when a
\* transfer waits, and every transfer has a last packet.
Hw(A) == A /\ SlowerThanAppend /\ UNCHANGED <<listVars, pc, allocVars, sampled, issued, done>>
HostPolls == WF_vars(Hw(HwPacket)) /\ SF_vars(Hw(HwReadLink))

\* A transfer that was handed over is reported or flushed, with a host that
\* polls: none is forgotten, whatever the controller, the interrupt and the
\* main loop do at once.
Queued(j) == \E t \in ToSet(active) : job[t] = j
Delivered == HostPolls => \A j \in 1 .. MaxJobs : Queued(j) ~> (~Queued(j) \/ refused)

=============================================================================
