------------------------------ MODULE MCSweep ------------------------------
(***************************************************************************)
(* Sweep with the environment under which its liveness is checked.          *)
(***************************************************************************)
EXTENDS SweepInv

\* What a property may assume of the environment: the host reads the blocks,
\* and the codec stream delivers samples whenever the timing assumption lets
\* it.
HostReads == WF_vars(SweepBulkComplete)
CodecRuns == WF_vars(SweepCodec)

\* A sweep goes on, with a host that reads: wherever the loop is, it comes to
\* queue another block, unless a request comes, the M0 has stopped with an
\* error or the bound on shortfalls is reached.
SweepDelivers ==
  HostReads /\ CodecRuns
    => ((Looping /\ current)
          ~> (pc4 = "schedule" \/ ~current \/ error # ERROR_NONE
                \/ num_shortfalls = MaxShortfalls))

=============================================================================
