---------------------------- MODULE MCStreaming ----------------------------
(***************************************************************************)
(* Streaming with the environments under which its liveness is checked.    *)
(***************************************************************************)
EXTENDS Streaming

\* What a property may assume of the environment: the host sends the OUT
\* transfers the device has queued, and the codec stream delivers samples as
\* long as it is enabled.
HostSends == WF_vars(\E n \in OutSizes : BulkOutComplete(n))
CodecRuns == WF_vars(CodecNext)

\* A transmission starts, with a host that sends: the two transfers that fill
\* the buffer complete and enable the codec stream, unless the host asks for
\* another mode first.
TxStarts ==
  HostSends /\ CodecRuns
    => ((pc4 = "tx_loop" /\ ~started) ~> (started \/ ~current))

=============================================================================
