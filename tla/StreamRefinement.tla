-------------------------- MODULE StreamRefinement --------------------------
(***************************************************************************)
(* Streaming implements SampleStream.  A session is open from the moment    *)
(* the M0 resets the counts for it until transceiver_shutdown() stops the   *)
(* codec stream, and the fill of the buffer is the distance of the counts.  *)
(***************************************************************************)
EXTENDS StreamingInv

Open == Early \/ Running \/ pc4 = "shutdown"

Direction == IF ~Open THEN "closed" ELSE IF mode = "TX" THEN "out" ELSE "in"

Fill ==
  IF ~Open THEN 0
  ELSE IF mode = "TX" THEN Minus(m4_count, m0_count) ELSE Minus(m0_count, m4_count)

Stream == INSTANCE SampleStream
            WITH Capacity <- BufferSize, Block <- TransferSize,
                 direction <- Direction, fill <- Fill

\* The two cores, the USB interrupt and the codec together behave like one
\* bounded buffer: no sample is overwritten before the host took it, none is
\* sent before the host brought it, and no session inherits another's data.
ImplementsStream == Stream!Spec

=============================================================================
