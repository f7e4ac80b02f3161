--------------------------- MODULE MCVideoPipeline ---------------------------
(* VideoPipeline for TLC.                                                     *)
EXTENDS VideoPipeline

\* Bounds: a suspension costs one of the packets, and leaves no other reason for
\* the epoch to have moved.
Budget ==
    /\ count' + era' <= MaxPackets
    /\ era' > 0 => "reconnect" \notin moved'
==============================================================================
