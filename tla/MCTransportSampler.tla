------------------------ MODULE MCTransportSampler ------------------------
(* Values for the constants of TransportSampler in its TLC run. *)
EXTENDS TransportSampler
=============================================================================
