----------------------- MODULE MCNetworkQualityStore -----------------------
(***************************************************************************)
(* Instances of NetworkQualityStore for TLC.                               *)
(***************************************************************************)
EXTENDS NetworkQualityStore, TLC

CONSTANTS plain, comma, other

\* comma's name becomes plain's when its commas are replaced.
MCSanitized == (plain :> plain) @@ (comma :> plain) @@ (other :> other)
=============================================================================
