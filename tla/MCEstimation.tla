---------------------------- MODULE MCEstimation ----------------------------
(***************************************************************************)
(* Instances of Estimation for TLC: an RTT in every class and one at a     *)
(* threshold, throughputs in the slowest classes and the fastest, and the  *)
(* default thresholds and multipliers scaled down.                         *)
(***************************************************************************)
EXTENDS Estimation
=============================================================================
