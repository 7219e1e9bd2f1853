------------------------ MODULE MCThroughputAnalyzer ------------------------
(***************************************************************************)
(* Instances of ThroughputAnalyzer for TLC.                                *)
(***************************************************************************)
EXTENDS ThroughputAnalyzer, TLC

\* Ids are only ever compared for equality.
IdSymmetry == Permutations(Ids)
=============================================================================
