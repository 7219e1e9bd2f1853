--------------------------- MODULE MCRttSamples ---------------------------
(* Values for the constants of RttSamples in its TLC run. *)
EXTENDS RttSamples, TLC

RttSamplesSymmetry == Permutations(Senders) \cup Permutations(Receivers) \cup Permutations(Keys)

\* The weight halves with every unit of time.
HalfLife == [age \in 0..Horizon |-> 2 ^ (Horizon - age)]
=============================================================================
