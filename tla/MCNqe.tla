-------------------------------- MODULE MCNqe -------------------------------
(***************************************************************************)
(* Instances of Nqe for TLC.                                               *)
(***************************************************************************)
EXTENDS Nqe, TLC

\* The calls of observers are made by those that the other callers call.
MCOuter == [n \in Nested |-> CHOOSE t \in Callers \ Nested : TRUE]

\* Threads, observers, networks and ECTs are only compared for equality.
NqeSymmetry ==
  (IF Nested = {} THEN Permutations(Callers) ELSE {})
    \cup Permutations(Observers) \cup Permutations(Networks) \cup Permutations(Ects)

\* What observers were told and where samples were measured is recorded for
\* ObserverToldPrevious and CacheOfOwnNetwork; other behaviour depends only on
\* whether a cache entry holds anything.
WithoutHistory ==
  <<rated, others, transfers, analyzer, tracking, observers, detecting, live, reported, owed,
    {m \in Networks : cache[m] # {}}, [t \in Threads |-> [thread[t] EXCEPT !.from = {}]]>>
=============================================================================
