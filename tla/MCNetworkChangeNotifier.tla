---------------------- MODULE MCNetworkChangeNotifier ----------------------
(* Values for the constants of NetworkChangeNotifier in its TLC runs. *)
EXTENDS NetworkChangeNotifier

\* The monitor calls every observer that makes a call.
OuterMonitor == [n \in Nested |-> Monitor]

OnMonitor == [t \in Threads |-> IF t \in Nested THEN Monitor ELSE t]
=============================================================================
