---------------------------- MODULE Estimation ----------------------------
(***************************************************************************)
(* How Nqe turns the estimates of its sources into one (combineLocked in   *)
(* src/src/Nqe.cpp, EffectiveConnectionType.cpp, Combiner.h): the HTTP RTT *)
(* is bounded by the other RTTs and adjusted when there are few of them,   *)
(* the RTTs are combined, the connection is classified, and the throughput *)
(* is clamped to what the class makes plausible.                           *)
(*                                                                         *)
(* The sources' estimates are the input: what their samples, their         *)
(* weights and the freshness threshold leave of them, None if nothing.     *)
(* Numbers are integers; a product with a multiplier is rounded down.      *)
(***************************************************************************)
EXTENDS Integers

CONSTANTS
  None,                          \* std::nullopt
  RttSlow2G, Rtt2G, Rtt3G,       \* thresholds.http_rtt_...
  KbpsSlow2G, Kbps2G, Kbps3G,    \* thresholds.downstream_throughput_...
  Unit,                          \* a multiplier of 1
  TransportLower,                \* lower_bound_http_rtt_transport_rtt_multiplier
  EndToEndLower, EndToEndUpper,  \* ..._bound_http_rtt_end_to_end_rtt_multiplier
  KbpsUpper,                     \* upper_bound_typical_kbps_multiplier
  TransportMinCount,             \* http_rtt_transport_rtt_min_count
  EndToEndMinCount,              \* http_rtt_end_to_end_rtt_min_count
  AdjustRtt, ClampKbps,          \* adjust_rtt_..., clamp_throughput_based_on_ect
  Rtts, Kbps, Counts             \* bound: the inputs considered

\* Any thresholds, in any order, and any multipliers: validateOptions looks at
\* none of them.
ASSUME EstimationConstants ==
  /\ None \notin Int
  /\ Rtt3G \in Nat /\ Rtt2G \in Nat /\ RttSlow2G \in Nat
  /\ KbpsSlow2G \in Nat /\ Kbps2G \in Nat /\ Kbps3G \in Nat
  /\ Unit \in Nat \ {0}
  /\ TransportLower \in Nat /\ EndToEndLower \in Nat /\ EndToEndUpper \in Nat
  /\ KbpsUpper \in Nat
  /\ TransportMinCount \in Nat /\ EndToEndMinCount \in Nat
  /\ AdjustRtt \in BOOLEAN /\ ClampKbps \in BOOLEAN
  /\ Rtts \subseteq Nat \ {0} /\ Kbps \subseteq Nat \ {0} /\ Counts \subseteq Nat

VARIABLES
  given,    \* what the sources estimate, with their sample counts
  estimate  \* the Estimate returned, None before the call

vars == <<given, estimate>>

-----------------------------------------------------------------------------
(***************************************************************************)
(* computeEffectiveConnectionType.                                         *)
(***************************************************************************)
\* EffectiveConnectionType, in the order of the enum.
UNKNOWN == 0
OFFLINE == 1
SLOW_2G == 2
TYPE_2G == 3
TYPE_3G == 4
TYPE_4G == 5

Types == UNKNOWN..TYPE_4G

Least(a, b) == IF a <= b THEN a ELSE b
Greatest(a, b) == IF a >= b THEN a ELSE b

\* The lesser of two optional values.
LeastOf(a, b) ==
  CASE a = None -> b
    [] b = None -> a
    [] OTHER -> Least(a, b)

TypeOfRtt(rtt) ==
  CASE rtt = None -> TYPE_4G
    [] OTHER -> IF rtt >= RttSlow2G THEN SLOW_2G
                ELSE IF rtt >= Rtt2G THEN TYPE_2G
                ELSE IF rtt >= Rtt3G THEN TYPE_3G
                ELSE TYPE_4G

TypeOfKbps(kbps) ==
  CASE kbps = None -> TYPE_4G
    [] OTHER -> IF kbps < KbpsSlow2G THEN SLOW_2G
                ELSE IF kbps < Kbps2G THEN TYPE_2G
                ELSE IF kbps < Kbps3G THEN TYPE_3G
                ELSE TYPE_4G

ComputeEffectiveConnectionType(http, transport, kbps) ==
  IF http = None /\ transport = None /\ kbps = None THEN UNKNOWN
  ELSE Least(TypeOfRtt(LeastOf(http, transport)), TypeOfKbps(kbps))

-----------------------------------------------------------------------------
(***************************************************************************)
(* updateHttpRttUsingAllRttValues, adjustHttpRttBasedOnRTTCounts,          *)
(* clampThroughputBasedOnEct.                                              *)
(***************************************************************************)
Scaled(x, multiplier) == (x * multiplier) \div Unit

BoundedByTransport(in) == in.transport # None /\ in.transport_count >= TransportMinCount

BoundedByEndToEnd(in) == in.end_to_end # None /\ in.end_to_end_count >= EndToEndMinCount

AtLeastTransport(http, in) ==
  IF BoundedByTransport(in) THEN Greatest(http, Scaled(in.transport, TransportLower))
  ELSE http

AtLeastEndToEnd(http, in) ==
  IF BoundedByEndToEnd(in) THEN Greatest(http, Scaled(in.end_to_end, EndToEndLower))
  ELSE http

\* A multiplier of 0 turns the upper bound off.
AtMostEndToEnd(http, in) ==
  IF BoundedByEndToEnd(in) /\ EndToEndUpper > 0
  THEN Least(http, Scaled(in.end_to_end, EndToEndUpper))
  ELSE http

\* Mutant of BoundedHttpRtt: the upper bound comes before the lower ones.
BoundedHttpRttUpperFirst(in) ==
  IF in.http = None THEN None
  ELSE AtLeastEndToEnd(AtLeastTransport(AtMostEndToEnd(in.http, in), in), in)

BoundedHttpRtt(in) ==
  IF in.http = None THEN None
  ELSE AtMostEndToEnd(AtLeastEndToEnd(AtLeastTransport(in.http, in), in), in)

\* Mutant of TypicalHttpRtt: the cases of a slow 2G connection falls through.
TypicalHttpRttFallsThrough(type) ==
  CASE type = TYPE_2G -> Rtt2G
    [] type \in {SLOW_2G, TYPE_3G, TYPE_4G} -> Rtt3G

TypicalHttpRtt(type) ==
  CASE type = SLOW_2G -> RttSlow2G
    [] type = TYPE_2G -> Rtt2G
    [] type \in {TYPE_3G, TYPE_4G} -> Rtt3G

\* The type is that of the RTTs alone.
AdjustedHttpRtt(http, in) ==
  LET type == ComputeEffectiveConnectionType(http, in.transport, None)
  IN IF /\ AdjustRtt
        /\ in.transport_count < TransportMinCount
        /\ type >= SLOW_2G
        /\ http # None
     THEN Least(http, TypicalHttpRtt(type))
     ELSE http

TypicalKbps(type) ==
  CASE type = SLOW_2G -> KbpsSlow2G
    [] type = TYPE_2G -> Kbps2G
    [] type = TYPE_3G -> Kbps3G

ClampedKbps(kbps, type) ==
  IF ClampKbps /\ kbps # None /\ type \in SLOW_2G..TYPE_3G
  THEN Least(kbps, Scaled(TypicalKbps(type), KbpsUpper))
  ELSE kbps

-----------------------------------------------------------------------------
(***************************************************************************)
(* combineRtt and combineLocked.                                           *)
(***************************************************************************)
\* The possible combinations: a mean of the lower and the upper estimate,
\* weighted by the bias and computed through logarithms, is some value
\* between them, whichever of the two is the greater.
CombineRtt(ping, transport, http) ==
  LET lower == LeastOf(ping, transport)
  IN IF lower = None \/ http = None THEN {LeastOf(lower, http)}
     ELSE Least(lower, http)..Greatest(lower, http)

\* Mutant of OrZero: the combined RTT is taken although there is none.
Unchecked(rtt) == rtt

\* Estimate::rtt_ms when nothing was combined.
OrZero(rtt) == IF rtt = None THEN 0 ELSE rtt

\* Mutant of EstimateWith: the type of the HTTP RTT as it was measured.
EstimateWithMeasuredType(http, in, rtt) ==
  LET type == ComputeEffectiveConnectionType(in.http, in.transport, in.kbps)
  IN [http |-> http, transport |-> in.transport, ping |-> in.ping,
      end_to_end |-> in.end_to_end, kbps |-> ClampedKbps(in.kbps, type),
      rtt |-> OrZero(rtt), type |-> type]

EstimateWith(http, in, rtt) ==
  LET type == ComputeEffectiveConnectionType(http, in.transport, in.kbps)
  IN [http |-> http, transport |-> in.transport, ping |-> in.ping,
      end_to_end |-> in.end_to_end, kbps |-> ClampedKbps(in.kbps, type),
      rtt |-> OrZero(rtt), type |-> type]

\* Mutant of CombineLocked: the RTTs are combined before the adjustment.
CombineLockedEarly(in) ==
  {EstimateWith(AdjustedHttpRtt(BoundedHttpRtt(in), in), in, rtt) :
     rtt \in CombineRtt(in.ping, in.transport, in.http)}

CombineLocked(in) ==
  LET http == AdjustedHttpRtt(BoundedHttpRtt(in), in)
  IN {EstimateWith(http, in, rtt) : rtt \in CombineRtt(in.ping, in.transport, http)}

-----------------------------------------------------------------------------
Given ==
  [http : Rtts \cup {None}, transport : Rtts \cup {None}, ping : Rtts \cup {None},
   end_to_end : Rtts \cup {None}, kbps : Kbps \cup {None},
   transport_count : Counts, end_to_end_count : Counts]

Init == given \in Given /\ estimate = None

\* getEstimate.
GetEstimate ==
  /\ estimate = None
  /\ estimate' \in CombineLocked(given)
  /\ UNCHANGED given

Next == GetEstimate

Spec == Init /\ [][Next]_vars

-----------------------------------------------------------------------------
Optional(S) == S \cup {None}

\* Every variable has its type; no connection is found to be offline.
TypeOK ==
  /\ given \in Given
  /\ estimate # None =>
       estimate \in [http : Optional(Nat), transport : Optional(Rtts), ping : Optional(Rtts),
                     end_to_end : Optional(Rtts), kbps : Optional(Nat), rtt : Nat,
                     type : Types \ {OFFLINE}]

\* The clamp leaves a class at least its typical throughput, and a typical
\* throughput is above the slower classes.  The defaults are such options;
\* validateOptions does not ask for it.
ClampAboveClass ==
  KbpsSlow2G <= Kbps2G /\ Kbps2G <= Kbps3G /\ KbpsUpper >= Unit

\* With such options the type of an estimate is the type of the values in it:
\* the type is computed before the throughput is clamped, and the clamp moves
\* no throughput into a class below the type.
TypeOfOwnValues ==
  ClampAboveClass /\ estimate # None =>
    estimate.type =
      ComputeEffectiveConnectionType(estimate.http, estimate.transport, estimate.kbps)

\* The adjustment put a typical RTT in the place of the HTTP RTT.
AdjustedToTypical(in, http) ==
  AdjustRtt /\ in.transport_count < TransportMinCount /\ http \in {RttSlow2G, Rtt2G, Rtt3G}

\* With enough samples of the other RTTs the HTTP RTT keeps the bounds
\* Nqe.h:121-123 sets for it: multiples of the transport and of the end-to-end
\* RTT.  Of contradictory bounds the upper one of the end-to-end RTT wins, and
\* the adjustment may go below the lower one of the end-to-end RTT.
HttpWithinBounds ==
  estimate # None /\ estimate.http # None =>
    LET http == estimate.http
        capped == /\ BoundedByEndToEnd(given) /\ EndToEndUpper > 0
                  /\ http = Scaled(given.end_to_end, EndToEndUpper)
    IN /\ BoundedByEndToEnd(given) /\ EndToEndUpper > 0 =>
            http <= Scaled(given.end_to_end, EndToEndUpper)
       /\ BoundedByTransport(given) =>
            http >= Scaled(given.transport, TransportLower) \/ capped
       /\ BoundedByEndToEnd(given) =>
            \/ http >= Scaled(given.end_to_end, EndToEndLower)
            \/ capped
            \/ AdjustedToTypical(given, http)

\* The combined RTT lies between the RTTs it is combined of, as they are
\* reported, and is 0 only if there is none.
CombinedBetween ==
  estimate # None =>
    LET parts == {estimate.http, estimate.transport, estimate.ping} \ {None}
    IN IF parts = {} THEN estimate.rtt = 0
       ELSE /\ \E low \in parts : low <= estimate.rtt
            /\ \E high \in parts : estimate.rtt <= high

\* The estimates that are no worse than one: there is one as well, on the
\* better side of it.
NoGreater(rtt) == IF rtt = None THEN {None} ELSE {r \in Rtts : r <= rtt}

NoLess(kbps) == IF kbps = None THEN {None} ELSE {k \in Kbps : k >= kbps}

NoWorse(in) ==
  [http : NoGreater(in.http), transport : NoGreater(in.transport), ping : NoGreater(in.ping),
   end_to_end : NoGreater(in.end_to_end), kbps : NoLess(in.kbps),
   transport_count : {in.transport_count}, end_to_end_count : {in.end_to_end_count}]

\* A connection that measures no worse by any source is not classified as a
\* worse one: no bound, adjustment or choice of a minimum on the way turns the
\* order.
TypeMonotone ==
  estimate # None =>
    \A in \in NoWorse(given) : \A e \in CombineLocked(in) : e.type >= estimate.type
=============================================================================
