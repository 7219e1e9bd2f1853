------------------------- MODULE EstimationProofs -------------------------
(***************************************************************************)
(* Proofs about Estimation, for any thresholds and any multipliers; where  *)
(* a property needs more of them (TypeOfOwnValues), it says so.  The       *)
(* inductive invariant is Inv: an estimate is one that combineLocked makes *)
(* of the inputs; the properties are then lemmas about the operators, that *)
(* each step of the computation keeps classes, bounds and order.           *)
(***************************************************************************)
EXTENDS Estimation, TLAPS

\* The HTTP RTT that is reported.
Http(in) == AdjustedHttpRtt(BoundedHttpRtt(in), in)

Inv ==
  /\ given \in Given
  /\ estimate # None => estimate \in CombineLocked(given)

\* x is no slower than y: both are missing, or x is at most y.
NoSlower(x, y) ==
  \/ x = None /\ y = None
  \/ x \in Nat /\ y \in Nat /\ x <= y

-----------------------------------------------------------------------------
(***************************************************************************)
(* Arithmetic.                                                             *)
(***************************************************************************)
LEMMA DivMonotone ==
  ASSUME NEW a \in Nat, NEW b \in Nat, NEW u \in Nat \ {0}, a <= b
  PROVE  (a \div u) \in Nat /\ (a \div u) <= (b \div u)
OBVIOUS

LEMMA DivTimes ==
  ASSUME NEW x \in Nat, NEW u \in Nat \ {0}
  PROVE  (x * u) \div u = x
OBVIOUS

LEMMA ScaledMonotone ==
  ASSUME NEW x \in Nat, NEW y \in Nat, NEW m \in Nat, x <= y
  PROVE  Scaled(x, m) \in Nat /\ Scaled(x, m) <= Scaled(y, m)
<1>1. x * m \in Nat /\ y * m \in Nat /\ x * m <= y * m
  OBVIOUS
<1>2. Unit \in Nat \ {0}
  BY EstimationConstants
<1> QED
  BY <1>1, <1>2, DivMonotone DEF Scaled

LEMMA ScaledType ==
  ASSUME NEW x \in Nat, NEW m \in Nat
  PROVE  Scaled(x, m) \in Nat
BY ScaledMonotone, x <= x

\* A multiplier of at least 1 does not shrink.
LEMMA ScaledGrows ==
  ASSUME NEW x \in Nat, NEW m \in Nat, m >= Unit
  PROVE  Scaled(x, m) \in Nat /\ Scaled(x, m) >= x
<1>1. Unit \in Nat \ {0}
  BY EstimationConstants
<1>2. x * m \in Nat /\ x * Unit \in Nat /\ x * Unit <= x * m
  BY <1>1
<1>3. (x * Unit) \div Unit = x
  BY <1>1, DivTimes
<1> QED
  BY <1>1, <1>2, <1>3, DivMonotone DEF Scaled

-----------------------------------------------------------------------------
(***************************************************************************)
(* The classification.                                                     *)
(***************************************************************************)
LEMMA RttTypes ==
  ASSUME NEW rtt \in Optional(Nat)
  PROVE  TypeOfRtt(rtt) \in SLOW_2G..TYPE_4G
BY EstimationConstants DEF Optional, TypeOfRtt, SLOW_2G, TYPE_2G, TYPE_3G, TYPE_4G

LEMMA KbpsTypes ==
  ASSUME NEW kbps \in Optional(Nat)
  PROVE  TypeOfKbps(kbps) \in SLOW_2G..TYPE_4G
BY EstimationConstants DEF Optional, TypeOfKbps, SLOW_2G, TYPE_2G, TYPE_3G, TYPE_4G

LEMMA LeastOfType ==
  ASSUME NEW a \in Optional(Nat), NEW b \in Optional(Nat)
  PROVE  LeastOf(a, b) \in Optional(Nat)
BY DEF LeastOf, Least, Optional

LEMMA TypesComputed ==
  ASSUME NEW http \in Optional(Nat), NEW transport \in Optional(Nat),
         NEW kbps \in Optional(Nat)
  PROVE  ComputeEffectiveConnectionType(http, transport, kbps) \in Types \ {OFFLINE}
<1>1. LeastOf(http, transport) \in Optional(Nat)
  BY LeastOfType
<1>2. /\ TypeOfRtt(LeastOf(http, transport)) \in SLOW_2G..TYPE_4G
      /\ TypeOfKbps(kbps) \in SLOW_2G..TYPE_4G
  BY <1>1, RttTypes, KbpsTypes
<1> QED
  BY <1>2 DEF ComputeEffectiveConnectionType, Least, Types, UNKNOWN, OFFLINE, SLOW_2G, TYPE_4G

LEMMA LeastOfMonotone ==
  ASSUME NEW a, NEW b, NEW c, NEW d, NoSlower(a, b), NoSlower(c, d)
  PROVE  NoSlower(LeastOf(a, c), LeastOf(b, d))
BY EstimationConstants DEF NoSlower, LeastOf, Least

LEMMA RttTypeMonotone ==
  ASSUME NEW a, NEW b, NoSlower(a, b)
  PROVE  TypeOfRtt(a) >= TypeOfRtt(b)
BY EstimationConstants DEF NoSlower, TypeOfRtt, SLOW_2G, TYPE_2G, TYPE_3G, TYPE_4G

LEMMA KbpsTypeMonotone ==
  ASSUME NEW a, NEW b, NoSlower(b, a)
  PROVE  TypeOfKbps(a) >= TypeOfKbps(b)
BY EstimationConstants DEF NoSlower, TypeOfKbps, SLOW_2G, TYPE_2G, TYPE_3G, TYPE_4G

\* Of values that are no slower the class is no worse.
LEMMA ComputedMonotone ==
  ASSUME NEW h1, NEW h2, NoSlower(h1, h2),
         NEW t1, NEW t2, NoSlower(t1, t2),
         NEW k1, NEW k2, NoSlower(k2, k1)
  PROVE  ComputeEffectiveConnectionType(h1, t1, k1)
           >= ComputeEffectiveConnectionType(h2, t2, k2)
<1>1. NoSlower(LeastOf(h1, t1), LeastOf(h2, t2))
  BY LeastOfMonotone
<1> DEFINE r1 == TypeOfRtt(LeastOf(h1, t1))
           r2 == TypeOfRtt(LeastOf(h2, t2))
<1>2. r1 >= r2 /\ TypeOfKbps(k1) >= TypeOfKbps(k2)
  BY <1>1, RttTypeMonotone, KbpsTypeMonotone
<1>3. r1 \in SLOW_2G..TYPE_4G /\ r2 \in SLOW_2G..TYPE_4G
  BY <1>1, RttTypes DEF NoSlower, Optional
<1>4. TypeOfKbps(k1) \in SLOW_2G..TYPE_4G /\ TypeOfKbps(k2) \in SLOW_2G..TYPE_4G
  BY KbpsTypes DEF NoSlower, Optional
<1>5. (h1 = None /\ t1 = None /\ k1 = None) <=> (h2 = None /\ t2 = None /\ k2 = None)
  BY EstimationConstants DEF NoSlower
<1> HIDE DEF r1, r2
<1>6. Least(r1, TypeOfKbps(k1)) >= Least(r2, TypeOfKbps(k2))
  BY <1>2, <1>3, <1>4 DEF Least, SLOW_2G, TYPE_4G
<1> QED
  BY <1>5, <1>6 DEF ComputeEffectiveConnectionType, r1, r2, UNKNOWN

-----------------------------------------------------------------------------
(***************************************************************************)
(* The HTTP RTT.                                                           *)
(***************************************************************************)
LEMMA GivenType ==
  ASSUME NEW in \in Given
  PROVE  /\ in.http \in Optional(Nat) /\ in.transport \in Optional(Nat)
         /\ in.ping \in Optional(Nat) /\ in.end_to_end \in Optional(Nat)
         /\ in.kbps \in Optional(Nat)
         /\ in.transport_count \in Nat /\ in.end_to_end_count \in Nat
BY EstimationConstants DEF Given, Optional

LEMMA BoundedByType ==
  ASSUME NEW in \in Given
  PROVE  /\ BoundedByTransport(in) => in.transport \in Nat
         /\ BoundedByEndToEnd(in) => in.end_to_end \in Nat
BY GivenType DEF BoundedByTransport, BoundedByEndToEnd, Optional

LEMMA AtLeastTransportType ==
  ASSUME NEW in \in Given, NEW h \in Nat
  PROVE  AtLeastTransport(h, in) \in Nat
<1>1. CASE BoundedByTransport(in)
  <2>1. Scaled(in.transport, TransportLower) \in Nat
    BY <1>1, BoundedByType, ScaledType, EstimationConstants
  <2> QED
    BY <2>1 DEF AtLeastTransport, Greatest
<1>2. CASE ~ BoundedByTransport(in)
  BY <1>2 DEF AtLeastTransport
<1> QED
  BY <1>1, <1>2

LEMMA AtLeastEndToEndType ==
  ASSUME NEW in \in Given, NEW h \in Nat
  PROVE  AtLeastEndToEnd(h, in) \in Nat
<1>1. CASE BoundedByEndToEnd(in)
  <2>1. Scaled(in.end_to_end, EndToEndLower) \in Nat
    BY <1>1, BoundedByType, ScaledType, EstimationConstants
  <2> QED
    BY <2>1 DEF AtLeastEndToEnd, Greatest
<1>2. CASE ~ BoundedByEndToEnd(in)
  BY <1>2 DEF AtLeastEndToEnd
<1> QED
  BY <1>1, <1>2

LEMMA AtMostEndToEndType ==
  ASSUME NEW in \in Given, NEW h \in Nat
  PROVE  AtMostEndToEnd(h, in) \in Nat
<1>1. CASE BoundedByEndToEnd(in)
  <2>1. Scaled(in.end_to_end, EndToEndUpper) \in Nat
    BY <1>1, BoundedByType, ScaledType, EstimationConstants
  <2> QED
    BY <2>1 DEF AtMostEndToEnd, Least
<1>2. CASE ~ BoundedByEndToEnd(in)
  BY <1>2 DEF AtMostEndToEnd
<1> QED
  BY <1>1, <1>2

\* Bounding neither makes up an HTTP RTT nor loses one.
LEMMA BoundedType ==
  ASSUME NEW in \in Given
  PROVE  /\ BoundedHttpRtt(in) \in Optional(Nat)
         /\ BoundedHttpRtt(in) = None <=> in.http = None
<1>1. CASE in.http = None
  BY <1>1 DEF BoundedHttpRtt, Optional
<1>2. CASE in.http \in Nat
  <2>1. AtLeastTransport(in.http, in) \in Nat
    BY <1>2, AtLeastTransportType
  <2>2. AtLeastEndToEnd(AtLeastTransport(in.http, in), in) \in Nat
    BY <2>1, AtLeastEndToEndType
  <2>3. AtMostEndToEnd(AtLeastEndToEnd(AtLeastTransport(in.http, in), in), in) \in Nat
    BY <2>2, AtMostEndToEndType
  <2> QED
    BY <1>2, <2>3, EstimationConstants DEF BoundedHttpRtt, Optional
<1> QED
  BY <1>1, <1>2, GivenType DEF Optional

\* A preliminary type of SLOW_2G or better has a typical HTTP RTT.
LEMMA TypicalHttpRttType ==
  ASSUME NEW type \in Types, type >= SLOW_2G
  PROVE  TypicalHttpRtt(type) \in Nat
BY EstimationConstants
   DEF Types, TypicalHttpRtt, UNKNOWN, SLOW_2G, TYPE_2G, TYPE_3G, TYPE_4G

LEMMA AdjustedType ==
  ASSUME NEW in \in Given, NEW h \in Optional(Nat)
  PROVE  /\ AdjustedHttpRtt(h, in) \in Optional(Nat)
         /\ AdjustedHttpRtt(h, in) = None <=> h = None
<1> DEFINE type == ComputeEffectiveConnectionType(h, in.transport, None)
<1>1. type \in Types
  BY GivenType, TypesComputed DEF Optional
<1>2. CASE h # None /\ type >= SLOW_2G
  <2>1. TypicalHttpRtt(type) \in Nat
    BY <1>1, <1>2, TypicalHttpRttType
  <2> HIDE DEF type
  <2>2. h \in Nat /\ Least(h, TypicalHttpRtt(type)) \in Nat
    BY <1>2, <2>1 DEF Least, Optional
  <2> QED
    BY <1>2, <2>2, EstimationConstants DEF AdjustedHttpRtt, Optional, type
<1>3. CASE ~(h # None /\ type >= SLOW_2G)
  BY <1>3 DEF AdjustedHttpRtt
<1> QED
  BY <1>2, <1>3

LEMMA HttpType ==
  ASSUME NEW in \in Given
  PROVE  /\ Http(in) \in Optional(Nat)
         /\ Http(in) = None <=> in.http = None
BY BoundedType, AdjustedType DEF Http

\* The adjustment only lowers the RTT.
LEMMA AdjustedLowers ==
  ASSUME NEW in \in Given, NEW h \in Nat
  PROVE  AdjustedHttpRtt(h, in) \in Nat /\ AdjustedHttpRtt(h, in) <= h
<1> DEFINE type == ComputeEffectiveConnectionType(h, in.transport, None)
<1>1. type \in Types
  BY GivenType, TypesComputed DEF Optional
<1>2. CASE type >= SLOW_2G
  <2>1. TypicalHttpRtt(type) \in Nat
    BY <1>1, <1>2, TypicalHttpRttType
  <2> HIDE DEF type
  <2>2. Least(h, TypicalHttpRtt(type)) \in Nat /\ Least(h, TypicalHttpRtt(type)) <= h
    BY <2>1 DEF Least
  <2> QED
    BY <2>2 DEF AdjustedHttpRtt, type
<1>3. CASE ~(type >= SLOW_2G)
  BY <1>3 DEF AdjustedHttpRtt
<1> QED
  BY <1>2, <1>3

\* Whatever the adjustment changes becomes a typical RTT.
LEMMA AdjustedToSomething ==
  ASSUME NEW in \in Given, NEW h \in Nat
  PROVE  AdjustedHttpRtt(h, in) = h \/ AdjustedToTypical(in, AdjustedHttpRtt(h, in))
<1> DEFINE type == ComputeEffectiveConnectionType(h, in.transport, None)
<1>1. type \in Types
  BY GivenType, TypesComputed DEF Optional
<1>2. CASE AdjustRtt /\ in.transport_count < TransportMinCount /\ type >= SLOW_2G /\ h # None
  <2>1. TypicalHttpRtt(type) \in {RttSlow2G, Rtt2G, Rtt3G}
    <3> HIDE DEF type
    <3> QED BY <1>1, <1>2 DEF Types, TypicalHttpRtt, UNKNOWN, SLOW_2G, TYPE_2G, TYPE_3G, TYPE_4G
  <2>2. AdjustedHttpRtt(h, in) = Least(h, TypicalHttpRtt(type))
    BY <1>2 DEF AdjustedHttpRtt
  <2> HIDE DEF type
  <2> QED
    BY <1>2, <2>1, <2>2 DEF Least, AdjustedToTypical
<1>3. CASE ~(AdjustRtt /\ in.transport_count < TransportMinCount /\ type >= SLOW_2G /\ h # None)
  BY <1>3 DEF AdjustedHttpRtt
<1> QED
  BY <1>2, <1>3

LEMMA HttpBounds ==
  ASSUME NEW in \in Given, Http(in) # None
  PROVE  LET capped == /\ BoundedByEndToEnd(in) /\ EndToEndUpper > 0
                       /\ Http(in) = Scaled(in.end_to_end, EndToEndUpper)
         IN /\ BoundedByEndToEnd(in) /\ EndToEndUpper > 0 =>
                 Http(in) <= Scaled(in.end_to_end, EndToEndUpper)
            /\ BoundedByTransport(in) =>
                 Http(in) >= Scaled(in.transport, TransportLower) \/ capped
            /\ BoundedByEndToEnd(in) =>
                 \/ Http(in) >= Scaled(in.end_to_end, EndToEndLower)
                 \/ capped
                 \/ AdjustedToTypical(in, Http(in))
<1> DEFINE low == AtLeastTransport(in.http, in)
           high == AtLeastEndToEnd(low, in)
           bounded == AtMostEndToEnd(high, in)
<1>1. in.http \in Nat /\ in.http # None
  BY HttpType, GivenType DEF Optional
<1>2. low \in Nat /\ high \in Nat /\ bounded \in Nat
  BY <1>1, AtLeastTransportType, AtLeastEndToEndType, AtMostEndToEndType
<1>3. BoundedHttpRtt(in) = bounded
  BY <1>1 DEF BoundedHttpRtt
<1>4. Http(in) \in Nat /\ Http(in) <= bounded
  BY <1>2, <1>3, AdjustedLowers DEF Http
<1>5. BoundedByEndToEnd(in) => /\ Scaled(in.end_to_end, EndToEndLower) \in Nat
                               /\ Scaled(in.end_to_end, EndToEndUpper) \in Nat
  BY BoundedByType, ScaledType, EstimationConstants
<1>6. BoundedByTransport(in) => Scaled(in.transport, TransportLower) \in Nat
  BY BoundedByType, ScaledType, EstimationConstants
<1>7. BoundedByTransport(in) => low >= Scaled(in.transport, TransportLower)
  BY <1>1, <1>6 DEF AtLeastTransport, Greatest
<1> HIDE DEF low
<1>8. high >= low
  BY <1>2, <1>5 DEF AtLeastEndToEnd, Greatest
<1>13. BoundedByEndToEnd(in) => high >= Scaled(in.end_to_end, EndToEndLower)
  BY <1>2, <1>5 DEF AtLeastEndToEnd, Greatest
<1> HIDE DEF high
<1>9. \/ bounded = high
      \/ BoundedByEndToEnd(in) /\ EndToEndUpper > 0
         /\ bounded = Scaled(in.end_to_end, EndToEndUpper)
  BY DEF AtMostEndToEnd, Least
<1>10. BoundedByEndToEnd(in) /\ EndToEndUpper > 0 =>
         bounded <= Scaled(in.end_to_end, EndToEndUpper)
  BY <1>2, <1>5 DEF AtMostEndToEnd, Least
<1> HIDE DEF bounded
<1>11. Http(in) = bounded \/ AdjustedToTypical(in, Http(in))
  BY <1>2, <1>3, AdjustedToSomething DEF Http
<1>12. BoundedByTransport(in) => Http(in) = bounded
  <2>1. BoundedByTransport(in) => ~(in.transport_count < TransportMinCount)
    BY GivenType, EstimationConstants DEF BoundedByTransport
  <2> QED
    BY <2>1, <1>3 DEF Http, AdjustedHttpRtt
<1> QED
  BY <1>2, <1>4, <1>5, <1>6, <1>7, <1>8, <1>13, <1>9, <1>10, <1>11, <1>12

-----------------------------------------------------------------------------
(***************************************************************************)
(* The order.                                                              *)
(***************************************************************************)
LEMMA NoWorseFields ==
  ASSUME NEW in \in Given, NEW better \in NoWorse(in)
  PROVE  /\ better \in Given
         /\ NoSlower(better.http, in.http) /\ NoSlower(better.transport, in.transport)
         /\ NoSlower(better.end_to_end, in.end_to_end) /\ NoSlower(in.kbps, better.kbps)
         /\ better.transport_count = in.transport_count
         /\ better.end_to_end_count = in.end_to_end_count
<1>1. /\ better.http \in NoGreater(in.http) /\ better.transport \in NoGreater(in.transport)
      /\ better.ping \in NoGreater(in.ping)
      /\ better.end_to_end \in NoGreater(in.end_to_end)
      /\ better.kbps \in NoLess(in.kbps)
      /\ better.transport_count = in.transport_count
      /\ better.end_to_end_count = in.end_to_end_count
  BY DEF NoWorse
<1>2. \A rtt \in Rtts \cup {None} : \A r \in NoGreater(rtt) :
        r \in Rtts \cup {None} /\ NoSlower(r, rtt)
  BY EstimationConstants DEF NoGreater, NoSlower
<1>3. \A k \in Kbps \cup {None} : \A b \in NoLess(k) :
        b \in Kbps \cup {None} /\ NoSlower(k, b)
  BY EstimationConstants DEF NoLess, NoSlower
<1>4. better = [http |-> better.http, transport |-> better.transport, ping |-> better.ping,
                end_to_end |-> better.end_to_end, kbps |-> better.kbps,
                transport_count |-> better.transport_count,
                end_to_end_count |-> better.end_to_end_count]
  BY DEF NoWorse
<1>5. /\ in.http \in Rtts \cup {None} /\ in.transport \in Rtts \cup {None}
      /\ in.ping \in Rtts \cup {None} /\ in.end_to_end \in Rtts \cup {None}
      /\ in.kbps \in Kbps \cup {None}
      /\ in.transport_count \in Counts /\ in.end_to_end_count \in Counts
  BY DEF Given
<1>6. /\ better.http \in Rtts \cup {None} /\ NoSlower(better.http, in.http)
      /\ better.transport \in Rtts \cup {None} /\ NoSlower(better.transport, in.transport)
      /\ better.ping \in Rtts \cup {None}
      /\ better.end_to_end \in Rtts \cup {None} /\ NoSlower(better.end_to_end, in.end_to_end)
      /\ better.kbps \in Kbps \cup {None} /\ NoSlower(in.kbps, better.kbps)
  BY <1>1, <1>2, <1>3, <1>5
<1>7. better \in Given
  BY <1>1, <1>4, <1>5, <1>6 DEF Given
<1> QED
  BY <1>1, <1>6, <1>7

LEMMA BoundedMonotone ==
  ASSUME NEW in \in Given, NEW better \in NoWorse(in)
  PROVE  NoSlower(BoundedHttpRtt(better), BoundedHttpRtt(in))
<1>1. CASE in.http = None
  BY <1>1, NoWorseFields, EstimationConstants DEF NoSlower, BoundedHttpRtt
<1>2. CASE in.http # None
  <2> DEFINE low(i) == AtLeastTransport(i.http, i)
             high(i) == AtLeastEndToEnd(low(i), i)
             bounded(i) == AtMostEndToEnd(high(i), i)
  <2>1. /\ better \in Given
        /\ in.http \in Nat /\ better.http \in Nat /\ better.http # None
        /\ better.http <= in.http
    BY <1>2, NoWorseFields, EstimationConstants DEF NoSlower
  <2>2. /\ BoundedByTransport(in) <=> BoundedByTransport(better)
        /\ BoundedByEndToEnd(in) <=> BoundedByEndToEnd(better)
    BY NoWorseFields, EstimationConstants
       DEF BoundedByTransport, BoundedByEndToEnd, NoSlower
  <2>3. BoundedByTransport(in) => /\ in.transport \in Nat /\ better.transport \in Nat
                                  /\ better.transport <= in.transport
    BY NoWorseFields, EstimationConstants DEF BoundedByTransport, NoSlower
  <2>4. BoundedByEndToEnd(in) => /\ in.end_to_end \in Nat /\ better.end_to_end \in Nat
                                 /\ better.end_to_end <= in.end_to_end
    BY NoWorseFields, EstimationConstants DEF BoundedByEndToEnd, NoSlower
  <2>5. low(in) \in Nat /\ low(better) \in Nat /\ low(better) <= low(in)
    <3>1. CASE BoundedByTransport(in)
      <4>1. /\ Scaled(in.transport, TransportLower) \in Nat
            /\ Scaled(better.transport, TransportLower) \in Nat
            /\ Scaled(better.transport, TransportLower) <= Scaled(in.transport, TransportLower)
        BY <3>1, <2>3, ScaledMonotone, ScaledType, EstimationConstants
      <4> QED
        BY <3>1, <2>1, <2>2, <4>1 DEF AtLeastTransport, Greatest
    <3>2. CASE ~ BoundedByTransport(in)
      BY <3>2, <2>1, <2>2 DEF AtLeastTransport
    <3> QED
      BY <3>1, <3>2
  <2> HIDE DEF low
  <2>6. high(in) \in Nat /\ high(better) \in Nat /\ high(better) <= high(in)
    <3>1. CASE BoundedByEndToEnd(in)
      <4>1. /\ Scaled(in.end_to_end, EndToEndLower) \in Nat
            /\ Scaled(better.end_to_end, EndToEndLower) \in Nat
            /\ Scaled(better.end_to_end, EndToEndLower) <= Scaled(in.end_to_end, EndToEndLower)
        BY <3>1, <2>4, ScaledMonotone, ScaledType, EstimationConstants
      <4> QED
        BY <3>1, <2>2, <2>5, <4>1 DEF AtLeastEndToEnd, Greatest
    <3>2. CASE ~ BoundedByEndToEnd(in)
      BY <3>2, <2>2, <2>5 DEF AtLeastEndToEnd
    <3> QED
      BY <3>1, <3>2
  <2> HIDE DEF high
  <2>7. bounded(in) \in Nat /\ bounded(better) \in Nat /\ bounded(better) <= bounded(in)
    <3>1. CASE BoundedByEndToEnd(in)
      <4>1. /\ Scaled(in.end_to_end, EndToEndUpper) \in Nat
            /\ Scaled(better.end_to_end, EndToEndUpper) \in Nat
            /\ Scaled(better.end_to_end, EndToEndUpper) <= Scaled(in.end_to_end, EndToEndUpper)
        BY <3>1, <2>4, ScaledMonotone, ScaledType, EstimationConstants
      <4> QED
        BY <3>1, <2>2, <2>6, <4>1 DEF AtMostEndToEnd, Least
    <3>2. CASE ~ BoundedByEndToEnd(in)
      BY <3>2, <2>2, <2>6 DEF AtMostEndToEnd
    <3> QED
      BY <3>1, <3>2
  <2> QED
    BY <1>2, <2>1, <2>7 DEF NoSlower, BoundedHttpRtt, high, low
<1> QED
  BY <1>1, <1>2

\* The adjustment moves no connection into another class of RTT: the lesser of
\* the HTTP and the transport RTT, when it is lowered, is lowered to the
\* threshold its class begins at.
LEMMA AdjustedKeepsClass ==
  ASSUME NEW in \in Given, NEW h \in Optional(Nat)
  PROVE  TypeOfRtt(LeastOf(AdjustedHttpRtt(h, in), in.transport))
           = TypeOfRtt(LeastOf(h, in.transport))
<1> DEFINE type == ComputeEffectiveConnectionType(h, in.transport, None)
           typical == TypicalHttpRtt(type)
           rtt == LeastOf(h, in.transport)
<1>1. in.transport \in Optional(Nat) /\ None \notin Nat
  BY GivenType, EstimationConstants
<1>2. CASE AdjustRtt /\ in.transport_count < TransportMinCount /\ type >= SLOW_2G /\ h # None
  <2>1. AdjustedHttpRtt(h, in) = Least(h, typical)
    BY <1>2 DEF AdjustedHttpRtt
  <2>2. h \in Nat /\ rtt \in Nat /\ rtt # None /\ rtt <= h
    BY <1>1, <1>2 DEF Optional, LeastOf, Least
  <2>3. type = TypeOfRtt(rtt)
    <3>1. type = Least(TypeOfRtt(rtt), TYPE_4G)
      BY <1>2 DEF ComputeEffectiveConnectionType, TypeOfKbps
    <3>2. TypeOfRtt(rtt) \in SLOW_2G..TYPE_4G
      BY <2>2, RttTypes DEF Optional
    <3> HIDE DEF type, rtt
    <3> QED BY <3>1, <3>2 DEF Least, SLOW_2G, TYPE_4G
  <2>4. /\ rtt >= RttSlow2G => type = SLOW_2G /\ typical = RttSlow2G
        /\ rtt < RttSlow2G /\ rtt >= Rtt2G => type = TYPE_2G /\ typical = Rtt2G
        /\ rtt < RttSlow2G /\ rtt < Rtt2G /\ rtt >= Rtt3G => type = TYPE_3G /\ typical = Rtt3G
        /\ rtt < RttSlow2G /\ rtt < Rtt2G /\ rtt < Rtt3G => type = TYPE_4G /\ typical = Rtt3G
    <3> HIDE DEF rtt
    <3>1. /\ rtt >= RttSlow2G => type = SLOW_2G
          /\ rtt < RttSlow2G /\ rtt >= Rtt2G => type = TYPE_2G
          /\ rtt < RttSlow2G /\ rtt < Rtt2G /\ rtt >= Rtt3G => type = TYPE_3G
          /\ rtt < RttSlow2G /\ rtt < Rtt2G /\ rtt < Rtt3G => type = TYPE_4G
      BY <2>2, <2>3, EstimationConstants DEF TypeOfRtt
    <3> HIDE DEF type
    <3> QED BY <3>1 DEF TypicalHttpRtt, SLOW_2G, TYPE_2G, TYPE_3G, TYPE_4G
  <2>5. typical \in Nat /\ typical # None
    <3> HIDE DEF typical, type, rtt
    <3> QED BY <2>2, <2>4, <1>1, EstimationConstants
  <2>6. LeastOf(Least(h, typical), in.transport) = Least(rtt, typical)
    <3> HIDE DEF typical
    <3> QED BY <1>1, <2>2, <2>5 DEF LeastOf, Least, Optional
  <2>7. TypeOfRtt(Least(rtt, typical)) = TypeOfRtt(rtt)
    <3>1. Least(rtt, typical) \in Nat /\ Least(rtt, typical) # None
      <4> HIDE DEF rtt, typical
      <4> QED BY <2>2, <2>5 DEF Least
    <3> HIDE DEF rtt, typical, type
    <3> QED BY <2>2, <2>4, <2>5, <3>1, EstimationConstants DEF TypeOfRtt, Least
  <2> QED
    BY <2>1, <2>6, <2>7
<1>3. CASE ~(AdjustRtt /\ in.transport_count < TransportMinCount /\ type >= SLOW_2G /\ h # None)
  BY <1>3 DEF AdjustedHttpRtt
<1> QED
  BY <1>2, <1>3

\* So the reported HTTP RTT gives the type the bounded one gives.
LEMMA TypeOfHttp ==
  ASSUME NEW in \in Given
  PROVE  ComputeEffectiveConnectionType(Http(in), in.transport, in.kbps)
           = ComputeEffectiveConnectionType(BoundedHttpRtt(in), in.transport, in.kbps)
<1>1. BoundedHttpRtt(in) \in Optional(Nat)
  BY BoundedType
<1>2. Http(in) = None <=> BoundedHttpRtt(in) = None
  BY <1>1, AdjustedType DEF Http
<1> QED
  BY <1>1, <1>2, AdjustedKeepsClass DEF Http, ComputeEffectiveConnectionType

-----------------------------------------------------------------------------
(***************************************************************************)
(* The estimate.                                                           *)
(***************************************************************************)
\* What is known of an estimate before its values are looked into.
LEMMA Combined ==
  ASSUME NEW in \in Given, NEW e \in CombineLocked(in)
  PROVE  \E rtt \in CombineRtt(in.ping, in.transport, Http(in)) :
           LET type == ComputeEffectiveConnectionType(Http(in), in.transport, in.kbps)
           IN e = [http |-> Http(in), transport |-> in.transport, ping |-> in.ping,
                   end_to_end |-> in.end_to_end, kbps |-> ClampedKbps(in.kbps, type),
                   rtt |-> OrZero(rtt), type |-> type]
BY DEF CombineLocked, Http, EstimateWith

LEMMA TypeOfCombined ==
  ASSUME NEW in \in Given, NEW e \in CombineLocked(in)
  PROVE  /\ e.type = ComputeEffectiveConnectionType(Http(in), in.transport, in.kbps)
         /\ e.http = Http(in) /\ e.transport = in.transport /\ e.ping = in.ping
         /\ e.kbps = ClampedKbps(in.kbps, e.type)
BY Combined

\* A clamped throughput stays in a class above the type it is clamped for.
LEMMA ClampKeepsClass ==
  ASSUME ClampAboveClass, NEW type \in SLOW_2G..TYPE_3G
  PROVE  /\ TypicalKbps(type) \in Nat
         /\ Scaled(TypicalKbps(type), KbpsUpper) \in Nat
         /\ TypeOfKbps(Scaled(TypicalKbps(type), KbpsUpper)) > type
<1>1. TypicalKbps(type) \in Nat
  BY EstimationConstants DEF TypicalKbps, SLOW_2G, TYPE_2G, TYPE_3G
<1>2. /\ Scaled(TypicalKbps(type), KbpsUpper) \in Nat
      /\ Scaled(TypicalKbps(type), KbpsUpper) >= TypicalKbps(type)
  BY <1>1, ScaledGrows, EstimationConstants DEF ClampAboveClass
<1>3. \A kbps \in Nat : kbps >= TypicalKbps(type) => TypeOfKbps(kbps) > type
  BY EstimationConstants
     DEF ClampAboveClass, TypicalKbps, TypeOfKbps, SLOW_2G, TYPE_2G, TYPE_3G, TYPE_4G
<1> QED
  BY <1>1, <1>2, <1>3

\* Whatever the options, a clamped throughput is a throughput.
LEMMA ClampedType ==
  ASSUME NEW kbps \in Optional(Nat), NEW type
  PROVE  ClampedKbps(kbps, type) \in Optional(Nat)
<1>1. CASE ClampKbps /\ kbps # None /\ type \in SLOW_2G..TYPE_3G
  <2>1. TypicalKbps(type) \in Nat
    BY <1>1, EstimationConstants DEF TypicalKbps, SLOW_2G, TYPE_2G, TYPE_3G
  <2>2. Scaled(TypicalKbps(type), KbpsUpper) \in Nat
    BY <2>1, ScaledType, EstimationConstants
  <2> QED
    BY <1>1, <2>2 DEF ClampedKbps, Least, Optional
<1>2. CASE ~(ClampKbps /\ kbps # None /\ type \in SLOW_2G..TYPE_3G)
  BY <1>2 DEF ClampedKbps
<1> QED
  BY <1>1, <1>2

LEMMA ClampKeepsType ==
  ASSUME ClampAboveClass,
         NEW http \in Optional(Nat), NEW transport \in Optional(Nat),
         NEW kbps \in Optional(Nat)
  PROVE  LET type == ComputeEffectiveConnectionType(http, transport, kbps)
             clamped == ClampedKbps(kbps, type)
         IN /\ clamped \in Optional(Nat)
            /\ type = ComputeEffectiveConnectionType(http, transport, clamped)
<1> DEFINE type == ComputeEffectiveConnectionType(http, transport, kbps)
           clamped == ClampedKbps(kbps, type)
           bound == Scaled(TypicalKbps(type), KbpsUpper)
           rttType == TypeOfRtt(LeastOf(http, transport))
<1>1. CASE clamped = kbps
  BY <1>1
<1>2. CASE clamped # kbps
  <2>1. kbps \in Nat /\ kbps # None /\ type \in SLOW_2G..TYPE_3G /\ clamped = Least(kbps, bound)
    BY <1>2 DEF ClampedKbps, Optional
  <2>2. bound \in Nat /\ TypeOfKbps(bound) > type
    BY <2>1, ClampKeepsClass
  <2>3. clamped = bound /\ bound < kbps
    BY <1>2, <2>1, <2>2 DEF Least
  <2>4. TypeOfKbps(kbps) >= TypeOfKbps(bound)
    BY <2>1, <2>2, <2>3, KbpsTypeMonotone DEF NoSlower
  <2>5. type = Least(rttType, TypeOfKbps(kbps))
    BY <2>1 DEF ComputeEffectiveConnectionType
  <2>6. /\ rttType \in SLOW_2G..TYPE_4G /\ TypeOfKbps(kbps) \in SLOW_2G..TYPE_4G
        /\ TypeOfKbps(bound) \in SLOW_2G..TYPE_4G
    BY <2>1, <2>2, LeastOfType, RttTypes, KbpsTypes DEF Optional
  <2>7. bound # None
    BY <2>2, EstimationConstants
  <2>8. ComputeEffectiveConnectionType(http, transport, bound) = Least(rttType, TypeOfKbps(bound))
    BY <2>7 DEF ComputeEffectiveConnectionType
  <2> HIDE DEF type, clamped, bound, rttType
  <2>9. Least(rttType, TypeOfKbps(bound)) = type
    BY <2>2, <2>4, <2>5, <2>6 DEF Least, SLOW_2G, TYPE_4G
  <2> QED
    BY <2>2, <2>3, <2>8, <2>9 DEF Optional, type, clamped
<1> QED
  BY <1>1, <1>2

\* The conclusion of CombinedBetween.
Between(http, transport, ping, rtt) ==
  LET parts == {http, transport, ping} \ {None}
  IN IF parts = {} THEN rtt = 0
     ELSE /\ \E low \in parts : low <= rtt
          /\ \E high \in parts : rtt <= high

LEMMA CombineRttType ==
  ASSUME NEW ping \in Optional(Nat), NEW transport \in Optional(Nat),
         NEW http \in Optional(Nat),
         NEW rtt \in CombineRtt(ping, transport, http)
  PROVE  /\ rtt \in Optional(Nat)
         /\ Between(http, transport, ping, OrZero(rtt))
<1> DEFINE lower == LeastOf(ping, transport)
           parts == {http, transport, ping} \ {None}
<1>1. lower \in Optional(Nat) /\ (lower = None <=> ping = None /\ transport = None)
  BY EstimationConstants DEF LeastOf, Least, Optional
<1>2. lower # None => lower \in Nat /\ lower \in parts
  BY <1>1 DEF LeastOf, Least, Optional
<1>3. http # None => http \in Nat /\ http \in parts
  BY DEF Optional
<1>4. parts = {} <=> lower = None /\ http = None
  BY <1>1
<1>5. CASE lower = None \/ http = None
  <2>1. rtt = LeastOf(lower, http)
    BY <1>5 DEF CombineRtt
  <2>2. CASE parts = {}
    BY <1>4, <2>1, <2>2 DEF LeastOf, OrZero, Optional, Between
  <2>3. CASE parts # {}
    <3>1. rtt \in parts /\ rtt \in Nat /\ rtt # None
      BY <1>2, <1>3, <1>4, <1>5, <2>1, <2>3 DEF LeastOf
    <3> HIDE DEF parts
    <3> QED
      BY <2>3, <3>1 DEF OrZero, Optional, Between, parts
  <2> QED
    BY <2>2, <2>3
<1>6. CASE lower # None /\ http # None
  <2>1. rtt \in Least(lower, http)..Greatest(lower, http)
    BY <1>6 DEF CombineRtt
  <2> HIDE DEF lower
  <2>2. /\ Least(lower, http) \in parts /\ Greatest(lower, http) \in parts
        /\ Least(lower, http) \in Nat /\ Greatest(lower, http) \in Nat
    BY <1>2, <1>3, <1>6 DEF Least, Greatest
  <2>3. rtt \in Nat /\ rtt # None
    BY <2>1, <2>2, EstimationConstants
  <2>4. Least(lower, http) <= rtt /\ rtt <= Greatest(lower, http)
    BY <2>1, <2>2
  <2>5. OrZero(rtt) = rtt
    BY <2>3 DEF OrZero
  <2> QED
    BY <2>2, <2>3, <2>4, <2>5 DEF Optional, Between
<1> QED
  BY <1>5, <1>6

-----------------------------------------------------------------------------
(***************************************************************************)
(* The theorems.                                                           *)
(***************************************************************************)
LEMMA Invariance == Spec => []Inv
<1>1. Init => Inv
  BY DEF Init, Inv
<1>2. Inv /\ [Next]_vars => Inv'
  BY DEF Inv, Next, GetEstimate, vars
<1> QED
  BY <1>1, <1>2, PTL DEF Spec

\* Of an estimate that exists: its input and the facts above.
LEMMA EstimateFacts ==
  ASSUME Inv, estimate # None
  PROVE  /\ given \in Given /\ estimate \in CombineLocked(given)
         /\ estimate.http = Http(given) /\ estimate.transport = given.transport
         /\ estimate.ping = given.ping
         /\ estimate.type = ComputeEffectiveConnectionType(Http(given), given.transport, given.kbps)
         /\ estimate.kbps = ClampedKbps(given.kbps, estimate.type)
<1>1. given \in Given /\ estimate \in CombineLocked(given)
  BY DEF Inv
<1> QED
  BY <1>1, TypeOfCombined

\* Every variable has its type (getEstimate): bounding, adjusting and combining
\* yield numbers of their kind, and no connection is found to be offline.
THEOREM TypeCorrect == Spec => []TypeOK
<1>1. Inv => TypeOK
  <2> SUFFICES ASSUME Inv PROVE TypeOK
    OBVIOUS
  <2>1. given \in Given
    BY DEF Inv
  <2>2. ASSUME estimate # None
        PROVE  estimate \in [http : Optional(Nat), transport : Optional(Rtts),
                             ping : Optional(Rtts), end_to_end : Optional(Rtts),
                             kbps : Optional(Nat), rtt : Nat, type : Types \ {OFFLINE}]
    <3>1. PICK rtt \in CombineRtt(given.ping, given.transport, Http(given)) :
            LET type == ComputeEffectiveConnectionType(Http(given), given.transport, given.kbps)
            IN estimate = [http |-> Http(given), transport |-> given.transport,
                           ping |-> given.ping, end_to_end |-> given.end_to_end,
                           kbps |-> ClampedKbps(given.kbps, type),
                           rtt |-> OrZero(rtt), type |-> type]
      BY <2>2, EstimateFacts, Combined
    <3>2. /\ Http(given) \in Optional(Nat) /\ given.transport \in Optional(Nat)
          /\ given.ping \in Optional(Nat) /\ given.kbps \in Optional(Nat)
      BY <2>1, HttpType, GivenType
    <3>3. /\ given.transport \in Optional(Rtts) /\ given.ping \in Optional(Rtts)
          /\ given.end_to_end \in Optional(Rtts)
      BY <2>1 DEF Given, Optional
    <3>4. OrZero(rtt) \in Nat
      <4>1. rtt \in Optional(Nat)
        BY <3>2, CombineRttType
      <4> QED
        BY <4>1 DEF OrZero, Optional
    <3> DEFINE type == ComputeEffectiveConnectionType(Http(given), given.transport, given.kbps)
    <3>5. type \in Types \ {OFFLINE}
      BY <3>2, TypesComputed
    <3>6. ClampedKbps(given.kbps, type) \in Optional(Nat)
      BY <3>2, ClampedType
    <3> HIDE DEF type
    <3> QED
      BY <3>1, <3>2, <3>3, <3>4, <3>5, <3>6 DEF type
  <2> QED
    BY <2>1, <2>2 DEF TypeOK
<1> QED
  BY <1>1, Invariance, PTL

\* When the throughput thresholds are ordered and the clamp's multiplier is at
\* least 1, the type of an estimate is the type of its own values
\* (combineLocked): the clamp comes after the type is computed and keeps the
\* throughput in a class above it.  Other options are excepted, and accepted
\* by validateOptions.
THEOREM TypeOfOwnValuesHolds == Spec => []TypeOfOwnValues
<1>1. Inv => TypeOfOwnValues
  <2> SUFFICES ASSUME Inv, ClampAboveClass, estimate # None
               PROVE  estimate.type =
                        ComputeEffectiveConnectionType(estimate.http, estimate.transport,
                                                       estimate.kbps)
    BY DEF TypeOfOwnValues
  <2>1. /\ Http(given) \in Optional(Nat) /\ given.transport \in Optional(Nat)
        /\ given.kbps \in Optional(Nat)
    BY EstimateFacts, HttpType, GivenType
  <2> QED
    BY <2>1, EstimateFacts, ClampKeepsType
<1> QED
  BY <1>1, Invariance, PTL

\* The HTTP RTT keeps the multiples of the other RTTs that bound it, through
\* the adjustment too except for the lower one of the end-to-end RTT
\* (updateHttpRttUsingAllRttValues, adjustHttpRttBasedOnRTTCounts).
THEOREM HttpWithinBoundsHolds == Spec => []HttpWithinBounds
<1>1. Inv => HttpWithinBounds
  BY EstimateFacts, HttpBounds DEF HttpWithinBounds
<1> QED
  BY <1>1, Invariance, PTL

\* The combined RTT is between the RTTs of the estimate (combineRtt), also
\* when the HTTP RTT, the "upper" one, is below the others.
THEOREM CombinedBetweenHolds == Spec => []CombinedBetween
<1>1. Inv => CombinedBetween
  <2> SUFFICES ASSUME Inv, estimate # None
               PROVE  Between(estimate.http, estimate.transport, estimate.ping, estimate.rtt)
    BY DEF CombinedBetween, Between
  <2>1. PICK rtt \in CombineRtt(given.ping, given.transport, Http(given)) :
          estimate.rtt = OrZero(rtt)
    BY EstimateFacts, Combined
  <2>2. /\ Http(given) \in Optional(Nat) /\ given.transport \in Optional(Nat)
        /\ given.ping \in Optional(Nat)
    BY EstimateFacts, HttpType, GivenType
  <2>3. Between(Http(given), given.transport, given.ping, OrZero(rtt))
    BY <2>2, CombineRttType
  <2> QED
    BY <2>1, <2>3, EstimateFacts
<1> QED
  BY <1>1, Invariance, PTL

\* A connection that measures no worse gets no worse a type (combineLocked and
\* computeEffectiveConnectionType), whatever the bounds and the adjustment do
\* and in whatever order the thresholds are.
THEOREM TypeMonotoneHolds == Spec => []TypeMonotone
<1>1. Inv => TypeMonotone
  <2> SUFFICES ASSUME Inv, estimate # None, NEW in \in NoWorse(given), NEW e \in CombineLocked(in)
               PROVE  e.type >= estimate.type
    BY DEF TypeMonotone
  <2>1. given \in Given
    BY DEF Inv
  <2>2. /\ in \in Given /\ NoSlower(in.transport, given.transport)
        /\ NoSlower(given.kbps, in.kbps)
    BY <2>1, NoWorseFields
  <2>3. NoSlower(BoundedHttpRtt(in), BoundedHttpRtt(given))
    BY <2>1, BoundedMonotone
  <2>4. /\ e.type = ComputeEffectiveConnectionType(BoundedHttpRtt(in), in.transport, in.kbps)
        /\ estimate.type
             = ComputeEffectiveConnectionType(BoundedHttpRtt(given), given.transport, given.kbps)
    BY <2>1, <2>2, TypeOfCombined, TypeOfHttp, EstimateFacts
  <2> QED
    BY <2>2, <2>3, <2>4, ComputedMonotone
<1> QED
  BY <1>1, Invariance, PTL
=============================================================================
