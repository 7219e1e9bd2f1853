---------------------- MODULE ThroughputAnalyzerProofs ----------------------
(***************************************************************************)
(* Theorems about ThroughputAnalyzer, for every number of identifiers and  *)
(* every value of the options.  That the sets and the window fit together  *)
(* (IInv) does not depend on the value of the sum BytesReceived; that no   *)
(* window's observation counts too many bytes (Credit) does, and rests on  *)
(* the lemmas of SumTheorems.                                              *)
(***************************************************************************)
EXTENDS ThroughputAnalyzer, SumTheorems

\* A set of requests with no two equal keys, as std::set keeps it.
DistinctKeys(S) == \A r, q \in S : r.sequence_id = q.sequence_id => r = q

\* No identifier twice.
DistinctIds(S) == \A r, q \in S : r.id = q.id => r = q

\* The shape of a window record.
WindowType(w) ==
  /\ DOMAIN w = {"open", "start", "age", "delivered", "whole", "underflow"}
  /\ w.whole \in BOOLEAN
  /\ w.open \in BOOLEAN
  /\ w.underflow \in BOOLEAN
  /\ w.start \in Nat
  /\ w.age \in 0..MaxAge
  /\ w.delivered \in Nat

\* A window record that satisfies WindowInv for the sets reqs and degr.
WindowSound(w, reqs, degr) ==
  /\ WindowType(w)
  /\ w.open => degr = {} /\ Cardinality(reqs) >= MinInFlight

\* One that satisfies ClosedOnlyByUnderflow too.
WindowFits(w, reqs, degr) ==
  /\ WindowSound(w, reqs, degr)
  /\ MinInFlight > 0 /\ ~w.open /\ degr = {} /\ Cardinality(reqs) >= MinInFlight
       => w.underflow

\* The inductive invariant.
IInv ==
  /\ TypeOK
  /\ TrackedInFlight
  /\ TableBounded
  /\ WindowInv
  /\ ClosedOnlyByUnderflow
  /\ DistinctKeys(requests)

-----------------------------------------------------------------------------
(***************************************************************************)
(* The request sets.                                                       *)
(***************************************************************************)

\* find_if returns the one request with the identifier when ids are unique.
LEMMA FindUnique ==
  ASSUME NEW S, NEW id, Has(S, id), DistinctIds(S),
         \A r \in S : r.sequence_id \in Nat
  PROVE  /\ Find(S, id) \in S
         /\ Find(S, id).id = id
         /\ \A r \in S : r.id = id => r = Find(S, id)
<1>1. PICK r \in S : r.id = id
  BY DEF Has
<1>2. \A q \in S : q.id = id => r.sequence_id <= q.sequence_id
  BY <1>1 DEF DistinctIds
<1> QED
  BY <1>1, <1>2 DEF Find, DistinctIds

\* Evict only removes.
LEMMA EvictSubset ==
  ASSUME NEW S PROVE Evict(S) \subseteq S
BY DEF Evict

\* A nonempty set of requests has an oldest one.
LEMMA OldestExists ==
  ASSUME NEW S, S # {}, \A r \in S : r.sequence_id \in Nat, DistinctKeys(S)
  PROVE  \E m \in S : \A q \in S \ {m} : q.sequence_id > m.sequence_id
<1> DEFINE T == {r.sequence_id : r \in S}
<1>1. T \subseteq Nat /\ T # {}
  OBVIOUS
<1>2. \E x \in T : \A y \in T : ~(<<y, x>> \in OpToRel(<, Nat))
  <2> HIDE DEF T
  <2> QED BY <1>1, NatLessThanWellFounded, WFMin
<1>3. PICK x \in T : \A y \in T : ~(y < x)
  BY <1>1, <1>2 DEF OpToRel
<1>4. PICK m \in S : m.sequence_id = x
  OBVIOUS
<1>5. \A q \in S \ {m} : q.sequence_id > m.sequence_id
  <2> TAKE q \in S \ {m}
  <2>1. q.sequence_id \in T /\ q.sequence_id \in Nat /\ m.sequence_id \in Nat
    OBVIOUS
  <2>2. ~(q.sequence_id < m.sequence_id)
    BY <2>1, <1>3, <1>4
  <2>3. q.sequence_id # m.sequence_id
    BY DEF DistinctKeys
  <2> QED BY <2>1, <2>2, <2>3
<1> QED BY <1>5

\* A request that Evict removes is older than every other one, when at most
\* one request is too many.
LEMMA EvictedIsOldest ==
  ASSUME NEW S, IsFiniteSet(S), Cardinality(S) <= MaxRequestsSize + 1,
         \A r \in S : r.sequence_id \in Nat,
         NEW r \in S, r \notin Evict(S)
  PROVE  /\ Cardinality(S) = MaxRequestsSize + 1
         /\ \A q \in S \ {r} : q.sequence_id > r.sequence_id
<1> DEFINE G == {q \in S : q.sequence_id > r.sequence_id}
<1>1. G \subseteq S \ {r}
  OBVIOUS
<1>2. IsFiniteSet(S \ {r}) /\ Cardinality(S \ {r}) = Cardinality(S) - 1
  BY FS_RemoveElement
<1>3. IsFiniteSet(G) /\ Cardinality(G) <= Cardinality(S \ {r})
      /\ (Cardinality(S \ {r}) = Cardinality(G) => S \ {r} = G)
  <2> HIDE DEF G
  <2> QED BY <1>1, <1>2, FS_Subset
<1>4. Cardinality(G) \in Nat /\ Cardinality(S) \in Nat
  BY <1>3, FS_CardinalityType
<1>5. ~(Cardinality(G) < MaxRequestsSize)
  BY DEF Evict
<1>6. Cardinality(G) = Cardinality(S \ {r}) /\ Cardinality(S) = MaxRequestsSize + 1
  <2> HIDE DEF G
  <2> QED BY <1>2, <1>3, <1>4, <1>5, SizesAssumption
<1>7. G = S \ {r}
  BY <1>3, <1>6
<1> QED BY <1>6, <1>7

\* When at most one request is too many, Evict keeps at least all but one and
\* at most MaxRequestsSize of them.
LEMMA EvictCardinality ==
  ASSUME NEW S, IsFiniteSet(S), Cardinality(S) <= MaxRequestsSize + 1,
         \A r \in S : r.sequence_id \in Nat, DistinctKeys(S)
  PROVE  /\ IsFiniteSet(Evict(S))
         /\ Cardinality(Evict(S)) <= MaxRequestsSize
         /\ Cardinality(Evict(S)) >= Cardinality(S) - 1
<1>1. IsFiniteSet(Evict(S)) /\ Cardinality(Evict(S)) <= Cardinality(S)
  BY EvictSubset, FS_Subset
<1>2. Cardinality(S) \in Nat /\ Cardinality(Evict(S)) \in Nat
  BY <1>1, FS_CardinalityType
<1>3. CASE Evict(S) = S
  <2>1. CASE Cardinality(S) <= MaxRequestsSize
    BY <1>1, <1>2, <1>3, <2>1
  <2>2. CASE Cardinality(S) = MaxRequestsSize + 1
    <3>1. S # {}
      BY <2>2, FS_EmptySet, SizesAssumption
    <3>2. PICK m \in S : \A q \in S \ {m} : q.sequence_id > m.sequence_id
      BY <3>1, OldestExists
    <3> DEFINE G == {q \in S : q.sequence_id > m.sequence_id}
    <3>3. G = S \ {m}
      BY <3>2
    <3>4. Cardinality(G) = MaxRequestsSize
      <4>1. Cardinality(S \ {m}) = Cardinality(S) - 1
        BY FS_RemoveElement
      <4> QED BY <3>3, <4>1, <2>2, SizesAssumption
    <3>5. m \notin Evict(S)
      BY <3>4, SizesAssumption DEF Evict
    <3> QED BY <3>5, <1>3
  <2> QED BY <2>1, <2>2, <1>2, SizesAssumption
<1>4. CASE Evict(S) # S
  <2>1. PICK r \in S : r \notin Evict(S)
    BY <1>4, EvictSubset
  <2>2. Cardinality(S) = MaxRequestsSize + 1
        /\ \A q \in S \ {r} : q.sequence_id > r.sequence_id
    BY <2>1, EvictedIsOldest
  <2>3. \A q \in S \ {r} : q \in Evict(S)
    <3> SUFFICES ASSUME NEW q \in S \ {r}, q \notin Evict(S) PROVE FALSE
      OBVIOUS
    <3>1. r.sequence_id > q.sequence_id
      BY EvictedIsOldest, <2>1
    <3> QED BY <3>1, <2>2
  <2>4. Evict(S) = S \ {r}
    BY <2>1, <2>3, EvictSubset
  <2>5. Cardinality(S \ {r}) = Cardinality(S) - 1
    BY FS_RemoveElement
  <2> QED BY <1>1, <1>2, <2>2, <2>4, <2>5, SizesAssumption
<1> QED BY <1>3, <1>4

\* The bytes of a finite set of requests are a natural number.
LEMMA TotalNat ==
  ASSUME NEW S, IsFiniteSet(S), \A r \in S : r.bytes_received \in Nat
  PROVE  Total(S) \in Nat
BY SumNat DEF Total

\* What getBitsReceived gives is below SizeT and no more than the bytes there
\* are; it is exactly those as long as they fit.
LEMMA BytesNat ==
  ASSUME NEW S, IsFiniteSet(S), \A r \in S : r.bytes_received \in Nat
  PROVE  /\ BytesReceived(S) \in Nat
         /\ BytesReceived(S) <= Total(S)
         /\ Total(S) < SizeT => BytesReceived(S) = Total(S)
<1> DEFINE t == Total(S)
<1>1. t \in Nat
  BY TotalNat
<1> HIDE DEF t
<1>2. t % SizeT \in Nat /\ t % SizeT <= t /\ (t < SizeT => t % SizeT = t)
  BY <1>1, SizesAssumption
<1> QED BY <1>2 DEF BytesReceived, t

\* Fewer requests have received no more bytes.
LEMMA TotalOfFewer ==
  ASSUME NEW S, IsFiniteSet(S), \A r \in S : r.bytes_received \in Nat, NEW T \in SUBSET S
  PROVE  Total(T) <= Total(S)
<1> DEFINE f == [r \in S |-> r.bytes_received]
           g == [r \in T |-> r.bytes_received]
<1>1. IsFiniteSet(T)
  BY FS_Subset
<1>2. SumFunctionOnSet(g, T) = SumFunctionOnSet(f, T)
  BY <1>1, SumAgree
<1>3. SumFunctionOnSet(f, T) <= SumFunctionOnSet(f, S)
  BY SumMonotone
<1> QED BY <1>2, <1>3 DEF Total

\* One more request adds its bytes.
LEMMA TotalOfOneMore ==
  ASSUME NEW S, IsFiniteSet(S), \A r \in S : r.bytes_received \in Nat,
         NEW q, q \notin S, q.bytes_received \in Nat
  PROVE  Total(S \cup {q}) = q.bytes_received + Total(S)
<1> DEFINE f == [r \in S \cup {q} |-> r.bytes_received]
           g == [r \in S |-> r.bytes_received]
<1>1. SumFunctionOnSet(g, S) = SumFunctionOnSet(f, S)
  BY SumAgree
<1>2. SumFunctionOnSet(f, S \cup {q}) = f[q] + SumFunctionOnSet(f, S)
  BY SumAdd
<1> QED BY <1>1, <1>2 DEF Total

\* Inserting a request with a key not in use adds it.
LEMMA InsertFresh ==
  ASSUME NEW S, NEW r, \A q \in S : q.sequence_id # r.sequence_id
  PROVE  Insert(S, r) = S \cup {r}
BY DEF Insert

-----------------------------------------------------------------------------
(***************************************************************************)
(* The window: each way to compute the next one keeps WindowFits.          *)
(***************************************************************************)
LEMMA ClosedSound ==
  ASSUME NEW reqs, NEW degr
  PROVE  /\ WindowSound(Closed, reqs, degr)
         /\ WindowSound([Closed EXCEPT !.underflow = TRUE], reqs, degr)
BY BoundsAssumption DEF Closed, WindowSound, WindowType

\* endThroughputObservationWindow, where no window could be open anyway.
LEMMA ClosedFits ==
  ASSUME NEW reqs, NEW degr,
         degr # {} \/ ~(Cardinality(reqs) >= MinInFlight) \/ MinInFlight = 0
  PROVE  WindowFits(Closed, reqs, degr)
BY ClosedSound DEF WindowFits

\* Counting what is reported in a window leaves the rest of it alone.
LEMMA DeliverKeeps ==
  ASSUME NEW w, WindowType(w), NEW n \in Nat
  PROVE  /\ WindowType(Deliver(w, n))
         /\ Deliver(w, n).open = w.open
         /\ Deliver(w, n).underflow = w.underflow
         /\ Deliver(w, n).start = w.start
         /\ Deliver(w, n).whole = w.whole
         /\ w.open => Deliver(w, n).delivered = w.delivered + n
<1>1. CASE w.open
  <2>1. Deliver(w, n) = [w EXCEPT !.delivered = @ + n]
    BY <1>1 DEF Deliver
  <2> QED BY <2>1 DEF WindowType
<1>2. CASE ~w.open
  BY <1>2 DEF Deliver
<1> QED BY <1>1, <1>2

\* A window that maybeStart leaves open has what it needs.
LEMMA MaybeStartFits ==
  ASSUME NEW w, NEW reqs, NEW degr, WindowSound(w, reqs, degr), BytesReceived(reqs) \in Nat
  PROVE  WindowFits(MaybeStart(w, reqs, degr), reqs, degr)
<1> DEFINE new == [Closed EXCEPT !.open = TRUE, !.start = BytesReceived(reqs),
                                 !.whole = Total(reqs) < SizeT]
<1>1. WindowType(new) /\ new.open
  BY BoundsAssumption DEF WindowType, Closed
<1>2. CASE ~w.open /\ degr = {} /\ Cardinality(reqs) >= MinInFlight
  <2>1. MaybeStart(w, reqs, degr) = new
    BY <1>2 DEF MaybeStart
  <2> HIDE DEF new
  <2> QED BY <2>1, <1>1, <1>2 DEF WindowFits, WindowSound
<1>3. CASE ~(~w.open /\ degr = {} /\ Cardinality(reqs) >= MinInFlight)
  BY <1>3 DEF MaybeStart, WindowFits
<1> QED BY <1>2, <1>3

\* So has one that an observation leaves open.
LEMMA AfterObservationFits ==
  ASSUME NEW w, NEW reqs, NEW degr, WindowFits(w, reqs, degr), BytesReceived(reqs) \in Nat
  PROVE  WindowFits(AfterObservation(w, reqs, degr), reqs, degr)
<1>1. WindowFits(MaybeStart(Closed, reqs, degr), reqs, degr)
  BY ClosedSound, MaybeStartFits
<1>2. WindowFits([Closed EXCEPT !.underflow = TRUE], reqs, degr)
  BY ClosedSound DEF WindowFits, Closed
<1> QED BY <1>1, <1>2 DEF AfterObservation

\* What IInv says of the window.
LEMMA IInvWindow ==
  IInv => WindowFits(window, requests, degrading)
BY DEF IInv, TypeOK, WindowInv, ClosedOnlyByUnderflow, WindowFits, WindowSound, WindowType

-----------------------------------------------------------------------------
(***************************************************************************)
(* Each operation preserves the invariant.                                 *)
(***************************************************************************)

\* notifyStartTransaction.
LEMMA StartPreserves ==
  ASSUME IInv, NEW id \in Ids, NEW kind \in Kinds, NEW bytes \in InitialBytes,
         NotifyStartTransaction(id, kind, bytes)
  PROVE  IInv'
<1> USE DEF IInv
<1>1. kind \in AllKinds /\ kind # Idle /\ next_seq \in Nat /\ bytes \in Nat
  BY KindsAssumption, InputsAssumption DEF AllKinds, Idle, TypeOK
<1>2. flight' \in [Ids -> AllKinds \cup {Idle}] /\ flight'[id] = kind
      /\ \A j \in Ids \ {id} : flight'[j] = flight[j]
  BY <1>1 DEF NotifyStartTransaction, TypeOK
<1>3. \A r \in requests \cup degrading : r.id \in Ids \ {id}
  BY DEF TrackedInFlight, TypeOK, NotifyStartTransaction, AllKinds, Idle
<1>4. sample' = sample
  BY DEF NotifyStartTransaction
<1>5. CASE StartDiscarded(id, kind, bytes)
  <2>1. UNCHANGED <<requests, degrading, next_seq, window>>
    BY <1>5 DEF StartDiscarded
  <2>2. TrackedInFlight'
    BY <2>1, <1>2, <1>3 DEF TrackedInFlight
  <2>3. TypeOK'
    BY <2>1, <1>2, <1>4 DEF TypeOK
  <2> QED BY <2>1, <2>2, <2>3 DEF TableBounded, WindowInv, ClosedOnlyByUnderflow, DistinctKeys
<1>6. CASE StartDegrading(id, kind, bytes)
  <2> DEFINE r0 == Request(id, 0, kind, bytes)
  <2>1. /\ UNCHANGED <<requests, next_seq>>
        /\ window' = Closed
        /\ degrading' \subseteq degrading \cup {r0}
        /\ degrading' # {}
        /\ ~ShouldDiscardRequest(kind)
    BY <1>6 DEF StartDegrading, Insert
  <2>2. r0.id = id /\ r0.kind = kind
        /\ r0 \in [id : Ids, sequence_id : 0..next_seq, kind : AllKinds, bytes_received : Nat]
    BY <1>1 DEF Request
  <2>3. TrackedInFlight'
    <3> HIDE DEF r0
    <3>1. \A r \in requests' \cup degrading' :
            r \in requests \cup degrading \/ r = r0
      BY <2>1
    <3> QED BY <3>1, <2>1, <2>2, <1>2, <1>3 DEF TrackedInFlight
  <2>4. WindowFits(window', requests', degrading')
    BY <2>1, ClosedFits
  <2>5. TypeOK'
    <3> HIDE DEF r0
    <3> QED BY <2>1, <2>2, <2>4, <1>2, <1>4 DEF TypeOK, WindowFits, WindowSound, WindowType
  <2>6. WindowInv' /\ ClosedOnlyByUnderflow'
    BY <2>4 DEF WindowFits, WindowSound, WindowInv, ClosedOnlyByUnderflow
  <2> QED BY <2>1, <2>3, <2>5, <2>6 DEF TableBounded, DistinctKeys
<1>7. CASE StartTracked(id, kind, bytes)
  <2> DEFINE r0 == Request(id, next_seq, kind, bytes)
             S == requests \cup {r0}
  <2>1. /\ UNCHANGED degrading
        /\ next_seq' = next_seq + 1
        /\ requests' = Evict(Insert(requests, r0))
        /\ window' = MaybeStart(Deliver(window, bytes), requests', degrading)
        /\ ~ShouldDiscardRequest(kind)
        /\ ~DegradesAccuracy(kind)
    BY <1>7 DEF StartTracked
  <2>2. /\ r0.id = id /\ r0.kind = kind /\ r0.sequence_id = next_seq
        /\ r0 \in [id : Ids, sequence_id : 0..next_seq', kind : AllKinds, bytes_received : Nat]
    BY <1>1, <2>1 DEF Request
  <2> HIDE DEF r0
  <2>3. \A q \in requests : q.sequence_id \in Nat /\ q.sequence_id < next_seq
    BY DEF TypeOK
  <2>4. requests' = Evict(S)
    <3>1. \A q \in requests : q.sequence_id # r0.sequence_id
      BY <2>2, <2>3, <1>1
    <3> QED BY <2>1, <3>1, InsertFresh
  <2>5. IsFiniteSet(S) /\ Cardinality(S) = Cardinality(requests) + 1
    <3>1. r0 \notin requests
      BY <2>2, <2>3, <1>1
    <3> QED BY <3>1, FS_AddElement DEF TypeOK
  <2>6. DistinctKeys(S) /\ \A q \in S : q.sequence_id \in Nat
    BY <2>2, <2>3, <1>1 DEF DistinctKeys
  <2>7. Cardinality(requests) \in Nat
    BY FS_CardinalityType DEF TypeOK
  <2>8. /\ IsFiniteSet(requests')
        /\ Cardinality(requests') <= MaxRequestsSize
        /\ Cardinality(requests') >= Cardinality(requests)
    <3>1. Cardinality(S) <= MaxRequestsSize + 1
      BY <2>5, <2>7, SizesAssumption DEF TableBounded
    <3> HIDE DEF S
    <3> QED BY <3>1, <2>4, <2>5, <2>6, <2>7, EvictCardinality
  <2>9. requests' \subseteq S
    BY <2>4, EvictSubset
  <2>10. WindowFits(window', requests', degrading')
    <3>1. Cardinality(requests') \in Nat
      BY <2>8, FS_CardinalityType
    <3>2. WindowSound(Deliver(window, bytes), requests', degrading)
      <4>1. WindowSound(window, requests', degrading)
        BY <3>1, <2>7, <2>8, SizesAssumption, IInvWindow DEF WindowFits, WindowSound
      <4>2. WindowType(Deliver(window, bytes)) /\ Deliver(window, bytes).open = window.open
        BY <4>1, <1>1, DeliverKeeps DEF WindowSound
      <4> QED BY <4>1, <4>2 DEF WindowSound
    <3>3. BytesReceived(requests') \in Nat
      <4>1. \A r \in requests' : r.bytes_received \in Nat
        BY <2>2, <2>9 DEF TypeOK
      <4> QED BY <4>1, <2>8, BytesNat
    <3> QED BY <3>2, <3>3, <2>1, MaybeStartFits
  <2>11. TrackedInFlight'
    <3>1. \A r \in requests' \cup degrading' :
            r \in requests \cup degrading \/ r = r0
      BY <2>1, <2>9
    <3> QED BY <3>1, <2>1, <2>2, <2>9, <1>2, <1>3 DEF TrackedInFlight
  <2>12. TypeOK'
    <3>1. \A r \in requests \cup degrading :
            r \in [id : Ids, sequence_id : 0..next_seq', kind : AllKinds, bytes_received : Nat]
      BY <2>1, <1>1 DEF TypeOK
    <3>2. requests' \cup degrading' \subseteq
            [id : Ids, sequence_id : 0..next_seq', kind : AllKinds, bytes_received : Nat]
      BY <3>1, <2>1, <2>2, <2>9
    <3>3. \A r \in requests' : r.sequence_id < next_seq'
      BY <2>1, <2>2, <2>3, <2>9, <1>1
    <3> QED BY <3>2, <3>3, <2>1, <2>8, <2>10, <1>1, <1>2, <1>4
         DEF TypeOK, WindowFits, WindowSound, WindowType
  <2> QED BY <2>6, <2>8, <2>9, <2>10, <2>11, <2>12
       DEF TableBounded, DistinctKeys, WindowFits, WindowSound, WindowInv, ClosedOnlyByUnderflow
<1> QED BY <1>5, <1>6, <1>7 DEF NotifyStartTransaction

\* notifyBytesRead.
LEMMA ReadPreserves ==
  ASSUME IInv, NEW id \in Ids, NEW n \in ReadSizes, NotifyBytesRead(id, n)
  PROVE  IInv'
<1> USE DEF IInv
<1>1. /\ UNCHANGED <<flight, next_seq, sample>>
      /\ n \in Nat
  BY InputsAssumption DEF NotifyBytesRead
<1>2. CASE Has(requests, id) /\ ReadTracked(id, n)
  <2> DEFINE old == Find(requests, id)
             new == [old EXCEPT !.bytes_received = @ + n]
             rest == requests \ {old}
  <2>1. /\ DistinctIds(requests)
        /\ \A r \in requests : r.sequence_id \in Nat
    BY DEF TrackedInFlight, DistinctIds, TypeOK
  <2>2. old \in requests /\ old.id = id
    BY <1>2, <2>1, FindUnique
  <2>3. /\ new.id = id /\ new.sequence_id = old.sequence_id /\ new.kind = old.kind
        /\ new \in [id : Ids, sequence_id : 0..next_seq, kind : AllKinds, bytes_received : Nat]
    BY <1>1, <2>2 DEF TypeOK
  <2>4. ~DegradesAccuracy(new.kind)
    BY <2>2, <2>3 DEF TrackedInFlight
  <2>5. /\ degrading' = degrading
        /\ requests' = Insert(rest, new)
        /\ window' = Deliver(window, n)
    BY <1>2, <2>4 DEF ReadTracked
  <2> HIDE DEF old, new
  <2>6. \A q \in rest : q.sequence_id # new.sequence_id
    BY <2>2, <2>3 DEF DistinctKeys
  <2>7. requests' = rest \cup {new}
    BY <2>5, <2>6, InsertFresh
  <2>8. \A r \in rest \cup degrading : r.id # id
    BY <2>2 DEF TrackedInFlight
  <2>9. IsFiniteSet(requests') /\ Cardinality(requests') = Cardinality(requests)
    <3>1. new \notin rest
      BY <2>6
    <3>2. IsFiniteSet(rest) /\ Cardinality(rest) = Cardinality(requests) - 1
      BY <2>2, FS_RemoveElement DEF TypeOK
    <3>3. Cardinality(requests) \in Nat
      BY FS_CardinalityType DEF TypeOK
    <3> HIDE DEF rest
    <3>4. IsFiniteSet(rest \cup {new}) /\ Cardinality(rest \cup {new}) = Cardinality(rest) + 1
      BY <3>1, <3>2, FS_AddElement
    <3> QED BY <3>2, <3>3, <3>4, <2>7
  <2>10. WindowFits(window', requests', degrading')
    <3>1. WindowFits(window, requests', degrading')
      BY <2>5, <2>9, IInvWindow DEF WindowFits, WindowSound
    <3>2. /\ WindowType(window')
          /\ window'.open = window.open
          /\ window'.underflow = window.underflow
      BY <3>1, <1>1, <2>5, DeliverKeeps DEF WindowFits, WindowSound
    <3> QED BY <3>1, <3>2 DEF WindowFits, WindowSound
  <2>11. TrackedInFlight'
    <3>1. \A r \in requests' \cup degrading' : r \in rest \cup degrading \/ r = new
      BY <2>5, <2>7
    <3>2. flight[new.id] = new.kind /\ ~ShouldDiscardRequest(new.kind)
      BY <2>2, <2>3 DEF TrackedInFlight
    <3>3. \A r, q \in rest \cup degrading : r.id = q.id => r = q
      BY DEF TrackedInFlight
    <3>4. \A r \in rest \cup degrading :
             flight[r.id] = r.kind /\ ~ShouldDiscardRequest(r.kind)
      BY DEF TrackedInFlight
    <3>5. \A r \in rest : ~DegradesAccuracy(r.kind)
      BY DEF TrackedInFlight
    <3>6. requests' \cap degrading' = {}
      <4>1. new \notin degrading
        BY <2>3, <2>8
      <4>2. rest \cap degrading = {}
        BY DEF TrackedInFlight
      <4> QED BY <4>1, <4>2, <2>5, <2>7
    <3> HIDE DEF rest
    <3> QED BY <3>1, <3>2, <3>3, <3>4, <3>5, <3>6, <2>3, <2>4, <2>7, <2>8, <1>1 DEF TrackedInFlight
  <2>12. TypeOK'
    <3>1. old.sequence_id < next_seq
      BY <2>2 DEF TypeOK
    <3> QED BY <3>1, <1>1, <2>3, <2>5, <2>7, <2>9, <2>10
         DEF TypeOK, WindowFits, WindowSound, WindowType
  <2>13. DistinctKeys(requests')
    BY <2>6, <2>7 DEF DistinctKeys
  <2> QED BY <2>9, <2>10, <2>11, <2>12, <2>13
       DEF TableBounded, WindowFits, WindowSound, WindowInv, ClosedOnlyByUnderflow
<1>3. CASE ~Has(requests, id) /\ Has(degrading, id) /\ ReadDegrading(id, n)
  <2> DEFINE old == Find(degrading, id)
             new == [old EXCEPT !.bytes_received = @ + n]
  <2>1. /\ DistinctIds(degrading)
        /\ \A r \in degrading : r.sequence_id \in Nat
    BY DEF TrackedInFlight, DistinctIds, TypeOK
  <2>2. old \in degrading /\ old.id = id
    BY <1>3, <2>1, FindUnique
  <2>3. /\ new.id = id /\ new.sequence_id = old.sequence_id /\ new.kind = old.kind
        /\ new \in [id : Ids, sequence_id : 0..next_seq, kind : AllKinds, bytes_received : Nat]
    BY <1>1, <2>2 DEF TypeOK
  <2>4. /\ UNCHANGED <<requests, window>>
        /\ degrading' \subseteq (degrading \ {old}) \cup {new}
        /\ degrading' # {}
    BY <1>3 DEF ReadDegrading, Insert
  <2> HIDE DEF old, new
  <2>5. TrackedInFlight'
    <3>1. \A r \in requests' \cup degrading' :
            r \in requests \cup (degrading \ {old}) \/ r = new
      BY <2>4
    <3>2. \A r \in requests \cup (degrading \ {old}) : r.id # id
      BY <2>2, <1>3 DEF TrackedInFlight, Has
    <3>3. flight[new.id] = new.kind /\ ~ShouldDiscardRequest(new.kind)
      BY <2>2, <2>3 DEF TrackedInFlight
    <3> QED BY <3>1, <3>2, <3>3, <2>3, <2>4, <1>1 DEF TrackedInFlight
  <2>6. TypeOK'
    BY <1>1, <2>3, <2>4 DEF TypeOK
  <2>7. WindowInv' /\ ClosedOnlyByUnderflow'
    <3>1. degrading # {}
      BY <2>2
    <3> QED BY <3>1, <2>4 DEF WindowInv, ClosedOnlyByUnderflow
  <2> QED BY <2>4, <2>5, <2>6, <2>7 DEF TableBounded, DistinctKeys
<1> QED BY <1>2, <1>3 DEF NotifyBytesRead

\* notifyRequestCompleted.
LEMMA CompletePreserves ==
  ASSUME IInv, NEW id \in Ids, NotifyRequestCompleted(id)
  PROVE  IInv'
<1> USE DEF IInv
<1> DEFINE w == AfterObservation(window, requests, degrading)
<1>1. /\ flight' \in [Ids -> AllKinds \cup {Idle}]
      /\ \A j \in Ids \ {id} : flight'[j] = flight[j]
      /\ next_seq' = next_seq
  BY DEF NotifyRequestCompleted, TypeOK
<1>0. BytesReceived(requests) \in Nat
  BY BytesNat DEF TypeOK
<1>2. /\ DOMAIN sample' = {"source", "bytes", "duration"}
      /\ sample'.source \in {"none", "transfer", "window"}
      /\ sample'.bytes \in Nat /\ sample'.duration \in Int
  <2>1. CASE Observes(window, requests)
    <3>1. BytesInWindow(window, requests) \in Nat
      BY <1>0, SizesAssumption DEF BytesInWindow, TypeOK
    <3>2. window.age \in Int
      BY BoundsAssumption DEF TypeOK
    <3> QED BY <3>1, <3>2, <2>1 DEF NotifyRequestCompleted
  <2>2. CASE ~Observes(window, requests)
    BY <2>2 DEF NotifyRequestCompleted, TypeOK
  <2> QED BY <2>1, <2>2
<1>3. WindowFits(w, requests, degrading)
  BY <1>0, AfterObservationFits, IInvWindow
<1>4. /\ DistinctIds(requests) /\ DistinctIds(degrading)
      /\ \A r \in requests \cup degrading : r.sequence_id \in Nat
  BY DEF TrackedInFlight, DistinctIds, TypeOK
<1>5. Cardinality(requests) \in Nat
  BY FS_CardinalityType DEF TypeOK
<1>6. /\ requests' \subseteq requests
      /\ degrading' \subseteq degrading
      /\ \A r \in requests' \cup degrading' : r.id # id
      /\ WindowFits(window', requests', degrading')
  <2> HIDE DEF w
  <2>1. CASE CompleteTracked(id, w)
    <3>1. /\ Find(requests, id) \in requests
          /\ Find(requests, id).id = id
      BY <2>1, <1>4, FindUnique DEF CompleteTracked
    <3>2. \A r \in requests' \cup degrading' : r.id # id
      BY <2>1, <3>1 DEF CompleteTracked, TrackedInFlight
    <3>3. /\ Cardinality(requests') \in Nat
          /\ Cardinality(requests') <= Cardinality(requests)
      <4>1. IsFiniteSet(requests') /\ Cardinality(requests') = Cardinality(requests) - 1
        BY <2>1, <3>1, FS_RemoveElement DEF CompleteTracked, TypeOK
      <4> QED BY <4>1, <1>5, FS_CardinalityType
    <3>4. WindowFits(window', requests', degrading')
      <4>1. CASE w.open /\ Cardinality(requests') < MinInFlight
        <5>1. ~(Cardinality(requests') >= MinInFlight)
          BY <4>1, <3>3, SizesAssumption
        <5> QED BY <4>1, <5>1, <2>1, ClosedFits DEF CompleteTracked
      <4>2. CASE ~(w.open /\ Cardinality(requests') < MinInFlight)
        BY <4>2, <3>3, <2>1, <1>3, <1>5, SizesAssumption
           DEF CompleteTracked, WindowFits, WindowSound
      <4> QED BY <4>1, <4>2
    <3> QED BY <2>1, <3>2, <3>4 DEF CompleteTracked
  <2>2. CASE CompleteDegrading(id, w)
    <3>1. /\ Find(degrading, id) \in degrading
          /\ Find(degrading, id).id = id
      BY <2>2, <1>4, FindUnique DEF CompleteDegrading
    <3>2. \A r \in requests' \cup degrading' : r.id # id
      BY <2>2, <3>1 DEF CompleteDegrading, TrackedInFlight, Has
    <3>3. ~w.open
      BY <3>1, <1>3 DEF WindowFits, WindowSound
    <3>4. WindowSound(w, requests, degrading')
      BY <3>3, <1>3 DEF WindowFits, WindowSound
    <3>5. WindowFits(MaybeStart(w, requests, degrading'), requests, degrading')
      BY <3>4, <1>0, MaybeStartFits
    <3>6. degrading' # {} => WindowFits(w, requests, degrading')
      BY <3>4 DEF WindowFits
    <3> QED BY <2>2, <3>2, <3>5, <3>6 DEF CompleteDegrading
  <2>3. CASE CompleteUnknown(id, w)
    BY <2>3, <1>3 DEF CompleteUnknown, Has
  <2> QED BY <2>1, <2>2, <2>3 DEF NotifyRequestCompleted, w
<1>7. IsFiniteSet(requests') /\ Cardinality(requests') <= MaxRequestsSize
  <2>1. IsFiniteSet(requests') /\ Cardinality(requests') <= Cardinality(requests)
    BY <1>6, FS_Subset DEF TypeOK
  <2>2. Cardinality(requests') \in Nat
    BY <2>1, FS_CardinalityType
  <2> QED BY <2>1, <2>2, <1>5, SizesAssumption DEF TableBounded
<1>8. TypeOK'
  BY <1>1, <1>2, <1>6, <1>7 DEF TypeOK, WindowFits, WindowSound, WindowType
<1>9. TrackedInFlight'
  <2>1. \A r \in requests' \cup degrading' : r.id \in Ids \ {id}
    BY <1>6 DEF TypeOK
  <2> QED BY <2>1, <1>1, <1>6 DEF TrackedInFlight
<1> QED BY <1>6, <1>7, <1>8, <1>9
     DEF TableBounded, DistinctKeys, WindowFits, WindowSound, WindowInv, ClosedOnlyByUnderflow

\* onConnectionTypeChanged.
LEMMA ConnectionChangePreserves ==
  ASSUME IInv, OnConnectionTypeChanged PROVE IInv'
<1> USE DEF IInv
<1>1. /\ degrading' \subseteq degrading \cup requests
      /\ requests' = {}
      /\ window' = Closed
      /\ UNCHANGED <<flight, next_seq, sample>>
  BY DEF OnConnectionTypeChanged, InsertAll
<1>2. IsFiniteSet(requests') /\ Cardinality(requests') = 0
  BY <1>1, FS_EmptySet
<1>3. WindowFits(window', requests', degrading')
  <2>1. ~(Cardinality(requests') >= MinInFlight) \/ MinInFlight = 0
    BY <1>2, SizesAssumption
  <2> QED BY <2>1, <1>1, ClosedFits
<1>4. TrackedInFlight'
  BY <1>1 DEF TrackedInFlight
<1>5. TypeOK'
  BY <1>1, <1>2, <1>3 DEF TypeOK, WindowFits, WindowSound, WindowType
<1> QED BY <1>1, <1>2, <1>3, <1>4, <1>5, SizesAssumption
     DEF TableBounded, DistinctKeys, WindowFits, WindowSound, WindowInv, ClosedOnlyByUnderflow

\* addTransfer.
LEMMA TransferPreserves ==
  ASSUME IInv, NEW n \in ReadSizes, NEW d \in Durations, AddTransfer(n, d)
  PROVE  IInv'
BY InputsAssumption
   DEF IInv, AddTransfer, TypeOK, TrackedInFlight, TableBounded, WindowInv, ClosedOnlyByUnderflow, DistinctKeys

\* The passing of time.
LEMMA TickPreserves ==
  ASSUME IInv, Tick PROVE IInv'
<1> USE DEF IInv
<1>1. /\ UNCHANGED <<flight, requests, degrading, next_seq, sample>>
      /\ window' = [window EXCEPT !.age = @ + 1]
      /\ window.age < MaxAge
  BY DEF Tick
<1>2. WindowType(window') /\ window'.open = window.open
  BY <1>1, BoundsAssumption DEF TypeOK, WindowType
<1> QED BY <1>1, <1>2
     DEF TypeOK, TrackedInFlight, TableBounded, WindowInv, ClosedOnlyByUnderflow, DistinctKeys, WindowType

-----------------------------------------------------------------------------
(***************************************************************************)
(* The invariant, and what follows from it.                                *)
(***************************************************************************)
LEMMA InitInvariant == Init => IInv
<1> SUFFICES ASSUME Init PROVE IInv
  OBVIOUS
<1>1. IsFiniteSet({}) /\ Cardinality({}) = 0
  BY FS_EmptySet
<1>2. TypeOK
  BY <1>1, BoundsAssumption DEF Init, TypeOK, Closed, NoSample, Idle
<1> QED BY <1>1, <1>2, SizesAssumption
     DEF Init, IInv, TrackedInFlight, TableBounded, WindowInv, ClosedOnlyByUnderflow, DistinctKeys, Closed

\* Every step keeps the invariant.
LEMMA NextInvariant == IInv /\ [Next]_vars => IInv'
<1> SUFFICES ASSUME IInv, [Next]_vars PROVE IInv'
  OBVIOUS
<1>1. CASE Next
  BY <1>1, StartPreserves, ReadPreserves, CompletePreserves,
     ConnectionChangePreserves, TransferPreserves, TickPreserves DEF Next
<1>2. CASE UNCHANGED vars
  BY <1>2 DEF vars, IInv, TypeOK, TrackedInFlight, TableBounded, WindowInv, ClosedOnlyByUnderflow, DistinctKeys
<1> QED BY <1>1, <1>2

\* The inductive invariant holds throughout.
THEOREM Invariance == Spec => []IInv
BY InitInvariant, NextInvariant, PTL DEF Spec

\* Type correctness: the variables keep their types and every sequence number
\* in use is below the counter (notifyStartTransaction).
THEOREM TypeCorrect == Spec => []TypeOK
<1>1. IInv => TypeOK
  BY DEF IInv
<1> QED BY <1>1, Invariance, PTL

\* An open window has no known degrading request and at least the minimum
\* number of tracked requests, for every option and every number of callers
\* (maybeStart, endThroughputObservationWindow and their call sites).
THEOREM WindowCorrect == Spec => []WindowInv
<1>1. IInv => WindowInv
  BY DEF IInv
<1> QED BY <1>1, Invariance, PTL

\* The tracked sets never hold a completed or a discarded request, nor one
\* request twice, and requests_ never a degrading one: the branch of
\* notifyBytesRead for a request that turns degrading is dead.
THEOREM TrackingCorrect == Spec => []TrackedInFlight
<1>1. IInv => TrackedInFlight
  BY DEF IInv
<1> QED BY <1>1, Invariance, PTL

\* The table of active requests stays within kMaxRequestsSize.
THEOREM TableCorrect == Spec => []TableBounded
<1>1. IInv => TableBounded
  BY DEF IInv
<1> QED BY <1>1, Invariance, PTL

\* A start tracks its request, and any request it forgets is the oldest of a
\* full table.
LEMMA StartEvictsOldest ==
  ASSUME IInv, [Next]_vars, next_seq' # next_seq
  PROVE  /\ \E r \in requests' : r.sequence_id = next_seq
         /\ \A r \in requests :
              ~Has(requests', r.id) =>
                /\ Cardinality(requests') = MaxRequestsSize
                /\ \A q \in requests' : q.sequence_id > r.sequence_id
<1> USE DEF IInv
<1>1. PICK id \in Ids, kind \in Kinds, bytes \in InitialBytes : StartTracked(id, kind, bytes)
  BY DEF Next, vars, NotifyStartTransaction, StartDiscarded, StartDegrading,
         NotifyBytesRead, NotifyRequestCompleted, OnConnectionTypeChanged,
         AddTransfer, Tick
<1> DEFINE r0 == Request(id, next_seq, kind, bytes)
           S == requests \cup {r0}
<1>2. r0.id = id /\ r0.sequence_id = next_seq
  BY DEF Request
<1>3. requests' = Evict(Insert(requests, r0))
  BY <1>1 DEF StartTracked
<1> HIDE DEF r0
<1>4. next_seq \in Nat
      /\ \A q \in requests : q.sequence_id \in Nat /\ q.sequence_id < next_seq
  BY DEF TypeOK
<1>5. requests' = Evict(S)
  <2>1. \A q \in requests : q.sequence_id # r0.sequence_id
    BY <1>2, <1>4
  <2> QED BY <1>3, <2>1, InsertFresh
<1>6. IsFiniteSet(S) /\ Cardinality(S) = Cardinality(requests) + 1
  <2>1. r0 \notin requests
    BY <1>2, <1>4
  <2> QED BY <2>1, FS_AddElement DEF TypeOK
<1>7. Cardinality(S) <= MaxRequestsSize + 1
  <2>1. Cardinality(requests) \in Nat
    BY FS_CardinalityType DEF TypeOK
  <2> HIDE DEF S
  <2> QED BY <2>1, <1>6, SizesAssumption DEF TableBounded
<1>8. DistinctKeys(S) /\ \A q \in S : q.sequence_id \in Nat
  BY <1>2, <1>4 DEF DistinctKeys
<1>9. r0 \in requests'
  <2>1. {q \in S : q.sequence_id > r0.sequence_id} = {}
    BY <1>2, <1>4
  <2>2. Cardinality({q \in S : q.sequence_id > r0.sequence_id}) < MaxRequestsSize
    <3>1. Cardinality({}) = 0 /\ 0 < MaxRequestsSize
      BY FS_EmptySet, SizesAssumption
    <3> HIDE DEF S
    <3> QED BY <2>1, <3>1
  <2> QED BY <2>2, <1>5 DEF Evict
<1>10. ASSUME NEW r \in requests, ~Has(requests', r.id)
       PROVE  /\ Cardinality(requests') = MaxRequestsSize
              /\ \A q \in requests' : q.sequence_id > r.sequence_id
  <2>1. r \in S /\ r \notin requests'
    BY <1>10 DEF Has
  <2>2. requests' \subseteq S
    BY <1>5, EvictSubset
  <2> HIDE DEF S
  <2>3. /\ Cardinality(S) = MaxRequestsSize + 1
        /\ \A q \in S \ {r} : q.sequence_id > r.sequence_id
    BY <2>1, <1>5, <1>6, <1>7, <1>8, EvictedIsOldest
  <2>4. /\ IsFiniteSet(requests')
        /\ Cardinality(requests') <= MaxRequestsSize
        /\ Cardinality(requests') >= Cardinality(S) - 1
    BY <1>5, <1>6, <1>7, <1>8, EvictCardinality
  <2>5. Cardinality(requests') \in Nat
    BY <2>4, FS_CardinalityType
  <2> QED BY <2>1, <2>2, <2>3, <2>4, <2>5, SizesAssumption
<1> QED BY <1>2, <1>9, <1>10

\* notifyStartTransaction evicts only the oldest request, and only when the
\* table is full.
THEOREM EvictionCorrect == Spec => StartEvictsOldestOnly
<1>1. IInv /\ [Next]_vars =>
        [next_seq' # next_seq =>
           /\ \E r \in requests' : r.sequence_id = next_seq
           /\ \A r \in requests :
                ~Has(requests', r.id) =>
                  /\ Cardinality(requests') = MaxRequestsSize
                  /\ \A q \in requests' : q.sequence_id > r.sequence_id]_vars
  BY StartEvictsOldest
<1> QED BY <1>1, Invariance, PTL DEF Spec, StartEvictsOldestOnly

\* A window that could be open but is closed was closed by an underflow: no
\* other path through the analyzer misses a restart.
THEOREM RestartCorrect == Spec => []ClosedOnlyByUnderflow
<1>1. IInv => ClosedOnlyByUnderflow
  BY DEF IInv
<1> QED BY <1>1, Invariance, PTL

-----------------------------------------------------------------------------
(***************************************************************************)
(* What a window may be credited with.                                     *)
(***************************************************************************)
\* The bytes the requests in S gained since the window w started are among
\* those that were reported while it is open, when the sum it started from
\* was whole.
CreditOf(w, S) ==
  w.open =>
    /\ w.start \in Nat /\ w.delivered \in Nat
    /\ w.whole => Total(S) - w.start <= w.delivered

Credit == CreditOf(window, requests)

\* A request that leaves takes its bytes along.
LEMMA CreditOfFewer ==
  ASSUME NEW S, IsFiniteSet(S), \A r \in S : r.bytes_received \in Nat,
         NEW T \in SUBSET S, NEW w, CreditOf(w, S)
  PROVE  CreditOf(w, T)
<1>1. Total(T) <= Total(S)
  BY TotalOfFewer
<1>2. Total(S) \in Nat
  BY TotalNat
<1>3. Total(T) \in Nat
  <2>1. IsFiniteSet(T)
    BY FS_Subset
  <2> QED BY <2>1, TotalNat
<1> QED BY <1>1, <1>2, <1>3 DEF CreditOf

\* A new window starts from what has been received so far.
LEMMA CreditStart ==
  ASSUME NEW S, IsFiniteSet(S), \A r \in S : r.bytes_received \in Nat,
         NEW D, NEW w, CreditOf(w, S)
  PROVE  CreditOf(MaybeStart(w, S, D), S)
<1> DEFINE new == [Closed EXCEPT !.open = TRUE, !.start = BytesReceived(S),
                                 !.whole = Total(S) < SizeT]
<1>1. new.start = BytesReceived(S) /\ new.delivered = 0 /\ (new.whole => Total(S) < SizeT)
  BY DEF Closed
<1>2. CreditOf(new, S)
  <2> HIDE DEF new
  <2> QED BY <1>1, BytesNat, TotalNat DEF CreditOf
<1> QED BY <1>2 DEF MaybeStart

\* A closed window has nothing to cover.
LEMMA CreditClosed ==
  ASSUME NEW S
  PROVE  CreditOf(Closed, S) /\ CreditOf([Closed EXCEPT !.underflow = TRUE], S)
BY DEF CreditOf, Closed

\* Every step keeps the credit: a read adds to both sides, an observation, an
\* eviction and a completion take the request's bytes off the left one.
LEMMA CreditNext ==
  ASSUME IInv, Credit, [Next]_vars
  PROVE  Credit'
<1> USE DEF IInv
<1>0. /\ IsFiniteSet(requests) /\ \A r \in requests : r.bytes_received \in Nat
      /\ Total(requests) \in Nat /\ WindowType(window)
  BY TotalNat DEF TypeOK, WindowType
<1>1. ASSUME UNCHANGED requests, CreditOf(window', requests)
      PROVE  Credit'
  BY <1>1 DEF Credit, CreditOf
<1>2. ASSUME NEW id \in Ids, NEW kind \in Kinds, NEW bytes \in InitialBytes,
             NotifyStartTransaction(id, kind, bytes)
      PROVE  Credit'
  <2>1. CASE StartDiscarded(id, kind, bytes)
    BY <2>1, <1>1 DEF StartDiscarded, Credit
  <2>2. CASE StartDegrading(id, kind, bytes)
    BY <2>2, <1>1, CreditClosed DEF StartDegrading
  <2>3. CASE StartTracked(id, kind, bytes)
    <3> DEFINE r0 == Request(id, next_seq, kind, bytes)
               S == requests \cup {r0}
               w == Deliver(window, bytes)
    <3>1. r0.bytes_received = bytes /\ r0.sequence_id = next_seq /\ bytes \in Nat
      BY InputsAssumption DEF Request
    <3> HIDE DEF r0
    <3>2. r0 \notin requests /\ \A q \in requests : q.sequence_id # r0.sequence_id
      BY <3>1 DEF TypeOK
    <3>3. IsFiniteSet(S) /\ \A r \in S : r.bytes_received \in Nat
      BY <1>0, <3>1, FS_AddElement
    <3>4. Total(S) = bytes + Total(requests)
      BY <1>0, <3>1, <3>2, TotalOfOneMore
    <3>5. CreditOf(w, S)
      <4>1. CASE window.open
        <5>1. /\ w.start = window.start /\ w.whole = window.whole
              /\ w.delivered = window.delivered + bytes
          BY <4>1, <1>0, <3>1, DeliverKeeps
        <5> HIDE DEF w, S
        <5> QED BY <5>1, <4>1, <3>1, <3>4, <1>0 DEF Credit, CreditOf
      <4>2. CASE ~window.open
        BY <4>2 DEF Deliver, CreditOf
      <4> QED BY <4>1, <4>2
    <3>6. requests' \in SUBSET S
      <4>1. requests' = Evict(Insert(requests, r0))
        BY <2>3 DEF StartTracked, r0
      <4> QED BY <4>1, <3>2, InsertFresh, EvictSubset
    <3> HIDE DEF S
    <3>7. CreditOf(w, requests')
      BY <3>3, <3>5, <3>6, CreditOfFewer
    <3>8. IsFiniteSet(requests') /\ \A r \in requests' : r.bytes_received \in Nat
      BY <3>3, <3>6, FS_Subset
    <3>9. window' = MaybeStart(w, requests', degrading)
      BY <2>3 DEF StartTracked
    <3> HIDE DEF w
    <3> QED BY <3>7, <3>8, <3>9, CreditStart DEF Credit, CreditOf
  <2> QED BY <1>2, <2>1, <2>2, <2>3 DEF NotifyStartTransaction
<1>3. ASSUME NEW id \in Ids, NEW n \in ReadSizes, NotifyBytesRead(id, n)
      PROVE  Credit'
  <2>1. CASE Has(requests, id) /\ ReadTracked(id, n)
    <3> DEFINE old == Find(requests, id)
               new == [old EXCEPT !.bytes_received = @ + n]
               rest == requests \ {old}
    <3>1. /\ DistinctIds(requests)
          /\ \A r \in requests : r.sequence_id \in Nat
      BY DEF TrackedInFlight, DistinctIds, TypeOK
    <3>2. old \in requests
      BY <2>1, <3>1, FindUnique
    <3>3. /\ new.sequence_id = old.sequence_id /\ new.kind = old.kind
          /\ new.bytes_received = old.bytes_received + n
          /\ old.bytes_received \in Nat /\ n \in Nat
      BY <3>2, InputsAssumption DEF TypeOK
    <3>4. ~DegradesAccuracy(new.kind)
      BY <3>2, <3>3 DEF TrackedInFlight
    <3>5. /\ requests' = Insert(rest, new)
          /\ window' = Deliver(window, n)
      BY <2>1, <3>4 DEF ReadTracked
    <3> HIDE DEF new, old
    <3>6. \A q \in rest : q.sequence_id # new.sequence_id
      BY <3>2, <3>3 DEF DistinctKeys
    <3>7. requests' = rest \cup {new} /\ new \notin rest
      BY <3>5, <3>6, InsertFresh
    <3>8. requests = rest \cup {old} /\ old \notin rest /\ IsFiniteSet(rest)
          /\ \A r \in rest : r.bytes_received \in Nat
      BY <3>2, <1>0, FS_Subset
    <3> HIDE DEF rest
    <3>9. Total(requests) = old.bytes_received + Total(rest)
      BY <3>3, <3>8, TotalOfOneMore
    <3>10. Total(requests') = new.bytes_received + Total(rest)
      BY <3>3, <3>7, <3>8, TotalOfOneMore
    <3>11. Total(rest) \in Nat
      BY <3>8, TotalNat
    <3>12. Total(requests') = Total(requests) + n
      BY <3>3, <3>9, <3>10, <3>11
    <3>13. CASE window.open
      <4>1. /\ window'.open = window.open /\ window'.start = window.start
            /\ window'.delivered = window.delivered + n /\ window'.whole = window.whole
        BY <3>3, <3>5, <3>13, <1>0, DeliverKeeps
      <4>2. window.start \in Nat /\ window.delivered \in Nat
            /\ (window.whole => Total(requests) - window.start <= window.delivered)
        BY <3>13 DEF Credit, CreditOf
      <4>3. window'.start \in Nat /\ window'.delivered \in Nat
            /\ (window'.whole => Total(requests') - window'.start <= window'.delivered)
        BY <4>1, <4>2, <3>3, <3>12, <1>0
      <4> QED BY <4>3 DEF Credit, CreditOf
    <3>14. CASE ~window.open
      BY <3>5, <3>14 DEF Deliver, Credit, CreditOf
    <3> QED BY <3>13, <3>14
  <2>2. CASE ReadDegrading(id, n)
    BY <2>2, <1>1 DEF ReadDegrading, Credit
  <2> QED BY <1>3, <2>1, <2>2 DEF NotifyBytesRead
<1>4. ASSUME NEW id \in Ids, NotifyRequestCompleted(id)
      PROVE  Credit'
  <2> DEFINE w == AfterObservation(window, requests, degrading)
  <2>1. CreditOf(w, requests)
    BY <1>0, CreditStart, CreditClosed DEF AfterObservation, Credit
  <2> HIDE DEF w
  <2>2. CASE CompleteTracked(id, w)
    <3>1. requests' \in SUBSET requests /\ window' \in {Closed, w}
      BY <2>2 DEF CompleteTracked
    <3>2. CreditOf(w, requests') /\ CreditOf(Closed, requests')
      BY <1>0, <2>1, <3>1, CreditOfFewer, CreditClosed
    <3> QED BY <3>1, <3>2 DEF Credit, CreditOf
  <2>3. CASE CompleteDegrading(id, w)
    <3>1. UNCHANGED requests /\ window' \in {MaybeStart(w, requests, degrading'), w}
      BY <2>3 DEF CompleteDegrading
    <3> QED BY <1>0, <1>1, <2>1, <3>1, CreditStart
  <2>4. CASE CompleteUnknown(id, w)
    BY <1>1, <2>1, <2>4 DEF CompleteUnknown
  <2> QED BY <1>4, <2>2, <2>3, <2>4 DEF NotifyRequestCompleted, w
<1>5. CASE OnConnectionTypeChanged
  BY <1>5 DEF OnConnectionTypeChanged, Credit, CreditOf, Closed
<1>6. ASSUME NEW n \in ReadSizes, NEW d \in Durations, AddTransfer(n, d)
      PROVE  Credit'
  BY <1>1, <1>6 DEF AddTransfer, Credit
<1>7. CASE Tick
  <2>1. /\ UNCHANGED requests /\ window'.open = window.open /\ window'.start = window.start
        /\ window'.delivered = window.delivered /\ window'.whole = window.whole
    BY <1>7 DEF Tick, TypeOK
  <2> QED BY <2>1 DEF Credit, CreditOf
<1>8. CASE UNCHANGED vars
  BY <1>1, <1>8 DEF vars, Credit
<1> QED BY <1>2, <1>3, <1>4, <1>5, <1>6, <1>7, <1>8 DEF Next

\* At every moment, what the tracked requests gained since an open window
\* started is covered by what was reported while it is open, by reads and with
\* new requests, provided the sum it started from had not outgrown a size_t.
THEOREM CreditCorrect == Spec => []Credit
<1>1. Init => Credit
  BY DEF Init, Credit, CreditOf, Closed
<1> QED BY <1>1, CreditNext, Invariance, PTL DEF Spec

\* No observation taken from a window counts more bytes than were reported
\* while the window was open, by reads or with new requests, whatever completed
\* or was evicted in it and even when the sum outgrows a size_t later; a window
\* whose first sum had already outgrown it is excepted
\* (maybeGetThroughputObservation).
THEOREM ObservationCorrect == Spec => ObservationNeverOvercounts
<1>1. ASSUME IInv, Credit, [Next]_vars, sample' # sample, sample'.source = "window"
      PROVE  /\ window.whole => sample'.bytes <= window.delivered
             /\ sample'.duration = window.age
  <2>1. PICK id \in Ids : NotifyRequestCompleted(id)
    BY <1>1 DEF Next, vars, NotifyStartTransaction, NotifyBytesRead, OnConnectionTypeChanged,
                AddTransfer, Tick
  <2>2. /\ Observes(window, requests)
        /\ sample'.bytes = BytesInWindow(window, requests) /\ sample'.duration = window.age
    BY <2>1, <1>1 DEF NotifyRequestCompleted
  <2> SUFFICES ASSUME window.whole PROVE sample'.bytes <= window.delivered
    BY <2>2
  <2> DEFINE b == BytesReceived(requests)
             d == b - window.start
  <2>3. /\ b \in Nat /\ Total(requests) \in Nat /\ b <= Total(requests)
        /\ ~(b < window.start)
    BY <1>1, <2>2, BytesNat, TotalNat DEF IInv, TypeOK, Observes, Underflow
  <2>4. window.start \in Nat /\ window.delivered \in Nat
        /\ Total(requests) - window.start <= window.delivered
    BY <1>1, <2>2 DEF Credit, CreditOf, Observes
  <2> HIDE DEF b
  <2>5. d \in Nat /\ d <= window.delivered
    BY <2>3, <2>4
  <2>6. sample'.bytes = d % SizeT
    BY <2>2 DEF BytesInWindow, d, b
  <2> HIDE DEF d
  <2>7. d % SizeT \in Nat /\ d % SizeT <= d
    BY <2>5, SizesAssumption
  <2> QED BY <2>4, <2>5, <2>6, <2>7
<1>2. IInv /\ Credit /\ [Next]_vars =>
        [sample' # sample /\ sample'.source = "window" =>
           /\ window.whole => sample'.bytes <= window.delivered
           /\ sample'.duration = window.age]_vars
  BY <1>1
<1> QED BY <1>2, Invariance, CreditCorrect, PTL DEF Spec, ObservationNeverOvercounts
=============================================================================
