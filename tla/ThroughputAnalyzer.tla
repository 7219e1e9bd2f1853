------------------------- MODULE ThroughputAnalyzer -------------------------
(***************************************************************************)
(* The throughput analyzer (src/src/ThroughputAnalyzer.cpp).               *)
(*                                                                         *)
(* HTTP requests are announced, grow by reads and complete.  Requests that *)
(* measure the network well are kept in one set, requests that degrade the *)
(* accuracy in another, and a throughput observation is taken over a       *)
(* window during which enough good and no degrading requests are in        *)
(* flight.  Every method holds mu_ from its first to its last access, so   *)
(* one action is one call.                                                 *)
(*                                                                         *)
(* Amounts of data are counted in bytes where the code counts bits: SizeT  *)
(* is the number of bytes whose bits a size_t can count, and everything    *)
(* the code keeps in a size_t of bits is reduced modulo SizeT.  A request's *)
(* own byte counter is not reduced: only its bits enter a sum, and they    *)
(* are the same modulo SizeT.                                              *)
(***************************************************************************)
EXTENDS Integers, FiniteSets, Functions

CONSTANTS
  Ids,                 \* the callers' request identifiers (pointers)
  Kinds,               \* the kinds of request callers start
  MaxRequestsSize,     \* kMaxRequestsSize
  MinInFlight,         \* Options::throughput_min_requests_in_flight
  MinTransfer,         \* Options::min_transfer_size_bytes
  SizeT,               \* 2^w / 8, w the width of size_t
  InitialBytes,        \* the bytes_received a caller's request may start with
  ReadSizes,           \* sizes of the reads and transfers callers report
  Durations,           \* durations of the transfers callers report
  MaxStarts,           \* bound: requests tracked in a behaviour
  MaxBytes,            \* bound: bytes received by one request
  MaxAge               \* bound: age of a window

AllKinds == {"plain", "cached", "hanging", "post"}

ASSUME KindsAssumption == Kinds \subseteq AllKinds
ASSUME SizesAssumption ==
  /\ MaxRequestsSize \in Nat \ {0}
  /\ MinInFlight \in Nat
  /\ MinTransfer \in Nat
  /\ SizeT \in Nat \ {0}
ASSUME InputsAssumption ==
  /\ InitialBytes \subseteq Nat
  /\ ReadSizes \subseteq Nat \ {0}
  /\ Durations \subseteq Int
ASSUME BoundsAssumption ==
  /\ MaxStarts \in Nat
  /\ MaxBytes \in Nat
  /\ MaxAge \in Nat

VARIABLES
  flight,      \* external: the kind of the request each id now carries, or idle
  requests,    \* requests_
  degrading,   \* accuracy_degrading_requests_
  next_seq,    \* next_sequence_id_
  window,      \* in_observation_window_, bits_received_at_window_start_, the age
               \* window_start_time_ gives, and (history) the bytes callers
               \* reported for tracked requests while the window is open, by
               \* reads and with new requests, whether the sum at its start
               \* was whole (had not wrapped), and whether an underflow
               \* closed the window
  sample       \* the last sample added to aggregator_, or NoSample

vars == <<flight, requests, degrading, next_seq, window, sample>>

Idle == "idle"
NoSample == [source |-> "none", bytes |-> 0, duration |-> 0]
Closed ==
  [open |-> FALSE, start |-> 0, age |-> 0, delivered |-> 0, whole |-> FALSE, underflow |-> FALSE]

\* The caller's struct, bytes_received included.
Request(id, seq, kind, bytes) ==
  [id |-> id, sequence_id |-> seq, kind |-> kind, bytes_received |-> bytes]

-----------------------------------------------------------------------------
(***************************************************************************)
(* std::set<Request>: two requests are the same element when their         *)
(* sequence numbers are equal, whatever their ids (Request::operator<).    *)
(***************************************************************************)
Insert(S, r) ==
  IF \E q \in S : q.sequence_id = r.sequence_id THEN S ELSE S \cup {r}

\* insert(first, last): the elements of S that find no equal key in D.
InsertAll(D, S) ==
  D \cup {r \in S : \A q \in D : q.sequence_id # r.sequence_id}

Has(S, id) == \E r \in S : r.id = id

\* find_if walks the set in key order and stops at the first match.
Find(S, id) ==
  CHOOSE r \in S :
    /\ r.id = id
    /\ \A q \in S : q.id = id => r.sequence_id <= q.sequence_id

\* Mutant of Evict: the table grows one past its limit.
EvictOneLate(S) ==
  {r \in S :
     Cardinality({q \in S : q.sequence_id > r.sequence_id}) <= MaxRequestsSize}

\* Mutant of Evict: the newest requests are erased, not the oldest.
EvictNewest(S) ==
  {r \in S :
     Cardinality({q \in S : q.sequence_id < r.sequence_id}) < MaxRequestsSize}

\* The newest MaxRequestsSize requests stay, the ones before them are erased.
Evict(S) ==
  {r \in S :
     Cardinality({q \in S : q.sequence_id > r.sequence_id}) < MaxRequestsSize}

Total(S) == SumFunctionOnSet([r \in S |-> r.bytes_received], S)

\* getBitsReceived adds up in a size_t.
BytesReceived(S) == Total(S) % SizeT

ShouldDiscardRequest(kind) == kind = "post"

DegradesAccuracy(kind) == kind \in {"cached", "hanging"}

-----------------------------------------------------------------------------
(***************************************************************************)
(* The observation window.                                                 *)
(***************************************************************************)
MaybeStart(w, reqs, degr) ==
  IF ~w.open /\ degr = {} /\ Cardinality(reqs) >= MinInFlight
  THEN [Closed EXCEPT !.open = TRUE,
                      !.start = BytesReceived(reqs),
                      !.whole = Total(reqs) < SizeT]
  ELSE w

\* (History.)  n bytes are reported for a tracked request.
Deliver(w, n) == IF w.open THEN [w EXCEPT !.delivered = @ + n] ELSE w

\* Mutant of Underflow: the check is missing.
UnderflowUnchecked(w, reqs) == FALSE

Underflow(w, reqs) == BytesReceived(reqs) < w.start

\* size_t subtraction.
BytesInWindow(w, reqs) == (BytesReceived(reqs) - w.start) % SizeT

\* maybeGetThroughputObservation passes every early return; the limit it
\* compares with is a product in size_t.
Observes(w, reqs) ==
  /\ w.open
  /\ ~Underflow(w, reqs)
  /\ BytesInWindow(w, reqs) >= MinTransfer % SizeT
  /\ w.age > 0

\* The window maybeGetThroughputObservation leaves behind.
AfterObservation(w, reqs, degr) ==
  IF w.open /\ Underflow(w, reqs) THEN [Closed EXCEPT !.underflow = TRUE]
  ELSE IF Observes(w, reqs) THEN MaybeStart(Closed, reqs, degr)
  ELSE w

-----------------------------------------------------------------------------
Init ==
  /\ flight = [id \in Ids |-> Idle]
  /\ requests = {}
  /\ degrading = {}
  /\ next_seq = 0
  /\ window = Closed
  /\ sample = NoSample

\* shouldDiscardRequest: the analyzer never hears of the request again
\* until the caller reports its reads and its completion.
StartDiscarded(id, kind, bytes) ==
  /\ ShouldDiscardRequest(kind)
  /\ UNCHANGED <<requests, degrading, next_seq, window>>

\* The caller's struct is inserted as it is, with its default sequence_id 0.
StartDegrading(id, kind, bytes) ==
  /\ ~ShouldDiscardRequest(kind)
  /\ DegradesAccuracy(kind)
  /\ degrading' = Insert(degrading, Request(id, 0, kind, bytes))
  /\ window' = Closed
  /\ UNCHANGED <<requests, next_seq>>

\* Mutant of StartTracked: the counter is incremented before it is read.
StartTrackedPreIncrement(id, kind, bytes) ==
  /\ ~ShouldDiscardRequest(kind)
  /\ ~DegradesAccuracy(kind)
  /\ next_seq < MaxStarts
  /\ next_seq' = next_seq + 1
  /\ requests' = Evict(Insert(requests, Request(id, next_seq + 1, kind, bytes)))
  /\ window' = MaybeStart(Deliver(window, bytes), requests', degrading)
  /\ UNCHANGED degrading

StartTracked(id, kind, bytes) ==
  /\ ~ShouldDiscardRequest(kind)
  /\ ~DegradesAccuracy(kind)
  /\ next_seq < MaxStarts
  /\ next_seq' = next_seq + 1
  /\ requests' = Evict(Insert(requests, Request(id, next_seq, kind, bytes)))
  /\ window' = MaybeStart(Deliver(window, bytes), requests', degrading)
  /\ UNCHANGED degrading

\* Ids are unique: a caller starts a request only under an id not in use.
NotifyStartTransaction(id, kind, bytes) ==
  /\ flight[id] = Idle
  /\ flight' = [flight EXCEPT ![id] = kind]
  /\ \/ StartDiscarded(id, kind, bytes)
     \/ StartDegrading(id, kind, bytes)
     \/ StartTracked(id, kind, bytes)
  /\ UNCHANGED sample

ReadTracked(id, n) ==
  LET old == Find(requests, id)
      updated == [old EXCEPT !.bytes_received = @ + n]
  IN /\ updated.bytes_received <= MaxBytes
     /\ requests' = IF DegradesAccuracy(updated.kind)
                    THEN requests \ {old}
                    ELSE Insert(requests \ {old}, updated)
     /\ degrading' = IF DegradesAccuracy(updated.kind)
                     THEN Insert(degrading, updated)
                     ELSE degrading
     /\ window' = IF DegradesAccuracy(updated.kind) THEN Closed ELSE Deliver(window, n)

ReadDegrading(id, n) ==
  LET old == Find(degrading, id)
      updated == [old EXCEPT !.bytes_received = @ + n]
  IN /\ updated.bytes_received <= MaxBytes
     /\ degrading' = Insert(degrading \ {old}, updated)
     /\ UNCHANGED <<requests, window>>

\* A read of a request in neither set changes nothing.
NotifyBytesRead(id, n) ==
  /\ flight[id] # Idle
  /\ \/ Has(requests, id) /\ ReadTracked(id, n)
     \/ ~Has(requests, id) /\ Has(degrading, id) /\ ReadDegrading(id, n)
  /\ UNCHANGED <<flight, next_seq, sample>>

\* Mutant of CompleteDegrading: the last one does not restart the window.
CompleteDegradingNoRestart(id, w) ==
  /\ ~Has(requests, id)
  /\ Has(degrading, id)
  /\ degrading' = degrading \ {Find(degrading, id)}
  /\ window' = w
  /\ UNCHANGED requests

\* Mutant of CompleteTracked: the window survives any completion.
CompleteTrackedKeepWindow(id, w) ==
  /\ Has(requests, id)
  /\ requests' = requests \ {Find(requests, id)}
  /\ window' = w
  /\ UNCHANGED degrading

CompleteTracked(id, w) ==
  /\ Has(requests, id)
  /\ requests' = requests \ {Find(requests, id)}
  /\ window' = IF w.open /\ Cardinality(requests') < MinInFlight THEN Closed ELSE w
  /\ UNCHANGED degrading

CompleteDegrading(id, w) ==
  /\ ~Has(requests, id)
  /\ Has(degrading, id)
  /\ degrading' = degrading \ {Find(degrading, id)}
  /\ window' = IF degrading' = {} THEN MaybeStart(w, requests, degrading') ELSE w
  /\ UNCHANGED requests

CompleteUnknown(id, w) ==
  /\ ~Has(requests, id)
  /\ ~Has(degrading, id)
  /\ window' = w
  /\ UNCHANGED <<requests, degrading>>

\* The observation is taken first, with the completing request still counted.
NotifyRequestCompleted(id) ==
  /\ flight[id] # Idle
  /\ flight' = [flight EXCEPT ![id] = Idle]
  /\ sample' = IF Observes(window, requests)
               THEN [source   |-> "window",
                     bytes    |-> BytesInWindow(window, requests),
                     duration |-> window.age]
               ELSE sample
  /\ LET w == AfterObservation(window, requests, degrading)
     IN CompleteTracked(id, w) \/ CompleteDegrading(id, w) \/ CompleteUnknown(id, w)
  /\ UNCHANGED next_seq

\* Mutant of OnConnectionTypeChanged: requests_.clear() is missing.
OnConnectionTypeChangedKeep ==
  /\ degrading' = InsertAll(degrading, requests)
  /\ window' = Closed
  /\ UNCHANGED <<flight, requests, next_seq, sample>>

OnConnectionTypeChanged ==
  /\ degrading' = InsertAll(degrading, requests)
  /\ requests' = {}
  /\ window' = Closed
  /\ UNCHANGED <<flight, next_seq, sample>>

\* The legacy API; a transfer that fails the guard changes nothing.
AddTransfer(bytes, duration) ==
  /\ bytes >= MinTransfer
  /\ duration > 0
  /\ sample' = [source |-> "transfer", bytes |-> bytes, duration |-> duration]
  /\ UNCHANGED <<flight, requests, degrading, next_seq, window>>

\* Time passes: Clock::now() - window_start_time_ grows.
Tick ==
  /\ window.open
  /\ window.age < MaxAge
  /\ window' = [window EXCEPT !.age = @ + 1]
  /\ UNCHANGED <<flight, requests, degrading, next_seq, sample>>

Next ==
  \/ \E id \in Ids, kind \in Kinds, bytes \in InitialBytes :
       NotifyStartTransaction(id, kind, bytes)
  \/ \E id \in Ids, n \in ReadSizes : NotifyBytesRead(id, n)
  \/ \E id \in Ids : NotifyRequestCompleted(id)
  \/ OnConnectionTypeChanged
  \/ \E n \in ReadSizes, d \in Durations : AddTransfer(n, d)
  \/ Tick

Spec == Init /\ [][Next]_vars

-----------------------------------------------------------------------------
\* Every variable has its type, and a sequence number in use was handed out
\* before (notifyStartTransaction).
TypeOK ==
  /\ flight \in [Ids -> AllKinds \cup {Idle}]
  /\ next_seq \in Nat
  /\ requests \cup degrading \subseteq
       [id : Ids, sequence_id : 0..next_seq, kind : AllKinds, bytes_received : Nat]
  /\ \A r \in requests : r.sequence_id < next_seq
  /\ IsFiniteSet(requests)
  /\ DOMAIN window = {"open", "start", "age", "delivered", "whole", "underflow"}
  /\ window.open \in BOOLEAN
  /\ window.whole \in BOOLEAN
  /\ window.underflow \in BOOLEAN
  /\ window.start \in Nat
  /\ window.age \in 0..MaxAge
  /\ window.delivered \in Nat
  /\ DOMAIN sample = {"source", "bytes", "duration"}
  /\ sample.source \in {"none", "transfer", "window"}
  /\ sample.bytes \in Nat /\ sample.duration \in Int

\* While the window is open the analyzer knows no degrading request and tracks
\* at least the configured number of requests, through every completion,
\* eviction, restart and connection change (ThroughputAnalyzer.h:158).
WindowInv ==
  window.open => degrading = {} /\ Cardinality(requests) >= MinInFlight

\* No opportunity to measure is missed but one: when the window is closed
\* although nothing degrades and enough requests are tracked, an underflow
\* closed it (maybeGetThroughputObservation returns there without a restart).
ClosedOnlyByUnderflow ==
  MinInFlight > 0 /\ ~window.open /\ degrading = {}
    /\ Cardinality(requests) >= MinInFlight
  => window.underflow

\* The analyzer's two sets agree with what the callers have in flight: no
\* completed request stays behind in either set, none is in both or twice in
\* one, and only accuracy-preserving GETs are in requests_.
TrackedInFlight ==
  /\ \A r \in requests \cup degrading :
       flight[r.id] = r.kind /\ ~ShouldDiscardRequest(r.kind)
  /\ \A r \in requests : ~DegradesAccuracy(r.kind)
  /\ \A r, q \in requests \cup degrading : r.id = q.id => r = q
  /\ requests \cap degrading = {}

\* No more than kMaxRequestsSize requests are kept in requests_.
TableBounded == Cardinality(requests) <= MaxRequestsSize

\* A start tracks its request and forgets another only when the table is full,
\* and then the oldest (ThroughputAnalyzer.h:53, "evicted first" the oldest).
StartEvictsOldestOnly ==
  [][next_seq' # next_seq =>
       /\ \E r \in requests' : r.sequence_id = next_seq
       /\ \A r \in requests :
            ~Has(requests', r.id) =>
              /\ Cardinality(requests') = MaxRequestsSize
              /\ \A q \in requests' : q.sequence_id > r.sequence_id]_vars

\* A window's observation never credits the network with more bytes than
\* callers reported for tracked requests while that window was open, by reads
\* or as what a new request starts with, whatever was counted before it,
\* completed or evicted in it (maybeGetThroughputObservation).  Excepted is a
\* window that starts when the sum of the tracked requests' bits has already
\* outgrown a size_t: there the check for a decrease compares remainders.
ObservationNeverOvercounts ==
  [][sample' # sample /\ sample'.source = "window" =>
       /\ window.whole => sample'.bytes <= window.delivered
       /\ sample'.duration = window.age]_vars

\* Contradicted by the code (ThroughputAnalyzer.h:158): a window is open only
\* while no request that degrades accuracy is in flight.
NoDegradingInFlight ==
  window.open => \A id \in Ids : ~DegradesAccuracy(flight[id])
=============================================================================
