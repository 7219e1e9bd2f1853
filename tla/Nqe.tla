-------------------------------- MODULE Nqe --------------------------------
(***************************************************************************)
(* The estimator core (src/src/Nqe.cpp): threads add samples, the notifier *)
(* reports network changes, the effective connection type (ECT) is         *)
(* recomputed when it is due, observers hear of its changes and the cache  *)
(* keeps an estimate per network.                                          *)
(*                                                                         *)
(* Every critical section under mu_ is one step; between two of them a     *)
(* thread holds only what it copied.  Samples are reduced to how many the  *)
(* aggregators hold and on which networks they were measured, an ECT to an *)
(* element of Ects or UNKNOWN: which one a computation yields is chosen    *)
(* freely when there are samples to compute it from.  The two              *)
(* ..._since_last_ect_computation_ counters are only ever incremented and  *)
(* never read; they are left out.                                          *)
(*                                                                         *)
(* Observers are called without the lock: those of RTTs and throughputs    *)
(* between the sample and the computation, those of the ECT after it.  An  *)
(* observer may call Nqe back.  Such a call is a caller of its own         *)
(* (Nested) on the thread that calls the observer (Outer), which waits for *)
(* it.                                                                     *)
(***************************************************************************)
EXTENDS Integers, FiniteSets

CONSTANTS
  Callers,        \* application threads, the sampler thread and Nested
  Notifier,       \* the thread of NetworkChangeNotifier
  Nested,         \* calls made by observers while they are called
  Outer,          \* Outer[n]: the call whose observer makes n
  Observers,      \* EffectiveConnectionTypeObservers
  Networks,       \* networks with a valid NetworkID
  Ects,           \* effective connection types other than UNKNOWN
  ClearOnChange,  \* clear_on_network_change_
  EnableCaching,  \* Options::enable_caching
  NewObservations,\* Options::count_new_observations_received_compute_ect
  MaxSamples,     \* bound: samples held when another one is added
  MaxChanges      \* bound: network changes in a behaviour

None == "none"          \* no network: getCurrentNetworkID is not valid
UNKNOWN == "UNKNOWN"

ASSUME NqeConstants ==
  /\ ClearOnChange \in BOOLEAN
  /\ EnableCaching \in BOOLEAN
  /\ NewObservations \in Nat
  /\ MaxSamples \in Nat
  /\ MaxChanges \in Nat
  /\ UNKNOWN \notin Ects
  /\ None \notin Networks
  /\ IsFiniteSet(Callers) /\ Notifier \notin Callers
  /\ Nested \subseteq Callers /\ Outer \in [Nested -> Callers \cup {Notifier}]
  /\ IsFiniteSet(Observers)

VARIABLES
  rated,       \* samples in http_ and transport_
  others,      \* samples in ping_ and end_to_end_
  transfers,   \* samples in throughput_
  analyzer,    \* which ThroughputAnalyzer throughput_ points to: resets so far
  origins,     \* history: the networks, or None, the samples were measured on
  rtt_at_last, \* rtt_observations_at_last_ect_computation_
  tp_at_last,  \* throughput_observations_at_last_ect_computation_
  changed,     \* network_change_since_last_ect_computation_
  computed,    \* last_effective_connection_type_computation_ has been set
  last_ect,    \* last_ect_
  observers,   \* ect_observers_
  detecting,   \* network_change_detection_enabled_
  cache,       \* external: what cache_store_ holds for each network: the
               \* origins of the RTTs in its entry, {} if there are none
  live,        \* external: the network the platform is on
  reported,    \* external: the network the notifier last reported
  thread,      \* what each thread is doing and the copies it holds
  seen,        \* history: the ECT each observer was last told, or None
  owed         \* history: calls each observer is due and has not received

samples == <<rated, others, transfers, analyzer, origins>>
tracking == <<rtt_at_last, tp_at_last, changed, computed, last_ect>>
history == <<seen, owed>>
vars == <<samples, tracking, observers, detecting, cache, live, reported, thread, history>>

-----------------------------------------------------------------------------
Threads == Callers \cup {Notifier}

Idle == [pc |-> "idle", old |-> UNKNOWN, new |-> UNKNOWN, todo |-> {},
         called |-> FALSE, net |-> None, from |-> {}, analyzer |-> 0]

PCs == {"idle", "compute", "transfer", "change", "load", "loadadd", "notify", "put"}

\* todo: the observers still to be called; called: one of them was.
ThreadState ==
  [pc : PCs, old : Ects \cup {UNKNOWN}, new : Ects \cup {UNKNOWN},
   todo : SUBSET Observers, called : BOOLEAN, net : Networks \cup {None},
   from : SUBSET (Networks \cup {None}), analyzer : Nat]

\* An observer that t called is in a call of its own, and t waits for it.
InObserver(t) == \E n \in Nested : Outer[n] = t /\ thread[n].pc # "idle"

At(t, pc) == ~InObserver(t) /\ thread[t].pc = pc

\* t has called an observer: of an RTT or a throughput, or of the ECT.
CallsObserver(t) == At(t, "compute") \/ (At(t, "notify") /\ thread[t].called)

\* t may begin a call: a thread any time, an observer while it is called.
MayBegin(t) == t \in Callers /\ At(t, "idle") /\ (t \in Nested => CallsObserver(Outer[t]))

Become(t, rec) == thread' = [thread EXCEPT ![t] = rec]

Goto(t, pc) == Become(t, [thread[t] EXCEPT !.pc = pc])

\* getCurrentNetworkID, asked of the platform each time.
CurrentNetworkID == IF detecting THEN live ELSE None

RttObservations == rated + others

RoomForSamples == RttObservations + transfers < MaxSamples

\* A computation finds an estimate only if some sample rates the connection;
\* samples that are stale or later than now leave it UNKNOWN.
PossibleEcts == IF rated + transfers > 0 THEN Ects \cup {UNKNOWN} ELSE {UNKNOWN}

\* n has grown by at least half since it was m; a zero m never counts.
GrewByHalf(n, m) == m > 0 /\ 2 * n >= 3 * m

\* Mutant of ShouldCompute: a network change is no reason to compute.
ShouldComputeIgnoringChange(late, flag, rtt, tp) ==
  \/ late /\ computed
  \/ last_ect = UNKNOWN
  \/ GrewByHalf(rtt, rtt_at_last)
  \/ GrewByHalf(tp, tp_at_last)
  \/ (rtt - rtt_at_last) + (tp - tp_at_last) >= NewObservations

\* late: the recomputation interval has passed since the last computation.
\* The differences are of size_t values: NoCounterWrap.
ShouldCompute(late, flag, rtt, tp) ==
  \/ late /\ computed
  \/ flag
  \/ last_ect = UNKNOWN
  \/ GrewByHalf(rtt, rtt_at_last)
  \/ GrewByHalf(tp, tp_at_last)
  \/ (rtt - rtt_at_last) + (tp - tp_at_last) >= NewObservations

\* What a thread does after its critical section when the ECT went from old
\* to new: observers were copied under the lock.
Announce(old, new, after) ==
  IF new = old THEN [Idle EXCEPT !.pc = after]
  ELSE [Idle EXCEPT !.pc = IF after = "idle" THEN "notify" ELSE after,
                    !.old = old, !.new = new, !.todo = observers]

\* Mutant of AfterLoad: the thread returns once the cache is loaded.
AfterLoadReturn(rec) == Idle

\* Mutant of AfterLoad: the ECT before the change is read anew after the load.
AfterLoadRereads(rec) ==
  IF rec.new = rec.old THEN Idle
  ELSE [rec EXCEPT !.pc = "notify", !.old = last_ect, !.net = None, !.from = {}]

\* notifyECTChangeAndUpdateCache is called only if the ECT changed.
AfterLoad(rec) ==
  IF rec.new = rec.old THEN Idle
  ELSE [rec EXCEPT !.pc = "notify", !.net = None, !.from = {}]

-----------------------------------------------------------------------------
Init ==
  /\ rated = 0 /\ others = 0 /\ transfers = 0 /\ analyzer = 0
  /\ origins = {}
  /\ rtt_at_last = 0 /\ tp_at_last = 0
  /\ changed = FALSE /\ computed = FALSE /\ last_ect = UNKNOWN
  /\ observers = {}
  /\ detecting = FALSE
  /\ cache = [n \in Networks |-> {}]
  /\ live \in Networks
  /\ reported = live
  /\ thread = [t \in Threads |-> Idle]
  /\ seen = [o \in Observers |-> None]
  /\ owed = [o \in Observers |-> 0]

\* addSample: the critical section.  A ping or end-to-end sample rates nothing.
AddSample(t) ==
  /\ MayBegin(t)
  /\ RoomForSamples
  /\ \/ rated' = rated + 1 /\ UNCHANGED others
     \/ others' = others + 1 /\ UNCHANGED rated
  /\ origins' = origins \cup {live}
  /\ Goto(t, "compute")
  /\ UNCHANGED <<transfers, analyzer, tracking, observers, detecting, cache, live,
                 reported, history>>

\* addThroughputSample, up to the unlocked read of throughput_.
AddThroughputSample(t) ==
  /\ MayBegin(t)
  /\ Become(t, [Idle EXCEPT !.pc = "transfer", !.analyzer = analyzer])
  /\ UNCHANGED <<samples, tracking, observers, detecting, cache, live, reported, history>>

\* addTransfer on the analyzer that was read: a small transfer is ignored, and
\* one that reaches an analyzer clearAllSamples has replaced is lost.
AddTransfer(t) ==
  /\ At(t, "transfer")
  /\ \/ /\ thread[t].analyzer = analyzer
        /\ RoomForSamples
        /\ transfers' = transfers + 1
        /\ origins' = origins \cup {live}
     \/ UNCHANGED <<transfers, origins>>
  /\ Become(t, [Idle EXCEPT !.pc = "compute"])
  /\ UNCHANGED <<rated, others, analyzer, tracking, observers, detecting, cache, live,
                 reported, history>>

\* Mutant of Compute: the counts are those from before a clear.
ComputeStaleCounts(new) ==
  /\ last_ect' = new
  /\ computed' = TRUE
  /\ rtt_at_last' = rated + others
  /\ tp_at_last' = transfers
  /\ changed' = FALSE
  /\ owed' = IF new = last_ect THEN owed
             ELSE [o \in Observers |-> IF o \in observers THEN owed[o] + 1 ELSE owed[o]]

\* Mutant of Compute: only the samples added since the last computation count.
ComputeNewOnly(new) ==
  /\ last_ect' = new
  /\ computed' = TRUE
  /\ rtt_at_last' = rated' + others' - rtt_at_last
  /\ tp_at_last' = transfers' - tp_at_last
  /\ changed' = FALSE
  /\ owed' = IF new = last_ect THEN owed
             ELSE [o \in Observers |-> IF o \in observers THEN owed[o] + 1 ELSE owed[o]]

\* computeEffectiveConnectionTypeLocked.
Compute(new) ==
  /\ last_ect' = new
  /\ computed' = TRUE
  /\ rtt_at_last' = rated' + others'
  /\ tp_at_last' = transfers'
  /\ changed' = FALSE
  /\ owed' = IF new = last_ect THEN owed
             ELSE [o \in Observers |-> IF o \in observers THEN owed[o] + 1 ELSE owed[o]]

\* maybeComputeEffectiveConnectionType: decision, computation and copy of the
\* observers in one critical section.
MaybeCompute(t) ==
  /\ At(t, "compute")
  /\ UNCHANGED samples
  /\ \E late \in BOOLEAN :
       IF ShouldCompute(late, changed, RttObservations, transfers)
       THEN \E new \in PossibleEcts :
              Compute(new) /\ Become(t, Announce(last_ect, new, "idle"))
       ELSE Become(t, Idle) /\ UNCHANGED <<tracking, owed>>
  /\ UNCHANGED <<observers, detecting, cache, live, reported, seen>>

\* The loop over the copied observers, called without the lock: the next one
\* when the one before has returned.
NotifyOne(t) ==
  /\ At(t, "notify")
  /\ \E o \in thread[t].todo :
       /\ seen' = [seen EXCEPT ![o] = thread[t].new]
       /\ owed' = [owed EXCEPT ![o] = @ - 1]
       /\ Become(t, [thread[t] EXCEPT !.todo = @ \ {o}, !.called = TRUE])
  /\ UNCHANGED <<samples, tracking, observers, detecting, cache, live, reported>>

\* updateCachedQuality, up to the lock: the network is read without it.  Called
\* at the end of notifyECTChangeAndUpdateCache, by saveCachedData and by the
\* application.
UpdateReadNetwork(t) ==
  /\ \/ At(t, "notify") /\ thread[t].todo = {}
     \/ MayBegin(t) /\ EnableCaching
  /\ Become(t, IF ~EnableCaching \/ CurrentNetworkID = None THEN Idle
               ELSE [Idle EXCEPT !.pc = "put", !.net = CurrentNetworkID])
  /\ UNCHANGED <<samples, tracking, observers, detecting, cache, live, reported, history>>

\* updateCachedQuality's critical section: combineLocked over whatever the
\* aggregators hold by now, if it is fresh, then put.
UpdatePut(t) ==
  /\ At(t, "put")
  /\ \E from \in IF rated > 0 THEN {origins, {}} ELSE {{}} :
       cache' = [cache EXCEPT ![thread[t].net] = from]
  /\ Become(t, Idle)
  /\ UNCHANGED <<samples, tracking, observers, detecting, live, reported, history>>

\* loadCachedQualityForCurrentNetwork up to the lock, called by onNetworkChange
\* or by the application: the network and its entry are read without it.  A
\* stale entry, like a missing one, yields nothing.
LoadRead(t) ==
  /\ \/ At(t, "load")
     \/ MayBegin(t) /\ EnableCaching
  /\ \/ /\ CurrentNetworkID # None
        /\ cache[CurrentNetworkID] # {}
        /\ RoomForSamples
        /\ Become(t, [thread[t] EXCEPT !.pc = "loadadd", !.net = CurrentNetworkID,
                                       !.from = cache[CurrentNetworkID]])
     \/ Become(t, AfterLoad(thread[t]))
  /\ UNCHANGED <<samples, tracking, observers, detecting, cache, live, reported, history>>

\* The cached HTTP and transport RTTs become samples; no computation follows.
LoadAdd(t) ==
  /\ At(t, "loadadd")
  /\ rated' \in {rated + 1, rated + 2}
  /\ origins' = origins \cup thread[t].from
  /\ Become(t, AfterLoad(thread[t]))
  /\ UNCHANGED <<others, transfers, analyzer, tracking, observers, detecting, cache,
                 live, reported, history>>

-----------------------------------------------------------------------------
\* The notifier has copied its observers and calls this Nqe's.
ReportChange ==
  /\ At(Notifier, "idle")
  /\ analyzer < MaxChanges
  /\ detecting
  /\ reported # live
  /\ reported' = live
  /\ Goto(Notifier, "change")
  /\ UNCHANGED <<samples, tracking, observers, detecting, cache, live, history>>

\* clearAllSamples.
ClearAllSamples ==
  /\ rated' = 0 /\ others' = 0 /\ transfers' = 0
  /\ analyzer' = analyzer + 1
  /\ origins' = {}

\* onNetworkChange: the critical section, with the flag set.
OnNetworkChange ==
  /\ At(Notifier, "change")
  /\ IF ClearOnChange THEN ClearAllSamples ELSE UNCHANGED samples
  /\ LET after == IF EnableCaching THEN "load" ELSE "idle"
     IN \E late \in BOOLEAN :
          IF ShouldCompute(late, TRUE, rated' + others', transfers')
          THEN \E new \in PossibleEcts' :
                 Compute(new) /\ Become(Notifier, Announce(last_ect, new, after))
          ELSE /\ changed' = TRUE
               /\ Become(Notifier, [Idle EXCEPT !.pc = after])
               /\ UNCHANGED <<rtt_at_last, tp_at_last, computed, last_ect, owed>>
  /\ UNCHANGED <<observers, detecting, cache, live, reported, seen>>

AddObserver(o) ==
  /\ o \notin observers
  /\ observers' = observers \cup {o}
  /\ UNCHANGED <<samples, tracking, detecting, cache, live, reported, thread, history>>

\* A call already copied by another thread may still reach the observer.
RemoveObserver(o) ==
  /\ o \in observers
  /\ observers' = observers \ {o}
  /\ seen' = [seen EXCEPT ![o] = None]
  /\ UNCHANGED <<samples, tracking, detecting, cache, live, reported, thread, owed>>

\* enableNetworkChangeDetection: starting the notifier takes the present
\* network as the last reported one, a notifier that runs keeps its own.
EnableDetection ==
  /\ ~detecting
  /\ detecting' = TRUE
  /\ reported' \in {reported, live}
  /\ UNCHANGED <<samples, tracking, observers, cache, live, thread, history>>

DisableDetection ==
  /\ detecting
  /\ detecting' = FALSE
  /\ UNCHANGED <<samples, tracking, observers, cache, live, reported, thread, history>>

\* The platform moves to another network, or to none.
Roam ==
  /\ live' \in (Networks \cup {None}) \ {live}
  /\ UNCHANGED <<samples, tracking, observers, detecting, cache, reported, thread, history>>

Call(t) == AddSample(t) \/ AddThroughputSample(t) \/ AddTransfer(t)

Step(t) ==
  \/ MaybeCompute(t) \/ NotifyOne(t)
  \/ UpdateReadNetwork(t) \/ UpdatePut(t)
  \/ LoadRead(t) \/ LoadAdd(t)

Next ==
  \/ \E t \in Callers : Call(t)
  \/ \E t \in Threads : Step(t)
  \/ \E o \in Observers : AddObserver(o) \/ RemoveObserver(o)
  \/ ReportChange \/ OnNetworkChange
  \/ EnableDetection \/ DisableDetection
  \/ Roam

Spec == Init /\ [][Next]_vars

-----------------------------------------------------------------------------
\* Every variable has its type.
TypeOK ==
  /\ rated \in Nat /\ others \in Nat /\ transfers \in Nat /\ analyzer \in Nat
  /\ origins \subseteq Networks \cup {None}
  /\ rtt_at_last \in Nat /\ tp_at_last \in Nat
  /\ changed \in BOOLEAN /\ computed \in BOOLEAN
  /\ last_ect \in Ects \cup {UNKNOWN}
  /\ observers \subseteq Observers
  /\ detecting \in BOOLEAN
  /\ cache \in [Networks -> SUBSET (Networks \cup {None})]
  /\ live \in Networks \cup {None} /\ reported \in Networks \cup {None}
  /\ thread \in [Threads -> ThreadState]
  /\ seen \in [Observers -> Ects \cup {UNKNOWN, None}]
  /\ owed \in [Observers -> Int]

\* The counts of the last computation never exceed the present ones, whatever
\* threads add samples and whenever a network change clears them: the size_t
\* differences of shouldComputeEffectiveConnectionType (Nqe.cpp:945-947) do
\* not wrap.
NoCounterWrap ==
  /\ rtt_at_last <= RttObservations
  /\ tp_at_last <= transfers

\* Nqe holds an ECT other than UNKNOWN only while it has samples that rate the
\* connection: no clear leaves behind the ECT of the network that was left.
EctNeedsSamples == last_ect # UNKNOWN => rated + transfers > 0

\* Every change of the ECT is announced exactly once to every observer that
\* was registered when it happened: what is due and not yet delivered is in
\* the hands of a thread or of a call made by an observer, also across the cache
\* load of onNetworkChange.
EveryChangeAnnounced ==
  \A o \in Observers :
    owed[o] = Cardinality({t \in Threads : o \in thread[t].todo})

\* The calls that threads have copied the observers for and not made yet.
CallsDue ==
  UNION {{[by |-> t, to |-> o, old |-> thread[t].old, new |-> thread[t].new] :
            o \in thread[t].todo} : t \in Threads}

Announcements ==
  INSTANCE EctAnnouncements
    WITH Announcers <- Threads, Types <- Ects \cup {UNKNOWN},
         ect <- last_ect, registered <- observers, due <- CallsDue

\* The changes of the ECT, the copies of the observers made under the lock and
\* the calls made after it, across the cache load of onNetworkChange and when an
\* observer that is called adds samples, amount to the announcements that
\* observers are promised.
AnnouncesAsPromised == Announcements!Spec

\* Contradicted by the code (NetworkQualityObserver.h:50, "old_type Previous
\* ECT value"): the old type an observer is told is the one it was last told.
ObserverToldPrevious ==
  [][\A t \in Threads, o \in Observers :
       o \in thread[t].todo /\ o \notin thread'[t].todo =>
         seen[o] \in {None, thread[t].old}]_vars

\* Contradicted by the code (CachedNetworkQuality.h:11, "for a specific
\* network"): a network's cache entry stems from samples of that network.
CacheOfOwnNetwork ==
  \A n \in Networks : cache[n] \subseteq {n, None}
=============================================================================
