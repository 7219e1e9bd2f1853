----------------------------- MODULE NqeProofs -----------------------------
(***************************************************************************)
(* Theorems about Nqe, for every number of callers, observers, networks    *)
(* and effective connection types and whatever the options are.            *)
(*                                                                         *)
(* IInv is inductive.  The counters and the ECT need only their types; the *)
(* announcements also need Holds: a thread that still owes calls is in the *)
(* announcement or in the cache load before it, and does not forget them,  *)
(* because it announces a change.  With Holds each step of Nqe is also a   *)
(* step of EctAnnouncements, or changes nothing it knows of.               *)
(***************************************************************************)
EXTENDS Nqe, FiniteSetTheorems, TLAPS

\* The threads that still have to call observer o.
Due(o) == {t \in Threads : o \in thread[t].todo}

\* A thread that owes calls announces a change of the ECT.
Holds ==
  \A t \in Threads :
    thread[t].todo # {} =>
      /\ thread[t].pc \in {"notify", "load", "loadadd"}
      /\ thread[t].new # thread[t].old

\* EveryChangeAnnounced in terms of Due.
Owing == \A o \in Observers : owed[o] = Cardinality(Due(o))

Core == TypeOK /\ NoCounterWrap /\ EctNeedsSamples

IInv == Core /\ Holds /\ Owing

-----------------------------------------------------------------------------
\* A thread is idle in a state of its type.
LEMMA IdleType == Idle \in ThreadState /\ Idle.todo = {} /\ Idle.new = Idle.old
BY DEF Idle, ThreadState, PCs

\* The ECT a computation finds has its type and, unless it is UNKNOWN, rests
\* on a sample.
LEMMA EctType ==
  ASSUME NEW new \in PossibleEcts
  PROVE  /\ new \in Ects \cup {UNKNOWN}
         /\ new # UNKNOWN => rated + transfers > 0
BY DEF PossibleEcts

\* What a thread holds after its critical section.
LEMMA AnnounceType ==
  ASSUME NEW old \in Ects \cup {UNKNOWN}, NEW new \in Ects \cup {UNKNOWN},
         NEW after \in {"idle", "load"}, observers \subseteq Observers,
         NEW rec, rec = Announce(old, new, after)
  PROVE  /\ rec \in ThreadState
         /\ rec.todo = IF new = old THEN {} ELSE observers
         /\ rec.todo # {} => rec.pc \in {"notify", "load"} /\ rec.new # rec.old
BY IdleType DEF Announce, Idle, ThreadState, PCs

\* AfterLoad forgets no call of a thread that announces a change.
LEMMA AfterLoadType ==
  ASSUME NEW rec \in ThreadState
  PROVE  /\ AfterLoad(rec) \in ThreadState
         /\ rec.new # rec.old => /\ AfterLoad(rec).todo = rec.todo
                                 /\ AfterLoad(rec).pc = "notify"
                                 /\ AfterLoad(rec).new = rec.new
                                 /\ AfterLoad(rec).old = rec.old
         /\ rec.new = rec.old => AfterLoad(rec).todo = {}
BY IdleType DEF AfterLoad, Idle, ThreadState, PCs

\* The set of threads is finite, and so is any set of threads with work due.
LEMMA DueFinite ==
  ASSUME NEW o
  PROVE  IsFiniteSet(Due(o)) /\ Cardinality(Due(o)) \in Nat
<1>1. IsFiniteSet(Threads)
  BY NqeConstants, FS_AddElement DEF Threads
<1> QED  BY <1>1, FS_Subset, FS_CardinalityType DEF Due

-----------------------------------------------------------------------------
\* The initial states satisfy the invariant.
LEMMA InitIInv == Init => IInv
<1> SUFFICES ASSUME Init PROVE IInv
  OBVIOUS
<1>1. Core
  <2>1. thread \in [Threads -> ThreadState]
    BY IdleType DEF Init
  <2>2. cache \in [Networks -> SUBSET (Networks \cup {None})]
    BY DEF Init
  <2>3. /\ seen \in [Observers -> Ects \cup {UNKNOWN, None}]
        /\ owed \in [Observers -> Int]
    BY DEF Init
  <2>4. TypeOK
    BY <2>1, <2>2, <2>3 DEF Init, TypeOK
  <2>5. NoCounterWrap /\ EctNeedsSamples
    BY DEF Init, NoCounterWrap, EctNeedsSamples, RttObservations
  <2> QED  BY <2>4, <2>5 DEF Core
<1>2. Holds
  BY IdleType DEF Init, Holds
<1>3. \A o \in Observers : Due(o) = {}
  BY IdleType DEF Init, Due
<1>4. Owing
  BY <1>3, FS_EmptySet DEF Owing, Init
<1> QED  BY <1>1, <1>2, <1>4 DEF IInv

-----------------------------------------------------------------------------
\* A step in which one thread neither takes on nor forgets calls.
LEMMA SameTodo ==
  ASSUME Core, Holds, Owing,
         NEW t \in Threads, NEW rec, Become(t, rec),
         rec.todo = thread[t].todo,
         rec.todo # {} => /\ rec.pc \in {"notify", "load", "loadadd"}
                          /\ rec.new # rec.old,
         owed' = owed
  PROVE  Holds' /\ Owing'
<1>1. \A u \in Threads : thread'[u] = IF u = t THEN rec ELSE thread[u]
  BY DEF Become, Core, TypeOK
<1>2. Holds'
  BY <1>1 DEF Holds
<1>3. \A o \in Observers : Due(o)' = Due(o)
  BY <1>1 DEF Due
<1> QED  BY <1>2, <1>3 DEF Owing

\* A computation by a thread without calls due: if it changes the ECT, the
\* thread takes on a call to every observer.
LEMMA ComputeOwes ==
  ASSUME Core, Holds, Owing,
         NEW t \in Threads, thread[t].todo = {},
         NEW new \in Ects \cup {UNKNOWN}, NEW after \in {"idle", "load"},
         NEW rec, rec = Announce(last_ect, new, after),
         Compute(new), Become(t, rec)
  PROVE  Holds' /\ Owing' /\ owed' \in [Observers -> Int]
<1>1. \A u \in Threads : thread'[u] = IF u = t THEN rec ELSE thread[u]
  BY DEF Become, Core, TypeOK
<1>2. /\ rec.todo = IF new = last_ect THEN {} ELSE observers
      /\ rec.todo # {} => rec.pc \in {"notify", "load"} /\ rec.new # rec.old
  <2>1. last_ect \in Ects \cup {UNKNOWN} /\ observers \subseteq Observers
    BY DEF Core, TypeOK
  <2> QED  BY <2>1, AnnounceType
<1>3. Holds'
  BY <1>1, <1>2 DEF Holds
<1>4. owed' \in [Observers -> Int]
  BY DEF Compute, Core, TypeOK
<1>5. ASSUME NEW o \in Observers
      PROVE  owed'[o] = Cardinality(Due(o)')
  <2>1. CASE new = last_ect \/ o \notin observers
    <3>1. Due(o)' = Due(o)
      BY <1>1, <1>2, <2>1 DEF Due
    <3>2. owed'[o] = owed[o]
      BY <2>1 DEF Compute, Core, TypeOK
    <3> QED  BY <3>1, <3>2 DEF Owing
  <2>2. CASE new # last_ect /\ o \in observers
    <3>1. Due(o)' = Due(o) \cup {t}
      BY <1>1, <1>2, <2>2 DEF Due
    <3>2. t \notin Due(o)
      BY DEF Due
    <3>3. owed'[o] = owed[o] + 1
      BY <2>2 DEF Compute, Core, TypeOK
    <3>4. Cardinality(Due(o) \cup {t}) = Cardinality(Due(o)) + 1
      BY <3>2, DueFinite, FS_AddElement
    <3> QED  BY <3>1, <3>3, <3>4 DEF Owing
  <2> QED  BY <2>1, <2>2
<1> QED  BY <1>3, <1>4, <1>5 DEF Owing

-----------------------------------------------------------------------------
\* The thread function keeps its type when a thread moves to a typed record.
LEMMA BecomeType ==
  ASSUME thread \in [Threads -> ThreadState], NEW t \in Threads,
         NEW rec \in ThreadState, Become(t, rec)
  PROVE  thread' \in [Threads -> ThreadState]
BY DEF Become

\* Calls by the application preserve the invariant.
LEMMA CallIInv ==
  ASSUME IInv, NEW t \in Callers, Call(t)
  PROVE  IInv'
<1> USE DEF IInv
<1>0. t \in Threads
  BY DEF Threads
<1>1. CASE AddSample(t)
  <2> DEFINE rec == [thread[t] EXCEPT !.pc = "compute"]
  <2>1. /\ rec \in ThreadState /\ rec.todo = thread[t].todo /\ thread[t].todo = {}
        /\ Become(t, rec)
    BY <1>0, <1>1 DEF AddSample, Goto, At, MayBegin, Core, TypeOK, ThreadState, PCs, Holds
  <2> HIDE DEF rec
  <2>2. thread' \in [Threads -> ThreadState]
    BY <1>0, <2>1, BecomeType DEF Core, TypeOK
  <2>3. TypeOK'
    BY <1>1, <2>2 DEF AddSample, Core, TypeOK, tracking, history
  <2>4. NoCounterWrap' /\ EctNeedsSamples'
    BY <1>1 DEF AddSample, Core, TypeOK, NoCounterWrap, EctNeedsSamples, RttObservations,
                tracking
  <2>5. Holds' /\ Owing'
    BY <1>0, <1>1, <2>1, SameTodo DEF AddSample, history
  <2> QED  BY <2>3, <2>4, <2>5 DEF Core
<1>2. CASE AddThroughputSample(t)
  <2> DEFINE rec == [Idle EXCEPT !.pc = "transfer", !.analyzer = analyzer]
  <2>1. /\ rec \in ThreadState /\ rec.todo = {} /\ thread[t].todo = {}
        /\ Become(t, rec)
    BY <1>0, <1>2, IdleType
    DEF AddThroughputSample, At, MayBegin, Core, TypeOK, ThreadState, PCs, Holds
  <2> HIDE DEF rec
  <2>2. thread' \in [Threads -> ThreadState]
    BY <1>0, <2>1, BecomeType DEF Core, TypeOK
  <2>3. Core'
    BY <1>2, <2>2 DEF AddThroughputSample, Core, TypeOK, NoCounterWrap, EctNeedsSamples,
                      RttObservations, samples, tracking, history
  <2>4. Holds' /\ Owing'
    BY <1>0, <1>2, <2>1, SameTodo DEF AddThroughputSample, history
  <2> QED  BY <2>3, <2>4
<1>3. CASE AddTransfer(t)
  <2> DEFINE rec == [Idle EXCEPT !.pc = "compute"]
  <2>1. /\ rec \in ThreadState /\ rec.todo = {} /\ thread[t].todo = {}
        /\ Become(t, rec)
    BY <1>0, <1>3, IdleType DEF AddTransfer, At, Core, TypeOK, ThreadState, PCs, Holds
  <2> HIDE DEF rec
  <2>2. thread' \in [Threads -> ThreadState]
    BY <1>0, <2>1, BecomeType DEF Core, TypeOK
  <2>3. transfers' \in Nat /\ transfers' >= transfers
        /\ origins' \subseteq Networks \cup {None}
    BY <1>3 DEF AddTransfer, Core, TypeOK
  <2>4. TypeOK'
    BY <1>3, <2>2, <2>3 DEF AddTransfer, Core, TypeOK, tracking, history
  <2>5. NoCounterWrap' /\ EctNeedsSamples'
    BY <1>3, <2>3 DEF AddTransfer, Core, TypeOK, NoCounterWrap, EctNeedsSamples,
                      RttObservations, tracking
  <2>6. Holds' /\ Owing'
    BY <1>0, <1>3, <2>1, SameTodo DEF AddTransfer, history
  <2> QED  BY <2>4, <2>5, <2>6 DEF Core
<1> QED  BY <1>1, <1>2, <1>3 DEF Call

\* The sum of two counts is a count.
LEMMA NatSum == \A m, n \in Nat : m + n \in Nat
OBVIOUS

LEMMA SumReflexive == \A n \in Nat : n <= n
OBVIOUS

\* A computation by a thread without calls due preserves the invariant.
LEMMA ComputeIInv ==
  ASSUME IInv, NEW t \in Threads, thread[t].todo = {},
         NEW after \in {"idle", "load"}, NEW new \in PossibleEcts',
         NEW rec, rec = Announce(last_ect, new, after),
         Compute(new), Become(t, rec),
         rated' \in Nat, others' \in Nat, transfers' \in Nat, analyzer' \in Nat,
         origins' \subseteq Networks \cup {None},
         UNCHANGED <<observers, detecting, cache, live, reported, seen>>
  PROVE  IInv'
<1> USE DEF IInv
<1>1. /\ new \in Ects \cup {UNKNOWN}
      /\ new # UNKNOWN => rated' + transfers' > 0
  BY DEF PossibleEcts
<1>2. Holds' /\ Owing' /\ owed' \in [Observers -> Int]
  BY <1>1, ComputeOwes
<1>3. rec \in ThreadState
  BY <1>1, AnnounceType DEF Core, TypeOK
<1>4. thread' \in [Threads -> ThreadState]
  BY <1>3, BecomeType DEF Core, TypeOK
<1>5. TypeOK'
  <2>1. rtt_at_last' \in Nat /\ tp_at_last' \in Nat
    <3>1. rtt_at_last' = rated' + others' /\ tp_at_last' = transfers'
      BY Zenon DEF Compute
    <3> QED  BY <3>1, NatSum, Zenon
  <2>3. /\ changed' \in BOOLEAN /\ computed' \in BOOLEAN
        /\ last_ect' \in Ects \cup {UNKNOWN}
    BY <1>1, Zenon DEF Compute
  <2>2. /\ observers' \subseteq Observers /\ detecting' \in BOOLEAN
        /\ cache' \in [Networks -> SUBSET (Networks \cup {None})]
        /\ live' \in Networks \cup {None} /\ reported' \in Networks \cup {None}
        /\ seen' \in [Observers -> Ects \cup {UNKNOWN, None}]
    BY DEF Core, TypeOK
  <2> QED  BY <1>2, <1>4, <2>1, <2>2, <2>3 DEF TypeOK
<1>6. NoCounterWrap' /\ EctNeedsSamples'
  <2>1. rtt_at_last' = rated' + others' /\ tp_at_last' = transfers' /\ last_ect' = new
    BY Zenon DEF Compute
  <2>2. EctNeedsSamples'
    BY <1>1, <2>1, Zenon DEF EctNeedsSamples
  <2>3. rated' + others' <= rated' + others' /\ transfers' <= transfers'
    <3> HIDE DEF IInv
    <3> QED  BY NatSum, SumReflexive
  <2>4. RttObservations' = rated' + others'
    BY Zenon DEF RttObservations
  <2>5. NoCounterWrap'
    BY <2>1, <2>3, <2>4, Zenon DEF NoCounterWrap
  <2> QED  BY <2>2, <2>5
<1> QED  BY <1>2, <1>5, <1>6 DEF Core

\* Every step of a thread that callers and the notifier share preserves the
\* invariant.
LEMMA StepIInv ==
  ASSUME IInv, NEW t \in Threads, Step(t)
  PROVE  IInv'
<1> USE DEF IInv
<1>0. thread[t] \in ThreadState
  BY DEF Core, TypeOK
<1>1. CASE MaybeCompute(t)
  <2>0. thread[t].todo = {}
    BY <1>1 DEF MaybeCompute, At, Holds
  <2>1. CASE \E new \in PossibleEcts :
               Compute(new) /\ Become(t, Announce(last_ect, new, "idle"))
    <3>1. PICK new \in PossibleEcts :
                 Compute(new) /\ Become(t, Announce(last_ect, new, "idle"))
      BY <2>1
    <3>2. new \in PossibleEcts'
      BY <1>1 DEF MaybeCompute, PossibleEcts, samples
    <3> DEFINE rec == Announce(last_ect, new, "idle")
    <3>3. rec = Announce(last_ect, new, "idle")
      OBVIOUS
    <3> HIDE DEF rec
    <3>4. /\ rated' \in Nat /\ others' \in Nat /\ transfers' \in Nat /\ analyzer' \in Nat
          /\ origins' \subseteq Networks \cup {None}
          /\ UNCHANGED <<observers, detecting, cache, live, reported, seen>>
      BY <1>1 DEF MaybeCompute, samples, Core, TypeOK
    <3> QED  BY <2>0, <3>1, <3>2, <3>3, <3>4, ComputeIInv
  <2>2. CASE Become(t, Idle) /\ UNCHANGED <<tracking, owed>>
    <3>1. thread' \in [Threads -> ThreadState]
      BY <2>2, IdleType, BecomeType DEF Core, TypeOK
    <3>2. Core'
      BY <1>1, <2>2, <3>1 DEF MaybeCompute, samples, tracking, Core, TypeOK, NoCounterWrap,
                              EctNeedsSamples, RttObservations
    <3>3. Holds' /\ Owing'
      BY <2>0, <2>2, IdleType, SameTodo
    <3> QED  BY <3>2, <3>3
  <2> QED  BY <1>1, <2>1, <2>2 DEF MaybeCompute
<1>2. CASE NotifyOne(t)
  <2>1. PICK o \in thread[t].todo :
          /\ seen' = [seen EXCEPT ![o] = thread[t].new]
          /\ owed' = [owed EXCEPT ![o] = @ - 1]
          /\ Become(t, [thread[t] EXCEPT !.todo = @ \ {o}, !.called = TRUE])
    BY <1>2 DEF NotifyOne
  <2> DEFINE rec == [thread[t] EXCEPT !.todo = @ \ {o}, !.called = TRUE]
  <2>2. /\ rec \in ThreadState /\ rec.todo = thread[t].todo \ {o}
        /\ rec.pc = thread[t].pc /\ rec.new = thread[t].new /\ rec.old = thread[t].old
        /\ Become(t, rec)
    BY <1>0, <2>1 DEF ThreadState
  <2> HIDE DEF rec
  <2>3. o \in Observers
    BY <1>0, <2>1 DEF ThreadState
  <2>4. thread[t].new \in Ects \cup {UNKNOWN}
    BY <1>0 DEF ThreadState
  <2>5. /\ thread' \in [Threads -> ThreadState]
        /\ seen' \in [Observers -> Ects \cup {UNKNOWN, None}]
        /\ owed' \in [Observers -> Int]
    BY <2>1, <2>2, <2>3, <2>4, BecomeType DEF Core, TypeOK
  <2>6. Core'
    BY <1>2, <2>5 DEF NotifyOne, samples, tracking, Core, TypeOK, NoCounterWrap,
                      EctNeedsSamples, RttObservations
  <2>7. \A u \in Threads : thread'[u] = IF u = t THEN rec ELSE thread[u]
    BY <2>2 DEF Become, Core, TypeOK
  <2>8. Holds'
    BY <2>2, <2>7 DEF Holds
  <2>9. ASSUME NEW p \in Observers
        PROVE  owed'[p] = Cardinality(Due(p)')
    <3>1. CASE p = o
      <4>1. Due(p)' = Due(p) \ {t} /\ t \in Due(p)
        BY <2>1, <2>2, <2>7, <3>1 DEF Due
      <4>2. Cardinality(Due(p) \ {t}) = Cardinality(Due(p)) - 1
        BY <4>1, DueFinite, FS_RemoveElement
      <4>3. owed'[p] = owed[p] - 1
        BY <2>1, <2>3, <3>1 DEF Core, TypeOK
      <4> QED  BY <4>1, <4>2, <4>3 DEF Owing
    <3>2. CASE p # o
      <4>1. Due(p)' = Due(p)
        BY <2>2, <2>7, <3>2 DEF Due
      <4>2. owed'[p] = owed[p]
        BY <2>1, <3>2 DEF Core, TypeOK
      <4> QED  BY <4>1, <4>2 DEF Owing
    <3> QED  BY <3>1, <3>2
  <2> QED  BY <2>6, <2>8, <2>9 DEF Owing
<1>3. CASE UpdateReadNetwork(t)
  <2>1. PICK rec : /\ rec = IF ~EnableCaching \/ CurrentNetworkID = None THEN Idle
                            ELSE [Idle EXCEPT !.pc = "put", !.net = CurrentNetworkID]
                   /\ Become(t, rec)
    BY <1>3 DEF UpdateReadNetwork
  <2>2. CurrentNetworkID \in Networks \cup {None}
    BY DEF CurrentNetworkID, Core, TypeOK
  <2>3. rec \in ThreadState /\ rec.todo = {}
    BY <2>1, <2>2, IdleType DEF ThreadState, PCs
  <2>4. thread[t].todo = {}
    BY <1>3 DEF UpdateReadNetwork, At, MayBegin, Holds
  <2>5. thread' \in [Threads -> ThreadState]
    BY <2>1, <2>3, BecomeType DEF Core, TypeOK
  <2>6. Core'
    BY <1>3, <2>5 DEF UpdateReadNetwork, samples, tracking, history, Core, TypeOK,
                      NoCounterWrap, EctNeedsSamples, RttObservations
  <2>7. Holds' /\ Owing'
    BY <1>3, <2>1, <2>3, <2>4, SameTodo DEF UpdateReadNetwork, history
  <2> QED  BY <2>6, <2>7
<1>4. CASE UpdatePut(t)
  <2>1. thread[t].todo = {} /\ Become(t, Idle)
    BY <1>4 DEF UpdatePut, At, Holds
  <2>2. thread' \in [Threads -> ThreadState]
    BY <2>1, IdleType, BecomeType DEF Core, TypeOK
  <2>3. cache' \in [Networks -> SUBSET (Networks \cup {None})]
    <3>1. PICK from \in IF rated > 0 THEN {origins, {}} ELSE {{}} :
                 cache' = [cache EXCEPT ![thread[t].net] = from]
      BY <1>4 DEF UpdatePut
    <3>2. from \in SUBSET (Networks \cup {None})
      BY DEF Core, TypeOK
    <3> QED  BY <3>1, <3>2 DEF Core, TypeOK
  <2>4. Core'
    BY <1>4, <2>2, <2>3 DEF UpdatePut, samples, tracking, history, Core, TypeOK,
                            NoCounterWrap, EctNeedsSamples, RttObservations
  <2>5. Holds' /\ Owing'
    BY <1>4, <2>1, IdleType, SameTodo DEF UpdatePut, history
  <2> QED  BY <2>4, <2>5
<1>5. CASE LoadRead(t)
  <2>1. CurrentNetworkID \in Networks \cup {None}
    BY DEF CurrentNetworkID, Core, TypeOK
  <2>2. thread[t].todo = {} \/ thread[t].new # thread[t].old
    BY DEF Holds
  <2>3. PICK rec : /\ Become(t, rec)
                   /\ \/ /\ CurrentNetworkID # None
                         /\ rec = [thread[t] EXCEPT !.pc = "loadadd", !.net = CurrentNetworkID,
                                                    !.from = cache[CurrentNetworkID]]
                      \/ rec = AfterLoad(thread[t])
    BY <1>5 DEF LoadRead
  <2>4. /\ rec \in ThreadState /\ rec.todo = thread[t].todo
        /\ rec.todo # {} => /\ rec.pc \in {"notify", "load", "loadadd"}
                            /\ rec.new # rec.old
    <3>1. CASE rec = AfterLoad(thread[t])
      BY <1>0, <2>2, <3>1, AfterLoadType
    <3>2. CASE /\ CurrentNetworkID # None
               /\ rec = [thread[t] EXCEPT !.pc = "loadadd", !.net = CurrentNetworkID,
                                          !.from = cache[CurrentNetworkID]]
      <4>1. cache[CurrentNetworkID] \in SUBSET (Networks \cup {None})
        BY <2>1, <3>2 DEF Core, TypeOK
      <4> QED  BY <1>0, <2>1, <2>2, <3>2, <4>1 DEF ThreadState, PCs
    <3> QED  BY <2>3, <3>1, <3>2
  <2>5. thread' \in [Threads -> ThreadState]
    BY <2>3, <2>4, BecomeType DEF Core, TypeOK
  <2>6. Core'
    BY <1>5, <2>5 DEF LoadRead, samples, tracking, history, Core, TypeOK,
                      NoCounterWrap, EctNeedsSamples, RttObservations
  <2>7. Holds' /\ Owing'
    BY <1>5, <2>3, <2>4, SameTodo DEF LoadRead, history
  <2> QED  BY <2>6, <2>7
<1>6. CASE LoadAdd(t)
  <2>1. thread[t].todo = {} \/ thread[t].new # thread[t].old
    BY DEF Holds
  <2>2. PICK rec : rec = AfterLoad(thread[t]) /\ Become(t, rec)
    BY <1>6 DEF LoadAdd
  <2>3. /\ rec \in ThreadState /\ rec.todo = thread[t].todo
        /\ rec.todo # {} => /\ rec.pc \in {"notify", "load", "loadadd"}
                            /\ rec.new # rec.old
    BY <1>0, <2>1, <2>2, AfterLoadType
  <2>4. thread' \in [Threads -> ThreadState]
    BY <2>2, <2>3, BecomeType DEF Core, TypeOK
  <2>5. /\ rated' \in Nat /\ rated' >= rated
        /\ origins' \subseteq Networks \cup {None}
    BY <1>0, <1>6 DEF LoadAdd, ThreadState, Core, TypeOK
  <2>6. TypeOK'
    BY <1>6, <2>4, <2>5 DEF LoadAdd, tracking, history, Core, TypeOK
  <2>7. NoCounterWrap' /\ EctNeedsSamples'
    BY <1>6, <2>5 DEF LoadAdd, tracking, Core, TypeOK, NoCounterWrap, EctNeedsSamples,
                      RttObservations
  <2>8. Holds' /\ Owing'
    BY <1>6, <2>2, <2>3, SameTodo DEF LoadAdd, history
  <2> QED  BY <2>6, <2>7, <2>8 DEF Core
<1> QED  BY <1>1, <1>2, <1>3, <1>4, <1>5, <1>6 DEF Step

\* The notifier's report and onNetworkChange preserve the invariant.
LEMMA ChangeIInv ==
  ASSUME IInv, ReportChange \/ OnNetworkChange
  PROVE  IInv'
<1> USE DEF IInv
<1>0. Notifier \in Threads /\ thread[Notifier] \in ThreadState
  BY DEF Threads, Core, TypeOK
<1>1. CASE ReportChange
  <2> DEFINE rec == [thread[Notifier] EXCEPT !.pc = "change"]
  <2>1. /\ rec \in ThreadState /\ rec.todo = thread[Notifier].todo
        /\ thread[Notifier].todo = {} /\ Become(Notifier, rec)
    BY <1>0, <1>1 DEF ReportChange, Goto, At, ThreadState, PCs, Holds
  <2> HIDE DEF rec
  <2>2. thread' \in [Threads -> ThreadState]
    BY <1>0, <2>1, BecomeType DEF Core, TypeOK
  <2>3. Core'
    BY <1>1, <2>2 DEF ReportChange, samples, tracking, history, Core, TypeOK,
                      NoCounterWrap, EctNeedsSamples, RttObservations
  <2>4. Holds' /\ Owing'
    BY <1>0, <1>1, <2>1, SameTodo DEF ReportChange, history
  <2> QED  BY <2>3, <2>4
<1>2. CASE OnNetworkChange
  <2>0. thread[Notifier].todo = {}
    BY <1>0, <1>2 DEF OnNetworkChange, At, Holds
  <2>1. PICK after \in {"idle", "load"} : after = IF EnableCaching THEN "load" ELSE "idle"
    OBVIOUS
  <2>2. \/ \E new \in PossibleEcts' :
              Compute(new) /\ Become(Notifier, Announce(last_ect, new, after))
        \/ /\ ~ShouldCompute(TRUE, TRUE, rated' + others', transfers')
        \/ /\ ~ShouldCompute(FALSE, TRUE, rated' + others', transfers')
    BY <1>2, <2>1 DEF OnNetworkChange
  <2>3. PICK new \in PossibleEcts' :
               Compute(new) /\ Become(Notifier, Announce(last_ect, new, after))
    BY <2>2 DEF ShouldCompute
  <2>4. PICK rec : rec = Announce(last_ect, new, after)
    OBVIOUS
  <2>5. /\ rated' \in Nat /\ others' \in Nat /\ transfers' \in Nat /\ analyzer' \in Nat
        /\ origins' \subseteq Networks \cup {None}
        /\ UNCHANGED <<observers, detecting, cache, live, reported, seen>>
    BY <1>2 DEF OnNetworkChange, ClearAllSamples, samples, Core, TypeOK
  <2> QED  BY <1>0, <2>0, <2>3, <2>4, <2>5, ComputeIInv
<1> QED  BY <1>1, <1>2

\* Steps that move no thread preserve the invariant.
LEMMA OtherIInv ==
  ASSUME IInv,
         \/ \E o \in Observers : AddObserver(o) \/ RemoveObserver(o)
         \/ EnableDetection \/ DisableDetection \/ Roam
         \/ UNCHANGED vars
  PROVE  IInv'
<1> USE DEF IInv
<1>1. UNCHANGED <<samples, tracking, thread, owed>>
  BY DEF AddObserver, RemoveObserver, EnableDetection, DisableDetection, Roam, vars, history
<1>2. Holds' /\ Owing'
  BY <1>1 DEF Holds, Owing, Due
<1>3. NoCounterWrap' /\ EctNeedsSamples'
  BY <1>1 DEF Core, NoCounterWrap, EctNeedsSamples, RttObservations, samples, tracking
<1>4. TypeOK'
  <2>1. CASE \E o \in Observers : AddObserver(o)
    BY <2>1 DEF AddObserver, Core, TypeOK, samples, tracking, history
  <2>2. CASE \E o \in Observers : RemoveObserver(o)
    BY <2>2 DEF RemoveObserver, Core, TypeOK, samples, tracking, history
  <2>3. CASE EnableDetection
    BY <2>3 DEF EnableDetection, Core, TypeOK, samples, tracking, history
  <2>4. CASE DisableDetection
    BY <2>4 DEF DisableDetection, Core, TypeOK, samples, tracking, history
  <2>5. CASE Roam
    BY <2>5 DEF Roam, Core, TypeOK, samples, tracking, history
  <2>6. CASE UNCHANGED vars
    BY <2>6 DEF vars, Core, TypeOK, samples, tracking, history
  <2> QED  BY <2>1, <2>2, <2>3, <2>4, <2>5, <2>6
<1> QED  BY <1>2, <1>3, <1>4 DEF Core

-----------------------------------------------------------------------------
\* The invariant holds in every reachable state.
THEOREM Invariance == Spec => []IInv
<1>1. IInv /\ [Next]_vars => IInv'
  <2> SUFFICES ASSUME IInv, [Next]_vars PROVE IInv'
    OBVIOUS
  <2>1. CASE \E t \in Callers : Call(t)
    BY <2>1, CallIInv
  <2>2. CASE \E t \in Threads : Step(t)
    BY <2>2, StepIInv
  <2>3. CASE ReportChange \/ OnNetworkChange
    BY <2>3, ChangeIInv
  <2>4. CASE \/ \E o \in Observers : AddObserver(o) \/ RemoveObserver(o)
             \/ EnableDetection \/ DisableDetection \/ Roam
             \/ UNCHANGED vars
    BY <2>4, OtherIInv
  <2> QED  BY <2>1, <2>2, <2>3, <2>4 DEF Next
<1> QED  BY InitIInv, <1>1, PTL DEF Spec

\* Every variable of Nqe keeps its type.
THEOREM TypeCorrect == Spec => []TypeOK
<1>1. IInv => TypeOK
  BY DEF IInv, Core
<1> QED  BY Invariance, <1>1, PTL

\* The unsigned differences of shouldComputeEffectiveConnectionType
\* (Nqe.cpp:945-947) never wrap, however many threads add samples and
\* whenever a network change clears them.
THEOREM CountersCorrect == Spec => []NoCounterWrap
<1>1. IInv => NoCounterWrap
  BY DEF IInv, Core
<1> QED  BY Invariance, <1>1, PTL

\* Whenever Nqe holds an ECT it has samples that rate the connection: none
\* survives the clear of a network change.
THEOREM EctCorrect == Spec => []EctNeedsSamples
<1>1. IInv => EctNeedsSamples
  BY DEF IInv, Core
<1> QED  BY Invariance, <1>1, PTL

\* Every change of the ECT reaches every observer registered when it happened
\* exactly once, however many threads and observers there are and whatever
\* observers call: a call that is due is in the hands of exactly one of those
\* in progress for each change.
THEOREM AnnouncementCorrect == Spec => []EveryChangeAnnounced
<1>1. IInv => EveryChangeAnnounced
  BY DEF IInv, Owing, Due, EveryChangeAnnounced
<1> QED  BY Invariance, <1>1, PTL

-----------------------------------------------------------------------------
(***************************************************************************)
(* The refinement: a step of Nqe is a change, a call, a registration or    *)
(* nothing to the observers.                                               *)
(***************************************************************************)
LEMMA CallsDueMember ==
  \A c : c \in CallsDue <=>
    \E t \in Threads : \E o \in thread[t].todo :
      c = [by |-> t, to |-> o, old |-> thread[t].old, new |-> thread[t].new]
BY DEF CallsDue

LEMMA CallsDueMemberNext ==
  \A c : c \in CallsDue' <=>
    \E t \in Threads : \E o \in thread'[t].todo :
      c = [by |-> t, to |-> o, old |-> thread'[t].old, new |-> thread'[t].new]
BY DEF CallsDue

\* A thread without calls due has none in CallsDue.
LEMMA NoneBy ==
  ASSUME NEW t \in Threads, thread[t].todo = {}
  PROVE  \A c \in CallsDue : c.by # t
<1> SUFFICES ASSUME NEW c \in CallsDue, c.by = t PROVE FALSE
  OBVIOUS
<1>1. PICK u, o :
        /\ u \in Threads /\ o \in thread[u].todo
        /\ c = [by |-> u, to |-> o, old |-> thread[u].old, new |-> thread[u].new]
  BY CallsDueMember
<1>2. u = t
  BY <1>1
<1> QED  BY <1>1, <1>2

\* A step in which one thread keeps the calls it owes.
LEMMA SameCalls ==
  ASSUME thread \in [Threads -> ThreadState],
         NEW t \in Threads, NEW rec, Become(t, rec),
         rec.todo = thread[t].todo,
         rec.todo # {} => rec.old = thread[t].old /\ rec.new = thread[t].new
  PROVE  CallsDue' = CallsDue
<1>1. \A u \in Threads : thread'[u] = IF u = t THEN rec ELSE thread[u]
  BY DEF Become
<1>2. \A u \in Threads : /\ thread'[u].todo = thread[u].todo
                         /\ thread[u].todo # {} => /\ thread'[u].old = thread[u].old
                                                   /\ thread'[u].new = thread[u].new
  BY <1>1
<1>3. ASSUME NEW c \in CallsDue
      PROVE  c \in CallsDue'
  <2>1. PICK u, o :
          /\ u \in Threads /\ o \in thread[u].todo
          /\ c = [by |-> u, to |-> o, old |-> thread[u].old, new |-> thread[u].new]
    BY CallsDueMember
  <2>2. /\ o \in thread'[u].todo
        /\ c = [by |-> u, to |-> o, old |-> thread'[u].old, new |-> thread'[u].new]
    BY <1>2, <2>1
  <2> QED  BY <2>1, <2>2, CallsDueMemberNext
<1>4. ASSUME NEW c \in CallsDue'
      PROVE  c \in CallsDue
  <2>1. PICK u, o :
          /\ u \in Threads /\ o \in thread'[u].todo
          /\ c = [by |-> u, to |-> o, old |-> thread'[u].old, new |-> thread'[u].new]
    BY CallsDueMemberNext
  <2>2. /\ o \in thread[u].todo
        /\ c = [by |-> u, to |-> o, old |-> thread[u].old, new |-> thread[u].new]
    BY <1>2, <2>1
  <2> QED  BY <2>1, <2>2, CallsDueMember
<1> QED  BY <1>3, <1>4

AStep == [Announcements!Next]_(Announcements!vars)

LEMMA AStutter ==
  ASSUME last_ect' = last_ect, observers' = observers, CallsDue' = CallsDue
  PROVE  AStep
BY DEF AStep, Announcements!vars

\* The computation that changes the ECT is a change, any other nothing.
LEMMA ComputeIsChange ==
  ASSUME IInv, NEW t \in Threads, thread[t].todo = {},
         NEW new \in Ects \cup {UNKNOWN}, NEW after \in {"idle", "load"},
         NEW rec, rec = Announce(last_ect, new, after),
         Compute(new), Become(t, rec), observers' = observers
  PROVE  AStep
<1>0. thread \in [Threads -> ThreadState]
  BY DEF IInv, Core, TypeOK
<1>1. \A u \in Threads : thread'[u] = IF u = t THEN rec ELSE thread[u]
  BY <1>0 DEF Become
<1>2. last_ect' = new
  BY Zenon DEF Compute
<1>3. CASE new = last_ect
  <2>1. rec.todo = {}
    BY <1>3, IdleType DEF Announce, Idle
  <2>2. CallsDue' = CallsDue
    BY <1>0, <2>1, SameCalls
  <2> QED  BY <1>2, <1>3, <2>2, AStutter
<1>4. CASE new # last_ect
  <2> DEFINE added == {[by |-> t, to |-> o, old |-> last_ect, new |-> new] : o \in observers}
  <2>1. rec.todo = observers /\ rec.old = last_ect /\ rec.new = new
    BY <1>4 DEF Announce, Idle
  <2>2. ASSUME NEW c \in CallsDue
        PROVE  c \in CallsDue'
    <3>1. PICK u, o :
            /\ u \in Threads /\ o \in thread[u].todo
            /\ c = [by |-> u, to |-> o, old |-> thread[u].old, new |-> thread[u].new]
      BY CallsDueMember
    <3>2. u # t
      BY <3>1
    <3>3. thread'[u] = thread[u]
      BY <1>1, <3>1, <3>2
    <3> QED  BY <3>1, <3>3, CallsDueMemberNext
  <2>3. ASSUME NEW o \in observers
        PROVE  [by |-> t, to |-> o, old |-> last_ect, new |-> new] \in CallsDue'
    <3>1. o \in thread'[t].todo /\ thread'[t].old = last_ect /\ thread'[t].new = new
      BY <1>1, <2>1
    <3> QED  BY <3>1, CallsDueMemberNext
  <2>4. ASSUME NEW c \in CallsDue'
        PROVE  c \in CallsDue \/ c \in added
    <3>1. PICK u, o :
            /\ u \in Threads /\ o \in thread'[u].todo
            /\ c = [by |-> u, to |-> o, old |-> thread'[u].old, new |-> thread'[u].new]
      BY CallsDueMemberNext
    <3>2. CASE u = t
      BY <1>1, <2>1, <3>1, <3>2
    <3>3. CASE u # t
      <4>1. thread'[u] = thread[u]
        BY <1>1, <3>1, <3>3
      <4> QED  BY <3>1, <4>1, CallsDueMember
    <3> QED  BY <3>2, <3>3
  <2>5. CallsDue' = CallsDue \cup added
    BY <2>2, <2>3, <2>4
  <2>6. \A c \in CallsDue : c.by # t
    BY NoneBy
  <2>7. Announcements!Change(t, new)
    BY <1>2, <1>4, <2>5, <2>6 DEF Announcements!Change
  <2> QED  BY <2>7 DEF AStep, Announcements!Next
<1> QED  BY <1>3, <1>4

\* A call that is made is a call that is due.
LEMMA NotifyIsTell ==
  ASSUME IInv, NEW t \in Threads, NotifyOne(t)
  PROVE  AStep
<1>0. thread \in [Threads -> ThreadState]
  BY DEF IInv, Core, TypeOK
<1>1. PICK o \in thread[t].todo : Become(t, [thread[t] EXCEPT !.todo = @ \ {o}, !.called = TRUE])
  BY DEF NotifyOne
<1> DEFINE call == [by |-> t, to |-> o, old |-> thread[t].old, new |-> thread[t].new]
<1>2. /\ thread'[t].todo = thread[t].todo \ {o}
      /\ thread'[t].old = thread[t].old /\ thread'[t].new = thread[t].new
      /\ \A u \in Threads \ {t} : thread'[u] = thread[u]
  BY <1>0, <1>1 DEF Become, ThreadState
<1>3. call \in CallsDue
  BY CallsDueMember
<1>4. ASSUME NEW c \in CallsDue, c # call
      PROVE  c \in CallsDue'
  <2>1. PICK u, p :
          /\ u \in Threads /\ p \in thread[u].todo
          /\ c = [by |-> u, to |-> p, old |-> thread[u].old, new |-> thread[u].new]
    BY CallsDueMember
  <2>2. /\ p \in thread'[u].todo
        /\ thread'[u].old = thread[u].old /\ thread'[u].new = thread[u].new
    BY <1>2, <1>4, <2>1
  <2> QED  BY <2>1, <2>2, CallsDueMemberNext
<1>5. ASSUME NEW c \in CallsDue'
      PROVE  c \in CallsDue /\ c # call
  <2>1. PICK u, p :
          /\ u \in Threads /\ p \in thread'[u].todo
          /\ c = [by |-> u, to |-> p, old |-> thread'[u].old, new |-> thread'[u].new]
    BY CallsDueMemberNext
  <2>2. p \in thread[u].todo /\ thread'[u].old = thread[u].old /\ thread'[u].new = thread[u].new
    BY <1>2, <2>1
  <2>3. ~(u = t /\ p = o)
    BY <1>2, <2>1
  <2>4. c \in CallsDue
    BY <2>1, <2>2, CallsDueMember
  <2>5. c # call
    <3>1. c.by = u /\ c.to = p /\ call.by = t /\ call.to = o
      BY <2>1
    <3> QED  BY <3>1, <2>3
  <2> QED  BY <2>4, <2>5
<1>6. CallsDue' = CallsDue \ {call}
  BY <1>4, <1>5
<1>7. last_ect' = last_ect /\ observers' = observers
  BY DEF NotifyOne, tracking
<1>8. Announcements!Tell(call)
  BY <1>6, <1>7 DEF Announcements!Tell
<1> QED  BY <1>3, <1>8 DEF AStep, Announcements!Next

\* A thread that goes on without touching the ECT keeps the calls it owes.
LEMMA BecomeKeeps ==
  ASSUME IInv, NEW t \in Threads, NEW rec, Become(t, rec),
         rec.todo = thread[t].todo,
         rec.todo # {} => rec.old = thread[t].old /\ rec.new = thread[t].new,
         last_ect' = last_ect, observers' = observers
  PROVE  AStep
BY SameCalls, AStutter DEF IInv, Core, TypeOK

LEMMA CallMaps ==
  ASSUME IInv, NEW t \in Callers, Call(t)
  PROVE  AStep
<1>0. t \in Threads /\ thread[t] \in ThreadState
  BY DEF Threads, IInv, Core, TypeOK
<1>1. thread[t].todo = {}
  BY <1>0 DEF Call, AddSample, AddThroughputSample, AddTransfer, At, MayBegin, IInv, Holds
<1>2. last_ect' = last_ect /\ observers' = observers
  BY DEF Call, AddSample, AddThroughputSample, AddTransfer, tracking
<1>3. PICK rec : Become(t, rec) /\ rec.todo = {}
  <2>1. CASE AddSample(t)
    <3>1. Become(t, [thread[t] EXCEPT !.pc = "compute"])
      BY <2>1 DEF AddSample, Goto
    <3>2. [thread[t] EXCEPT !.pc = "compute"].todo = {}
      BY <1>0, <1>1 DEF ThreadState
    <3> QED  BY <3>1, <3>2
  <2>2. CASE AddThroughputSample(t)
    <3>1. Become(t, [Idle EXCEPT !.pc = "transfer", !.analyzer = analyzer])
      BY <2>2 DEF AddThroughputSample
    <3>2. [Idle EXCEPT !.pc = "transfer", !.analyzer = analyzer].todo = {}
      BY DEF Idle
    <3> QED  BY <3>1, <3>2
  <2>3. CASE AddTransfer(t)
    <3>1. Become(t, [Idle EXCEPT !.pc = "compute"])
      BY <2>3 DEF AddTransfer
    <3>2. [Idle EXCEPT !.pc = "compute"].todo = {}
      BY DEF Idle
    <3> QED  BY <3>1, <3>2
  <2> QED  BY <2>1, <2>2, <2>3 DEF Call
<1> QED  BY <1>0, <1>1, <1>2, <1>3, BecomeKeeps

LEMMA StepMaps ==
  ASSUME IInv, NEW t \in Threads, Step(t)
  PROVE  AStep
<1>0. /\ thread[t] \in ThreadState
      /\ thread[t].todo # {} => thread[t].new # thread[t].old
      /\ last_ect \in Ects \cup {UNKNOWN}
  BY DEF IInv, Core, TypeOK, Holds
<1>1. CASE MaybeCompute(t)
  <2>1. thread[t].todo = {} /\ observers' = observers
    BY <1>1 DEF MaybeCompute, At, IInv, Holds
  <2>2. CASE \E new \in PossibleEcts :
               Compute(new) /\ Become(t, Announce(last_ect, new, "idle"))
    <3>1. PICK new \in PossibleEcts :
                 Compute(new) /\ Become(t, Announce(last_ect, new, "idle"))
      BY <2>2
    <3>2. new \in Ects \cup {UNKNOWN}
      BY EctType
    <3> DEFINE rec == Announce(last_ect, new, "idle")
    <3>3. rec = Announce(last_ect, new, "idle")
      OBVIOUS
    <3> HIDE DEF rec
    <3> QED  BY <2>1, <3>1, <3>2, <3>3, ComputeIsChange
  <2>3. CASE Become(t, Idle) /\ UNCHANGED <<tracking, owed>>
    BY <2>1, <2>3, IdleType, BecomeKeeps DEF tracking
  <2> QED  BY <1>1, <2>2, <2>3 DEF MaybeCompute
<1>2. CASE NotifyOne(t)
  BY <1>2, NotifyIsTell
<1>3. CASE UpdateReadNetwork(t)
  <2>1. thread[t].todo = {} /\ last_ect' = last_ect /\ observers' = observers
    BY <1>3 DEF UpdateReadNetwork, At, MayBegin, IInv, Holds, tracking
  <2>2. PICK rec : /\ rec = IF ~EnableCaching \/ CurrentNetworkID = None THEN Idle
                            ELSE [Idle EXCEPT !.pc = "put", !.net = CurrentNetworkID]
                   /\ Become(t, rec)
    BY <1>3 DEF UpdateReadNetwork
  <2>3. rec.todo = {}
    BY <2>2 DEF Idle
  <2> QED  BY <2>1, <2>2, <2>3, BecomeKeeps
<1>4. CASE UpdatePut(t)
  <2>1. /\ thread[t].todo = {} /\ last_ect' = last_ect /\ observers' = observers
        /\ Become(t, Idle)
    BY <1>4 DEF UpdatePut, At, IInv, Holds, tracking
  <2> QED  BY <2>1, IdleType, BecomeKeeps
<1>5. CASE LoadRead(t)
  <2>1. last_ect' = last_ect /\ observers' = observers
    BY <1>5 DEF LoadRead, tracking
  <2>2. PICK rec : /\ Become(t, rec)
                   /\ \/ rec = [thread[t] EXCEPT !.pc = "loadadd", !.net = CurrentNetworkID,
                                                 !.from = cache[CurrentNetworkID]]
                      \/ rec = AfterLoad(thread[t])
    BY <1>5 DEF LoadRead
  <2>3. CASE rec = AfterLoad(thread[t])
    BY <1>0, <2>1, <2>2, <2>3, AfterLoadType, BecomeKeeps
  <2>4. CASE rec = [thread[t] EXCEPT !.pc = "loadadd", !.net = CurrentNetworkID,
                                     !.from = cache[CurrentNetworkID]]
    <3>1. /\ rec.todo = thread[t].todo /\ rec.old = thread[t].old
          /\ rec.new = thread[t].new
      BY <1>0, <2>4 DEF ThreadState
    <3> QED  BY <2>1, <2>2, <3>1, BecomeKeeps
  <2> QED  BY <2>2, <2>3, <2>4
<1>6. CASE LoadAdd(t)
  <2>1. last_ect' = last_ect /\ observers' = observers
    BY <1>6 DEF LoadAdd, tracking
  <2>2. PICK rec : rec = AfterLoad(thread[t]) /\ Become(t, rec)
    BY <1>6 DEF LoadAdd
  <2> QED  BY <1>0, <2>1, <2>2, AfterLoadType, BecomeKeeps
<1> QED  BY <1>1, <1>2, <1>3, <1>4, <1>5, <1>6 DEF Step

LEMMA ChangeMaps ==
  ASSUME IInv, ReportChange \/ OnNetworkChange
  PROVE  AStep
<1>0. /\ Notifier \in Threads /\ thread[Notifier] \in ThreadState
      /\ thread[Notifier].todo = {} /\ observers' = observers
  BY DEF Threads, IInv, Core, TypeOK, Holds, ReportChange, OnNetworkChange, At
<1>1. CASE ReportChange
  <2>1. Become(Notifier, [thread[Notifier] EXCEPT !.pc = "change"])
    BY <1>1 DEF ReportChange, Goto
  <2>2. [thread[Notifier] EXCEPT !.pc = "change"].todo = {}
    BY <1>0 DEF ThreadState
  <2>3. last_ect' = last_ect
    BY <1>1 DEF ReportChange, tracking
  <2> QED  BY <1>0, <2>1, <2>2, <2>3, BecomeKeeps
<1>2. CASE OnNetworkChange
  <2>1. PICK after \in {"idle", "load"} : after = IF EnableCaching THEN "load" ELSE "idle"
    OBVIOUS
  <2>2. \/ \E new \in PossibleEcts' :
              Compute(new) /\ Become(Notifier, Announce(last_ect, new, after))
        \/ ~ShouldCompute(TRUE, TRUE, rated' + others', transfers')
        \/ ~ShouldCompute(FALSE, TRUE, rated' + others', transfers')
    BY <1>2, <2>1 DEF OnNetworkChange
  <2>3. PICK new \in PossibleEcts' :
               Compute(new) /\ Become(Notifier, Announce(last_ect, new, after))
    BY <2>2 DEF ShouldCompute
  <2>4. new \in Ects \cup {UNKNOWN}
    BY DEF PossibleEcts
  <2>5. PICK rec : rec = Announce(last_ect, new, after)
    OBVIOUS
  <2> QED  BY <1>0, <2>3, <2>4, <2>5, ComputeIsChange
<1> QED  BY <1>1, <1>2

LEMMA OtherMaps ==
  ASSUME \/ \E o \in Observers : AddObserver(o) \/ RemoveObserver(o)
         \/ EnableDetection \/ DisableDetection \/ Roam
         \/ UNCHANGED vars
  PROVE  AStep
<1>1. last_ect' = last_ect /\ thread' = thread
  BY DEF AddObserver, RemoveObserver, EnableDetection, DisableDetection, Roam, vars, tracking
<1>2. CallsDue' = CallsDue
  BY <1>1 DEF CallsDue
<1>3. ASSUME NEW o \in Observers, AddObserver(o)
      PROVE  AStep
  <2>1. Announcements!Register(o)
    BY <1>1, <1>2, <1>3 DEF AddObserver, Announcements!Register
  <2> QED  BY <2>1 DEF AStep, Announcements!Next
<1>4. ASSUME NEW o \in Observers, RemoveObserver(o)
      PROVE  AStep
  <2>1. Announcements!Unregister(o)
    BY <1>1, <1>2, <1>4 DEF RemoveObserver, Announcements!Unregister
  <2> QED  BY <2>1 DEF AStep, Announcements!Next
<1>5. CASE EnableDetection \/ DisableDetection \/ Roam \/ UNCHANGED vars
  <2>1. observers' = observers
    BY <1>5 DEF EnableDetection, DisableDetection, Roam, vars
  <2> QED  BY <1>1, <1>2, <2>1, AStutter
<1> QED  BY <1>3, <1>4, <1>5

\* Nqe keeps the promise of EctAnnouncements to its observers, however many
\* threads, observers and types there are, and also to those told while another
\* observer's own call changes the ECT.
THEOREM AnnouncementsKept == Spec => AnnouncesAsPromised
<1>1. Init => Announcements!Init
  <2> SUFFICES ASSUME Init PROVE Announcements!Init
    OBVIOUS
  <2>1. \A t \in Threads : thread[t].todo = {}
    BY IdleType DEF Init
  <2>2. CallsDue = {}
    BY <2>1 DEF CallsDue
  <2> QED  BY <2>2 DEF Init, Announcements!Init
<1>2. IInv /\ [Next]_vars => [Announcements!Next]_(Announcements!vars)
  <2> SUFFICES ASSUME IInv, [Next]_vars PROVE AStep
    BY DEF AStep
  <2>1. CASE \E t \in Callers : Call(t)
    BY <2>1, CallMaps
  <2>2. CASE \E t \in Threads : Step(t)
    BY <2>2, StepMaps
  <2>3. CASE ReportChange \/ OnNetworkChange
    BY <2>3, ChangeMaps
  <2>4. CASE \/ \E o \in Observers : AddObserver(o) \/ RemoveObserver(o)
             \/ EnableDetection \/ DisableDetection \/ Roam
             \/ UNCHANGED vars
    BY <2>4, OtherMaps
  <2> QED  BY <2>1, <2>2, <2>3, <2>4 DEF Next
<1> QED  BY <1>1, <1>2, Invariance, PTL DEF Spec, AnnouncesAsPromised, Announcements!Spec

-----------------------------------------------------------------------------
(***************************************************************************)
(* How long a call and the announcement it makes may take: in Nqe a thread *)
(* waits for no other thread, except for mu_, and the steps of a call come *)
(* to an end, whatever other threads, the network and the calls that its   *)
(* observers make do between them.                                         *)
(***************************************************************************)
\* The steps that a thread with record r has left, at most: the critical
\* sections of its call and one call for each observer it has yet to tell.
StepsLeft(r) ==
  CASE r.pc = "put" -> 1
    [] r.pc = "notify" -> Cardinality(r.todo) + 2
    [] r.pc \in {"loadadd", "compute"} -> Cardinality(Observers) + 3
    [] r.pc \in {"load", "transfer"} -> Cardinality(Observers) + 4
    [] r.pc = "change" -> Cardinality(Observers) + 5
    [] OTHER -> 0

\* The steps of thread t.
Own(t) ==
  \/ t \in Callers /\ Call(t)
  \/ Step(t)
  \/ t = Notifier /\ (ReportChange \/ OnNetworkChange)

\* The thread t, in a call, has a step: the guards of Own(t).
Ready(t) ==
  \/ t \in Callers /\ At(t, "transfer")
  \/ \E pc \in {"compute", "notify", "put", "load", "loadadd"} : At(t, pc)
  \/ t = Notifier /\ At(t, "change")

\* A thread in a call has a step of its own, or is in an observer that makes a
\* call, and has a bounded number of steps left.
CallNeverStuck ==
  \A t \in Threads :
    /\ StepsLeft(thread[t]) \in 0..(Cardinality(Observers) + 5)
    /\ thread[t].pc # "idle" => StepsLeft(thread[t]) > 0 /\ (Ready(t) \/ InObserver(t))

\* Each step of a thread in a call brings it nearer to the end of the call, and
\* no step of another thread or of the environment takes it back.
CallNears ==
  [][\A t \in Threads : thread[t].pc # "idle" =>
       IF Own(t) THEN StepsLeft(thread'[t]) < StepsLeft(thread[t])
       ELSE thread'[t] = thread[t]]_vars

\* Only a caller adds a transfer, only the notifier reports a change.
Placed ==
  \A t \in Threads : /\ thread[t].pc = "transfer" => t \in Callers
                     /\ thread[t].pc = "change" => t = Notifier

\* The steps of a thread in a call, from record r to record s.
Moves(r, s) ==
  \/ r.pc = "transfer" /\ s.pc = "compute"
  \/ r.pc = "change" /\ s.pc \in {"load", "notify", "idle"}
  \/ r.pc = "load" /\ s.pc \in {"loadadd", "notify", "idle"}
  \/ r.pc \in {"loadadd", "compute"} /\ s.pc \in {"notify", "idle"}
  \/ r.pc = "notify" /\ s.pc = "notify" /\ \E o \in r.todo : s.todo = r.todo \ {o}
  \/ r.pc = "notify" /\ s.pc \in {"put", "idle"}
  \/ r.pc = "put" /\ s.pc = "idle"

\* What a thread does first, from its idle state.
Begins(t, s) ==
  \/ s.pc = "transfer" /\ t \in Callers
  \/ s.pc = "change" /\ t = Notifier
  \/ s.pc \in {"compute", "put", "loadadd", "notify", "idle"}

\* A step of t, from its record to s.
Goes(t, s) ==
  /\ thread' = [thread EXCEPT ![t] = s]
  /\ IF thread[t].pc = "idle" THEN Begins(t, s) ELSE Moves(thread[t], s)

\* Where a thread goes after the ECT was computed, and after a load.
LEMMA NextPCs ==
  ASSUME NEW rec \in ThreadState, NEW old, NEW new, NEW after \in {"idle", "load"}
  PROVE  /\ Announce(old, new, after).pc \in IF after = "idle" THEN {"notify", "idle"}
                                             ELSE {"load"}
         /\ AfterLoad(rec).pc \in {"notify", "idle"}
         /\ \A pc : [rec EXCEPT !.pc = pc].pc = pc
BY DEF Announce, AfterLoad, Idle, ThreadState

\* The steps of a thread, one by one.
LEMMA OwnGoes ==
  ASSUME TypeOK, NEW t \in Threads, Own(t)
  PROVE  \E s : Goes(t, s)
<1>0. thread[t] \in ThreadState
  BY DEF TypeOK
<1>1. CASE t \in Callers /\ AddSample(t)
  <2> DEFINE s == [thread[t] EXCEPT !.pc = "compute"]
  <2>1. thread[t].pc = "idle" /\ thread' = [thread EXCEPT ![t] = s] /\ s.pc = "compute"
    BY <1>0, <1>1, NextPCs DEF AddSample, Goto, Become, At, MayBegin
  <2> QED  BY <2>1 DEF Goes, Begins
<1>2. CASE t \in Callers /\ AddThroughputSample(t)
  <2> DEFINE s == [Idle EXCEPT !.pc = "transfer", !.analyzer = analyzer]
  <2>1. thread[t].pc = "idle" /\ thread' = [thread EXCEPT ![t] = s] /\ s.pc = "transfer"
    BY <1>2 DEF AddThroughputSample, Become, At, MayBegin, Idle
  <2> QED  BY <1>2, <2>1 DEF Goes, Begins
<1>3. CASE t \in Callers /\ AddTransfer(t)
  <2> DEFINE s == [Idle EXCEPT !.pc = "compute"]
  <2>1. thread[t].pc = "transfer" /\ thread' = [thread EXCEPT ![t] = s] /\ s.pc = "compute"
    BY <1>3 DEF AddTransfer, Become, At, Idle
  <2> QED  BY <2>1 DEF Goes, Moves
<1>4. CASE MaybeCompute(t)
  <2>1. PICK s : /\ thread' = [thread EXCEPT ![t] = s]
                 /\ s = Idle \/ \E new : s = Announce(last_ect, new, "idle")
    BY <1>4 DEF MaybeCompute, Become
  <2>2. s.pc \in {"notify", "idle"} /\ thread[t].pc = "compute"
    BY <1>0, <1>4, <2>1, NextPCs DEF Idle, MaybeCompute, At
  <2> QED  BY <2>1, <2>2 DEF Goes, Moves
<1>5. CASE NotifyOne(t)
  <2>1. PICK o \in thread[t].todo :
          thread' = [thread EXCEPT ![t] = [thread[t] EXCEPT !.todo = @ \ {o}, !.called = TRUE]]
    BY <1>5 DEF NotifyOne, Become
  <2> DEFINE s == [thread[t] EXCEPT !.todo = @ \ {o}, !.called = TRUE]
  <2>2. s.pc = "notify" /\ thread[t].pc = "notify" /\ s.todo = thread[t].todo \ {o}
    BY <1>0, <1>5 DEF NotifyOne, At, ThreadState
  <2> QED  BY <2>1, <2>2 DEF Goes, Moves
<1>6. CASE UpdateReadNetwork(t)
  <2>1. PICK s : /\ thread' = [thread EXCEPT ![t] = s]
                 /\ s = Idle \/ s = [Idle EXCEPT !.pc = "put", !.net = CurrentNetworkID]
    BY <1>6 DEF UpdateReadNetwork, Become
  <2>2. thread[t].pc \in {"notify", "idle"}
    BY <1>6 DEF UpdateReadNetwork, At, MayBegin
  <2>3. CASE s = Idle
    <3>1. s.pc = "idle"
      BY <2>3 DEF Idle
    <3> QED  BY <2>1, <2>2, <3>1 DEF Goes, Moves, Begins
  <2>4. CASE s = [Idle EXCEPT !.pc = "put", !.net = CurrentNetworkID]
    <3>1. s.pc = "put"
      BY <2>4 DEF Idle
    <3> QED  BY <2>1, <2>2, <3>1 DEF Goes, Moves, Begins
  <2> QED  BY <2>1, <2>3, <2>4
<1>7. CASE UpdatePut(t)
  <2>1. thread[t].pc = "put" /\ thread' = [thread EXCEPT ![t] = Idle] /\ Idle.pc = "idle"
    BY <1>7 DEF UpdatePut, Become, At, Idle
  <2> QED  BY <2>1 DEF Goes, Moves
<1>8. CASE LoadRead(t)
  <2>1. PICK s : /\ thread' = [thread EXCEPT ![t] = s]
                 /\ \/ s = [thread[t] EXCEPT !.pc = "loadadd", !.net = CurrentNetworkID,
                                             !.from = cache[CurrentNetworkID]]
                    \/ s = AfterLoad(thread[t])
    BY <1>8 DEF LoadRead, Become
  <2>2. s.pc \in {"loadadd", "notify", "idle"} /\ thread[t].pc \in {"load", "idle"}
    BY <1>0, <1>8, <2>1, NextPCs DEF LoadRead, At, MayBegin, ThreadState
  <2> QED  BY <2>1, <2>2 DEF Goes, Moves, Begins
<1>9. CASE LoadAdd(t)
  <2>1. /\ thread[t].pc = "loadadd" /\ AfterLoad(thread[t]).pc \in {"notify", "idle"}
        /\ thread' = [thread EXCEPT ![t] = AfterLoad(thread[t])]
    BY <1>0, <1>9, NextPCs DEF LoadAdd, Become, At
  <2> QED  BY <2>1 DEF Goes, Moves
<1>10. CASE t = Notifier /\ ReportChange
  <2> DEFINE s == [thread[t] EXCEPT !.pc = "change"]
  <2>1. thread[t].pc = "idle" /\ thread' = [thread EXCEPT ![t] = s] /\ s.pc = "change"
    BY <1>0, <1>10, NextPCs DEF ReportChange, Goto, Become, At
  <2> QED  BY <1>10, <2>1 DEF Goes, Begins
<1>11. CASE t = Notifier /\ OnNetworkChange
  <2>1. PICK after \in {"idle", "load"} : after = IF EnableCaching THEN "load" ELSE "idle"
    OBVIOUS
  <2>2. PICK s : /\ thread' = [thread EXCEPT ![t] = s]
                 /\ \/ s = [Idle EXCEPT !.pc = after]
                    \/ \E new : s = Announce(last_ect, new, after)
    BY <1>11, <2>1 DEF OnNetworkChange, Become
  <2>3. s.pc \in {"load", "notify", "idle"} /\ thread[t].pc = "change"
    BY <1>0, <1>11, <2>1, <2>2, NextPCs DEF Idle, OnNetworkChange, At
  <2> QED  BY <2>2, <2>3 DEF Goes, Moves
<1> QED  BY <1>1, <1>2, <1>3, <1>4, <1>5, <1>6, <1>7, <1>8, <1>9, <1>10, <1>11
         DEF Own, Call, Step

\* Any other step leaves the records of the threads.
LEMMA OthersStay ==
  ASSUME [Next]_vars
  PROVE  (\E t \in Threads : Own(t)) \/ thread' = thread
BY DEF Next, Own, Threads, AddObserver, RemoveObserver, EnableDetection, DisableDetection,
       Roam, vars

\* Each step of a call lowers the number of steps left.
LEMMA MovesLower ==
  ASSUME NEW r \in ThreadState, NEW s \in ThreadState
  PROVE  /\ StepsLeft(r) \in 0..(Cardinality(Observers) + 5)
         /\ r.pc # "idle" => StepsLeft(r) > 0
         /\ Moves(r, s) => StepsLeft(s) < StepsLeft(r)
<1> DEFINE K == Cardinality(Observers)
           c == Cardinality(r.todo)
           d == Cardinality(s.todo)
<1>1. K \in Nat
  BY NqeConstants, FS_CardinalityType
<1>2. \A T \in SUBSET Observers :
        /\ Cardinality(T) \in Nat /\ Cardinality(T) <= K
        /\ \A o \in T : Cardinality(T \ {o}) = Cardinality(T) - 1
  BY NqeConstants, FS_Subset, FS_CardinalityType, FS_RemoveElement
<1>3. /\ r.todo \in SUBSET Observers /\ s.todo \in SUBSET Observers
      /\ r.pc \in PCs
  BY DEF ThreadState
<1>4. c \in 0..K /\ d \in 0..K /\ ((\E o \in r.todo : s.todo = r.todo \ {o}) => d = c - 1)
  BY <1>1, <1>2, <1>3
<1>5. /\ StepsLeft(r) = CASE r.pc = "put" -> 1 [] r.pc = "notify" -> c + 2
                          [] r.pc \in {"loadadd", "compute"} -> K + 3
                          [] r.pc \in {"load", "transfer"} -> K + 4
                          [] r.pc = "change" -> K + 5 [] OTHER -> 0
      /\ StepsLeft(s) = CASE s.pc = "put" -> 1 [] s.pc = "notify" -> d + 2
                          [] s.pc \in {"loadadd", "compute"} -> K + 3
                          [] s.pc \in {"load", "transfer"} -> K + 4
                          [] s.pc = "change" -> K + 5 [] OTHER -> 0
  BY DEF StepsLeft
<1> HIDE DEF K, c, d
<1>6. StepsLeft(r) \in 0..(K + 5) /\ (r.pc # "idle" => StepsLeft(r) > 0)
  BY <1>1, <1>3, <1>4, <1>5 DEF PCs
<1>7. ASSUME Moves(r, s) PROVE StepsLeft(s) < StepsLeft(r)
  BY <1>1, <1>4, <1>5, <1>7 DEF Moves
<1> QED  BY <1>6, <1>7 DEF K

\* Placed is kept.
LEMMA PlacedStep == TypeOK /\ Placed /\ [Next]_vars => Placed'
<1> SUFFICES ASSUME TypeOK, Placed, [Next]_vars PROVE Placed'
  OBVIOUS
<1>1. ASSUME NEW t \in Threads, Own(t) PROVE Placed'
  <2>1. PICK s : Goes(t, s)
    BY <1>1, OwnGoes
  <2>2. thread'[t] = s /\ \A u \in Threads \ {t} : thread'[u] = thread[u]
    BY <2>1 DEF Goes, TypeOK
  <2>3. /\ s.pc = "transfer" => t \in Callers
        /\ s.pc = "change" => t = Notifier
    BY <2>1 DEF Goes, Moves, Begins
  <2> QED  BY <2>2, <2>3 DEF Placed
<1>2. CASE thread' = thread
  BY <1>2 DEF Placed
<1> QED  BY <1>1, <1>2, OthersStay

\* Every call of Nqe, and the announcement of a change it makes, is over after a
\* bounded number of its steps, each of them possible once the calls that
\* observers make in between have returned (Nqe.cpp: no thread waits for another
\* while it holds what it copied): the observers that EveryChangeAnnounced speaks
\* of are told.
THEOREM CallsBounded == Spec => []CallNeverStuck /\ CallNears
<1>1. Init => Placed
  BY DEF Init, Placed, Idle
<1>2. IInv /\ Placed => CallNeverStuck
  <2> SUFFICES ASSUME IInv, Placed, NEW t \in Threads
               PROVE  /\ StepsLeft(thread[t]) \in 0..(Cardinality(Observers) + 5)
                      /\ thread[t].pc # "idle" =>
                           StepsLeft(thread[t]) > 0 /\ (Ready(t) \/ InObserver(t))
    BY DEF CallNeverStuck
  <2>1. thread[t] \in ThreadState /\ thread[t].pc \in PCs
    BY DEF IInv, Core, TypeOK, ThreadState
  <2>2. thread[t].pc # "idle" => Ready(t) \/ InObserver(t)
    BY <2>1 DEF PCs, Ready, At, Placed
  <2> QED  BY <2>1, <2>2, MovesLower
<1>3. IInv /\ IInv' /\ [Next]_vars =>
        [\A t \in Threads : thread[t].pc # "idle" =>
           IF Own(t) THEN StepsLeft(thread'[t]) < StepsLeft(thread[t])
           ELSE thread'[t] = thread[t]]_vars
  <2> SUFFICES ASSUME IInv, IInv', [Next]_vars, NEW t \in Threads, thread[t].pc # "idle"
               PROVE  IF Own(t) THEN StepsLeft(thread'[t]) < StepsLeft(thread[t])
                      ELSE thread'[t] = thread[t]
    OBVIOUS
  <2>0. TypeOK /\ thread[t] \in ThreadState /\ thread'[t] \in ThreadState
    BY DEF IInv, Core, TypeOK
  <2>1. CASE Own(t)
    <3>1. PICK s : Goes(t, s)
      BY <2>0, <2>1, OwnGoes
    <3>2. thread'[t] = s /\ Moves(thread[t], s)
      BY <2>0, <3>1 DEF Goes, TypeOK
    <3> QED  BY <2>0, <2>1, <3>2, MovesLower
  <2>2. CASE ~Own(t)
    <3>1. ASSUME NEW u \in Threads, Own(u) PROVE thread'[t] = thread[t]
      <4>1. PICK s : Goes(u, s)
        BY <2>0, <3>1, OwnGoes
      <4> QED  BY <2>0, <2>2, <3>1, <4>1 DEF Goes, TypeOK
    <3> QED  BY <2>2, <3>1, OthersStay
  <2> QED  BY <2>1, <2>2
<1>4. IInv => TypeOK
  BY DEF IInv, Core
<1>5. Spec => []Placed
  BY <1>1, <1>4, PlacedStep, Invariance, PTL DEF Spec
<1> QED  BY <1>2, <1>3, <1>5, Invariance, PTL DEF Spec, CallNears
=============================================================================
