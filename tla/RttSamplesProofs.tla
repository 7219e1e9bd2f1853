------------------------- MODULE RttSamplesProofs -------------------------
(***************************************************************************)
(* Proofs about RttSamples, for any finite sets of threads and keys.  The  *)
(* inductive invariant adds to the type that each thread holds what its    *)
(* step needs (Steps), that an entry is no older than any request of its   *)
(* key that was sent (Recorded), that samples and outstanding requests     *)
(* together are no more than requests (Budget), that latest_ is the time   *)
(* of the last sample (Newest), and that the samples kept lie between      *)
(* min_value_ and max_value_ (Extremes).  What the statistics say follows  *)
(* from these and from what is proved of the scan over the sorted samples  *)
(* with the lemmas of SumTheorems, for any weights above zero.             *)
(***************************************************************************)
EXTENDS RttSamples, SumTheorems, SequenceTheorems

Steps ==
  /\ \A s \in Senders :
       /\ thread[s].pc \in {"idle", "store", "transmit"}
       /\ thread[s].pc # "idle" => thread[s].key \in Keys /\ thread[s].ts \in Times
  /\ \A r \in Receivers :
       /\ thread[r].pc \in {"idle", "take", "add"}
       /\ thread[r].pc # "idle" =>
            /\ thread[r].key \in Keys /\ thread[r].ts \in Times /\ thread[r].ts <= clock
            /\ [key |-> thread[r].key, sent |-> thread[r].sent] \in net
       /\ thread[r].pc = "add" => thread[r].rtt \in Times

Recorded ==
  ~reordered =>
    /\ \A m \in net : send_ts[m.key] # Absent => send_ts[m.key] >= m.sent
    /\ \A s \in Senders :
         thread[s].pc = "transmit" =>
           (send_ts[thread[s].key] # Absent => send_ts[thread[s].key] >= thread[s].ts)

Measured ==
  ~reordered =>
    \A r \in Receivers : thread[r].pc = "add" => thread[r].rtt <= thread[r].ts - thread[r].sent

Budget == count + Cardinality(Outstanding) <= sends

Newest ==
  /\ latest <= clock
  /\ samples # <<>> => latest = samples[Len(samples)].ts
  /\ ~overtaken =>
       /\ \A i \in DOMAIN samples : samples[i].ts <= latest
       /\ \A r \in Receivers : thread[r].pc # "idle" => thread[r].ts >= latest

Extremes ==
  samples # <<>> =>
    /\ least \in Times /\ most \in Times
    /\ \A i \in DOMAIN samples : least <= samples[i].rtt /\ samples[i].rtt <= most

IInv ==
  /\ TypeOK /\ Steps /\ Recorded /\ Measured /\ NeverOverestimates /\ Budget /\ Newest
  /\ Extremes

-----------------------------------------------------------------------------
(***************************************************************************)
(* The sequence of samples.                                                *)
(***************************************************************************)
\* What is left of the samples with a new one: the new one is last, and the
\* others were there.
LEMMA KeptFacts ==
  ASSUME NEW S, NEW q \in Seq(S), NEW e \in S, Len(q) <= MaxKeep
  PROVE  /\ Kept(Append(q, e)) \in Seq(S)
         /\ Len(Kept(Append(q, e))) <= MaxKeep
         /\ Kept(Append(q, e)) # <<>>
         /\ Kept(Append(q, e))[Len(Kept(Append(q, e)))] = e
         /\ \A i \in DOMAIN Kept(Append(q, e)) :
              \/ Kept(Append(q, e))[i] = e
              \/ \E j \in DOMAIN q : Kept(Append(q, e))[i] = q[j]
<1> DEFINE a == Append(q, e)
<1>0. Len(q) \in Nat /\ MaxKeep \in Nat
  BY RttSamplesConstants
<1>1. a \in Seq(S) /\ Len(a) = Len(q) + 1 /\ Len(q) \in Nat /\ DOMAIN q = 1..Len(q)
  OBVIOUS
<1>2. \A i \in 1..Len(a) : a[i] = IF i = Len(a) THEN e ELSE q[i]
  OBVIOUS
<1>3. MaxKeep \in Nat \ {0}
  BY RttSamplesConstants
<1>4. CASE Len(a) > MaxKeep
  <2>1. Kept(a) = Tail(a)
    BY <1>4 DEF Kept
  <2>2. /\ Tail(a) \in Seq(S) /\ Len(Tail(a)) = Len(a) - 1
        /\ DOMAIN Tail(a) = 1..(Len(a) - 1)
        /\ \A i \in 1..(Len(a) - 1) : Tail(a)[i] = a[i + 1]
    BY <1>1, <1>3, <1>4
  <2>3. Len(q) = MaxKeep
    <3>1. Len(q) + 1 > MaxKeep
      BY <1>1, <1>4
    <3> HIDE DEF a
    <3> QED BY <3>1, <1>0, SMT
  <2> HIDE DEF a
  <2>4. Tail(a) # <<>>
    BY <2>2, <2>3, <1>1, <1>3
  <2>5. Tail(a)[Len(Tail(a))] = e
    BY <2>2, <2>3, <1>1, <1>2, <1>3
  <2>6. ASSUME NEW i \in DOMAIN Tail(a)
        PROVE  Tail(a)[i] = e \/ \E j \in DOMAIN q : Tail(a)[i] = q[j]
    <3>1. Tail(a)[i] = a[i + 1] /\ i \in Nat /\ i + 1 \in 1..Len(a)
      BY <2>2, <1>1
    <3>2. CASE i + 1 = Len(a)
      BY <3>1, <3>2, <1>2
    <3>3. CASE i + 1 # Len(a)
      <4>1. i + 1 \in DOMAIN q
        BY <3>1, <3>3, <1>1
      <4> QED BY <4>1, <3>1, <3>3, <1>2
    <3> QED BY <3>2, <3>3
  <2> QED BY <2>1, <2>2, <2>3, <2>4, <2>5, <2>6, <1>1 DEF a
<1>5. CASE ~(Len(a) > MaxKeep)
  <2>1. Kept(a) = a
    BY <1>5 DEF Kept
  <2>2. a # <<>> /\ a[Len(a)] = e /\ DOMAIN a = 1..Len(a)
    OBVIOUS
  <2> HIDE DEF a
  <2>3. ASSUME NEW i \in DOMAIN a
        PROVE  a[i] = e \/ \E j \in DOMAIN q : a[i] = q[j]
    <3>1. CASE i = Len(a)
      BY <3>1, <2>2
    <3>2. CASE i # Len(a)
      <4>1. i \in DOMAIN q
        BY <3>2, <2>2, <1>1
      <4> QED BY <4>1, <3>2, <2>2, <1>2
    <3> QED BY <3>1, <3>2
  <2> QED BY <2>1, <2>2, <2>3, <1>1, <1>3, <1>5 DEF a
<1> QED BY <1>4, <1>5

-----------------------------------------------------------------------------
(***************************************************************************)
(* Types and steps.                                                        *)
(***************************************************************************)
LEMMA Constants ==
  /\ Senders \cap Receivers = {} /\ MaxClock \in Nat \ {0} /\ MaxKeep \in Nat \ {0}
  /\ Times \subseteq Nat /\ {Absent} \cup Times \subseteq Nat /\ Absent = 0 /\ Absent \notin Times
  /\ 1 \in Times /\ \A n \in Times : n <= MaxClock
  /\ \A n \in Nat : n \in Times <=> n >= 1 /\ n <= MaxClock
BY RttSamplesConstants DEF Times, Absent

\* The samples are finitely many, with times for values.
LEMMA SampleFacts ==
  ASSUME TypeOK
  PROVE  /\ IsFiniteSet(DOMAIN samples)
         /\ \A i \in DOMAIN samples :
              /\ samples[i].rtt \in Times /\ samples[i].ts \in Times
              /\ samples[i].rtt \in Nat /\ samples[i].ts \in Nat
<1>1. samples \in Seq(Samples)
  BY DEF TypeOK
<1>2. DOMAIN samples = 1..Len(samples) /\ Len(samples) \in Nat
  BY <1>1
<1>3. IsFiniteSet(DOMAIN samples)
  BY <1>2, FS_Interval
<1>4. ASSUME NEW i \in DOMAIN samples
      PROVE  samples[i].rtt \in Times /\ samples[i].ts \in Times
  <2>1. samples[i] \in Samples
    BY <1>1
  <2> QED BY <2>1 DEF Samples
<1> QED BY <1>3, <1>4, Constants

\* An elapsed time that counts is a time.
LEMMA ElapsedIsTime ==
  ASSUME NEW x \in Times, NEW y \in Times, x - y > 0
  PROVE  x - y \in Times
BY RttSamplesConstants DEF Times

\* A thread that does nothing is in a state of its type.
LEMMA IdleIsState == Idle \in ThreadState /\ Idle.pc = "idle"
BY DEF Idle, ThreadState

\* The outstanding requests can be counted.
LEMMA OutstandingFinite ==
  ASSUME TypeOK
  PROVE  IsFiniteSet(Outstanding) /\ Cardinality(Outstanding) \in Nat
<1>1. IsFiniteSet(Senders \cup Keys \cup Receivers)
  BY RttSamplesConstants, FS_Union
<1>2. Outstanding \in SUBSET (Senders \cup Keys \cup Receivers)
  BY DEF Outstanding
<1> QED BY <1>1, <1>2, FS_Subset, FS_CardinalityType

\* No thread is in a call at first.
LEMMA StepsInit ==
  ASSUME Init
  PROVE  TypeOK /\ Steps
<1>1. TypeOK
  <2>1. thread \in [Threads -> ThreadState]
    BY IdleIsState DEF Init
  <2>2. samples \in Seq(Samples) /\ Len(samples) <= MaxKeep
    BY Constants DEF Init
  <2> QED BY <2>1, <2>2, Constants DEF Init, TypeOK
<1>2. Steps
  BY IdleIsState DEF Init, Steps, Threads
<1> QED BY <1>1, <1>2

\* A thread's step changes its own record only.
LEMMA BecomeFacts ==
  ASSUME thread \in [Threads -> ThreadState], NEW t \in Threads, NEW rec \in ThreadState,
         Become(t, rec)
  PROVE  /\ thread' \in [Threads -> ThreadState]
         /\ thread'[t] = rec
         /\ \A u \in Threads \ {t} : thread'[u] = thread[u]
BY DEF Become

\* Each step keeps the types and what Steps says of the threads.
LEMMA StepsNext ==
  ASSUME TypeOK, Steps, [Next]_vars
  PROVE  TypeOK' /\ Steps'
<1> USE Constants
<1>0. /\ thread \in [Threads -> ThreadState] /\ clock \in Times
      /\ send_ts \in [Keys -> {Absent} \cup Times]
      /\ Senders \subseteq Threads /\ Receivers \subseteq Threads
  BY DEF TypeOK, Threads
<1>1. CASE Tick
  <2>1. clock + 1 \in Times
    BY <1>1, <1>0 DEF Tick, Times
  <2>2. TypeOK'
    BY <1>1, <2>1 DEF Tick, TypeOK, source, aggregator
  <2>3. Steps'
    <3>1. thread' = thread /\ net' = net /\ clock' = clock + 1
      BY <1>1 DEF Tick, source
    <3>2. \A n \in Times : n <= clock => n <= clock'
      BY <3>1, <1>0
    <3> QED BY <3>1, <3>2, Zenon DEF Steps
  <2> QED BY <2>2, <2>3
<1>2. ASSUME NEW s \in Senders, NEW k \in Keys, SendRead(s, k)
      PROVE  TypeOK' /\ Steps'
  <2> DEFINE rec == [Idle EXCEPT !.pc = "store", !.key = k, !.ts = clock]
  <2>1. rec \in ThreadState /\ rec.pc = "store" /\ rec.key = k /\ rec.ts = clock
    BY <1>0 DEF Idle, ThreadState
  <2> HIDE DEF rec
  <2>2. Become(s, rec)
    BY <1>2 DEF SendRead, rec
  <2>3. /\ thread' \in [Threads -> ThreadState] /\ thread'[s] = rec
        /\ \A u \in Threads \ {s} : thread'[u] = thread[u]
    BY <1>0, <2>1, <2>2, BecomeFacts
  <2>4. sends' \in Nat
    BY <1>2 DEF SendRead, TypeOK
  <2>5. TypeOK'
    BY <1>2, <2>3, <2>4 DEF SendRead, TypeOK, source, aggregator
  <2>6. Steps'
    BY <1>2, <1>0, <2>1, <2>3 DEF SendRead, Steps, source
  <2> QED BY <2>5, <2>6
<1>3. ASSUME NEW s \in Senders, SendStore(s)
      PROVE  TypeOK' /\ Steps'
  <2> DEFINE rec == [thread[s] EXCEPT !.pc = "transmit"]
  <2>1. /\ rec \in ThreadState /\ rec.pc = "transmit" /\ rec.key = thread[s].key
        /\ rec.ts = thread[s].ts /\ thread[s].key \in Keys /\ thread[s].ts \in Times
    BY <1>0, <1>3 DEF ThreadState, SendStore, Steps
  <2> HIDE DEF rec
  <2>2. Become(s, rec)
    BY <1>3 DEF SendStore, rec
  <2>3. /\ thread' \in [Threads -> ThreadState] /\ thread'[s] = rec
        /\ \A u \in Threads \ {s} : thread'[u] = thread[u]
    BY <1>0, <2>1, <2>2, BecomeFacts
  <2>4. send_ts' \in [Keys -> {Absent} \cup Times]
    BY <1>3, <1>0, <2>1 DEF SendStore, Record
  <2>5. reordered' \in BOOLEAN
    <3>1. reordered' = (reordered \/ \E m \in Sent : m.key = thread[s].key /\ m.sent > thread[s].ts)
      BY <1>3 DEF SendStore
    <3> QED BY <3>1, Zenon
  <2>6. TypeOK'
    BY <1>3, <2>3, <2>4, <2>5 DEF SendStore, TypeOK, aggregator
  <2>7. Steps'
    BY <1>3, <1>0, <2>1, <2>3 DEF SendStore, Steps
  <2> QED BY <2>6, <2>7
<1>4. ASSUME NEW s \in Senders, SendTransmit(s)
      PROVE  TypeOK' /\ Steps'
  <2>1. thread[s].key \in Keys /\ thread[s].ts \in Times
    BY <1>4 DEF SendTransmit, Steps
  <2>2. /\ thread' \in [Threads -> ThreadState] /\ thread'[s] = Idle
        /\ \A u \in Threads \ {s} : thread'[u] = thread[u]
    BY <1>0, <1>4, IdleIsState, BecomeFacts DEF SendTransmit
  <2>3. net' \subseteq Requests /\ net \subseteq net'
    BY <1>4, <2>1 DEF SendTransmit, TypeOK, Requests
  <2>4. TypeOK'
    BY <1>4, <2>2, <2>3 DEF SendTransmit, TypeOK, aggregator
  <2>5. Steps'
    BY <1>4, <1>0, <2>2, <2>3, IdleIsState DEF SendTransmit, Steps
  <2> QED BY <2>4, <2>5
<1>5. ASSUME NEW r \in Receivers, NEW m \in net, AnswerRead(r, m)
      PROVE  TypeOK' /\ Steps'
  <2> DEFINE rec == [Idle EXCEPT !.pc = "take", !.key = m.key, !.ts = clock, !.sent = m.sent]
  <2>0. m \in Requests /\ m = [key |-> m.key, sent |-> m.sent] /\ m.key \in Keys /\ m.sent \in Times
    BY DEF TypeOK, Requests
  <2>1. /\ rec \in ThreadState /\ rec.pc = "take" /\ rec.key = m.key /\ rec.ts = clock
        /\ rec.sent = m.sent
    BY <1>0, <2>0 DEF Idle, ThreadState
  <2> HIDE DEF rec
  <2>2. Become(r, rec)
    BY <1>5 DEF AnswerRead, rec
  <2>3. /\ thread' \in [Threads -> ThreadState] /\ thread'[r] = rec
        /\ \A u \in Threads \ {r} : thread'[u] = thread[u]
    BY <1>0, <2>1, <2>2, BecomeFacts
  <2>5. TypeOK'
    BY <1>5, <2>3 DEF AnswerRead, TypeOK, source, aggregator
  <2>6. Steps'
    BY <1>5, <1>0, <2>0, <2>1, <2>3 DEF AnswerRead, Steps, source
  <2> QED BY <2>5, <2>6
<1>6. ASSUME NEW r \in Receivers, AnswerTake(r)
      PROVE  TypeOK' /\ Steps'
  <2> DEFINE k == thread[r].key
             rtt == thread[r].ts - send_ts[k]
             add == [thread[r] EXCEPT !.pc = "add", !.rtt = rtt]
             rec == IF send_ts[k] # Absent /\ rtt > 0 THEN add ELSE Idle
  <2>0. k \in Keys /\ thread[r].ts \in Times /\ thread[r].pc = "take"
    BY <1>6 DEF AnswerTake, Steps
  <2>1. CASE send_ts[k] # Absent /\ rtt > 0
    <3>1. send_ts[k] \in Times
      BY <2>0, <2>1, <1>0
    <3>2. rtt \in Times
      BY <3>1, <2>0, <2>1, ElapsedIsTime
    <3> HIDE DEF rtt
    <3>3. /\ add \in ThreadState /\ add.pc = "add" /\ add.rtt \in Times
          /\ add.key = thread[r].key /\ add.ts = thread[r].ts /\ add.sent = thread[r].sent
      BY <3>2, <1>0 DEF ThreadState
    <3>4. Become(r, add)
      BY <1>6, <2>1 DEF AnswerTake, rtt
    <3> HIDE DEF add, k
    <3>5. /\ thread' \in [Threads -> ThreadState] /\ thread'[r] = add
          /\ \A u \in Threads \ {r} : thread'[u] = thread[u]
      BY <1>0, <3>3, <3>4, BecomeFacts
    <3>6. send_ts' \in [Keys -> {Absent} \cup Times]
      BY <1>6, <1>0, <2>0 DEF AnswerTake, Erase, k
    <3>7. TypeOK'
      BY <1>6, <3>5, <3>6 DEF AnswerTake, TypeOK, aggregator
    <3>8. Steps'
      BY <1>6, <1>0, <2>0, <3>3, <3>5 DEF AnswerTake, Steps
    <3> QED BY <3>7, <3>8
  <2>2. CASE ~(send_ts[k] # Absent /\ rtt > 0)
    <3>1. Become(r, Idle)
      BY <1>6, <2>2 DEF AnswerTake
    <3> HIDE DEF k, rtt
    <3>2. /\ thread' \in [Threads -> ThreadState] /\ thread'[r] = Idle
          /\ \A u \in Threads \ {r} : thread'[u] = thread[u]
      BY <1>0, <3>1, IdleIsState, BecomeFacts
    <3>3. send_ts' \in [Keys -> {Absent} \cup Times]
      BY <1>6, <1>0, <2>0 DEF AnswerTake, Erase, k
    <3>4. TypeOK'
      BY <1>6, <3>2, <3>3 DEF AnswerTake, TypeOK, aggregator
    <3>5. Steps'
      BY <1>6, <1>0, <3>2, IdleIsState DEF AnswerTake, Steps
    <3> QED BY <3>4, <3>5
  <2> QED BY <2>1, <2>2
<1>7. ASSUME NEW r \in Receivers, AnswerAdd(r)
      PROVE  TypeOK' /\ Steps'
  <2> DEFINE e == [rtt |-> thread[r].rtt, ts |-> thread[r].ts, sent |-> thread[r].sent]
  <2>1. thread[r].ts \in Times /\ thread[r].sent \in Times /\ thread[r].rtt \in Times
    <3>1. [key |-> thread[r].key, sent |-> thread[r].sent] \in Requests
      BY <1>7 DEF AnswerAdd, Steps, TypeOK
    <3> QED BY <3>1, <1>7 DEF AnswerAdd, Steps, Requests
  <2>2. /\ thread' \in [Threads -> ThreadState] /\ thread'[r] = Idle
        /\ \A u \in Threads \ {r} : thread'[u] = thread[u]
    BY <1>0, <1>7, IdleIsState, BecomeFacts DEF AnswerAdd
  <2>3. e \in Samples /\ e.rtt \in Times /\ e.ts \in Times
    BY <2>1 DEF Samples
  <2>4. AddSample(e)
    BY <1>7 DEF AnswerAdd
  <2> HIDE DEF e
  <2>5. samples' \in Seq(Samples) /\ Len(samples') <= MaxKeep
    BY <2>3, <2>4, KeptFacts DEF AddSample, TypeOK
  <2>6. /\ latest' \in {Absent} \cup Times /\ count' \in Nat
        /\ least' \in {Absent} \cup Times /\ most' \in {Absent} \cup Times
    BY <2>3, <2>4 DEF AddSample, Stamp, TypeOK
  <2>7. overtaken' \in BOOLEAN
    <3>1. overtaken' = (overtaken \/ \E o \in Receivers :
                          thread[o].pc # "idle" /\ thread[o].ts < thread[r].ts)
      BY <1>7 DEF AnswerAdd
    <3> QED BY <3>1, Zenon
  <2>8. TypeOK'
    BY <1>7, <2>2, <2>5, <2>6, <2>7 DEF AnswerAdd, TypeOK, source
  <2>9. Steps'
    BY <1>7, <1>0, <2>2, IdleIsState DEF AnswerAdd, Steps, source
  <2> QED BY <2>8, <2>9
<1>8. CASE Clear
  <2>1. sends' \in Nat
    BY <1>8, OutstandingFinite DEF Clear
  <2>2. TypeOK'
    <3>1. samples' \in Seq(Samples) /\ Len(samples') <= MaxKeep
      BY <1>8 DEF Clear
    <3>2. /\ latest' = Absent /\ least' = Absent /\ most' = Absent /\ count' \in Nat
          /\ overtaken' \in BOOLEAN
      BY <1>8 DEF Clear
    <3>3. UNCHANGED <<clock, send_ts, net, thread, reordered>>
      BY <1>8 DEF Clear, source
    <3> QED BY <2>1, <3>1, <3>2, <3>3 DEF TypeOK
  <2>3. Steps'
    <3>1. thread' = thread /\ net' = net /\ clock' = clock
      BY <1>8 DEF Clear, source
    <3> QED BY <3>1, Zenon DEF Steps
  <2> QED BY <2>2, <2>3
<1>9. CASE UNCHANGED vars
  BY <1>9 DEF vars, source, aggregator, TypeOK, Steps
<1> QED BY <1>1, <1>2, <1>3, <1>4, <1>5, <1>6, <1>7, <1>8, <1>9 DEF Next

-----------------------------------------------------------------------------
(***************************************************************************)
(* An entry is no older than the requests of its key that were sent, so    *)
(* that what is measured is no longer than what the answer took.           *)
(***************************************************************************)
LEMMA RecordedNext ==
  ASSUME TypeOK, Steps, Recorded, [Next]_vars
  PROVE  Recorded'
<1> USE Constants
<1>0. /\ thread \in [Threads -> ThreadState] /\ send_ts \in [Keys -> {Absent} \cup Times]
      /\ net \subseteq Requests /\ Senders \subseteq Threads /\ Receivers \subseteq Threads
      /\ Receivers \cap Senders = {}
  BY DEF TypeOK, Threads
<1>1. ASSUME UNCHANGED <<send_ts, net, reordered>>,
             \A s \in Senders : thread'[s].pc = "transmit" => thread'[s] = thread[s]
      PROVE  Recorded'
  BY <1>1 DEF Recorded
<1>2. CASE Tick
  BY <1>1, <1>2 DEF Tick, source
<1>3. ASSUME NEW s \in Senders, NEW k \in Keys, SendRead(s, k)
      PROVE  Recorded'
  <2>1. /\ thread'[s].pc = "store"
        /\ \A u \in Senders \ {s} : thread'[u] = thread[u]
    BY <1>0, <1>3 DEF SendRead, Become, Idle
  <2>2. \A u \in Senders : thread'[u].pc = "transmit" => thread'[u] = thread[u]
    BY <2>1
  <2>3. UNCHANGED <<send_ts, net, reordered>>
    BY <1>3 DEF SendRead, source
  <2> QED BY <1>1, <2>2, <2>3
<1>4. ASSUME NEW s \in Senders, SendStore(s)
      PROVE  Recorded'
  <2> DEFINE k == thread[s].key
             ts == thread[s].ts
  <2>0. k \in Keys /\ ts \in Times /\ ts \in Nat
    BY <1>4 DEF SendStore, Steps
  <2>1. /\ thread'[s].key = k /\ thread'[s].ts = ts
        /\ \A u \in Senders \ {s} : thread'[u] = thread[u]
    BY <1>0, <1>4 DEF SendStore, Become, ThreadState
  <2>2. send_ts'[k] = ts /\ \A x \in Keys \ {k} : send_ts'[x] = send_ts[x]
    BY <1>0, <1>4, <2>0 DEF SendStore, Record
  <2>3. net' = net
    BY <1>4 DEF SendStore
  <2>4. ASSUME ~reordered'
        PROVE  ~reordered /\ \A m \in Sent : ~(m.key = k /\ m.sent > ts)
    BY <1>4, <2>4 DEF SendStore
  <2> HIDE DEF k, ts
  <2>5. ASSUME ~reordered', NEW m \in net, send_ts'[m.key] # Absent
        PROVE  send_ts'[m.key] >= m.sent
    <3>1. m \in Sent /\ m.key \in Keys /\ m.sent \in Nat
      BY <1>0 DEF Sent, Requests
    <3>2. CASE m.key = k
      BY <3>1, <3>2, <2>0, <2>2, <2>4, <2>5
    <3>3. CASE m.key # k
      BY <3>1, <3>3, <2>2, <2>4, <2>5 DEF Recorded
    <3> QED BY <3>2, <3>3
  <2>6. ASSUME ~reordered', NEW u \in Senders, thread'[u].pc = "transmit",
               send_ts'[thread'[u].key] # Absent
        PROVE  send_ts'[thread'[u].key] >= thread'[u].ts
    <3>1. CASE u = s
      BY <3>1, <2>0, <2>1, <2>2
    <3>2. CASE u # s
      <4>1. thread'[u] = thread[u]
        BY <3>2, <2>1
      <4>2. thread[u].pc = "transmit" /\ thread[u].key \in Keys /\ thread[u].ts \in Nat
        BY <4>1, <2>6 DEF Steps
      <4>3. [key |-> thread[u].key, sent |-> thread[u].ts] \in Sent
        BY <4>2 DEF Sent
      <4>4. ~(thread[u].key = k /\ thread[u].ts > ts)
        BY <4>3, <2>4, <2>6
      <4>5. CASE thread[u].key = k
        BY <4>1, <4>2, <4>4, <4>5, <2>0, <2>2
      <4>6. CASE thread[u].key # k
        BY <4>1, <4>2, <4>6, <2>2, <2>4, <2>6 DEF Recorded
      <4> QED BY <4>5, <4>6
    <3> QED BY <3>1, <3>2
  <2> QED BY <2>3, <2>5, <2>6 DEF Recorded
<1>5. ASSUME NEW s \in Senders, SendTransmit(s)
      PROVE  Recorded'
  <2>1. thread'[s] = Idle /\ \A u \in Senders \ {s} : thread'[u] = thread[u]
    BY <1>0, <1>5 DEF SendTransmit, Become
  <2>2. net' = net \cup {[key |-> thread[s].key, sent |-> thread[s].ts]}
    BY <1>5 DEF SendTransmit
  <2>3. thread[s].pc = "transmit" /\ send_ts' = send_ts /\ reordered' = reordered
    BY <1>5 DEF SendTransmit
  <2>4. ASSUME ~reordered, NEW m \in net', send_ts[m.key] # Absent
        PROVE  send_ts[m.key] >= m.sent
    BY <2>2, <2>3, <2>4 DEF Recorded
  <2>5. \A u \in Senders : thread'[u].pc = "transmit" => thread'[u] = thread[u]
    BY <2>1, IdleIsState
  <2> QED BY <2>3, <2>4, <2>5 DEF Recorded
<1>6. ASSUME NEW r \in Receivers, NEW m \in net, AnswerRead(r, m)
      PROVE  Recorded'
  <2>1. \A u \in Senders : thread'[u] = thread[u]
    BY <1>0, <1>6 DEF AnswerRead, Become
  <2>2. UNCHANGED <<send_ts, net, reordered>>
    BY <1>6 DEF AnswerRead, source
  <2> QED BY <1>1, <2>1, <2>2
<1>7. ASSUME NEW r \in Receivers, AnswerTake(r)
      PROVE  Recorded'
  <2>1. \A u \in Senders : thread'[u] = thread[u]
    BY <1>0, <1>7 DEF AnswerTake, Become
  <2>2. net' = net /\ reordered' = reordered
    BY <1>7 DEF AnswerTake
  <2>3. \A x \in Keys : send_ts'[x] # Absent => send_ts'[x] = send_ts[x]
    BY <1>0, <1>7 DEF AnswerTake, Erase
  <2>4. \A m \in net : m.key \in Keys
    BY <1>0 DEF Requests
  <2>5. \A u \in Senders : thread[u].pc = "transmit" => thread[u].key \in Keys
    BY DEF Steps
  <2> QED BY <2>1, <2>2, <2>3, <2>4, <2>5 DEF Recorded
<1>8. ASSUME NEW r \in Receivers, AnswerAdd(r)
      PROVE  Recorded'
  <2>1. \A u \in Senders : thread'[u] = thread[u]
    BY <1>0, <1>8 DEF AnswerAdd, Become
  <2>2. UNCHANGED <<send_ts, net, reordered>>
    BY <1>8 DEF AnswerAdd, source
  <2> QED BY <1>1, <2>1, <2>2
<1>9. CASE Clear
  BY <1>1, <1>9 DEF Clear, source
<1>10. CASE UNCHANGED vars
  BY <1>1, <1>10 DEF vars, source
<1> QED BY <1>2, <1>3, <1>4, <1>5, <1>6, <1>7, <1>8, <1>9, <1>10 DEF Next

\* A time that is measured is not too long, and so is the sample it becomes.
LEMMA MeasuredNext ==
  ASSUME TypeOK, Steps, Recorded, Measured, NeverOverestimates, [Next]_vars
  PROVE  Measured' /\ NeverOverestimates'
<1> USE Constants
<1>0. /\ thread \in [Threads -> ThreadState] /\ send_ts \in [Keys -> {Absent} \cup Times]
      /\ net \subseteq Requests /\ Senders \subseteq Threads /\ Receivers \subseteq Threads
      /\ Receivers \cap Senders = {} /\ samples \in Seq(Samples) /\ Len(samples) <= MaxKeep
  BY DEF TypeOK, Threads
<1>1. ASSUME reordered' = FALSE => reordered = FALSE, reordered' \in BOOLEAN,
             \A r \in Receivers : thread'[r].pc = "add" => thread'[r] = thread[r]
      PROVE  Measured'
  BY <1>1 DEF Measured
<1>2. ASSUME reordered' = FALSE => reordered = FALSE, reordered' \in BOOLEAN,
             samples' = samples
      PROVE  NeverOverestimates'
  BY <1>2 DEF NeverOverestimates
<1>3. ASSUME NEW s \in Senders,
             SendStore(s) \/ SendTransmit(s) \/ \E k \in Keys : SendRead(s, k)
      PROVE  Measured' /\ NeverOverestimates'
  <2>1. \A r \in Receivers : thread'[r] = thread[r]
    BY <1>0, <1>3 DEF SendStore, SendTransmit, SendRead, Become
  <2>2. samples' = samples
    BY <1>3 DEF SendStore, SendTransmit, SendRead, aggregator
  <2>3. reordered' \in BOOLEAN /\ reordered \in BOOLEAN
    BY StepsNext DEF TypeOK
  <2>4. reordered => reordered'
    BY <1>3 DEF SendStore, SendTransmit, SendRead
  <2> QED BY <1>1, <1>2, <2>1, <2>2, <2>3, <2>4
<1>4. CASE Tick \/ UNCHANGED vars
  BY <1>1, <1>2, <1>4 DEF Tick, vars, aggregator, TypeOK
<1>5. ASSUME NEW r \in Receivers, NEW m \in net, AnswerRead(r, m)
      PROVE  Measured' /\ NeverOverestimates'
  <2>1. /\ thread'[r].pc = "take"
        /\ \A u \in Receivers \ {r} : thread'[u] = thread[u]
    BY <1>0, <1>5 DEF AnswerRead, Become, Idle
  <2>2. samples' = samples /\ reordered' = reordered
    BY <1>5 DEF AnswerRead, aggregator
  <2>3. \A u \in Receivers : thread'[u].pc = "add" => thread'[u] = thread[u]
    BY <2>1
  <2> QED BY <1>1, <1>2, <2>2, <2>3 DEF TypeOK
<1>6. ASSUME NEW r \in Receivers, AnswerTake(r)
      PROVE  Measured' /\ NeverOverestimates'
  <2> DEFINE k == thread[r].key
             rtt == thread[r].ts - send_ts[k]
  <2>0. samples' = samples /\ reordered' = reordered /\ reordered \in BOOLEAN
    BY <1>6 DEF AnswerTake, aggregator, TypeOK
  <2>1. \A u \in Receivers \ {r} : thread'[u] = thread[u]
    BY <1>0, <1>6 DEF AnswerTake, Become
  <2>2. ASSUME thread'[r].pc = "add"
        PROVE  send_ts[k] # Absent /\ thread'[r] = [thread[r] EXCEPT !.pc = "add", !.rtt = rtt]
    BY <2>2, <1>0, <1>6, IdleIsState DEF AnswerTake, Become
  <2>3. ASSUME ~reordered, thread'[r].pc = "add"
        PROVE  thread'[r].rtt <= thread'[r].ts - thread'[r].sent
    <3>1. /\ thread'[r].rtt = rtt /\ thread'[r].ts = thread[r].ts
          /\ thread'[r].sent = thread[r].sent /\ thread[r] \in ThreadState
      BY <2>2, <2>3, <1>0 DEF ThreadState
    <3>2. [key |-> k, sent |-> thread[r].sent] \in net
      BY <1>6 DEF AnswerTake, Steps
    <3>3. send_ts[k] >= thread[r].sent
      BY <2>2, <2>3, <3>2 DEF Recorded
    <3>4. [key |-> k, sent |-> thread[r].sent] \in Requests
      BY <3>2, <1>0
    <3>5. k \in Keys /\ thread[r].sent \in Nat
      BY <3>4 DEF Requests
    <3>6. send_ts[k] \in {Absent} \cup Times /\ thread[r].ts \in Times
      <4>1. thread[r].pc = "take"
        BY <1>6 DEF AnswerTake
      <4> QED BY <3>5, <1>0, <4>1 DEF Steps
    <3>7. send_ts[k] \in Nat /\ thread[r].ts \in Nat
      BY <3>6, Zenon
    <3> QED BY <3>1, <3>3, <3>5, <3>7
  <2> HIDE DEF k, rtt
  <2>4. Measured'
    BY <2>0, <2>1, <2>3 DEF Measured
  <2> QED BY <1>2, <2>0, <2>4
<1>7. ASSUME NEW r \in Receivers, AnswerAdd(r)
      PROVE  Measured' /\ NeverOverestimates'
  <2> DEFINE e == [rtt |-> thread[r].rtt, ts |-> thread[r].ts, sent |-> thread[r].sent]
  <2>1. thread'[r] = Idle /\ \A u \in Receivers \ {r} : thread'[u] = thread[u]
    BY <1>0, <1>7 DEF AnswerAdd, Become
  <2>2. reordered' = reordered /\ reordered \in BOOLEAN /\ thread[r].pc = "add"
    BY <1>7 DEF AnswerAdd, TypeOK
  <2>3. Measured'
    BY <1>1, <2>1, <2>2, IdleIsState
  <2>4. samples' = Kept(Append(samples, e))
    BY <1>7 DEF AnswerAdd, AddSample
  <2>5. e \in Samples
    <3>1. [key |-> thread[r].key, sent |-> thread[r].sent] \in Requests
      BY <2>2, <1>0 DEF Steps
    <3> QED BY <3>1, <2>2 DEF Steps, Requests, Samples
  <2>6. ~reordered => e.rtt <= e.ts - e.sent
    BY <2>2 DEF Measured
  <2> HIDE DEF e
  <2>7. \A i \in DOMAIN samples' : samples'[i] = e \/ \E j \in DOMAIN samples : samples'[i] = samples[j]
    BY <2>4, <2>5, <1>0, KeptFacts
  <2>8. NeverOverestimates'
    BY <2>2, <2>6, <2>7 DEF NeverOverestimates
  <2> QED BY <2>3, <2>8
<1>8. CASE Clear
  <2>1. samples' = <<>> /\ thread' = thread /\ reordered' = reordered
    BY <1>8 DEF Clear
  <2> QED BY <2>1 DEF Measured, NeverOverestimates
<1> QED BY <1>3, <1>4, <1>5, <1>6, <1>7, <1>8 DEF Next

-----------------------------------------------------------------------------
(***************************************************************************)
(* A step of the source turns one outstanding request into another or      *)
(* drops it; a request is counted when it begins.                          *)
(***************************************************************************)
\* Adding s and taking x away: what a step does to the number outstanding.
LEMMA Exchange ==
  ASSUME NEW S, IsFiniteSet(S), NEW x, NEW y
  PROVE  /\ Cardinality(S) \in Nat
         /\ Cardinality(S \cup {y}) \in Nat /\ Cardinality(S \cup {y}) <= Cardinality(S) + 1
         /\ Cardinality(S \ {x}) \in Nat /\ Cardinality(S \ {x}) <= Cardinality(S)
         /\ x \in S => /\ Cardinality(S \ {x}) = Cardinality(S) - 1
                       /\ Cardinality((S \ {x}) \cup {y}) \in Nat
                       /\ Cardinality((S \ {x}) \cup {y}) <= Cardinality(S)
<1>1. Cardinality(S) \in Nat
  BY FS_CardinalityType
<1>2. IsFiniteSet(S \cup {y}) /\ Cardinality(S \cup {y}) \in Nat
  BY FS_AddElement, FS_CardinalityType
<1>3. IsFiniteSet(S \ {x}) /\ Cardinality(S \ {x}) \in Nat
  BY FS_RemoveElement, FS_CardinalityType
<1>4. IsFiniteSet((S \ {x}) \cup {y}) /\ Cardinality((S \ {x}) \cup {y}) \in Nat
  BY <1>3, FS_AddElement, FS_CardinalityType
<1>5. Cardinality(S \cup {y}) <= Cardinality(S) + 1
  BY <1>1, FS_AddElement
<1>6. Cardinality(S \ {x}) <= Cardinality(S)
  BY <1>1, FS_RemoveElement
<1>7. Cardinality((S \ {x}) \cup {y}) <= Cardinality(S \ {x}) + 1
  BY <1>3, FS_AddElement
<1>8. x \in S => Cardinality(S \ {x}) = Cardinality(S) - 1
  BY FS_RemoveElement
<1> QED BY <1>1, <1>2, <1>3, <1>4, <1>5, <1>6, <1>7, <1>8

\* A sample is added only for a request that leaves Outstanding.
LEMMA BudgetNext ==
  ASSUME TypeOK, Steps, Budget, [Next]_vars
  PROVE  Budget'
<1> USE Constants
<1>0. /\ thread \in [Threads -> ThreadState] /\ send_ts \in [Keys -> {Absent} \cup Times]
      /\ Senders \subseteq Threads /\ Receivers \subseteq Threads
      /\ count \in Nat /\ sends \in Nat
      /\ count + Cardinality(Outstanding) <= sends
      /\ IsFiniteSet(Outstanding) /\ Cardinality(Outstanding) \in Nat
  BY OutstandingFinite DEF TypeOK, Threads, Budget
<1>a. /\ \A s \in Senders : s \notin Keys /\ s \notin Receivers
      /\ \A r \in Receivers : r \notin Keys
      /\ \A s \in Senders : s \in Outstanding <=> thread[s].pc = "store"
      /\ \A r \in Receivers : r \in Outstanding <=> thread[r].pc = "add"
      /\ \A k \in Keys : k \in Outstanding <=> send_ts[k] # Absent
  BY RttSamplesConstants DEF Outstanding
<1>1. ASSUME UNCHANGED <<count, sends>>, Outstanding' = Outstanding
      PROVE  Budget'
  BY <1>1, <1>0 DEF Budget
<1>2. CASE Tick \/ UNCHANGED vars
  <2>1. UNCHANGED <<count, sends, thread, send_ts>>
    BY <1>2 DEF Tick, vars, aggregator, source
  <2> QED BY <1>1, <2>1 DEF Outstanding
<1>3. ASSUME NEW s \in Senders, NEW k \in Keys, SendRead(s, k)
      PROVE  Budget'
  <2>1. /\ thread'[s].pc = "store" /\ thread[s].pc = "idle"
        /\ \A u \in Threads \ {s} : thread'[u] = thread[u]
        /\ send_ts' = send_ts /\ count' = count /\ sends' = sends + 1
    BY <1>0, <1>3 DEF SendRead, Become, Idle, source, aggregator
  <2>2. Outstanding' = Outstanding \cup {s}
    BY <2>1, <1>0, <1>a DEF Outstanding
  <2>3. Cardinality(Outstanding \cup {s}) <= Cardinality(Outstanding) + 1
        /\ Cardinality(Outstanding \cup {s}) \in Nat
    BY <1>0, Exchange
  <2> QED BY <2>1, <2>2, <2>3, <1>0 DEF Budget
<1>4. ASSUME NEW s \in Senders, SendStore(s)
      PROVE  Budget'
  <2> DEFINE k == thread[s].key
  <2>0. k \in Keys /\ thread[s].ts \in Times /\ thread[s].pc = "store"
    BY <1>4 DEF SendStore, Steps
  <2>1. /\ thread'[s].pc = "transmit"
        /\ \A u \in Threads \ {s} : thread'[u] = thread[u]
        /\ count' = count /\ sends' = sends
    BY <1>0, <1>4 DEF SendStore, Become, ThreadState, aggregator
  <2>2. send_ts'[k] # Absent /\ \A x \in Keys \ {k} : send_ts'[x] = send_ts[x]
    BY <1>0, <1>4, <2>0 DEF SendStore, Record
  <2> HIDE DEF k
  <2>3. Outstanding' = (Outstanding \ {s}) \cup {k}
    BY <2>0, <2>1, <2>2, <1>0, <1>a DEF Outstanding
  <2>4. s \in Outstanding
    BY <2>0, <1>a
  <2>5. /\ Cardinality((Outstanding \ {s}) \cup {k}) <= Cardinality(Outstanding)
        /\ Cardinality((Outstanding \ {s}) \cup {k}) \in Nat
    BY <2>4, <1>0, Exchange
  <2> QED BY <2>1, <2>3, <2>5, <1>0 DEF Budget
<1>5. ASSUME NEW s \in Senders, SendTransmit(s)
      PROVE  Budget'
  <2>1. /\ thread'[s] = Idle /\ thread[s].pc = "transmit"
        /\ \A u \in Threads \ {s} : thread'[u] = thread[u]
        /\ send_ts' = send_ts /\ count' = count /\ sends' = sends
    BY <1>0, <1>5 DEF SendTransmit, Become, aggregator
  <2>2. Outstanding' = Outstanding
    BY <2>1, <1>0, <1>a, IdleIsState DEF Outstanding
  <2> QED BY <2>1, <2>2, <1>1
<1>6. ASSUME NEW r \in Receivers, NEW m \in net, AnswerRead(r, m)
      PROVE  Budget'
  <2>1. /\ thread'[r].pc = "take" /\ thread[r].pc = "idle"
        /\ \A u \in Threads \ {r} : thread'[u] = thread[u]
        /\ send_ts' = send_ts /\ count' = count /\ sends' = sends
    BY <1>0, <1>6 DEF AnswerRead, Become, Idle, source, aggregator
  <2>2. Outstanding' = Outstanding
    BY <2>1, <1>0, <1>a DEF Outstanding
  <2> QED BY <2>1, <2>2, <1>1
<1>7. ASSUME NEW r \in Receivers, AnswerTake(r)
      PROVE  Budget'
  <2> DEFINE k == thread[r].key
  <2>0. k \in Keys /\ thread[r].pc = "take"
    BY <1>7 DEF AnswerTake, Steps
  <2>1. /\ thread'[r].pc = "add" => send_ts[k] # Absent
        /\ \A u \in Threads \ {r} : thread'[u] = thread[u]
        /\ count' = count /\ sends' = sends
    BY <1>0, <1>7, IdleIsState DEF AnswerTake, Become, aggregator
  <2>2. send_ts'[k] = Absent /\ \A x \in Keys \ {k} : send_ts'[x] = send_ts[x]
    BY <1>0, <1>7, <2>0 DEF AnswerTake, Erase
  <2> HIDE DEF k
  <2>3. CASE thread'[r].pc = "add"
    <3>1. Outstanding' = (Outstanding \ {k}) \cup {r}
      BY <2>0, <2>1, <2>2, <2>3, <1>0, <1>a DEF Outstanding
    <3>2. k \in Outstanding
      BY <2>0, <2>1, <2>3, <1>a
    <3>3. /\ Cardinality((Outstanding \ {k}) \cup {r}) <= Cardinality(Outstanding)
          /\ Cardinality((Outstanding \ {k}) \cup {r}) \in Nat
      BY <3>2, <1>0, Exchange
    <3> QED BY <2>1, <3>1, <3>3, <1>0 DEF Budget
  <2>4. CASE thread'[r].pc # "add"
    <3>1. Outstanding' = Outstanding \ {k}
      BY <2>0, <2>1, <2>2, <2>4, <1>0, <1>a DEF Outstanding
    <3>2. /\ Cardinality(Outstanding \ {k}) <= Cardinality(Outstanding)
          /\ Cardinality(Outstanding \ {k}) \in Nat
      BY <1>0, Exchange
    <3> QED BY <2>1, <3>1, <3>2, <1>0 DEF Budget
  <2> QED BY <2>3, <2>4
<1>8. ASSUME NEW r \in Receivers, AnswerAdd(r)
      PROVE  Budget'
  <2>1. /\ thread'[r] = Idle /\ thread[r].pc = "add"
        /\ \A u \in Threads \ {r} : thread'[u] = thread[u]
        /\ send_ts' = send_ts /\ count' = count + 1 /\ sends' = sends
    BY <1>0, <1>8 DEF AnswerAdd, AddSample, Become, source
  <2>2. Outstanding' = Outstanding \ {r}
    BY <2>1, <1>0, <1>a, IdleIsState DEF Outstanding
  <2>3. r \in Outstanding
    BY <2>1, <1>a
  <2>4. /\ Cardinality(Outstanding \ {r}) = Cardinality(Outstanding) - 1
        /\ Cardinality(Outstanding \ {r}) \in Nat
    BY <2>3, <1>0, Exchange
  <2> QED BY <2>1, <2>2, <2>4, <1>0 DEF Budget
<1>9. CASE Clear
  <2>1. /\ count' = 0 /\ sends' = Cardinality(Outstanding)
        /\ thread' = thread /\ send_ts' = send_ts
    BY <1>9 DEF Clear, source
  <2>2. Outstanding' = Outstanding
    BY <2>1 DEF Outstanding
  <2> QED BY <2>1, <2>2, <1>0 DEF Budget
<1> QED BY <1>2, <1>3, <1>4, <1>5, <1>6, <1>7, <1>8, <1>9 DEF Next

-----------------------------------------------------------------------------
(***************************************************************************)
(* latest_ and the times of the samples.                                   *)
(***************************************************************************)
LEMMA NewestNext ==
  ASSUME TypeOK, Steps, Newest, [Next]_vars
  PROVE  Newest'
<1> USE Constants
<1>0. /\ thread \in [Threads -> ThreadState] /\ clock \in Times /\ clock \in Nat
      /\ Senders \subseteq Threads /\ Receivers \subseteq Threads
      /\ Receivers \cap Senders = {} /\ samples \in Seq(Samples) /\ Len(samples) <= MaxKeep
      /\ latest \in {Absent} \cup Times /\ latest \in Nat
      /\ overtaken \in BOOLEAN
  BY DEF TypeOK, Threads
<1>1. ASSUME UNCHANGED <<clock, latest, samples, overtaken>>,
             \A r \in Receivers : thread'[r].pc # "idle" => thread'[r].ts >= latest
                                                          \/ /\ thread[r].pc # "idle"
                                                             /\ thread'[r].ts = thread[r].ts
      PROVE  Newest'
  BY <1>1 DEF Newest
<1>2. CASE Tick
  <2>1. clock' = clock + 1 /\ UNCHANGED <<latest, samples, overtaken, thread>>
    BY <1>2 DEF Tick, aggregator
  <2>2. latest <= clock + 1
    BY <1>0 DEF Newest
  <2> QED BY <2>1, <2>2 DEF Newest
<1>3. ASSUME NEW s \in Senders,
             SendStore(s) \/ SendTransmit(s) \/ \E k \in Keys : SendRead(s, k)
      PROVE  Newest'
  <2>1. \A r \in Receivers : thread'[r] = thread[r]
    BY <1>0, <1>3 DEF SendStore, SendTransmit, SendRead, Become
  <2>2. UNCHANGED <<clock, latest, samples, overtaken>>
    BY <1>3 DEF SendStore, SendTransmit, SendRead, aggregator
  <2> QED BY <1>1, <2>1, <2>2
<1>4. ASSUME NEW r \in Receivers, NEW m \in net, AnswerRead(r, m)
      PROVE  Newest'
  <2>1. /\ thread'[r].ts = clock
        /\ \A u \in Receivers \ {r} : thread'[u] = thread[u]
    BY <1>0, <1>4 DEF AnswerRead, Become, Idle
  <2>2. UNCHANGED <<clock, latest, samples, overtaken>>
    BY <1>4 DEF AnswerRead, aggregator
  <2>3. clock >= latest
    BY <1>0 DEF Newest
  <2> QED BY <1>1, <2>1, <2>2, <2>3
<1>5. ASSUME NEW r \in Receivers, AnswerTake(r)
      PROVE  Newest'
  <2>1. /\ thread'[r].pc # "idle" => thread'[r].ts = thread[r].ts
        /\ thread[r].pc = "take"
        /\ \A u \in Receivers \ {r} : thread'[u] = thread[u]
    BY <1>0, <1>5, IdleIsState DEF AnswerTake, Become, ThreadState
  <2>2. UNCHANGED <<clock, latest, samples, overtaken>>
    BY <1>5 DEF AnswerTake, aggregator
  <2> QED BY <1>1, <2>1, <2>2
<1>6. ASSUME NEW r \in Receivers, AnswerAdd(r)
      PROVE  Newest'
  <2> DEFINE e == [rtt |-> thread[r].rtt, ts |-> thread[r].ts, sent |-> thread[r].sent]
  <2>1. thread'[r] = Idle /\ \A u \in Receivers \ {r} : thread'[u] = thread[u]
    BY <1>0, <1>6 DEF AnswerAdd, Become
  <2>2. thread[r].pc = "add"
    BY <1>6 DEF AnswerAdd
  <2>3. /\ samples' = Kept(Append(samples, e)) /\ latest' = e.ts /\ clock' = clock
        /\ e.ts = thread[r].ts
    BY <1>6 DEF AnswerAdd, AddSample, Stamp
  <2>4. e \in Samples
    <3>1. [key |-> thread[r].key, sent |-> thread[r].sent] \in Requests
      BY <2>2 DEF Steps, TypeOK
    <3> QED BY <3>1, <2>2 DEF Steps, Requests, Samples
  <2>5. thread[r].ts <= clock /\ thread[r].ts \in Nat /\ thread[r].ts \in Times
    BY <2>2 DEF Steps
  <2>6. ASSUME ~overtaken'
        PROVE  /\ ~overtaken
               /\ \A u \in Receivers : thread[u].pc # "idle" => ~(thread[u].ts < thread[r].ts)
    BY <2>6, <1>6 DEF AnswerAdd
  <2> HIDE DEF e
  <2>7. /\ samples' # <<>> /\ samples'[Len(samples')] = e
        /\ \A i \in DOMAIN samples' : samples'[i] = e \/ \E j \in DOMAIN samples : samples'[i] = samples[j]
    <3> DEFINE q == Kept(Append(samples, e))
    <3>1. /\ q # <<>> /\ q[Len(q)] = e
          /\ \A i \in DOMAIN q : q[i] = e \/ \E j \in DOMAIN samples : q[i] = samples[j]
      BY <2>4, <1>0, KeptFacts
    <3>2. samples' = q
      BY <2>3
    <3> HIDE DEF q
    <3> QED BY <3>1, <3>2
  <2>8. ASSUME ~overtaken', NEW u \in Receivers, thread'[u].pc # "idle"
        PROVE  thread'[u].ts >= e.ts
    <3>1. u # r /\ thread'[u] = thread[u]
      BY <2>1, <2>8, IdleIsState
    <3>2. thread[u].ts \in Nat /\ ~(thread[u].ts < thread[r].ts)
      BY <2>6, <2>8, <3>1 DEF Steps
    <3> QED BY <3>1, <3>2, <2>3, <2>5
  <2>9. ASSUME ~overtaken', NEW i \in DOMAIN samples'
        PROVE  samples'[i].ts <= e.ts
    <3>1. CASE samples'[i] = e
      BY <3>1, <2>3, <2>5
    <3>2. ASSUME NEW j \in DOMAIN samples, samples'[i] = samples[j]
          PROVE  samples'[i].ts <= e.ts
      <4>1. samples[j].ts <= latest /\ thread[r].ts >= latest
        BY <2>2, <2>6, <2>9 DEF Newest
      <4>2. samples[j] \in Samples
        BY <1>0
      <4>3. samples[j].ts \in Nat
        BY <4>2 DEF Samples
      <4> QED BY <3>2, <4>1, <4>3, <2>3, <2>5, <1>0
    <3> QED BY <3>1, <3>2, <2>7
  <2> QED BY <2>3, <2>5, <2>7, <2>8, <2>9 DEF Newest
<1>7. CASE Clear
  <2>1. samples' = <<>> /\ latest' = 0 /\ UNCHANGED <<clock, thread>>
    BY <1>7 DEF Clear
  <2>2. \A r \in Receivers : thread[r].pc # "idle" => thread[r].ts >= 0
    <3>1. \A r \in Receivers : thread[r].pc # "idle" => thread[r].ts \in Times
      BY DEF Steps
    <3>2. \A n \in Times : n >= 0
      OBVIOUS
    <3> QED BY <3>1, <3>2
  <2> QED BY <2>1, <2>2, <1>0 DEF Newest
<1>8. CASE UNCHANGED vars
  BY <1>8 DEF vars, aggregator, Newest
<1> QED BY <1>2, <1>3, <1>4, <1>5, <1>6, <1>7, <1>8 DEF Next

-----------------------------------------------------------------------------
(***************************************************************************)
(* min_value_ and max_value_ and the values of the samples.                *)
(***************************************************************************)
LEMMA ExtremesNext ==
  ASSUME TypeOK, Steps, Extremes, [Next]_vars
  PROVE  Extremes'
<1> USE Constants
<1>0. samples \in Seq(Samples) /\ Len(samples) <= MaxKeep
      /\ least \in {Absent} \cup Times /\ most \in {Absent} \cup Times
      /\ \A i \in DOMAIN samples : samples[i].rtt \in Nat
  BY SampleFacts DEF TypeOK
<1>1. ASSUME UNCHANGED <<samples, least, most>>
      PROVE  Extremes'
  BY <1>1 DEF Extremes
<1>2. ASSUME NEW r \in Receivers, AnswerAdd(r)
      PROVE  Extremes'
  <2> DEFINE e == [rtt |-> thread[r].rtt, ts |-> thread[r].ts, sent |-> thread[r].sent]
  <2>1. e \in Samples /\ e.rtt \in Times /\ e.rtt \in Nat
    <3>1. thread[r].pc = "add"
      BY <1>2 DEF AnswerAdd
    <3>2. [key |-> thread[r].key, sent |-> thread[r].sent] \in Requests
      BY <3>1 DEF Steps, TypeOK
    <3> QED BY <3>1, <3>2 DEF Steps, Requests, Samples
  <2>2. AddSample(e)
    BY <1>2 DEF AnswerAdd
  <2> HIDE DEF e
  <2>3. \A i \in DOMAIN samples' : samples'[i] = e \/ \E j \in DOMAIN samples : samples'[i] = samples[j]
    <3> DEFINE q == Kept(Append(samples, e))
    <3>1. \A i \in DOMAIN q : q[i] = e \/ \E j \in DOMAIN samples : q[i] = samples[j]
      BY <2>1, <1>0, KeptFacts
    <3>2. samples' = q
      BY <2>2 DEF AddSample
    <3> HIDE DEF q
    <3> QED BY <3>1, <3>2
  <2>4. /\ least' = IF least = Absent \/ e.rtt < least THEN e.rtt ELSE least
        /\ most' = IF most = Absent \/ e.rtt > most THEN e.rtt ELSE most
    BY <2>2 DEF AddSample
  <2>5. /\ least' \in Times /\ most' \in Times /\ least' <= e.rtt /\ e.rtt <= most'
        /\ least # Absent => least' <= least
        /\ most # Absent => most <= most'
    <3>1. least \in Nat /\ most \in Nat /\ Absent = 0
      BY <1>0
    <3>2. /\ least' \in Times /\ least' <= e.rtt
          /\ least # Absent => least' <= least
      BY <2>1, <2>4, <1>0, <3>1
    <3>3. /\ most' \in Times /\ e.rtt <= most'
          /\ most # Absent => most <= most'
      BY <2>1, <2>4, <1>0, <3>1
    <3> QED BY <3>2, <3>3
  <2>6. ASSUME NEW j \in DOMAIN samples
        PROVE  least' <= samples[j].rtt /\ samples[j].rtt <= most'
    <3>1. samples # <<>>
      OBVIOUS
    <3>2. least \in Times /\ most \in Times /\ least <= samples[j].rtt /\ samples[j].rtt <= most
      BY <3>1 DEF Extremes
    <3> QED BY <3>2, <2>5, <1>0
  <2>7. ASSUME NEW i \in DOMAIN samples'
        PROVE  least' <= samples'[i].rtt /\ samples'[i].rtt <= most'
    BY <2>3, <2>5, <2>6
  <2> QED BY <2>5, <2>7 DEF Extremes
<1>3. CASE Clear
  BY <1>3 DEF Clear, Extremes
<1> QED BY <1>1, <1>2, <1>3
     DEF Next, Tick, SendStore, SendTransmit, SendRead, AnswerTake, AnswerRead, vars, aggregator

-----------------------------------------------------------------------------
(***************************************************************************)
(* The invariant, and the properties that follow from it.                  *)
(***************************************************************************)
LEMMA InitIInv ==
  ASSUME Init
  PROVE  IInv
<1> USE Constants
<1>1. TypeOK /\ Steps
  BY StepsInit
<1>2. /\ net = {} /\ samples = <<>> /\ count = 0 /\ sends = 0 /\ latest = Absent /\ clock = 1
      /\ send_ts = [k \in Keys |-> Absent]
      /\ \A t \in Threads : thread[t].pc = "idle"
  BY IdleIsState DEF Init
<1>3. Senders \subseteq Threads /\ Receivers \subseteq Threads
  BY DEF Threads
<1>4. Recorded /\ Measured /\ NeverOverestimates /\ Newest
  BY <1>2, <1>3 DEF Recorded, Measured, NeverOverestimates, Newest
<1>5. Outstanding = {}
  BY <1>2, <1>3 DEF Outstanding
<1>6. Budget
  BY <1>2, <1>5, FS_EmptySet DEF Budget
<1>7. Extremes
  BY <1>2 DEF Extremes
<1> QED BY <1>1, <1>4, <1>6, <1>7 DEF IInv

\* The parts of the invariant are kept one by one.
LEMMA IInvNext ==
  ASSUME IInv, [Next]_vars
  PROVE  IInv'
BY StepsNext, RecordedNext, MeasuredNext, BudgetNext, NewestNext, ExtremesNext DEF IInv

\* The inductive invariant holds throughout.
LEMMA Invariant == Spec => []IInv
<1>1. Init => IInv
  BY InitIInv
<1>2. IInv /\ [Next]_vars => IInv'
  BY IInvNext
<1> QED BY <1>1, <1>2, PTL DEF Spec

\* What latest_ tells of the samples settles what freshness tells.
LEMMA NewestGivesFreshness ==
  ASSUME TypeOK, Newest
  PROVE  FreshnessByNewest
<1> USE Constants
<1>1. SUFFICES ASSUME ~overtaken, samples # <<>>, NEW now \in Instants
               PROVE  Withheld(now) <=> \A i \in DOMAIN samples : now - samples[i].ts > Threshold
  BY DEF FreshnessByNewest
<1>2. now \in Int /\ Threshold \in Nat /\ latest \in Nat
  BY RttSamplesConstants DEF Instants, TypeOK
<1>3. samples \in Seq(Samples) /\ \A i \in DOMAIN samples : samples[i] \in Samples
  BY DEF TypeOK
<1>4. \A i \in DOMAIN samples : samples[i].ts \in Nat /\ samples[i].ts <= latest
  BY <1>1, <1>3 DEF Newest, Samples
<1>5. Len(samples) \in DOMAIN samples /\ samples[Len(samples)].ts = latest
  BY <1>1, <1>3 DEF Newest
<1>6. CASE Withheld(now)
  BY <1>2, <1>4, <1>6 DEF Withheld
<1>7. CASE \A i \in DOMAIN samples : now - samples[i].ts > Threshold
  BY <1>5, <1>7 DEF Withheld
<1> QED BY <1>6, <1>7

\* Every variable of a source and its aggregator has its type, and no more than
\* kMaxKeep samples are kept.
THEOREM TypeCorrect == Spec => []TypeOK
<1>1. IInv => TypeOK
  BY DEF IInv
<1> QED BY <1>1, Invariant, PTL

\* A sample exceeds what the answer took only if two requests of one key were
\* recorded in the other order than their times were taken.
THEOREM NeverOverestimatesHolds == Spec => []NeverOverestimates
<1>1. IInv => NeverOverestimates
  BY DEF IInv
<1> QED BY <1>1, Invariant, PTL

\* No request makes two samples.
THEOREM OneSamplePerSendHolds == Spec => []OneSamplePerSend
<1>1. IInv => OneSamplePerSend
  <2>1. ASSUME IInv PROVE OneSamplePerSend
    <3>1. count + Cardinality(Outstanding) <= sends /\ Cardinality(Outstanding) \in Nat
      BY <2>1, OutstandingFinite DEF IInv, Budget
    <3>2. count \in Nat /\ sends \in Nat
      BY <2>1 DEF IInv, TypeOK
    <3> QED BY <3>1, <3>2 DEF OneSamplePerSend
  <2> QED BY <2>1
<1> QED BY <1>1, Invariant, PTL

\* While no sample overtook an earlier one, freshness is that of the newest
\* sample kept.
THEOREM FreshnessByNewestHolds == Spec => []FreshnessByNewest
<1>1. IInv => FreshnessByNewest
  BY NewestGivesFreshness DEF IInv
<1> QED BY <1>1, Invariant, PTL

-----------------------------------------------------------------------------
(***************************************************************************)
(* Weights.                                                                *)
(***************************************************************************)
LEMMA WeightFacts ==
  ASSUME NEW age \in Int
  PROVE  Weight(age) \in Nat /\ (Weight(age) > 0 <=> age \in 0..Horizon)
BY RttSamplesConstants DEF Weight

\* The samples that count are those with an age from 0 to Horizon.
LEMMA CountedFacts ==
  ASSUME TypeOK, NEW now \in Int
  PROVE  /\ Counted(now) = {i \in DOMAIN samples : now - samples[i].ts \in 0..Horizon}
         /\ IsFiniteSet(Counted(now)) /\ Cardinality(Counted(now)) \in Nat
         /\ Counted(now) # {} => Cardinality(Counted(now)) > 0
<1>1. \A i \in DOMAIN samples : now - samples[i].ts \in Int
  BY SampleFacts
<1>2. Counted(now) = {i \in DOMAIN samples : now - samples[i].ts \in 0..Horizon}
  BY <1>1, WeightFacts DEF Counted
<1>3. Counted(now) \in SUBSET DOMAIN samples
  BY DEF Counted
<1>4. IsFiniteSet(Counted(now)) /\ Cardinality(Counted(now)) \in Nat
  BY <1>3, SampleFacts, FS_Subset, FS_CardinalityType
<1>5. Counted(now) # {} => Cardinality(Counted(now)) # 0
  BY <1>4, FS_EmptySet
<1> QED BY <1>2, <1>4, <1>5

\* The weight of some samples is that of those that are counted, and grows with
\* the samples by what is added.
LEMMA WeightOfFacts ==
  ASSUME TypeOK, NEW now \in Int, NEW I \in SUBSET DOMAIN samples
  PROVE  /\ WeightOf(now, I) \in Nat
         /\ WeightOf(now, I) = WeightOf(now, I \cap Counted(now))
         /\ \A J \in SUBSET I :
              /\ WeightOf(now, J) <= WeightOf(now, I)
              /\ WeightOf(now, I) = WeightOf(now, J) + WeightOf(now, I \ J)
<1> DEFINE w == [i \in DOMAIN samples |-> Weight(now - samples[i].ts)]
<1>1. IsFiniteSet(I)
  BY SampleFacts, FS_Subset
<1>2. \A i \in DOMAIN samples : w[i] \in Nat
  <2> SUFFICES ASSUME NEW i \in DOMAIN samples PROVE Weight(now - samples[i].ts) \in Nat
    OBVIOUS
  <2>1. now - samples[i].ts \in Int
    BY SampleFacts
  <2> QED BY <2>1, WeightFacts
<1>3. \A K : WeightOf(now, K) = SumFunctionOnSet(w, K)
  BY DEF WeightOf
<1>4. \A i \in I \ Counted(now) : w[i] = 0
  BY <1>2 DEF Counted
<1> HIDE DEF w
<1>5. SumFunctionOnSet(w, I) \in Nat
  BY <1>1, <1>2, SumNat
<1>6. SumFunctionOnSet(w, I) = SumFunctionOnSet(w, I \cap Counted(now))
  <2>1. I \cap Counted(now) \in SUBSET I /\ \A i \in I \ (I \cap Counted(now)) : w[i] = 0
    BY <1>4
  <2> QED BY <1>1, <1>2, <2>1, SumSupport
<1>7. ASSUME NEW J \in SUBSET I
      PROVE  /\ SumFunctionOnSet(w, J) <= SumFunctionOnSet(w, I)
             /\ SumFunctionOnSet(w, I) = SumFunctionOnSet(w, J) + SumFunctionOnSet(w, I \ J)
  <2>1. IsFiniteSet(J) /\ IsFiniteSet(I \ J) /\ J \cap (I \ J) = {} /\ J \cup (I \ J) = I
    BY <1>1, FS_Subset
  <2>2. SumFunctionOnSet(w, J \cup (I \ J)) = SumFunctionOnSet(w, J) + SumFunctionOnSet(w, I \ J)
    BY <1>2, <2>1, SumUnion
  <2>3. SumFunctionOnSet(w, J) <= SumFunctionOnSet(w, I)
    BY <1>1, <1>2, SumMonotone
  <2> QED BY <2>1, <2>2, <2>3
<1> QED BY <1>3, <1>5, <1>6, <1>7

-----------------------------------------------------------------------------
(***************************************************************************)
(* The scan of the sorted samples.                                         *)
(***************************************************************************)
\* The weight the scan has seen after n samples.
Scanned(now, n) == WeightOf(now, {Sorted(now)[k] : k \in 1..n})

Total(now) == WeightOf(now, Counted(now))

\* arr lists each sample that counts once, by rising value.
LEMMA SortedFacts ==
  ASSUME TypeOK, NEW now \in Int
  PROVE  LET n == Cardinality(Counted(now))
             p == Sorted(now)
         IN  /\ n \in Nat /\ p \in [1..n -> Counted(now)]
             /\ \A j, k \in 1..n : p[j] = p[k] => j = k
             /\ \A i \in Counted(now) : \E k \in 1..n : p[k] = i
             /\ \A j, k \in 1..n : j < k => samples[p[j]].rtt <= samples[p[k]].rtt
<1> DEFINE n == Cardinality(Counted(now))
           p == Sorted(now)
           v == [i \in DOMAIN samples |-> samples[i].rtt]
<1>1. IsFiniteSet(Counted(now)) /\ n \in Nat /\ Counted(now) \subseteq DOMAIN samples
  BY CountedFacts DEF Counted
<1>2. \A i \in Counted(now) : v[i] \in Int
  BY <1>1, SampleFacts
<1>3. PICK q \in Bijection(1..n, Counted(now)) : Rising(q, n, v)
  <2> HIDE DEF v
  <2> QED BY <1>1, <1>2, SortedEnumeration
<1>4. q \in [1..n -> Counted(now)] /\ DOMAIN q = 1..n
  BY <1>3 DEF Bijection, Injection
<1>5. Ascending(q)
  BY <1>1, <1>3, <1>4 DEF Rising, Ascending
<1>6. p \in Bijection(1..n, Counted(now)) /\ Ascending(p)
  BY <1>3, <1>5 DEF Sorted
<1>7. p \in [1..n -> Counted(now)] /\ DOMAIN p = 1..n
  BY <1>6 DEF Bijection, Injection
<1> QED BY <1>1, <1>6, <1>7 DEF Bijection, Injection, Surjection, IsInjective, Ascending

\* After the last sample the scan has seen the whole weight; before, a part.
LEMMA ScannedFacts ==
  ASSUME TypeOK, NEW now \in Int, NEW k \in 0..Cardinality(Counted(now))
  PROVE  /\ Scanned(now, k) \in Nat /\ Total(now) \in Nat /\ Scanned(now, k) <= Total(now)
         /\ k = Cardinality(Counted(now)) => Scanned(now, k) = Total(now)
         /\ k = 0 => Scanned(now, k) = 0
         /\ {Sorted(now)[j] : j \in 1..k} \in SUBSET Counted(now)
<1> DEFINE n == Cardinality(Counted(now))
           p == Sorted(now)
           I == {p[j] : j \in 1..k}
<1>1. /\ n \in Nat /\ p \in [1..n -> Counted(now)]
      /\ \A i \in Counted(now) : \E j \in 1..n : p[j] = i
  BY SortedFacts
<1>2. I \in SUBSET Counted(now) /\ (k = n => I = Counted(now)) /\ (k = 0 => I = {})
  <2> HIDE DEF p
  <2> QED BY <1>1
<1>3. Counted(now) \in SUBSET DOMAIN samples
  BY DEF Counted
<1>4. Scanned(now, k) = WeightOf(now, I)
  BY DEF Scanned
<1> HIDE DEF I
<1>5. WeightOf(now, {}) = 0
  BY SumEmpty DEF WeightOf
<1>6. WeightOf(now, I) \in Nat /\ Total(now) \in Nat /\ WeightOf(now, I) <= Total(now)
  BY <1>2, <1>3, WeightOfFacts DEF Total
<1> QED BY <1>2, <1>4, <1>5, <1>6 DEF Total, I

\* The scan stops at the first sample at which it has seen the asked part.
LEMMA PercentilePosition ==
  ASSUME TypeOK, NEW now \in Int, Counted(now) # {},
         NEW den \in Nat \ {0}, NEW num \in 0..den
  PROVE  \E m \in 1..Cardinality(Counted(now)) :
           /\ Percentile(now, num, den) = samples[Sorted(now)[m]].rtt
           /\ den * Scanned(now, m) >= num * Total(now)
           /\ \A k \in 1..(m - 1) : den * Scanned(now, k) < num * Total(now)
<1> DEFINE n == Cardinality(Counted(now))
           arr == Sorted(now)
           seen == {k \in DOMAIN arr : den * Scanned(now, k) >= num * Total(now)}
<1>1. n \in Nat /\ n > 0
  BY CountedFacts
<1>2. arr \in [1..n -> Counted(now)] /\ DOMAIN arr = 1..n
  BY SortedFacts
<1>3. Percentile(now, num, den) = samples[arr[Min(seen)]].rtt
  BY DEF Percentile, Scanned, Total
<1>4. \A k \in 0..n : Scanned(now, k) \in Nat
  BY ScannedFacts
<1>5. Scanned(now, n) = Total(now) /\ Total(now) \in Nat
  BY <1>1, ScannedFacts
<1> HIDE DEF n, arr
<1>6. n \in seen
  <2>1. den * Total(now) >= num * Total(now)
    BY <1>5
  <2> QED BY <1>1, <1>2, <1>5, <2>1
<1>7. seen \subseteq Nat /\ seen # {}
  BY <1>2, <1>6
<1> DEFINE m == Min(seen)
<1>8. m \in seen /\ \A k \in seen : m <= k
  <2> HIDE DEF seen
  <2> QED BY <1>7, LeastNumber
<1>9. m \in 1..n /\ den * Scanned(now, m) >= num * Total(now)
  BY <1>2, <1>8
<1>10. ASSUME NEW k \in 1..(m - 1)
       PROVE  den * Scanned(now, k) < num * Total(now)
  <2> HIDE DEF m
  <2>1. k \in 1..n /\ k < m /\ k \in 0..n
    BY <1>9, <1>1
  <2>2. k \notin seen
    BY <1>8, <1>9, <2>1
  <2>3. ~(den * Scanned(now, k) >= num * Total(now))
    BY <1>2, <2>1, <2>2
  <2>4. Scanned(now, k) \in Nat
    BY <1>4, <2>1
  <2>5. den * Scanned(now, k) \in Int /\ num * Total(now) \in Int
    BY <2>4, <1>5
  <2> QED BY <2>3, <2>5
<1> QED BY <1>3, <1>9, <1>10 DEF n, arr

-----------------------------------------------------------------------------
(***************************************************************************)
(* What the estimate and the statistics say.                               *)
(***************************************************************************)
LEMMA MedianFacts ==
  ASSUME TypeOK, NEW now \in Int
  PROVE  Median(now) # Absent <=> Counted(now) # {}
<1>1. CASE Counted(now) = {}
  BY <1>1 DEF Median, Percentile
<1>2. CASE Counted(now) # {}
  <2>1. PICK m \in 1..Cardinality(Counted(now)) : Median(now) = samples[Sorted(now)[m]].rtt
    <3>1. \A den \in Nat \ {0} : \A num \in 0..den :
            \E m \in 1..Cardinality(Counted(now)) :
              Percentile(now, num, den) = samples[Sorted(now)[m]].rtt
      BY <1>2, PercentilePosition
    <3>2. 1 \in 0..2 /\ 2 \in Nat \ {0}
      OBVIOUS
    <3> QED BY <3>1, <3>2 DEF Median
  <2>2. Sorted(now)[m] \in DOMAIN samples
    BY SortedFacts DEF Counted
  <2>3. Median(now) \in Times
    BY <2>1, <2>2, SampleFacts
  <2> QED BY <1>2, <2>3, Constants
<1> QED BY <1>1, <1>2

\* The scan for a larger part stops no earlier.
LEMMA PercentilesRise ==
  ASSUME TypeOK, NEW now \in Int, Counted(now) # {},
         NEW den \in Nat \ {0}, NEW num \in 0..den, NEW e \in Nat \ {0}, NEW c \in 0..e,
         \A s, t \in Nat : e * s >= c * t => den * s >= num * t
  PROVE  Percentile(now, num, den) <= Percentile(now, c, e)
<1>1. PICK m \in 1..Cardinality(Counted(now)) :
           /\ Percentile(now, num, den) = samples[Sorted(now)[m]].rtt
           /\ den * Scanned(now, m) >= num * Total(now)
           /\ \A k \in 1..(m - 1) : den * Scanned(now, k) < num * Total(now)
  BY PercentilePosition
<1>2. PICK l \in 1..Cardinality(Counted(now)) :
           /\ Percentile(now, c, e) = samples[Sorted(now)[l]].rtt
           /\ e * Scanned(now, l) >= c * Total(now)
  BY PercentilePosition
<1>3. Scanned(now, l) \in Nat /\ Total(now) \in Nat /\ Cardinality(Counted(now)) \in Nat
  BY ScannedFacts, CountedFacts
<1>4. den * Scanned(now, l) >= num * Total(now)
  BY <1>2, <1>3
<1>5. ~(l < m)
  <2> SUFFICES ASSUME l < m PROVE FALSE
    OBVIOUS
  <2>1. l \in 1..(m - 1)
    BY <1>3
  <2>2. den * Scanned(now, l) < num * Total(now)
    BY <1>1, <2>1
  <2>3. den * Scanned(now, l) \in Int /\ num * Total(now) \in Int
    BY <1>3
  <2> QED BY <1>4, <2>2, <2>3
<1>6. Sorted(now)[m] \in DOMAIN samples
  BY SortedFacts DEF Counted
<1>7. CASE m = l
  BY <1>1, <1>2, <1>6, <1>7, SampleFacts
<1>8. CASE m # l
  <2>1. m < l
    BY <1>3, <1>5, <1>8
  <2>2. samples[Sorted(now)[m]].rtt <= samples[Sorted(now)[l]].rtt
    BY <2>1, SortedFacts
  <2> QED BY <1>1, <1>2, <2>2
<1> QED BY <1>7, <1>8

\* StatisticsOrdered at one instant.
LEMMA StatisticsOrderedAt ==
  ASSUME TypeOK, Extremes, NEW now \in Int
  PROVE  IF \E i \in DOMAIN samples : now - samples[i].ts \in 0..Horizon
         THEN /\ least <= Median(now)
              /\ Median(now) <= Percentile(now, 19, 20)
              /\ Percentile(now, 19, 20) <= Percentile(now, 99, 100)
              /\ Percentile(now, 99, 100) <= most
         ELSE Median(now) = Absent
<1>1. CASE Counted(now) = {}
  BY <1>1, CountedFacts, MedianFacts
<1>2. CASE Counted(now) # {}
  <2>1. Median(now) <= Percentile(now, 19, 20)
    <3>1. \A s, t \in Nat : 20 * s >= 19 * t => 2 * s >= 1 * t
      OBVIOUS
    <3> QED BY <3>1, <1>2, PercentilesRise DEF Median
  <2>2. Percentile(now, 19, 20) <= Percentile(now, 99, 100)
    <3>1. \A s, t \in Nat : 100 * s >= 99 * t => 20 * s >= 19 * t
      OBVIOUS
    <3> QED BY <3>1, <1>2, PercentilesRise
  <2>3. \A den \in Nat \ {0} : \A num \in 0..den :
          least <= Percentile(now, num, den) /\ Percentile(now, num, den) <= most
    <3> TAKE den \in Nat \ {0}
    <3> TAKE num \in 0..den
    <3>1. PICK m \in 1..Cardinality(Counted(now)) :
               Percentile(now, num, den) = samples[Sorted(now)[m]].rtt
      BY <1>2, PercentilePosition
    <3>2. Sorted(now)[m] \in DOMAIN samples
      BY SortedFacts DEF Counted
    <3>3. samples # <<>>
      BY <3>2
    <3> QED BY <3>1, <3>2, <3>3 DEF Extremes
  <2>4. least <= Percentile(now, 1, 2) /\ Percentile(now, 99, 100) <= most
    BY <2>3
  <2>5. \E i \in DOMAIN samples : now - samples[i].ts \in 0..Horizon
    BY <1>2, CountedFacts
  <2> QED BY <2>1, <2>2, <2>4, <2>5 DEF Median
<1> QED BY <1>1, <1>2

\* The weight of the samples up to a value, and below it.
UpTo(now, v) == WeightOf(now, {i \in DOMAIN samples : samples[i].rtt <= v})

Below(now, v) == WeightOf(now, {i \in DOMAIN samples : samples[i].rtt < v})

\* The value returned is one that counts, the asked part lies at or below it,
\* and no more than that part below it.
LEMMA PercentileParts ==
  ASSUME TypeOK, NEW now \in Int, Counted(now) # {},
         NEW den \in Nat \ {0}, NEW num \in 0..den,
         NEW v, v = Percentile(now, num, den)
  PROVE  /\ \E i \in Counted(now) : samples[i].rtt = v
         /\ den * UpTo(now, v) >= num * Total(now)
         /\ den * Below(now, v) <= num * Total(now)
         /\ (\E i \in Counted(now) : samples[i].rtt < v) => den * Below(now, v) < num * Total(now)
<1> DEFINE n == Cardinality(Counted(now))
           p == Sorted(now)
           First(k) == {p[j] : j \in 1..k}
<1>1. PICK m \in 1..n :
           /\ v = samples[p[m]].rtt
           /\ den * Scanned(now, m) >= num * Total(now)
           /\ \A k \in 1..(m - 1) : den * Scanned(now, k) < num * Total(now)
  BY PercentilePosition
<1>2. /\ n \in Nat /\ p \in [1..n -> Counted(now)]
      /\ \A i \in Counted(now) : \E k \in 1..n : p[k] = i
      /\ \A j, k \in 1..n : j < k => samples[p[j]].rtt <= samples[p[k]].rtt
  BY SortedFacts
<1>3. Counted(now) \in SUBSET DOMAIN samples
  BY DEF Counted
<1>4. /\ m \in Nat /\ m - 1 \in 0..n /\ m \in 0..n
      /\ v \in Nat /\ \A i \in DOMAIN samples : samples[i].rtt \in Nat
  BY <1>1, <1>2, <1>3, SampleFacts
<1>5. \A k \in 0..n : /\ Scanned(now, k) = WeightOf(now, First(k))
                      /\ Scanned(now, k) \in Nat /\ Total(now) \in Nat
                      /\ First(k) \in SUBSET DOMAIN samples
                      /\ k = 0 => Scanned(now, k) = 0
  <2> TAKE k \in 0..n
  <2> QED BY <1>3, ScannedFacts DEF Scanned
<1> DEFINE U == {i \in DOMAIN samples : samples[i].rtt <= v}
           B == {i \in DOMAIN samples : samples[i].rtt < v}
<1>6. First(m) \in SUBSET U
  <2> SUFFICES ASSUME NEW j \in 1..m PROVE samples[p[j]].rtt <= v /\ p[j] \in DOMAIN samples
    OBVIOUS
  <2>1. j \in 1..n /\ (j = m \/ j < m)
    BY <1>1, <1>2
  <2> QED BY <2>1, <1>1, <1>2, <1>3, <1>4
<1>7. B \cap Counted(now) \in SUBSET First(m - 1)
  <2> SUFFICES ASSUME NEW i \in Counted(now), samples[i].rtt < v PROVE i \in First(m - 1)
    OBVIOUS
  <2>1. PICK k \in 1..n : p[k] = i
    BY <1>2
  <2>2. ~(k >= m)
    <3> SUFFICES ASSUME k >= m PROVE FALSE
      OBVIOUS
    <3>1. v <= samples[p[k]].rtt
      BY <1>1, <1>2, <1>4
    <3> QED BY <3>1, <2>1, <1>3, <1>4
  <2> QED BY <2>1, <2>2, <1>4
<1> HIDE DEF First, U, B
<1>8. UpTo(now, v) \in Nat /\ Scanned(now, m) <= UpTo(now, v)
  <2>1. U \in SUBSET DOMAIN samples /\ UpTo(now, v) = WeightOf(now, U)
    BY DEF U, UpTo
  <2>2. WeightOf(now, U) \in Nat /\ WeightOf(now, First(m)) <= WeightOf(now, U)
    BY <2>1, <1>6, WeightOfFacts
  <2> QED BY <2>1, <2>2, <1>4, <1>5
<1>9. Below(now, v) \in Nat /\ Below(now, v) <= Scanned(now, m - 1)
  <2>1. B \in SUBSET DOMAIN samples /\ Below(now, v) = WeightOf(now, B)
    BY DEF B, Below
  <2>2. WeightOf(now, B) \in Nat /\ WeightOf(now, B) = WeightOf(now, B \cap Counted(now))
    BY <2>1, WeightOfFacts
  <2>3. First(m - 1) \in SUBSET DOMAIN samples /\ Scanned(now, m - 1) = WeightOf(now, First(m - 1))
    BY <1>4, <1>5
  <2>4. WeightOf(now, B \cap Counted(now)) <= WeightOf(now, First(m - 1))
    BY <2>3, <1>7, WeightOfFacts
  <2> QED BY <2>1, <2>2, <2>3, <2>4
<1>10. Scanned(now, m) \in Nat /\ Scanned(now, m - 1) \in Nat /\ Total(now) \in Nat
  BY <1>4, <1>5
<1>11. \A a, b \in Nat : a <= b => den * a <= den * b /\ den * a \in Nat /\ num * b \in Nat
  OBVIOUS
<1>12. den * UpTo(now, v) >= num * Total(now)
  <2>1. den * Scanned(now, m) <= den * UpTo(now, v)
    BY <1>8, <1>10, <1>11
  <2> QED BY <2>1, <1>1, <1>8, <1>10, <1>11
<1>13. den * Below(now, v) <= den * Scanned(now, m - 1) /\ den * Below(now, v) \in Nat
  BY <1>9, <1>10, <1>11
<1>14. CASE m = 1
  <2>1. den * Scanned(now, m - 1) = 0
    BY <1>14, <1>4, <1>5
  <2>2. First(m - 1) = {}
    BY <1>14 DEF First
  <2>3. ~ \E i \in Counted(now) : samples[i].rtt < v
    BY <2>2, <1>3, <1>7 DEF B
  <2>4. \E i \in Counted(now) : samples[i].rtt = v
    BY <1>1, <1>2
  <2>5. num * Total(now) >= 0
    BY <1>10, <1>11
  <2> QED BY <2>1, <2>3, <2>4, <2>5, <1>12, <1>13
<1>15. CASE m # 1
  <2>1. den * Scanned(now, m - 1) < num * Total(now)
    BY <1>1, <1>4, <1>15
  <2>2. \E i \in Counted(now) : samples[i].rtt = v
    BY <1>1, <1>2
  <2>3. den * Scanned(now, m - 1) \in Nat /\ num * Total(now) \in Nat
    BY <1>10, <1>11
  <2> QED BY <2>1, <2>2, <2>3, <1>12, <1>13
<1> QED BY <1>14, <1>15

\* MedianSplits at one instant.
LEMMA MedianSplitsAt ==
  ASSUME TypeOK, NEW now \in Int, Median(now) # Absent
  PROVE  LET all == DOMAIN samples
         IN  /\ \E i \in all : samples[i].rtt = Median(now) /\ samples[i].ts <= now
             /\ 2 * WeightOf(now, {i \in all : samples[i].rtt < Median(now)}) <= WeightOf(now, all)
             /\ 2 * WeightOf(now, {i \in all : samples[i].rtt > Median(now)}) <= WeightOf(now, all)
<1> DEFINE all == DOMAIN samples
           v == Median(now)
           U == {i \in all : samples[i].rtt <= v}
           A == {i \in all : samples[i].rtt > v}
<1>1. Counted(now) # {}
  BY MedianFacts
<1>2. /\ \E i \in Counted(now) : samples[i].rtt = v
      /\ 2 * UpTo(now, v) >= 1 * Total(now)
      /\ 2 * Below(now, v) <= 1 * Total(now)
  <2>1. \A den \in Nat \ {0} : \A num \in 0..den : \A x :
          x = Percentile(now, num, den) =>
            /\ \E i \in Counted(now) : samples[i].rtt = x
            /\ den * UpTo(now, x) >= num * Total(now)
            /\ den * Below(now, x) <= num * Total(now)
    BY <1>1, PercentileParts
  <2>2. v = Percentile(now, 1, 2) /\ 1 \in 0..2 /\ 2 \in Nat \ {0}
    BY DEF Median
  <2> HIDE DEF v
  <2> QED BY <2>1, <2>2
<1>3. PICK i \in Counted(now) : samples[i].rtt = v
  BY <1>2
<1>4. i \in all /\ now - samples[i].ts \in 0..Horizon /\ samples[i].ts \in Nat
  BY CountedFacts, SampleFacts
<1>5. samples[i].ts <= now
  BY <1>4, RttSamplesConstants
<1>6. WeightOf(now, all) = Total(now) /\ Total(now) \in Nat
  <2>1. all \cap Counted(now) = Counted(now)
    BY DEF Counted
  <2>2. WeightOf(now, all) = WeightOf(now, all \cap Counted(now)) /\ WeightOf(now, all) \in Nat
    BY WeightOfFacts
  <2> QED BY <2>1, <2>2 DEF Total
<1>7. A = all \ U /\ U \in SUBSET all
  <2>1. v \in Nat /\ \A j \in all : samples[j].rtt \in Nat
    BY <1>3, <1>4, SampleFacts
  <2> HIDE DEF v
  <2> QED BY <2>1
<1>8. UpTo(now, v) = WeightOf(now, U) /\ Below(now, v) = WeightOf(now, {j \in all : samples[j].rtt < v})
  BY DEF UpTo, Below
<1> HIDE DEF U, A
<1>9. WeightOf(now, all) = WeightOf(now, U) + WeightOf(now, all \ U)
  BY <1>7, WeightOfFacts
<1>10. WeightOf(now, U) \in Nat /\ WeightOf(now, A) \in Nat
  <2>1. U \in SUBSET DOMAIN samples /\ A \in SUBSET DOMAIN samples
    BY <1>7
  <2> QED BY <2>1, WeightOfFacts
<1>11. 2 * WeightOf(now, A) <= WeightOf(now, all)
  BY <1>2, <1>6, <1>7, <1>8, <1>9, <1>10
<1>12. 2 * WeightOf(now, {j \in all : samples[j].rtt < v}) <= WeightOf(now, all)
  BY <1>2, <1>6, <1>8
<1> QED BY <1>3, <1>4, <1>5, <1>11, <1>12 DEF A

\* The instants asked for are numbers.
LEMMA InstantsAreInt == Instants \subseteq Int
BY RttSamplesConstants DEF Instants

\* The statistics lie between min_value_ and max_value_, in the order of their
\* parts, and are missing only if no sample counts, for any weights, any number
\* of samples and any order that std::sort may leave equal values in.
THEOREM StatisticsOrderedHolds == Spec => []StatisticsOrdered
<1>1. IInv => StatisticsOrdered
  BY StatisticsOrderedAt, InstantsAreInt DEF IInv, StatisticsOrdered
<1> QED BY <1>1, Invariant, PTL

\* The estimate is a weighted median of the samples that are not yet to come.
THEOREM MedianSplitsHolds == Spec => []MedianSplits
<1>1. IInv => MedianSplits
  BY MedianSplitsAt, InstantsAreInt DEF IInv, MedianSplits
<1> QED BY <1>1, Invariant, PTL

\* What percentile is for: the least value among the samples that count up to
\* which the asked part of the weight lies.
LeastValueOfPart ==
  \A now \in Int, den \in Nat \ {0} : \A num \in 0..den :
    LET v == Percentile(now, num, den)
    IN  Counted(now) # {} =>
          /\ \E i \in Counted(now) : samples[i].rtt = v
          /\ den * UpTo(now, v) >= num * Total(now)
          /\ \A i \in Counted(now) :
               samples[i].rtt < v => den * UpTo(now, samples[i].rtt) < num * Total(now)

\* The scan of the sorted samples returns that value, whatever the order of
\* equal values (WeightedMedian::percentile).
THEOREM PercentileCorrect == Spec => []LeastValueOfPart
<1>1. ASSUME TypeOK PROVE LeastValueOfPart
  <2> SUFFICES ASSUME NEW now \in Int, NEW den \in Nat \ {0}, NEW num \in 0..den, Counted(now) # {},
                      NEW v, v = Percentile(now, num, den)
               PROVE  /\ \E i \in Counted(now) : samples[i].rtt = v
                      /\ den * UpTo(now, v) >= num * Total(now)
                      /\ \A i \in Counted(now) :
                           samples[i].rtt < v => den * UpTo(now, samples[i].rtt) < num * Total(now)
    BY DEF LeastValueOfPart
  <2>1. /\ \E i \in Counted(now) : samples[i].rtt = v
        /\ den * UpTo(now, v) >= num * Total(now)
        /\ (\E i \in Counted(now) : samples[i].rtt < v) => den * Below(now, v) < num * Total(now)
    BY <1>1, PercentileParts
  <2>2. ASSUME NEW i \in Counted(now), samples[i].rtt < v
        PROVE  den * UpTo(now, samples[i].rtt) < num * Total(now)
    <3> DEFINE I == {j \in DOMAIN samples : samples[j].rtt <= samples[i].rtt}
               B == {j \in DOMAIN samples : samples[j].rtt < v}
    <3>1. v \in Nat /\ \A j \in DOMAIN samples : samples[j].rtt \in Nat
      BY <1>1, <2>1, SampleFacts DEF Counted
    <3>2. I \in SUBSET B /\ B \in SUBSET DOMAIN samples /\ I \in SUBSET DOMAIN samples
      BY <3>1, <2>2 DEF Counted
    <3>3. UpTo(now, samples[i].rtt) = WeightOf(now, I) /\ Below(now, v) = WeightOf(now, B)
      BY DEF UpTo, Below
    <3> HIDE DEF I, B
    <3>4. WeightOf(now, I) \in Nat /\ WeightOf(now, B) \in Nat /\ WeightOf(now, I) <= WeightOf(now, B)
      BY <1>1, <3>2, WeightOfFacts
    <3>5. Total(now) \in Nat
      <4>1. 0 \in 0..Cardinality(Counted(now))
        BY <1>1, CountedFacts
      <4> QED BY <1>1, <4>1, ScannedFacts
    <3>6. \A a, b \in Nat : a <= b => den * a <= den * b /\ den * a \in Nat /\ den * b \in Nat /\ num * b \in Nat
      OBVIOUS
    <3>7. den * WeightOf(now, I) <= den * WeightOf(now, B) /\ den * WeightOf(now, I) \in Nat
          /\ den * WeightOf(now, B) \in Nat
      BY <3>4, <3>6
    <3>8. num * Total(now) \in Nat
      BY <3>5
    <3>9. den * WeightOf(now, B) < num * Total(now)
      BY <2>1, <2>2, <3>3
    <3> QED BY <3>3, <3>7, <3>8, <3>9
  <2> QED BY <2>1, <2>2
<1>2. IInv => LeastValueOfPart
  BY <1>1 DEF IInv
<1> QED BY <1>2, Invariant, PTL
=============================================================================
