---------------------------- MODULE RttSamples ----------------------------
(***************************************************************************)
(* One source of RTT samples and the aggregator it feeds.  The source      *)
(* (HttpRttSource.h, QuicH2PingSource.h) keeps, per request id or          *)
(* authority, the time a request was sent, and takes it out again when an  *)
(* answer arrives.  The aggregator (Aggregator.h, WeightedMedian.h) keeps  *)
(* the last samples, from which estimates and statistics are read.         *)
(*                                                                         *)
(* Several threads send and several receive.  The network may lose an      *)
(* answer, delay it, give it twice or out of order.  A thread reads the    *)
(* clock before it takes the source's lock mu_, and adds the sample, under *)
(* the lock of the Nqe, after it released it.                              *)
(***************************************************************************)
EXTENDS Integers, Sequences, FiniteSets, FiniteSetsExt

CONSTANTS
  Senders,      \* threads that call onRequestSent, or ping
  Receivers,    \* threads that call onResponseHeaders, or onPong
  Keys,         \* request ids, or authorities
  NoKey,        \* the key of a thread that handles none
  MaxKeep,      \* kMaxKeep, 512 in the code
  Threshold,    \* freshness_threshold
  Horizon,      \* the age up to which a sample has a weight above zero
  Decay,        \* exp(-lambda * age) for the ages up to Horizon, in units of
                \* the smallest weight
  MaxClock,     \* bound on the time
  MaxSends      \* bound on the requests between two clearings

ASSUME RttSamplesConstants ==
  /\ IsFiniteSet(Senders) /\ IsFiniteSet(Receivers) /\ IsFiniteSet(Keys)
  /\ Senders \cap Receivers = {}
  /\ (Senders \cup Receivers) \cap Keys = {}
  /\ NoKey \notin Keys
  /\ MaxKeep \in Nat \ {0} /\ MaxClock \in Nat \ {0}
  /\ Threshold \in Nat /\ Horizon \in Nat /\ MaxSends \in Nat
  /\ Decay \in [0..Horizon -> Nat \ {0}]

VARIABLES
  clock,        \* the steady clock
  send_ts,      \* send_ts_, or in_flight_: when the key's request was sent
  net,          \* requests that were sent, each of which may be answered
  thread,       \* what each thread is doing
  samples,      \* samples_ of the aggregator, oldest first
  latest,       \* latest_
  count,        \* sample_count_
  least,        \* min_value_
  most,         \* max_value_
  sends,        \* history: requests since the aggregator is in use, with
                \* those that were then unanswered
  reordered,    \* history: a request was recorded after a later one of its key
  overtaken     \* history: a sample was added before one with an earlier time

source == <<send_ts, net>>
aggregator == <<samples, latest, count, least, most>>
vars == <<clock, source, thread, aggregator, sends, reordered, overtaken>>

-----------------------------------------------------------------------------
Threads == Senders \cup Receivers

Times == 1..MaxClock
Absent == 0             \* no entry, no value or time_point{}, by place

Requests == [key : Keys, sent : Times]

Idle == [pc |-> "idle", key |-> NoKey, ts |-> Absent, sent |-> Absent, rtt |-> Absent]

\* ts: the clock when the call began.  sent: history, when the request that is
\* answered was sent.
ThreadState ==
  [pc : {"idle", "store", "transmit", "take", "add"}, key : Keys \cup {NoKey},
   ts : {Absent} \cup Times, sent : {Absent} \cup Times, rtt : {Absent} \cup Times]

\* sent: history, as above.
Samples == [rtt : Times, ts : Times, sent : Times]

\* Requests on their way to the network and in it.
Sent == net \cup {[key |-> thread[s].key, sent |-> thread[s].ts] :
                    s \in {t \in Senders : thread[t].pc = "transmit"}}

\* Requests that can still become a sample: not yet recorded, recorded, or
\* answered and about to be added.
Outstanding ==
  {s \in Senders : thread[s].pc = "store"}
    \cup {k \in Keys : send_ts[k] # Absent}
    \cup {r \in Receivers : thread[r].pc = "add"}

Init ==
  /\ clock = 1
  /\ send_ts = [k \in Keys |-> Absent]
  /\ net = {}
  /\ thread = [t \in Threads |-> Idle]
  /\ samples = <<>> /\ latest = Absent /\ count = 0
  /\ least = Absent /\ most = Absent
  /\ sends = 0 /\ reordered = FALSE /\ overtaken = FALSE

Become(t, rec) == thread' = [thread EXCEPT ![t] = rec]

Tick ==
  /\ clock < MaxClock
  /\ clock' = clock + 1
  /\ UNCHANGED <<source, thread, aggregator, sends, reordered, overtaken>>

-----------------------------------------------------------------------------
(***************************************************************************)
(* onRequestSent and ping.  (ping does nothing without a ping_.)           *)
(***************************************************************************)
SendRead(s, k) ==
  /\ thread[s].pc = "idle"
  /\ sends < MaxSends
  /\ Become(s, [Idle EXCEPT !.pc = "store", !.key = k, !.ts = clock])
  /\ sends' = sends + 1
  /\ UNCHANGED <<clock, source, aggregator, reordered, overtaken>>

\* Mutant of Record: an entry that is there is kept, as emplace does.
RecordFirst(k, ts) ==
  send_ts' = [send_ts EXCEPT ![k] = IF @ = Absent THEN ts ELSE @]

Record(k, ts) == send_ts' = [send_ts EXCEPT ![k] = ts]

SendStore(s) ==
  LET k == thread[s].key
      ts == thread[s].ts
  IN  /\ thread[s].pc = "store"
      /\ Record(k, ts)
      /\ Become(s, [thread[s] EXCEPT !.pc = "transmit"])
      /\ reordered' = (reordered \/ \E m \in Sent : m.key = k /\ m.sent > ts)
      /\ UNCHANGED <<clock, net, aggregator, sends, overtaken>>

SendTransmit(s) ==
  /\ thread[s].pc = "transmit"
  /\ net' = net \cup {[key |-> thread[s].key, sent |-> thread[s].ts]}
  /\ Become(s, Idle)
  /\ UNCHANGED <<clock, send_ts, aggregator, sends, reordered, overtaken>>

-----------------------------------------------------------------------------
(***************************************************************************)
(* onResponseHeaders and onPong: any request may be answered at any time,  *)
(* and once more after that.                                               *)
(***************************************************************************)
AnswerRead(r, m) ==
  /\ thread[r].pc = "idle"
  /\ Become(r, [Idle EXCEPT !.pc = "take", !.key = m.key, !.ts = clock, !.sent = m.sent])
  /\ UNCHANGED <<clock, source, aggregator, sends, reordered, overtaken>>

\* Mutant of Erase: the entry stays.
EraseNothing(k) == UNCHANGED send_ts

Erase(k) == send_ts' = [send_ts EXCEPT ![k] = Absent]

\* An answer to an unknown request, or in no time at all, makes no sample.
AnswerTake(r) ==
  LET k == thread[r].key
      rtt == thread[r].ts - send_ts[k]
  IN  /\ thread[r].pc = "take"
      /\ Erase(k)
      /\ Become(r, IF send_ts[k] # Absent /\ rtt > 0
                   THEN [thread[r] EXCEPT !.pc = "add", !.rtt = rtt]
                   ELSE Idle)
      /\ UNCHANGED <<clock, net, aggregator, sends, reordered, overtaken>>

-----------------------------------------------------------------------------
(***************************************************************************)
(* The aggregator: add, under the lock of the Nqe, and clearAllSamples.    *)
(***************************************************************************)
\* Mutant of Kept: one sample too many.
KeptOneMore(seq) == IF Len(seq) > MaxKeep + 1 THEN Tail(seq) ELSE seq

Kept(seq) == IF Len(seq) > MaxKeep THEN Tail(seq) ELSE seq

\* Mutant of Stamp: the time is that of the call of add.
StampNow(ts) == latest' = clock

Stamp(ts) == latest' = ts

AddSample(s) ==
  /\ samples' = Kept(Append(samples, s))
  /\ Stamp(s.ts)
  /\ count' = count + 1
  /\ least' = IF least = Absent \/ s.rtt < least THEN s.rtt ELSE least
  /\ most' = IF most = Absent \/ s.rtt > most THEN s.rtt ELSE most

AnswerAdd(r) ==
  /\ thread[r].pc = "add"
  /\ AddSample([rtt |-> thread[r].rtt, ts |-> thread[r].ts, sent |-> thread[r].sent])
  /\ overtaken' = (overtaken \/ \E o \in Receivers :
                                  thread[o].pc # "idle" /\ thread[o].ts < thread[r].ts)
  /\ Become(r, Idle)
  /\ UNCHANGED <<clock, source, sends, reordered>>

\* A new aggregator after a change of network.  The source is not told.
Clear ==
  /\ samples' = <<>> /\ latest' = Absent /\ count' = 0
  /\ least' = Absent /\ most' = Absent
  /\ sends' = Cardinality(Outstanding)
  /\ overtaken' = FALSE
  /\ UNCHANGED <<clock, source, thread, reordered>>

Next ==
  \/ Tick
  \/ \E s \in Senders : SendStore(s) \/ SendTransmit(s) \/ \E k \in Keys : SendRead(s, k)
  \/ \E r \in Receivers : AnswerTake(r) \/ AnswerAdd(r) \/ \E m \in net : AnswerRead(r, m)
  \/ Clear

Spec == Init /\ [][Next]_vars

-----------------------------------------------------------------------------
(***************************************************************************)
(* Estimates and statistics, read at a time now that the caller took from  *)
(* the clock before it waited for the lock.                                *)
(***************************************************************************)
\* Mutant of Weight: a sample from after now has a weight too.
WeightOfFuture(age) ==
  IF age > Horizon THEN 0 ELSE IF age < 0 THEN Decay[0] ELSE Decay[age]

\* exp(-lambda * age), which falls with the age until it is too small for a
\* double, and zero for a sample from after now.
Weight(age) == IF age \in 0..Horizon THEN Decay[age] ELSE 0

WeightOf(now, I) ==
  SumFunctionOnSet([i \in DOMAIN samples |-> Weight(now - samples[i].ts)], I)

\* The samples that are put into arr: those that have a weight.
Counted(now) == {i \in DOMAIN samples : Weight(now - samples[i].ts) > 0}

Ascending(p) == \A j, k \in DOMAIN p : j < k => samples[p[j]].rtt <= samples[p[k]].rtt

\* arr, sorted by value: std::sort leaves equal values in any order.
Sorted(now) ==
  CHOOSE p \in Bijection(1..Cardinality(Counted(now)), Counted(now)) : Ascending(p)

\* Mutant of Percentile: every sample counts as one.
PercentileUnweighted(now, num, den) ==
  LET arr == Sorted(now)
      seen == {n \in DOMAIN arr : den * n >= num * Cardinality(DOMAIN arr)}
  IN  IF Counted(now) = {} THEN Absent ELSE samples[arr[Min(seen)]].rtt

\* percentile(now, num / den): the value at which the scan of arr has seen
\* that part of the weight.
Percentile(now, num, den) ==
  LET arr == Sorted(now)
      cum(n) == WeightOf(now, {arr[k] : k \in 1..n})
      seen == {n \in DOMAIN arr : den * cum(n) >= num * WeightOf(now, Counted(now))}
  IN  IF Counted(now) = {} THEN Absent ELSE samples[arr[Min(seen)]].rtt

\* WeightedMedian::estimate, and what combineLocked makes of it.
Median(now) == Percentile(now, 1, 2)

Withheld(now) == now - latest > Threshold

-----------------------------------------------------------------------------
\* Every variable has its type, and no more than MaxKeep samples are kept.
TypeOK ==
  /\ clock \in Times
  /\ send_ts \in [Keys -> {Absent} \cup Times]
  /\ net \subseteq Requests
  /\ thread \in [Threads -> ThreadState]
  /\ samples \in Seq(Samples) /\ Len(samples) <= MaxKeep
  /\ latest \in {Absent} \cup Times
  /\ count \in Nat /\ sends \in Nat
  /\ least \in {Absent} \cup Times /\ most \in {Absent} \cup Times
  /\ reordered \in BOOLEAN /\ overtaken \in BOOLEAN

\* A sample never exceeds the time from the request that was answered to the
\* answer, however answers are lost, delayed or duplicated: a key that is used
\* again makes a sample too short, never too long, unless two requests of one
\* key are recorded in the other order than their times were taken.
NeverOverestimates ==
  ~reordered => \A i \in DOMAIN samples : samples[i].rtt <= samples[i].ts - samples[i].sent

\* No request makes two samples, duplicated answers and concurrent receivers
\* notwithstanding; after a change of network, no more samples are left over
\* than requests were outstanding.
OneSamplePerSend == count <= sends

\* Times at which estimates and statistics may be asked for.
Instants == 0..(MaxClock + Threshold + 1)

\* Unless a sample overtook an earlier one on its way to the aggregator, an
\* estimate is withheld if and only if none of the samples is recent.
FreshnessByNewest ==
  ~overtaken /\ samples # <<>> =>
    \A now \in Instants :
      Withheld(now) <=> \A i \in DOMAIN samples : now - samples[i].ts > Threshold

\* What getStatistics reports lies between the extremes and in order, and is
\* missing only if no sample counts at that time.
StatisticsOrdered ==
  \A now \in Instants :
    IF \E i \in DOMAIN samples : now - samples[i].ts \in 0..Horizon
    THEN /\ least <= Median(now)
         /\ Median(now) <= Percentile(now, 19, 20)
         /\ Percentile(now, 19, 20) <= Percentile(now, 99, 100)
         /\ Percentile(now, 99, 100) <= most
    ELSE Median(now) = Absent

\* The estimate is a median: at most half of the weight lies below it and at
\* most half above it, and none of it is a sample that is yet to come.
MedianSplits ==
  \A now \in Instants :
    LET all == DOMAIN samples
    IN  Median(now) # Absent =>
          /\ \E i \in all : samples[i].rtt = Median(now) /\ samples[i].ts <= now
          /\ 2 * WeightOf(now, {i \in all : samples[i].rtt < Median(now)}) <= WeightOf(now, all)
          /\ 2 * WeightOf(now, {i \in all : samples[i].rtt > Median(now)}) <= WeightOf(now, all)
=============================================================================
