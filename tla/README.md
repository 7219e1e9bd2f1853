# The Network Quality Estimator in TLA+

This directory holds TLA+ models of the Network Quality Estimator library, the
TLC runs that check them on small instances, and TLAPS proofs of their main
invariants for every instance. Source paths below are relative to the
repository; `PROJECT.json` maps each definition to the lines it translates.

## The system

The library estimates how good the present network connection is. Application
code feeds it round-trip times and transfers; it answers with estimates, with an
*effective connection type* (ECT, from offline to 4G), and with callbacks when
the ECT changes. Its parts:

| part | state it keeps | operations | interacts with |
|---|---|---|---|
| `Nqe` (`src/Nqe.cpp`) | four RTT aggregators, the throughput analyzer, the last ECT with the counts and the flag that decide when to recompute it, observers, the cache | `addSample`, `addThroughputSample`, `onNetworkChange`, `enable`/`disableNetworkChangeDetection`, `updateCachedQuality`, `loadCachedQualityForCurrentNetwork`, observers, `getEstimate` | called by any thread; called back by the notifier's thread; calls observers outside its lock |
| `ThroughputAnalyzer` | requests in flight (good and degrading), the observation window, samples | request start, bytes read, completion, connection change, `addTransfer` | owned by `Nqe`, or used directly |
| `NetworkQualityStore` | a map from network to quality, and a file | `put`, `get`, `remove`, `clear`, prune, `save`, `load`; loads when constructed, saves when destroyed | owned by `Nqe` |
| `NetworkChangeNotifier` | flags, a monitor thread, the last type, observers | `start`, `stop`, `shutdown`, `checkForChanges`, observers | a singleton; reads netlink; calls `Nqe` back |
| transport sampler (in `Nqe.cpp`) | a thread, a set of sockets | start, stop, register, unregister | calls `Nqe::addSample` |
| `Aggregator`, `WeightedMedian` | at most 512 samples with times | add, estimate, percentile | inside `Nqe` and the analyzer, under their locks |
| estimate algorithms (`combineRtt`, bounding, adjustment, clamping, ECT classification) | none | pure functions | called under `Nqe`'s lock |
| `HttpRttSource`, `QuicH2PingSource` | start times of requests and pings in flight | sent / received | call `Nqe::addSample` |
| `ReportGenerator`, `Logger`, the Android bridge, demos | none of their own | rendering and forwarding | read only |

What is hard about it:

* **threads without a common lock**: application threads, the sampler and the
  notifier all enter `Nqe`, which takes and releases its lock several times per
  call and calls observers in between;
* **state read before a lock and used after it**: the network a cache entry is
  written for, the analyzer a transfer goes to, the list of observers called;
* **bookkeeping that several events shrink**: completions, evictions, connection
  changes and reads all change the request sets an open window relies on, and
  the sums it subtracts as unsigned numbers;
* **a file rewritten in place** that a crash can cut short, and whose entries'
  ages are relative;
* **a thread's life cycle decided by a flag**: starts, stops and a monitor that
  ends on its own; a sampler that is stopped from a callback or by its own
  observer;
* **answers nobody can rely on**: lost, late, repeated and reordered ones,
  matched to requests by a key that may be used again;
* **a chain of corrections** to an estimate, each of which looks at what the one
  before left.

What makes each part correct: the analyzer measures only while nothing in flight
distorts the measurement, and never counts too much; `Nqe` holds no ECT without
samples and announces each change once; a sample is never longer than the
request it measures took; an estimate is consistent in itself and grades no
better connection lower; a stopped or destroyed sampler leaves no thread behind;
the store believes no entry older than it is and respects its limits; the
notifier misses no change, and its stop stops. The hazards in `PROJECT.json` say
where each could go wrong, and which property watches it.

## The modules

### ThroughputAnalyzer

`requests`, `degrading`, `next_seq` are `requests_`,
`accuracy_degrading_requests_`, `next_sequence_id_`; `window` gathers the
members of the observation window. Every public method holds `mu_` throughout,
so an action is a call. A `std::set<Request>` is ordered by `sequence_id` alone:
`Insert` does nothing when the key is taken. This matters, because degrading
requests are inserted with the default key 0. Bytes stand for bits: the code
multiplies by 8 and keeps sums, differences and the transfer limit in a
`size_t`, so they are reduced modulo `SizeT`, an eighth of its range (a
request's own byte counter needs no reduction, as only its bits are used). A
request starts with the `bytes_received` its caller put into the struct
(`InitialBytes`; `test/unit_test.cpp:1122` starts with 50000). `flight`, which
request each caller has in progress, is the environment: callers start a request
only under an id that is free, and complete what they started. `Tick` lets time
pass. A window remembers, as history, the bytes reported for tracked requests
while it is open, by reads and with new requests, whether the sum at its start
was whole, and whether an underflow closed it. `ObservationNeverOvercounts`
holds for whole windows only: when the sum has wrapped before the window starts,
the check for a decrease compares remainders and may pass wrongly.

Mutants aside, an action is split where the method branches:
`NotifyStartTransaction` into discarded, degrading and tracked requests,
`NotifyRequestCompleted` into tracked, degrading and unknown ones, after the
observation that comes first.

### Nqe

A critical section under `mu_` is a step; between two, a thread holds in
`thread[t]` only what it copied: the network it asked for, the analyzer it read,
the observers it will call with an old and a new ECT. `addSample` is thus
`AddSample`, `MaybeCompute`, `NotifyOne` for each observer, `UpdateReadNetwork`,
`UpdatePut`; `onNetworkChange` is `OnNetworkChange`, `LoadRead`, `LoadAdd`, and
then the announcements. Sample values are abstracted to how many samples the
aggregators hold (`rated`: HTTP and transport, which classify the connection;
`others`: ping and end-to-end; `transfers`) and, as history, on which networks
they were measured. The ECT a computation finds is any, if there are rating
samples or transfers, and otherwise UNKNOWN. The cache is seen as `Nqe` uses it;
`NetworkQualityStore` models the store itself. `CallsDue` is what the threads'
copied lists of observers amount to for `EctAnnouncements`.

Observers are called without the lock and may call `Nqe` back
(`docs/README.md:651-653`): such a call is a caller of its own, in `Nested`, on
the thread of the call that calls the observer (`Outer`), which takes no step
until it is over. It can begin while an RTT or throughput observer is called
(between the sample and the computation) or an ECT observer is (between two
calls of the list), and may change the ECT and announce that while the outer call
still owes the rest of its list. `Roam` moves the
device, `ReportChange` is the notifier's callback.

Left out: RTT and throughput observers beyond the calls they may make, and the
estimate callback, which change nothing here; two counters that are written and never read; the statistics. An
observer is taken to be registered once (the vector would hold it twice), the
loop over observers may go in any order, and only the notifier's thread calls
`onNetworkChange`. In the code the recomputation rule is asked right after the
flag `network_change_since_last_ect_computation_` was set, so `OnNetworkChange`
always computes; the other branch is kept as the code has it.

### EctAnnouncements

The promise behind `EffectiveConnectionTypeObserver`, without locks, samples or
cache: a change of the ECT makes a call due to each observer that is registered
then, with the ECT before and after, and whoever made the change, a thread or an
observer that a thread is telling, makes all these calls before changing the ECT
again. A thread that tells an observer which changes the ECT in turn does not:
there the calls of two changes interleave on one thread. `Nqe` implements it
(`AnnouncesAsPromised`), with the ECT as `last_ect`, the registered observers,
and the calls in the copied lists of its threads. It says nothing about the
order of calls by different threads, or by a thread and the observers it calls, which is what `NqeNotifyOrder` shows to be
missing.

### TransportSampler

`start` is `StartStore`, `StartSpawn`, `StartAssign`; `stop` is `StopStore`,
`StopJoinable`, `StopJoin`: one access to `run_` or `th_` each. `Destroy` is
`~Nqe`, which stops first; the application is taken to have no call in progress
then. `loop` and `sampleOnce` are the `Worker...` actions: the flag, the copy of
the sockets, and for each socket a sample, which needs `mu_` of the `Nqe` twice
and calls observers in between; an observer may itself start or stop the
sampler. `GetEstimate` holds `mu_` until its callback returns, and the callback
may start or stop too. Assigning to a joinable thread, and joining a thread that
is not joinable or oneself, sets `terminated`. `late` counts samples since a
socket was unregistered, `disturbed` records starts and stops that overlapped, a
second start and a stop by an observer. `mu_` is recursive: a thread that holds
it is in its callback, and no observer is called with it held. What the system
call says of a socket is a choice between `WorkerSkip` and `WorkerSample`.

### RttSamples

`HttpRttSource` and `QuicH2PingSource` have the same steps: the clock is read
(`SendRead`, `AnswerRead`), the map is changed under the source's lock
(`SendStore`, `AnswerTake`), the request goes out (`SendTransmit`), the sample
is added under the lock of the `Nqe` (`AnswerAdd`). `net` holds the requests
sent, any of which may be answered at any time, or again, or never. The
aggregator is its sequence of samples with the time of the last, the count and
the extremes. `Clear` is a change of network, of which the source knows nothing.
`Median`, `Percentile` and `Withheld` read the aggregator at a time `now`, which
the caller took before it waited for the lock, so that it may be earlier than a
sample's. The exponential weight of an age is `Decay[age]`, any positive number,
up to `Horizon`, and zero beyond, as an exponential is in a double; for TLC it
is a power of two. `Counted` are the samples `percentile` puts into `arr`,
`Sorted` is `arr` after `std::sort`, which may leave equal values in any order,
and `Percentile` scans it. `reordered` and `overtaken` are history: times stored
or added in another order than they were read.

### Estimation

`combineLocked` as a function of what the sources give (`given`): each has a
value, or none because it has no samples or old ones; throughput and counts
likewise. The steps are operators named as in the code: `BoundedHttpRtt`,
`AdjustedHttpRtt`, `CombineRtt`, `ComputeEffectiveConnectionType`,
`ClampedKbps`. `validateOptions` checks neither thresholds nor multipliers, so
the module assumes no order among them: classification is the code's chain of
comparisons. `TypeOfOwnValues` states the options it needs as a condition
(`ClampAboveClass`): with thresholds out of order, or a clamping multiplier
below 1, a throughput clamped to its class moves into a worse one. Numbers are integers, a product with a multiplier is rounded
down, and the weighted geometric mean of `combineRtt` is any value from the
lesser to the greater argument, which the code's `clamp` (or, when the HTTP RTT
is the lower one, the mean itself) stays within.

### NetworkQualityStore

Every operation holds `mutex_` throughout and is one step. `cache` is a function
on the networks in the map; an entry is its time stamp, its emptiness and, as
history, when it was made. `file` is the set of valid lines. A save writes a
line for each fresh entry with its age; a load reads a line back as made `age`
ago. `CrashInSave` leaves any subset of the lines, and perhaps one cut within
the digits of its age, which is the last field: a cut elsewhere makes the line
invalid. `std::map` order decides which of two equally old entries is evicted
and which of two lines for one network wins; the model allows each. Commas in
names become underscores in the file (`Sanitized`).

### NetworkChangeNotifier

The Linux build. The flags are atomics and no lock spans a call, so a step is a
single access: `start` is `StartExchange`, `StartReset`, `StartSpawn`,
`StartReadType`, `StartStoreType`; `stop` is `StopExchange`, `StopRequest`,
`StopJoinable`, `StopJoin`, and `shutdown` goes on to `ShutdownClear`.
`MonitorOpen`, `MonitorCheck`, `MonitorSelect`, `MonitorRead` are `monitorLoop`,
which may fail to open its socket (`MonitorCannotOpen`) or to read it
(`MonitorBreaks`). `Report`, `CopyObservers`, `Notify` are
`onConnectionTypeChanged` and `notifyObservers`, run by the monitor and by
callers of `checkForChanges`. The initial type is stored without the lock, as in
the code. One `recv` takes one datagram; `MonitorSelect` takes a batch and leaves
none waiting, which the properties do not tell apart, as a datagram left behind
makes the next `select` return at once. Assigning to a `std::thread` that is
still joinable, and joining one's own thread, ends the program: `terminated` then
stops everything, which is why these runs do not check for deadlock.

An observer may call back: a call in `Nested` runs on the thread of `Outer`, the
call or the monitor that called the observer, which waits for it. Each time an
observer is called it makes at most one call (a bound, in `Begin`); `On` is the
thread a call runs on, and decides whether a stop joins itself. `disturbed`
records that two starts or stops overlapped, that the socket could not be opened,
or that an observer called by the monitor stopped the notifier.

## The runs

| run | instance | shows |
|---|---|---|
| `ThroughputAnalyzer` | 4 ids, 3 kinds, table of 3, 2 requests needed, 5 starts with 0 or 1 byte, 2 bytes per request, sums modulo 4 | 7 properties hold in every order of calls |
| `AnalyzerDegradingInFlight` | same, requests start with no bytes and sums do not wrap | violated: a window opens with a degrading request in flight |
| `Nqe` | 1 caller, the notifier and a call made by the caller's observers, 2 observers, 1 network, 1 ECT, 1 sample at a time, 1 change | 4 invariants hold in every interleaving, and the announcements are those of `EctAnnouncements` |
| `NqeNotifyOrder` | 2 callers, 2 networks, 2 ECTs, no cache | violated: an observer's old type is not the one it was told |
| `NqeCacheNetwork` | 1 caller, 2 networks, 2 ECTs | violated: one network's samples are stored for another |
| `NetworkQualityStore` | 3 networks (two collide in the file), capacity 2, age 1, time 3 | 5 properties hold across restarts and crashes |
| `StoreLoadOverwrites` | same | violated: a load replaces fresh entries |
| `TransportSampler` | 2 controlling threads, 2 workers, 1 socket | 5 invariants and 1 liveness property hold |
| `RttSamples` | 2 senders, 2 receivers, 1 key, 3 sends, 3 points in time, 2 samples kept | 6 invariants hold whatever the network does |
| `Estimation` | RTTs in each class and at a threshold, throughputs, counts on both sides of the minimum, any of them missing | 5 invariants hold for 48,000 combinations of inputs and outcomes |
| `NetworkChangeNotifier` | 1 thread that controls and checks, the monitor and the calls of its observer, 1 observer, 2 types, batches of 2 | 4 invariants and 2 liveness properties hold |
| `NotifierStopHangs` | 2 controlling threads | violated: a stop that meets a start waits for ever |

Why these bounds are enough. *ThroughputAnalyzer*: three requests fill the
table, a fourth evicts, and a fifth start follows an eviction; two bytes make a
sum fall below its start, which is the underflow, and two requests in flight
leave a third to complete under an open window. A sum of 4 bytes wraps to nothing,
before a window starts and in it. *Nqe*: one sample before a clear
and one after make the last counts exceed the present ones if a reset is
forgotten, and samples that a change cleared make room for others; one caller
against the notifier meets every critical section with every other; two observers
leave one to be told while the other, called back, changes the ECT; what needs two
callers or two networks is in the runs that show it. Its view leaves out what is
recorded only for the properties of those runs (`seen`, `origins`, and of the
cache all but which entries hold something): no guard and no property of this
run depends on it but `TypeOK`, which the proofs establish without any view.
*NetworkQualityStore*: a capacity of 2 with three networks exceeds the limit by
a load and by a put; four points in time make an entry fresh, at the limit,
stale, and kept over a restart. *NetworkChangeNotifier*: the thread and
the observer's calls on the monitor are two that start and stop, and overlap in
every way, three would add only a second overlap; `NotifierStopHangs` has two
threads without such calls. *TransportSampler*:
two workers are what a second start makes, the second of which has to wait for,
or leave, the first; one socket is copied, unregistered, sampled and registered
again. *RttSamples*: one key used by two senders is reused, overwritten and
recorded in the wrong order, two receivers add in the wrong order and answer
twice; with two samples kept a third is dropped; an age of 1 is recent and one
of 2 is not. *Estimation*: thresholds and multipliers are the defaults scaled
down, so that every bound is above, below and between the values, and a bound
may cross a class.

Five disagreements between the code and what its comments say have a `violation`
run; each is described under "findings" in `PROJECT.json` with the line it
contradicts. More are listed under "Seen while modelling".

### Fairness

The specifications of the two background threads state fairness.
*NetworkChangeNotifier*: weak fairness of the monitor's steps and of each
thread's steps inside a call it has begun. The operating system schedules every
runnable thread, `select` has a timeout of one second, a join returns when the
thread has ended, and observers are assumed to return. *TransportSampler*: the
same for the steps inside a start or stop, the sampler's steps and the return of
the estimate callback; strong fairness of the sampler's two steps under `mu_`,
as a thread that keeps asking for a mutex gets it in the end, though others take
it in between. Nothing makes a caller call, the network change, a message or an
answer arrive. The other modules are checked for safety only, because a call in
them is one step or ends after a bounded number of steps.

## The proofs

Each `...Proofs` module proves that an inductive invariant holds in every
reachable state for all values of the constants allowed by the module's ASSUMEs,
one lemma or step per action, and derives the theorems from it.

* **ThroughputAnalyzerProofs**: `TypeOK`, `WindowInv`, `TrackedInFlight`,
  `TableBounded`, `ClosedOnlyByUnderflow` and the action properties
  `StartEvictsOldestOnly` and `ObservationNeverOvercounts`. The invariant is the
  conjunction of the properties and of one more fact, that no two tracked
  requests have one sequence number: without it an insertion could be dropped
  and an eviction could drop more than one. `ObservationNeverOvercounts` rests
  on a second invariant, `Credit`: if the sum was whole when the window started,
  what the tracked requests received since is no more than what was reported
  while it is open. A read or a new request adds the same to both sides; a
  completion, an eviction or an observation only takes bytes off the first,
  which is why the subtraction may underflow but the result is never too large.
  A sum that wraps later only becomes smaller.
* **NqeProofs**: `TypeOK`, `NoCounterWrap`, `EctNeedsSamples`,
  `EveryChangeAnnounced` for any number of threads, observers and calls made by
  observers. The last one
  counts the threads that hold an observer and needs to know more: a thread that
  owes calls is announcing, or loading the cache before it announces, and it
  announces a change, so that it cannot drop the calls (`Holds`). The same
  invariant gives `AnnouncementsKept`, that `Nqe` implements `EctAnnouncements`:
  each step is mapped to a `Change`, `Tell`, `Register`, `Unregister` or to
  none. `CallsBounded` adds that calls are not only owed but made: the record of
  a thread bounds the steps its call still takes, at most five more than there
  are observers, each step of the thread lowers the bound, one is possible
  unless an observer it called is in a call of its own, and no other thread
  changes it.
* **NetworkQualityStoreProofs**: `TypeOK`, `NeverBelievedOlder`, and the action
  properties `PutEvictsOldest`, `OnlyLoadExceeds`, `SavedComesBack`. The
  invariant adds that every network of the last complete save still has a line
  in the file, one that a load takes over (`SavedInFile`).
* **NetworkChangeNotifierProofs**: `TypeOK`, `OnlyDisturbedTerminates`,
  `ThreadFollowsFlag`, `MonitorUpToDate` for any number of threads and any
  arrangement of calls made by observers. `ControlInv`
  says, as long as nothing was disturbed, how far the one start or stop in
  progress has come and what that means for the flags, the thread object and the
  monitor; the properties speak only of the moments between calls and are not
  inductive alone. `StopWaitBounded` and `MessageWaitBounded` are the safety part
  of the two liveness properties: the monitor's record gives the number of steps
  it may still take before it ends, or before it polls its socket (a batch is at
  most `MaxBatch` messages, each reported to the observers once); each step of
  the monitor lowers it, no other step raises it (a call by an observer uses up
  one of those to be told), and while a stop or a message waits one step of the
  monitor is possible, unless its observer is in a call of its own.
* **TransportSamplerProofs**: its five invariants, for any sets of threads and
  sockets. `Control` is the counterpart of `ControlInv`. `DestroyedAlone` holds
  even after disturbed calls, and needs `Owned`: each worker that was made is
  held by `th_` or by a start that has not assigned it, stated for every group
  of workers, so that two starts by workers cannot hold each other. Its
  `StopWaitBounded` is the safety part of `StopReturns`: a round takes at most
  three steps for each socket it copied, and a step is possible unless `mu_` is
  held by a callback, which may return if it is not the one that stops.
* **RttSamplesProofs**: `TypeOK`, `NeverOverestimates`, `OneSamplePerSend`,
  `FreshnessByNewest`, for any number of threads and keys. `Recorded` says that
  an entry is no older than any request of its key on the way, `Measured`
  carries that to a sample about to be added, `Budget` counts samples and
  outstanding requests together, and `Newest` relates `latest_` to the samples
  and to the answers still being handled. `Extremes` keeps the extremes around
  the samples. Of the scan in `percentile` it is proved, for any positive
  weights and any part, that it returns the least value up to which that part
  of the weight lies (`PercentileCorrect`); `StatisticsOrdered` and
  `MedianSplits` follow.
* **SumTheorems**: what the two modules above need of sums over finite sets, as
  the community modules define them, and that a finite set can be sorted. The
  library's induction theorems cannot be instantiated (they take an operator),
  so an argument by induction takes a least counterexample instead, which the
  well-foundedness of strict inclusion gives.
* **EstimationProofs**: all five invariants, for all thresholds, multipliers and
  inputs. The lemmas say of each step of the computation that it keeps a value
  in its class (under `ClampAboveClass`, for the clamped throughput), within its
  bounds, and that it preserves order.

With that every invariant, every action property and the refinement that a run
checks is proved. Only model-checked: the liveness properties
`UndisturbedReturns`, `MessagesRead` and the sampler's `StopReturns`, and the
properties of the violation runs. Of the liveness properties the bounds are
proved, for finite sets of observers and sockets (which the modules assume: the
code lists them in a vector and a set); what is left is the last argument, that a fair
thread whose guard holds takes its step, which needs ENABLED.

## Not modelled

* `ReportGenerator` and `Logger` format; the Android bridge forwards; `TCP_INFO`
  and the interface scan are system calls; demos and build files are not part of
  the library.
* A use of a destroyed object (the analyzer replaced while a transfer runs
  through the old pointer) has no outcome a model could list; the lost transfer
  is modelled.
* RTT and throughput observers are called like ECT observers, from a copied
  list, but without any state that depends on it (`Nqe` has the calls they make
  in turn); `validateOptions` and the
  setters check or assign single values.
* A line break in a network's name, which the file would not survive any more
  than a comma, and a save whose writes fail silently: `SavedComesBack` speaks of
  names without either and of saves that were written.
* Signal strengths: `Nqe` adds no sample and reads no value with one, so they
  have no effect.
* The other platforms' monitors, and the other platforms' sampling, which differ
  in their system calls only.
* The composition of `Nqe` with a store whose entries age: `Nqe` and
  `NetworkQualityStore` meet in the cache only, and the questions it raises (a
  cached RTT that is loaded as new) have no promise to be held against.

### Seen while modelling

Disagreements and surprises without a run of their own:

* `isHangingWindow` is never called, and `Nqe` never passes the hanging-window
  options on; `docs/CHROME_NQE_FEATURES.md:421` says hanging windows are
  "automatically filtered".
* The time between a save and the next load does not count, so an entry older
  than `max_cache_age` is returned; `NetworkQualityStore.h:36` says "older
  entries are discarded".
* `removeObserver` of the notifier can return while a call to that observer is
  still to come, from the copy of the list; `NetworkChangeNotifier.h:122` says
  "Observer must remain valid until removed".
* A stop of the sampler from the estimate callback waits for a thread that may
  wait for the lock the callback holds: `StopReturns` of `TransportSampler`
  excepts this case. `docs/README.md:651` says "`Nqe` uses `std::recursive_mutex`
  to allow safe observer callbacks while holding locks", and `:653` "Observer
  callbacks are invoked outside of locks to prevent deadlocks"; this callback is
  invoked under the lock, and a recursive mutex does not help the other thread.
* An observer that the notifier calls on its monitor thread
  (`NetworkChangeNotifier.cpp:757`) and that calls `stop` or `shutdown` joins its
  own thread (`:93`), which throws `std::system_error` and ends the program;
  `NetworkChangeNotifier.h:71` says "All public methods can be called from
  multiple threads", and the comment at `NetworkChangeNotifier.cpp:755` that
  observers are notified "outside the lock to prevent deadlocks".
  `OnlyDisturbedTerminates` counts this stop as `disturbed`.
* An ECT observer that adds a sample while it is told of a change may change the
  ECT again: the observers after it in the list hear of the second change before
  the first, from a single thread. It is the disagreement of `NqeNotifyOrder`
  without a second thread.
* The HTTP RTT is bounded by 1.6 times the end-to-end RTT (`Nqe.h:121-123`), and
  that bound comes last, so that it may take the HTTP RTT below the transport
  RTT (`Nqe.cpp:1090-1097`); `docs/README.md:10` says "Transport RTT ≤ HTTP RTT ≤
  End-to-End RTT" (also `:99-101`, `:750`), `docs/CHROME_NQE_FEATURES.md:92`
  "Upper Bound: HTTP RTT <= End-to-End RTT". `HttpWithinBounds` states the
  bounds the code sets.
* An HTTP RTT with few samples is replaced by the typical RTT of a preliminary
  type, and it is the transport samples that are few
  (`Nqe.cpp:1103-1160`); `docs/README.md:11` says "When sample count < 30, HTTP RTT
  adjusted using End-to-End RTT" and `:105` "Blends HTTP RTT with End-to-End RTT".
  The comment at `Nqe.cpp:1113-1116` adds "We don't have a cached estimate (checked
  by caller)" and "Connection is fast enough (>= 3G)": the caller checks nothing,
  and 2G types are adjusted too.
* A request that starts with bytes, as its caller may (`ThroughputAnalyzer.h:48`),
  credits an open window with bytes that were not received in it; the comment at
  `ThroughputAnalyzer.cpp:233` says "Calculate bits received during window".
* The bits of the requests in flight are summed in a `size_t`
  (`ThroughputAnalyzer.cpp:269-276`), which wraps at 512 MiB where it has 32 bits;
  a window that starts after that may be credited with too much.
* A load fills the cache beyond `max_cache_size`, and puts then take off one entry
  at a time; `NetworkQualityStore.h:33` says "oldest evicted when exceeded".
* `validateOptions` (`Nqe.cpp:452-474`) accepts thresholds out of order and
  multipliers below 1, with which the clamped throughput may fall in a worse
  class than the reported type.
* Two threads that record one key in another order than they read the clock make
  a sample too long; `NeverOverestimates` excepts it.
* Old samples lose weight but stay among the last 512, and count in the median as
  long as one recent sample keeps the source fresh; `docs/README.md:672` says "Old
  samples are automatically discarded".
* A network change computes the ECT before the new network's cached values are
  loaded, so the first ECT on a known network is UNKNOWN;
  `getEffectiveConnectionType` checks no freshness where `getEstimate` does.

## Further work

The modules planned at the outset are written. What could be added: the store as
an implementation of an aging map; a liveness run for the announcements in `Nqe`
(their bound is proved, but the state space is too large for TLC's liveness
checking with the present bounds); and the last step of the notifier's and the
sampler's liveness, from the proved bounds, once ENABLED is within the prover's
reach.
