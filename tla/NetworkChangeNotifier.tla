----------------------- MODULE NetworkChangeNotifier -----------------------
(***************************************************************************)
(* The network change notifier (src/src/NetworkChangeNotifier.cpp, the     *)
(* Linux build): a monitor thread waits on a netlink socket, reads the     *)
(* connection type after every message and reports it; application threads *)
(* start and stop the monitor and report a type they read themselves       *)
(* (checkForChanges).                                                      *)
(*                                                                         *)
(* The flags are atomic and the list of observers has a lock, but no lock  *)
(* spans a call: a step is one access to a flag, to the std::thread, to    *)
(* the platform, or one critical section.  Assigning to a std::thread that *)
(* is joinable, or joining one that no longer is or one's own, ends the    *)
(* program.                                                                *)
(*                                                                         *)
(* An observer may call the notifier back.  Such a call is a caller of its *)
(* own (Nested) on the thread that calls the observer (Outer), which waits *)
(* for it.                                                                 *)
(***************************************************************************)
EXTENDS Integers, FiniteSets

CONSTANTS
  Controllers,\* application threads that start and stop the notifier
  Checkers,   \* application threads that call checkForChanges
  Monitor,    \* the thread that runs monitorLoop
  Nested,     \* calls made by observers while they are called
  Outer,      \* Outer[n]: the call, or the monitor, whose observer makes n
  On,         \* On[t]: the thread that call t runs on
  Observers,  \* NetworkChangeObservers
  Types,      \* connection types the platform reports, UNKNOWN among them
  UNKNOWN,    \* ConnectionType::UNKNOWN
  MaxBatch    \* bound: netlink messages one recv returns

ASSUME NotifierConstants ==
  /\ Monitor \notin Controllers \cup Checkers \cup Nested
  /\ Nested \cap (Controllers \cup Checkers) = {}
  /\ Outer \in [Nested -> Controllers \cup Checkers \cup Nested \cup {Monitor}]
  /\ On = [t \in Controllers \cup Checkers \cup Nested \cup {Monitor} |->
             IF t \in Nested THEN On[Outer[t]] ELSE t]
  /\ UNKNOWN \in Types
  /\ IsFiniteSet(Observers)
  /\ MaxBatch \in Nat \ {0}

VARIABLES
  monitoring,   \* monitoring_
  should_stop,  \* should_stop_
  joinable,     \* monitor_thread_.joinable()
  last,         \* last_connection_type_
  observers,    \* observers_
  thread,       \* what each thread is doing and the copies it holds
  live,         \* external: the type of the present connection
  pending,      \* external: messages wait in the monitor's netlink socket
  terminated,   \* the program has been ended by std::terminate
  known,        \* history: the live type when the monitor last looked
  disturbed     \* history: a start or stop ran into another one, the monitor
                \* could not open its socket, or one of its observers
                \* stopped the notifier

flags == <<monitoring, should_stop, joinable, terminated, disturbed>>
platform == <<live, pending, known>>
vars == <<flags, platform, last, observers, thread>>

-----------------------------------------------------------------------------
Callers == Controllers \cup Checkers \cup Nested

Threads == Callers \cup {Monitor}

\* The monitor ended: never started or stopped, or on its own because its
\* socket could not be opened or failed.
Ended == {"ended", "unopened", "broken"}

Watching == {"check", "select", "read", "report", "copy", "notify"}

\* A caller between the exchange of monitoring_ it won and its last access to
\* monitor_thread_.
InStart == {"reset", "spawn"}
InStop == {"request", "joinable", "join"}

Reporting == {"report", "copy", "notify"}

CallerPCs == {"idle", "initial", "store", "clear"} \cup InStart \cup InStop \cup Reporting
MonitorPCs == {"open"} \cup Watching \cup Ended

\* type: the connection type read; todo: the observers still to be called;
\* msgs: messages of the batch not looked at; clears: the call is shutdown.
ThreadState ==
  [pc : CallerPCs \cup MonitorPCs, type : Types, todo : SUBSET Observers,
   msgs : 0..MaxBatch, clears : BOOLEAN]

Fresh(pc) == [pc |-> pc, type |-> UNKNOWN, todo |-> {}, msgs |-> 0, clears |-> FALSE]

\* An observer that t called is in a call of its own, and t waits for it.
InObserver(t) == \E n \in Nested : Outer[n] = t /\ thread[n].pc # "idle"

\* A program that was ended takes no step.
At(t, pc) == ~terminated /\ ~InObserver(t) /\ thread[t].pc = pc

Become(t, rec) == thread' = [thread EXCEPT ![t] = rec]

\* A call begins: an application's thread makes it, or an observer that is
\* being called (bound: one call by an observer each time it is called).
Begin(t, rec) ==
  /\ At(t, "idle")
  /\ \/ t \notin Nested /\ Become(t, rec)
     \/ /\ t \in Nested /\ At(Outer[t], "notify")
        /\ \E o \in thread[Outer[t]].todo :
             thread' = [thread EXCEPT ![t] = rec, ![Outer[t]].todo = @ \ {o}]

Goto(t, pc) == Become(t, [thread[t] EXCEPT !.pc = pc])

Busy(t) == thread[t].pc \in InStart \cup InStop

RunsInto(t) == \E u \in Callers \ {t} : Busy(u)

Init ==
  /\ monitoring = FALSE /\ should_stop = FALSE /\ joinable = FALSE
  /\ last = UNKNOWN
  /\ observers = {}
  /\ thread = [t \in Threads |-> Fresh(IF t = Monitor THEN "ended" ELSE "idle")]
  /\ live \in Types
  /\ pending = FALSE
  /\ terminated = FALSE
  /\ known = live
  /\ disturbed = FALSE

-----------------------------------------------------------------------------
(***************************************************************************)
(* start: PlatformImpl::start, then the initial type is read and stored    *)
(* without the lock, whether or not the monitor ran before.                *)
(***************************************************************************)
StartExchange(t) ==
  /\ Begin(t, Fresh(IF monitoring THEN "initial" ELSE "reset"))
  /\ monitoring' = TRUE
  /\ disturbed' = (disturbed \/ (~monitoring /\ RunsInto(t)))
  /\ UNCHANGED <<should_stop, joinable, terminated, platform, last, observers>>

\* Mutant of StartReset: should_stop_ is left as the last stop set it.
StartResetMissing(t) ==
  /\ At(t, "reset")
  /\ Goto(t, "spawn")
  /\ UNCHANGED <<flags, platform, last, observers>>

StartReset(t) ==
  /\ At(t, "reset")
  /\ should_stop' = FALSE
  /\ Goto(t, "spawn")
  /\ UNCHANGED <<monitoring, joinable, terminated, disturbed, platform, last, observers>>

StartSpawn(t) ==
  /\ At(t, "spawn")
  /\ IF joinable
     THEN terminated' = TRUE /\ UNCHANGED <<joinable, thread>>
     ELSE /\ joinable' = TRUE
          /\ thread' = [thread EXCEPT ![t] = Fresh("initial"), ![Monitor] = Fresh("open")]
          /\ UNCHANGED terminated
  /\ UNCHANGED <<monitoring, should_stop, disturbed, platform, last, observers>>

StartReadType(t) ==
  /\ At(t, "initial")
  /\ Become(t, [thread[t] EXCEPT !.pc = "store", !.type = live])
  /\ UNCHANGED <<flags, platform, last, observers>>

StartStoreType(t) ==
  /\ At(t, "store")
  /\ last' = thread[t].type
  /\ Become(t, Fresh("idle"))
  /\ UNCHANGED <<flags, platform, observers>>

-----------------------------------------------------------------------------
(***************************************************************************)
(* stop and shutdown, which stops and then clears the observers.           *)
(***************************************************************************)
AfterStop(t) == IF thread[t].clears THEN Fresh("clear") ELSE Fresh("idle")

StopExchange(t) ==
  /\ \E shutdown \in BOOLEAN :
       Begin(t, [Fresh(IF monitoring THEN "request"
                       ELSE IF shutdown THEN "clear" ELSE "idle")
                   EXCEPT !.clears = monitoring /\ shutdown])
  /\ monitoring' = FALSE
  /\ disturbed' = (disturbed \/ (monitoring /\ (RunsInto(t) \/ On[t] = Monitor)))
  /\ UNCHANGED <<should_stop, joinable, terminated, platform, last, observers>>

\* Mutant of StopRequest: the monitor is not told to stop.
StopRequestMissing(t) ==
  /\ At(t, "request")
  /\ Goto(t, "joinable")
  /\ UNCHANGED <<flags, platform, last, observers>>

StopRequest(t) ==
  /\ At(t, "request")
  /\ should_stop' = TRUE
  /\ Goto(t, "joinable")
  /\ UNCHANGED <<monitoring, joinable, terminated, disturbed, platform, last, observers>>

\* Mutant of StopJoinable: the thread is not joined.
StopJoinableSkipped(t) ==
  /\ At(t, "joinable")
  /\ Become(t, AfterStop(t))
  /\ UNCHANGED <<flags, platform, last, observers>>

StopJoinable(t) ==
  /\ At(t, "joinable")
  /\ IF joinable THEN Goto(t, "join") ELSE Become(t, AfterStop(t))
  /\ UNCHANGED <<flags, platform, last, observers>>

\* join returns when the monitor has ended; the monitor's own thread, in an
\* observer, does not wait for itself: join throws.
StopJoin(t) ==
  /\ At(t, "join")
  /\ On[t] = Monitor \/ thread[Monitor].pc \in Ended
  /\ IF joinable /\ On[t] # Monitor
     THEN joinable' = FALSE /\ Become(t, AfterStop(t)) /\ UNCHANGED terminated
     ELSE terminated' = TRUE /\ UNCHANGED <<joinable, thread>>
  /\ UNCHANGED <<monitoring, should_stop, disturbed, platform, last, observers>>

ShutdownClear(t) ==
  /\ At(t, "clear")
  /\ observers' = {}
  /\ Become(t, Fresh("idle"))
  /\ UNCHANGED <<flags, platform, last>>

-----------------------------------------------------------------------------
(***************************************************************************)
(* monitorLoop.                                                            *)
(***************************************************************************)
MonitorOpen ==
  /\ At(Monitor, "open")
  /\ Goto(Monitor, "check")
  /\ pending' = FALSE
  /\ known' = live
  /\ UNCHANGED <<flags, live, last, observers>>

MonitorCannotOpen ==
  /\ At(Monitor, "open")
  /\ Goto(Monitor, "unopened")
  /\ monitoring' = FALSE
  /\ disturbed' = TRUE
  /\ UNCHANGED <<should_stop, joinable, terminated, platform, last, observers>>

MonitorCheck ==
  /\ At(Monitor, "check")
  /\ Goto(Monitor, IF should_stop THEN "ended" ELSE "select")
  /\ pending' = (pending /\ ~should_stop)
  /\ UNCHANGED <<flags, live, known, last, observers>>

\* Mutant of MonitorSelect: the socket is not among those waited for.
MonitorSelectNothing ==
  /\ At(Monitor, "select")
  /\ Goto(Monitor, "check")
  /\ UNCHANGED <<flags, platform, last, observers>>

\* select returns: the timeout, or messages that recv takes.  A recv takes one
\* datagram and leaves the others to the next rounds; here it takes all that
\* wait, as each of them makes the loop read the type either way.
MonitorSelect ==
  /\ At(Monitor, "select")
  /\ IF pending
     THEN \E n \in 1..MaxBatch :
            Become(Monitor, [thread[Monitor] EXCEPT !.pc = "read", !.msgs = n])
     ELSE Goto(Monitor, "check")
  /\ pending' = FALSE
  /\ UNCHANGED <<flags, live, known, last, observers>>

\* select or recv fails; monitoring_ stays set.
MonitorBreaks ==
  /\ At(Monitor, "select")
  /\ Goto(Monitor, "broken")
  /\ pending' = FALSE
  /\ UNCHANGED <<flags, live, known, last, observers>>

\* Mutant of MonitorRead: the type read before is reported again.
MonitorReadCached ==
  /\ At(Monitor, "read")
  /\ Become(Monitor, [thread[Monitor] EXCEPT !.pc = "report", !.type = known, !.msgs = @ - 1])
  /\ UNCHANGED <<flags, platform, last, observers>>

MonitorRead ==
  /\ At(Monitor, "read")
  /\ Become(Monitor, [thread[Monitor] EXCEPT !.pc = "report", !.type = live, !.msgs = @ - 1])
  /\ known' = live
  /\ UNCHANGED <<flags, live, pending, last, observers>>

-----------------------------------------------------------------------------
(***************************************************************************)
(* onConnectionTypeChanged and notifyObservers, by the monitor or by a     *)
(* caller of checkForChanges.                                              *)
(***************************************************************************)
CheckForChanges(t) ==
  /\ Begin(t, [Fresh("report") EXCEPT !.type = live])
  /\ UNCHANGED <<flags, platform, last, observers>>

\* Mutant of AfterReport: a caller of checkForChanges enters the loop, too.
AfterReportLoop(t) ==
  IF thread[t].msgs > 0 THEN [thread[t] EXCEPT !.pc = "read"] ELSE Fresh("check")

\* The monitor goes on with the next message of the batch or with its loop.
AfterReport(t) ==
  IF t # Monitor THEN Fresh("idle")
  ELSE IF thread[t].msgs > 0 THEN [thread[t] EXCEPT !.pc = "read"]
  ELSE Fresh("check")

Report(t) ==
  /\ At(t, "report")
  /\ IF thread[t].type = last
     THEN Become(t, AfterReport(t)) /\ UNCHANGED last
     ELSE last' = thread[t].type /\ Goto(t, "copy")
  /\ UNCHANGED <<flags, platform, observers>>

CopyObservers(t) ==
  /\ At(t, "copy")
  /\ Become(t, [thread[t] EXCEPT !.pc = "notify", !.todo = observers])
  /\ UNCHANGED <<flags, platform, last, observers>>

Notify(t, o) ==
  /\ At(t, "notify")
  /\ o \in thread[t].todo
  /\ Become(t, [thread[t] EXCEPT !.todo = @ \ {o}])
  /\ UNCHANGED <<flags, platform, last, observers>>

NotifyEnd(t) ==
  /\ At(t, "notify")
  /\ thread[t].todo = {}
  /\ Become(t, AfterReport(t))
  /\ UNCHANGED <<flags, platform, last, observers>>

AddObserver(o) ==
  /\ ~terminated
  /\ o \notin observers
  /\ observers' = observers \cup {o}
  /\ UNCHANGED <<flags, platform, last, thread>>

RemoveObserver(o) ==
  /\ ~terminated
  /\ o \in observers
  /\ observers' = observers \ {o}
  /\ UNCHANGED <<flags, platform, last, thread>>

\* A link or an address changes, and with it perhaps the type; the kernel
\* queues messages for a socket that is bound.
Change ==
  /\ ~terminated
  /\ live' \in Types
  /\ pending' = (thread[Monitor].pc \in Watching)
  /\ UNCHANGED <<flags, known, last, observers, thread>>

-----------------------------------------------------------------------------
\* A call begins only when its caller wants it to; an observer makes any.
Call ==
  \/ \E t \in Controllers \cup Nested : StartExchange(t) \/ StopExchange(t)
  \/ \E t \in Checkers \cup Nested : CheckForChanges(t)

ReportStep(t) ==
  Report(t) \/ CopyObservers(t) \/ NotifyEnd(t) \/ \E o \in Observers : Notify(t, o)

\* A call that has begun goes on.
CallerStep(t) ==
  \/ StartReset(t) \/ StartSpawn(t) \/ StartReadType(t) \/ StartStoreType(t)
  \/ StopRequest(t) \/ StopJoinable(t) \/ StopJoin(t) \/ ShutdownClear(t)
  \/ ReportStep(t)

MonitorStep ==
  \/ MonitorOpen \/ MonitorCannotOpen
  \/ MonitorCheck \/ MonitorSelect \/ MonitorBreaks \/ MonitorRead
  \/ ReportStep(Monitor)

Next ==
  \/ Call
  \/ \E t \in Callers : CallerStep(t)
  \/ MonitorStep
  \/ \E o \in Observers : AddObserver(o) \/ RemoveObserver(o)
  \/ Change

\* The system schedules every thread, and observers return once the calls they
\* make have.
Fairness == WF_vars(MonitorStep) /\ \A t \in Callers : WF_vars(CallerStep(t))

Spec == Init /\ [][Next]_vars /\ Fairness

-----------------------------------------------------------------------------
\* Every variable has its type; only the monitor's thread runs its loop, and it
\* reads the type only for a message.
TypeOK ==
  /\ monitoring \in BOOLEAN /\ should_stop \in BOOLEAN /\ joinable \in BOOLEAN
  /\ pending \in BOOLEAN /\ terminated \in BOOLEAN /\ disturbed \in BOOLEAN
  /\ last \in Types /\ live \in Types /\ known \in Types
  /\ observers \subseteq Observers
  /\ thread \in [Threads -> ThreadState]
  /\ thread[Monitor].pc \in MonitorPCs
  /\ thread[Monitor].pc = "read" => thread[Monitor].msgs > 0
  /\ \A t \in Callers : thread[t].pc \in CallerPCs

\* The program is ended by an assignment to, or a join of, the monitor's
\* std::thread only if two starts or stops overlapped, the monitor could not
\* open its socket, or an observer that the monitor called stopped the notifier
\* (and joined its own thread): otherwise one call at a time is safe, in any
\* order, however often, and from an observer too.
OnlyDisturbedTerminates == terminated => disturbed

\* While no start or stop runs, and none was disturbed, there is a thread to
\* join exactly when monitoring_ is set, so that a stop leaves no monitor
\* behind; and monitoring_ without a live monitor means its socket failed.
ThreadFollowsFlag ==
  ~disturbed /\ (\A t \in Callers : ~Busy(t)) =>
    /\ joinable = monitoring
    /\ ~monitoring => thread[Monitor].pc \in Ended
    /\ monitoring => thread[Monitor].pc \notin {"ended", "unopened"}

\* The monitor never sleeps on a change: from the binding of its socket on, if
\* the type is not the one it last read then messages wait or it is about to
\* read (monitorLoop receives before it reads).
MonitorUpToDate ==
  thread[Monitor].pc \in Watching \ {"read"} /\ thread[Monitor].msgs = 0 =>
    known = live \/ pending

\* A start or a stop that no other one runs into, and that the monitor's own
\* observers do not make a stop of themselves, returns, whatever the network
\* does and whatever else observers call while it waits for the monitor.
UndisturbedReturns ==
  \A t \in Callers : Busy(t) ~> ~Busy(t) \/ disturbed

\* A message that waits is read, or the monitor ends.
MessagesRead == pending ~> ~pending \/ terminated

\* Contradicted by the code (NetworkChangeNotifier.h:71, "All public methods can
\* be called from multiple threads", and :98, "Stops the background monitoring
\* thread"): a stop returns, unless the program is ended.
StopReturns ==
  \A t \in Callers : thread[t].pc \in InStop ~> thread[t].pc \notin InStop \/ terminated
=============================================================================
