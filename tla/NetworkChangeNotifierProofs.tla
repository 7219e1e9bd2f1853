-------------------- MODULE NetworkChangeNotifierProofs --------------------
(***************************************************************************)
(* Proofs about the network change notifier, for any sets of threads,      *)
(* observers and types.                                                    *)
(***************************************************************************)
EXTENDS NetworkChangeNotifier, FiniteSetTheorems, TLAPS

\* What start and stop rely on as long as no two of them ran into each other:
\* one of them runs at a time, and the std::thread, the flags and the monitor's
\* progress agree with how far it has come.
ControlInv ==
  ~disturbed =>
    /\ ~terminated
    /\ \A t, u \in Callers : Busy(t) /\ Busy(u) => t = u
    /\ \A t \in Callers :
         /\ thread[t].pc \in InStart => monitoring /\ ~joinable
         /\ thread[t].pc = "spawn" => ~should_stop
         /\ thread[t].pc \in InStop => ~monitoring /\ joinable /\ On[t] # Monitor
         /\ thread[t].pc \in {"joinable", "join"} => should_stop
    /\ (\A t \in Callers : ~Busy(t)) =>
         joinable = monitoring /\ (monitoring => ~should_stop)
    /\ ~joinable => thread[Monitor].pc \in Ended
    /\ thread[Monitor].pc # "unopened"
    /\ thread[Monitor].pc = "ended" => ~joinable \/ should_stop

IInv == TypeOK /\ ControlInv /\ MonitorUpToDate

-----------------------------------------------------------------------------
USE DEF Callers

LEMMA Constants ==
  /\ Monitor \notin Callers /\ Monitor \notin Controllers \cup Checkers \cup Nested
  /\ UNKNOWN \in Types /\ IsFiniteSet(Observers) /\ MaxBatch \in Nat \ {0}
  BY NotifierConstants

USE Constants

PCs == CallerPCs \cup MonitorPCs

\* A thread's record after a step.
LEMMA FreshType ==
  ASSUME NEW pc \in PCs
  PROVE  Fresh(pc) \in ThreadState /\ Fresh(pc).pc = pc /\ Fresh(pc).msgs = 0
  BY DEF PCs, Fresh, ThreadState

LEMMA GotoType ==
  ASSUME NEW r \in ThreadState, NEW pc \in PCs
  PROVE  /\ [r EXCEPT !.pc = pc] \in ThreadState
         /\ [r EXCEPT !.pc = pc].pc = pc
         /\ [r EXCEPT !.pc = pc].msgs = r.msgs
  BY DEF PCs, ThreadState

\* The pcs a thread may have.
OwnPCs(t) == IF t = Monitor THEN MonitorPCs ELSE CallerPCs

ThreadsOK ==
  /\ thread \in [Threads -> ThreadState]
  /\ \A t \in Threads : thread[t].pc \in OwnPCs(t)
  /\ thread[Monitor].pc = "read" => thread[Monitor].msgs > 0

LEMMA BecomeType ==
  ASSUME ThreadsOK, NEW t \in Threads, NEW r \in ThreadState, r.pc \in OwnPCs(t),
         r.pc = "read" => r.msgs > 0, Become(t, r)
  PROVE  ThreadsOK' /\ thread'[t] = r /\ \A u \in Threads \ {t} : thread'[u] = thread[u]
  BY DEF ThreadsOK, Become, Threads, OwnPCs

Others(t) == \A u \in Threads \ {t} : thread'[u] = thread[u]

\* What the call of a nested call does to the thread whose observer makes it.
Called(r, s) == s.pc = r.pc /\ s.msgs = r.msgs /\ s.todo \subseteq r.todo

OthersCalled(t) == \A u \in Threads \ {t} : Called(thread[u], thread'[u])

\* A call that begins.
LEMMA BeginOK ==
  ASSUME ThreadsOK, NEW t \in Callers, NEW r \in ThreadState, r.pc \in CallerPCs,
         r.pc # "read", Begin(t, r)
  PROVE  ThreadsOK' /\ thread'[t] = r /\ OthersCalled(t) /\ thread[t].pc = "idle"
  <1>1. /\ thread[t].pc = "idle" /\ t \in Threads /\ t # Monitor /\ OwnPCs(t) = CallerPCs
    BY DEF Begin, At, Threads, OwnPCs
  <1>2. CASE Become(t, r)
    <2>1. ThreadsOK' /\ thread'[t] = r /\ \A u \in Threads \ {t} : thread'[u] = thread[u]
      BY <1>1, <1>2, BecomeType
    <2> QED BY <1>1, <2>1 DEF OthersCalled, Called
  <1>3. CASE t \in Nested /\ At(Outer[t], "notify") /\ ~Become(t, r)
    <2>1. PICK o \in thread[Outer[t]].todo :
            thread' = [thread EXCEPT ![t] = r, ![Outer[t]].todo = @ \ {o}]
      BY <1>3 DEF Begin
    <2> DEFINE w == Outer[t]
               q == [thread[w] EXCEPT !.todo = @ \ {o}]
    <2>2. w \in Threads /\ w # t /\ thread[w].pc = "notify"
      BY <1>1, <1>3, NotifierConstants DEF Threads, At
    <2>3. thread \in [Threads -> ThreadState]
      BY DEF ThreadsOK
    <2>4. thread[w] \in ThreadState
      BY <2>2, <2>3
    <2>5. /\ q \in ThreadState /\ q.pc = "notify" /\ Called(thread[w], q)
      BY <2>2, <2>4 DEF ThreadState, Called
    <2>6. thread' = [thread EXCEPT ![t] = r, ![w] = q]
      BY <1>1, <2>1, <2>2, <2>3
    <2> HIDE DEF w, q
    <2>7. /\ thread'[t] = r /\ thread'[w] = q
          /\ \A u \in Threads \ {t, w} : thread'[u] = thread[u]
      BY <1>1, <2>2, <2>3, <2>6
    <2>8. thread' \in [Threads -> ThreadState]
      BY <1>1, <2>2, <2>3, <2>5, <2>6
    <2>9. OthersCalled(t)
      BY <2>5, <2>7 DEF OthersCalled, Called
    <2>10. \A u \in Threads : thread'[u].pc \in OwnPCs(u)
      BY <1>1, <2>7, <2>9 DEF ThreadsOK, OthersCalled, Called
    <2>11. Monitor \in Threads \ {t}
      BY <1>1 DEF Threads
    <2> QED BY <1>1, <2>7, <2>8, <2>9, <2>10, <2>11 DEF ThreadsOK, OthersCalled, Called
  <1> QED BY <1>2, <1>3 DEF Begin

LEMMA OwnIsPC == ASSUME NEW t \in Threads, NEW pc \in OwnPCs(t) PROVE pc \in PCs
  BY DEF OwnPCs, PCs

LEMMA GotoOK ==
  ASSUME ThreadsOK, NEW t \in Threads, NEW pc \in OwnPCs(t), pc # "read", Goto(t, pc)
  PROVE  /\ ThreadsOK' /\ Others(t)
         /\ thread'[t].pc = pc /\ thread'[t].msgs = thread[t].msgs
  <1>1. thread[t] \in ThreadState /\ pc \in PCs
    BY OwnIsPC DEF ThreadsOK
  <1> DEFINE r == [thread[t] EXCEPT !.pc = pc]
  <1>2. r \in ThreadState /\ r.pc = pc /\ r.msgs = thread[t].msgs
    BY <1>1, GotoType
  <1>3. Become(t, r)
    BY DEF Goto
  <1> QED BY <1>2, <1>3, BecomeType DEF Others

LEMMA FreshOK ==
  ASSUME ThreadsOK, NEW t \in Threads, NEW pc \in OwnPCs(t), pc # "read",
         Become(t, Fresh(pc))
  PROVE  ThreadsOK' /\ Others(t) /\ thread'[t].pc = pc /\ thread'[t].msgs = 0
  <1>1. Fresh(pc) \in ThreadState /\ Fresh(pc).pc = pc /\ Fresh(pc).msgs = 0
    BY OwnIsPC, FreshType
  <1> QED BY <1>1, BecomeType DEF Others

-----------------------------------------------------------------------------
(***************************************************************************)
(* What each step does to the thread that takes it: one lemma per action   *)
(* whose effect is not a plain Goto.                                       *)
(***************************************************************************)
LEMMA CallerFacts ==
  ASSUME NEW t \in Callers
  PROVE  t \in Threads /\ t # Monitor /\ OwnPCs(t) = CallerPCs
  BY DEF Threads, OwnPCs

LEMMA MonitorFacts == Monitor \in Threads /\ OwnPCs(Monitor) = MonitorPCs
  BY DEF Threads, OwnPCs

LEMMA WriteType ==
  ASSUME ThreadsOK, NEW t \in Threads, NEW pc \in OwnPCs(t), pc # "read", NEW ty \in Types,
         Become(t, [thread[t] EXCEPT !.pc = pc, !.type = ty])
  PROVE  ThreadsOK' /\ Others(t) /\ thread'[t].pc = pc
  <1>1. thread[t] \in ThreadState /\ pc \in PCs
    BY OwnIsPC DEF ThreadsOK
  <1> DEFINE r == [thread[t] EXCEPT !.pc = pc, !.type = ty]
  <1>2. r \in ThreadState /\ r.pc = pc
    BY <1>1 DEF ThreadState, PCs
  <1> QED BY <1>2, BecomeType DEF Others

\* What comes after a report: the caller returns, the monitor reads the type
\* again while its batch lasts and goes back to its loop with an empty one.
LEMMA AfterReportOK ==
  ASSUME ThreadsOK, NEW t \in Threads, Become(t, AfterReport(t))
  PROVE  /\ ThreadsOK' /\ Others(t)
         /\ t # Monitor => thread'[t].pc = "idle"
         /\ t = Monitor => \/ thread'[t].pc = "read"
                           \/ thread'[t].pc = "check" /\ thread[t].msgs = 0
  <1>1. CASE t # Monitor
    <2>1. AfterReport(t) = Fresh("idle") /\ "idle" \in OwnPCs(t)
      BY <1>1 DEF AfterReport, OwnPCs, CallerPCs
    <2> QED BY <1>1, <2>1, FreshOK
  <1>2. CASE t = Monitor /\ thread[t].msgs > 0
    <2>1. thread[t] \in ThreadState /\ "read" \in PCs /\ "read" \in OwnPCs(t)
      BY <1>2 DEF ThreadsOK, PCs, OwnPCs, MonitorPCs, Watching
    <2> DEFINE r == [thread[t] EXCEPT !.pc = "read"]
    <2>2. r \in ThreadState /\ r.pc = "read" /\ r.msgs > 0
      BY <1>2, <2>1, GotoType
    <2>3. AfterReport(t) = r
      BY <1>2 DEF AfterReport
    <2>4. Become(t, r)
      BY <2>3
    <2> QED BY <1>2, <2>1, <2>2, <2>4, BecomeType DEF Others
  <1>3. CASE t = Monitor /\ ~(thread[t].msgs > 0)
    <2>1. AfterReport(t) = Fresh("check") /\ "check" \in OwnPCs(t)
      BY <1>3 DEF AfterReport, OwnPCs, MonitorPCs, Watching
    <2>2. thread[t].msgs = 0
      <3>1. thread[t].msgs \in 0..MaxBatch
        BY DEF ThreadsOK, ThreadState
      <3> QED BY <1>3, <3>1
    <2> QED BY <1>3, <2>1, <2>2, FreshOK
  <1> QED BY <1>1, <1>2, <1>3

USE DEF At

LEMMA StartExchangeOK ==
  ASSUME ThreadsOK, NEW t \in Callers, StartExchange(t)
  PROVE  /\ ThreadsOK' /\ OthersCalled(t) /\ thread[t].pc = "idle"
         /\ thread'[t].pc = IF monitoring THEN "initial" ELSE "reset"
  <1> DEFINE pc == IF monitoring THEN "initial" ELSE "reset"
  <1>1. pc \in CallerPCs /\ pc # "read"
    BY DEF CallerPCs, InStart
  <1>2. Begin(t, Fresh(pc))
    BY DEF StartExchange
  <1> HIDE DEF pc
  <1>3. Fresh(pc) \in ThreadState /\ Fresh(pc).pc = pc
    BY <1>1, FreshType DEF PCs
  <1>4. ThreadsOK' /\ OthersCalled(t) /\ thread[t].pc = "idle" /\ thread'[t].pc = pc
    BY <1>1, <1>2, <1>3, BeginOK
  <1> QED BY <1>4 DEF pc

LEMMA StartResetOK ==
  ASSUME ThreadsOK, NEW t \in Callers, StartReset(t)
  PROVE  ThreadsOK' /\ Others(t) /\ thread'[t].pc = "spawn"
  <1>1. "spawn" \in OwnPCs(t)
    BY CallerFacts DEF CallerPCs, InStart
  <1> QED BY <1>1, CallerFacts, GotoOK DEF StartReset

LEMMA StartSpawnOK ==
  ASSUME ThreadsOK, NEW t \in Callers, StartSpawn(t), ~joinable
  PROVE  /\ ThreadsOK'
         /\ thread'[t].pc = "initial" /\ thread'[Monitor] = Fresh("open")
         /\ \A u \in Callers \ {t} : thread'[u] = thread[u]
  <1>1. "initial" \in PCs /\ "initial" \in OwnPCs(t) /\ "open" \in PCs
           /\ "open" \in OwnPCs(Monitor)
    BY CallerFacts, MonitorFacts DEF PCs, CallerPCs, MonitorPCs
  <1>2. Fresh("initial") \in ThreadState /\ Fresh("initial").pc = "initial"
    BY <1>1, FreshType
  <1>3. Fresh("open") \in ThreadState /\ Fresh("open").pc = "open"
    BY <1>1, FreshType
  <1>4. thread' = [thread EXCEPT ![t] = Fresh("initial"), ![Monitor] = Fresh("open")]
    BY DEF StartSpawn
  <1> HIDE DEF At
  <1> QED BY <1>1, <1>2, <1>3, <1>4, CallerFacts DEF ThreadsOK, Threads

LEMMA StartReadTypeOK ==
  ASSUME TypeOK, ThreadsOK, NEW t \in Callers, StartReadType(t)
  PROVE  ThreadsOK' /\ Others(t) /\ thread'[t].pc = "store"
  <1>1. "store" \in OwnPCs(t) /\ live \in Types
    BY CallerFacts DEF CallerPCs, TypeOK
  <1> QED BY <1>1, CallerFacts, WriteType DEF StartReadType

LEMMA StartStoreTypeOK ==
  ASSUME ThreadsOK, NEW t \in Callers, StartStoreType(t)
  PROVE  ThreadsOK' /\ Others(t) /\ thread'[t].pc = "idle"
  <1>1. "idle" \in OwnPCs(t)
    BY CallerFacts DEF CallerPCs
  <1> QED BY <1>1, CallerFacts, FreshOK DEF StartStoreType

LEMMA StopExchangeOK ==
  ASSUME ThreadsOK, NEW t \in Callers, StopExchange(t)
  PROVE  /\ ThreadsOK' /\ OthersCalled(t) /\ thread[t].pc = "idle"
         /\ IF monitoring THEN thread'[t].pc = "request"
            ELSE thread'[t].pc \in {"clear", "idle"}
  <1> PICK shutdown \in BOOLEAN :
        Begin(t, [Fresh(IF monitoring THEN "request"
                        ELSE IF shutdown THEN "clear" ELSE "idle")
                    EXCEPT !.clears = monitoring /\ shutdown])
    BY DEF StopExchange
  <1> DEFINE pc == IF monitoring THEN "request" ELSE IF shutdown THEN "clear" ELSE "idle"
             r == [Fresh(pc) EXCEPT !.clears = monitoring /\ shutdown]
  <1>1. pc \in CallerPCs /\ pc # "read"
    BY DEF CallerPCs, InStop
  <1>2. IF monitoring THEN pc = "request" ELSE pc \in {"clear", "idle"}
    OBVIOUS
  <1>3. Begin(t, r)
    OBVIOUS
  <1> HIDE DEF pc
  <1>4. Fresh(pc) \in ThreadState /\ Fresh(pc).pc = pc
    BY <1>1, FreshType DEF PCs
  <1>5. r \in ThreadState /\ r.pc = pc
    BY <1>4 DEF ThreadState
  <1> HIDE DEF r
  <1>6. ThreadsOK' /\ OthersCalled(t) /\ thread[t].pc = "idle" /\ thread'[t].pc = pc
    BY <1>1, <1>3, <1>5, BeginOK
  <1> QED BY <1>2, <1>6

LEMMA StopRequestOK ==
  ASSUME ThreadsOK, NEW t \in Callers, StopRequest(t)
  PROVE  ThreadsOK' /\ Others(t) /\ thread'[t].pc = "joinable"
  <1>1. "joinable" \in OwnPCs(t)
    BY CallerFacts DEF CallerPCs, InStop
  <1> QED BY <1>1, CallerFacts, GotoOK DEF StopRequest

LEMMA AfterStopOK ==
  ASSUME ThreadsOK, NEW t \in Callers, Become(t, AfterStop(t))
  PROVE  ThreadsOK' /\ Others(t) /\ thread'[t].pc \in {"clear", "idle"}
  <1>1. "clear" \in OwnPCs(t) /\ "idle" \in OwnPCs(t)
    BY CallerFacts DEF CallerPCs
  <1>2. PICK pc \in {"clear", "idle"} : Become(t, Fresh(pc))
    BY DEF AfterStop
  <1> QED BY <1>1, <1>2, CallerFacts, FreshOK

LEMMA StopJoinableOK ==
  ASSUME ThreadsOK, NEW t \in Callers, StopJoinable(t)
  PROVE  /\ ThreadsOK' /\ Others(t)
         /\ IF joinable THEN thread'[t].pc = "join" ELSE thread'[t].pc \in {"clear", "idle"}
  <1>1. "join" \in OwnPCs(t)
    BY CallerFacts DEF CallerPCs, InStop
  <1> QED BY <1>1, CallerFacts, GotoOK, AfterStopOK DEF StopJoinable

LEMMA ShutdownClearOK ==
  ASSUME ThreadsOK, NEW t \in Callers, ShutdownClear(t)
  PROVE  ThreadsOK' /\ Others(t) /\ thread'[t].pc = "idle"
  <1>1. "idle" \in OwnPCs(t)
    BY CallerFacts DEF CallerPCs
  <1> QED BY <1>1, CallerFacts, FreshOK DEF ShutdownClear

LEMMA CheckForChangesOK ==
  ASSUME TypeOK, ThreadsOK, NEW t \in Callers, CheckForChanges(t)
  PROVE  ThreadsOK' /\ OthersCalled(t) /\ thread[t].pc = "idle" /\ thread'[t].pc = "report"
  <1> DEFINE r == [Fresh("report") EXCEPT !.type = live]
  <1>1. "report" \in CallerPCs /\ "report" \in PCs /\ live \in Types
    BY DEF CallerPCs, Reporting, PCs, TypeOK
  <1>2. Fresh("report") \in ThreadState /\ Fresh("report").pc = "report"
    BY <1>1, FreshType
  <1>3. r \in ThreadState /\ r.pc = "report"
    BY <1>1, <1>2 DEF ThreadState
  <1>4. Begin(t, r)
    BY DEF CheckForChanges
  <1> HIDE DEF r
  <1> QED BY <1>1, <1>3, <1>4, BeginOK

\* A reporting thread touches neither the flags nor the platform, and goes on
\* reporting, returns, or (the monitor) goes back to its batch or its loop.
ReportEffect(t) ==
  /\ ThreadsOK' /\ Others(t)
  /\ thread[t].pc \in Reporting
  /\ t # Monitor => thread'[t].pc \in Reporting \cup {"idle"}
  /\ t = Monitor => \/ thread'[t].pc \in Reporting /\ thread'[t].msgs = thread[t].msgs
                    \/ thread'[t].pc = "read"
                    \/ thread'[t].pc = "check" /\ thread[t].msgs = 0

LEMMA ReportStepOK ==
  ASSUME TypeOK, ThreadsOK, NEW t \in Threads, ReportStep(t)
  PROVE  ReportEffect(t) /\ UNCHANGED <<flags, platform, observers>> /\ last' \in Types
  <1> DEFINE Kept == UNCHANGED <<flags, platform, observers>> /\ last' \in Types
  <1>1. /\ thread[t] \in ThreadState /\ thread[t].type \in Types /\ last \in Types
        /\ \A pc \in Reporting : pc \in OwnPCs(t) /\ pc \in PCs /\ pc # "read"
    BY DEF ThreadsOK, ThreadState, OwnPCs, PCs, CallerPCs, MonitorPCs, Watching, Reporting,
           TypeOK
  <1>2. CASE Report(t)
    <2>1. Kept /\ thread[t].pc = "report"
      BY <1>1, <1>2 DEF Report
    <2>2. CASE Goto(t, "copy")
      BY <1>1, <2>1, <2>2, GotoOK DEF ReportEffect, Reporting
    <2>3. CASE Become(t, AfterReport(t))
      BY <1>1, <2>1, <2>3, AfterReportOK DEF ReportEffect, Reporting
    <2> QED BY <1>2, <2>1, <2>2, <2>3 DEF Report
  <1>3. CASE CopyObservers(t)
    <2> DEFINE r == [thread[t] EXCEPT !.pc = "notify", !.todo = observers]
    <2>1. Kept /\ thread[t].pc = "copy" /\ Become(t, r)
      BY <1>1, <1>3 DEF CopyObservers
    <2>2. observers \in SUBSET Observers /\ "notify" \in PCs /\ "notify" \in OwnPCs(t)
      BY <1>1 DEF TypeOK, Reporting
    <2>3. r \in ThreadState /\ r.pc = "notify" /\ r.msgs = thread[t].msgs
      BY <1>1, <2>2 DEF ThreadState, PCs
    <2> HIDE DEF r
    <2> QED BY <2>1, <2>2, <2>3, BecomeType DEF ReportEffect, Reporting, Others
  <1>4. ASSUME NEW o \in Observers, Notify(t, o)
        PROVE  ReportEffect(t) /\ Kept
    <2> DEFINE r == [thread[t] EXCEPT !.todo = @ \ {o}]
    <2>1. Kept /\ thread[t].pc = "notify" /\ Become(t, r)
      BY <1>1, <1>4 DEF Notify
    <2>2. r \in ThreadState /\ r.pc = "notify" /\ r.msgs = thread[t].msgs
      BY <1>1, <2>1 DEF ThreadState
    <2>3. "notify" \in OwnPCs(t)
      BY <1>1 DEF Reporting
    <2> HIDE DEF r
    <2> QED BY <2>1, <2>2, <2>3, BecomeType DEF ReportEffect, Reporting, Others
  <1>5. CASE NotifyEnd(t)
    <2>1. Kept /\ thread[t].pc = "notify" /\ Become(t, AfterReport(t))
      BY <1>1, <1>5 DEF NotifyEnd
    <2> QED BY <2>1, AfterReportOK DEF ReportEffect, Reporting
  <1> QED BY <1>2, <1>3, <1>4, <1>5 DEF ReportStep

\* A step of the monitor's own loop.
MonitorGoto(pc) == ThreadsOK' /\ Others(Monitor) /\ thread'[Monitor].pc = pc

LEMMA MonitorGotoOK ==
  ASSUME ThreadsOK, NEW pc \in {"check", "unopened", "ended", "select", "broken"},
         Goto(Monitor, pc)
  PROVE  MonitorGoto(pc) /\ thread'[Monitor].msgs = thread[Monitor].msgs
  <1>1. pc \in OwnPCs(Monitor) /\ pc # "read"
    BY MonitorFacts DEF MonitorPCs, Watching, Ended
  <1> QED BY <1>1, MonitorFacts, GotoOK DEF MonitorGoto

LEMMA MonitorSelectOK ==
  ASSUME ThreadsOK, MonitorSelect
  PROVE  IF pending THEN MonitorGoto("read")
         ELSE MonitorGoto("check") /\ thread'[Monitor].msgs = thread[Monitor].msgs
  <1>1. CASE ~pending
    BY <1>1, MonitorGotoOK DEF MonitorSelect
  <1>2. CASE pending
    <2> PICK n \in 1..MaxBatch :
          Become(Monitor, [thread[Monitor] EXCEPT !.pc = "read", !.msgs = n])
      BY <1>2 DEF MonitorSelect
    <2> DEFINE r == [thread[Monitor] EXCEPT !.pc = "read", !.msgs = n]
    <2>1. thread[Monitor] \in ThreadState /\ "read" \in OwnPCs(Monitor) /\ "read" \in PCs
      BY MonitorFacts DEF ThreadsOK, MonitorPCs, Watching, PCs
    <2> n \in 0..MaxBatch /\ n > 0
      OBVIOUS
    <2>2. r \in ThreadState /\ r.pc = "read" /\ r.msgs > 0
      BY <2>1 DEF ThreadState, PCs
    <2>3. Become(Monitor, r)
      OBVIOUS
    <2> HIDE DEF r
    <2> QED BY <1>2, <2>1, <2>2, <2>3, MonitorFacts, BecomeType DEF MonitorGoto, Others
  <1> QED BY <1>1, <1>2

LEMMA MonitorReadOK ==
  ASSUME TypeOK, ThreadsOK, MonitorRead
  PROVE  MonitorGoto("report")
  <1> DEFINE r == [thread[Monitor] EXCEPT !.pc = "report", !.type = live, !.msgs = @ - 1]
  <1>1. /\ thread[Monitor] \in ThreadState /\ "report" \in OwnPCs(Monitor)
        /\ "report" \in PCs /\ live \in Types
    BY MonitorFacts DEF ThreadsOK, MonitorPCs, Watching, PCs, TypeOK
  <1>2. thread[Monitor].msgs \in 0..MaxBatch /\ thread[Monitor].msgs > 0
    BY <1>1 DEF ThreadsOK, ThreadState, MonitorRead
  <1>3. thread[Monitor].msgs - 1 \in 0..MaxBatch
    BY <1>2
  <1>4. r \in ThreadState /\ r.pc = "report"
    BY <1>1, <1>3 DEF ThreadState, PCs
  <1>5. Become(Monitor, r)
    BY DEF MonitorRead
  <1> HIDE DEF r
  <1> QED BY <1>1, <1>4, <1>5, MonitorFacts, BecomeType DEF MonitorGoto, Others

-----------------------------------------------------------------------------
(***************************************************************************)
(* Type correctness.                                                       *)
(***************************************************************************)
RestOK ==
  /\ monitoring \in BOOLEAN /\ should_stop \in BOOLEAN /\ joinable \in BOOLEAN
  /\ pending \in BOOLEAN /\ terminated \in BOOLEAN /\ disturbed \in BOOLEAN
  /\ last \in Types /\ live \in Types /\ known \in Types
  /\ observers \subseteq Observers

LEMMA TypeParts == TypeOK <=> ThreadsOK /\ RestOK
  BY DEF TypeOK, ThreadsOK, RestOK, Threads, OwnPCs

LEMMA TypePartsPrimed == ThreadsOK' /\ RestOK' => TypeOK'
  BY DEF TypeOK, ThreadsOK, RestOK, Threads, OwnPCs

LEMMA InitIInv == Init => IInv
  <1> SUFFICES ASSUME Init PROVE IInv
    OBVIOUS
  <1>1. \A t \in Threads : /\ thread[t] = Fresh(IF t = Monitor THEN "ended" ELSE "idle")
                           /\ thread[t] \in ThreadState
                           /\ thread[t].pc = IF t = Monitor THEN "ended" ELSE "idle"
    <2> TAKE t \in Threads
    <2> DEFINE pc == IF t = Monitor THEN "ended" ELSE "idle"
    <2>1. pc \in PCs
      BY DEF PCs, CallerPCs, MonitorPCs, Ended
    <2>2. thread[t] = Fresh(pc)
      BY DEF Init
    <2> HIDE DEF pc
    <2>3. thread[t] \in ThreadState /\ thread[t].pc = pc
      BY <2>1, <2>2, FreshType
    <2> QED BY <2>2, <2>3 DEF pc
  <1>2. thread \in [Threads -> ThreadState]
    BY <1>1 DEF Init
  <1>3. ThreadsOK
    BY <1>1, <1>2, MonitorFacts DEF ThreadsOK, OwnPCs, CallerPCs, MonitorPCs, Ended
  <1>4. RestOK
    BY DEF Init, RestOK
  <1>5. ControlInv
    BY <1>1, MonitorFacts, CallerFacts DEF ControlInv, Busy, InStart, InStop, Init, Ended
  <1>6. MonitorUpToDate
    BY DEF MonitorUpToDate, Init
  <1> QED BY <1>3, <1>4, <1>5, <1>6, TypeParts DEF IInv

LEMMA TypeStep == TypeOK /\ [Next]_vars => TypeOK'
  <1> SUFFICES ASSUME TypeOK, [Next]_vars PROVE ThreadsOK' /\ RestOK'
    BY TypePartsPrimed
  <1>a. ThreadsOK /\ RestOK
    BY TypeParts
  <1> USE DEF RestOK, flags, platform
  <1>1. ASSUME NEW t \in Controllers \cup Nested, StartExchange(t) PROVE ThreadsOK' /\ RestOK'
    BY <1>a, <1>1, StartExchangeOK DEF StartExchange, RunsInto, Busy
  <1>2. ASSUME NEW t \in Controllers \cup Nested, StopExchange(t) PROVE ThreadsOK' /\ RestOK'
    BY <1>a, <1>2, StopExchangeOK DEF StopExchange, RunsInto, Busy
  <1>3. ASSUME NEW t \in Checkers \cup Nested, CheckForChanges(t) PROVE ThreadsOK' /\ RestOK'
    BY <1>a, <1>3, CheckForChangesOK DEF CheckForChanges
  <1>4. ASSUME NEW t \in Callers, CallerStep(t) PROVE ThreadsOK' /\ RestOK'
    <2>1. CASE StartReset(t)
      BY <1>a, <2>1, StartResetOK DEF StartReset
    <2>2. CASE StartSpawn(t)
      <3>1. CASE joinable
        BY <1>a, <2>2, <3>1 DEF StartSpawn, ThreadsOK
      <3>2. CASE ~joinable
        BY <1>a, <2>2, <3>2, StartSpawnOK DEF StartSpawn
      <3> QED BY <3>1, <3>2
    <2>3. CASE StartReadType(t)
      BY <1>a, <2>3, StartReadTypeOK DEF StartReadType
    <2>4. CASE StartStoreType(t)
      <3>1. thread[t].type \in Types
        BY <1>a, CallerFacts DEF ThreadsOK, ThreadState
      <3> QED BY <1>a, <2>4, <3>1, StartStoreTypeOK DEF StartStoreType
    <2>5. CASE StopRequest(t)
      BY <1>a, <2>5, StopRequestOK DEF StopRequest
    <2>6. CASE StopJoinable(t)
      BY <1>a, <2>6, StopJoinableOK DEF StopJoinable
    <2>7. CASE StopJoin(t)
      <3>1. CASE joinable /\ On[t] # Monitor
        BY <1>a, <2>7, <3>1, AfterStopOK DEF StopJoin
      <3>2. CASE ~(joinable /\ On[t] # Monitor)
        BY <1>a, <2>7, <3>2 DEF StopJoin, ThreadsOK
      <3> QED BY <3>1, <3>2
    <2>8. CASE ShutdownClear(t)
      BY <1>a, <2>8, ShutdownClearOK DEF ShutdownClear
    <2>9. CASE ReportStep(t)
      BY <1>a, <2>9, CallerFacts, ReportStepOK DEF ReportEffect
    <2> QED BY <1>4, <2>1, <2>2, <2>3, <2>4, <2>5, <2>6, <2>7, <2>8, <2>9 DEF CallerStep
  <1>5. CASE MonitorStep
    <2> USE DEF MonitorGoto
    <2>1. CASE MonitorOpen
      BY <1>a, <2>1, MonitorGotoOK DEF MonitorOpen
    <2>2. CASE MonitorCannotOpen
      BY <1>a, <2>2, MonitorGotoOK DEF MonitorCannotOpen
    <2>3. CASE MonitorCheck
      BY <1>a, <2>3, MonitorGotoOK DEF MonitorCheck
    <2>4. CASE MonitorSelect
      BY <1>a, <2>4, MonitorSelectOK DEF MonitorSelect
    <2>5. CASE MonitorBreaks
      BY <1>a, <2>5, MonitorGotoOK DEF MonitorBreaks
    <2>6. CASE MonitorRead
      BY <1>a, <2>6, MonitorReadOK DEF MonitorRead
    <2>7. CASE ReportStep(Monitor)
      BY <1>a, <2>7, MonitorFacts, ReportStepOK DEF ReportEffect
    <2> QED BY <1>5, <2>1, <2>2, <2>3, <2>4, <2>5, <2>6, <2>7 DEF MonitorStep
  <1>6. ASSUME NEW o \in Observers, AddObserver(o) \/ RemoveObserver(o)
        PROVE  ThreadsOK' /\ RestOK'
    BY <1>a, <1>6 DEF AddObserver, RemoveObserver, ThreadsOK
  <1>7. CASE Change
    BY <1>a, <1>7 DEF Change, ThreadsOK
  <1>8. CASE UNCHANGED vars
    BY <1>a, <1>8 DEF vars, ThreadsOK
  <1> QED BY <1>1, <1>2, <1>3, <1>4, <1>5, <1>6, <1>7, <1>8 DEF Next, Call

-----------------------------------------------------------------------------
(***************************************************************************)
(* The control invariant.  A step either leaves the flags, the std::thread *)
(* and everyone's place in start and stop alone (ControlKept), or is an    *)
(* access of start, of stop, or an end of the monitor.                     *)
(***************************************************************************)
ControlKept ==
  /\ UNCHANGED flags
  /\ \A u \in Callers : Busy(u) \/ Busy(u)' => thread'[u].pc = thread[u].pc
  /\ thread[Monitor].pc \in Ended \/ thread'[Monitor].pc \in Ended =>
       thread'[Monitor].pc = thread[Monitor].pc \/ thread'[Monitor].pc = "broken"
  /\ thread'[Monitor].pc = "broken" => joinable \/ thread[Monitor].pc = "broken"

LEMMA KeptStep == ControlInv /\ ControlKept => ControlInv'
  BY DEF ControlInv, ControlKept, flags, Busy, InStart, InStop, Ended

LEMMA ControlStep == TypeOK /\ ControlInv /\ [Next]_vars => ControlInv'
  <1> SUFFICES ASSUME TypeOK, ControlInv, [Next]_vars PROVE ControlInv'
    OBVIOUS
  <1>a. ThreadsOK /\ RestOK
    BY TypeParts
  <1> USE DEF flags, platform
  <1>1. ASSUME NEW t \in Controllers \cup Nested, StartExchange(t) PROVE ControlInv'
    <2>1. OthersCalled(t) /\ thread'[t].pc = IF monitoring THEN "initial" ELSE "reset"
      BY <1>a, <1>1, StartExchangeOK
    <2>2. /\ ~disturbed' => ~disturbed /\ (monitoring \/ ~RunsInto(t))
          /\ monitoring' = TRUE /\ thread[t].pc = "idle"
          /\ UNCHANGED <<should_stop, joinable, terminated>>
      BY <1>a, <1>1, StartExchangeOK DEF StartExchange
    <2> QED BY <1>a, <2>1, <2>2, CallerFacts, MonitorFacts
            DEF ControlInv, RestOK, OthersCalled, Called, Busy, RunsInto, InStart, InStop, Ended
  <1>2. ASSUME NEW t \in Controllers \cup Nested, StopExchange(t) PROVE ControlInv'
    <2>1. OthersCalled(t) /\ IF monitoring THEN thread'[t].pc = "request"
                             ELSE thread'[t].pc \in {"clear", "idle"}
      BY <1>a, <1>2, StopExchangeOK
    <2>2. /\ ~disturbed' => ~disturbed /\ (~monitoring \/ (~RunsInto(t) /\ On[t] # Monitor))
          /\ monitoring' = FALSE /\ thread[t].pc = "idle"
          /\ UNCHANGED <<should_stop, joinable, terminated>>
      BY <1>a, <1>2, StopExchangeOK DEF StopExchange
    <2> QED BY <1>a, <2>1, <2>2, CallerFacts, MonitorFacts
            DEF ControlInv, RestOK, OthersCalled, Called, Busy, RunsInto, InStart, InStop, Ended
  <1>3. ASSUME NEW t \in Checkers \cup Nested, CheckForChanges(t) PROVE ControlInv'
    <2>1. OthersCalled(t) /\ thread'[t].pc = "report" /\ thread[t].pc = "idle" /\ UNCHANGED flags
      BY <1>a, <1>3, CheckForChangesOK DEF CheckForChanges
    <2>2. ControlKept
      BY <2>1, CallerFacts, MonitorFacts
         DEF ControlKept, OthersCalled, Called, Busy, InStart, InStop, Ended
    <2> QED BY <2>2, KeptStep
  <1>4. ASSUME NEW t \in Callers, CallerStep(t) PROVE ControlInv'
    <2> USE CallerFacts, MonitorFacts DEF Others
    <2>1. CASE StartReset(t)
      <3>1. Others(t) /\ thread'[t].pc = "spawn"
        BY <1>a, <2>1, StartResetOK
      <3> QED BY <1>a, <2>1, <3>1 DEF StartReset, ControlInv, Busy, InStart, InStop, Ended
    <2>2. CASE StartSpawn(t)
      <3>1. CASE joinable
        BY <1>a, <2>2, <3>1 DEF StartSpawn, ControlInv, Busy, InStart, InStop, Ended
      <3>2. CASE ~joinable
        <4>1. /\ thread'[t].pc = "initial" /\ thread'[Monitor].pc = "open"
              /\ \A u \in Callers \ {t} : thread'[u] = thread[u]
          BY <1>a, <2>2, <3>2, StartSpawnOK, MonitorFacts, FreshType
             DEF PCs, MonitorPCs
        <4> QED BY <1>a, <2>2, <3>2, <4>1
                DEF StartSpawn, ControlInv, Busy, InStart, InStop, Ended
      <3> QED BY <3>1, <3>2
    <2>3. CASE StartReadType(t)
      <3>1. thread[t].pc = "initial" /\ thread'[t].pc = "store" /\ Others(t) /\ UNCHANGED flags
        BY <1>a, <2>3, StartReadTypeOK DEF StartReadType
      <3> QED BY <3>1, KeptStep DEF ControlKept, Busy, InStart, InStop, Ended
    <2>4. CASE StartStoreType(t)
      <3>1. thread[t].pc = "store" /\ thread'[t].pc = "idle" /\ Others(t) /\ UNCHANGED flags
        BY <1>a, <2>4, StartStoreTypeOK DEF StartStoreType
      <3> QED BY <3>1, KeptStep DEF ControlKept, Busy, InStart, InStop, Ended
    <2>5. CASE StopRequest(t)
      <3>1. Others(t) /\ thread'[t].pc = "joinable"
        BY <1>a, <2>5, StopRequestOK
      <3> QED BY <1>a, <2>5, <3>1 DEF StopRequest, ControlInv, Busy, InStart, InStop, Ended
    <2>6. CASE StopJoinable(t)
      <3>1. Others(t) /\ IF joinable THEN thread'[t].pc = "join"
                         ELSE thread'[t].pc \in {"clear", "idle"}
        BY <1>a, <2>6, StopJoinableOK
      <3> QED BY <1>a, <2>6, <3>1 DEF StopJoinable, ControlInv, Busy, InStart, InStop, Ended
    <2>7. CASE StopJoin(t)
      <3>1. CASE joinable /\ On[t] # Monitor
        <4>1. Others(t) /\ thread'[t].pc \in {"clear", "idle"}
          BY <1>a, <2>7, <3>1, AfterStopOK DEF StopJoin
        <4> QED BY <1>a, <2>7, <3>1, <4>1
                DEF StopJoin, RestOK, ControlInv, Busy, InStart, InStop, Ended
      <3>2. CASE ~(joinable /\ On[t] # Monitor)
        BY <1>a, <2>7, <3>2 DEF StopJoin, ControlInv, Busy, InStart, InStop, Ended
      <3> QED BY <3>1, <3>2
    <2>8. CASE ShutdownClear(t)
      <3>1. thread[t].pc = "clear" /\ thread'[t].pc = "idle" /\ Others(t) /\ UNCHANGED flags
        BY <1>a, <2>8, ShutdownClearOK DEF ShutdownClear
      <3> QED BY <3>1, KeptStep DEF ControlKept, Busy, InStart, InStop, Ended
    <2>9. CASE ReportStep(t)
      <3>1. ReportEffect(t) /\ UNCHANGED flags
        BY <1>a, <2>9, ReportStepOK
      <3> QED BY <3>1, KeptStep
              DEF ReportEffect, Reporting, ControlKept, Busy, InStart, InStop, Ended
    <2> QED BY <1>4, <2>1, <2>2, <2>3, <2>4, <2>5, <2>6, <2>7, <2>8, <2>9 DEF CallerStep
  <1>5. CASE MonitorStep
    <2> USE CallerFacts, MonitorFacts DEF Others, MonitorGoto
    <2>1. CASE MonitorOpen
      <3>1. thread[Monitor].pc = "open" /\ MonitorGoto("check") /\ UNCHANGED flags
        BY <1>a, <2>1, MonitorGotoOK DEF MonitorOpen
      <3> QED BY <3>1, KeptStep DEF ControlKept, Busy, InStart, InStop, Ended
    <2>2. CASE MonitorCannotOpen
      BY <2>2 DEF MonitorCannotOpen, ControlInv
    <2>3. CASE MonitorCheck
      <3>1. /\ thread[Monitor].pc = "check" /\ UNCHANGED flags
            /\ MonitorGoto(IF should_stop THEN "ended" ELSE "select")
        BY <1>a, <2>3, MonitorGotoOK DEF MonitorCheck
      <3> QED BY <1>a, <3>1 DEF ControlInv, Busy, InStart, InStop, Ended
    <2>4. CASE MonitorSelect
      <3>1. /\ thread[Monitor].pc = "select" /\ UNCHANGED flags
            /\ MonitorGoto("read") \/ MonitorGoto("check")
        BY <1>a, <2>4, MonitorSelectOK DEF MonitorSelect
      <3> QED BY <3>1, KeptStep DEF ControlKept, Busy, InStart, InStop, Ended
    <2>5. CASE MonitorBreaks
      <3>1. thread[Monitor].pc = "select" /\ MonitorGoto("broken") /\ UNCHANGED flags
        BY <1>a, <2>5, MonitorGotoOK DEF MonitorBreaks
      <3> QED BY <1>a, <3>1 DEF ControlInv, Busy, InStart, InStop, Ended
    <2>6. CASE MonitorRead
      <3>1. thread[Monitor].pc = "read" /\ MonitorGoto("report") /\ UNCHANGED flags
        BY <1>a, <2>6, MonitorReadOK DEF MonitorRead
      <3> QED BY <3>1, KeptStep DEF ControlKept, Busy, InStart, InStop, Ended
    <2>7. CASE ReportStep(Monitor)
      <3>1. ReportEffect(Monitor) /\ UNCHANGED flags
        BY <1>a, <2>7, ReportStepOK
      <3> QED BY <3>1, KeptStep
              DEF ReportEffect, Reporting, ControlKept, Busy, InStart, InStop, Ended
    <2> QED BY <1>5, <2>1, <2>2, <2>3, <2>4, <2>5, <2>6, <2>7 DEF MonitorStep
  <1>6. CASE UNCHANGED <<flags, thread>>
    BY <1>6, KeptStep DEF ControlKept, Busy
  <1>7. ASSUME NEW o \in Observers, AddObserver(o) \/ RemoveObserver(o)
        PROVE  UNCHANGED <<flags, thread>>
    BY <1>7 DEF AddObserver, RemoveObserver
  <1>8. CASE Change
    BY <1>6, <1>8 DEF Change
  <1>9. CASE UNCHANGED vars
    BY <1>6, <1>9 DEF vars
  <1> QED BY <1>1, <1>2, <1>3, <1>4, <1>5, <1>6, <1>7, <1>8, <1>9 DEF Next, Call

-----------------------------------------------------------------------------
(***************************************************************************)
(* The monitor keeps up with the platform.                                 *)
(***************************************************************************)
LEMMA UpToDateStep == TypeOK /\ MonitorUpToDate /\ [Next]_vars => MonitorUpToDate'
  <1> SUFFICES ASSUME TypeOK, MonitorUpToDate, [Next]_vars PROVE MonitorUpToDate'
    OBVIOUS
  <1>a. ThreadsOK /\ RestOK
    BY TypeParts
  <1> USE DEF platform
  <1>b. ASSUME thread'[Monitor].pc = thread[Monitor].pc,
               thread'[Monitor].msgs = thread[Monitor].msgs, UNCHANGED platform
        PROVE  MonitorUpToDate'
    BY <1>b DEF MonitorUpToDate
  <1>1. ASSUME NEW t \in Controllers \cup Nested, StartExchange(t) PROVE MonitorUpToDate'
    BY <1>a, <1>b, <1>1, StartExchangeOK, CallerFacts, MonitorFacts
       DEF StartExchange, OthersCalled, Called
  <1>2. ASSUME NEW t \in Controllers \cup Nested, StopExchange(t) PROVE MonitorUpToDate'
    <2>1. OthersCalled(t)
      BY <1>a, <1>2, StopExchangeOK
    <2> QED BY <1>b, <1>2, <2>1, CallerFacts, MonitorFacts DEF StopExchange, OthersCalled, Called
  <1>3. ASSUME NEW t \in Checkers \cup Nested, CheckForChanges(t) PROVE MonitorUpToDate'
    BY <1>a, <1>b, <1>3, CheckForChangesOK, CallerFacts, MonitorFacts
       DEF CheckForChanges, OthersCalled, Called
  <1>4. ASSUME NEW t \in Callers, CallerStep(t) PROVE MonitorUpToDate'
    <2>0. t # Monitor /\ t \in Threads /\ Monitor \in Threads
      BY CallerFacts, MonitorFacts
    <2>1. CASE StartReset(t)
      BY <1>a, <1>b, <2>0, <2>1, StartResetOK DEF StartReset, Others
    <2>2. CASE StartSpawn(t)
      <3>1. CASE joinable
        BY <1>b, <2>2, <3>1 DEF StartSpawn
      <3>2. CASE ~joinable
        <4>1. thread'[Monitor].pc = "open"
          BY <1>a, <2>2, <3>2, StartSpawnOK, FreshType DEF PCs, MonitorPCs
        <4> QED BY <4>1 DEF MonitorUpToDate, Watching
      <3> QED BY <3>1, <3>2
    <2>3. CASE StartReadType(t)
      BY <1>a, <1>b, <2>0, <2>3, StartReadTypeOK DEF StartReadType, Others
    <2>4. CASE StartStoreType(t)
      BY <1>a, <1>b, <2>0, <2>4, StartStoreTypeOK DEF StartStoreType, Others
    <2>5. CASE StopRequest(t)
      BY <1>a, <1>b, <2>0, <2>5, StopRequestOK DEF StopRequest, Others
    <2>6. CASE StopJoinable(t)
      BY <1>a, <1>b, <2>0, <2>6, StopJoinableOK DEF StopJoinable, Others
    <2>7. CASE StopJoin(t)
      <3>1. CASE joinable /\ On[t] # Monitor
        BY <1>a, <1>b, <2>0, <2>7, <3>1, AfterStopOK DEF StopJoin, Others
      <3>2. CASE ~(joinable /\ On[t] # Monitor)
        BY <1>b, <2>7, <3>2 DEF StopJoin
      <3> QED BY <3>1, <3>2
    <2>8. CASE ShutdownClear(t)
      BY <1>a, <1>b, <2>0, <2>8, ShutdownClearOK DEF ShutdownClear, Others
    <2>9. CASE ReportStep(t)
      BY <1>a, <1>b, <2>0, <2>9, ReportStepOK DEF ReportEffect, Others
    <2> QED BY <1>4, <2>1, <2>2, <2>3, <2>4, <2>5, <2>6, <2>7, <2>8, <2>9 DEF CallerStep
  <1>5. CASE MonitorStep
    <2> USE DEF MonitorGoto, MonitorUpToDate, Watching
    <2>1. CASE MonitorOpen
      BY <1>a, <2>1, MonitorGotoOK DEF MonitorOpen
    <2>2. CASE MonitorCannotOpen
      BY <1>a, <2>2, MonitorGotoOK DEF MonitorCannotOpen
    <2>3. CASE MonitorCheck
      BY <1>a, <2>3, MonitorGotoOK DEF MonitorCheck
    <2>4. CASE MonitorSelect
      BY <1>a, <2>4, MonitorSelectOK DEF MonitorSelect
    <2>5. CASE MonitorBreaks
      BY <1>a, <2>5, MonitorGotoOK DEF MonitorBreaks
    <2>6. CASE MonitorRead
      BY <1>a, <2>6, MonitorReadOK DEF MonitorRead
    <2>7. CASE ReportStep(Monitor)
      BY <1>a, <2>7, MonitorFacts, ReportStepOK DEF ReportEffect, Reporting
    <2> QED BY <1>5, <2>1, <2>2, <2>3, <2>4, <2>5, <2>6, <2>7 DEF MonitorStep
  <1>6. ASSUME NEW o \in Observers, AddObserver(o) \/ RemoveObserver(o)
        PROVE  MonitorUpToDate'
    BY <1>b, <1>6 DEF AddObserver, RemoveObserver
  <1>7. CASE Change
    BY <1>7 DEF Change, MonitorUpToDate
  <1>8. CASE UNCHANGED vars
    BY <1>b, <1>8 DEF vars
  <1> QED BY <1>1, <1>2, <1>3, <1>4, <1>5, <1>6, <1>7, <1>8 DEF Next, Call

-----------------------------------------------------------------------------
\* The inductive invariant holds in every state the notifier reaches.
THEOREM Invariance == Spec => []IInv
  <1>1. IInv /\ [Next]_vars => IInv'
    BY TypeStep, ControlStep, UpToDateStep DEF IInv
  <1> QED BY InitIInv, <1>1, PTL DEF Spec

\* The variables keep their types (the types of NetworkChangeNotifier's
\* members), and only the monitor runs monitorLoop.
THEOREM TypeCorrect == Spec => []TypeOK
  <1>1. IInv => TypeOK
    BY DEF IInv
  <1> QED BY Invariance, <1>1, PTL

\* start and stop end the program only if two of them overlapped, the monitor
\* could not open its socket, or an observer it called stopped the notifier, for
\* any number of threads and any calls that observers make.
THEOREM TerminationCorrect == Spec => []OnlyDisturbedTerminates
  <1>1. IInv => OnlyDisturbedTerminates
    BY DEF IInv, TypeOK, ControlInv, OnlyDisturbedTerminates
  <1> QED BY Invariance, <1>1, PTL

\* Between undisturbed starts and stops monitoring_ tells whether there is a
\* monitor, so that stop leaves none behind.
THEOREM FlagCorrect == Spec => []ThreadFollowsFlag
  <1>1. IInv => ThreadFollowsFlag
    BY DEF IInv, TypeOK, ControlInv, ThreadFollowsFlag
  <1> QED BY Invariance, <1>1, PTL

\* The monitor never waits in select with a change it has not seen and no
\* message to wake it (monitorLoop).
THEOREM UpToDateCorrect == Spec => []MonitorUpToDate
  <1>1. IInv => MonitorUpToDate
    BY DEF IInv
  <1> QED BY Invariance, <1>1, PTL

-----------------------------------------------------------------------------
(***************************************************************************)
(* How long a stop waits for the monitor, and a message to be read: what   *)
(* the liveness properties rest on, apart from fairness.  Each step of the *)
(* monitor lowers a number, no other step raises it, and until it is zero  *)
(* the monitor has a step that waits for nobody but the calls that its own *)
(* observers make.                                                         *)
(***************************************************************************)
\* More than the steps from one message of a batch to the next.
Round == Cardinality(Observers) + 5

\* The steps that a monitor with record r may still take when it was told to
\* stop: it finishes the batch, and takes one more if it was about to select.
StepsLeft(r) ==
  CASE r.pc = "check" -> 1
    [] r.pc = "open" -> 2
    [] r.pc = "select" -> MaxBatch * Round + 2
    [] r.pc = "read" -> r.msgs * Round + 1
    [] r.pc = "report" -> r.msgs * Round + Round
    [] r.pc = "copy" -> r.msgs * Round + Round - 1
    [] r.pc = "notify" -> r.msgs * Round + 3 + Cardinality(r.todo)
    [] OTHER -> 0

\* The steps it may still take before it looks at its socket, or ends.
StepsToRead(r) == IF r.pc = "select" THEN 1 ELSE StepsLeft(r) + 1

\* The monitor has a step: the guards of MonitorStep, which depend on its own
\* record and on no observer it called being in a call of its own.
MonitorReady ==
  \/ \E pc \in {"open", "check", "select", "read", "report", "copy"} : At(Monitor, pc)
  \/ /\ At(Monitor, "notify")
     /\ thread[Monitor].todo = {} \/ \E o \in Observers : o \in thread[Monitor].todo

\* A stop that waits, undisturbed, will be let go: its join may return, or the
\* monitor has a step left or is in an observer that makes a call.
StopNeverStuck ==
  \A t \in Callers : thread[t].pc = "join" /\ ~disturbed =>
    /\ ~terminated /\ joinable
    /\ thread[Monitor].pc \in Ended \/ MonitorReady \/ InObserver(Monitor)
    /\ StepsLeft(thread[Monitor]) \in Nat

\* Every step of the monitor brings it nearer to its end while a stop waits for
\* it, and no other step takes it back, whatever messages arrive and whatever
\* observers call; the stop returns only after that.
StopDrains ==
  [][\A t \in Callers : thread[t].pc = "join" /\ ~disturbed' =>
       \/ thread[Monitor].pc \in Ended /\ thread'[t].pc \in {"idle", "clear"}
       \/ /\ thread'[t].pc = "join"
          /\ IF MonitorStep THEN StepsLeft(thread'[Monitor]) < StepsLeft(thread[Monitor])
             ELSE StepsLeft(thread'[Monitor]) <= StepsLeft(thread[Monitor])]_vars

\* A message that waits has a monitor that can go on, or is in an observer that
\* makes a call.
MessageNeverStuck ==
  pending => /\ terminated \/ MonitorReady \/ InObserver(Monitor)
             /\ StepsToRead(thread[Monitor]) \in Nat

\* Every step of the monitor brings it nearer to its socket while a message
\* waits there, and no other step takes it back.
MessageNears ==
  [][pending /\ pending' =>
       IF MonitorStep THEN StepsToRead(thread'[Monitor]) < StepsToRead(thread[Monitor])
       ELSE StepsToRead(thread'[Monitor]) <= StepsToRead(thread[Monitor])]_vars

\* While the monitor lives its thread can be joined, and only then do messages
\* wait for it.
Alive ==
  /\ ~joinable => thread[Monitor].pc \in Ended
  /\ pending => thread[Monitor].pc \in Watching

\* What the monitor goes back to after a message: the next one or its loop.
Resumes(r, s) == s.pc = "check" \/ (s.pc = "read" /\ s.msgs = r.msgs)

\* The steps of the monitor, from record r to record s.
Moves(r, s) ==
  \/ r.pc = "open" /\ s.pc \in {"check", "unopened"}
  \/ r.pc = "check" /\ s.pc = (IF should_stop THEN "ended" ELSE "select")
  \/ r.pc = "select" /\ (s.pc \in {"check", "broken"} \/ (s.pc = "read" /\ s.msgs \in 1..MaxBatch))
  \/ r.pc = "read" /\ s.pc = "report" /\ s.msgs = r.msgs - 1
  \/ r.pc = "report" /\ ((s.pc = "copy" /\ s.msgs = r.msgs) \/ Resumes(r, s))
  \/ r.pc = "copy" /\ s.pc = "notify" /\ s.msgs = r.msgs /\ s.todo \subseteq Observers
  \/ /\ r.pc = "notify"
     /\ \/ Resumes(r, s)
        \/ s.pc = "notify" /\ s.msgs = r.msgs /\ \E o \in r.todo : s.todo = r.todo \ {o}

\* Each step of the monitor is one of these, and leaves the others alone.
LEMMA MonitorMoves ==
  ASSUME TypeOK, MonitorStep
  PROVE  /\ Moves(thread[Monitor], thread'[Monitor])
         /\ Others(Monitor) /\ UNCHANGED <<should_stop, joinable>>
         /\ pending' => pending /\ thread[Monitor].pc # "select"
         /\ pending' => thread[Monitor].pc # "check" \/ ~should_stop
  <1> DEFINE r == thread[Monitor]
             s == thread'[Monitor]
  <1>1. /\ thread \in [Threads -> ThreadState] /\ Monitor \in Threads /\ r \in ThreadState
        /\ r.msgs \in 0..MaxBatch /\ r.todo \in SUBSET Observers
        /\ observers \in SUBSET Observers
    BY DEF TypeOK, Threads, ThreadState
  <1>2. ASSUME NEW q, Become(Monitor, q)
        PROVE  s = q /\ Others(Monitor)
    BY <1>1, <1>2 DEF Become, Others
  <1>3. ASSUME NEW pc, Goto(Monitor, pc)
        PROVE  /\ s.pc = pc /\ s.msgs = r.msgs /\ s.todo = r.todo /\ Others(Monitor)
    <2>1. s = [r EXCEPT !.pc = pc] /\ Others(Monitor)
      BY <1>2, <1>3 DEF Goto
    <2> QED BY <1>1, <2>1 DEF ThreadState
  <1>4. ASSUME Become(Monitor, AfterReport(Monitor)) PROVE Resumes(r, s) /\ Others(Monitor)
    <2>1. s = AfterReport(Monitor) /\ Others(Monitor)
      BY <1>2, <1>4
    <2> QED BY <1>1, <2>1 DEF AfterReport, Resumes, ThreadState, Fresh
  <1> USE DEF flags, platform
  <1>5. CASE MonitorOpen
    BY <1>3, <1>5 DEF MonitorOpen, Moves
  <1>6. CASE MonitorCannotOpen
    BY <1>3, <1>6 DEF MonitorCannotOpen, Moves
  <1>7. CASE MonitorCheck
    BY <1>3, <1>7 DEF MonitorCheck, Moves
  <1>8. CASE MonitorSelect
    <2>1. r.pc = "select" /\ ~pending' /\ UNCHANGED <<should_stop, joinable>>
      BY <1>8 DEF MonitorSelect
    <2>2. CASE pending
      <3>1. PICK n \in 1..MaxBatch : Become(Monitor, [r EXCEPT !.pc = "read", !.msgs = n])
        BY <1>8, <2>2 DEF MonitorSelect
      <3>2. s = [r EXCEPT !.pc = "read", !.msgs = n] /\ Others(Monitor)
        BY <1>2, <3>1
      <3>3. s.pc = "read" /\ s.msgs = n
        BY <1>1, <3>2 DEF ThreadState
      <3> QED BY <2>1, <3>2, <3>3 DEF Moves
    <2>3. CASE ~pending
      BY <1>3, <1>8, <2>1, <2>3 DEF MonitorSelect, Moves
    <2> QED BY <2>2, <2>3
  <1>9. CASE MonitorBreaks
    BY <1>3, <1>9 DEF MonitorBreaks, Moves
  <1>10. CASE MonitorRead
    <2>1. /\ s = [r EXCEPT !.pc = "report", !.type = live, !.msgs = @ - 1] /\ Others(Monitor)
          /\ r.pc = "read" /\ UNCHANGED <<should_stop, joinable, pending>>
      BY <1>2, <1>10 DEF MonitorRead
    <2>2. s.pc = "report" /\ s.msgs = r.msgs - 1
      BY <1>1, <2>1 DEF ThreadState
    <2> QED BY <2>1, <2>2 DEF Moves
  <1>11. CASE Report(Monitor)
    BY <1>3, <1>4, <1>11 DEF Report, Moves, Resumes
  <1>12. CASE CopyObservers(Monitor)
    <2>1. /\ s = [r EXCEPT !.pc = "notify", !.todo = observers] /\ Others(Monitor)
          /\ r.pc = "copy" /\ UNCHANGED <<should_stop, joinable, pending>>
      BY <1>2, <1>12 DEF CopyObservers
    <2>2. s.pc = "notify" /\ s.msgs = r.msgs /\ s.todo = observers
      BY <1>1, <2>1 DEF ThreadState
    <2> QED BY <1>1, <2>1, <2>2 DEF Moves
  <1>13. ASSUME NEW o \in Observers, Notify(Monitor, o)
         PROVE  /\ Moves(r, s) /\ Others(Monitor) /\ r.pc = "notify" /\ s.pc = "notify"
                /\ UNCHANGED <<should_stop, joinable, pending>>
    <2>1. /\ s = [r EXCEPT !.todo = @ \ {o}] /\ Others(Monitor)
          /\ r.pc = "notify" /\ o \in r.todo /\ UNCHANGED <<should_stop, joinable, pending>>
      BY <1>2, <1>13 DEF Notify
    <2>2. s.pc = "notify" /\ s.msgs = r.msgs /\ s.todo = r.todo \ {o}
      BY <1>1, <2>1 DEF ThreadState
    <2> QED BY <2>1, <2>2 DEF Moves
  <1>14. CASE NotifyEnd(Monitor)
    BY <1>4, <1>14 DEF NotifyEnd, Moves, Resumes
  <1> QED BY <1>5, <1>6, <1>7, <1>8, <1>9, <1>10, <1>11, <1>12, <1>13, <1>14
          DEF MonitorStep, ReportStep

\* Each of them lowers both numbers, once the monitor was told to stop, or
\* unless it looks at its socket, respectively.
LEMMA MovesLower ==
  ASSUME NEW r \in ThreadState, NEW s \in ThreadState, Moves(r, s)
  PROVE  /\ StepsLeft(r) \in Nat /\ StepsToRead(r) \in Nat
         /\ should_stop => StepsLeft(s) < StepsLeft(r)
         /\ r.pc # "select" => StepsToRead(s) < StepsToRead(r)
  <1> DEFINE K == Cardinality(Observers)
  <1>1. K \in Nat /\ Round = K + 5
    BY FS_CardinalityType DEF Round
  <1>2. /\ r.msgs \in 0..MaxBatch /\ s.msgs \in 0..MaxBatch
        /\ r.todo \in SUBSET Observers /\ s.todo \in SUBSET Observers
    BY DEF ThreadState
  <1>3. \A T \in SUBSET Observers :
           /\ IsFiniteSet(T) /\ Cardinality(T) \in Nat /\ Cardinality(T) <= K
           /\ \A o \in T : Cardinality(T \ {o}) = Cardinality(T) - 1
    BY FS_Subset, FS_CardinalityType, FS_RemoveElement
  <1> DEFINE a == r.msgs * Round
             b == s.msgs * Round
             m == MaxBatch * Round
             c == Cardinality(r.todo)
             d == Cardinality(s.todo)
  <1>4. /\ a \in Nat /\ b \in Nat /\ m \in Nat /\ b <= m
        /\ s.msgs = r.msgs => b = a
        /\ s.msgs = r.msgs - 1 => b = a - Round
    <2>1. \A i, j \in 0..MaxBatch : i <= j => i * Round <= j * Round
      BY <1>1
    <2>2. MaxBatch \in 0..MaxBatch
      OBVIOUS
    <2>3. \A i \in 0..MaxBatch : i * Round \in Nat /\ (i - 1) * Round = i * Round - Round
      BY <1>1
    <2> QED BY <1>1, <1>2, <2>1, <2>2, <2>3
  <1>5. c \in 0..K /\ d \in 0..K /\ ((\E o \in r.todo : s.todo = r.todo \ {o}) => d = c - 1)
    BY <1>1, <1>2, <1>3
  <1>6. /\ StepsLeft(r) = CASE r.pc = "check" -> 1 [] r.pc = "open" -> 2 [] r.pc = "select" -> m + 2
                            [] r.pc = "read" -> a + 1 [] r.pc = "report" -> a + Round
                            [] r.pc = "copy" -> a + Round - 1 [] r.pc = "notify" -> a + 3 + c
                            [] OTHER -> 0
        /\ StepsLeft(s) = CASE s.pc = "check" -> 1 [] s.pc = "open" -> 2 [] s.pc = "select" -> m + 2
                            [] s.pc = "read" -> b + 1 [] s.pc = "report" -> b + Round
                            [] s.pc = "copy" -> b + Round - 1 [] s.pc = "notify" -> b + 3 + d
                            [] OTHER -> 0
    BY DEF StepsLeft
  <1>7. /\ StepsToRead(r) = IF r.pc = "select" THEN 1 ELSE StepsLeft(r) + 1
        /\ StepsToRead(s) = IF s.pc = "select" THEN 1 ELSE StepsLeft(s) + 1
    BY DEF StepsToRead
  <1>8. Moves(r, s)
    OBVIOUS
  <1>9. r.msgs > 0 \/ r.pc # "read"
    BY <1>2, <1>8 DEF Moves, Resumes
  <1> HIDE DEF a, b, m, c, d, K
  <1>10. StepsLeft(r) \in Nat /\ StepsToRead(r) \in Nat
    BY <1>1, <1>4, <1>5, <1>6, <1>7
  <1>11. ASSUME should_stop PROVE StepsLeft(s) < StepsLeft(r)
    BY <1>1, <1>4, <1>5, <1>6, <1>8, <1>11 DEF Moves, Resumes
  <1>12. ASSUME r.pc # "select" PROVE StepsToRead(s) < StepsToRead(r)
    BY <1>1, <1>4, <1>5, <1>6, <1>7, <1>8, <1>12 DEF Moves, Resumes
  <1> QED BY <1>10, <1>11, <1>12

\* The call of an observer's own call raises neither.
LEMMA CalledKeeps ==
  ASSUME NEW r \in ThreadState, NEW s \in ThreadState, Called(r, s)
  PROVE  StepsLeft(s) <= StepsLeft(r) /\ StepsToRead(s) <= StepsToRead(r)
  <1>1. s.pc = r.pc /\ s.msgs = r.msgs /\ s.todo \subseteq r.todo /\ IsFiniteSet(r.todo)
    BY FS_Subset DEF Called, ThreadState
  <1>2. /\ Cardinality(r.todo) \in Nat /\ Cardinality(s.todo) \in Nat
        /\ Cardinality(s.todo) <= Cardinality(r.todo)
    BY <1>1, FS_Subset, FS_CardinalityType
  <1>3. Round \in Nat /\ r.msgs * Round \in Nat /\ MaxBatch * Round \in Nat
    <2>1. Round \in Nat /\ r.msgs \in Nat
      BY FS_CardinalityType DEF Round, ThreadState
    <2> QED BY <2>1
  <1> DEFINE c == Cardinality(r.todo)
             d == Cardinality(s.todo)
             a == r.msgs * Round
  <1>4. /\ StepsLeft(r) \in Nat /\ StepsLeft(s) \in Nat
        /\ StepsLeft(s) <= StepsLeft(r)
    <2>1. CASE r.pc = "notify"
      <3>1. StepsLeft(r) = a + 3 + c /\ StepsLeft(s) = a + 3 + d
        BY <1>1, <2>1 DEF StepsLeft
      <3> QED BY <1>2, <1>3, <3>1
    <2>2. CASE r.pc # "notify"
      <3>1. StepsLeft(r) = StepsLeft(s)
        BY <1>1, <2>2 DEF StepsLeft
      <3> DEFINE m == MaxBatch * Round
      <3>2. StepsLeft(r) \in {0, 1, 2, m + 2, a + 1, a + Round, a + Round - 1}
        BY <2>2 DEF StepsLeft
      <3>3. a + Round - 1 \in Nat
        <4>1. Round >= 5
          BY FS_CardinalityType DEF Round
        <4> QED BY <1>3, <4>1
      <3>4. StepsLeft(r) \in Nat
        <4> HIDE DEF a, m
        <4> m \in Nat /\ a \in Nat
          BY <1>3 DEF a, m
        <4> QED BY <1>3, <3>2, <3>3
      <3> QED BY <3>1, <3>4
    <2> QED BY <2>1, <2>2
  <1> QED BY <1>1, <1>4 DEF StepsToRead

\* A step of another thread or of the environment leaves the monitor's record,
\* but for the call of a nested call, unless it makes a new monitor; and it takes a thread out of a join only when
\* the monitor has ended.
LEMMA OthersLeave ==
  ASSUME TypeOK, [Next]_vars, ~MonitorStep
  PROVE  /\ \/ Called(thread[Monitor], thread'[Monitor]) /\ (joinable => joinable' \/ thread[Monitor].pc \in Ended)
            \/ ~joinable /\ joinable' /\ thread'[Monitor].pc = "open"
         /\ pending' => pending \/ thread'[Monitor].pc \in Watching
  <1>a. ThreadsOK /\ RestOK
    BY TypeParts
  <1> USE CallerFacts, MonitorFacts DEF flags, platform, Others, OthersCalled, Called
  <1>1. ASSUME NEW t \in Controllers \cup Nested, StartExchange(t)
        PROVE  Called(thread[Monitor], thread'[Monitor]) /\ UNCHANGED <<joinable, pending>>
    BY <1>a, <1>1, StartExchangeOK DEF StartExchange
  <1>2. ASSUME NEW t \in Controllers \cup Nested, StopExchange(t)
        PROVE  Called(thread[Monitor], thread'[Monitor]) /\ UNCHANGED <<joinable, pending>>
    <2>1. OthersCalled(t)
      BY <1>a, <1>2, StopExchangeOK
    <2> QED BY <1>2, <2>1 DEF StopExchange
  <1>3. ASSUME NEW t \in Checkers \cup Nested, CheckForChanges(t)
        PROVE  Called(thread[Monitor], thread'[Monitor]) /\ UNCHANGED <<joinable, pending>>
    BY <1>a, <1>3, CheckForChangesOK DEF CheckForChanges
  <1>4. ASSUME NEW t \in Callers, CallerStep(t)
        PROVE  /\ UNCHANGED pending
               /\ \/ Called(thread[Monitor], thread'[Monitor]) /\ (joinable => joinable' \/ thread[Monitor].pc \in Ended)
                  \/ ~joinable /\ joinable' /\ thread'[Monitor].pc = "open"
    <2>1. CASE StartReset(t)
      BY <1>a, <2>1, StartResetOK DEF StartReset
    <2>2. CASE StartSpawn(t)
      <3>1. CASE joinable
        BY <2>2, <3>1 DEF StartSpawn
      <3>2. CASE ~joinable
        BY <1>a, <2>2, <3>2, StartSpawnOK, FreshType DEF StartSpawn, PCs, MonitorPCs
      <3> QED BY <3>1, <3>2
    <2>3. CASE StartReadType(t)
      BY <1>a, <2>3, StartReadTypeOK DEF StartReadType
    <2>4. CASE StartStoreType(t)
      BY <1>a, <2>4, StartStoreTypeOK DEF StartStoreType
    <2>5. CASE StopRequest(t)
      BY <1>a, <2>5, StopRequestOK DEF StopRequest
    <2>6. CASE StopJoinable(t)
      BY <1>a, <2>6, StopJoinableOK DEF StopJoinable
    <2>7. CASE StopJoin(t)
      BY <1>a, <2>7, AfterStopOK DEF StopJoin
    <2>8. CASE ShutdownClear(t)
      BY <1>a, <2>8, ShutdownClearOK DEF ShutdownClear
    <2>9. CASE ReportStep(t)
      BY <1>a, <2>9, ReportStepOK DEF ReportEffect
    <2> QED BY <1>4, <2>1, <2>2, <2>3, <2>4, <2>5, <2>6, <2>7, <2>8, <2>9 DEF CallerStep
  <1>5. ASSUME NEW o \in Observers, AddObserver(o) \/ RemoveObserver(o)
        PROVE  UNCHANGED <<thread, joinable, pending>>
    BY <1>5 DEF AddObserver, RemoveObserver
  <1>6. CASE Change
    BY <1>6 DEF Change
  <1>7. CASE UNCHANGED vars
    BY <1>7 DEF vars
  <1> QED BY <1>1, <1>2, <1>3, <1>4, <1>5, <1>6, <1>7 DEF Next, Call

\* A thread object stands for a monitor that has not ended, whatever steps.
LEMMA AliveStep == TypeOK /\ Alive /\ [Next]_vars => Alive'
  <1> SUFFICES ASSUME TypeOK, Alive, [Next]_vars PROVE Alive'
    OBVIOUS
  <1>1. CASE MonitorStep
    BY <1>1, MonitorMoves DEF Alive, Moves, Resumes, Ended, Watching
  <1>2. CASE ~MonitorStep
    BY <1>2, OthersLeave DEF Alive, Called, Ended, Watching
  <1> QED BY <1>1, <1>2

\* A step while a stop waits, undisturbed: the thread stays in its join unless
\* the monitor has ended, and no other start or stop is begun.
LEMMA JoinWaits ==
  ASSUME TypeOK, ControlInv, [Next]_vars, ~MonitorStep, ~disturbed',
         NEW t \in Callers, thread[t].pc = "join"
  PROVE  /\ ~disturbed /\ Called(thread[Monitor], thread'[Monitor])
         /\ \/ thread[Monitor].pc \in Ended /\ thread'[t].pc \in {"idle", "clear"}
            \/ thread'[t].pc = "join"
  <1>a. ThreadsOK /\ RestOK
    BY TypeParts
  <1> USE CallerFacts, MonitorFacts DEF flags, platform, Others, OthersCalled, Called
  <1>b. ~disturbed => /\ should_stop /\ joinable /\ ~monitoring /\ ~terminated /\ On[t] # Monitor
                      /\ \A u \in Callers : u # t => ~Busy(u)
    BY DEF ControlInv, Busy, InStop
  <1>c. Busy(t)
    BY DEF Busy, InStop
  <1> DEFINE Goal == /\ ~disturbed /\ Called(thread[Monitor], thread'[Monitor])
                     /\ \/ thread[Monitor].pc \in Ended /\ thread'[t].pc \in {"idle", "clear"}
                        \/ thread'[t].pc = "join"
  <1>1. ASSUME NEW u \in Controllers \cup Nested, StartExchange(u) PROVE Goal
    <2>1. u # t /\ ~disturbed /\ (monitoring \/ ~RunsInto(u))
      BY <1>a, <1>1, StartExchangeOK DEF StartExchange
    <2> QED BY <1>b, <1>c, <2>1 DEF RunsInto
  <1>2. ASSUME NEW u \in Controllers \cup Nested, StopExchange(u) PROVE Goal
    <2>1. u # t /\ ~disturbed
      BY <1>a, <1>2, StopExchangeOK DEF StopExchange
    <2> QED BY <1>a, <1>2, <2>1, StopExchangeOK
  <1>3. ASSUME NEW u \in Checkers \cup Nested, CheckForChanges(u) PROVE Goal
    BY <1>a, <1>3, CheckForChangesOK DEF CheckForChanges
  <1>4. ASSUME NEW u \in Callers, CallerStep(u) PROVE Goal
    <2>1. ~disturbed
      <3>1. disturbed' = disturbed
        BY <1>4, <1>a, ReportStepOK
           DEF CallerStep, StartReset, StartSpawn, StartReadType, StartStoreType, StopRequest,
               StopJoinable, StopJoin, ShutdownClear
      <3> QED BY <3>1
    <2>2. u = t \/ thread[u].pc \notin InStart \cup InStop
      BY <1>b, <2>1 DEF Busy
    <2>3. CASE StopJoin(u)
      <3>1. u = t
        BY <2>2, <2>3 DEF StopJoin, InStop
      <3> QED BY <1>a, <1>b, <2>1, <2>3, <3>1, AfterStopOK DEF StopJoin
    <2>4. CASE StartReset(u) \/ StartSpawn(u) \/ StopRequest(u) \/ StopJoinable(u)
      BY <2>2, <2>4 DEF StartReset, StartSpawn, StopRequest, StopJoinable, InStart, InStop
    <2>5. CASE StartReadType(u)
      BY <1>a, <2>1, <2>5, StartReadTypeOK DEF StartReadType
    <2>6. CASE StartStoreType(u)
      BY <1>a, <2>1, <2>6, StartStoreTypeOK DEF StartStoreType
    <2>7. CASE ShutdownClear(u)
      BY <1>a, <2>1, <2>7, ShutdownClearOK DEF ShutdownClear
    <2>8. CASE ReportStep(u)
      BY <1>a, <2>1, <2>8, ReportStepOK DEF ReportEffect, Reporting
    <2> QED BY <1>4, <2>3, <2>4, <2>5, <2>6, <2>7, <2>8 DEF CallerStep
  <1>5. CASE UNCHANGED <<thread, disturbed>>
    BY <1>5
  <1>6. ASSUME NEW o \in Observers, AddObserver(o) \/ RemoveObserver(o)
        PROVE  UNCHANGED <<thread, disturbed>>
    BY <1>6 DEF AddObserver, RemoveObserver
  <1>7. CASE Change
    BY <1>5, <1>7 DEF Change
  <1>8. CASE UNCHANGED vars
    BY <1>5, <1>8 DEF vars
  <1> QED BY <1>1, <1>2, <1>3, <1>4, <1>5, <1>6, <1>7, <1>8 DEF Next, Call

\* The monitor's record is of its type before and after a step.
LEMMA MonitorRecords ==
  ASSUME TypeOK, TypeOK'
  PROVE  thread[Monitor] \in ThreadState /\ thread'[Monitor] \in ThreadState
  BY MonitorFacts DEF TypeOK

\* The monitor's record counts some number of steps, and unless it has ended or
\* the program has, one of its steps is possible.
LEMMA ReadyUnlessEnded ==
  ASSUME TypeOK
  PROVE  /\ StepsLeft(thread[Monitor]) \in Nat /\ StepsToRead(thread[Monitor]) \in Nat
         /\ \/ terminated \/ thread[Monitor].pc \in Ended
            \/ MonitorReady \/ InObserver(Monitor)
  <1>1. thread[Monitor] \in ThreadState /\ thread[Monitor].pc \in MonitorPCs
    BY MonitorFacts DEF TypeOK
  <1>2. /\ thread[Monitor].msgs \in Nat /\ Cardinality(thread[Monitor].todo) \in Nat
        /\ thread[Monitor].todo \in SUBSET Observers
    <2>1. thread[Monitor].msgs \in Nat /\ thread[Monitor].todo \in SUBSET Observers
      BY <1>1 DEF ThreadState
    <2> QED BY <2>1, FS_Subset, FS_CardinalityType
  <1>3. Round \in Nat /\ Round >= 5
    BY FS_CardinalityType DEF Round
  <1>4. thread[Monitor].msgs * Round \in Nat /\ MaxBatch * Round \in Nat
    BY <1>2, <1>3
  <1>5. StepsLeft(thread[Monitor]) \in Nat
    BY <1>2, <1>3, <1>4 DEF StepsLeft
  <1>6. StepsToRead(thread[Monitor]) \in Nat
    BY <1>5 DEF StepsToRead
  <1>7. \/ terminated \/ thread[Monitor].pc \in Ended
        \/ MonitorReady \/ InObserver(Monitor)
    BY <1>1, <1>2 DEF MonitorReady, MonitorPCs, Watching
  <1> QED BY <1>5, <1>6, <1>7

\* A stop that nothing disturbs waits for a bounded number of the monitor's
\* steps, each of them possible: stop cannot hang on a busy network.
THEOREM StopWaitBounded == Spec => []StopNeverStuck /\ StopDrains
  <1>1. IInv => StopNeverStuck
    BY ReadyUnlessEnded DEF IInv, ControlInv, StopNeverStuck, InStop
  <1>2. ASSUME IInv, IInv', [Next]_vars, NEW t \in Callers, thread[t].pc = "join", ~disturbed'
        PROVE  \/ thread[Monitor].pc \in Ended /\ thread'[t].pc \in {"idle", "clear"}
               \/ /\ thread'[t].pc = "join"
                  /\ IF MonitorStep THEN StepsLeft(thread'[Monitor]) < StepsLeft(thread[Monitor])
                     ELSE StepsLeft(thread'[Monitor]) <= StepsLeft(thread[Monitor])
    <2>1. CASE MonitorStep
      <3>1. thread'[t] = thread[t]
        BY <1>2, <2>1, MonitorMoves, CallerFacts DEF IInv, Others
      <3>2. should_stop
        <4>1. ~disturbed
          BY <1>2, <2>1 DEF IInv, MonitorStep, MonitorOpen, MonitorCannotOpen, MonitorCheck,
             MonitorSelect, MonitorBreaks, MonitorRead, ReportStep, Report, CopyObservers,
             NotifyEnd, Notify, flags
        <4> QED BY <1>2, <4>1 DEF IInv, ControlInv
      <3>3. thread[Monitor] \in ThreadState /\ thread'[Monitor] \in ThreadState
        BY <1>2, MonitorRecords DEF IInv
      <3> QED BY <1>2, <2>1, <3>1, <3>2, <3>3, MonitorMoves, MovesLower DEF IInv
    <2>2. CASE ~MonitorStep
      BY <1>2, <2>2, JoinWaits, MonitorRecords, CalledKeeps DEF IInv
    <2> QED BY <2>1, <2>2
  <1>3. IInv /\ IInv' /\ [Next]_vars =>
          [\A t \in Callers : thread[t].pc = "join" /\ ~disturbed' =>
             \/ thread[Monitor].pc \in Ended /\ thread'[t].pc \in {"idle", "clear"}
             \/ /\ thread'[t].pc = "join"
                /\ IF MonitorStep THEN StepsLeft(thread'[Monitor]) < StepsLeft(thread[Monitor])
                   ELSE StepsLeft(thread'[Monitor]) <= StepsLeft(thread[Monitor])]_vars
    BY <1>2
  <1> QED BY Invariance, <1>1, <1>3, PTL DEF Spec, StopDrains

\* A message waits for a bounded number of the monitor's steps, each of them
\* possible, whatever callers and the network do meanwhile.
THEOREM MessageWaitBounded == Spec => []MessageNeverStuck /\ MessageNears
  <1>1. Init => Alive
    BY MonitorFacts, InitIInv DEF Init, Alive, Fresh, Ended
  <1>2. IInv /\ Alive => MessageNeverStuck
    BY ReadyUnlessEnded DEF IInv, Alive, MessageNeverStuck, Watching, Ended
  <1>3. IInv /\ IInv' /\ Alive /\ [Next]_vars =>
          [pending /\ pending' =>
             IF MonitorStep THEN StepsToRead(thread'[Monitor]) < StepsToRead(thread[Monitor])
             ELSE StepsToRead(thread'[Monitor]) <= StepsToRead(thread[Monitor])]_vars
    <2> SUFFICES ASSUME IInv, IInv', Alive, [Next]_vars, pending, pending'
                 PROVE  IF MonitorStep
                        THEN StepsToRead(thread'[Monitor]) < StepsToRead(thread[Monitor])
                        ELSE StepsToRead(thread'[Monitor]) <= StepsToRead(thread[Monitor])
      OBVIOUS
    <2>1. thread[Monitor] \in ThreadState /\ thread'[Monitor] \in ThreadState
      BY MonitorRecords DEF IInv
    <2>2. CASE MonitorStep
      BY <2>1, <2>2, MonitorMoves, MovesLower DEF IInv
    <2>3. CASE ~MonitorStep
      BY <2>1, <2>3, OthersLeave, CalledKeeps DEF IInv, Alive, Watching, Ended
    <2> QED BY <2>2, <2>3
  <1>4. Spec => []Alive
    <2>1. IInv /\ Alive /\ [Next]_vars => Alive'
      BY AliveStep DEF IInv
    <2> QED BY Invariance, <1>1, <2>1, PTL DEF Spec
  <1> QED BY Invariance, <1>2, <1>3, <1>4, PTL DEF MessageNears, Spec
=============================================================================
