---------------------- MODULE TransportSamplerProofs ----------------------
(***************************************************************************)
(* Proofs about the transport sampler, for any sets of threads and         *)
(* sockets.                                                                *)
(***************************************************************************)
EXTENDS TransportSampler, FiniteSetTheorems, TLAPS

Pc(t) == thread[t].pc
New(t) == thread[t].new
Todo(t) == thread[t].todo

\* Every worker that was made is held by th_ or by the start that made it, and
\* no group of workers holds itself: each is reached from th_ or from a
\* controller.  A thread holds a new worker exactly until it assigns it.
Owned ==
  /\ \A t \in Threads : New(t) # NoThread <=> Pc(t) = "assign"
  /\ \A S \in SUBSET Workers :
       S # {} /\ (\A w \in S : Pc(w) # "none") =>
         \E w \in S : w = th \/ \E t \in Threads \ S : New(t) = w

\* What start and stop rely on as long as no two of them run into each other:
\* how far the one that is under way has come, and the flag if there is none,
\* tell which worker there is.
Control ==
  ~disturbed =>
    /\ ~terminated
    /\ \A w \in Workers : ~Busy(w)
    /\ \A t, u \in Threads : Busy(t) /\ Busy(u) => t = u
    /\ (\A t \in Threads : ~Busy(t)) => (run <=> th # NoThread)
    /\ (\A t \in Threads : ~Busy(t)) /\ th # NoThread => Pc(th) \notin Gone
    /\ \A t \in Threads :
         /\ Pc(t) \in InStart => run /\ th = NoThread
         /\ Pc(t) = "assign" => New(t) \in Workers /\ Pc(New(t)) \notin Gone
         /\ Pc(t) \in InStop => ~run
         /\ Pc(t) = "join" => th # NoThread
    /\ th # NoThread => Pc(th) # "none"
    /\ \A w \in Workers : Pc(w) # "none" =>
         w = th \/ \E t \in Threads : Pc(t) = "assign" /\ New(t) = w

\* A copy holds only sockets that were not sampled since they were unregistered.
Copies ==
  /\ \A s \in socks : late[s] = -1
  /\ \A w \in Workers : Pc(w) = "none" => Todo(w) = {}
  /\ ~disturbed => \A w \in Workers : \A s \in Todo(w) : late[s] <= 0

\* The destructor is the last call, and alone.
Closing ==
  /\ life = "closing" =>
       /\ \A c \in Controllers : Pc(c) \in {"idle"} \cup InStop
       /\ \A c, d \in Controllers : Pc(c) # "idle" /\ Pc(d) # "idle" => c = d
  /\ life = "destroyed" => \A c \in Controllers : Pc(c) = "idle"

IInv ==
  /\ TypeOK /\ Owned /\ Control /\ Copies /\ Closing
  /\ DestroyedAlone /\ AtMostOneLateSample

-----------------------------------------------------------------------------
(***************************************************************************)
(* What each step does to the records of the threads.                      *)
(***************************************************************************)
USE SamplerConstants

PCs == ControllerPCs \cup WorkerPCs

Others(t) == \A u \in Threads \ {t} : thread'[u] = thread[u]

LEMMA Distinct ==
  /\ Controllers \subseteq Threads /\ Workers \subseteq Threads
  /\ \A t \in Threads : t # NoThread
  /\ \A c \in Controllers : c \notin Workers
BY DEF Threads

LEMMA GotoEffect ==
  ASSUME TypeOK, NEW t \in Threads, NEW pc \in PCs, Goto(t, pc)
  PROVE  /\ thread' \in [Threads -> ThreadState] /\ Others(t)
         /\ thread'[t].pc = pc
         /\ thread'[t].todo = thread[t].todo /\ thread'[t].new = thread[t].new
<1>1. thread \in [Threads -> ThreadState] /\ thread[t] \in ThreadState
  BY DEF TypeOK
<1> DEFINE r == [thread[t] EXCEPT !.pc = pc]
<1>2. /\ r \in ThreadState /\ r.pc = pc /\ r.todo = thread[t].todo /\ r.new = thread[t].new
  BY <1>1 DEF ThreadState, PCs
<1>3. thread' = [thread EXCEPT ![t] = r]
  BY DEF Goto, Become
<1> HIDE DEF r
<1> QED
  BY <1>1, <1>2, <1>3 DEF Others

LEMMA TodoEffect ==
  ASSUME TypeOK, NEW t \in Threads, NEW pc \in PCs, NEW S \in SUBSET Sockets,
         Become(t, [thread[t] EXCEPT !.pc = pc, !.todo = S])
  PROVE  /\ thread' \in [Threads -> ThreadState] /\ Others(t)
         /\ thread'[t].pc = pc /\ thread'[t].todo = S
         /\ thread'[t].new = thread[t].new
<1>1. thread \in [Threads -> ThreadState] /\ thread[t] \in ThreadState
  BY DEF TypeOK
<1> DEFINE r == [thread[t] EXCEPT !.pc = pc, !.todo = S]
<1>2. r \in ThreadState /\ r.pc = pc /\ r.todo = S /\ r.new = thread[t].new
  BY <1>1 DEF ThreadState, PCs
<1>3. thread' = [thread EXCEPT ![t] = r]
  BY DEF Become
<1> HIDE DEF r
<1> QED
  BY <1>1, <1>2, <1>3 DEF Others

LEMMA FreshType ==
  ASSUME NEW pc \in PCs
  PROVE  /\ Fresh(pc) \in ThreadState
         /\ Fresh(pc).pc = pc /\ Fresh(pc).todo = {} /\ Fresh(pc).new = NoThread
BY DEF Fresh, ThreadState, PCs

LEMMA SpawnEffect ==
  ASSUME TypeOK, NEW t \in Threads, NEW w \in Workers, w # t,
         thread' = [thread EXCEPT ![t].pc = "assign", ![t].new = w, ![w] = Fresh("check")]
  PROVE  /\ thread' \in [Threads -> ThreadState]
         /\ \A u \in Threads \ {t, w} : thread'[u] = thread[u]
         /\ thread'[t].pc = "assign" /\ thread'[t].new = w
         /\ thread'[t].todo = thread[t].todo
         /\ thread'[w].pc = "check" /\ thread'[w].todo = {} /\ thread'[w].new = NoThread
<1>1. thread \in [Threads -> ThreadState] /\ thread[t] \in ThreadState /\ w \in Threads
  BY DEF TypeOK, Threads
<1> DEFINE r == [thread[t] EXCEPT !.pc = "assign", !.new = w]
<1>2. r \in ThreadState /\ r.pc = "assign" /\ r.new = w /\ r.todo = thread[t].todo
  BY <1>1 DEF ThreadState, ControllerPCs, InStart
<1>3. thread' = [thread EXCEPT ![t] = r, ![w] = Fresh("check")]
  BY <1>1
<1>4. /\ Fresh("check") \in ThreadState
      /\ Fresh("check").pc = "check" /\ Fresh("check").todo = {} /\ Fresh("check").new = NoThread
  BY FreshType DEF PCs, WorkerPCs
<1> HIDE DEF r
<1> QED
  BY <1>1, <1>2, <1>3, <1>4

LEMMA AssignEffect ==
  ASSUME TypeOK, NEW t \in Threads, NEW pc \in PCs,
         Become(t, [thread[t] EXCEPT !.pc = pc, !.new = NoThread])
  PROVE  /\ thread' \in [Threads -> ThreadState] /\ Others(t)
         /\ thread'[t].pc = pc /\ thread'[t].new = NoThread
         /\ thread'[t].todo = thread[t].todo
<1>1. thread \in [Threads -> ThreadState] /\ thread[t] \in ThreadState
  BY DEF TypeOK
<1> DEFINE r == [thread[t] EXCEPT !.pc = pc, !.new = NoThread]
<1>2. r \in ThreadState /\ r.pc = pc /\ r.new = NoThread /\ r.todo = thread[t].todo
  BY <1>1 DEF ThreadState, PCs
<1>3. thread' = [thread EXCEPT ![t] = r]
  BY DEF Become
<1> HIDE DEF r
<1> QED
  BY <1>1, <1>2, <1>3 DEF Others

\* A thread goes on after it has joined a worker.
Joins(t, w, pc) == thread' = [thread EXCEPT ![t].pc = pc, ![w] = Fresh("none")]

LEMMA JoinEffect ==
  ASSUME TypeOK, NEW t \in Threads, NEW w \in Workers, w # t, NEW pc \in PCs,
         Joins(t, w, pc)
  PROVE  /\ thread' \in [Threads -> ThreadState]
         /\ \A u \in Threads \ {t, w} : thread'[u] = thread[u]
         /\ thread'[t].pc = pc /\ thread'[t].new = thread[t].new
         /\ thread'[t].todo = thread[t].todo
         /\ thread'[w].pc = "none" /\ thread'[w].todo = {} /\ thread'[w].new = NoThread
<1>1. thread \in [Threads -> ThreadState] /\ thread[t] \in ThreadState /\ w \in Threads
  BY DEF TypeOK, Threads
<1> DEFINE r == [thread[t] EXCEPT !.pc = pc]
<1>2. r \in ThreadState /\ r.pc = pc /\ r.new = thread[t].new /\ r.todo = thread[t].todo
  BY <1>1 DEF ThreadState, PCs
<1>3. thread' = [thread EXCEPT ![t] = r, ![w] = Fresh("none")]
  BY <1>1 DEF Joins
<1>4. /\ Fresh("none") \in ThreadState
      /\ Fresh("none").pc = "none" /\ Fresh("none").todo = {} /\ Fresh("none").new = NoThread
  BY FreshType DEF PCs, WorkerPCs, Gone
<1> HIDE DEF r
<1> QED
  BY <1>1, <1>2, <1>3, <1>4

-----------------------------------------------------------------------------
(***************************************************************************)
(* Type correctness.                                                       *)
(***************************************************************************)
LEMMA TypeInit == Init => TypeOK
<1> SUFFICES ASSUME Init PROVE TypeOK
  OBVIOUS
<1>1. \A t \in Threads : Fresh(IF t \in Workers THEN "none" ELSE "idle") \in ThreadState
  BY DEF Fresh, ThreadState, ControllerPCs, WorkerPCs, Gone
<1>2. thread \in [Threads -> ThreadState]
  BY <1>1 DEF Init
<1>3. /\ \A c \in Controllers : thread[c].pc = "idle"
      /\ \A w \in Workers : thread[w].pc = "none"
  BY Distinct DEF Init, Fresh
<1>4. late \in [Sockets -> -1..2]
  BY -1 \in -1..2 DEF Init
<1> QED
  BY <1>2, <1>3, <1>4 DEF Init, TypeOK, ControllerPCs, WorkerPCs, Gone

\* The pcs a thread may have.
OwnPCs(t) == IF t \in Workers THEN WorkerPCs ELSE ControllerPCs

LEMMA OwnType ==
  TypeOK => \A t \in Threads : thread[t].pc \in OwnPCs(t) /\ OwnPCs(t) \subseteq PCs
BY DEF TypeOK, OwnPCs, Threads, PCs

\* When one thread moves within its code and the rest is of its type.
LEMMA TypeKept ==
  ASSUME TypeOK, NEW t \in Threads, NEW pc \in OwnPCs(t),
         thread' \in [Threads -> ThreadState], Others(t), thread'[t].pc = pc,
         run' \in BOOLEAN, terminated' \in BOOLEAN, disturbed' \in BOOLEAN,
         th' \in Workers \cup {NoThread}, socks' \subseteq Sockets,
         mu' \in Controllers \cup {NoThread},
         life' \in {"live", "closing", "destroyed"}, late' \in [Sockets -> -1..2]
  PROVE  TypeOK'
<1>1. \A c \in Controllers : thread'[c].pc \in ControllerPCs
  BY Distinct DEF TypeOK, Others, OwnPCs
<1>2. \A w \in Workers : thread'[w].pc \in WorkerPCs
  BY Distinct DEF TypeOK, Others, OwnPCs
<1> QED
  BY <1>1, <1>2 DEF TypeOK

LEMMA CallPCs ==
  ASSUME NEW t \in Threads
  PROVE  /\ InStart \cup InStop \subseteq OwnPCs(t) /\ AfterCall(t) \in OwnPCs(t)
         /\ OwnPCs(t) \subseteq PCs
         /\ AfterCall(t) \notin InStart \cup InStop \cup Gone
BY DEF OwnPCs, AfterCall, WorkerPCs, ControllerPCs, InStart, InStop, Gone, Waiting, PCs

LEMMA WorkerOwnPCs ==
  ASSUME NEW w \in Workers
  PROVE  /\ w \in Threads /\ OwnPCs(w) = WorkerPCs /\ OwnPCs(w) \subseteq PCs
         /\ {"check", "copy", "notify", "sleep", "sample", "recompute", "none", "ended"}
              \subseteq OwnPCs(w)
BY DEF Threads, OwnPCs, WorkerPCs, Waiting, Gone, PCs

LEMMA MayCallThread == \A t : MayCall(t) => t \in Threads
BY DEF MayCall, Threads

LEMMA TypeStep == TypeOK /\ [Next]_vars => TypeOK'
<1> SUFFICES ASSUME TypeOK, [Next]_vars PROVE TypeOK'
  OBVIOUS
<1>0. TypeOK!1 /\ TypeOK!2 /\ TypeOK!3 /\ TypeOK!4 /\ TypeOK!5 /\ TypeOK!8 /\ TypeOK!9
  BY DEF TypeOK
<1>1. ASSUME NEW t \in Threads, StartStore(t) PROVE TypeOK'
  BY <1>1, <1>0, GotoEffect, CallPCs, TypeKept DEF StartStore, InStart
<1>2. ASSUME NEW t \in Threads, StopStore(t) PROVE TypeOK'
  BY <1>2, <1>0, GotoEffect, CallPCs, TypeKept DEF StopStore, InStop
<1>3. ASSUME NEW t \in Threads, StartSpawn(t) PROVE TypeOK'
  <2>1. PICK w \in Workers :
          /\ thread[w].pc = "none"
          /\ thread' = [thread EXCEPT ![t].pc = "assign", ![t].new = w, ![w] = Fresh("check")]
    BY <1>3 DEF StartSpawn
  <2>2. w # t
    BY <1>3, <2>1 DEF StartSpawn, At
  <2>3. /\ thread' \in [Threads -> ThreadState]
        /\ \A u \in Threads \ {t, w} : thread'[u] = thread[u]
        /\ thread'[t].pc = "assign" /\ thread'[w].pc = "check"
    BY <2>1, <2>2, SpawnEffect
  <2>4. "assign" \in OwnPCs(t) /\ "check" \in WorkerPCs
    BY CallPCs DEF InStart, WorkerPCs
  <2>5. \A c \in Controllers : thread'[c].pc \in ControllerPCs
    BY <2>3, <2>4, Distinct DEF TypeOK, OwnPCs
  <2>6. \A v \in Workers : thread'[v].pc \in WorkerPCs
    BY <2>3, <2>4, Distinct DEF TypeOK, OwnPCs
  <2> QED
    BY <1>3, <2>3, <2>5, <2>6 DEF StartSpawn, TypeOK
<1>4. ASSUME NEW t \in Threads, StartAssign(t) PROVE TypeOK'
  <2>1. CASE th # NoThread
    BY <1>4, <2>1 DEF StartAssign, TypeOK
  <2>2. CASE th = NoThread
    <3>1. th' \in Workers \cup {NoThread}
      <4>1. thread[t] \in ThreadState /\ th' = thread[t].new
        BY <1>4, <2>2 DEF StartAssign, TypeOK
      <4> QED
        BY <4>1 DEF ThreadState
    <3>2. Become(t, [thread[t] EXCEPT !.pc = AfterCall(t), !.new = NoThread])
      BY <1>4, <2>2 DEF StartAssign
    <3>3. AfterCall(t) \in OwnPCs(t) /\ AfterCall(t) \in PCs
      BY CallPCs
    <3>4. /\ thread' \in [Threads -> ThreadState] /\ Others(t)
          /\ thread'[t].pc = AfterCall(t)
      BY <3>2, <3>3, AssignEffect
    <3> QED
      BY <1>4, <1>0, <2>2, <3>1, <3>3, <3>4, TypeKept DEF StartAssign
  <2> QED
    BY <2>1, <2>2
<1>5. ASSUME NEW t \in Threads, StopJoinable(t) PROVE TypeOK'
  <2>1. CASE th # NoThread
    BY <1>5, <1>0, <2>1, GotoEffect, CallPCs, TypeKept DEF StopJoinable, InStop
  <2>2. CASE th = NoThread
    BY <1>5, <1>0, <2>2, GotoEffect, CallPCs, TypeKept DEF StopJoinable, LifeAfterStop
  <2> QED
    BY <2>1, <2>2
<1>6. ASSUME NEW t \in Threads, StopJoin(t) PROVE TypeOK'
  <2>1. CASE th \in {t, NoThread}
    BY <1>6, <2>1 DEF StopJoin, TypeOK
  <2>2. CASE th \notin {t, NoThread}
    <3>1. PICK w \in Workers : w = th /\ w # t
      BY <1>0, <2>2
    <3>3. PICK pc \in PCs : pc = AfterCall(t) /\ pc \in OwnPCs(t)
      BY CallPCs
    <3>2. Joins(t, w, pc)
      BY <1>6, <2>2, <3>1, <3>3 DEF StopJoin, Joins
    <3>4. /\ thread' \in [Threads -> ThreadState]
          /\ \A u \in Threads \ {t, w} : thread'[u] = thread[u]
          /\ thread'[t].pc = pc /\ thread'[w].pc = "none"
      BY <3>1, <3>2, JoinEffect
    <3>5. \A c \in Controllers : thread'[c].pc \in ControllerPCs
      BY <3>1, <3>3, <3>4, Distinct DEF TypeOK, OwnPCs
    <3>6. \A v \in Workers : thread'[v].pc \in WorkerPCs
      BY <3>3, <3>4, Distinct DEF TypeOK, OwnPCs, WorkerPCs, Gone
    <3> QED
      BY <1>6, <1>0, <2>2, <3>4, <3>5, <3>6 DEF StopJoin, TypeOK, LifeAfterStop
  <2> QED
    BY <2>1, <2>2
<1>7. ASSUME NEW c \in Controllers, Destroy(c) PROVE TypeOK'
  <2>1. c \in Threads
    BY Distinct
  <2> QED
    BY <1>7, <1>0, <2>1, GotoEffect, CallPCs, TypeKept DEF Destroy, InStop
<1>8. ASSUME NEW c \in Controllers, GetEstimate(c) \/ GetEstimateReturn(c) PROVE TypeOK'
  BY <1>8 DEF GetEstimate, GetEstimateReturn, TypeOK
<1>9. ASSUME NEW s \in Sockets, Register(s) \/ Unregister(s) PROVE TypeOK'
  BY <1>9 DEF Register, Unregister, TypeOK
<1>10. ASSUME NEW w \in Workers, WorkerStep(w) \/ WorkerLocks(w) PROVE TypeOK'
  <2> USE WorkerOwnPCs
  <2>1. CASE WorkerCheck(w)
    BY <2>1, <1>0, GotoEffect, TypeKept DEF WorkerCheck
  <2>2. CASE WorkerCopy(w)
    <3>1. socks \in SUBSET Sockets /\ "sample" \in PCs
      BY <1>0
    <3>2. /\ thread' \in [Threads -> ThreadState] /\ Others(w)
          /\ thread'[w].pc = "sample"
      BY <2>2, <3>1, TodoEffect DEF WorkerCopy
    <3> QED
      BY <2>2, <1>0, <3>2, TypeKept DEF WorkerCopy
  <2>3. CASE WorkerNotified(w)
    BY <2>3, <1>0, GotoEffect, TypeKept DEF WorkerNotified
  <2>4. CASE WorkerSampled(w)
    BY <2>4, <1>0, GotoEffect, TypeKept DEF WorkerSampled
  <2>5. CASE WorkerWake(w)
    BY <2>5, <1>0, GotoEffect, TypeKept DEF WorkerWake
  <2>6. CASE WorkerRecompute(w)
    BY <2>6, <1>0, GotoEffect, TypeKept DEF WorkerRecompute
  <2>7. ASSUME NEW s \in Sockets, WorkerSkip(w, s) PROVE TypeOK'
    <3>1. thread[w] \in ThreadState
      BY DEF TypeOK
    <3> DEFINE rest == thread[w].todo \ {s}
               rec == [thread[w] EXCEPT !.pc = "sample", !.todo = rest]
    <3>2. rest \in SUBSET Sockets /\ thread' = [thread EXCEPT ![w] = rec]
      BY <3>1, <2>7 DEF ThreadState, WorkerSkip, Become, At
    <3>3. Become(w, rec)
      BY <3>2 DEF Become
    <3> HIDE DEF rest
    <3>4. /\ thread' \in [Threads -> ThreadState] /\ Others(w)
          /\ thread'[w].pc = "sample"
      BY <3>2, <3>3, TodoEffect
    <3> QED
      BY <2>7, <1>0, <3>4, TypeKept DEF WorkerSkip
  <2>8. ASSUME NEW s \in Sockets, WorkerSample(w, s) PROVE TypeOK'
    <3>1. thread[w] \in ThreadState
      BY DEF TypeOK
    <3> DEFINE rest == thread[w].todo \ {s}
               rec == [thread[w] EXCEPT !.pc = "notify", !.todo = rest]
    <3>2. rest \in SUBSET Sockets /\ Become(w, rec)
      BY <3>1, <2>8 DEF ThreadState, WorkerSample, Become
    <3>3. late' \in [Sockets -> -1..2]
      BY <1>0, <2>8 DEF WorkerSample, OneMore
    <3> HIDE DEF rest
    <3>4. /\ thread' \in [Threads -> ThreadState] /\ Others(w)
          /\ thread'[w].pc = "notify"
      BY <3>2, TodoEffect
    <3> QED
      BY <2>8, <1>0, <3>3, <3>4, TypeKept DEF WorkerSample
  <2> QED
    BY <1>10, <2>1, <2>2, <2>3, <2>4, <2>5, <2>6, <2>7, <2>8 DEF WorkerStep, WorkerLocks
<1>11. CASE UNCHANGED vars
  BY <1>11 DEF vars, TypeOK
<1> QED
  BY <1>1, <1>2, <1>3, <1>4, <1>5, <1>6, <1>7, <1>8, <1>9, <1>10, <1>11
     DEF Next, CallStep

\* Every variable has its type, and each thread keeps to its own code
\* (TransportSamplerImpl): after a call made by an observer the sampler's
\* thread is back in its loop, and nobody else ever is.
THEOREM TypeCorrect == Spec => []TypeOK
  BY TypeInit, TypeStep, PTL DEF Spec

-----------------------------------------------------------------------------
(***************************************************************************)
(* One lemma per action: what it does to the records, from its type.       *)
(***************************************************************************)
\* A move of one thread that makes no worker and ends none.
Moves(t, from, to) ==
  /\ t \in Threads /\ thread[t].pc = from
  /\ Others(t)
  /\ thread'[t].pc = to
  /\ thread'[t].todo = thread[t].todo /\ thread'[t].new = thread[t].new

LEMMA GotoMoves ==
  ASSUME TypeOK, NEW t \in Threads, NEW from, At(t, from), NEW pc \in PCs, Goto(t, pc)
  PROVE  Moves(t, from, pc)
BY GotoEffect DEF Moves, At

LEMMA StartStoreEffect ==
  ASSUME TypeOK, NEW t \in Threads, StartStore(t)
  PROVE  /\ Moves(t, thread[t].pc, "spawn")
         /\ thread[t].pc = IF t \in Workers THEN "notify" ELSE "idle"
BY GotoEffect, CallPCs, Distinct DEF StartStore, MayCall, At, Moves, InStart

LEMMA StopStoreEffect ==
  ASSUME TypeOK, NEW t \in Threads, StopStore(t)
  PROVE  /\ Moves(t, thread[t].pc, "joinable")
         /\ thread[t].pc = IF t \in Workers THEN "notify" ELSE "idle"
BY GotoEffect, CallPCs, Distinct DEF StopStore, MayCall, At, Moves, InStop

LEMMA DestroyEffect ==
  ASSUME TypeOK, NEW c \in Controllers, Destroy(c)
  PROVE  Moves(c, "idle", "joinable")
<1>1. c \in Threads /\ "joinable" \in PCs
  BY Distinct, CallPCs DEF InStop
<1> QED
  BY <1>1, GotoEffect DEF Destroy, MayDestroy, Moves

LEMMA StopJoinableEffect ==
  ASSUME TypeOK, NEW t \in Threads, StopJoinable(t)
  PROVE  /\ th # NoThread => Moves(t, "joinable", "join")
         /\ th = NoThread => Moves(t, "joinable", AfterCall(t))
<1>1. "join" \in PCs /\ AfterCall(t) \in PCs
  BY CallPCs DEF InStop
<1> QED
  BY <1>1, GotoEffect DEF StopJoinable, Moves, At

LEMMA SpawnFacts ==
  ASSUME TypeOK, NEW t \in Threads, StartSpawn(t)
  PROVE  \E w \in Workers :
           /\ w # t /\ thread[w].pc = "none" /\ thread[t].pc = "spawn"
           /\ \A u \in Threads \ {t, w} : thread'[u] = thread[u]
           /\ thread'[t].pc = "assign" /\ thread'[t].new = w
           /\ thread'[t].todo = thread[t].todo
           /\ thread'[w].pc = "check" /\ thread'[w].todo = {} /\ thread'[w].new = NoThread
<1>1. PICK w \in Workers :
        /\ thread[w].pc = "none"
        /\ thread' = [thread EXCEPT ![t].pc = "assign", ![t].new = w, ![w] = Fresh("check")]
  BY DEF StartSpawn
<1>2. w # t /\ thread[t].pc = "spawn"
  BY <1>1 DEF StartSpawn, At
<1> QED
  BY <1>1, <1>2, SpawnEffect

LEMMA AssignFacts ==
  ASSUME TypeOK, NEW t \in Threads, StartAssign(t), th = NoThread
  PROVE  /\ thread[t].pc = "assign" /\ Others(t)
         /\ thread'[t].pc = AfterCall(t) /\ thread'[t].new = NoThread
         /\ thread'[t].todo = thread[t].todo
         /\ th' = thread[t].new /\ terminated' = terminated
<1>1. AfterCall(t) \in PCs
  BY CallPCs
<1>2. Become(t, [thread[t] EXCEPT !.pc = AfterCall(t), !.new = NoThread])
  BY DEF StartAssign
<1>3. /\ Others(t) /\ thread'[t].pc = AfterCall(t) /\ thread'[t].new = NoThread
      /\ thread'[t].todo = thread[t].todo
  BY <1>1, <1>2, AssignEffect
<1> QED
  BY <1>3 DEF StartAssign, At

LEMMA JoinFacts ==
  ASSUME TypeOK, NEW t \in Threads, StopJoin(t), th \notin {t, NoThread}
  PROVE  /\ th \in Workers /\ thread[th].pc = "ended" /\ thread[t].pc = "join"
         /\ \A u \in Threads \ {t, th} : thread'[u] = thread[u]
         /\ thread'[t].pc = AfterCall(t) /\ thread'[t].new = thread[t].new
         /\ thread'[t].todo = thread[t].todo
         /\ thread'[th].pc = "none" /\ thread'[th].todo = {} /\ thread'[th].new = NoThread
         /\ th' = NoThread /\ terminated' = terminated
<1>1. PICK w \in Workers : w = th /\ w # t
  BY DEF TypeOK
<1>2. PICK pc \in PCs : pc = AfterCall(t)
  BY CallPCs
<1>3. Joins(t, w, pc)
  BY <1>1, <1>2 DEF StopJoin, Joins
<1>4. /\ \A u \in Threads \ {t, w} : thread'[u] = thread[u]
      /\ thread'[t].pc = pc /\ thread'[t].new = thread[t].new
      /\ thread'[t].todo = thread[t].todo
      /\ thread'[w].pc = "none" /\ thread'[w].todo = {} /\ thread'[w].new = NoThread
  BY <1>1, <1>3, JoinEffect
<1> QED
  BY <1>1, <1>2, <1>4 DEF StopJoin, At

\* A round of the sampler: the steps that neither make nor end a worker.
LEMMA CheckFacts ==
  ASSUME TypeOK, NEW w \in Workers, WorkerCheck(w)
  PROVE  Moves(w, "check", IF run THEN "copy" ELSE "ended")
BY GotoMoves, WorkerOwnPCs DEF WorkerCheck

LEMMA CopyFacts ==
  ASSUME TypeOK, NEW w \in Workers, WorkerCopy(w)
  PROVE  /\ thread[w].pc = "copy" /\ Others(w) /\ thread'[w].pc = "sample"
         /\ thread'[w].todo = socks /\ thread'[w].new = thread[w].new
<1>1. socks \in SUBSET Sockets /\ "sample" \in PCs /\ w \in Threads
  BY WorkerOwnPCs DEF TypeOK
<1> QED
  BY <1>1, TodoEffect DEF WorkerCopy, At

LEMMA SkipFacts ==
  ASSUME TypeOK, NEW w \in Workers, NEW s \in Sockets, WorkerSkip(w, s)
  PROVE  /\ thread[w].pc = "sample" /\ Others(w) /\ thread'[w].pc = "sample"
         /\ thread'[w].todo = thread[w].todo \ {s} /\ thread'[w].new = thread[w].new
<1>1. w \in Threads /\ thread[w] \in ThreadState /\ thread[w].pc = "sample" /\ "sample" \in PCs
  BY WorkerOwnPCs DEF TypeOK, WorkerSkip, At
<1> DEFINE rest == thread[w].todo \ {s}
           rec == [thread[w] EXCEPT !.pc = "sample", !.todo = rest]
<1>2. rest \in SUBSET Sockets /\ thread' = [thread EXCEPT ![w] = rec]
  BY <1>1 DEF ThreadState, WorkerSkip, Become
<1>3. Become(w, rec)
  BY <1>2 DEF Become
<1> HIDE DEF rest
<1>4. Others(w) /\ thread'[w].pc = "sample" /\ thread'[w].todo = rest
      /\ thread'[w].new = thread[w].new
  BY <1>1, <1>2, <1>3, TodoEffect
<1> QED
  BY <1>1, <1>4 DEF rest

LEMMA SampleFacts ==
  ASSUME TypeOK, NEW w \in Workers, NEW s \in Sockets, WorkerSample(w, s)
  PROVE  /\ thread[w].pc = "sample" /\ Others(w) /\ thread'[w].pc = "notify"
         /\ thread'[w].todo = thread[w].todo \ {s} /\ thread'[w].new = thread[w].new
<1>1. w \in Threads /\ thread[w] \in ThreadState /\ thread[w].pc = "sample" /\ "notify" \in PCs
  BY WorkerOwnPCs DEF TypeOK, WorkerSample, At
<1> DEFINE rest == thread[w].todo \ {s}
           rec == [thread[w] EXCEPT !.pc = "notify", !.todo = rest]
<1>2. rest \in SUBSET Sockets /\ Become(w, rec)
  BY <1>1 DEF ThreadState, WorkerSample, Become
<1> HIDE DEF rest
<1>4. Others(w) /\ thread'[w].pc = "notify" /\ thread'[w].todo = rest
      /\ thread'[w].new = thread[w].new
  BY <1>1, <1>2, TodoEffect
<1> QED
  BY <1>1, <1>4 DEF rest

LEMMA RoundFacts ==
  ASSUME TypeOK, NEW w \in Workers
  PROVE  /\ WorkerNotified(w) => Moves(w, "notify", "recompute")
         /\ WorkerRecompute(w) => Moves(w, "recompute", "sample")
         /\ WorkerSampled(w) => Moves(w, "sample", "sleep")
         /\ WorkerWake(w) => Moves(w, "sleep", "check")
BY GotoMoves, WorkerOwnPCs
   DEF WorkerNotified, WorkerRecompute, WorkerSampled, WorkerWake

\* What every step of a worker's round has in common.
LEMMA RoundKeeps ==
  ASSUME TypeOK, NEW w \in Workers, WorkerStep(w) \/ WorkerLocks(w)
  PROVE  /\ w \in Threads /\ Others(w)
         /\ thread'[w].new = thread[w].new
         /\ thread[w].pc \in {"check", "copy", "sample", "notify", "recompute", "sleep"}
         /\ thread'[w].pc \in
              {"check", "copy", "sample", "notify", "recompute", "sleep", "ended"}
         /\ thread'[w].pc = "ended" => thread[w].pc = "check" /\ ~run
         /\ UNCHANGED <<run, th, socks, life, terminated, disturbed>>
<1>1. w \in Threads
  BY Distinct
<1>2. CASE WorkerCheck(w)
  BY <1>1, <1>2, CheckFacts DEF Moves, WorkerCheck
<1>3. CASE WorkerCopy(w)
  BY <1>1, <1>3, CopyFacts DEF WorkerCopy
<1>4. CASE WorkerNotified(w) \/ WorkerRecompute(w) \/ WorkerSampled(w) \/ WorkerWake(w)
  BY <1>1, <1>4, RoundFacts
     DEF Moves, WorkerNotified, WorkerRecompute, WorkerSampled, WorkerWake
<1>5. ASSUME NEW s \in Sockets, WorkerSkip(w, s)
      PROVE  /\ Others(w) /\ thread'[w].new = thread[w].new
             /\ thread[w].pc = "sample" /\ thread'[w].pc = "sample"
             /\ UNCHANGED <<run, th, socks, life, terminated, disturbed>>
  BY <1>5, SkipFacts DEF WorkerSkip
<1>6. ASSUME NEW s \in Sockets, WorkerSample(w, s)
      PROVE  /\ Others(w) /\ thread'[w].new = thread[w].new
             /\ thread[w].pc = "sample" /\ thread'[w].pc = "notify"
             /\ UNCHANGED <<run, th, socks, life, terminated, disturbed>>
  BY <1>6, SampleFacts DEF WorkerSample
<1> QED
  BY <1>1, <1>2, <1>3, <1>4, <1>5, <1>6 DEF WorkerStep, WorkerLocks

-----------------------------------------------------------------------------
(***************************************************************************)
(* Every worker is reached from th_ or from a controller.                  *)
(***************************************************************************)
\* No worker is made, assigned or ended.
LEMMA OwnedKept ==
  ASSUME Owned, th' = th,
         \A t \in Threads : /\ New(t)' = New(t)
                            /\ Pc(t)' = "assign" <=> Pc(t) = "assign"
                            /\ Pc(t)' = "none" <=> Pc(t) = "none"
  PROVE  Owned'
<1>1. \A t \in Threads : New(t)' # NoThread <=> Pc(t)' = "assign"
  BY DEF Owned
<1>2. ASSUME NEW S \in SUBSET Workers, S # {}, \A w \in S : Pc(w)' # "none"
      PROVE  \E w \in S : w = th' \/ \E t \in Threads \ S : New(t)' = w
  <2>1. \A w \in S : Pc(w) # "none"
    BY <1>2, Distinct
  <2>2. PICK w \in S : w = th \/ \E t \in Threads \ S : New(t) = w
    BY <1>2, <2>1 DEF Owned
  <2> QED
    BY <2>2
<1> QED
  BY <1>1, <1>2 DEF Owned

LEMMA MoveKeepsOwned ==
  ASSUME Owned, NEW t, NEW from, NEW to, Moves(t, from, to), th' = th,
         from \notin {"assign", "none"}, to \notin {"assign", "none"}
  PROVE  Owned'
<1>1. \A u \in Threads : /\ New(u)' = New(u)
                         /\ Pc(u)' = "assign" <=> Pc(u) = "assign"
                         /\ Pc(u)' = "none" <=> Pc(u) = "none"
  BY DEF Moves, Others, Pc, New
<1> QED
  BY <1>1, OwnedKept

LEMMA OwnedSame == Owned /\ UNCHANGED <<th, thread>> => Owned'
BY DEF Owned, Pc, New

LEMMA OwnedStep == TypeOK /\ Owned /\ [Next]_vars => Owned'
<1> SUFFICES ASSUME TypeOK, Owned, [Next]_vars PROVE Owned'
  OBVIOUS
<1>1. ASSUME NEW t \in Threads, StartStore(t) PROVE Owned'
  BY <1>1, StartStoreEffect, MoveKeepsOwned DEF StartStore
<1>2. ASSUME NEW t \in Threads, StopStore(t) PROVE Owned'
  BY <1>2, StopStoreEffect, MoveKeepsOwned DEF StopStore
<1>3. ASSUME NEW t \in Threads, StartSpawn(t) PROVE Owned'
  <2>1. PICK n \in Workers :
           /\ n # t /\ thread[n].pc = "none" /\ thread[t].pc = "spawn"
           /\ \A u \in Threads \ {t, n} : thread'[u] = thread[u]
           /\ thread'[t].pc = "assign" /\ thread'[t].new = n
           /\ thread'[n].pc = "check" /\ thread'[n].new = NoThread
    BY <1>3, SpawnFacts
  <2>2. th' = th
    BY <1>3 DEF StartSpawn
  <2>3. n \in Threads /\ n # NoThread /\ New(n) = NoThread /\ New(t) = NoThread
    BY <2>1, Distinct DEF Owned, Pc
  <2>4. \A u \in Threads : New(u)' # NoThread <=> Pc(u)' = "assign"
    BY <2>1, <2>3 DEF Owned, Pc, New
  <2>5. ASSUME NEW S \in SUBSET Workers, S # {}, \A w \in S : Pc(w)' # "none"
        PROVE  \E w \in S : w = th' \/ \E u \in Threads \ S : New(u)' = w
    <3>1. CASE n \in S /\ t \notin S
      <4>1. New(t)' = n
        BY <2>1 DEF New
      <4> QED
        BY <3>1, <4>1
    <3>2. CASE n \in S /\ t \in S
      <4> DEFINE R == S \ {n}
      <4>1. t \in R /\ R \in SUBSET Workers
        BY <2>1, <3>2
      <4>2. \A w \in R : Pc(w) # "none"
        BY <2>1, <2>5, Distinct DEF Pc
      <4>3. PICK w \in R : w = th \/ \E u \in Threads \ R : New(u) = w
        BY <4>1, <4>2 DEF Owned
      <4>4. CASE w = th
        BY <4>4, <2>2
      <4>5. ASSUME NEW u \in Threads \ R, New(u) = w PROVE u \in Threads \ S /\ New(u)' = w
        <5>1. u # n
          BY <4>5, <2>3, Distinct
        <5>2. u \notin S
          BY <5>1
        <5>3. u # t
          BY <3>2, <5>2
        <5> QED
          BY <2>1, <4>5, <5>1, <5>2, <5>3 DEF New
      <4> QED
        BY <4>3, <4>4, <4>5
    <3>3. CASE n \notin S
      <4>1. \A w \in S : Pc(w) # "none"
        BY <2>1, <2>5, <3>3, Distinct DEF Pc
      <4>2. PICK w \in S : w = th \/ \E u \in Threads \ S : New(u) = w
        BY <2>5, <4>1 DEF Owned
      <4>3. CASE w = th
        BY <4>3, <2>2
      <4>4. ASSUME NEW u \in Threads \ S, New(u) = w PROVE New(u)' = w
        <5>1. u # n /\ u # t
          BY <4>4, <2>3, Distinct
        <5> QED
          BY <2>1, <4>4, <5>1 DEF New
      <4> QED
        BY <4>2, <4>3, <4>4
    <3> QED
      BY <3>1, <3>2, <3>3
  <2> QED
    BY <2>4, <2>5 DEF Owned
<1>4. ASSUME NEW t \in Threads, StartAssign(t) PROVE Owned'
  <2>1. CASE th # NoThread
    BY <1>4, <2>1, OwnedSame DEF StartAssign
  <2>2. CASE th = NoThread
    <3>1. /\ thread[t].pc = "assign" /\ Others(t)
          /\ thread'[t].pc = AfterCall(t) /\ thread'[t].new = NoThread
          /\ th' = New(t)
      BY <1>4, <2>2, AssignFacts DEF New
    <3>2. AfterCall(t) \notin {"assign", "none"}
      BY CallPCs DEF InStart, Gone
    <3>3. \A u \in Threads : New(u)' # NoThread <=> Pc(u)' = "assign"
      BY <3>1, <3>2 DEF Owned, Others, Pc, New
    <3>4. ASSUME NEW S \in SUBSET Workers, S # {}, \A w \in S : Pc(w)' # "none"
          PROVE  \E w \in S : w = th' \/ \E u \in Threads \ S : New(u)' = w
      <4>1. \A w \in S : Pc(w) # "none"
        BY <3>1, <3>4, Distinct DEF Pc, Others
      <4>2. PICK w \in S : w = th \/ \E u \in Threads \ S : New(u) = w
        BY <3>4, <4>1 DEF Owned
      <4>3. w # th
        BY <2>2, Distinct
      <4>4. PICK u \in Threads \ S : New(u) = w
        BY <4>2, <4>3
      <4>5. CASE u = t
        BY <3>1, <4>4, <4>5
      <4>6. CASE u # t
        BY <3>1, <4>4, <4>6 DEF Others, New
      <4> QED
        BY <4>5, <4>6
    <3> QED
      BY <3>3, <3>4 DEF Owned
  <2> QED
    BY <2>1, <2>2
<1>5. ASSUME NEW t \in Threads, StopJoinable(t) PROVE Owned'
  <2>1. AfterCall(t) \notin {"assign", "none"}
    BY CallPCs DEF InStart, Gone
  <2> QED
    BY <1>5, <2>1, StopJoinableEffect, MoveKeepsOwned DEF StopJoinable
<1>6. ASSUME NEW t \in Threads, StopJoin(t) PROVE Owned'
  <2>1. CASE th \in {t, NoThread}
    BY <1>6, <2>1, OwnedSame DEF StopJoin
  <2>2. CASE th \notin {t, NoThread}
    <3>1. /\ th \in Workers /\ thread[th].pc = "ended" /\ thread[t].pc = "join"
          /\ \A u \in Threads \ {t, th} : thread'[u] = thread[u]
          /\ thread'[t].pc = AfterCall(t) /\ thread'[t].new = thread[t].new
          /\ thread'[th].pc = "none" /\ thread'[th].new = NoThread
          /\ th' = NoThread
      BY <1>6, <2>2, JoinFacts
    <3>2. AfterCall(t) \notin {"assign", "none"}
      BY CallPCs DEF InStart, Gone
    <3>3. New(th) = NoThread
      BY <3>1, Distinct DEF Owned, Pc
    <3>4. \A u \in Threads : New(u)' = New(u)
      BY <3>1, <3>3 DEF New
    <3>5. \A u \in Threads : Pc(u)' = "assign" <=> Pc(u) = "assign"
      BY <3>1, <3>2 DEF Pc
    <3>6. ASSUME NEW S \in SUBSET Workers, S # {}, \A w \in S : Pc(w)' # "none"
          PROVE  \E w \in S : w = th' \/ \E u \in Threads \ S : New(u)' = w
      <4>1. th \notin S
        BY <3>1, <3>6 DEF Pc
      <4>2. \A w \in S : Pc(w) # "none"
        BY <3>1, <3>6, <4>1, Distinct DEF Pc
      <4>3. PICK w \in S : w = th \/ \E u \in Threads \ S : New(u) = w
        BY <3>6, <4>2 DEF Owned
      <4> QED
        BY <3>4, <4>1, <4>3
    <3> QED
      BY <3>4, <3>5, <3>6 DEF Owned
  <2> QED
    BY <2>1, <2>2
<1>7. ASSUME NEW c \in Controllers, Destroy(c) PROVE Owned'
  BY <1>7, DestroyEffect, MoveKeepsOwned DEF Destroy
<1>8. ASSUME NEW w \in Workers, WorkerStep(w) \/ WorkerLocks(w) PROVE Owned'
  <2>1. /\ w \in Threads /\ Others(w) /\ thread'[w].new = thread[w].new /\ th' = th
        /\ thread[w].pc \notin {"assign", "none"} /\ thread'[w].pc \notin {"assign", "none"}
    BY <1>8, RoundKeeps
  <2>2. \A u \in Threads : /\ New(u)' = New(u)
                           /\ Pc(u)' = "assign" <=> Pc(u) = "assign"
                           /\ Pc(u)' = "none" <=> Pc(u) = "none"
    BY <2>1 DEF Others, Pc, New
  <2> QED
    BY <2>1, <2>2, OwnedKept
<1>9. CASE \/ \E c \in Controllers : GetEstimate(c) \/ GetEstimateReturn(c)
           \/ \E s \in Sockets : Register(s) \/ Unregister(s)
           \/ UNCHANGED vars
  BY <1>9, OwnedSame DEF GetEstimate, GetEstimateReturn, Register, Unregister, vars
<1> QED
  BY <1>1, <1>2, <1>3, <1>4, <1>5, <1>6, <1>7, <1>8, <1>9 DEF Next, CallStep

-----------------------------------------------------------------------------
(***************************************************************************)
(* Starts and stops that do not run into each other.                       *)
(***************************************************************************)
LEMMA ControlSame == Control /\ UNCHANGED <<run, th, thread, terminated, disturbed>> => Control'
BY DEF Control, Busy, Pc, New

\* With no start or stop under way there is at most the worker of th_, and in
\* the other cases the one thread that is in a call is known.
LEMMA NobodyBusy ==
  ASSUME Control, ~disturbed, NEW t \in Threads, ~RunsInto(t), ~Busy(t)
  PROVE  \A u \in Threads : ~Busy(u)
BY DEF RunsInto

LEMMA ControlStep == TypeOK /\ Owned /\ Control /\ [Next]_vars => Control'
<1> SUFFICES ASSUME TypeOK, Owned, Control, [Next]_vars PROVE Control'
  OBVIOUS
<1>0. th \in Workers \cup {NoThread} /\ \A t \in Threads : New(t) \in Workers \cup {NoThread}
  BY DEF TypeOK, New, ThreadState
<1> USE DEF Pc, New, Busy, InStart, InStop, Gone
<1>1. ASSUME NEW t \in Threads, StartStore(t) PROVE Control'
  <2> SUFFICES ASSUME ~disturbed' PROVE Control'
    BY DEF Control
  <2>1. ~disturbed /\ ~run /\ ~RunsInto(t)
    BY <1>1 DEF StartStore
  <2>2. Moves(t, thread[t].pc, "spawn") /\ thread[t].pc \in {"idle", "notify"} /\ t \in Threads
    BY <1>1, StartStoreEffect
  <2>3. \A u \in Threads : ~Busy(u)
    BY <2>1, <2>2, NobodyBusy
  <2>4. th = NoThread /\ \A w \in Workers : Pc(w) = "none"
    BY <2>1, <2>3, Distinct DEF Control
  <2>5. t \notin Workers
    BY <2>2, <2>4
  <2> QED
    BY <1>1, <2>1, <2>2, <2>3, <2>4, <2>5, Distinct DEF Control, StartStore, Moves, Others
<1>2. ASSUME NEW t \in Threads, StopStore(t) PROVE Control'
  <2> SUFFICES ASSUME ~disturbed' PROVE Control'
    BY DEF Control
  <2>1. ~disturbed /\ ~RunsInto(t) /\ t \notin Workers
    BY <1>2 DEF StopStore
  <2>2. Moves(t, thread[t].pc, "joinable") /\ thread[t].pc \in {"idle", "notify"} /\ t \in Threads
    BY <1>2, StopStoreEffect
  <2>3. \A u \in Threads : ~Busy(u)
    BY <2>1, <2>2, NobodyBusy
  <2> QED
    BY <1>0, <1>2, <2>1, <2>2, <2>3, Distinct DEF Control, StopStore, Moves, Others
<1>3. ASSUME NEW t \in Threads, StartSpawn(t) PROVE Control'
  <2> SUFFICES ASSUME ~disturbed' PROVE Control'
    BY DEF Control
  <2>1. PICK n \in Workers :
           /\ n # t /\ thread[n].pc = "none" /\ thread[t].pc = "spawn"
           /\ \A u \in Threads \ {t, n} : thread'[u] = thread[u]
           /\ thread'[t].pc = "assign" /\ thread'[t].new = n
           /\ thread'[n].pc = "check" /\ thread'[n].new = NoThread
    BY <1>3, SpawnFacts
  <2>2. ~disturbed /\ UNCHANGED <<run, th, terminated>>
    BY <1>3 DEF StartSpawn
  <2>3. th = NoThread /\ run /\ t \notin Workers /\ \A u \in Threads : Busy(u) => u = t
    BY <2>1, <2>2 DEF Control
  <2>4. \A w \in Workers : Pc(w) = "none"
    BY <2>1, <2>2, <2>3, Distinct DEF Control
  <2> QED
    BY <2>1, <2>2, <2>3, <2>4, Distinct DEF Control
<1>4. ASSUME NEW t \in Threads, StartAssign(t) PROVE Control'
  <2> SUFFICES ASSUME ~disturbed' PROVE Control'
    BY DEF Control
  <2>1. ~disturbed /\ run' = run /\ thread[t].pc = "assign"
    BY <1>4 DEF StartAssign, At
  <2>2. th = NoThread /\ run /\ t \notin Workers /\ \A u \in Threads : Busy(u) => u = t
    BY <2>1 DEF Control
  <2>3. /\ Others(t) /\ thread'[t].pc = "idle" /\ thread'[t].new = NoThread
        /\ th' = thread[t].new /\ terminated' = terminated
    BY <1>4, <2>2, AssignFacts DEF AfterCall
  <2>4. New(t) \in Workers /\ Pc(New(t)) \notin Gone
    BY <2>1 DEF Control
  <2>5. \A w \in Workers : Pc(w) # "none" => w = New(t)
    BY <2>1, <2>2, Distinct DEF Control
  <2> QED
    BY <2>1, <2>2, <2>3, <2>4, <2>5, Distinct DEF Control, Others
<1>5. ASSUME NEW t \in Threads, StopJoinable(t) PROVE Control'
  <2> SUFFICES ASSUME ~disturbed' PROVE Control'
    BY DEF Control
  <2>1. ~disturbed /\ UNCHANGED <<run, th, terminated>> /\ thread[t].pc = "joinable"
    BY <1>5 DEF StopJoinable, At
  <2>2. ~run /\ t \notin Workers /\ \A u \in Threads : Busy(u) => u = t
    BY <2>1 DEF Control
  <2>3. th # NoThread => Moves(t, "joinable", "join")
    BY <1>5, StopJoinableEffect
  <2>4. th = NoThread => Moves(t, "joinable", "idle")
    BY <1>5, <2>2, StopJoinableEffect DEF AfterCall
  <2>5. CASE th # NoThread
    BY <1>0, <2>1, <2>2, <2>3, <2>5, Distinct DEF Control, Moves, Others
  <2>6. CASE th = NoThread
    BY <1>0, <2>1, <2>2, <2>4, <2>6, Distinct DEF Control, Moves, Others
  <2> QED
    BY <2>5, <2>6
<1>6. ASSUME NEW t \in Threads, StopJoin(t) PROVE Control'
  <2> SUFFICES ASSUME ~disturbed' PROVE Control'
    BY DEF Control
  <2>1. ~disturbed /\ run' = run /\ thread[t].pc = "join"
    BY <1>6 DEF StopJoin, At
  <2>2. /\ ~run /\ t \notin Workers /\ th # NoThread /\ \A u \in Threads : Busy(u) => u = t
    BY <2>1 DEF Control
  <2>3. th \notin {t, NoThread}
    BY <1>0, <2>2
  <2>4. /\ th \in Workers /\ thread[th].pc = "ended"
        /\ \A u \in Threads \ {t, th} : thread'[u] = thread[u]
        /\ thread'[t].pc = "idle" /\ thread'[t].new = thread[t].new
        /\ thread'[th].pc = "none" /\ thread'[th].new = NoThread
        /\ th' = NoThread /\ terminated' = terminated
    BY <1>6, <2>2, <2>3, JoinFacts DEF AfterCall
  <2>5. \A w \in Workers : Pc(w) # "none" => w = th
    BY <2>1, <2>2, Distinct DEF Control
  <2>6. \A w \in Workers : Pc(w)' = "none"
    BY <2>2, <2>4, <2>5, Distinct
  <2>7. \A u \in Threads : ~Busy(u)'
    BY <2>2, <2>4, Distinct
  <2> QED
    BY <2>1, <2>2, <2>4, <2>6, <2>7, Distinct DEF Control
<1>7. ASSUME NEW c \in Controllers, Destroy(c) PROVE Control'
  <2> SUFFICES ASSUME ~disturbed' PROVE Control'
    BY DEF Control
  <2>1. ~disturbed /\ ~RunsInto(c) /\ c \notin Workers /\ c \in Threads
    BY <1>7, Distinct DEF Destroy
  <2>2. Moves(c, "idle", "joinable")
    BY <1>7, DestroyEffect
  <2>3. \A u \in Threads : ~Busy(u)
    BY <2>1, <2>2, NobodyBusy DEF Moves
  <2> QED
    BY <1>0, <1>7, <2>1, <2>2, <2>3, Distinct DEF Control, Destroy, Moves, Others
<1>8. ASSUME NEW w \in Workers, WorkerStep(w) \/ WorkerLocks(w) PROVE Control'
  <2>1. /\ w \in Threads /\ Others(w)
        /\ thread'[w].new = thread[w].new
        /\ thread[w].pc \in {"check", "copy", "sample", "notify", "recompute", "sleep"}
        /\ thread'[w].pc \in
             {"check", "copy", "sample", "notify", "recompute", "sleep", "ended"}
        /\ thread'[w].pc = "ended" => thread[w].pc = "check" /\ ~run
        /\ UNCHANGED <<run, th, terminated, disturbed>>
    BY <1>8, RoundKeeps
  <2>2. \A u \in Threads : Busy(u)' <=> Busy(u)
    BY <2>1 DEF Others
  <2>3. \A u \in Threads \ {w} : Pc(u)' = Pc(u) /\ New(u)' = New(u)
    BY <2>1 DEF Others
  <2>4. Pc(w)' # "none" /\ Pc(w) \notin Gone
    BY <2>1
  <2>5. (Pc(w)' = "ended" => ~run) /\ New(w)' = New(w)
    BY <2>1
  <2>6. ~Busy(w) /\ ~Busy(w)'
    BY <2>1
  <2> QED
    BY <1>0, <2>1, <2>2, <2>3, <2>4, <2>5, <2>6, Distinct DEF Control
<1>9. CASE \/ \E c \in Controllers : GetEstimate(c) \/ GetEstimateReturn(c)
           \/ \E s \in Sockets : Register(s) \/ Unregister(s)
           \/ UNCHANGED vars
  BY <1>9, ControlSame DEF GetEstimate, GetEstimateReturn, Register, Unregister, vars
<1> QED
  BY <1>1, <1>2, <1>3, <1>4, <1>5, <1>6, <1>7, <1>8, <1>9 DEF Next, CallStep

-----------------------------------------------------------------------------
(***************************************************************************)
(* Late samples.                                                           *)
(***************************************************************************)
\* A step that leaves the sockets, their history and all copies alone.
LEMMA CopiesKept ==
  ASSUME Copies, AtMostOneLateSample, UNCHANGED <<socks, late>>,
         disturbed => disturbed',
         \A w \in Workers : /\ Todo(w)' = Todo(w) \/ Todo(w)' = {}
                            /\ Pc(w)' = "none" => Todo(w)' = {}
  PROVE  Copies' /\ AtMostOneLateSample'
BY DEF Copies, AtMostOneLateSample

LEMMA MoveKeepsCopies ==
  ASSUME Copies, AtMostOneLateSample, UNCHANGED <<socks, late>>, disturbed => disturbed',
         NEW t, NEW from, NEW to, Moves(t, from, to), to # "none"
  PROVE  Copies' /\ AtMostOneLateSample'
<1>1. \A w \in Workers : /\ Todo(w)' = Todo(w)
                         /\ Pc(w)' = "none" => Todo(w)' = {}
  BY Distinct DEF Moves, Others, Todo, Pc, Copies
<1> QED
  BY <1>1, CopiesKept

LEMMA CopiesStep ==
  TypeOK /\ Control /\ Copies /\ AtMostOneLateSample /\ [Next]_vars
    => Copies' /\ AtMostOneLateSample'
<1> SUFFICES ASSUME TypeOK, Control, Copies, AtMostOneLateSample, [Next]_vars
             PROVE  Copies' /\ AtMostOneLateSample'
  OBVIOUS
<1> USE DEF Todo, Pc
<1>1. ASSUME NEW t \in Threads, StartStore(t) PROVE Copies' /\ AtMostOneLateSample'
  BY <1>1, StartStoreEffect, MoveKeepsCopies DEF StartStore
<1>2. ASSUME NEW t \in Threads, StopStore(t) PROVE Copies' /\ AtMostOneLateSample'
  BY <1>2, StopStoreEffect, MoveKeepsCopies DEF StopStore
<1>3. ASSUME NEW t \in Threads, StartSpawn(t) PROVE Copies' /\ AtMostOneLateSample'
  <2>1. PICK n \in Workers :
           /\ \A u \in Threads \ {t, n} : thread'[u] = thread[u]
           /\ thread'[t].pc = "assign" /\ thread'[t].todo = thread[t].todo
           /\ thread'[n].todo = {}
    BY <1>3, SpawnFacts
  <2>2. \A w \in Workers : /\ Todo(w)' = Todo(w) \/ Todo(w)' = {}
                           /\ Pc(w)' = "none" => Todo(w)' = {}
    BY <2>1, Distinct DEF Copies
  <2>3. UNCHANGED <<socks, late, disturbed>>
    BY <1>3 DEF StartSpawn
  <2> QED
    BY <2>2, <2>3, CopiesKept
<1>4. ASSUME NEW t \in Threads, StartAssign(t) PROVE Copies' /\ AtMostOneLateSample'
  <2>1. UNCHANGED <<socks, late, disturbed>>
    BY <1>4 DEF StartAssign
  <2>2. \A w \in Workers : /\ Todo(w)' = Todo(w)
                           /\ Pc(w)' = "none" => Todo(w)' = {}
    <3>1. CASE th # NoThread
      BY <1>4, <3>1 DEF StartAssign, Copies
    <3>2. CASE th = NoThread
      BY <1>4, <3>2, AssignFacts, CallPCs, Distinct DEF Others, Copies, Gone
    <3> QED
      BY <3>1, <3>2
  <2> QED
    BY <2>1, <2>2, CopiesKept
<1>5. ASSUME NEW t \in Threads, StopJoinable(t) PROVE Copies' /\ AtMostOneLateSample'
  <2>1. AfterCall(t) # "none"
    BY CallPCs DEF Gone
  <2> QED
    BY <1>5, <2>1, StopJoinableEffect, MoveKeepsCopies DEF StopJoinable
<1>6. ASSUME NEW t \in Threads, StopJoin(t) PROVE Copies' /\ AtMostOneLateSample'
  <2>1. UNCHANGED <<socks, late, disturbed>>
    BY <1>6 DEF StopJoin
  <2>2. \A w \in Workers : /\ Todo(w)' = Todo(w) \/ Todo(w)' = {}
                           /\ Pc(w)' = "none" => Todo(w)' = {}
    <3>1. CASE th \in {t, NoThread}
      BY <1>6, <3>1 DEF StopJoin, Copies
    <3>2. CASE th \notin {t, NoThread}
      BY <1>6, <3>2, JoinFacts, CallPCs, Distinct DEF Copies, Gone
    <3> QED
      BY <3>1, <3>2
  <2> QED
    BY <2>1, <2>2, CopiesKept
<1>7. ASSUME NEW c \in Controllers, Destroy(c) PROVE Copies' /\ AtMostOneLateSample'
  BY <1>7, DestroyEffect, MoveKeepsCopies DEF Destroy
<1>8. ASSUME NEW w \in Workers, WorkerCheck(w) PROVE Copies' /\ AtMostOneLateSample'
  <2>1. Moves(w, "check", IF run THEN "copy" ELSE "ended")
    BY <1>8, CheckFacts
  <2> QED
    BY <1>8, <2>1, MoveKeepsCopies DEF WorkerCheck
<1>9. ASSUME NEW w \in Workers, WorkerCopy(w) PROVE Copies' /\ AtMostOneLateSample'
  <2>1. /\ w \in Threads /\ Others(w) /\ thread'[w].pc = "sample"
        /\ thread'[w].todo = socks
    BY <1>9, CopyFacts, Distinct
  <2>2. UNCHANGED <<socks, late, disturbed>>
    BY <1>9 DEF WorkerCopy
  <2>3. \A s \in socks : late[s] <= 0
    BY DEF Copies
  <2> QED
    BY <2>1, <2>2, <2>3, Distinct DEF Copies, AtMostOneLateSample, Others
<1>10. ASSUME NEW w \in Workers, WorkerNotified(w) \/ WorkerRecompute(w) \/ WorkerSampled(w)
                                   \/ WorkerWake(w)
       PROVE Copies' /\ AtMostOneLateSample'
  BY <1>10, RoundFacts, MoveKeepsCopies
     DEF WorkerNotified, WorkerRecompute, WorkerSampled, WorkerWake
<1>11. ASSUME NEW w \in Workers, NEW s \in Sockets, WorkerSkip(w, s)
       PROVE  Copies' /\ AtMostOneLateSample'
  <2>1. /\ w \in Threads /\ Others(w) /\ thread'[w].pc = "sample"
        /\ thread'[w].todo = thread[w].todo \ {s}
    BY <1>11, SkipFacts, Distinct
  <2>2. UNCHANGED <<socks, late, disturbed>>
    BY <1>11 DEF WorkerSkip
  <2> QED
    BY <2>1, <2>2, Distinct DEF Copies, AtMostOneLateSample, Others
<1>12. ASSUME NEW w \in Workers, NEW s \in Sockets, WorkerSample(w, s)
       PROVE  Copies' /\ AtMostOneLateSample'
  <2>1. /\ w \in Threads /\ Others(w) /\ thread[w].pc = "sample" /\ thread'[w].pc = "notify"
        /\ thread'[w].todo = thread[w].todo \ {s}
    BY <1>12, SampleFacts, Distinct
  <2>2. /\ UNCHANGED <<socks, disturbed>> /\ s \in thread[w].todo
        /\ late' = [late EXCEPT ![s] = OneMore(@)] /\ late \in [Sockets -> -1..2]
    BY <1>12 DEF WorkerSample, TypeOK
  <2>3. \A x \in socks : late'[x] = -1
    BY <2>2 DEF Copies, OneMore, TypeOK
  <2>4. \A v \in Workers : Pc(v)' = "none" => Todo(v)' = {}
    BY <2>1, Distinct DEF Copies, Others
  <2>5. CASE disturbed
    BY <2>2, <2>3, <2>4, <2>5 DEF Copies, AtMostOneLateSample
  <2>6. CASE ~disturbed
    <3>1. late[s] \in {-1, 0} /\ late'[s] \in {-1, 1}
      BY <2>2, <2>6 DEF Copies, OneMore
    <3>2. \A x \in Sockets \ {s} : late'[x] = late[x]
      BY <2>2
    <3>3. \A v \in Workers : Todo(v) # {} => v = w
      <4>1. \A t \in Threads : Pc(t) = "assign" => Busy(t)
        BY DEF Busy, InStart
      <4>2. \A v \in Workers : Pc(v) # "none" => \A u \in Workers : Pc(u) # "none" => u = v
        BY <2>6, <4>1, Distinct DEF Control, InStart, Busy
      <4> QED
        BY <2>1, <4>2 DEF Copies
    <3>4. \A v \in Workers : \A x \in Todo(v)' : x \in Todo(v) /\ x # s
      BY <2>1, <2>2, <3>3, Distinct DEF Others
    <3>5. \A v \in Workers : Todo(v) \subseteq Sockets
      BY Distinct DEF TypeOK, ThreadState
    <3>6. \A v \in Workers : \A x \in Todo(v)' : late'[x] <= 0
      BY <2>6, <3>2, <3>4, <3>5 DEF Copies
    <3>7. \A x \in Sockets : late'[x] <= 1
      BY <2>6, <3>1, <3>2 DEF AtMostOneLateSample
    <3>8. AtMostOneLateSample'
      BY <3>7 DEF AtMostOneLateSample
    <3>9. Copies'
      <4>1. \A x \in socks' : late'[x] = -1
        BY <2>2, <2>3
      <4> QED
        BY <4>1, <2>4, <3>6 DEF Copies
    <3> QED
      BY <3>8, <3>9
  <2> QED
    BY <2>5, <2>6
<1>13. ASSUME NEW s \in Sockets, Register(s) \/ Unregister(s)
       PROVE  Copies' /\ AtMostOneLateSample'
  <2>1. /\ UNCHANGED <<thread, disturbed>> /\ late \in [Sockets -> -1..2]
        /\ \/ socks' = socks \cup {s} /\ late' = [late EXCEPT ![s] = -1]
           \/ socks' = socks \ {s} /\ late' = [late EXCEPT ![s] = 0]
    BY <1>13 DEF Register, Unregister, TypeOK
  <2>2. /\ late'[s] \in {-1, 0} /\ \A x \in Sockets \ {s} : late'[x] = late[x]
    BY <2>1
  <2>3. socks \subseteq Sockets /\ \A v \in Workers : Todo(v) \subseteq Sockets
    BY Distinct DEF TypeOK, ThreadState
  <2>4. \A x \in socks' : late'[x] = -1
    BY <2>1, <2>3 DEF Copies
  <2> QED
    BY <2>1, <2>2, <2>3, <2>4 DEF Copies, AtMostOneLateSample
<1>14. CASE (\E c \in Controllers : GetEstimate(c) \/ GetEstimateReturn(c)) \/ UNCHANGED vars
  BY <1>14 DEF GetEstimate, GetEstimateReturn, vars, Copies, AtMostOneLateSample
<1> QED
  BY <1>1, <1>2, <1>3, <1>4, <1>5, <1>6, <1>7, <1>8, <1>9, <1>10, <1>11, <1>12, <1>13, <1>14
     DEF Next, CallStep, WorkerStep, WorkerLocks

-----------------------------------------------------------------------------
(***************************************************************************)
(* The destructor.                                                         *)
(***************************************************************************)
\* A destructor that finds nothing to join, or has just joined the worker of
\* th_, leaves no worker: one more would be reached from th_ or from a
\* controller that is in a start.
LEMMA NoWorkerLeft ==
  ASSUME Owned, \A c \in Controllers : Pc(c) # "assign",
         NEW S \in SUBSET Workers, \A w \in S : Pc(w) # "none", th \notin S,
         \A v \in Workers \ S : Pc(v) # "assign"
  PROVE  S = {}
<1> SUFFICES ASSUME S # {} PROVE FALSE
  OBVIOUS
<1>1. PICK w \in S : w = th \/ \E t \in Threads \ S : New(t) = w
  BY DEF Owned
<1>2. PICK t \in Threads \ S : New(t) = w
  BY <1>1
<1>3. Pc(t) = "assign"
  BY <1>2, Distinct DEF Owned
<1> QED
  BY <1>2, <1>3 DEF Threads

LEMMA ClosingSame ==
  Closing /\ DestroyedAlone /\ UNCHANGED <<thread, life>> => Closing' /\ DestroyedAlone'
BY DEF Closing, DestroyedAlone, Pc

\* A step of a worker, in a round or in a call, that ends nobody's life.
LEMMA WorkerKeepsClosing ==
  ASSUME Closing, DestroyedAlone, NEW w \in Workers, Pc(w) # "none", life' = life,
         \A c \in Controllers : Pc(c)' = Pc(c)
  PROVE  Closing' /\ DestroyedAlone'
<1>1. life # "destroyed"
  BY DEF DestroyedAlone, Pc
<1> QED
  BY <1>1 DEF Closing, DestroyedAlone

LEMMA ClosingStep ==
  TypeOK /\ Owned /\ Closing /\ DestroyedAlone /\ [Next]_vars => Closing' /\ DestroyedAlone'
<1> SUFFICES ASSUME TypeOK, Owned, Closing, DestroyedAlone, [Next]_vars
             PROVE  Closing' /\ DestroyedAlone'
  OBVIOUS
<1> USE DEF Pc
<1>0. life \in {"live", "closing", "destroyed"}
  BY DEF TypeOK
<1>1. ASSUME NEW t \in Threads, NEW to, to # "none",
             \/ StartStore(t) /\ to = "spawn"
             \/ StopStore(t) /\ to = "joinable"
      PROVE  Closing' /\ DestroyedAlone'
  <2>1. Moves(t, thread[t].pc, to) /\ thread[t].pc = IF t \in Workers THEN "notify" ELSE "idle"
    BY <1>1, StartStoreEffect, StopStoreEffect
  <2>2. life' = life /\ (t \in Controllers => life = "live")
    BY <1>1, Distinct DEF StartStore, StopStore, MayCall
  <2>3. CASE t \in Workers
    BY <2>1, <2>2, <2>3, WorkerKeepsClosing, Distinct DEF Moves, Others
  <2>4. CASE t \in Controllers
    BY <2>2, <2>4 DEF Closing, DestroyedAlone
  <2> QED
    BY <2>3, <2>4 DEF Threads
<1>2. ASSUME NEW t \in Threads, StartSpawn(t) PROVE Closing' /\ DestroyedAlone'
  <2>1. PICK n \in Workers :
           /\ n # t /\ thread[t].pc = "spawn"
           /\ \A u \in Threads \ {t, n} : thread'[u] = thread[u]
    BY <1>2, SpawnFacts
  <2>2. life' = life
    BY <1>2 DEF StartSpawn
  <2>3. CASE t \in Workers
    BY <2>1, <2>2, <2>3, WorkerKeepsClosing, Distinct
  <2>4. CASE t \in Controllers
    BY <1>0, <2>1, <2>2, <2>4 DEF Closing, DestroyedAlone, InStop
  <2> QED
    BY <2>3, <2>4 DEF Threads
<1>3. ASSUME NEW t \in Threads, StartAssign(t) PROVE Closing' /\ DestroyedAlone'
  <2>1. CASE th # NoThread
    BY <1>3, <2>1, ClosingSame DEF StartAssign
  <2>2. CASE th = NoThread
    <3>1. thread[t].pc = "assign" /\ Others(t)
      BY <1>3, <2>2, AssignFacts
    <3>2. life' = life
      BY <1>3 DEF StartAssign
    <3>3. CASE t \in Workers
      BY <3>1, <3>2, <3>3, WorkerKeepsClosing, Distinct DEF Others
    <3>4. CASE t \in Controllers
      BY <1>0, <3>1, <3>2, <3>4 DEF Closing, DestroyedAlone, InStop
    <3> QED
      BY <3>3, <3>4 DEF Threads
  <2> QED
    BY <2>1, <2>2
<1>4. ASSUME NEW t \in Threads, StopJoinable(t) PROVE Closing' /\ DestroyedAlone'
  <2>1. CASE th # NoThread
    <3>1. Moves(t, "joinable", "join") /\ life' = life
      BY <1>4, <2>1, StopJoinableEffect DEF StopJoinable
    <3>2. CASE t \in Workers
      BY <3>1, <3>2, WorkerKeepsClosing, Distinct DEF Moves, Others
    <3>3. CASE t \in Controllers
      BY <1>0, <3>1, <3>3, Distinct DEF Closing, DestroyedAlone, InStop, Moves, Others
    <3> QED
      BY <3>2, <3>3 DEF Threads
  <2>2. CASE th = NoThread
    <3>1. Moves(t, "joinable", AfterCall(t)) /\ life' = LifeAfterStop(t)
      BY <1>4, <2>2, StopJoinableEffect DEF StopJoinable
    <3>2. CASE t \in Workers
      BY <3>1, <3>2, WorkerKeepsClosing, Distinct DEF Moves, Others, LifeAfterStop
    <3>3. CASE t \in Controllers /\ life # "closing"
      BY <1>0, <3>1, <3>3, Distinct DEF Closing, LifeAfterStop, Moves, DestroyedAlone
    <3>4. CASE t \in Controllers /\ life = "closing"
      <4>1. life' = "destroyed" /\ thread'[t].pc = "idle" /\ Others(t) /\ thread[t].pc = "joinable"
        BY <3>1, <3>4, Distinct DEF LifeAfterStop, AfterCall, Moves
      <4>2. \A c \in Controllers : Pc(c)' = "idle"
        BY <3>4, <4>1, Distinct DEF Closing, Others
      <4> DEFINE S == {w \in Workers : Pc(w) # "none"}
      <4>3. S = {}
        <5>1. \A c \in Controllers : Pc(c) # "assign"
          BY <3>4 DEF Closing, InStop
        <5>2. th \notin S
          BY <2>2, Distinct
        <5>3. \A v \in Workers \ S : Pc(v) # "assign"
          OBVIOUS
        <5>4. S \in SUBSET Workers /\ \A w \in S : Pc(w) # "none"
          OBVIOUS
        <5> HIDE DEF S
        <5> QED
          BY <5>1, <5>2, <5>3, <5>4, NoWorkerLeft
      <4>4. \A w \in Workers : Pc(w)' = "none"
        BY <3>4, <4>1, <4>3, Distinct DEF Others
      <4> QED
        BY <4>1, <4>2, <4>4 DEF Closing, DestroyedAlone
    <3> QED
      BY <3>2, <3>3, <3>4 DEF Threads
  <2> QED
    BY <2>1, <2>2
<1>5. ASSUME NEW t \in Threads, StopJoin(t) PROVE Closing' /\ DestroyedAlone'
  <2>1. CASE th \in {t, NoThread}
    BY <1>5, <2>1, ClosingSame DEF StopJoin
  <2>2. CASE th \notin {t, NoThread}
    <3>1. /\ th \in Workers /\ thread[th].pc = "ended" /\ thread[t].pc = "join"
          /\ \A u \in Threads \ {t, th} : thread'[u] = thread[u]
          /\ thread'[t].pc = AfterCall(t) /\ thread'[th].pc = "none"
          /\ life' = LifeAfterStop(t)
      BY <1>5, <2>2, JoinFacts DEF StopJoin
    <3>2. CASE t \in Workers
      BY <3>1, <3>2, WorkerKeepsClosing, Distinct DEF LifeAfterStop
    <3>3. CASE t \in Controllers /\ life # "closing"
      BY <1>0, <3>1, <3>3, Distinct DEF Closing, LifeAfterStop, DestroyedAlone
    <3>4. CASE t \in Controllers /\ life = "closing"
      <4>1. life' = "destroyed" /\ thread'[t].pc = "idle"
        BY <3>1, <3>4, Distinct DEF LifeAfterStop, AfterCall
      <4>2. \A c \in Controllers : Pc(c)' = "idle"
        BY <3>1, <3>4, <4>1, Distinct DEF Closing
      <4> DEFINE S == {w \in Workers \ {th} : Pc(w) # "none"}
      <4>3. S = {}
        <5>1. \A c \in Controllers : Pc(c) # "assign"
          BY <3>4 DEF Closing, InStop
        <5>2. th \notin S
          OBVIOUS
        <5>3. \A v \in Workers \ S : Pc(v) # "assign"
          BY <3>1
        <5>4. S \in SUBSET Workers /\ \A w \in S : Pc(w) # "none"
          OBVIOUS
        <5> HIDE DEF S
        <5> QED
          BY <5>1, <5>2, <5>3, <5>4, NoWorkerLeft
      <4>4. \A w \in Workers : Pc(w)' = "none"
        BY <3>1, <3>4, <4>3, Distinct
      <4> QED
        BY <4>1, <4>2, <4>4 DEF Closing, DestroyedAlone
    <3> QED
      BY <3>2, <3>3, <3>4 DEF Threads
  <2> QED
    BY <2>1, <2>2
<1>6. ASSUME NEW c \in Controllers, Destroy(c) PROVE Closing' /\ DestroyedAlone'
  <2>1. Moves(c, "idle", "joinable") /\ life' = "closing" /\ \A d \in Controllers : Pc(d) = "idle"
    BY <1>6, DestroyEffect DEF Destroy, MayDestroy
  <2>2. \A d \in Controllers : Pc(d)' = IF d = c THEN "joinable" ELSE "idle"
    BY <2>1, Distinct DEF Moves, Others
  <2> QED
    BY <2>1, <2>2 DEF Closing, DestroyedAlone, InStop
<1>7. ASSUME NEW w \in Workers, WorkerStep(w) \/ WorkerLocks(w) PROVE Closing' /\ DestroyedAlone'
  <2>1. Others(w) /\ Pc(w) # "none" /\ life' = life
    BY <1>7, RoundKeeps
  <2> QED
    BY <2>1, WorkerKeepsClosing, Distinct DEF Others
<1>8. CASE \/ \E c \in Controllers : GetEstimate(c) \/ GetEstimateReturn(c)
           \/ \E s \in Sockets : Register(s) \/ Unregister(s)
           \/ UNCHANGED vars
  BY <1>8, ClosingSame DEF GetEstimate, GetEstimateReturn, Register, Unregister, vars
<1> QED
  BY <1>1, <1>2, <1>3, <1>4, <1>5, <1>6, <1>7, <1>8 DEF Next, CallStep

-----------------------------------------------------------------------------
(***************************************************************************)
(* The theorems.                                                           *)
(***************************************************************************)
LEMMA InvInit == Init => IInv
<1> SUFFICES ASSUME Init PROVE IInv
  OBVIOUS
<1>1. TypeOK
  BY TypeInit
<1>2. /\ \A c \in Controllers : Pc(c) = "idle"
      /\ \A w \in Workers : Pc(w) = "none" /\ Todo(w) = {}
      /\ \A t \in Threads : New(t) = NoThread
  BY Distinct DEF Init, Fresh, Pc, Todo, New
<1>3. \A t \in Threads : Pc(t) \in {"idle", "none"}
  BY <1>2 DEF Threads
<1>4. Owned
  BY <1>2, <1>3, Distinct DEF Owned
<1>5. Control
  BY <1>2, <1>3, Distinct DEF Control, Init, Busy, Pc, InStart, InStop
<1>6. Copies /\ Closing /\ DestroyedAlone /\ AtMostOneLateSample
  BY <1>2, Distinct DEF Copies, Closing, DestroyedAlone, AtMostOneLateSample, Init
<1> QED
  BY <1>1, <1>4, <1>5, <1>6 DEF IInv

LEMMA Invariance == Spec => []IInv
<1>1. IInv /\ [Next]_vars => IInv'
  BY TypeStep, OwnedStep, ControlStep, CopiesStep, ClosingStep DEF IInv
<1> QED
  BY <1>1, InvInit, PTL DEF Spec

\* Only a disturbed program is ended by std::terminate (start and stop of
\* TransportSamplerImpl): a start that finds run_ clear finds th_ free, and a
\* stop finds a thread other than its own.
THEOREM OnlyDisturbedTerminatesHolds == Spec => []OnlyDisturbedTerminates
<1>1. IInv => OnlyDisturbedTerminates
  BY DEF IInv, Control, OnlyDisturbedTerminates
<1> QED
  BY <1>1, Invariance, PTL

\* Between undisturbed calls isRunning() tells whether there is a sampler, and
\* there is one at most (start, stop and loop).
THEOREM SamplerFollowsFlagHolds == Spec => []SamplerFollowsFlag
<1>1. IInv => SamplerFollowsFlag
  <2> SUFFICES ASSUME TypeOK, Control, ~disturbed, \A t \in Threads : ~Busy(t)
               PROVE  /\ run <=> th # NoThread
                      /\ \A w \in Workers : thread[w].pc \in Gone <=> w # th
    BY DEF IInv, SamplerFollowsFlag
  <2>1. \A t \in Threads : Pc(t) # "assign"
    BY DEF Busy, Pc, InStart
  <2>2. /\ run <=> th # NoThread
        /\ th # NoThread => Pc(th) \notin Gone
        /\ \A w \in Workers : Pc(w) # "none" => w = th
    BY <2>1 DEF Control
  <2> QED
    BY <2>2, Distinct DEF Pc, Gone
<1> QED
  BY <1>1, Invariance, PTL

\* ~Nqe leaves no thread behind that would use the Nqe, whatever calls came
\* before it: it waits for the worker of th_, and every worker is reached from
\* th_ or from a start that has not returned.
THEOREM DestroyedAloneHolds == Spec => []DestroyedAlone
  BY Invariance, PTL DEF IInv

\* An unregistered socket is sampled at most once more (removeSocket,
\* sampleOnce), while starts and stops do not disturb each other.
THEOREM AtMostOneLateSampleHolds == Spec => []AtMostOneLateSample
  BY Invariance, PTL DEF IInv

-----------------------------------------------------------------------------
(***************************************************************************)
(* How long a stop waits for the sampler: what StopReturns rests on, apart *)
(* from fairness.  Each step of the sampler lowers a number, no other step *)
(* changes it, and until it is zero the sampler has a step, or waits for   *)
(* mu_, whose holder can return from its callback unless it is the one     *)
(* that stops.                                                             *)
(***************************************************************************)
\* The steps that a sampler with record r may still take when run_ is clear: it
\* finishes its round.
StepsLeft(r) ==
  CASE r.pc = "check" -> 1
    [] r.pc = "sleep" -> 2
    [] r.pc = "sample" -> 3 * Cardinality(r.todo) + 3
    [] r.pc = "recompute" -> 3 * Cardinality(r.todo) + 4
    [] r.pc = "notify" -> 3 * Cardinality(r.todo) + 5
    [] r.pc = "copy" -> 3 * Cardinality(Sockets) + 4
    [] OTHER -> 0

\* A step of the sampler's round.
Works(w) == WorkerStep(w) \/ WorkerLocks(w)

\* The worker w has a step: the guards of Works(w).
WorkerReady(w) ==
  \/ \E pc \in {"check", "copy", "notify", "sleep"} : At(w, pc)
  \/ At(w, "sample") /\ (Todo(w) = {} \/ mu = NoThread)
  \/ At(w, "recompute") /\ mu = NoThread

\* A stop that waits, undisturbed, will be let go: its join may return, or the
\* sampler has a step, or waits for a callback that may return.  It is stuck
\* only in its own callback.
StopNeverStuck ==
  \A c \in Controllers : Pc(c) = "join" /\ ~disturbed =>
    /\ ~terminated /\ th \in Workers /\ StepsLeft(thread[th]) \in Nat
    /\ \/ Pc(th) = "ended"
       \/ WorkerReady(th)
       \/ Pc(th) \in Waiting /\ mu = c
       \/ Pc(th) \in Waiting /\ mu # NoThread /\ At(mu, "idle")

\* Every step of the sampler brings it nearer to its end while a stop waits for
\* it, whatever sockets come and go; the stop returns only after that.
StopDrains ==
  [][\A c \in Controllers : Pc(c) = "join" /\ ~disturbed' =>
       \/ Pc(th) = "ended" /\ Pc(c)' = "idle"
       \/ /\ Pc(c)' = "join" /\ th' = th
          /\ IF Works(th) THEN StepsLeft(thread'[th]) < StepsLeft(thread[th])
             ELSE thread'[th] = thread[th]]_vars

\* Parts of the sockets can be counted.
LEMMA SocketsCount ==
  /\ Cardinality(Sockets) \in Nat
  /\ \A S \in SUBSET Sockets :
       /\ Cardinality(S) \in Nat /\ Cardinality(S) <= Cardinality(Sockets)
       /\ \A s \in S : Cardinality(S \ {s}) = Cardinality(S) - 1
BY FS_CardinalityType, FS_Subset, FS_RemoveElement

\* The record of a thread counts some number of steps.
LEMMA StepsLeftNat ==
  ASSUME NEW r \in ThreadState
  PROVE  StepsLeft(r) \in Nat
<1>1. Cardinality(r.todo) \in Nat /\ Cardinality(Sockets) \in Nat
  BY SocketsCount DEF ThreadState
<1> QED
  BY <1>1 DEF StepsLeft

\* Each step of a round lowers it when run_ is clear.
LEMMA WorksLower ==
  ASSUME TypeOK, ~run, NEW w \in Workers, Works(w)
  PROVE  StepsLeft(thread'[w]) < StepsLeft(thread[w])
<1> DEFINE r == thread[w]
           s == thread'[w]
<1>1. r.todo \in SUBSET Sockets /\ socks \in SUBSET Sockets
  BY Distinct DEF TypeOK, ThreadState
<1>2. /\ Cardinality(r.todo) \in Nat /\ Cardinality(socks) \in Nat
      /\ Cardinality(socks) <= Cardinality(Sockets) /\ Cardinality(Sockets) \in Nat
      /\ \A q \in r.todo : Cardinality(r.todo \ {q}) = Cardinality(r.todo) - 1
  BY <1>1, SocketsCount
<1>3. CASE WorkerCheck(w)
  <2>1. r.pc = "check" /\ s.pc = "ended"
    BY <1>3, CheckFacts DEF Moves
  <2> QED
    BY <2>1 DEF StepsLeft
<1>4. CASE WorkerCopy(w)
  <2>1. r.pc = "copy" /\ s.pc = "sample" /\ s.todo = socks
    BY <1>4, CopyFacts
  <2> QED
    BY <1>2, <2>1 DEF StepsLeft
<1>5. CASE WorkerNotified(w) \/ WorkerRecompute(w) \/ WorkerSampled(w) \/ WorkerWake(w)
  <2>1. /\ s.todo = r.todo
        /\ \/ r.pc = "notify" /\ s.pc = "recompute"
           \/ r.pc = "recompute" /\ s.pc = "sample"
           \/ r.pc = "sample" /\ s.pc = "sleep"
           \/ r.pc = "sleep" /\ s.pc = "check"
    BY <1>5, RoundFacts DEF Moves
  <2> QED
    BY <1>2, <2>1 DEF StepsLeft
<1>6. ASSUME NEW q \in Sockets, WorkerSkip(w, q) \/ WorkerSample(w, q)
      PROVE  StepsLeft(s) < StepsLeft(r)
  <2>1. /\ r.pc = "sample" /\ s.pc \in {"sample", "notify"} /\ s.todo = r.todo \ {q}
        /\ q \in r.todo
    BY <1>6, SkipFacts, SampleFacts DEF WorkerSkip, WorkerSample
  <2>2. Cardinality(s.todo) = Cardinality(r.todo) - 1
    BY <1>2, <2>1
  <2> QED
    BY <1>2, <2>1, <2>2 DEF StepsLeft
<1> QED
  BY <1>3, <1>4, <1>5, <1>6 DEF Works, WorkerStep, WorkerLocks

\* While a controller waits in its join, undisturbed, there is one worker, the
\* one it waits for, and nobody else starts or stops.
LEMMA JoinAlone ==
  ASSUME TypeOK, Control, ~disturbed, NEW c \in Controllers, Pc(c) = "join"
  PROVE  /\ c \in Threads /\ c \notin Workers /\ Busy(c)
         /\ ~terminated /\ ~run /\ th \in Workers /\ Pc(th) # "none"
         /\ \A t \in Threads : Busy(t) => t = c
         /\ \A w \in Workers : Pc(w) # "none" => w = th
<1>1. c \in Threads /\ c \notin Workers /\ Busy(c)
  BY Distinct DEF Busy, Pc, InStop
<1>2. ~terminated /\ ~run /\ th # NoThread /\ \A t \in Threads : Busy(t) => t = c
  BY <1>1 DEF Control, InStop
<1>3. th \in Workers
  BY <1>2 DEF TypeOK
<1>4. Pc(th) # "none"
  BY <1>2 DEF Control
<1>5. \A t \in Threads : Pc(t) # "assign"
  BY <1>2 DEF Busy, Pc, InStart
<1>6. \A w \in Workers : Pc(w) # "none" => w = th
  BY <1>5 DEF Control
<1> QED
  BY <1>1, <1>2, <1>3, <1>4, <1>6

\* A step of any other thread leaves the sampler's record and the join alone,
\* and the join itself returns only when the sampler has ended.
LEMMA JoinWaits ==
  ASSUME TypeOK, Control, [Next]_vars, ~disturbed', NEW c \in Controllers, Pc(c) = "join",
         ~Works(th)
  PROVE  \/ Pc(th) = "ended" /\ Pc(c)' = "idle"
         \/ Pc(c)' = "join" /\ th' = th /\ thread'[th] = thread[th]
<1> DEFINE Goal == \/ Pc(th) = "ended" /\ Pc(c)' = "idle"
                   \/ Pc(c)' = "join" /\ th' = th /\ thread'[th] = thread[th]
<1>0. c \in Threads /\ c \notin Workers /\ Busy(c) /\ thread[c].pc = "join"
  BY Distinct DEF Busy, Pc, InStop
<1>1. ASSUME NEW t \in Threads, StartStore(t) \/ StopStore(t) PROVE Goal
  <2>1. ~disturbed /\ ~RunsInto(t) /\ MayCall(t)
    BY <1>1 DEF StartStore, StopStore
  <2>2. t # c
    BY <1>0, <2>1 DEF MayCall, At
  <2> QED
    BY <1>0, <2>1, <2>2 DEF RunsInto
<1>2. ASSUME NEW t \in Threads, CallStep(t) PROVE Goal
  <2>1. ~disturbed /\ Busy(t)
    BY <1>2 DEF CallStep, StartSpawn, StartAssign, StopJoinable, StopJoin, At, Busy, InStart, InStop
  <2>2. t = c /\ th \in Workers /\ c \notin Workers
    BY <2>1, JoinAlone
  <2>3. StopJoin(c)
    BY <1>0, <1>2, <2>2 DEF CallStep, StartSpawn, StartAssign, StopJoinable, At
  <2>4. th \notin {c, NoThread}
    BY <2>2, Distinct
  <2> QED
    BY <1>0, <2>2, <2>3, <2>4, JoinFacts DEF Pc, AfterCall
<1>3. ASSUME NEW d \in Controllers, Destroy(d) PROVE Goal
  BY <1>0, <1>3 DEF Destroy, MayDestroy
<1>4. ASSUME NEW w \in Workers, WorkerStep(w) \/ WorkerLocks(w) PROVE Goal
  <2>1. /\ Pc(w) # "none" /\ UNCHANGED disturbed
    BY <1>4, RoundKeeps DEF Pc
  <2>2. w = th
    BY <2>1, JoinAlone
  <2> QED
    BY <1>4, <2>2 DEF Works
<1>5. CASE \/ \E d \in Controllers : GetEstimate(d) \/ GetEstimateReturn(d)
           \/ \E s \in Sockets : Register(s) \/ Unregister(s)
           \/ UNCHANGED vars
  BY <1>0, <1>5 DEF GetEstimate, GetEstimateReturn, Register, Unregister, vars, Pc
<1> QED
  BY <1>1, <1>2, <1>3, <1>4, <1>5 DEF Next

\* A stop that no other call disturbs waits for a bounded number of the
\* sampler's steps: the round it is in (stop, loop, sampleOnce).  Each of them is
\* possible, at the latest when an estimate callback has returned, unless the
\* stop was called from that callback.
THEOREM StopWaitBounded == Spec => []StopNeverStuck /\ StopDrains
<1>1. IInv => StopNeverStuck
  <2> SUFFICES ASSUME TypeOK, Control, ~disturbed, NEW c \in Controllers, Pc(c) = "join"
               PROVE  /\ ~terminated /\ th \in Workers /\ StepsLeft(thread[th]) \in Nat
                      /\ \/ Pc(th) = "ended"
                         \/ WorkerReady(th)
                         \/ Pc(th) \in Waiting /\ mu = c
                         \/ Pc(th) \in Waiting /\ mu # NoThread /\ At(mu, "idle")
    BY DEF IInv, StopNeverStuck
  <2>1. /\ ~terminated /\ th \in Workers /\ Pc(th) # "none"
        /\ \A t \in Threads : Busy(t) => t = c
        /\ c \notin Workers
    BY JoinAlone
  <2>2. thread[th] \in ThreadState /\ thread[th].pc \in WorkerPCs /\ ~Busy(th)
    BY <2>1, Distinct DEF TypeOK
  <2>3. StepsLeft(thread[th]) \in Nat
    BY <2>2, StepsLeftNat
  <2>4. Pc(th) \in {"check", "copy", "notify", "sleep", "ended"} \cup Waiting
    BY <2>1, <2>2 DEF WorkerPCs, Busy, Gone, Pc
  <2>5. mu # NoThread => mu = c \/ At(mu, "idle")
    <3> SUFFICES ASSUME mu # NoThread, mu # c PROVE At(mu, "idle")
      OBVIOUS
    <3>1. mu \in Controllers /\ thread[mu].pc \in ControllerPCs
      BY DEF TypeOK
    <3>2. ~Busy(mu)
      BY <2>1, <3>1, Distinct
    <3> QED
      BY <2>1, <3>1, <3>2 DEF ControllerPCs, Busy, At
  <2> QED
    BY <2>1, <2>3, <2>4, <2>5 DEF WorkerReady, At, Pc, Waiting
<1>2. ASSUME IInv, [Next]_vars, NEW c \in Controllers, Pc(c) = "join", ~disturbed'
      PROVE  \/ Pc(th) = "ended" /\ Pc(c)' = "idle"
             \/ /\ Pc(c)' = "join" /\ th' = th
                /\ IF Works(th) THEN StepsLeft(thread'[th]) < StepsLeft(thread[th])
                   ELSE thread'[th] = thread[th]
  <2>1. CASE Works(th)
    <3>1. th \in Workers /\ c \notin Workers /\ c \in Threads /\ ~run
      <4>1. ~disturbed
        BY <1>2, <2>1 DEF Works, WorkerStep, WorkerLocks, WorkerCheck, WorkerCopy, WorkerNotified,
           WorkerSampled, WorkerWake, WorkerSkip, WorkerRecompute, WorkerSample
      <4> QED
        BY <1>2, <4>1, JoinAlone DEF IInv
    <3>2. Others(th) /\ th' = th
      BY <1>2, <2>1, <3>1, RoundKeeps DEF IInv, Works
    <3>3. Pc(c)' = "join"
      BY <1>2, <3>1, <3>2 DEF Pc, Others
    <3> QED
      BY <1>2, <2>1, <3>1, <3>2, <3>3, WorksLower DEF IInv
  <2>2. CASE ~Works(th)
    BY <1>2, <2>2, JoinWaits DEF IInv
  <2> QED
    BY <2>1, <2>2
<1>3. IInv /\ [Next]_vars =>
        [\A c \in Controllers : Pc(c) = "join" /\ ~disturbed' =>
           \/ Pc(th) = "ended" /\ Pc(c)' = "idle"
           \/ /\ Pc(c)' = "join" /\ th' = th
              /\ IF Works(th) THEN StepsLeft(thread'[th]) < StepsLeft(thread[th])
                 ELSE thread'[th] = thread[th]]_vars
  BY <1>2
<1> QED
  BY Invariance, <1>1, <1>3, PTL DEF Spec, StopDrains
=============================================================================
