------------------------- MODULE TransportSampler -------------------------
(***************************************************************************)
(* The transport sampler (Nqe::TransportSamplerImpl in src/src/Nqe.cpp): a *)
(* thread that reads the RTT of every registered socket, once per period,  *)
(* into the Nqe that owns it.  Application threads start and stop it,      *)
(* register sockets, ask for estimates and destroy the Nqe; the callback   *)
(* of an estimate runs under the Nqe's lock mu_, the observers of a sample *)
(* on the sampler's own thread, and both may start and stop the sampler.   *)
(*                                                                         *)
(* run_ is atomic and th_ is not locked: a step is one access to run_ or   *)
(* to th_, or one critical section.  Assigning to a std::thread that is    *)
(* joinable, joining one that no longer is, or joining oneself ends the    *)
(* program.                                                                *)
(***************************************************************************)
EXTENDS Integers, FiniteSets

CONSTANTS
  Controllers,  \* application threads
  Workers,      \* threads that run loop()
  Sockets,      \* registered sockets
  NoThread      \* no thread: of mu_, that it is free; of th_, not joinable

ASSUME SamplerConstants ==
  /\ Controllers \cap Workers = {}
  /\ NoThread \notin Controllers \cup Workers
  /\ IsFiniteSet(Sockets)

VARIABLES
  run,          \* run_
  th,           \* th_: the worker it stands for
  socks,        \* socks_
  mu,           \* Nqe::mu_: the controller in whose estimate callback it is held
  thread,       \* what each thread is doing and the copies it holds
  life,         \* the Nqe lives, is being destroyed or is destroyed
  terminated,   \* the program has been ended by std::terminate
  late,         \* history: samples of a socket since it was unregistered,
                \* -1 while it is registered or never was
  disturbed     \* history: a start or stop ran into another one or was called
                \* by the sampler's own thread, or a start found run_ set

vars == <<run, th, socks, mu, thread, life, terminated, late, disturbed>>

-----------------------------------------------------------------------------
Threads == Controllers \cup Workers

InStart == {"spawn", "assign"}
InStop == {"joinable", "join"}
Waiting == {"sample", "recompute"}     \* for mu_
Gone == {"none", "ended"}

ControllerPCs == {"idle"} \cup InStart \cup InStop
WorkerPCs == {"check", "copy", "notify", "sleep"} \cup Waiting \cup Gone \cup InStart \cup InStop

\* todo: sockets of the copy not yet looked at; new: the worker a start made
\* and has not assigned yet.
ThreadState ==
  [pc : ControllerPCs \cup WorkerPCs, todo : SUBSET Sockets, new : Workers \cup {NoThread}]

Fresh(pc) == [pc |-> pc, todo |-> {}, new |-> NoThread]

At(t, pc) == ~terminated /\ thread[t].pc = pc

Become(t, rec) == thread' = [thread EXCEPT ![t] = rec]

Goto(t, pc) == Become(t, [thread[t] EXCEPT !.pc = pc])

Busy(t) == thread[t].pc \in InStart \cup InStop

RunsInto(t) == \E u \in Threads \ {t} : Busy(u)

\* A controller may call at any time, in its estimate callback too, until the
\* Nqe is being destroyed; an observer may when the sampler's thread calls it.
MayCall(t) ==
  \/ t \in Controllers /\ At(t, "idle") /\ life = "live"
  \/ t \in Workers /\ At(t, "notify")

\* Mutant of AfterCall: a call never returns to the sampler's loop.
AfterCallIdle(t) == "idle"

\* Where a start or stop returns to.
AfterCall(t) == IF t \in Workers THEN "recompute" ELSE "idle"

Init ==
  /\ run = FALSE /\ th = NoThread
  /\ socks = {}
  /\ mu = NoThread
  /\ thread = [t \in Threads |-> Fresh(IF t \in Workers THEN "none" ELSE "idle")]
  /\ life = "live"
  /\ terminated = FALSE
  /\ late = [s \in Sockets |-> -1]
  /\ disturbed = FALSE

-----------------------------------------------------------------------------
(***************************************************************************)
(* start: the thread runs before it is assigned to th_.                    *)
(***************************************************************************)
\* Mutant of StartStore: run_ is left as it was.
StartStoreMissing(t) ==
  /\ MayCall(t)
  /\ Goto(t, "spawn")
  /\ disturbed' = (disturbed \/ run \/ RunsInto(t))
  /\ UNCHANGED <<run, th, socks, mu, life, terminated, late>>

StartStore(t) ==
  /\ MayCall(t)
  /\ run' = TRUE
  /\ Goto(t, "spawn")
  /\ disturbed' = (disturbed \/ run \/ RunsInto(t))
  /\ UNCHANGED <<th, socks, mu, life, terminated, late>>

StartSpawn(t) ==
  /\ At(t, "spawn")
  /\ \E w \in Workers :
       /\ thread[w].pc = "none"
       /\ thread' = [thread EXCEPT ![t].pc = "assign", ![t].new = w, ![w] = Fresh("check")]
  /\ UNCHANGED <<run, th, socks, mu, life, terminated, late, disturbed>>

StartAssign(t) ==
  /\ At(t, "assign")
  /\ IF th # NoThread
     THEN terminated' = TRUE /\ UNCHANGED <<th, thread>>
     ELSE /\ th' = thread[t].new
          /\ Become(t, [thread[t] EXCEPT !.pc = AfterCall(t), !.new = NoThread])
          /\ UNCHANGED terminated
  /\ UNCHANGED <<run, socks, mu, life, late, disturbed>>

-----------------------------------------------------------------------------
(***************************************************************************)
(* stop, and ~Nqe, which calls it.                                         *)
(***************************************************************************)
\* Mutant of StopStore: the sampler is not told to end.
StopStoreMissing(t) ==
  /\ MayCall(t)
  /\ Goto(t, "joinable")
  /\ disturbed' = (disturbed \/ RunsInto(t) \/ t \in Workers)
  /\ UNCHANGED <<run, th, socks, mu, life, terminated, late>>

StopStore(t) ==
  /\ MayCall(t)
  /\ run' = FALSE
  /\ Goto(t, "joinable")
  /\ disturbed' = (disturbed \/ RunsInto(t) \/ t \in Workers)
  /\ UNCHANGED <<th, socks, mu, life, terminated, late>>

\* A destructor runs when no application thread is in a call.
MayDestroy(t) ==
  /\ ~terminated /\ life = "live" /\ mu = NoThread
  /\ \A c \in Controllers : thread[c].pc = "idle"

\* Mutant of Destroy: the sampler is left to itself.
DestroyWithoutStop(t) ==
  /\ MayDestroy(t)
  /\ life' = "destroyed"
  /\ UNCHANGED <<run, th, socks, mu, thread, terminated, late, disturbed>>

Destroy(t) ==
  /\ MayDestroy(t)
  /\ run' = FALSE
  /\ life' = "closing"
  /\ Goto(t, "joinable")
  /\ disturbed' = (disturbed \/ RunsInto(t))
  /\ UNCHANGED <<th, socks, mu, terminated, late>>

\* stop returns; in the destructor the Nqe is gone then.
LifeAfterStop(t) == IF t \in Controllers /\ life = "closing" THEN "destroyed" ELSE life

\* Mutant of StopJoinable: the thread is not waited for.
StopJoinableSkipped(t) ==
  /\ At(t, "joinable")
  /\ Goto(t, AfterCall(t)) /\ life' = LifeAfterStop(t)
  /\ UNCHANGED <<run, th, socks, mu, terminated, late, disturbed>>

StopJoinable(t) ==
  /\ At(t, "joinable")
  /\ IF th # NoThread
     THEN Goto(t, "join") /\ UNCHANGED life
     ELSE Goto(t, AfterCall(t)) /\ life' = LifeAfterStop(t)
  /\ UNCHANGED <<run, th, socks, mu, terminated, late, disturbed>>

StopJoin(t) ==
  /\ At(t, "join")
  /\ IF th \in {t, NoThread}
     THEN terminated' = TRUE /\ UNCHANGED <<th, thread, life>>
     ELSE /\ thread[th].pc = "ended"
          /\ th' = NoThread
          /\ thread' = [thread EXCEPT ![t].pc = AfterCall(t), ![th] = Fresh("none")]
          /\ life' = LifeAfterStop(t)
          /\ UNCHANGED terminated
  /\ UNCHANGED <<run, socks, mu, late, disturbed>>

-----------------------------------------------------------------------------
(***************************************************************************)
(* addSocket, removeSocket; getEstimate with its callback.                 *)
(***************************************************************************)
Usable == ~terminated /\ life = "live"

Register(s) ==
  /\ Usable
  /\ socks' = socks \cup {s}
  /\ late' = [late EXCEPT ![s] = -1]
  /\ UNCHANGED <<run, th, mu, thread, life, terminated, disturbed>>

\* Mutant of Unregister: the socket is not erased.
UnregisterNothing(s) ==
  /\ Usable
  /\ s \in socks
  /\ late' = [late EXCEPT ![s] = 0]
  /\ UNCHANGED <<run, th, socks, mu, thread, life, terminated, disturbed>>

Unregister(s) ==
  /\ Usable
  /\ s \in socks
  /\ socks' = socks \ {s}
  /\ late' = [late EXCEPT ![s] = 0]
  /\ UNCHANGED <<run, th, mu, thread, life, terminated, disturbed>>

GetEstimate(c) ==
  /\ Usable
  /\ At(c, "idle")
  /\ mu = NoThread
  /\ mu' = c
  /\ UNCHANGED <<run, th, socks, thread, life, terminated, late, disturbed>>

GetEstimateReturn(c) ==
  /\ At(c, "idle")
  /\ mu = c
  /\ mu' = NoThread
  /\ UNCHANGED <<run, th, socks, thread, life, terminated, late, disturbed>>

-----------------------------------------------------------------------------
(***************************************************************************)
(* loop and sampleOnce.                                                    *)
(***************************************************************************)
WorkerCheck(w) ==
  /\ At(w, "check")
  /\ Goto(w, IF run THEN "copy" ELSE "ended")
  /\ UNCHANGED <<run, th, socks, mu, life, terminated, late, disturbed>>

WorkerCopy(w) ==
  /\ At(w, "copy")
  /\ Become(w, [thread[w] EXCEPT !.pc = "sample", !.todo = socks])
  /\ UNCHANGED <<run, th, socks, mu, life, terminated, late, disturbed>>

\* The socket tells no RTT: it is closed, or has none yet.
WorkerSkip(w, s) ==
  /\ At(w, "sample")
  /\ s \in thread[w].todo
  /\ Become(w, [thread[w] EXCEPT !.todo = @ \ {s}])
  /\ UNCHANGED <<run, th, socks, mu, life, terminated, late, disturbed>>

\* One more late sample; 2 stands for any more.
OneMore(n) == IF n \in {0, 1} THEN n + 1 ELSE n

\* The part of addSample under mu_.
WorkerSample(w, s) ==
  /\ At(w, "sample")
  /\ s \in thread[w].todo
  /\ mu = NoThread
  /\ Become(w, [thread[w] EXCEPT !.pc = "notify", !.todo = @ \ {s}])
  /\ late' = [late EXCEPT ![s] = OneMore(@)]
  /\ UNCHANGED <<run, th, socks, mu, life, terminated, disturbed>>

\* The observers return.
WorkerNotified(w) ==
  /\ At(w, "notify")
  /\ Goto(w, "recompute")
  /\ UNCHANGED <<run, th, socks, mu, life, terminated, late, disturbed>>

\* The end of addSample, under mu_ again.
WorkerRecompute(w) ==
  /\ At(w, "recompute")
  /\ mu = NoThread
  /\ Goto(w, "sample")
  /\ UNCHANGED <<run, th, socks, mu, life, terminated, late, disturbed>>

WorkerSampled(w) ==
  /\ At(w, "sample")
  /\ thread[w].todo = {}
  /\ Goto(w, "sleep")
  /\ UNCHANGED <<run, th, socks, mu, life, terminated, late, disturbed>>

WorkerWake(w) ==
  /\ At(w, "sleep")
  /\ Goto(w, "check")
  /\ UNCHANGED <<run, th, socks, mu, life, terminated, late, disturbed>>

-----------------------------------------------------------------------------
\* A call that has begun goes on.
CallStep(t) ==
  StartSpawn(t) \/ StartAssign(t) \/ StopJoinable(t) \/ StopJoin(t)

\* What the sampler's thread does without mu_, and what it needs mu_ for.
WorkerStep(w) ==
  \/ WorkerCheck(w) \/ WorkerCopy(w) \/ WorkerNotified(w) \/ WorkerSampled(w)
  \/ WorkerWake(w) \/ \E s \in Sockets : WorkerSkip(w, s)

WorkerLocks(w) == WorkerRecompute(w) \/ \E s \in Sockets : WorkerSample(w, s)

Next ==
  \/ \E t \in Threads : StartStore(t) \/ StopStore(t) \/ CallStep(t)
  \/ \E c \in Controllers : Destroy(c) \/ GetEstimate(c) \/ GetEstimateReturn(c)
  \/ \E w \in Workers : WorkerStep(w) \/ WorkerLocks(w)
  \/ \E s \in Sockets : Register(s) \/ Unregister(s)

\* The system schedules every thread, callbacks return, and a thread that keeps
\* asking for mu_ gets it in the end.
Fairness ==
  /\ \A t \in Threads : WF_vars(CallStep(t))
  /\ \A c \in Controllers : WF_vars(GetEstimateReturn(c))
  /\ \A w \in Workers : WF_vars(WorkerStep(w)) /\ SF_vars(WorkerLocks(w))

Spec == Init /\ [][Next]_vars /\ Fairness

-----------------------------------------------------------------------------
\* Every variable has its type, and each thread keeps to its own code.
TypeOK ==
  /\ run \in BOOLEAN /\ terminated \in BOOLEAN /\ disturbed \in BOOLEAN
  /\ th \in Workers \cup {NoThread}
  /\ socks \subseteq Sockets
  /\ mu \in Controllers \cup {NoThread}
  /\ thread \in [Threads -> ThreadState]
  /\ \A c \in Controllers : thread[c].pc \in ControllerPCs
  /\ \A w \in Workers : thread[w].pc \in WorkerPCs
  /\ life \in {"live", "closing", "destroyed"}
  /\ late \in [Sockets -> -1..2]

\* The program is ended by an assignment to, or a join of, th_ only after a
\* start while isRunning(), two starts or stops at a time, or a stop by an
\* observer: neither the estimate callback nor the destructor does it.
OnlyDisturbedTerminates == terminated => disturbed

\* While no start or stop is under way, and none was disturbed, run_ tells
\* whether there is a sampler: one worker that goes on, held by th_, or none.
SamplerFollowsFlag ==
  ~disturbed /\ (\A t \in Threads : ~Busy(t)) =>
    /\ run <=> th # NoThread
    /\ \A w \in Workers : thread[w].pc \in Gone <=> w # th

\* A destroyed Nqe has no sampler left that would use it, however its starts
\* and stops ran into each other before.
DestroyedAlone == life = "destroyed" => \A w \in Workers : thread[w].pc = "none"

\* A socket that was unregistered is sampled at most once more, from a copy
\* made before, so that a handle the system gives to another connection adds
\* at most one of its RTTs.
AtMostOneLateSample == ~disturbed => \A s \in Sockets : late[s] <= 1

\* A stop returns, unless another call disturbed it or it was called from the
\* estimate callback while the sampler waits for the lock the callback holds.
StopReturns ==
  \A c \in Controllers :
    thread[c].pc \in InStop ~>
      \/ thread[c].pc \notin InStop
      \/ disturbed
      \/ mu = c /\ \E w \in Workers : thread[w].pc \in Waiting
=============================================================================
