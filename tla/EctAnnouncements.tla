------------------------- MODULE EctAnnouncements -------------------------
(***************************************************************************)
(* What Nqe promises to its EffectiveConnectionTypeObservers               *)
(* (NetworkQualityObserver.h, EctObserver.h): every change of the ECT is   *)
(* told once to each observer registered when it happens, with the ECT     *)
(* before and after it, by the call that made the change; a call tells all *)
(* of a change before it is over and its caller makes another.  An         *)
(* observer that is being told may make a call too, which may change the   *)
(* ECT and tell of that before the others have heard of the first change.  *)
(* Nothing is promised about the order in which different calls tell, and  *)
(* an observer that was removed may still be told.  Locks, samples,        *)
(* counters and the cache do not appear.                                   *)
(***************************************************************************)
CONSTANTS
  Announcers,  \* who makes calls that change the ECT: a thread, or an observer
               \* that a call is telling
  Observers,
  Types        \* effective connection types

VARIABLES
  ect,         \* the ECT
  registered,  \* the observers
  due          \* calls that are to be made: records of by, to, old and new

vars == <<ect, registered, due>>

Init ==
  /\ ect \in Types
  /\ registered = {}
  /\ due = {}

Change(a, new) ==
  /\ new # ect
  /\ ect' = new
  /\ \A c \in due : c.by # a
  /\ due' = due \cup {[by |-> a, to |-> o, old |-> ect, new |-> new] : o \in registered}
  /\ UNCHANGED registered

Tell(c) ==
  /\ due' = due \ {c}
  /\ UNCHANGED <<ect, registered>>

Register(o) == registered' = registered \cup {o} /\ UNCHANGED <<ect, due>>

Unregister(o) == registered' = registered \ {o} /\ UNCHANGED <<ect, due>>

Next ==
  \/ \E a \in Announcers, new \in Types : Change(a, new)
  \/ \E c \in due : Tell(c)
  \/ \E o \in Observers : Register(o) \/ Unregister(o)

Spec == Init /\ [][Next]_vars
=============================================================================
