------------------------ MODULE NetworkQualityStore ------------------------
(***************************************************************************)
(* The store of quality estimates per network                              *)
(* (src/src/NetworkQualityStore.cpp): a map in memory with an age limit    *)
(* and a size limit, saved to a text file and read back by the next run of *)
(* the program.                                                            *)
(*                                                                         *)
(* Every operation holds mutex_ throughout, so each is one step; a crash   *)
(* can cut a save short.  Time is counted in units coarser than the file's *)
(* seconds.  An estimate is reduced to when it was put and whether it is   *)
(* empty: nothing depends on its values.  The file is the set of its valid *)
(* lines; commas in a network's name do not survive a save (Sanitized).    *)
(***************************************************************************)
EXTENDS Integers, FiniteSets, Functions

CONSTANTS
  Networks,   \* the valid NetworkIDs a device meets
  Sanitized,  \* the NetworkID read back for each one: its name without commas
  Capacity,   \* Options::max_cache_size
  MaxAge,     \* Options::max_cache_age
  MaxTime     \* bound: the last point in time considered

ASSUME StoreConstants ==
  /\ IsFiniteSet(Networks)
  /\ Sanitized \in [Networks -> Networks]
  /\ \A n \in Networks : Sanitized[Sanitized[n]] = Sanitized[n]
  /\ Capacity \in Nat
  /\ MaxAge \in Nat
  /\ MaxTime \in Nat

VARIABLES
  now,      \* external: the clock
  running,  \* the store has been constructed and not destroyed
  cache,    \* cache_: a function on the networks in the map
  file,     \* external: the valid lines of the cache file
  saved     \* history: the networks the last complete save wrote a line for

vars == <<now, running, cache, file, saved>>

Entries == [stamp : Int, born : Nat, empty : BOOLEAN]
Lines == [id : Networks, age : Nat, born : Nat]

NoNetworks == [n \in {} |-> 0]

\* CachedNetworkQuality::isFresh.
Fresh(e) == ~e.empty /\ now - e.stamp <= MaxAge

FreshNetworks == {n \in DOMAIN cache : Fresh(cache[n])}

\* cache_[n] = e.
With(c, n, e) == [m \in DOMAIN c \cup {n} |-> IF m = n THEN e ELSE c[m]]

Oldest(c) == {n \in DOMAIN c : \A m \in DOMAIN c : c[n].stamp <= c[m].stamp}

\* Mutant of Evicted: one entry too many is tolerated.
EvictedLate(c) ==
  IF Cardinality(DOMAIN c) <= Capacity + 1 THEN {c}
  ELSE {Restrict(c, DOMAIN c \ {n}) : n \in Oldest(c)}

\* Mutant of Evicted: the comparison is the wrong way round.
EvictedNewest(c) ==
  IF Cardinality(DOMAIN c) <= Capacity THEN {c}
  ELSE {Restrict(c, DOMAIN c \ {n}) :
          n \in {k \in DOMAIN c : \A m \in DOMAIN c : c[k].stamp >= c[m].stamp}}

\* evictOldestIfNeeded: at most one entry goes, the first of the oldest in the
\* order of the map, which may be any of them.
Evicted(c) ==
  IF Cardinality(DOMAIN c) <= Capacity THEN {c}
  ELSE {Restrict(c, DOMAIN c \ {n}) : n \in Oldest(c)}

\* Mutant of LinesToSave: the time of the clock is written, not the age.
LinesToSaveAbsolute ==
  {[id |-> Sanitized[n], age |-> cache[n].stamp, born |-> cache[n].born] :
     n \in FreshNetworks}

\* Mutant of LinesToSave: the operands of the age are swapped.
LinesToSaveSwapped ==
  {[id |-> Sanitized[n], age |-> cache[n].stamp - now, born |-> cache[n].born] :
     n \in FreshNetworks}

\* saveToFile: one line for each fresh entry.
LinesToSave ==
  {[id |-> Sanitized[n], age |-> now - cache[n].stamp, born |-> cache[n].born] :
     n \in FreshNetworks}

\* Mutant of FreshLines: an age at the limit is rejected.
FreshLinesStrict == {l \in file : l.age < MaxAge}

\* The lines loadFromFile takes over.
FreshLines == {l \in file : l.age <= MaxAge}

\* Of two lines with one id the later one counts, which may be either.
Merged(c) ==
  {[n \in DOMAIN c \cup {l.id : l \in FreshLines} |->
      IF \E l \in FreshLines : l.id = n
      THEN [stamp |-> now - pick[n].age, born |-> pick[n].born, empty |-> FALSE]
      ELSE c[n]] :
    pick \in {p \in [{l.id : l \in FreshLines} -> FreshLines] :
                \A n \in DOMAIN p : p[n].id = n}}

-----------------------------------------------------------------------------
Init ==
  /\ now = 0
  /\ running = FALSE
  /\ cache = NoNetworks
  /\ file = {}
  /\ saved = {}

\* The constructor: it loads the file, if there is one.
Start ==
  /\ ~running
  /\ running' = TRUE
  /\ cache' \in Merged(NoNetworks)
  /\ UNCHANGED <<now, file, saved>>

\* put, as updateCachedQuality calls it: with the time of the call.
Put(n) ==
  /\ running
  /\ \E empty \in BOOLEAN :
       cache' \in Evicted(With(cache, n, [stamp |-> now, born |-> now, empty |-> empty]))
  /\ UNCHANGED <<now, running, file, saved>>

Remove(n) ==
  /\ running
  /\ cache' = Restrict(cache, DOMAIN cache \ {n})
  /\ UNCHANGED <<now, running, file, saved>>

Clear ==
  /\ running
  /\ cache' = NoNetworks
  /\ UNCHANGED <<now, running, file, saved>>

PruneStaleEntries ==
  /\ running
  /\ cache' = Restrict(cache, FreshNetworks)
  /\ UNCHANGED <<now, running, file, saved>>

\* save; a file that cannot be opened is left as it is.
Save ==
  /\ running
  /\ file' = LinesToSave
  /\ saved' = FreshNetworks
  /\ UNCHANGED <<now, running, cache>>

\* load: entries of the file replace those in memory; nothing is evicted.
Load ==
  /\ running
  /\ cache' \in Merged(cache)
  /\ UNCHANGED <<now, running, file, saved>>

\* The destructor saves, if the file can be opened.
Shutdown ==
  /\ running
  /\ running' = FALSE
  /\ cache' = NoNetworks
  /\ \/ file' = LinesToSave /\ saved' = FreshNetworks
     \/ UNCHANGED <<file, saved>>
  /\ UNCHANGED now

\* The program dies; the file is as the last save left it.
Crash ==
  /\ running
  /\ running' = FALSE
  /\ cache' = NoNetworks
  /\ UNCHANGED <<now, file, saved>>

\* The program dies in saveToFile, which has truncated the file and written
\* some lines; the last may be cut within the digits of the age.
CrashInSave ==
  /\ running
  /\ running' = FALSE
  /\ cache' = NoNetworks
  /\ \E whole \in SUBSET LinesToSave :
       \/ file' = whole
       \/ \E l \in LinesToSave \ whole : \E a \in 0 .. l.age :
            file' = whole \cup {[l EXCEPT !.age = a]}
  /\ saved' = {}
  /\ UNCHANGED now

Tick ==
  /\ now < MaxTime
  /\ now' = now + 1
  /\ UNCHANGED <<running, cache, file, saved>>

Next ==
  \/ Start \/ Shutdown \/ Crash \/ CrashInSave
  \/ \E n \in Networks : Put(n) \/ Remove(n)
  \/ Clear \/ PruneStaleEntries
  \/ Save \/ Load
  \/ Tick

Spec == Init /\ [][Next]_vars

-----------------------------------------------------------------------------
\* Every variable has its type; only a constructed store holds entries.
TypeOK ==
  /\ now \in Nat
  /\ running \in BOOLEAN
  /\ DOMAIN cache \subseteq Networks
  /\ cache \in [DOMAIN cache -> Entries]
  /\ file \subseteq Lines
  /\ saved \subseteq Networks

\* No entry is taken to be older than it is, in memory or in the file, however
\* often it was saved, loaded, cut short or kept while the program was not
\* running: age alone never discards an estimate before max_cache_age has passed
\* since it was made (CachedNetworkQuality.h:75, NetworkQualityStore.cpp:210); a
\* full cache may (PutEvictsOldest).
NeverBelievedOlder ==
  /\ \A n \in DOMAIN cache : cache[n].born <= cache[n].stamp /\ cache[n].stamp <= now
  /\ \A l \in file : l.born + l.age <= now

\* Only reading the file makes a cache that is at its limit grow, even if put
\* evicts a single entry from a cache that a load has filled beyond it.
OnlyLoadExceeds ==
  [][ \/ Cardinality(DOMAIN cache') <= Capacity
      \/ Cardinality(DOMAIN cache') <= Cardinality(DOMAIN cache)
      \/ Load \/ Start ]_vars

\* What put drops is at most one entry, and no entry that stays is older.
PutEvictsOldest ==
  [][ \A n \in DOMAIN cache \ DOMAIN cache' :
        (\E m \in Networks : Put(m)) =>
          /\ DOMAIN cache \ DOMAIN cache' = {n}
          /\ \A m \in DOMAIN cache' : cache[n].stamp <= cache'[m].stamp ]_vars

\* A network whose name has no comma is there again when the program starts, if
\* the last write of the file was complete and found a fresh entry for it.
SavedComesBack ==
  [][ Start => \A n \in saved : Sanitized[n] = n => n \in FreshNetworks' ]_vars

\* Contradicted by the code (NetworkQualityStore.cpp:154, "Preserve existing
\* valid entries; only add from file"): a load keeps the fresh entries it finds.
LoadPreserves ==
  [][ Load => \A n \in FreshNetworks : cache'[n] = cache[n] ]_vars
=============================================================================
