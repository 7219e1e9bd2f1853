--------------------- MODULE NetworkQualityStoreProofs ---------------------
(***************************************************************************)
(* Theorems about NetworkQualityStore, for any finite set of networks, any *)
(* sanitizing of their names and any limits.                               *)
(*                                                                         *)
(* IInv is inductive.  NeverBelievedOlder needs nothing else: a line keeps *)
(* an entry's age and a load gives it back, while the clock only advances. *)
(* What the restart brings back needs SavedInFile, that the lines of the   *)
(* last complete save are still in the file and fresh enough to be read.   *)
(***************************************************************************)
EXTENDS NetworkQualityStore, FiniteSetTheorems, TLAPS

\* The file has a line that loadFromFile takes over for each saved network.
SavedInFile == \A n \in saved : \E l \in FreshLines : l.id = Sanitized[n]

IInv == TypeOK /\ NeverBelievedOlder /\ SavedInFile

-----------------------------------------------------------------------------
\* A cache as TypeOK and NeverBelievedOlder ask for it.
GoodCache(c) ==
  /\ DOMAIN c \subseteq Networks
  /\ c \in [DOMAIN c -> Entries]
  /\ \A n \in DOMAIN c : c[n].born <= c[n].stamp /\ c[n].stamp <= now

\* A file as TypeOK and NeverBelievedOlder ask for it.
GoodFile(f) == f \subseteq Lines /\ \A l \in f : l.born + l.age <= now

\* The empty map is a good cache.
LEMMA EmptyGood == GoodCache(NoNetworks)
BY DEF GoodCache, NoNetworks

\* Removing entries leaves a good cache.
LEMMA RestrictGood ==
  ASSUME NEW c, GoodCache(c), NEW S \in SUBSET DOMAIN c
  PROVE  GoodCache(Restrict(c, S))
BY DEF GoodCache, Restrict

\* What a put stores is a good cache, before and after the eviction.
LEMMA PutGood ==
  ASSUME now \in Nat, NEW c, GoodCache(c), NEW n \in Networks, NEW empty \in BOOLEAN,
         NEW d \in Evicted(With(c, n, [stamp |-> now, born |-> now, empty |-> empty]))
  PROVE  GoodCache(d)
<1> DEFINE e == [stamp |-> now, born |-> now, empty |-> empty]
           w == With(c, n, e)
<1>1. e \in Entries /\ e.born <= e.stamp /\ e.stamp <= now
  BY DEF Entries
<1> HIDE DEF e
<1>2. /\ DOMAIN w = DOMAIN c \cup {n}
      /\ \A m \in DOMAIN w : w[m] = IF m = n THEN e ELSE c[m]
      /\ w = [m \in DOMAIN w |-> w[m]]
  BY DEF With
<1>3. d = w \/ \E k \in DOMAIN w : d = Restrict(w, DOMAIN w \ {k})
  BY DEF Evicted, Oldest, e
<1> HIDE DEF w
<1>4. GoodCache(w)
  BY <1>1, <1>2 DEF GoodCache
<1> QED  BY <1>3, <1>4, RestrictGood

\* Merging the lines of a good file into a good cache yields a good cache.
LEMMA MergeGood ==
  ASSUME now \in Nat, NEW c, GoodCache(c), GoodFile(file), NEW d \in Merged(c)
  PROVE  /\ GoodCache(d)
         /\ DOMAIN d = DOMAIN c \cup {l.id : l \in FreshLines}
         /\ \A n \in {l.id : l \in FreshLines} :
              ~d[n].empty /\ now - d[n].stamp <= MaxAge
<1> DEFINE ids == {l.id : l \in FreshLines}
<1>1. PICK pick \in {p \in [ids -> FreshLines] : \A n \in DOMAIN p : p[n].id = n} :
        d = [n \in DOMAIN c \cup ids |->
               IF \E l \in FreshLines : l.id = n
               THEN [stamp |-> now - pick[n].age, born |-> pick[n].born, empty |-> FALSE]
               ELSE c[n]]
  BY DEF Merged
<1>2. DOMAIN d = DOMAIN c \cup ids
  BY <1>1
<1>3. ASSUME NEW n \in ids
      PROVE  /\ n \in Networks /\ d[n] \in Entries
             /\ d[n].born <= d[n].stamp /\ d[n].stamp <= now
             /\ ~d[n].empty /\ now - d[n].stamp <= MaxAge
  <2>1. \E l \in FreshLines : l.id = n
    OBVIOUS
  <2>2. d[n] = [stamp |-> now - pick[n].age, born |-> pick[n].born, empty |-> FALSE]
    BY <1>1, <2>1
  <2>3. /\ pick[n] \in Lines /\ pick[n].id = n /\ pick[n].age <= MaxAge
        /\ pick[n].born + pick[n].age <= now
    BY <1>1 DEF FreshLines, GoodFile
  <2>4. n \in Networks /\ pick[n].age \in Nat /\ pick[n].born \in Nat
    BY <2>3 DEF Lines
  <2> QED  BY <2>2, <2>3, <2>4, StoreConstants DEF Entries
<1>4. ASSUME NEW n \in DOMAIN c \ ids
      PROVE  d[n] = c[n]
  BY <1>1
<1>5. GoodCache(d)
  <2>1. d = [n \in DOMAIN d |-> d[n]]
    BY <1>1
  <2>2. DOMAIN d \subseteq Networks
    BY <1>2, <1>3 DEF GoodCache
  <2>3. \A n \in DOMAIN d : d[n] \in Entries /\ d[n].born <= d[n].stamp /\ d[n].stamp <= now
    BY <1>2, <1>3, <1>4 DEF GoodCache
  <2> QED  BY <2>1, <2>2, <2>3 DEF GoodCache
<1> QED  BY <1>2, <1>3, <1>5

\* The lines saved from a good cache form a good file, every one of them fresh
\* enough to be read back.
LEMMA SaveGood ==
  ASSUME now \in Nat, GoodCache(cache)
  PROVE  /\ GoodFile(LinesToSave)
         /\ \A n \in FreshNetworks :
              \E l \in LinesToSave : l.id = Sanitized[n] /\ l.age <= MaxAge
<1>1. ASSUME NEW n \in FreshNetworks
      PROVE  LET l == [id |-> Sanitized[n], age |-> now - cache[n].stamp,
                       born |-> cache[n].born]
             IN l \in Lines /\ l.born + l.age <= now /\ l.age <= MaxAge
  <2>1. /\ n \in Networks /\ cache[n] \in Entries
        /\ cache[n].born <= cache[n].stamp /\ cache[n].stamp <= now
        /\ now - cache[n].stamp <= MaxAge
    BY DEF FreshNetworks, Fresh, GoodCache
  <2>2. cache[n].stamp \in Int /\ cache[n].born \in Nat
    BY <2>1 DEF Entries
  <2>3. now - cache[n].stamp \in Nat /\ cache[n].born + (now - cache[n].stamp) <= now
    BY <2>1, <2>2
  <2> QED  BY <2>1, <2>2, <2>3, StoreConstants DEF Lines
<1> QED  BY <1>1 DEF LinesToSave, GoodFile

-----------------------------------------------------------------------------
\* The invariant in terms of good caches and files.
LEMMA GoodIInv ==
  IInv <=> /\ now \in Nat /\ running \in BOOLEAN /\ saved \subseteq Networks
           /\ GoodCache(cache) /\ GoodFile(file) /\ SavedInFile
BY DEF IInv, TypeOK, NeverBelievedOlder, GoodCache, GoodFile

\* The same of the next state.
LEMMA GoodIInvNext ==
  ASSUME now' \in Nat, running' \in BOOLEAN, saved' \subseteq Networks,
         GoodCache(cache)', GoodFile(file)', SavedInFile'
  PROVE  IInv'
BY DEF IInv, TypeOK, NeverBelievedOlder, GoodCache, GoodFile

\* A step that touches only the cache preserves the invariant.
LEMMA CacheStep ==
  ASSUME IInv, running' \in BOOLEAN, UNCHANGED <<now, file, saved>>,
         GoodCache(cache')
  PROVE  IInv'
<1>1. GoodCache(cache)' /\ GoodFile(file)'
  BY GoodIInv DEF GoodCache, GoodFile
<1>2. SavedInFile'
  BY GoodIInv DEF SavedInFile, FreshLines
<1> QED  BY <1>1, <1>2, GoodIInv, GoodIInvNext

\* A complete save preserves the invariant.
LEMMA SaveStep ==
  ASSUME IInv, running' \in BOOLEAN, UNCHANGED now, GoodCache(cache'),
         file' = LinesToSave, saved' = FreshNetworks
  PROVE  IInv'
<1>1. /\ GoodFile(file')
      /\ \A n \in saved' : \E l \in file' : l.id = Sanitized[n] /\ l.age <= MaxAge
  BY GoodIInv, SaveGood
<1>2. GoodCache(cache)' /\ GoodFile(file)'
  BY <1>1 DEF GoodCache, GoodFile
<1>3. SavedInFile'
  BY <1>1 DEF SavedInFile, FreshLines
<1>4. saved' \subseteq Networks
  BY GoodIInv DEF FreshNetworks, GoodCache
<1> QED  BY <1>2, <1>3, <1>4, GoodIInv, GoodIInvNext

\* Every step preserves the invariant.
LEMMA NextIInv == IInv /\ [Next]_vars => IInv'
<1> SUFFICES ASSUME IInv, [Next]_vars PROVE IInv'
  OBVIOUS
<1> USE GoodIInv
<1>1. CASE Start
  <2>1. GoodCache(cache')
    BY <1>1, EmptyGood, MergeGood DEF Start
  <2> QED  BY <1>1, <2>1, CacheStep DEF Start
<1>2. CASE Shutdown
  <2>1. GoodCache(cache')
    BY <1>2, EmptyGood DEF Shutdown
  <2>2. CASE file' = LinesToSave /\ saved' = FreshNetworks
    BY <1>2, <2>1, <2>2, SaveStep DEF Shutdown
  <2>3. CASE UNCHANGED <<file, saved>>
    BY <1>2, <2>1, <2>3, CacheStep DEF Shutdown
  <2> QED  BY <1>2, <2>2, <2>3 DEF Shutdown
<1>3. CASE Crash
  <2>1. GoodCache(cache')
    BY <1>3, EmptyGood DEF Crash
  <2> QED  BY <1>3, <2>1, CacheStep DEF Crash
<1>4. CASE CrashInSave
  <2>1. GoodCache(cache)'
    BY <1>4, EmptyGood DEF CrashInSave, GoodCache
  <2>2. GoodFile(LinesToSave)
    BY SaveGood
  <2>3. GoodFile(file)'
    <3>1. PICK whole \in SUBSET LinesToSave :
            \/ file' = whole
            \/ \E l \in LinesToSave \ whole : \E a \in 0 .. l.age :
                 file' = whole \cup {[l EXCEPT !.age = a]}
      BY <1>4 DEF CrashInSave
    <3>2. CASE file' = whole
      BY <1>4, <2>2, <3>2 DEF CrashInSave, GoodFile
    <3>3. ASSUME NEW l \in LinesToSave \ whole, NEW a \in 0 .. l.age,
                 file' = whole \cup {[l EXCEPT !.age = a]}
          PROVE  GoodFile(file)'
      <4>1. l \in Lines /\ l.born + l.age <= now
        BY <2>2 DEF GoodFile
      <4>2. l.born \in Nat /\ l.age \in Nat
        BY <4>1 DEF Lines
      <4>3. /\ [l EXCEPT !.age = a] \in Lines
            /\ [l EXCEPT !.age = a].born + [l EXCEPT !.age = a].age <= now
        BY <4>1, <4>2 DEF Lines
      <4>4. whole \subseteq Lines /\ \A k \in whole : k.born + k.age <= now
        BY <2>2 DEF GoodFile
      <4> QED  BY <1>4, <3>3, <4>3, <4>4 DEF CrashInSave, GoodFile
    <3> QED  BY <3>1, <3>2, <3>3
  <2>4. SavedInFile'
    BY <1>4 DEF CrashInSave, SavedInFile
  <2> QED  BY <1>4, <2>1, <2>3, <2>4, GoodIInvNext DEF CrashInSave
<1>5. CASE \E n \in Networks : Put(n)
  <2>1. GoodCache(cache')
    BY <1>5, PutGood DEF Put
  <2> QED  BY <1>5, <2>1, CacheStep DEF Put
<1>6. CASE \E n \in Networks : Remove(n)
  <2>1. GoodCache(cache')
    BY <1>6, RestrictGood DEF Remove
  <2> QED  BY <1>6, <2>1, CacheStep DEF Remove
<1>7. CASE Clear
  <2>1. GoodCache(cache')
    BY <1>7, EmptyGood DEF Clear
  <2> QED  BY <1>7, <2>1, CacheStep DEF Clear
<1>8. CASE PruneStaleEntries
  <2>1. GoodCache(cache')
    BY <1>8, RestrictGood DEF PruneStaleEntries, FreshNetworks
  <2> QED  BY <1>8, <2>1, CacheStep DEF PruneStaleEntries
<1>9. CASE Save
  <2>1. GoodCache(cache')
    BY <1>9 DEF Save
  <2> QED  BY <1>9, <2>1, SaveStep DEF Save
<1>10. CASE Load
  <2>1. GoodCache(cache')
    BY <1>10, MergeGood DEF Load
  <2> QED  BY <1>10, <2>1, CacheStep DEF Load
<1>11. CASE Tick
  <2>1. now' \in Nat /\ now' = now + 1 /\ UNCHANGED <<running, cache, file, saved>>
    BY <1>11 DEF Tick
  <2>2. GoodCache(cache)'
    <3>1. \A n \in DOMAIN cache : cache[n].stamp \in Int
      BY DEF GoodCache, Entries
    <3> QED  BY <2>1, <3>1 DEF GoodCache
  <2>3. GoodFile(file)'
    <3>1. \A l \in file : l.born + l.age \in Nat
      BY DEF GoodFile, Lines
    <3> QED  BY <2>1, <3>1 DEF GoodFile
  <2>4. SavedInFile'
    BY <2>1 DEF SavedInFile, FreshLines
  <2> QED  BY <2>1, <2>2, <2>3, <2>4, GoodIInvNext
<1>12. CASE UNCHANGED vars
  BY <1>12, CacheStep DEF vars
<1> QED  BY <1>1, <1>2, <1>3, <1>4, <1>5, <1>6, <1>7, <1>8, <1>9, <1>10, <1>11, <1>12
         DEF Next

\* The invariant holds in every reachable state.
THEOREM Invariance == Spec => []IInv
<1>1. Init => IInv
  <2> SUFFICES ASSUME Init PROVE IInv
    OBVIOUS
  <2>1. GoodCache(cache) /\ GoodFile(file) /\ SavedInFile
    BY EmptyGood DEF Init, GoodFile, SavedInFile
  <2>2. now \in Nat /\ running \in BOOLEAN /\ saved \subseteq Networks
    BY DEF Init
  <2> QED  BY <2>1, <2>2, GoodIInv
<1> QED  BY <1>1, NextIInv, PTL DEF Spec

\* Every variable of the store keeps its type.
THEOREM TypeCorrect == Spec => []TypeOK
<1>1. IInv => TypeOK
  BY DEF IInv
<1> QED  BY Invariance, <1>1, PTL

\* No entry or line is taken to be older than it is, through any sequence of
\* saves, loads, crashes and restarts.
THEOREM AgeCorrect == Spec => []NeverBelievedOlder
<1>1. IInv => NeverBelievedOlder
  BY DEF IInv
<1> QED  BY Invariance, <1>1, PTL

\* What put drops is one entry, and none that stays is older.
THEOREM EvictionCorrect == Spec => PutEvictsOldest
<1> DEFINE Step ==
      \A n \in DOMAIN cache \ DOMAIN cache' :
        (\E m \in Networks : Put(m)) =>
          /\ DOMAIN cache \ DOMAIN cache' = {n}
          /\ \A m \in DOMAIN cache' : cache[n].stamp <= cache'[m].stamp
<1>1. IInv /\ [Next]_vars => [Step]_vars
  <2> SUFFICES ASSUME IInv, NEW n \in DOMAIN cache \ DOMAIN cache',
                      NEW m \in Networks, Put(m)
               PROVE  /\ DOMAIN cache \ DOMAIN cache' = {n}
                      /\ \A k \in DOMAIN cache' : cache[n].stamp <= cache'[k].stamp
    OBVIOUS
  <2>1. PICK empty \in BOOLEAN :
          cache' \in Evicted(With(cache, m, [stamp |-> now, born |-> now, empty |-> empty]))
    BY DEF Put
  <2>2. PICK w : w = With(cache, m, [stamp |-> now, born |-> now, empty |-> empty])
    OBVIOUS
  <2>3. /\ DOMAIN w = DOMAIN cache \cup {m}
        /\ \A k \in DOMAIN cache : k # m => w[k] = cache[k]
    BY <2>2 DEF With
  <2>4. cache' # w
    BY <2>3
  <2>5. PICK o \in Oldest(w) : cache' = Restrict(w, DOMAIN w \ {o})
    BY <2>1, <2>2, <2>4 DEF Evicted
  <2>6. DOMAIN cache' = DOMAIN w \ {o}
    BY <2>5 DEF Restrict
  <2>7. n = o
    BY <2>3, <2>6
  <2>8. \A k \in DOMAIN cache' : w[n].stamp <= cache'[k].stamp
    BY <2>5, <2>6, <2>7 DEF Restrict, Oldest
  <2>9. CASE n # m
    BY <2>3, <2>6, <2>7, <2>8, <2>9
  <2>10. CASE n = m
    <3>1. w[n].stamp = now /\ cache[n].stamp <= now
      BY <2>2, <2>3, <2>10 DEF With, IInv, NeverBelievedOlder
    <3>2. now \in Int /\ \A k \in DOMAIN cache : cache[k].stamp \in Int
      BY DEF IInv, TypeOK, Entries
    <3>3. \A k \in DOMAIN cache' : cache'[k] = cache[k] /\ k \in DOMAIN cache
      BY <2>3, <2>5, <2>6, <2>7, <2>10 DEF Restrict
    <3> QED  BY <2>3, <2>6, <2>7, <2>8, <3>1, <3>2, <3>3
  <2> QED  BY <2>9, <2>10
<1> QED  BY Invariance, <1>1, PTL DEF Spec, PutEvictsOldest

\* A network that the last complete save found fresh is found again by the
\* constructor of the next run, unless its name had to be changed.
THEOREM RestartCorrect == Spec => SavedComesBack
<1> DEFINE Step == Start => \A n \in saved : Sanitized[n] = n => n \in FreshNetworks'
<1>1. IInv /\ [Next]_vars => [Step]_vars
  <2> SUFFICES ASSUME IInv, Start, NEW n \in saved, Sanitized[n] = n
               PROVE  n \in FreshNetworks'
    OBVIOUS
  <2>1. n \in {l.id : l \in FreshLines}
    BY GoodIInv DEF SavedInFile
  <2>2. n \in DOMAIN cache' /\ ~cache'[n].empty /\ now - cache'[n].stamp <= MaxAge
    BY <2>1, GoodIInv, EmptyGood, MergeGood DEF Start
  <2>3. now' = now
    BY DEF Start
  <2> QED  BY <2>2, <2>3 DEF FreshNetworks, Fresh
<1> QED  BY Invariance, <1>1, PTL DEF Spec, SavedComesBack

\* Put never takes the cache beyond its limit, and whatever a load has put
\* there beyond it only ever shrinks until the next load.
THEOREM LimitCorrect == Spec => OnlyLoadExceeds
<1> DEFINE Step == \/ Cardinality(DOMAIN cache') <= Capacity
                   \/ Cardinality(DOMAIN cache') <= Cardinality(DOMAIN cache)
                   \/ Load \/ Start
<1>1. IInv /\ [Next]_vars => [Step]_vars
  <2> SUFFICES ASSUME IInv, Next, ~Load, ~Start
               PROVE  \/ Cardinality(DOMAIN cache') <= Capacity
                      \/ Cardinality(DOMAIN cache') <= Cardinality(DOMAIN cache)
    BY DEF vars
  <2>1. IsFiniteSet(DOMAIN cache) /\ Cardinality(DOMAIN cache) \in Nat
    BY StoreConstants, FS_Subset, FS_CardinalityType DEF IInv, TypeOK
  <2>2. CASE \E n \in Networks : Put(n)
    <3>1. PICK m \in Networks, empty \in BOOLEAN :
            cache' \in Evicted(With(cache, m, [stamp |-> now, born |-> now, empty |-> empty]))
      BY <2>2 DEF Put
    <3>2. PICK w : w = With(cache, m, [stamp |-> now, born |-> now, empty |-> empty])
      OBVIOUS
    <3>3. DOMAIN w = DOMAIN cache \cup {m}
      BY <3>2 DEF With
    <3>4. /\ IsFiniteSet(DOMAIN w) /\ Cardinality(DOMAIN w) \in Nat
          /\ Cardinality(DOMAIN w) <= Cardinality(DOMAIN cache) + 1
      <4>1. Cardinality(DOMAIN w) = IF m \in DOMAIN cache THEN Cardinality(DOMAIN cache)
                                    ELSE Cardinality(DOMAIN cache) + 1
        BY <2>1, <3>3, FS_AddElement
      <4>2. IsFiniteSet(DOMAIN w)
        BY <2>1, <3>3, FS_AddElement
      <4> QED  BY <2>1, <4>1, <4>2
    <3>5. CASE Cardinality(DOMAIN w) <= Capacity /\ cache' = w
      BY <3>5
    <3>6. CASE \E n \in Oldest(w) : cache' = Restrict(w, DOMAIN w \ {n})
      <4>1. PICK n \in DOMAIN w : DOMAIN cache' = DOMAIN w \ {n}
        BY <3>6 DEF Oldest, Restrict
      <4>2. Cardinality(DOMAIN cache') = Cardinality(DOMAIN w) - 1
        BY <3>4, <4>1, FS_RemoveElement
      <4> QED  BY <2>1, <3>4, <4>2
    <3> QED  BY <3>1, <3>2, <3>5, <3>6 DEF Evicted
  <2>3. CASE DOMAIN cache' \subseteq DOMAIN cache
    BY <2>1, <2>3, FS_Subset
  <2>4. ASSUME ~\E n \in Networks : Put(n)
        PROVE  DOMAIN cache' \subseteq DOMAIN cache
    BY <2>4 DEF Next, Shutdown, Crash, CrashInSave, Remove, Clear, PruneStaleEntries, Save,
                Tick, NoNetworks, Restrict, FreshNetworks
  <2> QED  BY <2>2, <2>3, <2>4
<1> QED  BY Invariance, <1>1, PTL DEF Spec, OnlyLoadExceeds
=============================================================================
