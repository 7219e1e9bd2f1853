---------------------------- MODULE SumTheorems ----------------------------
(***************************************************************************)
(* Sums over finite sets, as SumFunctionOnSet of the community modules     *)
(* defines them, and listings of finite sets in rising order: what the     *)
(* proofs about bytes (ThroughputAnalyzer) and about weights (RttSamples)  *)
(* need.                                                                   *)
(*                                                                         *)
(* The arguments are by a least counterexample: a finite set for which the *)
(* statement fails has a least subset for which it fails, and removing one *)
(* member of that one gives the contradiction.                             *)
(***************************************************************************)
EXTENDS FiniteSetsExt, FiniteSetTheorems, TLAPS

\* A non-empty collection of finite sets has a member that includes no other.
LEMMA MinimalSet ==
  ASSUME NEW C, C # {}, \A V \in C : IsFiniteSet(V)
  PROVE  \E V \in C : \A W \in C : W \subseteq V => W = V
<1> DEFINE U == UNION C
           R == StrictSubsetOrdering(U)
<1>1. C \subseteq FiniteSubsetsOf(U)
  BY DEF FiniteSubsetsOf
<1>2. IsWellFoundedOn(R, FiniteSubsetsOf(U))
  BY FS_StrictSubsetOrderingWellFounded
<1>3. PICK V \in C : \A W \in C : ~(<<W, V>> \in R)
  <2> HIDE DEF U, R
  <2> QED  BY <1>1, <1>2, WFMin
<1>4. \A W \in C : W \subseteq V => W = V
  BY <1>3 DEF StrictSubsetOrdering
<1> QED  BY <1>4

-----------------------------------------------------------------------------
\* h is the function by which the library defines the sum of g over S.
Sums(g, S, h) ==
  h = [V \in SUBSET S |-> IF V = {} THEN 0
                          ELSE LET x == CHOOSE x \in V : TRUE IN g[x] + h[V \ {x}]]

\* The member that the library's fold takes first.
Chosen(V) == CHOOSE x \in V : TRUE

\* The sum is the value at S of the function that CHOOSE finds.
LEMMA SumDefinition ==
  ASSUME NEW g, NEW S
  PROVE  SumFunctionOnSet(g, S) = (CHOOSE h : Sums(g, S, h))[S]
BY DEF SumFunctionOnSet, FoldFunctionOnSet, MapThenFoldSet, Sums

\* Such a function adds one member at a time.
LEMMA SumsStep ==
  ASSUME NEW g, NEW S, NEW h, Sums(g, S, h), NEW V \in SUBSET S
  PROVE  /\ V = {} => h[V] = 0
         /\ V # {} => Chosen(V) \in V /\ h[V] = g[Chosen(V)] + h[V \ {Chosen(V)}]
BY DEF Sums, Chosen

\* It is determined by its equation, on the subsets of two sets alike.
LEMMA SumsUnique ==
  ASSUME NEW g, NEW S, NEW T, IsFiniteSet(S), T \subseteq S,
         NEW h, NEW k, Sums(g, S, h), Sums(g, T, k)
  PROVE  \A V \in SUBSET T : h[V] = k[V]
<1> DEFINE C == {V \in SUBSET T : h[V] # k[V]}
<1> SUFFICES ASSUME C # {} PROVE FALSE
  OBVIOUS
<1>1. \A V \in C : IsFiniteSet(V)
  BY FS_Subset
<1>2. PICK V \in C : \A W \in C : W \subseteq V => W = V
  <2> HIDE DEF C
  <2> QED  BY <1>1, MinimalSet
<1>3. V # {}
  BY SumsStep
<1> DEFINE c == Chosen(V)
<1>4. c \in V
  BY <1>3, SumsStep
<1>5. h[V \ {c}] = k[V \ {c}]
  BY <1>2, <1>4
<1>6. h[V] = g[c] + h[V \ {c}]
  <2>1. V \in SUBSET S
    OBVIOUS
  <2> QED  BY <1>3, <2>1, SumsStep
<1>7. k[V] = g[c] + k[V \ {c}]
  BY <1>3, SumsStep
<1> QED  BY <1>5, <1>6, <1>7

\* It exists for a finite set: at a least set without one, the functions of
\* the smaller sets make one.
LEMMA SumsExist ==
  ASSUME NEW g, NEW S, IsFiniteSet(S)
  PROVE  \E h : Sums(g, S, h)
<1> DEFINE C == {V \in SUBSET S : ~ \E h : Sums(g, V, h)}
<1> SUFFICES ASSUME C # {} PROVE FALSE
  OBVIOUS
<1>1. \A V \in C : IsFiniteSet(V)
  BY FS_Subset
<1>2. PICK V \in C : \A W \in C : W \subseteq V => W = V
  <2> HIDE DEF C
  <2> QED  BY <1>1, MinimalSet
<1> DEFINE Below(W) == CHOOSE h : Sums(g, W, h)
           val == IF V = {} THEN 0 ELSE g[Chosen(V)] + Below(V \ {Chosen(V)})[V \ {Chosen(V)}]
           h == [W \in SUBSET V |-> IF W = V THEN val ELSE Below(W)[W]]
<1>3. \A W \in SUBSET V : W # V => IsFiniteSet(W) /\ Sums(g, W, Below(W))
  <2> TAKE W \in SUBSET V
  <2> HAVE W # V
  <2>1. \E f : Sums(g, W, f)
    BY <1>2
  <2> QED  BY <2>1, <1>1, FS_Subset
<1>4. ASSUME NEW W \in SUBSET V, W # {}
      PROVE  h[W] = g[Chosen(W)] + h[W \ {Chosen(W)}]
  <2> DEFINE c == Chosen(W)
             X == W \ {c}
  <2>1. c \in W
    BY <1>4 DEF Chosen
  <2>2. X # V /\ X \in SUBSET V /\ X \in SUBSET W /\ h[X] = Below(X)[X]
    BY <2>1
  <2>3. CASE W = V
    BY <2>2, <2>3, <1>4
  <2>4. CASE W # V
    <3>1. h[W] = Below(W)[W] /\ Sums(g, W, Below(W)) /\ IsFiniteSet(W)
      BY <1>3, <2>4
    <3>2. Sums(g, X, Below(X))
      BY <1>3, <2>2
    <3> HIDE DEF Below, h
    <3>3. Below(W)[W] = g[c] + Below(W)[X]
      BY <3>1, <1>4, SumsStep
    <3>4. Below(W)[X] = Below(X)[X]
      <4> HIDE DEF X
      <4> QED  BY <3>1, <3>2, <2>2, SumsUnique
    <3> QED  BY <3>1, <3>3, <3>4, <2>2
  <2> QED  BY <2>3, <2>4
<1>5. h[{}] = 0
  <2>1. CASE V = {}
    BY <2>1
  <2>2. CASE V # {}
    BY <2>2, <1>3, SumsStep
  <2> QED  BY <2>1, <2>2
<1>6. Sums(g, V, h)
  <2>1. h = [W \in SUBSET V |-> h[W]]
    OBVIOUS
  <2> HIDE DEF h
  <2>2. \A W \in SUBSET V : h[W] = IF W = {} THEN 0 ELSE g[Chosen(W)] + h[W \ {Chosen(W)}]
    BY <1>4, <1>5
  <2> QED  BY <2>1, <2>2 DEF Sums, Chosen
<1> QED  BY <1>6, <1>2
-----------------------------------------------------------------------------
\* The sum is that of the chosen member and of the rest.
LEMMA SumChosen ==
  ASSUME NEW g, NEW S, IsFiniteSet(S), S # {}
  PROVE  /\ Chosen(S) \in S
         /\ SumFunctionOnSet(g, S) = g[Chosen(S)] + SumFunctionOnSet(g, S \ {Chosen(S)})
<1> DEFINE Of(V) == CHOOSE h : Sums(g, V, h)
           c == Chosen(S)
           T == S \ {c}
<1>1. IsFiniteSet(T) /\ T \subseteq S
  BY FS_Subset
<1>2. Sums(g, S, Of(S))
  BY SumsExist
<1>3. Sums(g, T, Of(T))
  BY SumsExist, <1>1
<1>4. SumFunctionOnSet(g, S) = Of(S)[S] /\ SumFunctionOnSet(g, T) = Of(T)[T]
  BY SumDefinition
<1> HIDE DEF Of
<1>5. c \in S /\ Of(S)[S] = g[c] + Of(S)[T]
  BY <1>2, SumsStep
<1>6. Of(S)[T] = Of(T)[T]
  <2> HIDE DEF T
  <2> QED  BY <1>1, <1>2, <1>3, SumsUnique
<1> QED  BY <1>4, <1>5, <1>6

\* The empty sum is zero.
LEMMA SumEmpty ==
  ASSUME NEW g
  PROVE  SumFunctionOnSet(g, {}) = 0
<1> DEFINE f == CHOOSE h : Sums(g, {}, h)
<1>1. Sums(g, {}, f)
  BY SumsExist, FS_EmptySet
<1>2. SumFunctionOnSet(g, {}) = f[{}]
  BY SumDefinition
<1> HIDE DEF f
<1> QED  BY <1>1, <1>2, SumsStep

-----------------------------------------------------------------------------
\* Induction on a finite set, with a set C of subsets in place of a predicate.
LEMMA SetInduction ==
  ASSUME NEW S, IsFiniteSet(S), NEW C, {} \in C,
         \A V \in SUBSET S : \A x \in V : V \ {x} \in C => V \in C
  PROVE  S \in C
<1> DEFINE D == {V \in SUBSET S : V \notin C}
<1> SUFFICES ASSUME D # {} PROVE FALSE
  OBVIOUS
<1>1. \A V \in D : IsFiniteSet(V)
  BY FS_Subset
<1>2. PICK V \in D : \A W \in D : W \subseteq V => W = V
  <2> HIDE DEF D
  <2> QED  BY <1>1, MinimalSet
<1>3. PICK x \in V : TRUE
  OBVIOUS
<1>4. V \ {x} \in C
  BY <1>2, <1>3
<1> QED  BY <1>3, <1>4

\* Any member may be taken first, not only the chosen one.
LEMMA SumRemove ==
  ASSUME NEW g, NEW S, IsFiniteSet(S), \A i \in S : g[i] \in Int
  PROVE  /\ SumFunctionOnSet(g, S) \in Int
         /\ \A x \in S : SumFunctionOnSet(g, S) = g[x] + SumFunctionOnSet(g, S \ {x})
<1> DEFINE sum(V) == SumFunctionOnSet(g, V)
           Good(V) == sum(V) \in Int /\ \A x \in V : sum(V) = g[x] + sum(V \ {x})
           C == {V \in SUBSET S : ~ Good(V)}
<1> SUFFICES ASSUME C # {} PROVE FALSE
  OBVIOUS
<1>1. \A V \in C : IsFiniteSet(V)
  BY FS_Subset
<1>2. PICK V \in C : \A W \in C : W \subseteq V => W = V
  <2> HIDE DEF C
  <2> QED  BY <1>1, MinimalSet
<1> DEFINE c == Chosen(V)
<1>3. V # {}
  BY SumEmpty
<1>4. c \in V /\ sum(V) = g[c] + sum(V \ {c})
  BY <1>1, <1>3, SumChosen
<1>5. \A W \in SUBSET V : W # V => Good(W)
  BY <1>2
<1>6. Good(V \ {c})
  BY <1>4, <1>5
<1> HIDE DEF sum
<1>7. sum(V) \in Int
  BY <1>4, <1>6
<1>8. ASSUME NEW x \in V, x # c
      PROVE  sum(V) = g[x] + sum(V \ {x})
  <2>1. Good(V \ {x})
    BY <1>5
  <2>2. sum(V \ {c}) = g[x] + sum((V \ {c}) \ {x})
    BY <1>6, <1>8
  <2>3. sum(V \ {x}) = g[c] + sum((V \ {x}) \ {c})
    BY <2>1, <1>4, <1>8
  <2>4. (V \ {c}) \ {x} = (V \ {x}) \ {c}
    OBVIOUS
  <2>5. sum((V \ {x}) \ {c}) \in Int
    BY <1>5, <1>4
  <2>6. g[x] \in Int /\ g[c] \in Int
    BY <1>4
  <2>7. sum(V) = g[c] + (g[x] + sum((V \ {x}) \ {c}))
    BY <1>4, <2>2, <2>4
  <2> QED  BY <2>3, <2>5, <2>6, <2>7
<1> QED  BY <1>4, <1>7, <1>8

\* One more member adds its value.
LEMMA SumAdd ==
  ASSUME NEW g, NEW S, IsFiniteSet(S), \A i \in S : g[i] \in Int,
         NEW x, x \notin S, g[x] \in Int
  PROVE  SumFunctionOnSet(g, S \cup {x}) = g[x] + SumFunctionOnSet(g, S)
<1>1. IsFiniteSet(S \cup {x})
  BY FS_AddElement
<1>2. (S \cup {x}) \ {x} = S
  OBVIOUS
<1> QED  BY <1>1, <1>2, SumRemove

\* Functions that agree on the set have one sum.
LEMMA SumAgree ==
  ASSUME NEW f, NEW g, NEW S, IsFiniteSet(S),
         \A i \in S : f[i] \in Int /\ g[i] = f[i]
  PROVE  SumFunctionOnSet(g, S) = SumFunctionOnSet(f, S)
<1> DEFINE C == {V \in SUBSET S : SumFunctionOnSet(g, V) = SumFunctionOnSet(f, V)}
<1>1. {} \in C
  BY SumEmpty
<1>2. ASSUME NEW V \in SUBSET S, NEW x \in V, V \ {x} \in C
      PROVE  V \in C
  <2>1. IsFiniteSet(V)
    BY FS_Subset
  <2>2. SumFunctionOnSet(g, V) = g[x] + SumFunctionOnSet(g, V \ {x})
    BY <2>1, SumRemove
  <2>3. SumFunctionOnSet(f, V) = f[x] + SumFunctionOnSet(f, V \ {x})
    BY <2>1, SumRemove
  <2> QED  BY <1>2, <2>2, <2>3
<1>3. S \in C
  <2> HIDE DEF C
  <2> QED  BY <1>1, <1>2, SetInduction
<1> QED  BY <1>3

\* A sum of natural numbers is one.
LEMMA SumNat ==
  ASSUME NEW g, NEW S, IsFiniteSet(S), \A i \in S : g[i] \in Nat
  PROVE  SumFunctionOnSet(g, S) \in Nat
<1> DEFINE C == {V \in SUBSET S : SumFunctionOnSet(g, V) \in Nat}
<1>1. {} \in C
  BY SumEmpty
<1>2. ASSUME NEW V \in SUBSET S, NEW x \in V, V \ {x} \in C
      PROVE  V \in C
  <2>1. IsFiniteSet(V)
    BY FS_Subset
  <2>2. SumFunctionOnSet(g, V) = g[x] + SumFunctionOnSet(g, V \ {x})
    BY <2>1, SumRemove
  <2> QED  BY <1>2, <2>2
<1>3. S \in C
  <2> HIDE DEF C
  <2> QED  BY <1>1, <1>2, SetInduction
<1> QED  BY <1>3

\* The sum over two disjoint sets is the sum of their sums.
LEMMA SumUnion ==
  ASSUME NEW g, NEW S, NEW T, IsFiniteSet(S), IsFiniteSet(T), S \cap T = {},
         \A i \in S \cup T : g[i] \in Int
  PROVE  SumFunctionOnSet(g, S \cup T) = SumFunctionOnSet(g, S) + SumFunctionOnSet(g, T)
<1> DEFINE sum(V) == SumFunctionOnSet(g, V)
           C == {V \in SUBSET S : sum(V \cup T) = sum(V) + sum(T)}
<1>1. {} \in C
  <2>1. sum(T) \in Int
    BY SumRemove
  <2> QED  BY <2>1, SumEmpty
<1>2. ASSUME NEW V \in SUBSET S, NEW x \in V, V \ {x} \in C
      PROVE  V \in C
  <2>1. IsFiniteSet(V) /\ IsFiniteSet(V \cup T) /\ IsFiniteSet(V \ {x})
    BY FS_Subset, FS_Union
  <2>2. (V \cup T) \ {x} = (V \ {x}) \cup T
    OBVIOUS
  <2> HIDE DEF sum
  <2>3. sum(V \cup T) = g[x] + sum((V \ {x}) \cup T)
    BY <2>1, <2>2, SumRemove DEF sum
  <2>4. sum(V) = g[x] + sum(V \ {x})
    BY <2>1, SumRemove DEF sum
  <2>5. sum(V \ {x}) \in Int /\ sum(T) \in Int /\ g[x] \in Int
    BY <2>1, SumRemove DEF sum
  <2> QED  BY <1>2, <2>3, <2>4, <2>5
<1>3. S \in C
  <2> HIDE DEF C
  <2> QED  BY <1>1, <1>2, SetInduction
<1> QED  BY <1>3

\* A part of a set of natural numbers sums up to no more than the set.
LEMMA SumMonotone ==
  ASSUME NEW g, NEW S, IsFiniteSet(S), \A i \in S : g[i] \in Nat, NEW T \in SUBSET S
  PROVE  SumFunctionOnSet(g, T) <= SumFunctionOnSet(g, S)
<1>1. IsFiniteSet(T) /\ IsFiniteSet(S \ T) /\ T \cap (S \ T) = {} /\ T \cup (S \ T) = S
  BY FS_Subset
<1>2. SumFunctionOnSet(g, S) = SumFunctionOnSet(g, T) + SumFunctionOnSet(g, S \ T)
  <2>1. SumFunctionOnSet(g, T \cup (S \ T)) = SumFunctionOnSet(g, T) + SumFunctionOnSet(g, S \ T)
    BY <1>1, SumUnion
  <2> QED  BY <1>1, <2>1
<1>3. SumFunctionOnSet(g, T) \in Nat /\ SumFunctionOnSet(g, S \ T) \in Nat
  BY <1>1, SumNat
<1> QED  BY <1>2, <1>3

\* Members with value zero do not count.
LEMMA SumSupport ==
  ASSUME NEW g, NEW S, IsFiniteSet(S), NEW T \in SUBSET S,
         \A i \in T : g[i] \in Int, \A i \in S \ T : g[i] = 0
  PROVE  SumFunctionOnSet(g, S) = SumFunctionOnSet(g, T)
<1> DEFINE C == {V \in SUBSET (S \ T) : SumFunctionOnSet(g, V) = 0}
<1>1. {} \in C
  BY SumEmpty
<1>2. ASSUME NEW V \in SUBSET (S \ T), NEW x \in V, V \ {x} \in C
      PROVE  V \in C
  <2>1. IsFiniteSet(V)
    BY FS_Subset
  <2>2. SumFunctionOnSet(g, V) = g[x] + SumFunctionOnSet(g, V \ {x})
    BY <2>1, SumRemove
  <2> QED  BY <1>2, <2>2
<1>3. IsFiniteSet(S \ T) /\ IsFiniteSet(T) /\ T \cap (S \ T) = {} /\ T \cup (S \ T) = S
  BY FS_Subset
<1>4. S \ T \in C
  <2> HIDE DEF C
  <2> QED  BY <1>1, <1>2, <1>3, SetInduction
<1>5. SumFunctionOnSet(g, S) = SumFunctionOnSet(g, T) + SumFunctionOnSet(g, S \ T)
  <2>1. SumFunctionOnSet(g, T \cup (S \ T)) = SumFunctionOnSet(g, T) + SumFunctionOnSet(g, S \ T)
    BY <1>3, SumUnion
  <2> QED  BY <1>3, <2>1
<1>6. SumFunctionOnSet(g, T) \in Int
  BY <1>3, SumRemove
<1> QED  BY <1>4, <1>5, <1>6

-----------------------------------------------------------------------------
\* Min finds the least member of a set of natural numbers.
LEMMA LeastNumber ==
  ASSUME NEW S, S \subseteq Nat, S # {}
  PROVE  Min(S) \in S /\ \A n \in S : Min(S) <= n
<1>1. \E x \in S : \A y \in S : ~(<<y, x>> \in OpToRel(<, Nat))
  BY NatLessThanWellFounded, WFMin
<1>2. PICK x \in S : \A y \in S : ~(y < x)
  BY <1>1 DEF OpToRel
<1>3. \E y \in S : \A n \in S : y <= n
  BY <1>2
<1> QED  BY <1>3 DEF Min

\* A function takes a largest value on a finite set.
LEMMA LargestValue ==
  ASSUME NEW S, IsFiniteSet(S), S # {}, NEW v, \A i \in S : v[i] \in Int
  PROVE  \E i \in S : \A j \in S : v[j] <= v[i]
<1> DEFINE Has(V) == \E i \in V : \A j \in V : v[j] <= v[i]
           C == {V \in SUBSET S : V = {} \/ Has(V)}
<1>1. {} \in C
  OBVIOUS
<1>2. ASSUME NEW V \in SUBSET S, NEW x \in V, V \ {x} \in C
      PROVE  V \in C
  <2>1. CASE V \ {x} = {}
    <3>1. \A j \in V : v[j] <= v[x]
      BY <2>1
    <3> QED  BY <3>1
  <2>2. CASE V \ {x} # {}
    <3>1. PICK i \in V \ {x} : \A j \in V \ {x} : v[j] <= v[i]
      BY <1>2, <2>2
    <3>2. CASE v[x] <= v[i]
      <4>1. \A j \in V : v[j] <= v[i]
        BY <3>1, <3>2
      <4> QED  BY <4>1
    <3>3. CASE ~(v[x] <= v[i])
      <4>1. \A j \in V : v[j] <= v[x]
        BY <3>1, <3>3
      <4> QED  BY <4>1
    <3> QED  BY <3>2, <3>3
  <2> QED  BY <2>1, <2>2
<1>3. S \in C
  <2> HIDE DEF C
  <2> QED  BY <1>1, <1>2, SetInduction
<1> QED  BY <1>3

\* The listing p of n members is sorted by the value v.
Rising(p, n, v) == \A j, k \in 1..n : j < k => v[p[j]] <= v[p[k]]

\* A finite set can be listed, each member once, with rising values.
LEMMA SortedEnumeration ==
  ASSUME NEW S, IsFiniteSet(S), NEW v, \A i \in S : v[i] \in Int
  PROVE  \E p \in Bijection(1..Cardinality(S), S) : Rising(p, Cardinality(S), v)
<1> DEFINE Can(V) == \E p \in Bijection(1..Cardinality(V), V) : Rising(p, Cardinality(V), v)
           C == {V \in SUBSET S : ~ Can(V)}
<1> SUFFICES ASSUME C # {} PROVE FALSE
  OBVIOUS
<1>1. \A V \in C : IsFiniteSet(V)
  BY FS_Subset
<1>2. PICK V \in C : \A W \in C : W \subseteq V => W = V
  <2> HIDE DEF C
  <2> QED  BY <1>1, MinimalSet
<1>3. IsFiniteSet(V) /\ Cardinality(V) \in Nat /\ \A i \in V : v[i] \in Int
  BY <1>1, FS_CardinalityType
<1>4. V # {}
  <2> SUFFICES ASSUME V = {} PROVE Can(V)
    OBVIOUS
  <2>1. Cardinality(V) = 0
    BY FS_EmptySet
  <2>2. <<>> \in Bijection(1..0, {})
    BY DEF Bijection, Injection, Surjection, IsInjective
  <2> QED  BY <2>1, <2>2 DEF Rising
<1>5. PICK x \in V : \A i \in V : v[i] <= v[x]
  BY <1>3, <1>4, LargestValue
<1> DEFINE n == Cardinality(V)
           T == V \ {x}
<1>6. Cardinality(T) = n - 1 /\ n - 1 \in Nat
  <2>1. IsFiniteSet(T) /\ Cardinality(T) = n - 1
    BY <1>3, FS_RemoveElement
  <2> QED  BY <2>1, FS_CardinalityType
<1>7. PICK p \in Bijection(1..(n - 1), T) : Rising(p, n - 1, v)
  <2>1. Can(T)
    BY <1>2
  <2> QED  BY <1>6, <2>1
<1>8. /\ p \in [1..(n - 1) -> T]
      /\ \A j, k \in 1..(n - 1) : p[j] = p[k] => j = k
      /\ \A i \in T : \E j \in 1..(n - 1) : p[j] = i
  BY <1>7 DEF Bijection, Injection, Surjection, IsInjective
<1> DEFINE q == [k \in 1..n |-> IF k = n THEN x ELSE p[k]]
<1> HIDE DEF n
<1>9. n \in Nat \ {0} /\ \A k \in 1..n : k # n => k \in 1..(n - 1)
  BY <1>3, <1>6 DEF n
<1>10. /\ q \in [1..n -> V] /\ q[n] = x
       /\ \A k \in 1..(n - 1) : q[k] = p[k] /\ k # n /\ k \in 1..n
  BY <1>8, <1>9
<1> HIDE DEF q
<1>11. \A j, k \in 1..n : q[j] = q[k] => j = k
  BY <1>8, <1>9, <1>10
<1>12. \A i \in V : \E j \in 1..n : q[j] = i
  <2> TAKE i \in V
  <2>1. CASE i = x
    BY <2>1, <1>9, <1>10
  <2>2. CASE i # x
    BY <2>2, <1>8, <1>10
  <2> QED  BY <2>1, <2>2
<1>13. q \in Bijection(1..n, V)
  BY <1>10, <1>11, <1>12 DEF Bijection, Injection, Surjection, IsInjective
<1>14. Rising(q, n, v)
  <2> SUFFICES ASSUME NEW j \in 1..n, NEW k \in 1..n, j < k PROVE v[q[j]] <= v[q[k]]
    BY DEF Rising
  <2>1. CASE k = n
    BY <2>1, <1>5, <1>10
  <2>2. CASE k # n
    <3>1. j \in 1..(n - 1) /\ k \in 1..(n - 1)
      BY <2>2, <1>9
    <3> QED  BY <3>1, <1>7, <1>10 DEF Rising
  <2> QED  BY <2>1, <2>2
<1> QED  BY <1>13, <1>14 DEF n
=============================================================================
