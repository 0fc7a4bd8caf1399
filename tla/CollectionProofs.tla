-------------------------- MODULE CollectionProofs --------------------------
(***************************************************************************)
(* What the proofs of the components share: finite sets, sums over them,   *)
(* their sizes, and following a function from place to place.  Induction   *)
(* takes the form of a smallest counterexample, which the well-ordering of *)
(* the naturals yields: the least number of MinProperty, the smallest set  *)
(* of SmallestSet.                                                         *)
(***************************************************************************)
EXTENDS Integers, Sequences, FiniteSetsExt, WellFoundedInduction, TLAPS

\* A nonempty set of naturals has a least element, which Min returns.
LEMMA MinProperty ==
  ASSUME NEW S \in SUBSET Nat, S # {}
  PROVE  Min(S) \in S /\ \A n \in S : Min(S) <= n
<1>1. PICK m \in S : \A n \in S : ~(<<n, m>> \in OpToRel(<, Nat))
  BY NatLessThanWellFounded, WFMin, Zenon
<1>2. \A n \in S : m <= n
  <2> SUFFICES ASSUME NEW n \in S PROVE m <= n
    OBVIOUS
  <2>1. ~(n < m)
    BY ZenonT(60), <1>1 DEF OpToRel
  <2> QED BY <2>1
<1> QED BY ZenonT(60), <1>2 DEF Min

-----------------------------------------------------------------------------
(* Finite sets.                                                            *)

\* The empty set.
LEMMA EmptyIsFinite == IsFiniteSet({})
<1>1. <<>> \in Seq({})
  OBVIOUS
<1> QED BY <1>1, Zenon DEF IsFiniteSet

\* A set with one more element.
LEMMA AddIsFinite ==
  ASSUME NEW S, IsFiniteSet(S), NEW x
  PROVE  IsFiniteSet(S \union {x})
<1>1. PICK q \in Seq(S) : \A s \in S : \E n \in 1..Len(q) : q[n] = s
  BY DEF IsFiniteSet
<1> DEFINE r == Append(q, x)
<1>2. /\ Len(q) \in Nat /\ r \in Seq(S \union {x}) /\ Len(r) = Len(q) + 1
      /\ r[Len(q) + 1] = x /\ \A i \in 1..Len(q) : r[i] = q[i]
  OBVIOUS
<1> HIDE DEF r
<1>3. \A s \in S \union {x} : \E n \in 1..Len(r) : r[n] = s
  BY SMTT(60), <1>1, <1>2
<1> QED BY ZenonT(60), <1>2, <1>3 DEF IsFiniteSet

\* A singleton.
LEMMA SingletonIsFinite ==
  ASSUME NEW x
  PROVE  IsFiniteSet({x})
<1>1. {x} = {} \union {x}
  OBVIOUS
<1> QED BY <1>1, EmptyIsFinite, AddIsFinite

\* A part of a finite set.
LEMMA PartIsFinite ==
  ASSUME NEW S, IsFiniteSet(S), NEW T \in SUBSET S
  PROVE  IsFiniteSet(T)
<1>1. PICK q \in Seq(S) : \A s \in S : \E n \in 1..Len(q) : q[n] = s
  BY DEF IsFiniteSet
<1>2. CASE T = {}
  BY <1>2, EmptyIsFinite
<1>3. CASE T # {}
  <2>1. PICK e \in T : TRUE
    BY <1>3
  <2> DEFINE m == Len(q)
             r == [i \in 1..m |-> IF q[i] \in T THEN q[i] ELSE e]
  <2>2. m \in Nat /\ r \in [1..m -> T]
    OBVIOUS
  <2>3. \A s \in T : \E n \in 1..m : r[n] = s
    BY ZenonT(60), <1>1
  <2> HIDE DEF r, m
  <2>4. r \in Seq(T) /\ Len(r) = m
    BY <2>2
  <2> QED BY SMTT(60), <2>3, <2>4 DEF IsFiniteSet
<1> QED BY <1>2, <1>3

\* The places of a list.
LEMMA IntervalIsFinite ==
  ASSUME NEW n \in Nat
  PROVE  IsFiniteSet(1..n)
<1> DEFINE r == [i \in 1..n |-> i]
<1>1. r \in Seq(1..n) /\ Len(r) = n /\ \A i \in 1..n : r[i] = i
  OBVIOUS
<1> HIDE DEF r
<1> QED BY <1>1 DEF IsFiniteSet

\* The image of a finite set.
LEMMA ImageIsFinite ==
  ASSUME NEW S, IsFiniteSet(S), NEW f
  PROVE  IsFiniteSet({f[x] : x \in S})
<1>1. PICK q \in Seq(S) : \A s \in S : \E n \in 1..Len(q) : q[n] = s
  BY DEF IsFiniteSet
<1> DEFINE m == Len(q)
           I == {f[x] : x \in S}
           r == [i \in 1..m |-> f[q[i]]]
<1>2. m \in Nat /\ r \in [1..m -> I]
  OBVIOUS
<1>3. \A y \in I : \E n \in 1..m : r[n] = y
  BY SMTT(60), <1>1
<1> HIDE DEF r, m, I
<1>4. r \in Seq(I) /\ Len(r) = m
  BY <1>2
<1>5. IsFiniteSet(I)
  BY <1>3, <1>4 DEF IsFiniteSet
<1> QED BY <1>5 DEF I

\* A member of the family F with no other one inside.
HasSmallest(F) == \E T \in F : \A U \in F : U \subseteq T => U = T

\* Induction over a finite set, in the form of a smallest counterexample: every
\* nonempty family of its subsets has a member with no other one inside.
LEMMA SmallestSet ==
  ASSUME NEW S, IsFiniteSet(S), NEW F \in SUBSET (SUBSET S), F # {}
  PROVE  \E T \in F : \A U \in F : U \subseteq T => U = T
<1>1. PICK q \in Seq(S) : \A s \in S : \E n \in 1..Len(q) : q[n] = s
  BY SMTT(60) DEF IsFiniteSet
<1>2. Len(q) \in Nat
  OBVIOUS
<1> DEFINE First(n) == {q[i] : i \in 1..n}
           Bad(n) == \E G \in SUBSET (SUBSET First(n)) : G # {} /\ ~HasSmallest(G)
           B == {n \in 0..Len(q) : Bad(n)}
<1>3. ASSUME B # {} PROVE FALSE
  <2> DEFINE n == Min(B)
  <2>1. n \in B /\ \A m \in B : n <= m
    <3>1. B \in SUBSET Nat
      BY <1>2
    <3> HIDE DEF B
    <3> QED BY <1>3, <3>1, MinProperty
  <2> HIDE DEF n
  <2>2. n \in 0..Len(q) /\ Bad(n)
    BY <2>1
  <2>3. PICK G \in SUBSET (SUBSET First(n)) : G # {} /\ ~HasSmallest(G)
    BY <2>2
  <2>4. CASE n = 0
    <3>1. First(n) = {}
      BY <2>4
    <3> HIDE DEF First
    <3>2. \A T \in G : T = {}
      BY <3>1
    <3>3. PICK T \in G : TRUE
      BY <2>3
    <3>4. \A U \in G : U = T
      BY ZenonT(60), <3>2
    <3> QED BY <2>3, <3>4 DEF HasSmallest
  <2>5. CASE n # 0
    <3>1. n - 1 \in 0..Len(q) /\ ~(n <= n - 1)
      BY <1>2, <2>2, <2>5
    <3>2. ~Bad(n - 1)
      BY ZenonT(60), <2>1, <3>1
    <3>3. First(n) \subseteq First(n - 1) \union {q[n]}
      BY <1>2, <2>2, <2>5
    <3>4. ASSUME NEW H, H \in SUBSET (SUBSET First(n - 1)), H # {}
          PROVE  HasSmallest(H)
      BY <3>2, <3>4
    <3> DEFINE x == q[n]
               H == {T \in G : x \notin T}
               K == {T \ {x} : T \in G}
    <3> HIDE DEF Bad, First
    <3>5. CASE H # {}
      <4>1. H \in SUBSET (SUBSET First(n - 1))
        BY <3>3
      <4>2. HasSmallest(H)
        <5> HIDE DEF H
        <5> QED BY <3>4, <3>5, <4>1
      <4>3. PICK T \in H : \A U \in H : U \subseteq T => U = T
        BY <4>2 DEF HasSmallest
      <4>4. \A U \in G : U \subseteq T => U = T
        BY <4>3
      <4> QED BY <2>3, <4>3, <4>4 DEF HasSmallest
    <3>6. CASE H = {}
      <4>1. K \in SUBSET (SUBSET First(n - 1)) /\ K # {}
        <5> HIDE DEF x
        <5>1. \A T \in G : T \ {x} \subseteq First(n - 1)
          BY <3>3 DEF x
        <5>2. \A V \in K : V \subseteq First(n - 1)
          BY <5>1
        <5>3. K # {}
          BY ZenonT(60), <2>3
        <5> QED BY ZenonT(60), <5>2, <5>3
      <4>2. HasSmallest(K)
        <5> HIDE DEF K
        <5> QED BY <3>4, <4>1
      <4>3. PICK V \in K : \A U \in K : U \subseteq V => U = V
        BY ZenonT(60), <4>2 DEF HasSmallest
      <4>4. PICK T \in G : V = T \ {x}
        BY <4>3
      <4>5. ASSUME NEW U \in G, U \subseteq T PROVE U = T
        <5>1. U \ {x} \in K /\ U \ {x} \subseteq V
          BY <4>4, <4>5
        <5>2. U \ {x} = T \ {x}
          BY ZenonT(60), <4>3, <4>4, <5>1
        <5>3. x \in U /\ x \in T
          BY <3>6
        <5> HIDE DEF x
        <5>4. \A y : y \in U <=> y \in T
          BY <5>2, <5>3
        <5> QED BY <5>4, Zenon
      <4> QED BY <2>3, <4>5 DEF HasSmallest
    <3> QED BY <3>5, <3>6
  <2> QED BY <2>4, <2>5
<1>4. ~Bad(Len(q))
  <2>1. Len(q) \in 0..Len(q)
    BY <1>2
  <2> HIDE DEF Bad
  <2> QED BY <1>3, <2>1
<1>5. F \in SUBSET (SUBSET First(Len(q)))
  BY SMTT(60), <1>1
<1> HIDE DEF First
<1>6. HasSmallest(F)
  BY <1>4, <1>5
<1> QED BY <1>6 DEF HasSmallest

-----------------------------------------------------------------------------
(* Sums over finite sets, by induction on the set.                         *)

\* The element that the folds of the library take out first.
pick(s) == CHOOSE x \in s : TRUE

\* h satisfies the recursion that defines the sum of g over the subsets of S.
IsIter(h, g, S) ==
  h = [s \in SUBSET S |-> IF s = {} THEN 0 ELSE g[pick(s)] + h[s \ {pick(s)}]]

Iter(g, S) == CHOOSE h : IsIter(h, g, S)

\* The library's sum is the value of that recursion.
LEMMA SumIsIter == ASSUME NEW g, NEW S PROVE SumFunctionOnSet(g,S) = Iter(g,S)[S]
  BY Zenon DEF SumFunctionOnSet, FoldFunctionOnSet, MapThenFoldSet, Iter, IsIter, pick

\* The recursion has one solution on the sets where two solutions are defined.
LEMMA IterUnique ==
  ASSUME NEW g, NEW S, NEW T, NEW h, NEW k, IsIter(h, g, S), IsIter(k, g, T),
         NEW s, s \subseteq S, s \subseteq T, IsFiniteSet(s)
  PROVE  h[s] = k[s]
<1> DEFINE F == {t \in SUBSET s : h[t] # k[t]}
<1> SUFFICES ASSUME F # {} PROVE FALSE
  OBVIOUS
<1>1. PICK t \in F : \A u \in F : u \subseteq t => u = t
  <2>1. F \in SUBSET (SUBSET s)
    OBVIOUS
  <2> HIDE DEF F
  <2> QED BY <2>1, SmallestSet
<1>2. t \in SUBSET S /\ t \in SUBSET T /\ t \in SUBSET s
  OBVIOUS
<1>3. h[t] = (IF t = {} THEN 0 ELSE g[pick(t)] + h[t \ {pick(t)}])
  BY ZenonT(60), <1>2 DEF IsIter
<1>4. k[t] = (IF t = {} THEN 0 ELSE g[pick(t)] + k[t \ {pick(t)}])
  BY ZenonT(60), <1>2 DEF IsIter
<1>5. t # {}
  BY <1>3, <1>4
<1>6. pick(t) \in t
  BY <1>5 DEF pick
<1>7. h[t \ {pick(t)}] = k[t \ {pick(t)}]
  BY <1>1, <1>2, <1>6
<1> QED BY <1>3, <1>4, <1>5, <1>7

\* The recursion has a solution, so that the CHOOSE behind the sum finds it.
LEMMA IterExists ==
  ASSUME NEW g, NEW S, IsFiniteSet(S)
  PROVE  IsIter(Iter(g, S), g, S)
<1> DEFINE F == {T \in SUBSET S : ~IsIter(Iter(g, T), g, T)}
<1> SUFFICES ASSUME F # {} PROVE FALSE
  OBVIOUS
<1>1. PICK T \in F : \A U \in F : U \subseteq T => U = T
  <2>1. F \in SUBSET (SUBSET S)
    OBVIOUS
  <2> HIDE DEF F
  <2> QED BY <2>1, SmallestSet
<1>2. ASSUME NEW U, U \subseteq T, U # T PROVE IsIter(Iter(g, U), g, U) /\ IsFiniteSet(U)
  BY <1>1, <1>2, PartIsFinite
<1> DEFINE h == [s \in SUBSET T |-> IF s = T THEN (IF T = {} THEN 0 ELSE g[pick(T)] + Iter(g, T \ {pick(T)})[T \ {pick(T)}])
                                    ELSE Iter(g, s)[s]]
<1>3. ASSUME NEW s \in SUBSET T
      PROVE  h[s] = IF s = {} THEN 0 ELSE g[pick(s)] + h[s \ {pick(s)}]
  <2>1. CASE s = {}
    <3>1. CASE s = T
      BY <2>1, <3>1
    <3>2. CASE s # T
      <4>1. IsIter(Iter(g, s), g, s)
        BY <1>2, <3>2
      <4>2. Iter(g, s)[s] = 0
        <5> DEFINE i == Iter(g, s)
        <5> HIDE DEF i
        <5>1. IsIter(i, g, s)
          BY <4>1 DEF i
        <5>2. i[s] = 0
          BY <5>1, <2>1 DEF IsIter
        <5> QED BY <5>2 DEF i
      <4> QED BY <4>2, <3>2, <2>1
    <3> QED BY <3>1, <3>2
  <2>2. CASE s # {}
    <3>0. pick(s) \in s
      BY <2>2 DEF pick
    <3> DEFINE u == s \ {pick(s)}
    <3>1. u \in SUBSET T /\ u # T /\ u \subseteq s /\ h[u] = Iter(g, u)[u]
      BY <3>0
    <3>2. CASE s = T
      BY <2>2, <3>1, <3>2
    <3>3. CASE s # T
      <4>1. IsIter(Iter(g, s), g, s) /\ IsIter(Iter(g, u), g, u) /\ IsFiniteSet(u)
        BY <1>2, <3>3, <3>1
      <4>2. Iter(g, s)[s] = g[pick(s)] + Iter(g, s)[u]
        <5> DEFINE i == Iter(g, s)
        <5>1. IsIter(i, g, s)
          BY <4>1
        <5> HIDE DEF i
        <5>2. i[s] = g[pick(s)] + i[u]
          BY ZenonT(60), <5>1, <2>2 DEF IsIter
        <5> QED BY <5>2 DEF i
      <4>3. Iter(g, s)[u] = Iter(g, u)[u]
        <5> HIDE DEF u
        <5> QED BY <4>1, <3>1, IterUnique
      <4>4. h[s] = Iter(g, s)[s]
        BY <3>3
      <4> HIDE DEF h
      <4> QED BY <2>2, <4>2, <4>3, <4>4, <3>1
    <3> QED BY <3>2, <3>3
  <2> QED BY <2>1, <2>2
<1>4. h = [s \in SUBSET T |-> h[s]]
  OBVIOUS
<1> HIDE DEF h
<1>5. IsIter(h, g, T)
  BY ZenonT(60), <1>3, <1>4 DEF IsIter
<1>6. IsIter(Iter(g, T), g, T)
  BY <1>5, Zenon DEF Iter
<1> QED BY <1>6

\* The sum takes out the element it picks.
LEMMA SumStep ==
  ASSUME NEW g, NEW S, IsFiniteSet(S), S # {}
  PROVE  /\ pick(S) \in S
         /\ SumFunctionOnSet(g, S) = g[pick(S)] + SumFunctionOnSet(g, S \ {pick(S)})
<1> DEFINE c == pick(S)
           u == S \ {c}
           i == Iter(g, S)
           j == Iter(g, u)
<1>1. c \in S
  BY DEF pick
<1>2. IsFiniteSet(u)
  BY PartIsFinite
<1>3. IsIter(i, g, S) /\ IsIter(j, g, u)
  BY <1>2, IterExists
<1>4. SumFunctionOnSet(g, S) = i[S] /\ SumFunctionOnSet(g, u) = j[u]
  BY SumIsIter
<1> HIDE DEF i, j
<1>5. i[S] = g[c] + i[u]
  BY ZenonT(60), <1>3 DEF IsIter
<1>6. i[u] = j[u]
  <2>1. u \subseteq S /\ u \subseteq u
    OBVIOUS
  <2> HIDE DEF u
  <2> QED BY <1>2, <1>3, <2>1, IterUnique
<1> QED BY <1>1, <1>4, <1>5, <1>6

\* The sum of nothing.
LEMMA SumEmpty ==
  ASSUME NEW g
  PROVE  SumFunctionOnSet(g, {}) = 0
<1> DEFINE i == Iter(g, {})
<1>1. IsIter(i, g, {})
  BY EmptyIsFinite, IterExists
<1>2. SumFunctionOnSet(g, {}) = i[{}]
  BY SumIsIter
<1> HIDE DEF i
<1> QED BY <1>1, <1>2 DEF IsIter

\* A sum stays in a set that addition does not leave.
LEMMA SumIn ==
  ASSUME NEW V, 0 \in V, \A m, n \in V : m + n \in V,
         NEW g, NEW S, IsFiniteSet(S), \A x \in S : g[x] \in V
  PROVE  SumFunctionOnSet(g, S) \in V
<1> DEFINE F == {T \in SUBSET S : SumFunctionOnSet(g, T) \notin V}
<1> SUFFICES ASSUME F # {} PROVE FALSE
  OBVIOUS
<1>1. PICK T \in F : \A U \in F : U \subseteq T => U = T
  <2>1. F \in SUBSET (SUBSET S)
    OBVIOUS
  <2> HIDE DEF F
  <2> QED BY <2>1, SmallestSet
<1>2. T # {}
  BY SumEmpty
<1>3. IsFiniteSet(T)
  BY PartIsFinite
<1>4. pick(T) \in T /\ SumFunctionOnSet(g, T) = g[pick(T)] + SumFunctionOnSet(g, T \ {pick(T)})
  BY <1>2, <1>3, SumStep
<1>5. SumFunctionOnSet(g, T \ {pick(T)}) \in V
  BY <1>1, <1>4
<1> QED BY <1>4, <1>5

\* A sum of integers is one.
LEMMA SumType ==
  ASSUME NEW g, NEW S, IsFiniteSet(S), \A x \in S : g[x] \in Int
  PROVE  SumFunctionOnSet(g, S) \in Int
<1>1. 0 \in Int /\ \A m, n \in Int : m + n \in Int
  OBVIOUS
<1> QED BY <1>1, SumIn

\* Any element can be taken out first.
LEMMA SumTake ==
  ASSUME NEW g, NEW S, IsFiniteSet(S), \A x \in S : g[x] \in Int, NEW e \in S
  PROVE  SumFunctionOnSet(g, S) = g[e] + SumFunctionOnSet(g, S \ {e})
<1> DEFINE sum(T) == SumFunctionOnSet(g, T)
           F == {T \in SUBSET S : \E x \in T : sum(T) # g[x] + sum(T \ {x})}
<1> SUFFICES ASSUME F # {} PROVE FALSE
  BY ZenonT(60)
<1>1. PICK T \in F : \A U \in F : U \subseteq T => U = T
  <2>1. F \in SUBSET (SUBSET S)
    OBVIOUS
  <2> HIDE DEF F
  <2> QED BY <2>1, SmallestSet
<1>2. PICK x \in T : sum(T) # g[x] + sum(T \ {x})
  OBVIOUS
<1>3. \A U \in SUBSET S : IsFiniteSet(U) /\ sum(U) \in Int
  BY PartIsFinite, SumType
<1> DEFINE c == pick(T)
<1>4. c \in T /\ sum(T) = g[c] + sum(T \ {c})
  BY ZenonT(60), <1>3, SumStep
<1> HIDE DEF c, sum
<1>5. x # c
  BY ZenonT(60), <1>2, <1>4
<1>6. sum(T \ {c}) = g[x] + sum((T \ {c}) \ {x})
  BY <1>1, <1>4, <1>5, ZenonT(60)
<1>7. sum(T \ {x}) = g[c] + sum((T \ {x}) \ {c})
  BY ZenonT(60), <1>1, <1>4, <1>5
<1>8. (T \ {c}) \ {x} = (T \ {x}) \ {c}
  OBVIOUS
<1>9. g[x] \in Int /\ g[c] \in Int /\ sum((T \ {x}) \ {c}) \in Int
  BY <1>3, <1>4
<1> HIDE DEF F
<1>10. \A i, j, k \in Int : i + (j + k) = j + (i + k)
  OBVIOUS
<1>11. sum(T) = g[c] + (g[x] + sum((T \ {x}) \ {c}))
  BY <1>4, <1>6, <1>8
<1> QED BY <1>2, <1>7, <1>9, <1>10, <1>11

\* The sum depends on the values summed only.
LEMMA SumSame ==
  ASSUME NEW g, NEW h, NEW S, IsFiniteSet(S), \A x \in S : g[x] = h[x]
  PROVE  SumFunctionOnSet(g, S) = SumFunctionOnSet(h, S)
<1> DEFINE F == {T \in SUBSET S : SumFunctionOnSet(g, T) # SumFunctionOnSet(h, T)}
<1> SUFFICES ASSUME F # {} PROVE FALSE
  OBVIOUS
<1>1. PICK T \in F : \A U \in F : U \subseteq T => U = T
  <2>1. F \in SUBSET (SUBSET S)
    OBVIOUS
  <2> HIDE DEF F
  <2> QED BY <2>1, SmallestSet
<1>2. T # {}
  BY SumEmpty
<1>3. IsFiniteSet(T)
  BY PartIsFinite
<1>4. /\ pick(T) \in T
      /\ SumFunctionOnSet(g, T) = g[pick(T)] + SumFunctionOnSet(g, T \ {pick(T)})
      /\ SumFunctionOnSet(h, T) = h[pick(T)] + SumFunctionOnSet(h, T \ {pick(T)})
  BY <1>2, <1>3, SumStep
<1>5. SumFunctionOnSet(g, T \ {pick(T)}) = SumFunctionOnSet(h, T \ {pick(T)})
  BY <1>1, <1>4
<1> QED BY <1>4, <1>5

\* The sum follows a change of one value.
LEMMA SumUpdate ==
  ASSUME NEW g, NEW h, NEW S, IsFiniteSet(S), NEW e \in S,
         \A x \in S : g[x] \in Int /\ h[x] \in Int,
         \A x \in S \ {e} : h[x] = g[x]
  PROVE  SumFunctionOnSet(h, S) = SumFunctionOnSet(g, S) + (h[e] - g[e])
<1>1. /\ SumFunctionOnSet(g, S) = g[e] + SumFunctionOnSet(g, S \ {e})
      /\ SumFunctionOnSet(h, S) = h[e] + SumFunctionOnSet(h, S \ {e})
  BY SumTake
<1>2. IsFiniteSet(S \ {e})
  BY PartIsFinite
<1>3. SumFunctionOnSet(h, S \ {e}) = SumFunctionOnSet(g, S \ {e})
  BY <1>2, SumSame
<1>4. SumFunctionOnSet(g, S \ {e}) \in Int
  BY <1>2, SumType
<1> QED BY <1>1, <1>3, <1>4

\* The part of x in a sum, whether it is counted or not.
LEMMA SumSplit ==
  ASSUME NEW g, NEW V, IsFiniteSet(V), \A y \in V : g[y] \in Int, NEW x
  PROVE  /\ SumFunctionOnSet(g, V \ {x}) \in Int
         /\ x \in V => SumFunctionOnSet(g, V) = g[x] + SumFunctionOnSet(g, V \ {x})
         /\ x \notin V => SumFunctionOnSet(g, V) = SumFunctionOnSet(g, V \ {x})
<1>1. IsFiniteSet(V \ {x})
  BY PartIsFinite
<1>2. SumFunctionOnSet(g, V \ {x}) \in Int
  BY <1>1, SumType
<1>3. x \notin V => V \ {x} = V
  OBVIOUS
<1> QED BY <1>2, <1>3, SumTake

\* What is left of a sum when a part of the set is taken out.
LEMMA SumMinus ==
  ASSUME NEW g, NEW S, IsFiniteSet(S), \A x \in S : g[x] \in Int, NEW R \in SUBSET S
  PROVE  SumFunctionOnSet(g, S) - SumFunctionOnSet(g, R) = SumFunctionOnSet(g, S \ R)
<1> DEFINE sum(T) == SumFunctionOnSet(g, T)
           F == {T \in SUBSET R : sum(S) - sum(T) # sum(S \ T)}
<1> SUFFICES ASSUME F # {} PROVE FALSE
  BY ZenonT(60)
<1>1. PICK T \in F : \A U \in F : U \subseteq T => U = T
  <2>1. F \in SUBSET (SUBSET R) /\ IsFiniteSet(R)
    BY PartIsFinite
  <2> HIDE DEF F
  <2> QED BY <2>1, SmallestSet
<1>2. \A U \in SUBSET S : IsFiniteSet(U) /\ sum(U) \in Int /\ \A x \in U : g[x] \in Int
  BY PartIsFinite, SumType
<1>3. T \in SUBSET S /\ T \in SUBSET R /\ sum(S) - sum(T) # sum(S \ T)
  OBVIOUS
<1>4. T # {}
  <2>1. S \ {} = S
    OBVIOUS
  <2>2. sum({}) = 0 /\ sum(S) \in Int
    BY <1>2, SumEmpty
  <2> HIDE DEF sum
  <2>3. ASSUME T = {} PROVE FALSE
    <3>1. sum(T) = 0 /\ sum(S \ T) = sum(S)
      BY <2>1, <2>2, <2>3, Zenon
    <3> QED BY <1>3, <2>2, <3>1
  <2> QED BY <2>3
<1>5. PICK e \in T : TRUE
  BY <1>4
<1> DEFINE U == T \ {e}
<1>6. sum(S) - sum(U) = sum(S \ U)
  <2>1. U \in SUBSET R /\ U \subseteq T /\ U # T
    BY <1>3, <1>5
  <2> HIDE DEF U, sum
  <2> QED BY <1>1, <2>1
<1>7. sum(T) = g[e] + sum(U)
  BY <1>2, <1>3, SumTake
<1>8. sum(S \ U) = g[e] + sum(S \ T)
  <2>1. S \ U \in SUBSET S /\ e \in S \ U /\ (S \ U) \ {e} = S \ T
    BY <1>3, <1>5
  <2> HIDE DEF U
  <2> DEFINE V == S \ U
  <2>2. IsFiniteSet(V) /\ \A x \in V : g[x] \in Int
    BY <1>2, <2>1
  <2>3. e \in V /\ V \ {e} = S \ T
    BY <2>1
  <2> HIDE DEF V
  <2>4. sum(V) = g[e] + sum(V \ {e})
    BY <2>2, <2>3, SumTake
  <2> QED BY ZenonT(60), <2>3, <2>4 DEF V
<1>9. g[e] \in Int /\ sum(S) \in Int /\ sum(U) \in Int /\ sum(S \ T) \in Int /\ sum(T) \in Int
  BY <1>2, <1>3
<1> HIDE DEF sum, U, F
<1> QED BY <1>3, <1>6, <1>7, <1>8, <1>9

-----------------------------------------------------------------------------
(* The size of a finite set, which is a sum of ones.                       *)

Ones(S) == [x \in S |-> 1]

\* The recursion that defines Cardinality.
anyOf(s) == CHOOSE x : x \in s

Counts(h, S) == h = [s \in SUBSET S |-> IF s = {} THEN 0 ELSE 1 + h[s \ {anyOf(s)}]]

\* The size is that sum.
LEMMA SizeIsSum ==
  ASSUME NEW S, IsFiniteSet(S), NEW T \in SUBSET S
  PROVE  Cardinality(T) = SumFunctionOnSet(Ones(S), T)
<1> DEFINE c == CHOOSE h : Counts(h, T)
           g == Ones(T)
           i == Iter(g, T)
<1>0. IsFiniteSet(T)
  BY PartIsFinite
<1>1. Cardinality(T) = c[T]
  BY Zenon DEF Cardinality, Counts, anyOf
<1>2. IsIter(i, g, T)
  BY <1>0, IterExists
<1>3. ASSUME NEW s \in SUBSET T, s # {}
      PROVE  g[pick(s)] = 1 /\ pick(s) = anyOf(s)
  BY <1>3 DEF pick, anyOf, Ones
<1>4. ASSUME NEW h PROVE Counts(h, T) <=> IsIter(h, g, T)
  <2>1. \A s \in SUBSET T :
          (IF s = {} THEN 0 ELSE 1 + h[s \ {anyOf(s)}])
            = (IF s = {} THEN 0 ELSE g[pick(s)] + h[s \ {pick(s)}])
    <3> HIDE DEF g
    <3> QED BY <1>3
  <2>2. [s \in SUBSET T |-> IF s = {} THEN 0 ELSE 1 + h[s \ {anyOf(s)}]]
          = [s \in SUBSET T |-> IF s = {} THEN 0 ELSE g[pick(s)] + h[s \ {pick(s)}]]
    BY <2>1, Zenon
  <2> QED BY <2>2, Zenon DEF Counts, IsIter
<1>5. Counts(c, T)
  BY <1>2, <1>4, Zenon
<1>6. c[T] = i[T]
  <2>1. IsIter(c, g, T) /\ T \subseteq T
    BY <1>4, <1>5, Zenon
  <2> HIDE DEF c, g, i
  <2> QED BY <1>0, <1>2, <2>1, IterUnique
<1>7. SumFunctionOnSet(g, T) = i[T]
  BY SumIsIter
<1>8. SumFunctionOnSet(g, T) = SumFunctionOnSet(Ones(S), T)
  <2>1. \A x \in T : g[x] = Ones(S)[x]
    BY DEF Ones
  <2> HIDE DEF g
  <2> QED BY <1>0, <2>1, SumSame
<1> HIDE DEF c, i, g
<1> QED BY <1>1, <1>6, <1>7, <1>8

\* The size is a number, zero for the empty set, and no part of the set is larger.
LEMMA SizeType ==
  ASSUME NEW S, IsFiniteSet(S)
  PROVE  /\ Cardinality(S) \in Nat
         /\ Cardinality(S) = 0 <=> S = {}
         /\ \A T \in SUBSET S : Cardinality(T) \in Nat /\ Cardinality(T) <= Cardinality(S)
<1> DEFINE sum(T) == SumFunctionOnSet(Ones(S), T)
<1>1. \A T \in SUBSET S : IsFiniteSet(T) /\ Cardinality(T) = sum(T)
  BY PartIsFinite, SizeIsSum
<1>2. \A x \in S : Ones(S)[x] = 1
  BY DEF Ones
<1>3. ASSUME NEW T \in SUBSET S PROVE sum(T) \in Nat
  <2>1. 0 \in Nat /\ \A m, n \in Nat : m + n \in Nat
    OBVIOUS
  <2>2. IsFiniteSet(T) /\ \A x \in T : Ones(S)[x] \in Nat
    BY <1>1, <1>2
  <2> QED BY ZenonT(60), <2>1, <2>2, SumIn
<1>4. ASSUME NEW T \in SUBSET S PROVE sum(S) - sum(T) = sum(S \ T)
  BY <1>2, SumMinus
<1>5. S # {} => sum(S) # 0
  <2>1. S # {} => pick(S) \in S /\ sum(S) = Ones(S)[pick(S)] + sum(S \ {pick(S)})
    BY SumStep
  <2>2. sum(S \ {pick(S)}) \in Nat
    BY <1>3
  <2> HIDE DEF sum
  <2> QED BY <1>2, <2>1, <2>2
<1>6. sum({}) = 0
  BY SumEmpty
<1> HIDE DEF sum
<1>7. \A T \in SUBSET S : sum(T) <= sum(S)
  <2> SUFFICES ASSUME NEW T \in SUBSET S PROVE sum(T) <= sum(S)
    OBVIOUS
  <2>1. sum(T) \in Nat /\ sum(S) \in Nat /\ sum(S \ T) \in Nat
    BY <1>3
  <2> QED BY <1>4, <2>1
<1>8. S \in SUBSET S
  OBVIOUS
<1> QED BY <1>1, <1>3, <1>5, <1>6, <1>7, <1>8

\* One element more.
LEMMA SizeAdd ==
  ASSUME NEW S, IsFiniteSet(S), NEW x
  PROVE  /\ IsFiniteSet(S \union {x})
         /\ Cardinality(S \union {x}) = IF x \in S THEN Cardinality(S) ELSE Cardinality(S) + 1
<1> DEFINE R == S \union {x}
<1>1. IsFiniteSet(R)
  BY AddIsFinite
<1>2. x \in S => R = S
  OBVIOUS
<1>3. ASSUME x \notin S PROVE Cardinality(R) = Cardinality(S) + 1
  <2>1. S \in SUBSET R /\ x \in R /\ R \ {x} = S
    BY <1>3
  <2>2. \A y \in R : Ones(R)[y] = 1
    BY DEF Ones
  <2> HIDE DEF R
  <2>3. /\ Cardinality(R) = SumFunctionOnSet(Ones(R), R)
        /\ Cardinality(S) = SumFunctionOnSet(Ones(R), S)
    BY <1>1, <2>1, SizeIsSum
  <2>4. SumFunctionOnSet(Ones(R), R) = Ones(R)[x] + SumFunctionOnSet(Ones(R), R \ {x})
    BY <1>1, <2>1, <2>2, SumTake
  <2>5. Cardinality(S) \in Nat
    BY SizeType
  <2> QED BY <2>1, <2>2, <2>3, <2>4, <2>5
<1> QED BY <1>1, <1>2, <1>3

\* One element less.
LEMMA SizeRemove ==
  ASSUME NEW S, IsFiniteSet(S), NEW x \in S
  PROVE  IsFiniteSet(S \ {x}) /\ Cardinality(S \ {x}) = Cardinality(S) - 1
<1> DEFINE T == S \ {x}
<1>1. IsFiniteSet(T) /\ x \notin T /\ T \union {x} = S
  BY PartIsFinite
<1> HIDE DEF T
<1>2. Cardinality(S) = Cardinality(T) + 1 /\ Cardinality(T) \in Nat
  BY <1>1, SizeAdd, SizeType
<1> QED BY <1>1, <1>2 DEF T

\* One of finitely many numbers is the largest.
LEMMA Largest ==
  ASSUME NEW J, IsFiniteSet(J), J # {}, NEW g, \A i \in J : g[i] \in Nat
  PROVE  \E m \in J : \A i \in J : g[i] <= g[m]
<1> DEFINE F == {T \in SUBSET J : T # {} /\ ~\E m \in T : \A i \in T : g[i] <= g[m]}
<1> SUFFICES ASSUME F # {} PROVE FALSE
  OBVIOUS
<1>1. PICK T \in F : \A U \in F : U \subseteq T => U = T
  <2>1. F \in SUBSET (SUBSET J)
    OBVIOUS
  <2> HIDE DEF F
  <2> QED BY <2>1, SmallestSet
<1>2. PICK e \in T : TRUE
  OBVIOUS
<1>3. CASE T = {e}
  BY <1>3
<1>4. CASE T # {e}
  <2> DEFINE U == T \ {e}
  <2>1. U \in SUBSET J /\ U # {} /\ U \subseteq T /\ U # T
    BY <1>2, <1>4
  <2>2. PICK m \in U : \A i \in U : g[i] <= g[m]
    BY ZenonT(60), <1>1, <2>1
  <2>3. \A i \in T : i = e \/ i \in U
    OBVIOUS
  <2>4. g[e] \in Nat /\ g[m] \in Nat /\ \A i \in U : g[i] \in Nat
    OBVIOUS
  <2>5. CASE g[e] <= g[m]
    BY <2>2, <2>3, <2>5
  <2>6. CASE ~(g[e] <= g[m])
    <3>1. \A i \in T : g[i] <= g[e]
      BY <2>2, <2>3, <2>4, <2>6
    <3> QED BY <3>1
  <2> QED BY <2>5, <2>6
<1> QED BY <1>3, <1>4

-----------------------------------------------------------------------------
(* Following a function f from B to B, as a block follows parent hashes.   *)
(* Climb(B, f, b) is the least set that holds b and is closed under f, so  *)
(* a fact about all of it is proved by exhibiting a closed set.            *)

ClosedUnder(f, S) == \A x \in S : f[x] \in S

Climb(B, f, b) == {a \in B : \A S \in SUBSET B : (b \in S /\ \A x \in S : f[x] \in S) => a \in S}

\* Leastness: a closed set that holds b holds all that is reached from b.
LEMMA ClimbLeast ==
  ASSUME NEW B, NEW f, NEW b, NEW S \in SUBSET B, b \in S, ClosedUnder(f, S)
  PROVE  Climb(B, f, b) \subseteq S
BY DEF Climb, ClosedUnder

\* What is reached from b is in B, starts with b, and is closed.
LEMMA ClimbClosed ==
  ASSUME NEW B, NEW f \in [B -> B], NEW b \in B
  PROVE  /\ Climb(B, f, b) \in SUBSET B
         /\ b \in Climb(B, f, b)
         /\ ClosedUnder(f, Climb(B, f, b))
<1>1. Climb(B, f, b) \in SUBSET B /\ b \in Climb(B, f, b)
  BY DEF Climb
<1>2. ASSUME NEW x \in Climb(B, f, b)
      PROVE  f[x] \in Climb(B, f, b)
  <2>1. x \in B /\ f[x] \in B
    BY <1>1
  <2>2. ASSUME NEW S \in SUBSET B, b \in S, \A y \in S : f[y] \in S
        PROVE  f[x] \in S
    BY <1>2, <2>2 DEF Climb
  <2> QED BY <2>1, <2>2 DEF Climb
<1> QED BY <1>1, <1>2 DEF ClosedUnder

\* What is reached from a place that is reached is reached.
LEMMA ClimbTransitive ==
  ASSUME NEW B, NEW f \in [B -> B], NEW c \in B, NEW b \in Climb(B, f, c)
  PROVE  Climb(B, f, b) \subseteq Climb(B, f, c)
<1>1. b \in B
  BY ClimbClosed
<1> DEFINE S == Climb(B, f, c)
<1>2. S \in SUBSET B /\ b \in S /\ ClosedUnder(f, S)
  BY ClimbClosed
<1> HIDE DEF S
<1>3. Climb(B, f, b) \subseteq S
  BY <1>2, ClimbLeast
<1> QED BY <1>3 DEF S

\* One step at a time.
LEMMA ClimbUnfold ==
  ASSUME NEW B, NEW f \in [B -> B], NEW b \in B
  PROVE  Climb(B, f, b) = {b} \union Climb(B, f, f[b])
<1> DEFINE p == f[b]
           R == Climb(B, f, p)
           S == {b} \union R
<1>1. p \in B
  OBVIOUS
<1>2. R \in SUBSET B /\ p \in R /\ ClosedUnder(f, R)
  <2> HIDE DEF p
  <2> QED BY <1>1, ClimbClosed
<1>3. Climb(B, f, b) \subseteq S
  <2> HIDE DEF R
  <2>1. S \in SUBSET B /\ b \in S /\ ClosedUnder(f, S)
    BY <1>2 DEF ClosedUnder
  <2> HIDE DEF S
  <2> QED BY <2>1, ClimbLeast
<1>4. b \in Climb(B, f, b) /\ p \in Climb(B, f, b)
  BY ClimbClosed DEF ClosedUnder
<1>5. R \subseteq Climb(B, f, b)
  <2> HIDE DEF p
  <2> QED BY <1>4, ClimbTransitive
<1> HIDE DEF R
<1>6. Climb(B, f, b) = S
  BY <1>3, <1>4, <1>5
<1> QED BY <1>6 DEF R

\* What is reached from b forms a line.
LEMMA ClimbLinear ==
  ASSUME NEW B, NEW f \in [B -> B], NEW b \in B, NEW a \in Climb(B, f, b), NEW c \in Climb(B, f, b)
  PROVE  a \in Climb(B, f, c) \/ c \in Climb(B, f, a)
<1> DEFINE R(x) == Climb(B, f, x)
           S == {x \in R(b) : a \in R(x) \/ x \in R(a)}
<1>1. ASSUME NEW x \in B
      PROVE  /\ R(x) \in SUBSET B /\ x \in R(x) /\ ClosedUnder(f, R(x))
             /\ R(x) = {x} \union R(f[x])
  BY ClimbClosed, ClimbUnfold
<1>2. ASSUME NEW T \in SUBSET B, b \in T, ClosedUnder(f, T)
      PROVE  R(b) \subseteq T
  BY <1>2, ClimbLeast
<1> HIDE DEF R
<1>3. a \in R(b) /\ c \in R(b)
  BY DEF R
<1>4. a \in B /\ R(b) \in SUBSET B /\ b \in R(b)
  BY <1>1, <1>3
<1>5. S \in SUBSET B /\ b \in S
  BY <1>3, <1>4
<1>6. ASSUME NEW x \in S
      PROVE  f[x] \in S
  <2>1. x \in B /\ f[x] \in R(b) /\ R(x) = {x} \union R(f[x])
    BY <1>1, <1>4 DEF ClosedUnder
  <2>2. CASE x \in R(a)
    BY <1>1, <1>4, <2>1, <2>2 DEF ClosedUnder
  <2>3. CASE a \in R(x) /\ a # x
    BY <2>1, <2>3
  <2>4. a = x => x \in R(a)
    BY <1>1, <1>4
  <2> QED BY <2>2, <2>3, <2>4
<1>7. c \in S
  <2>1. ClosedUnder(f, S)
    BY <1>6 DEF ClosedUnder
  <2> HIDE DEF S
  <2> QED BY <1>2, <1>3, <1>5, <2>1
<1>8. a \in R(c) \/ c \in R(a)
  BY <1>7
<1> QED BY <1>8 DEF R

=============================================================================
