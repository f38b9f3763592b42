----------------------------- MODULE DataLemmas -----------------------------
(***************************************************************************)
(* Facts about data that need induction: least elements of sets of         *)
(* naturals, induction and recursion over the naturals, induction over the *)
(* subsets of a finite set, and the sums the modules of this project are   *)
(* stated with (SumFunctionOnSet of the community module Functions).       *)
(*                                                                         *)
(* The induction theorems of the library take an operator as a parameter,  *)
(* which the provers cannot instantiate.  Here the property is given as    *)
(* the set of what has it.  "Less than" is well founded on the naturals    *)
(* (NatLessThanWellFounded) and strict inclusion on the subsets of a       *)
(* finite set (FS_StrictSubsetOrderingWellFounded), so a nonempty set of   *)
(* counterexamples would have a minimal member (WFMin).                    *)
(***************************************************************************)
EXTENDS Integers, FiniteSetsExt, FiniteSetTheorems, TLAPS

-----------------------------------------------------------------------------
(* Naturals *)

LEMMA LessIsInRelation == \A m, n \in Nat : m < n => <<m, n>> \in OpToRel(<, Nat)
BY DEF OpToRel

\* The minimum of a nonempty set of naturals is its least element.
LEMMA MinIsLeast ==
    ASSUME NEW S, S \subseteq Nat, S # {}
    PROVE  Min(S) \in S /\ \A n \in S : Min(S) <= n
<1>1. PICK least \in S : \A n \in S : ~(<<n, least>> \in OpToRel(<, Nat))
  BY NatLessThanWellFounded, WFMin
<1>2. \A n \in S : least <= n
  <2> TAKE n \in S
  <2>1. n \in Nat /\ least \in Nat
    OBVIOUS
  <2>2. ~(n < least)
    BY <1>1, <2>1, LessIsInRelation
  <2> QED BY <2>1, <2>2
<1> QED BY <1>2 DEF Min

LEMMA MinIs ==
    ASSUME NEW S, S \subseteq Nat, NEW n \in S, \A m \in S : n <= m
    PROVE  Min(S) = n
<1>1. Min(S) \in S /\ Min(S) <= n
  BY MinIsLeast
<1>2. n <= Min(S) /\ n \in Nat /\ Min(S) \in Nat
  BY <1>1
<1> QED BY <1>1, <1>2

\* Induction over the naturals.
LEMMA InductionOverNat ==
    ASSUME NEW Good, 0 \in Good, \A n \in Nat : n \in Good => n + 1 \in Good
    PROVE  Nat \subseteq Good
<1> DEFINE Bad == {n \in Nat : n \notin Good}
<1>1. SUFFICES ASSUME Bad # {} PROVE FALSE
  OBVIOUS
<1>2. Min(Bad) \in Bad /\ \A n \in Bad : Min(Bad) <= n
  <2> HIDE DEF Bad
  <2>1. Bad \subseteq Nat
    BY DEF Bad
  <2> QED BY <1>1, <2>1, MinIsLeast
<1>3. PICK m \in Nat : m = Min(Bad) /\ m \notin Good
  BY <1>2
<1>4. m - 1 \in Nat /\ m = (m - 1) + 1
  BY <1>3
<1>5. m - 1 \notin Bad
  BY <1>2, <1>3, <1>4
<1> QED BY <1>3, <1>4, <1>5

\* A function that starts with a value and steps from one value to the next
\* exists: the values up to the n-th first, for every n, then all of them.
Iterates(f, n, first, step, D) ==
    /\ f \in [0..n -> D]
    /\ f[0] = first
    /\ \A k \in 1..n : f[k] = step[k][f[k - 1]]

LEMMA IteratesExist ==
    ASSUME NEW D, NEW first \in D, NEW step \in [Nat -> [D -> D]]
    PROVE  \A n \in Nat : \E f : Iterates(f, n, first, step, D)
<1> DEFINE Good == {n \in Nat : \E f : Iterates(f, n, first, step, D)}
<1>1. 0 \in Good
  <2>1. Iterates([k \in 0..0 |-> first], 0, first, step, D)
    BY DEF Iterates
  <2> QED BY <2>1
<1>2. ASSUME NEW n \in Nat, n \in Good PROVE n + 1 \in Good
  <2>1. PICK f : Iterates(f, n, first, step, D)
    BY <1>2
  <2> DEFINE g == [k \in 0..(n + 1) |-> IF k = n + 1 THEN step[k][f[n]] ELSE f[k]]
  <2>2. Iterates(g, n + 1, first, step, D)
    BY <2>1 DEF Iterates
  <2> QED BY <2>2
<1>3. Nat \subseteq Good
  <2> HIDE DEF Good
  <2> QED BY <1>1, <1>2, InductionOverNat
<1> QED BY <1>3

LEMMA IteratesAgree ==
    ASSUME NEW D, NEW first, NEW step, NEW m \in Nat, NEW n \in Nat, m <= n, NEW f, NEW g,
           Iterates(f, m, first, step, D), Iterates(g, n, first, step, D)
    PROVE  \A k \in 0..m : f[k] = g[k]
<1> DEFINE Good == {k \in Nat : k <= m => f[k] = g[k]}
<1>1. 0 \in Good
  BY DEF Iterates
<1>2. ASSUME NEW k \in Nat, k \in Good PROVE k + 1 \in Good
  <2> SUFFICES ASSUME k + 1 <= m PROVE f[k + 1] = g[k + 1]
    OBVIOUS
  <2>1. k + 1 \in 1..m /\ k + 1 \in 1..n /\ (k + 1) - 1 = k /\ f[k] = g[k]
    BY <1>2
  <2> QED BY <2>1 DEF Iterates
<1>3. Nat \subseteq Good
  <2> HIDE DEF Good
  <2> QED BY <1>1, <1>2, InductionOverNat
<1> QED BY <1>3

IteratesOnNat(f, first, step, D) ==
    /\ f \in [Nat -> D]
    /\ f[0] = first
    /\ \A n \in Nat : f[n + 1] = step[n + 1][f[n]]

LEMMA RecursionOverNat ==
    ASSUME NEW D, NEW first \in D, NEW step \in [Nat -> [D -> D]]
    PROVE  \E f : IteratesOnNat(f, first, step, D)
<1> DEFINE P(n) == CHOOSE f : Iterates(f, n, first, step, D)
           g == [n \in Nat |-> P(n)[n]]
<1>1. \A n \in Nat : Iterates(P(n), n, first, step, D)
  BY IteratesExist
<1>2. g[0] = first
  <2>1. Iterates(P(0), 0, first, step, D)
    BY <1>1
  <2> QED BY <2>1 DEF Iterates
<1>3. ASSUME NEW n \in Nat PROVE g[n] \in D /\ g[n + 1] = step[n + 1][g[n]]
  <2>1. Iterates(P(n), n, first, step, D) /\ Iterates(P(n + 1), n + 1, first, step, D)
    BY <1>1
  <2> HIDE DEF P
  <2>2. P(n)[n] = P(n + 1)[n]
    <3>1. n <= n + 1 /\ n \in 0..n /\ n + 1 \in Nat
      OBVIOUS
    <3>2. \A k \in 0..n : P(n)[k] = P(n + 1)[k]
      BY <2>1, <3>1, IteratesAgree
    <3> QED BY <3>1, <3>2
  <2>3. P(n)[n] \in D
    BY <2>1 DEF Iterates
  <2>4. P(n + 1)[n + 1] = step[n + 1][P(n + 1)[n]]
    <3>1. n + 1 \in 1..(n + 1) /\ (n + 1) - 1 = n
      OBVIOUS
    <3> QED BY <2>1, <3>1 DEF Iterates
  <2> QED BY <2>2, <2>3, <2>4
<1>4. g \in [Nat -> D]
  BY <1>3
<1>5. IteratesOnNat(g, first, step, D)
  <2> HIDE DEF g
  <2> QED BY <1>2, <1>3, <1>4 DEF IteratesOnNat
<1> QED BY <1>5

-----------------------------------------------------------------------------
(* Finite sets *)

\* Induction over the subsets of a finite set: a property that a set has when
\* all its strict subsets have it holds of all of them.  The property is given
\* as the set of the subsets that have it.
LEMMA SubsetInduction ==
    ASSUME NEW S, IsFiniteSet(S), NEW Good,
           \A T \in SUBSET S : (\A U \in SUBSET T : U # T => U \in Good) => T \in Good
    PROVE  SUBSET S \subseteq Good
<1> DEFINE Bad == {T \in SUBSET S : T \notin Good}
<1>1. SUFFICES ASSUME Bad # {} PROVE FALSE
  OBVIOUS
<1>2. Bad \subseteq FiniteSubsetsOf(S)
  BY FS_FiniteSubsetsOfFinite
<1>3. PICK T \in Bad : \A U \in Bad : ~(<<U, T>> \in StrictSubsetOrdering(S))
  <2> HIDE DEF Bad
  <2> QED BY <1>1, <1>2, FS_StrictSubsetOrderingWellFounded, WFMin
<1>4. ASSUME NEW U \in SUBSET T, U # T PROVE U \in Good
  BY <1>3, <1>4 DEF StrictSubsetOrdering
<1> QED BY <1>3, <1>4

-----------------------------------------------------------------------------
(* The recursive function behind a sum *)

\* The element a sum takes next.
Pick(s) == CHOOSE x \in s : TRUE

\* g holds the sums of f over the subsets of S.
SumsTo(g, f, S) ==
    g = [s \in SUBSET S |-> IF s = {} THEN 0 ELSE f[Pick(s)] + g[s \ {Pick(s)}]]

LEMMA PickIn == ASSUME NEW s, s # {} PROVE Pick(s) \in s
BY DEF Pick

\* Two such functions agree where both are defined.
LEMMA SumsAgree ==
    ASSUME NEW S, IsFiniteSet(S), NEW A, S \subseteq A, NEW B, S \subseteq B, NEW f, NEW g, NEW h,
           SumsTo(g, f, A), SumsTo(h, f, B)
    PROVE  \A s \in SUBSET S : g[s] = h[s]
<1> DEFINE Good == {s \in SUBSET S : g[s] = h[s]}
<1>1. ASSUME NEW T \in SUBSET S, \A U \in SUBSET T : U # T => U \in Good
      PROVE  T \in Good
  <2>1. CASE T = {}
    BY <2>1 DEF SumsTo
  <2>2. CASE T # {}
    <3> DEFINE x == Pick(T)
    <3>1. x \in T
      BY <2>2, PickIn
    <3>2. T \ {x} \in Good
      BY <1>1, <3>1
    <3>3. g[T] = f[x] + g[T \ {x}] /\ h[T] = f[x] + h[T \ {x}]
      BY <2>2 DEF SumsTo
    <3> QED BY <3>2, <3>3
  <2> QED BY <2>1, <2>2
<1>2. SUBSET S \subseteq Good
  <2> HIDE DEF Good
  <2> QED BY <1>1, SubsetInduction
<1> QED BY <1>2

\* There is one for every finite set.
LEMMA SumsExist ==
    ASSUME NEW S, IsFiniteSet(S), NEW f
    PROVE  \E g : SumsTo(g, f, S)
<1> DEFINE Good == {T \in SUBSET S : \E g : SumsTo(g, f, T)}
<1>1. ASSUME NEW T \in SUBSET S, \A U \in SUBSET T : U # T => U \in Good
      PROVE  T \in Good
  <2> DEFINE G(U) == CHOOSE g : SumsTo(g, f, U)
             rest(s) == s \ {Pick(s)}
             h == [s \in SUBSET T |-> IF s = {} THEN 0 ELSE f[Pick(s)] + G(rest(s))[rest(s)]]
  <2>1. ASSUME NEW U \in SUBSET T, U # T PROVE SumsTo(G(U), f, U)
    BY <1>1, <2>1
  <2>2. ASSUME NEW s \in SUBSET T, s # {}
        PROVE  h[rest(s)] = G(rest(s))[rest(s)]
    <3> DEFINE u == rest(s)
    <3>1. u \in SUBSET T /\ u # T
      BY <2>2, PickIn
    <3>2. SumsTo(G(u), f, u)
      BY <2>1, <3>1
    <3>3. CASE u = {}
      BY <3>1, <3>2, <3>3 DEF SumsTo
    <3>4. CASE u # {}
      <4> DEFINE v == rest(u)
      <4>1. v \in SUBSET u /\ v # T /\ v \in SUBSET T
        BY <3>1, <3>4, PickIn
      <4>2. SumsTo(G(v), f, v)
        BY <2>1, <4>1
      <4>3. IsFiniteSet(v)
        BY <4>1, FS_Subset
      <4>4. G(u)[v] = G(v)[v]
        <5> HIDE DEF G, u, v
        <5> QED BY <3>2, <4>1, <4>2, <4>3, SumsAgree
      <4>5. G(u)[u] = f[Pick(u)] + G(u)[v]
        <5> HIDE DEF G
        <5> QED BY <3>2, <3>4 DEF SumsTo
      <4>6. h[u] = f[Pick(u)] + G(v)[v]
        <5> HIDE DEF G
        <5> QED BY <3>1, <3>4
      <4> QED BY <4>4, <4>5, <4>6
    <3> QED BY <3>3, <3>4
  <2>3. h = [s \in SUBSET T |-> IF s = {} THEN 0 ELSE f[Pick(s)] + h[rest(s)]]
    <3> HIDE DEF G
    <3> QED BY <2>2
  <2>4. SumsTo(h, f, T)
    <3> HIDE DEF h
    <3> QED BY <2>3 DEF SumsTo
  <2> QED BY <2>4
<1>2. SUBSET S \subseteq Good
  <2> HIDE DEF Good
  <2> QED BY <1>1, SubsetInduction
<1> QED BY <1>2

\* SumFunctionOnSet is the value of such a function.
LEMMA SumIsSum ==
    ASSUME NEW S, IsFiniteSet(S), NEW f, NEW g, SumsTo(g, f, S)
    PROVE  SumFunctionOnSet(f, S) = g[S]
<1> DEFINE it == CHOOSE h : h = [s \in SUBSET S |->
                    IF s = {} THEN 0
                    ELSE f[CHOOSE x \in s : TRUE] + h[s \ {CHOOSE x \in s : TRUE}]]
<1>1. SumFunctionOnSet(f, S) = it[S]
  BY DEF SumFunctionOnSet, FoldFunctionOnSet, MapThenFoldSet
<1>2. SumsTo(it, f, S)
  BY DEF SumsTo, Pick
<1>3. it[S] = g[S]
  <2> HIDE DEF it
  <2> QED BY <1>2, SumsAgree
<1> QED BY <1>1, <1>3

-----------------------------------------------------------------------------
(* What the other modules use *)

\* The sum over nothing.
LEMMA SumOfNone == ASSUME NEW f PROVE SumFunctionOnSet(f, {}) = 0
<1>1. IsFiniteSet({})
  BY FS_EmptySet
<1>2. PICK g : SumsTo(g, f, {})
  BY <1>1, SumsExist
<1>3. g[{}] = 0
  BY <1>2 DEF SumsTo
<1> QED BY <1>1, <1>2, <1>3, SumIsSum

\* The sum without the element taken first.
LEMMA SumWithoutFirst ==
    ASSUME NEW S, IsFiniteSet(S), S # {}, NEW f
    PROVE  SumFunctionOnSet(f, S) = f[Pick(S)] + SumFunctionOnSet(f, S \ {Pick(S)})
<1> DEFINE R == S \ {Pick(S)}
<1>1. IsFiniteSet(R)
  BY FS_RemoveElement
<1>2. PICK g : SumsTo(g, f, S)
  BY SumsExist
<1>3. PICK h : SumsTo(h, f, R)
  BY <1>1, SumsExist
<1>4. g[R] = h[R]
  BY <1>1, <1>2, <1>3, SumsAgree
<1>5. g[S] = f[Pick(S)] + g[R]
  BY <1>2 DEF SumsTo
<1> HIDE DEF R
<1> QED BY <1>1, <1>2, <1>3, <1>4, <1>5, SumIsSum DEF R

\* A sum of naturals is a natural.
LEMMA SumType ==
    ASSUME NEW S, IsFiniteSet(S), NEW f, \A x \in S : f[x] \in Nat
    PROVE  SumFunctionOnSet(f, S) \in Nat
<1> DEFINE Good == {T \in SUBSET S : SumFunctionOnSet(f, T) \in Nat}
<1>1. ASSUME NEW T \in SUBSET S, \A U \in SUBSET T : U # T => U \in Good
      PROVE  T \in Good
  <2>1. CASE T = {}
    BY <2>1, SumOfNone
  <2>2. CASE T # {}
    <3> DEFINE x == Pick(T)
    <3>1. x \in T
      BY <2>2, PickIn
    <3>2. SumFunctionOnSet(f, T \ {x}) \in Nat
      BY <1>1, <3>1
    <3>3. SumFunctionOnSet(f, T) = f[x] + SumFunctionOnSet(f, T \ {x})
      BY <2>2, FS_Subset, SumWithoutFirst
    <3> QED BY <3>1, <3>2, <3>3
  <2> QED BY <2>1, <2>2
<1>2. SUBSET S \subseteq Good
  <2> HIDE DEF Good
  <2> QED BY <1>1, SubsetInduction
<1> QED BY <1>2

\* Any element may be taken out first.
LEMMA SumWithout ==
    ASSUME NEW S, IsFiniteSet(S), NEW f, \A x \in S : f[x] \in Nat, NEW e \in S
    PROVE  SumFunctionOnSet(f, S) = f[e] + SumFunctionOnSet(f, S \ {e})
<1> DEFINE Sum(T) == SumFunctionOnSet(f, T)
           Good == {T \in SUBSET S : \A x \in T : Sum(T) = f[x] + Sum(T \ {x})}
<1>1. ASSUME NEW T \in SUBSET S, \A U \in SUBSET T : U # T => U \in Good
      PROVE  T \in Good
  <2>1. SUFFICES ASSUME NEW x \in T PROVE Sum(T) = f[x] + Sum(T \ {x})
    OBVIOUS
  <2> DEFINE y == Pick(T)
  <2>2. y \in T /\ IsFiniteSet(T) /\ IsFiniteSet(T \ {x})
    BY FS_Subset, PickIn
  <2>3. Sum(T) = f[y] + Sum(T \ {y})
    BY <2>2, SumWithoutFirst
  <2>4. CASE x = y
    BY <2>3, <2>4
  <2>5. CASE x # y
    <3> DEFINE R == T \ {x, y}
    <3>1. R = (T \ {y}) \ {x} /\ R = (T \ {x}) \ {y}
      OBVIOUS
    <3>2. T \ {y} \in Good /\ x \in T \ {y}
      BY <1>1, <2>2, <2>5
    <3>3. Sum(T \ {y}) = f[x] + Sum(R)
      BY <3>1, <3>2
    <3>4. T \ {x} \in Good /\ y \in T \ {x}
      BY <1>1, <2>2, <2>5
    <3>5. Sum(T \ {x}) = f[y] + Sum(R)
      BY <3>1, <3>4
    <3>6. f[x] \in Nat /\ f[y] \in Nat /\ Sum(R) \in Nat
      BY <2>2, FS_Subset, SumType
    <3> HIDE DEF Sum, R, y
    <3> QED BY <2>3, <3>3, <3>5, <3>6
  <2> QED BY <2>4, <2>5
<1>2. SUBSET S \subseteq Good
  <2> HIDE DEF Good
  <2> QED BY <1>1, SubsetInduction
<1> QED BY <1>2

\* An element joins the set.
LEMMA SumWith ==
    ASSUME NEW S, IsFiniteSet(S), NEW f, \A x \in S : f[x] \in Nat,
           NEW e, e \notin S, f[e] \in Nat
    PROVE  SumFunctionOnSet(f, S \cup {e}) = f[e] + SumFunctionOnSet(f, S)
<1>1. IsFiniteSet(S \cup {e}) /\ (S \cup {e}) \ {e} = S
  BY FS_AddElement
<1> QED BY <1>1, SumWithout

\* Only the values on the set count.
LEMMA SumOfEqual ==
    ASSUME NEW S, IsFiniteSet(S), NEW f, NEW g, \A x \in S : f[x] = g[x]
    PROVE  SumFunctionOnSet(f, S) = SumFunctionOnSet(g, S)
<1> DEFINE Good == {T \in SUBSET S : SumFunctionOnSet(f, T) = SumFunctionOnSet(g, T)}
<1>1. ASSUME NEW T \in SUBSET S, \A U \in SUBSET T : U # T => U \in Good
      PROVE  T \in Good
  <2>1. CASE T = {}
    BY <2>1, SumOfNone
  <2>2. CASE T # {}
    <3> DEFINE x == Pick(T)
    <3>1. x \in T
      BY <2>2, PickIn
    <3>2. SumFunctionOnSet(f, T \ {x}) = SumFunctionOnSet(g, T \ {x})
      BY <1>1, <3>1
    <3>3. /\ SumFunctionOnSet(f, T) = f[x] + SumFunctionOnSet(f, T \ {x})
          /\ SumFunctionOnSet(g, T) = g[x] + SumFunctionOnSet(g, T \ {x})
      BY <2>2, FS_Subset, SumWithoutFirst
    <3> QED BY <3>1, <3>2, <3>3
  <2> QED BY <2>1, <2>2
<1>2. SUBSET S \subseteq Good
  <2> HIDE DEF Good
  <2> QED BY <1>1, SubsetInduction
<1> QED BY <1>2

\* A part of the set has no larger sum.
LEMMA SumOfSubset ==
    ASSUME NEW S, IsFiniteSet(S), NEW f, \A x \in S : f[x] \in Nat, NEW R \in SUBSET S
    PROVE  SumFunctionOnSet(f, R) <= SumFunctionOnSet(f, S)
<1> DEFINE Sum(T) == SumFunctionOnSet(f, T)
           Good == {T \in SUBSET S : \A U \in SUBSET T : Sum(U) <= Sum(T)}
<1>1. \A T \in SUBSET S : IsFiniteSet(T) /\ Sum(T) \in Nat
  BY FS_Subset, SumType
<1>2. ASSUME NEW T \in SUBSET S, \A U \in SUBSET T : U # T => U \in Good
      PROVE  T \in Good
  <2>1. SUFFICES ASSUME NEW U \in SUBSET T, U # T PROVE Sum(U) <= Sum(T)
    BY <1>1
  <2>2. PICK x \in T : x \notin U
    BY <2>1
  <2>3. Sum(T) = f[x] + Sum(T \ {x})
    BY <1>1, SumWithout
  <2>4. U \in SUBSET (T \ {x}) /\ T \ {x} \in Good
    BY <1>2, <2>2
  <2>5. Sum(U) <= Sum(T \ {x})
    BY <2>4
  <2>6. f[x] \in Nat /\ Sum(T) \in Nat /\ Sum(U) \in Nat /\ Sum(T \ {x}) \in Nat
    BY <1>1, <2>1
  <2> HIDE DEF Sum
  <2> QED BY <2>3, <2>5, <2>6
<1>3. SUBSET S \subseteq Good
  <2> HIDE DEF Good
  <2> QED BY <1>2, SubsetInduction
<1> QED BY <1>3
=============================================================================
