-------------------------- MODULE FiniteSetLemmas --------------------------
(***************************************************************************)
(* Lemmas about the operators on finite sets that the modules are built    *)
(* from: least and greatest members, and sums.                             *)
(***************************************************************************)
EXTENDS Integers, FiniteSets, FiniteSetsExt, FiniteSetTheorems,
        WellFoundedInduction, TLAPS

-----------------------------------------------------------------------------
(* Least and greatest.                                                     *)

(* Induction on finite sets: among some of them one contains no other.     *)
LEMMA MinimalSubset ==
    ASSUME NEW S, IsFiniteSet(S), NEW C, C \subseteq SUBSET S, C # {}
    PROVE  \E T \in C : \A U \in C : U \subseteq T => U = T
<1>1. IsWellFoundedOn(StrictSubsetOrdering(S), SUBSET S)
  BY FS_StrictSubsetOrderingWellFounded, FS_FiniteSubsetsOfFinite
<1>2. PICK T \in C : \A U \in C : ~(<<U, T>> \in StrictSubsetOrdering(S))
  BY <1>1, WFMin
<1>3. ASSUME NEW U \in C, U \subseteq T
      PROVE  U = T
  BY <1>2, <1>3 DEF StrictSubsetOrdering
<1> QED
  BY <1>3

(* A finite, non-empty set of numbers has a maximum.                       *)
LEMMA MaxOfSome ==
    ASSUME NEW S, IsFiniteSet(S), S \subseteq Int, S # {}
    PROVE  Max(S) \in S /\ \A x \in S : x <= Max(S)
<1> DEFINE Above(x) == {y \in S : y > x}
           B == {Above(x) : x \in S}
<1>1. B \subseteq SUBSET S /\ B # {}
  OBVIOUS
<1>2. \E T \in B : \A U \in B : U \subseteq T => U = T
  <2> HIDE DEF Above, B
  <2> QED
    BY ONLY IsFiniteSet(S), <1>1, MinimalSubset
<1>3. PICK x \in S : \A U \in B : U \subseteq Above(x) => U = Above(x)
  BY <1>2
<1>4. ASSUME NEW y \in S, y > x
      PROVE  FALSE
  <2>1. ASSUME NEW z \in S, z > y
        PROVE  z > x
    BY <1>4, <2>1
  <2>2. Above(y) \subseteq Above(x)
    BY <2>1
  <2>3. x \in Int /\ y \in Int /\ Above(y) \in B
    OBVIOUS
  <2>4. y \in Above(x) /\ y \notin Above(y)
    BY <1>4, <2>3
  <2> QED
    BY <1>3, <2>2, <2>3, <2>4
<1>5. \E m \in S : \A y \in S : m >= y
  BY <1>4
<1>6. LET m == CHOOSE m \in S : \A y \in S : m >= y
      IN  m \in S /\ \A y \in S : m >= y
  BY <1>5
<1> QED
  BY <1>6 DEF Max

(* The least of two numbers.                                               *)
LEMMA MinOfTwo ==
    ASSUME NEW a \in Int, NEW b \in Int
    PROVE  Min({a, b}) = IF a > b THEN b ELSE a
<1> DEFINE m == IF a > b THEN b ELSE a
<1>1. m \in {a, b} /\ \A y \in {a, b} : m <= y
  OBVIOUS
<1>2. \A x \in {a, b} : (\A y \in {a, b} : x <= y) => x = m
  OBVIOUS
<1> QED
  BY <1>1, <1>2 DEF Min

-----------------------------------------------------------------------------
(* Sums.  MapThenSumSet is defined by recursion on the subsets of its set; *)
(* what it computes follows from minimal counterexamples.                  *)

(* The table of partial sums that MapThenSumSet computes.                  *)
First(s) == CHOOSE e \in s : TRUE

Sums(T, g) ==
    g = [s \in SUBSET T |->
            IF s = {} THEN 0 ELSE First(s).amount + g[s \ {First(s)}]]

AmountOf(S) == MapThenSumSet(LAMBDA e : e.amount, S)

LEMMA AmountIsSum ==
    ASSUME NEW S
    PROVE  AmountOf(S) = (CHOOSE g : Sums(S, g))[S]
BY DEF AmountOf, MapThenSumSet, MapThenFoldSet, Sums, First

LEMMA FirstIn == ASSUME NEW s, s # {} PROVE First(s) \in s
BY DEF First

LEMMA SumsApply ==
    ASSUME NEW T, NEW g, Sums(T, g), NEW s \in SUBSET T
    PROVE  g[s] = IF s = {} THEN 0 ELSE First(s).amount + g[s \ {First(s)}]
<1> DEFINE body(u) == IF u = {} THEN 0 ELSE First(u).amount + g[u \ {First(u)}]
<1>1. g = [u \in SUBSET T |-> body(u)]
  BY DEF Sums
<1> HIDE DEF body
<1>2. g[s] = body(s)
  BY <1>1
<1> QED
  BY <1>2 DEF body

(* Two tables agree wherever both are defined.                             *)
LEMMA SumsAgree ==
    ASSUME NEW T, IsFiniteSet(T), NEW U, NEW g, NEW h, Sums(T, g), Sums(U, h),
           NEW s \in SUBSET T, s \in SUBSET U
    PROVE  g[s] = h[s]
<1> DEFINE C == {u \in (SUBSET T) \cap (SUBSET U) : g[u] # h[u]}
<1>1. SUFFICES ASSUME C # {} PROVE FALSE
  OBVIOUS
<1>2. C \subseteq SUBSET T
  OBVIOUS
<1>3. PICK u \in C : \A v \in C : v \subseteq u => v = u
  <2> HIDE DEF C
  <2> QED
    BY ONLY IsFiniteSet(T), <1>1, <1>2, MinimalSubset
<1>4. /\ g[u] = IF u = {} THEN 0 ELSE First(u).amount + g[u \ {First(u)}]
      /\ h[u] = IF u = {} THEN 0 ELSE First(u).amount + h[u \ {First(u)}]
  <2>1. u \in SUBSET T /\ u \in SUBSET U
    OBVIOUS
  <2> HIDE DEF C
  <2>2. g[u] = IF u = {} THEN 0 ELSE First(u).amount + g[u \ {First(u)}]
    BY ONLY <2>1, Sums(T, g), SumsApply
  <2>3. h[u] = IF u = {} THEN 0 ELSE First(u).amount + h[u \ {First(u)}]
    BY ONLY <2>1, Sums(U, h), SumsApply
  <2> QED
    BY <2>2, <2>3
<1>5. u # {}
  BY <1>4
<1>6. First(u) \in u
  BY <1>5, FirstIn
<1>7. u \ {First(u)} \notin C
  BY <1>3, <1>6
<1>8. g[u \ {First(u)}] = h[u \ {First(u)}]
  BY <1>7
<1> QED
  BY <1>4, <1>5, <1>8

(* Every finite set has such a table.                                      *)
LEMMA SumsExist ==
    ASSUME NEW S, IsFiniteSet(S)
    PROVE  \E g : Sums(S, g)
<1> DEFINE C == {T \in SUBSET S : ~\E g : Sums(T, g)}
<1>1. SUFFICES ASSUME C # {} PROVE FALSE
  OBVIOUS
<1>2. C \subseteq SUBSET S
  OBVIOUS
<1>3. PICK T \in C : \A U \in C : U \subseteq T => U = T
  <2> HIDE DEF C
  <2> QED
    BY ONLY IsFiniteSet(S), <1>1, <1>2, MinimalSubset
<1>4. IsFiniteSet(T)
  BY FS_Subset
<1> DEFINE Of(U) == CHOOSE g : Sums(U, g)
           body(s) == IF s = {} THEN 0
                      ELSE First(s).amount + Of(s \ {First(s)})[s \ {First(s)}]
           t == [s \in SUBSET T |-> body(s)]
<1>5. ASSUME NEW U, U \subseteq T, U # T
      PROVE  Sums(U, Of(U))
  <2>1. \E g : Sums(U, g)
    BY <1>3, <1>5
  <2> QED
    BY <2>1
<1>6. ASSUME NEW s \in SUBSET T, s # {}
      PROVE  Of(s \ {First(s)})[s \ {First(s)}] = t[s \ {First(s)}]
  <2> DEFINE v == s \ {First(s)}
             w == v \ {First(v)}
  <2>1. First(s) \in s /\ v \subseteq T /\ v # T
    BY <1>6, FirstIn
  <2>2. Sums(v, Of(v))
    BY <1>5, <2>1
  <2>3. Of(v)[v] = IF v = {} THEN 0 ELSE First(v).amount + Of(v)[w]
    <3> HIDE DEF Of, v
    <3>1. v \in SUBSET v
      OBVIOUS
    <3> QED
      BY ONLY <2>2, <3>1, SumsApply
  <2>4. t[v] = IF v = {} THEN 0 ELSE First(v).amount + Of(w)[w]
    BY <2>1
  <2>5. CASE v = {}
    BY <2>3, <2>4, <2>5
  <2>6. CASE v # {}
    <3>1. First(v) \in v
      BY <2>6, FirstIn
    <3>2. w \subseteq T /\ w # T /\ w \subseteq v
      BY <2>1, <3>1
    <3>3. Sums(w, Of(w))
      BY <1>5, <3>2
    <3>4. IsFiniteSet(v)
      BY <1>4, <2>1, FS_Subset
    <3>5. Of(v)[w] = Of(w)[w]
      <4> HIDE DEF v, w, Of
      <4>1. w \in SUBSET v /\ w \in SUBSET w
        BY <3>2
      <4> QED
        BY <2>2, <3>3, <3>4, <4>1, SumsAgree
    <3> QED
      BY <2>3, <2>4, <2>6, <3>5
  <2> QED
    BY <2>5, <2>6
<1>7. Sums(T, t)
  <2>1. ASSUME NEW s \in SUBSET T
        PROVE  body(s) = IF s = {} THEN 0
                         ELSE First(s).amount + t[s \ {First(s)}]
    <3>1. CASE s = {}
      BY <3>1
    <3>2. CASE s # {}
      <4>1. Of(s \ {First(s)})[s \ {First(s)}] = t[s \ {First(s)}]
        BY <1>6, <3>2
      <4> HIDE DEF Of, t
      <4> QED
        BY <3>2, <4>1
    <3> QED
      BY <3>1, <3>2
  <2> DEFINE next(s) == IF s = {} THEN 0
                        ELSE First(s).amount + t[s \ {First(s)}]
  <2>2. t = [s \in SUBSET T |-> body(s)]
    OBVIOUS
  <2>3. \A s \in SUBSET T : body(s) = next(s)
    BY <2>1
  <2> HIDE DEF t, body, next
  <2>4. t = [s \in SUBSET T |-> next(s)]
    BY <2>2, <2>3
  <2> QED
    BY <2>4 DEF next, Sums
<1> HIDE DEF t, Of, body
<1> QED
  BY <1>7

(* AmountOf by its recursion.                                              *)
LEMMA AmountStep ==
    ASSUME NEW S, IsFiniteSet(S)
    PROVE  AmountOf(S) = IF S = {} THEN 0
                         ELSE First(S).amount + AmountOf(S \ {First(S)})
<1> DEFINE g == CHOOSE g : Sums(S, g)
           U == S \ {First(S)}
           h == CHOOSE h : Sums(U, h)
<1>1. Sums(S, g)
  BY SumsExist
<1>2. IsFiniteSet(U)
  BY FS_Subset
<1>3. Sums(U, h)
  BY <1>2, SumsExist
<1>4. AmountOf(S) = g[S] /\ AmountOf(U) = h[U]
  BY AmountIsSum
<1> HIDE DEF g, h, U
<1>5. U \in SUBSET S /\ U \in SUBSET U /\ S \in SUBSET S
  BY DEF U
<1>6. g[U] = h[U]
  BY <1>1, <1>3, <1>5, SumsAgree
<1>7. g[S] = IF S = {} THEN 0 ELSE First(S).amount + g[U]
  BY <1>1, <1>5, SumsApply DEF U
<1> QED
  BY <1>4, <1>6, <1>7 DEF U

(* Taking any element out takes its amount away, whatever the order of the  *)
(* summation.                                                              *)
LEMMA AmountWithout ==
    ASSUME NEW S, IsFiniteSet(S), \A x \in S : x.amount \in Nat
    PROVE  /\ AmountOf(S) \in Nat
           /\ \A e \in S : AmountOf(S) = AmountOf(S \ {e}) + e.amount
<1>1. \A T \in SUBSET S : IsFiniteSet(T)
  BY FS_Subset
<1> DEFINE C == {T \in SUBSET S : AmountOf(T) \notin Nat}
           D == {T \in SUBSET S :
                    \E e \in T : AmountOf(T) # AmountOf(T \ {e}) + e.amount}
<1>2. C = {}
  <2>1. SUFFICES ASSUME C # {} PROVE FALSE
    OBVIOUS
  <2>2. C \subseteq SUBSET S
    OBVIOUS
  <2>3. PICK T \in C : \A U \in C : U \subseteq T => U = T
    <3> HIDE DEF C
    <3> QED
      BY ONLY IsFiniteSet(S), <2>1, <2>2, MinimalSubset
  <2>4. T \in SUBSET S /\ IsFiniteSet(T) /\ AmountOf(T) \notin Nat
    BY <1>1
  <2>5. AmountOf(T) = IF T = {} THEN 0
                      ELSE First(T).amount + AmountOf(T \ {First(T)})
    BY <2>4, AmountStep
  <2>6. T # {}
    BY <2>4, <2>5
  <2>7. First(T) \in T
    BY <2>6, FirstIn
  <2>8. AmountOf(T \ {First(T)}) \in Nat /\ First(T).amount \in Nat
    BY <2>3, <2>4, <2>7
  <2> QED
    BY <2>4, <2>5, <2>6, <2>8
<1>3. \A T \in SUBSET S : AmountOf(T) \in Nat
  BY <1>2
<1>4. D = {}
  <2>1. SUFFICES ASSUME D # {} PROVE FALSE
    OBVIOUS
  <2>2. D \subseteq SUBSET S
    OBVIOUS
  <2>3. PICK T \in D : \A U \in D : U \subseteq T => U = T
    <3> HIDE DEF D
    <3> QED
      BY ONLY IsFiniteSet(S), <2>1, <2>2, MinimalSubset
  <2>4. PICK e \in T : AmountOf(T) # AmountOf(T \ {e}) + e.amount
    OBVIOUS
  <2> DEFINE x == First(T)
             U == T \ {x}
             V == T \ {e}
             W == U \ {e}
  <2>5. T \in SUBSET S /\ IsFiniteSet(T) /\ x \in T
    BY <1>1, <2>4, FirstIn
  <2>6. AmountOf(T) = x.amount + AmountOf(U)
    BY <2>5, AmountStep
  <2>7. /\ U \in SUBSET S /\ V \in SUBSET S /\ W \in SUBSET S
        /\ x.amount \in Nat /\ e.amount \in Nat
    BY <2>5
  <2>8. AmountOf(U) \in Nat /\ AmountOf(V) \in Nat /\ AmountOf(W) \in Nat
    BY <1>3, <2>7
  <2>9. CASE x = e
    <3> HIDE DEF x
    <3> QED
      BY <2>4, <2>6, <2>7, <2>8, <2>9
  <2>10. CASE x # e
    <3>1. U \notin D /\ V \notin D
      BY <2>3, <2>4, <2>5
    <3>2. e \in U /\ x \in V /\ V \ {x} = W
      BY <2>5, <2>10
    <3>3. AmountOf(U) = AmountOf(W) + e.amount
      BY <2>7, <3>1, <3>2
    <3>4. AmountOf(V) = AmountOf(W) + x.amount
      <4> HIDE DEF x, W
      <4>1. AmountOf(V) = AmountOf(V \ {x}) + x.amount
        BY <2>7, <3>1, <3>2
      <4> QED
        BY <3>2, <4>1
    <3> HIDE DEF x, U, V, W
    <3> QED
      BY <2>4, <2>6, <2>7, <2>8, <3>3, <3>4 DEF V
  <2> QED
    BY <2>9, <2>10
<1> QED
  BY <1>3, <1>4
=============================================================================
