------------------------------ MODULE LeastNumber ------------------------------
(***************************************************************************)
(* Every set of natural numbers has a least element, and a greatest one if *)
(* it is bounded.  Stated for sets, so that induction over data becomes    *)
(* the remark that the set of counterexamples has no least element.  And a *)
(* function on the natural numbers that recurs to a smaller argument       *)
(* exists.                                                                 *)
(***************************************************************************)
EXTENDS Integers, FiniteSetTheorems, WellFoundedInduction, TLAPS

\* The least n is the smallest of the finite sets 0..n.
LEMMA LeastExists ==
  ASSUME NEW T \in SUBSET Nat, T # {}
  PROVE  \E x \in T : \A y \in T : x <= y
<1> DEFINE F == {0..n : n \in T}
<1>1. F \subseteq FiniteSubsetsOf(Nat) /\ F # {}
  <2>1. ASSUME NEW n \in T PROVE 0..n \in FiniteSubsetsOf(Nat)
    <3>1. n \in Nat /\ 0 \in Int /\ n \in Int
      OBVIOUS
    <3>2. IsFiniteSet(0..n)
      BY <3>1, FS_Interval
    <3>3. 0..n \in SUBSET Nat
      BY <3>1
    <3> QED
      BY <3>2, <3>3 DEF FiniteSubsetsOf
  <2> QED
    BY <2>1
<1>2. PICK S \in F : \A U \in F : ~(<<U, S>> \in StrictSubsetOrdering(Nat))
  <2>1. IsWellFoundedOn(StrictSubsetOrdering(Nat), FiniteSubsetsOf(Nat))
    BY FS_StrictSubsetOrderingWellFounded
  <2> HIDE DEF F
  <2> QED
    BY <1>1, <2>1, WFMin
<1>3. PICK x \in T : S = 0..x
  OBVIOUS
<1>4. ASSUME NEW y \in T, y < x PROVE FALSE
  <2>1. x \in 0..x /\ x \notin 0..y
    BY <1>4
  <2>2. 0..y \subseteq 0..x /\ 0..y \in SUBSET Nat /\ 0..x \in SUBSET Nat
    BY <1>4
  <2>3. <<0..y, S>> \in StrictSubsetOrdering(Nat)
    BY <1>3, <2>1, <2>2 DEF StrictSubsetOrdering
  <2> QED
    BY <1>2, <2>3
<1> QED
  BY <1>4

LEMMA GreatestExists ==
  ASSUME NEW n \in Nat, NEW T \in SUBSET (0..n), T # {}
  PROVE  \E x \in T : \A y \in T : y <= x
<1> DEFINE D == {n - t : t \in T}
<1>1. D \in SUBSET Nat /\ D # {}
  OBVIOUS
<1>2. PICK d \in D : \A e \in D : d <= e
  <2> HIDE DEF D
  <2> QED
    BY <1>1, LeastExists
<1>3. PICK x \in T : d = n - x
  OBVIOUS
<1>4. ASSUME NEW y \in T PROVE y <= x
  <2>1. n - x <= n - y
    BY <1>2, <1>3
  <2> QED
    BY <2>1
<1> QED
  BY <1>4

\* g follows the recursion for the arguments up to m: n in stop has the value
\* base[n], any other n the value that step makes of the one at prev[n].
Follows(g, m, V, stop, base, prev, step) ==
  /\ g \in [0..m -> V]
  /\ \A n \in 0..m : g[n] = IF n \in stop THEN base[n] ELSE step[g[prev[n]]]

\* The same for all arguments.
Recurs(f, stop, base, prev, step) ==
  \A n \in Nat : f[n] = IF n \in stop THEN base[n] ELSE step[f[prev[n]]]

LEMMA RecursionExists ==
  ASSUME NEW V, NEW stop, NEW base \in [Nat -> V],
         NEW prev \in [Nat -> Nat], NEW step \in [V -> V],
         \A n \in Nat \ stop : prev[n] < n
  PROVE  \E f \in [Nat -> V] : Recurs(f, stop, base, prev, step)
<1> DEFINE Good(g, m) == Follows(g, m, V, stop, base, prev, step)
           Bad == {m \in Nat : ~ \E g : Good(g, m)}
<1>1. \A m \in Nat : \E g : Good(g, m)
  <2> SUFFICES ASSUME Bad # {} PROVE FALSE
    OBVIOUS
  <2>1. PICK m \in Bad : \A k \in Bad : m <= k
    <3> HIDE DEF Good
    <3> QED
      BY LeastExists
  <2>2. CASE m = 0
    <3> DEFINE g == [n \in 0..0 |-> base[0]]
    <3>1. 0 \in stop
      OBVIOUS
    <3>2. \A n \in 0..0 : n = 0
      OBVIOUS
    <3>3. Good(g, 0)
      BY <3>1, <3>2 DEF Follows
    <3> QED
      BY <2>2, <3>3
  <2>3. CASE m # 0
    <3>1. m - 1 \in Nat /\ m \in Nat /\ m - 1 \notin Bad
      BY <2>1, <2>3
    <3>2. PICK h : Good(h, m - 1)
      BY <3>1
    <3> DEFINE v == IF m \in stop THEN base[m] ELSE step[h[prev[m]]]
               g == [n \in 0..m |-> IF n < m THEN h[n] ELSE v]
    <3>3. v \in V
      <4>1. m \notin stop => prev[m] \in 0..(m - 1)
        BY <3>1
      <4> QED
        BY <3>1, <3>2, <4>1 DEF Follows
    <3>4. \A n \in 0..(m - 1) : h[n] \in V
      BY <3>2 DEF Follows
    <3> HIDE DEF v
    <3>5. g \in [0..m -> V]
      BY <3>1, <3>3, <3>4
    <3>6. ASSUME NEW n \in 0..m
          PROVE  g[n] = IF n \in stop THEN base[n] ELSE step[g[prev[n]]]
      <4>1. n \notin stop => prev[n] \in 0..m /\ prev[n] < m /\ prev[n] < n
        BY <3>1
      <4>2. n \notin stop => g[prev[n]] = h[prev[n]]
        BY <4>1
      <4>3. CASE n = m
        BY <3>1, <4>2, <4>3 DEF v
      <4>4. CASE n # m
        <5>1. n \in 0..(m - 1) /\ n < m
          BY <3>1, <4>4
        <5>2. h[n] = IF n \in stop THEN base[n] ELSE step[h[prev[n]]]
          BY <3>2, <5>1 DEF Follows
        <5> QED
          BY <4>2, <5>1, <5>2
      <4> QED
        BY <4>3, <4>4
    <3> HIDE DEF g
    <3>7. Good(g, m)
      BY <3>5, <3>6 DEF Follows
    <3> QED
      BY <3>7
  <2> QED
    BY <2>2, <2>3
<1>2. ASSUME NEW m \in Nat, NEW k \in Nat, NEW g, NEW h, Good(g, m), Good(h, k)
      PROVE  \A n \in Nat : n <= m /\ n <= k => g[n] = h[n]
  <2> DEFINE Apart == {n \in Nat : n <= m /\ n <= k /\ g[n] # h[n]}
  <2> SUFFICES ASSUME Apart # {} PROVE FALSE
    OBVIOUS
  <2>1. PICK n \in Apart : \A j \in Apart : n <= j
    BY LeastExists
  <2>2. n \in 0..m /\ n \in 0..k
    OBVIOUS
  <2>3. CASE n \in stop
    BY <1>2, <2>2, <2>3 DEF Follows
  <2>4. CASE n \notin stop
    <3>1. prev[n] \in Nat /\ prev[n] < n
      BY <2>4
    <3>2. g[prev[n]] = h[prev[n]]
      BY <2>1, <3>1
    <3>3. g[n] = step[g[prev[n]]] /\ h[n] = step[h[prev[n]]]
      BY <1>2, <2>2, <2>4 DEF Follows
    <3> QED
      BY <3>2, <3>3
  <2> QED
    BY <2>3, <2>4
<1> DEFINE part(n) == CHOOSE g : Good(g, n)
           f == [n \in Nat |-> part(n)[n]]
<1>3. \A n \in Nat : Good(part(n), n)
  BY <1>1
<1> HIDE DEF part
<1>4. ASSUME NEW n \in Nat
      PROVE  f[n] \in V /\ f[n] = IF n \in stop THEN base[n] ELSE step[f[prev[n]]]
  <2>1. Good(part(n), n) /\ n \in 0..n
    BY <1>3
  <2>2. f[n] \in V /\ f[n] = IF n \in stop THEN base[n] ELSE step[part(n)[prev[n]]]
    BY <2>1 DEF Follows
  <2>3. CASE n \notin stop
    <3>1. prev[n] \in Nat /\ prev[n] <= n
      BY <2>3
    <3>2. Good(part(prev[n]), prev[n])
      BY <1>3, <3>1
    <3>3. part(n)[prev[n]] = part(prev[n])[prev[n]]
      BY <1>2, <2>1, <3>1, <3>2
    <3> QED
      BY <2>2, <3>1, <3>3
  <2> QED
    BY <2>2, <2>3
<1> QED
  <2>1. f \in [Nat -> V]
    BY <1>4
  <2> HIDE DEF f
  <2> QED
    BY <1>4, <2>1 DEF Recurs
================================================================================
