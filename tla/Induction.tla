----------------------------- MODULE Induction -----------------------------
(***************************************************************************)
(* Facts about the natural numbers which the proofs of several components  *)
(* need.                                                                   *)
(***************************************************************************)
EXTENDS Naturals, TLAPS, WellFoundedInduction

-----------------------------------------------------------------------------
(***************************************************************************)
(* Induction, stated for a set in place of a predicate.                    *)
(***************************************************************************)

\* A set that holds 0 and is closed under successor holds every number.
LEMMA SetInduction ==
  ASSUME NEW S, 0 \in S, \A n \in Nat : n \in S => n + 1 \in S
  PROVE  \A n \in Nat : n \in S
<1> DEFINE T == Nat \ S
           R == {xy \in Nat \X Nat : xy[1] < xy[2]}
<1>1. IsWellFoundedOn(R, Nat)
  BY NatLessThanWellFounded DEF OpToRel
<1>2. \A x : x \in T <=> x \in Nat /\ x \notin S
  OBVIOUS
<1>3. \A x, y \in Nat : <<x, y>> \in R <=> x < y
  OBVIOUS
<1>4. SUFFICES ASSUME T # {} PROVE FALSE
  OBVIOUS
<1>5. T \subseteq Nat
  OBVIOUS
<1> HIDE DEF T, R
<1>6. PICK x \in T : \A y \in T : ~(<<y, x>> \in R)
  BY <1>1, <1>4, <1>5, WFMin
<1>7. x \in Nat /\ x # 0 /\ x - 1 \in Nat
  BY <1>2, <1>6
<1>8. x - 1 \in S
  <2>1. <<x - 1, x>> \in R
    BY <1>3, <1>7
  <2> QED
    BY <1>2, <1>6, <1>7, <2>1
<1>9. (x - 1) + 1 \in S
  BY <1>7, <1>8
<1> QED
  BY <1>2, <1>6, <1>7, <1>9

\* A non-empty set of numbers with a bound has a greatest element.
LEMMA GreatestOf ==
  ASSUME NEW S, S \subseteq Nat, S # {}, NEW b \in Nat, \A x \in S : x <= b
  PROVE  \E m \in S : \A n \in S : m >= n
<1> DEFINE B == {k \in Nat : (\E x \in S : x + k >= b) => \E m \in S : \A n \in S : m >= n}
<1>1. 0 \in B
  OBVIOUS
<1>2. ASSUME NEW k \in Nat, k \in B PROVE k + 1 \in B
  <2>1. SUFFICES ASSUME NEW x \in S, x + (k + 1) >= b PROVE \E m \in S : \A n \in S : m >= n
    OBVIOUS
  <2>2. CASE \A n \in S : x >= n
    BY <2>2
  <2>3. CASE \E n \in S : ~(x >= n)
    <3>1. PICK n \in S : ~(x >= n)
      BY <2>3
    <3>2. n \in Nat /\ x \in Nat
      BY <3>1
    <3>3. n + k >= b
      BY <2>1, <3>1, <3>2
    <3> QED
      BY <1>2, <3>3
  <2> QED
    BY <2>2, <2>3
<1> HIDE DEF B
<1>3. \A k \in Nat : k \in B
  BY <1>1, <1>2, SetInduction
<1>4. b \in B
  BY <1>3
<1>5. PICK x \in S : TRUE
  OBVIOUS
<1>6. x \in Nat /\ x + b >= b
  BY <1>5
<1> QED
  BY <1>4, <1>6 DEF B

\* A non-empty set of numbers has a least element.
LEMMA LeastOf ==
  ASSUME NEW S, S \subseteq Nat, S # {}
  PROVE  \E m \in S : \A n \in S : m <= n
<1> DEFINE B == {k \in Nat : (\E x \in S : x <= k) => \E m \in S : \A n \in S : m <= n}
<1>1. 0 \in B
  OBVIOUS
<1>2. ASSUME NEW k \in Nat, k \in B PROVE k + 1 \in B
  <2>1. SUFFICES ASSUME NEW x \in S, x <= k + 1 PROVE \E m \in S : \A n \in S : m <= n
    OBVIOUS
  <2>2. CASE \A n \in S : x <= n
    BY <2>2
  <2>3. CASE \E n \in S : ~(x <= n)
    <3>1. PICK n \in S : ~(x <= n)
      BY <2>3
    <3>2. n \in Nat /\ x \in Nat
      BY <3>1
    <3>3. n <= k
      BY <2>1, <3>1, <3>2
    <3> QED
      BY <1>2, <3>3
  <2> QED
    BY <2>2, <2>3
<1> HIDE DEF B
<1>3. \A k \in Nat : k \in B
  BY <1>1, <1>2, SetInduction
<1>5. PICK x \in S : TRUE
  OBVIOUS
<1>6. x \in Nat /\ x \in B
  BY <1>3, <1>5
<1> QED
  BY <1>5, <1>6 DEF B
-----------------------------------------------------------------------------
(***************************************************************************)
(* Recursion.  The recursive functions of the models are defined by an     *)
(* equation; tlapm asks for a function that solves it.                     *)
(***************************************************************************)

\* Induction up to a bound.
LEMMA FiniteInduction ==
  ASSUME NEW n \in Nat, NEW S, 0 \in S, \A i \in 1..n : i - 1 \in S => i \in S
  PROVE  \A i \in 0..n : i \in S
<1> DEFINE T == {i \in Nat : i <= n => i \in S}
<1>1. 0 \in T
  OBVIOUS
<1>2. ASSUME NEW i \in Nat, i \in T PROVE i + 1 \in T
  <2>1. SUFFICES ASSUME i + 1 <= n PROVE i + 1 \in S
    OBVIOUS
  <2>2. i + 1 \in 1..n /\ (i + 1) - 1 = i /\ i <= n
    BY <2>1
  <2>3. i \in S
    BY <1>2, <2>2
  <2> QED
    BY <2>2, <2>3
<1> HIDE DEF T
<1>3. \A i \in Nat : i \in T
  BY <1>1, <1>2, SetInduction
<1> QED
  BY <1>3 DEF T

(***************************************************************************)
(* A function on D defined from its value at a point of a smaller measure, *)
(* or outright at the points of `last'.                                    *)
(***************************************************************************)
Recursion(D, V, b, mu, last, final, next, step) ==
  /\ b \in Nat
  /\ mu \in [D -> 0..b]
  /\ final \in [D -> V]
  /\ next \in [D -> D]
  /\ step \in [D \X V -> V]
  /\ \A d \in D : d \notin last => mu[next[d]] < mu[d]

Solves(g, D, V, last, final, next, step) ==
  /\ g \in [D -> V]
  /\ \A d \in D : g[d] = IF d \in last THEN final[d] ELSE step[<<d, g[next[d]]>>]

\* Such a function exists.
LEMMA MeasuredRecursion ==
  ASSUME NEW D, NEW V, NEW b, NEW mu, NEW last, NEW final, NEW next, NEW step,
         Recursion(D, V, b, mu, last, final, next, step)
  PROVE  \E g : Solves(g, D, V, last, final, next, step)
<1>0. /\ b \in Nat /\ mu \in [D -> 0..b] /\ final \in [D -> V]
      /\ next \in [D -> D] /\ step \in [D \X V -> V]
      /\ \A d \in D : d \notin last => mu[next[d]] < mu[d]
  BY DEF Recursion
<1> DEFINE Value(g, d) == IF d \in last THEN final[d] ELSE step[<<d, g[next[d]]>>]
           S == {k \in Nat : \E g \in [D -> V] : \A d \in D : mu[d] < k => g[d] = Value(g, d)}
<1>1. \A d \in D : mu[d] \in Nat /\ mu[d] <= b /\ next[d] \in D /\ final[d] \in V
  BY <1>0
<1>2. ASSUME NEW g \in [D -> V], NEW d \in D PROVE Value(g, d) \in V
  <2>1. g[next[d]] \in V
    BY <1>1
  <2>2. <<d, g[next[d]]>> \in D \X V
    BY <2>1
  <2>3. step[<<d, g[next[d]]>>] \in V
    BY <1>0, <2>2
  <2> QED
    BY <1>1, <2>3
<1>3. 0 \in S
  <2>1. \A d \in D : ~(mu[d] < 0)
    BY <1>1
  <2> QED
    BY <1>0, <2>1
<1>4. ASSUME NEW k \in Nat, k \in S PROVE k + 1 \in S
  <2>1. PICK g \in [D -> V] : \A d \in D : mu[d] < k => g[d] = Value(g, d)
    BY <1>4
  <2> DEFINE h == [d \in D |-> IF mu[d] < k THEN g[d] ELSE Value(g, d)]
  <2>2. h \in [D -> V]
    <3>1. \A d \in D : g[d] \in V /\ Value(g, d) \in V
      BY <1>2
    <3> HIDE DEF Value
    <3> QED
      BY <3>1
  <2>3. ASSUME NEW d \in D, mu[d] < k + 1 PROVE h[d] = Value(h, d)
    <3>1. d \notin last => h[next[d]] = g[next[d]]
      <4>1. SUFFICES ASSUME d \notin last PROVE mu[next[d]] < k
        BY <1>1
      <4>2. mu[next[d]] < mu[d] /\ next[d] \in D
        BY <1>0, <1>1, <4>1
      <4>3. mu[next[d]] \in Nat /\ mu[d] \in Nat
        BY <1>1, <4>2
      <4> QED
        BY <2>3, <4>2, <4>3
    <3>2. Value(h, d) = Value(g, d)
      BY <3>1
    <3>3. h[d] = Value(g, d)
      <4> HIDE DEF Value
      <4> QED
        BY <2>1
    <3> QED
      BY <3>2, <3>3
  <2> HIDE DEF h, Value
  <2> QED
    BY <2>2, <2>3
<1> HIDE DEF S, Value
<1>5. \A k \in Nat : k \in S
  BY <1>3, <1>4, SetInduction
<1>6. b + 1 \in S
  BY <1>0, <1>5
<1>7. PICK g \in [D -> V] : \A d \in D : mu[d] < b + 1 => g[d] = Value(g, d)
  BY <1>6 DEF S
<1>8. \A d \in D : mu[d] < b + 1
  BY <1>0, <1>1
<1> QED
  BY <1>7, <1>8 DEF Value, Solves

\* A function on 0..n defined from its value at the number before.
Steps(n, V, base, step) ==
  /\ n \in Nat
  /\ base \in V
  /\ step \in [(1..n) \X V -> V]

Follows(g, n, V, base, step) ==
  /\ g \in [0..n -> V]
  /\ g = [i \in 0..n |-> IF i = 0 THEN base ELSE step[<<i, g[i - 1]>>]]

\* Such a function exists.
LEMMA PrimitiveRecursion ==
  ASSUME NEW n, NEW V, NEW base, NEW step, Steps(n, V, base, step)
  PROVE  \E g : Follows(g, n, V, base, step)
<1> USE DEF Steps
<1> DEFINE D     == 0..n
           mu    == [i \in D |-> i]
           next  == [i \in D |-> IF i = 0 THEN 0 ELSE i - 1]
           final == [i \in D |-> base]
           all   == [x \in D \X V |-> IF x[1] = 0 THEN base ELSE step[x]]
           last  == {0}
<1>1. mu \in [D -> 0..n] /\ next \in [D -> D] /\ final \in [D -> V]
  OBVIOUS
<1>2. all \in [D \X V -> V]
  <2>1. ASSUME NEW x \in D \X V PROVE all[x] \in V
    <3>1. CASE x[1] = 0
      BY <3>1
    <3>2. CASE x[1] # 0
      <4>1. x \in (1..n) \X V
        BY <3>2
      <4>2. step[x] \in V
        BY <4>1
      <4> QED
        BY <3>2, <4>2
    <3> QED
      BY <3>1, <3>2
  <2> QED
    BY <2>1
<1>3. \A d \in D : d \notin last => mu[next[d]] < mu[d]
  OBVIOUS
<1>4. PICK g : Solves(g, D, V, last, final, next, all)
  <2> HIDE DEF D, mu, next, final, all, last
  <2>1. Recursion(D, V, n, mu, last, final, next, all)
    BY <1>1, <1>2, <1>3 DEF Recursion
  <2> QED
    BY <2>1, MeasuredRecursion
<1>0. /\ g \in [D -> V]
      /\ \A d \in D : g[d] = IF d \in {0} THEN final[d] ELSE all[<<d, g[next[d]]>>]
  BY <1>4 DEF Solves
<1>5. ASSUME NEW i \in D PROVE g[i] = IF i = 0 THEN base ELSE step[<<i, g[i - 1]>>]
  <2>1. CASE i = 0
    BY <1>0, <2>1
  <2>2. CASE i # 0
    <3>1. i - 1 \in D /\ next[i] = i - 1
      BY <2>2
    <3>2. g[i - 1] \in V
      BY <1>0, <3>1
    <3>3. all[<<i, g[i - 1]>>] = step[<<i, g[i - 1]>>]
      BY <2>2, <3>2
    <3> HIDE DEF all, next, final
    <3> QED
      BY <1>0, <2>2, <3>1, <3>3
  <2> QED
    BY <2>1, <2>2
<1>6. g = [i \in D |-> g[i]]
  BY <1>0
<1> QED
  BY <1>0, <1>5, <1>6 DEF Follows
=============================================================================
