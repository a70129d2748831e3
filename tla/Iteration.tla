------------------------------ MODULE Iteration ------------------------------
(***************************************************************************)
(* Induction over numbers and functions defined by iteration.  The         *)
(* library's induction theorems take an operator as a parameter; here a    *)
(* set of numbers takes its place.                                         *)
(***************************************************************************)
EXTENDS Integers, WellFoundedInduction, TLAPS

(* A set of natural numbers has a least one. *)
LEMMA Least ==
    ASSUME NEW S, S \subseteq Nat, S # {}
    PROVE  \E m \in S : \A y \in S : m <= y
<1>. DEFINE R == OpToRel(<, Nat)
<1>1. IsWellFoundedOn(R, Nat)
  BY NatLessThanWellFounded, Zenon
<1>2. \A x, y \in Nat : y < x => <<y, x>> \in R
  BY DEF OpToRel
<1>. HIDE DEF R
<1>3. PICK m \in S : \A y \in S : ~ (<<y, m>> \in R)
  BY <1>1, WFMin
<1>4. \A y \in S : ~ (y < m)
  BY <1>2, <1>3
<1>. QED BY <1>4

(* Induction up to n, for a set of numbers. *)
LEMMA UpTo ==
    ASSUME NEW n \in Nat, NEW S, 0 \in S, \A k \in 0..(n - 1) : k \in S => k + 1 \in S
    PROVE  0..n \subseteq S
<1>. DEFINE bad == (0..n) \ S
<1>. SUFFICES ASSUME bad # {} PROVE FALSE
  OBVIOUS
<1>1. bad \subseteq Nat
  OBVIOUS
<1>2. PICK m \in bad : \A y \in bad : m <= y
  BY <1>1, Least
<1>3. m \in 0..n /\ m \notin S /\ m - 1 \in 0..(n - 1) /\ (m - 1) + 1 = m
  BY <1>2
<1>4. m - 1 \notin bad
  BY <1>2, <1>3
<1>. QED BY <1>3, <1>4

(* f starts with b, and next gives each value from the one before. *)
Iterates(f, n, b, next) == f[0] = b /\ \A i \in 1..n : f[i] = next[<<i, f[i - 1]>>]

HasIteration(n, X, b, next) == \E f \in [0..n -> X] : Iterates(f, n, b, next)

(* A function may be defined by its first value and by each next one. *)
LEMMA Recursion ==
    ASSUME NEW n \in Nat, NEW X, NEW b \in X, NEW next \in [(1..n) \X X -> X]
    PROVE  HasIteration(n, X, b, next)
<1>. DEFINE S == {k \in 0..n : \E f \in [0..k -> X] :
                     f[0] = b /\ \A i \in 1..k : f[i] = next[<<i, f[i - 1]>>]}
<1>1. 0 \in S
  <2>. DEFINE f == [i \in 0..0 |-> b]
  <2>1. f \in [0..0 -> X] /\ f[0] = b /\ 1..0 = {}
    OBVIOUS
  <2>. HIDE DEF f
  <2>. QED BY <2>1
<1>2. ASSUME NEW k \in 0..(n - 1), k \in S PROVE k + 1 \in S
  <2>1. PICK f \in [0..k -> X] : f[0] = b /\ \A i \in 1..k : f[i] = next[<<i, f[i - 1]>>]
    BY <1>2
  <2>. DEFINE g == [i \in 0..(k + 1) |-> IF i = k + 1 THEN next[<<k + 1, f[k]>>] ELSE f[i]]
  <2>2. k + 1 \in 1..n /\ f[k] \in X /\ k \in Nat
    OBVIOUS
  <2>3. next[<<k + 1, f[k]>>] \in X
    BY <2>2
  <2>4. g \in [0..(k + 1) -> X]
    BY <2>3
  <2>5. g[0] = b
    BY <2>1, <2>2
  <2>6. ASSUME NEW i \in 1..(k + 1) PROVE g[i] = next[<<i, g[i - 1]>>]
    <3>1. CASE i = k + 1
      <4>1. i - 1 = k /\ g[k] = f[k] /\ g[k + 1] = next[<<k + 1, f[k]>>]
        BY <3>1, <2>2
      <4>. HIDE DEF g
      <4>. QED BY <3>1, <4>1
    <3>2. CASE i # k + 1
      <4>1. i \in 1..k /\ g[i] = f[i] /\ g[i - 1] = f[i - 1]
        BY <3>2, <2>2
      <4>. HIDE DEF g
      <4>. QED BY <2>1, <4>1
    <3>. QED BY <3>1, <3>2
  <2>. HIDE DEF g
  <2>. QED BY <2>2, <2>4, <2>5, <2>6
<1>3. n \in S
  <2>. HIDE DEF S
  <2>1. 0..n \subseteq S
    BY <1>1, <1>2, UpTo
  <2>. QED BY <2>1
<1>. QED BY <1>3 DEF HasIteration, Iterates
=============================================================================
