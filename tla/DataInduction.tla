--------------------------- MODULE DataInduction ---------------------------
(***************************************************************************)
(* Facts about numbers and iterations that the proofs of several           *)
(* components need.  The induction theorems of the library take an         *)
(* operator; these are stated for sets and functions, so that they can be  *)
(* cited for a given set or function.                                      *)
(***************************************************************************)
EXTENDS Integers, Sequences, FiniteSetsExt, TLAPS, WellFoundedInduction

\* The natural numbers are well ordered.
LEMMA LeastNat ==
    ASSUME NEW T, T \subseteq Nat, T # {}
    PROVE  \E x \in T : \A y \in T : x <= y
  <1> DEFINE R == {p \in Nat \X Nat : p[1] < p[2]}
  <1>1. R = OpToRel(<, Nat)
    BY DEF OpToRel
  <1>2. IsWellFoundedOn(R, Nat)
    BY <1>1, NatLessThanWellFounded
  <1>3. PICK x \in T : \A y \in T : ~(<<y, x>> \in R)
    <2> HIDE DEF R
    <2> QED BY <1>2, WFMin
  <1>4. \A y \in T : ~(y < x)
    BY <1>3
  <1> QED
    BY <1>4

\* The Min of FiniteSetsExt is the least element.
LEMMA MinIsLeast ==
    ASSUME NEW T, T \subseteq Nat, T # {}
    PROVE  Min(T) \in T /\ \A y \in T : Min(T) <= y
  BY LeastNat DEF Min

\* A bounded set of numbers has a greatest element, and Max is it.
LEMMA MaxIsGreatest ==
    ASSUME NEW n \in Nat, NEW T, T \subseteq 0..n, T # {}
    PROVE  Max(T) \in T /\ \A y \in T : Max(T) >= y
  <1> DEFINE U == {n - y : y \in T}
  <1>1. U \subseteq Nat /\ U # {}
    <2>1. PICK t : t \in T
      OBVIOUS
    <2>2. n - t \in U
      BY <2>1
    <2>3. \A y \in T : n - y \in Nat
      OBVIOUS
    <2> QED BY <2>2, <2>3
  <1>2. PICK u \in U : \A v \in U : u <= v
    <2> HIDE DEF U
    <2> QED BY <1>1, LeastNat
  <1>3. PICK x \in T : u = n - x
    OBVIOUS
  <1>4. \A y \in T : x >= y
    <2> TAKE y \in T
    <2>1. u <= n - y
      BY <1>2
    <2> QED BY <1>3, <2>1
  <1> QED
    BY <1>4 DEF Max

\* Induction up to n: a set that holds 0 and each successor holds 0..n.
LEMMA UpTo ==
    ASSUME NEW n \in Nat, NEW U, 0 \in U,
           \A k \in 1..n : k - 1 \in U => k \in U
    PROVE  0..n \subseteq U
  <1> DEFINE T == {k \in 0..n : k \notin U}
  <1>1. SUFFICES ASSUME T # {} PROVE FALSE
    OBVIOUS
  <1>2. PICK k \in T : \A j \in T : k <= j
    <2>1. T \subseteq Nat
      OBVIOUS
    <2> HIDE DEF T
    <2> QED BY <1>1, <2>1, LeastNat
  <1>3. k \in 1..n /\ k - 1 \in U
    BY <1>2
  <1> QED
    BY <1>2, <1>3

\* A function whose first value is in S, and whose values stay there.
LEMMA StaysIn ==
    ASSUME NEW n \in Nat, NEW f, NEW S, f[0] \in S,
           \A k \in 1..n : f[k - 1] \in S => f[k] \in S
    PROVE  \A k \in 0..n : f[k] \in S
  <1> DEFINE U == {k \in 0..n : f[k] \in S}
  <1>1. 0 \in U
    OBVIOUS
  <1>2. \A k \in 1..n : k - 1 \in U => k \in U
    OBVIOUS
  <1>3. 0..n \subseteq U
    <2> HIDE DEF U
    <2> QED BY <1>1, <1>2, UpTo
  <1> QED BY <1>3

\* A function can be iterated: for any start b and step F there is a g whose
\* value at 0 is b and whose value at k is F of the value before and k.
LEMMA Iterates ==
    ASSUME NEW S, NEW b \in S, NEW n \in Nat, NEW F \in [S \X (1..n) -> S]
    PROVE  \E g \in [0..n -> S] :
              g[0] = b /\ \A k \in 1..n : g[k] = F[<<g[k - 1], k>>]
  <1> DEFINE Good(g, m) == g[0] = b /\ \A k \in 1..m : g[k] = F[<<g[k - 1], k>>]
             U == {m \in 0..n : \E g \in [0..m -> S] : Good(g, m)}
  <1>1. 0 \in U
    <2> DEFINE h == [k \in 0..0 |-> b]
    <2>1. h \in [0..0 -> S]
      OBVIOUS
    <2>2. Good(h, 0)
      OBVIOUS
    <2> HIDE DEF h
    <2> QED BY <2>1, <2>2
  <1>2. ASSUME NEW m \in 1..n, m - 1 \in U PROVE m \in U
    <2>1. PICK g \in [0..(m - 1) -> S] : Good(g, m - 1)
      BY <1>2
    <2>2. m - 1 \in 0..(m - 1)
      OBVIOUS
    <2>3. g[m - 1] \in S /\ <<g[m - 1], m>> \in S \X (1..n)
      BY <2>2
    <2>4. F[<<g[m - 1], m>>] \in S
      BY <2>3
    <2> DEFINE h == [k \in 0..m |-> IF k = m THEN F[<<g[m - 1], m>>] ELSE g[k]]
    <2>5. h \in [0..m -> S]
      <3> SUFFICES ASSUME NEW k \in 0..m PROVE h[k] \in S
        OBVIOUS
      <3>1. CASE k = m BY <3>1, <2>4
      <3>2. CASE k # m
        <4>1. k \in 0..(m - 1)
          BY <3>2
        <4> QED BY <4>1, <3>2
      <3> QED BY <3>1, <3>2
    <2>6. h[0] = b
      BY <2>1
    <2>7. ASSUME NEW k \in 1..m PROVE h[k] = F[<<h[k - 1], k>>]
      <3>1. k - 1 \in 0..m /\ k - 1 # m /\ h[k - 1] = g[k - 1]
        OBVIOUS
      <3>2. CASE k = m BY <3>1, <3>2
      <3>3. CASE k # m
        <4>1. k \in 1..(m - 1) /\ h[k] = g[k]
          BY <3>3
        <4>2. g[k] = F[<<g[k - 1], k>>]
          BY <4>1, <2>1
        <4> QED BY <4>1, <4>2, <3>1
      <3> QED BY <3>2, <3>3
    <2>8. Good(h, m)
      BY <2>6, <2>7
    <2> HIDE DEF h
    <2> QED BY <2>5, <2>8
  <1>3. 0..n \subseteq U
    <2> HIDE DEF U
    <2> QED BY <1>1, <1>2, UpTo
  <1>4. n \in U
    BY <1>3
  <1> QED
    BY <1>4

\* The same as an equation, the form a recursive function definition has.
Iteration(g, S, b, n, F) ==
    /\ g = [k \in 0..n |-> IF k = 0 THEN b ELSE F[<<g[k - 1], k>>]]
    /\ \A k \in 0..n : g[k] \in S

LEMMA Fixpoint ==
    ASSUME NEW S, NEW b \in S, NEW n \in Nat, NEW F \in [S \X (1..n) -> S]
    PROVE  \E g : Iteration(g, S, b, n, F)
  <1>1. PICK g \in [0..n -> S] : g[0] = b /\ \A k \in 1..n : g[k] = F[<<g[k - 1], k>>]
    BY Iterates
  <1>2. \A k \in 0..n : k = 0 \/ k \in 1..n
    OBVIOUS
  <1>3. \A k \in 0..n : g[k] = IF k = 0 THEN b ELSE F[<<g[k - 1], k>>]
    BY <1>1, <1>2
  <1>4. g = [k \in 0..n |-> IF k = 0 THEN b ELSE F[<<g[k - 1], k>>]]
    BY <1>1, <1>3
  <1>5. Iteration(g, S, b, n, F)
    BY <1>1, <1>4 DEF Iteration
  <1> QED BY <1>5

=============================================================================
