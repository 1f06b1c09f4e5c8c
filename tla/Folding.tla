------------------------------ MODULE Folding ------------------------------
(* Numbers by induction, and what it takes to reason about FoldLeft: there *)
(* is a value at every prefix of the sequence.                             *)
EXTENDS Integers, Sequences, SequencesExt, WellFoundedInduction, TLAPS

-----------------------------------------------------------------------------
(* Least and greatest numbers.                                             *)

LEMMA LeastNatural ==
  ASSUME NEW T, T \subseteq Nat, T # {}
  PROVE  \E x \in T : \A y \in T : x <= y
<1> DEFINE R == OpToRel(<, Nat)
<1>1. IsWellFoundedOn(R, Nat)
  BY NatLessThanWellFounded
<1>2. \E x \in T : \A y \in T : ~(<<y, x>> \in R)
  <2> HIDE DEF R
  <2> QED BY <1>1, WFMin
<1>3. \A x, y \in T : y < x => <<y, x>> \in R
  BY DEF OpToRel
<1> HIDE DEF R
<1>4. \A x, y \in T : y < x \/ x <= y
  OBVIOUS
<1> QED BY <1>2, <1>3, <1>4

LEMMA MinFacts ==
  ASSUME NEW T, T \subseteq Nat, T # {}
  PROVE  Min(T) \in T /\ \A y \in T : Min(T) <= y
BY LeastNatural, Zenon DEF Min

LEMMA MaxFacts ==
  ASSUME NEW n \in Nat, NEW T, T \subseteq 0 .. n, T # {}
  PROVE  Max(T) \in T /\ \A y \in T : Max(T) >= y
<1> DEFINE U == {u \in Nat : n - u \in T}
<1>1. \A y \in T : n - y \in Nat /\ n - (n - y) = y
  OBVIOUS
<1>2. U \subseteq Nat /\ U # {}
  BY <1>1
<1>3. PICK u \in U : \A v \in U : u <= v
  <2> HIDE DEF U
  <2> QED BY <1>2, LeastNatural
<1>4. ASSUME NEW y \in T PROVE n - u >= y
  <2>1. n - y \in U
    BY <1>1
  <2>2. u <= n - y
    BY <1>3, <2>1
  <2>3. u \in Nat /\ y \in Int
    OBVIOUS
  <2> QED BY <2>2, <2>3
<1>5. \E x \in T : \A y \in T : x >= y
  BY <1>4
<1> QED BY <1>5, Zenon DEF Max

(* What holds of 0 and goes from each number to the next holds of all.     *)
LEMMA Counting ==
  ASSUME NEW n \in Nat, NEW T, 0 \in T, \A k \in 0 .. n - 1 : k \in T => k + 1 \in T
  PROVE  \A k \in 0 .. n : k \in T
<1> DEFINE U == {k \in 0 .. n : k \notin T}
<1>1. SUFFICES ASSUME U # {} PROVE FALSE
  OBVIOUS
<1>2. PICK u \in U : \A v \in U : u <= v
  <2>1. U \subseteq Nat
    OBVIOUS
  <2> HIDE DEF U
  <2> QED BY <1>1, <2>1, LeastNatural
<1>3. u # 0 /\ u \in 0 .. n
  OBVIOUS
<1>4. u - 1 \in 0 .. n - 1 /\ u - 1 \notin U
  BY <1>2, <1>3
<1>5. u - 1 \in T
  BY <1>4
<1> QED BY <1>4, <1>5

-----------------------------------------------------------------------------
(* FoldLeft goes over sets of positions, the greatest last.  Here f is the *)
(* operation, a function of the value so far and the next element.         *)

Along(g, f, b, s, S) == IF S = {} THEN b ELSE f[<<g[S \ {Max(S)}], s[Max(S)]>>]
IsFold(g, f, b, s, n) ==
  g = [S \in SUBSET (1 .. n) |-> Along(g, f, b, s, S)]

LEMMA TakeMax ==
  ASSUME NEW m \in Nat, NEW S \in SUBSET (1 .. m + 1), S # {}
  PROVE  Max(S) \in S /\ S \ {Max(S)} \in SUBSET (1 .. m)
<1>1. PICK x \in S : x = Max(S) /\ \A y \in S : x >= y
  <2>1. S \subseteq 0 .. m + 1 /\ m + 1 \in Nat
    OBVIOUS
  <2> QED BY <2>1, MaxFacts
<1>2. \A y \in S : y \in Int /\ 1 <= y /\ y <= m + 1
  OBVIOUS
<1>3. \A y \in S \ {x} : y \in 1 .. m
  BY <1>1, <1>2
<1> QED BY <1>1, <1>3

LEMMA FoldExists ==
  ASSUME NEW f, NEW b, NEW s, NEW n \in Nat
  PROVE  \E g : IsFold(g, f, b, s, n)
<1> DEFINE T == {m \in Nat : \E g : IsFold(g, f, b, s, m)}
<1>1. 0 \in T
  <2> DEFINE g == [S \in SUBSET (1 .. 0) |-> b]
  <2>1. \A S \in SUBSET (1 .. 0) : S = {}
    OBVIOUS
  <2>2. \A S \in SUBSET (1 .. 0) : Along(g, f, b, s, S) = b
    BY <2>1 DEF Along
  <2>3. IsFold(g, f, b, s, 0)
    BY <2>2 DEF IsFold
  <2> QED BY <2>3
<1>2. ASSUME NEW m \in 0 .. n - 1, m \in T PROVE m + 1 \in T
  <2>1. PICK g : IsFold(g, f, b, s, m)
    BY <1>2
  <2> DEFINE h == [S \in SUBSET (1 .. m + 1) |-> Along(g, f, b, s, S)]
  <2>2. \A S \in SUBSET (1 .. m) : h[S] = g[S]
    <3> TAKE S \in SUBSET (1 .. m)
    <3>1. g[S] = Along(g, f, b, s, S)
      BY <2>1 DEF IsFold
    <3>2. S \in SUBSET (1 .. m + 1)
      OBVIOUS
    <3> QED BY <3>1, <3>2
  <2>3. ASSUME NEW S \in SUBSET (1 .. m + 1)
        PROVE  Along(h, f, b, s, S) = Along(g, f, b, s, S)
    <3>1. CASE S = {}
      BY <3>1 DEF Along
    <3>2. CASE S # {}
      <4>1. S \ {Max(S)} \in SUBSET (1 .. m)
        BY <3>2, TakeMax
      <4>2. h[S \ {Max(S)}] = g[S \ {Max(S)}]
        BY <2>2, <4>1
      <4> QED BY <3>2, <4>2 DEF Along
    <3> QED BY <3>1, <3>2
  <2>4. h = [S \in SUBSET (1 .. m + 1) |-> Along(h, f, b, s, S)]
    BY <2>3
  <2>5. IsFold(h, f, b, s, m + 1)
    BY <2>4 DEF IsFold
  <2> HIDE DEF h
  <2> QED BY <2>5
<1> HIDE DEF T
<1>3. n \in T
  <2>1. \A k \in 0 .. n : k \in T
    BY <1>1, <1>2, Counting
  <2> QED BY <2>1
<1> QED BY <1>3 DEF T

(* The values a fold goes through when its operation is total.             *)
LEMMA FoldTyped ==
  ASSUME NEW X, NEW Y, NEW f \in [X \X Y -> X], NEW b \in X, NEW n \in Nat,
         NEW s, \A k \in 1 .. n : s[k] \in Y, NEW g, IsFold(g, f, b, s, n)
  PROVE  \A S \in SUBSET (1 .. n) : g[S] \in X
<1>1. g = [S \in SUBSET (1 .. n) |-> Along(g, f, b, s, S)]
  BY DEF IsFold
<1> DEFINE T == {m \in 0 .. n : \A S \in SUBSET (1 .. m) : g[S] \in X}
<1>2. 0 \in T
  <2>1. \A S \in SUBSET (1 .. 0) : S = {} /\ S \in SUBSET (1 .. n)
    OBVIOUS
  <2>2. \A S \in SUBSET (1 .. 0) : g[S] = b
    BY <1>1, <2>1 DEF Along
  <2> QED BY <2>2
<1>3. ASSUME NEW m \in 0 .. n - 1, m \in T PROVE m + 1 \in T
  <2>1. ASSUME NEW S \in SUBSET (1 .. m + 1) PROVE g[S] \in X
    <3>1. S \in SUBSET (1 .. n)
      OBVIOUS
    <3>2. g[S] = Along(g, f, b, s, S)
      BY <1>1, <3>1
    <3>3. CASE S = {}
      BY <3>2, <3>3 DEF Along
    <3>4. CASE S # {}
      <4>1. Max(S) \in S /\ S \ {Max(S)} \in SUBSET (1 .. m)
        BY <3>4, TakeMax
      <4>2. g[S \ {Max(S)}] \in X /\ s[Max(S)] \in Y
        BY <1>3, <3>1, <4>1
      <4>3. g[S] = f[<<g[S \ {Max(S)}], s[Max(S)]>>]
        BY <3>2, <3>4 DEF Along
      <4> QED BY <4>2, <4>3
    <3> QED BY <3>3, <3>4
  <2> QED BY <2>1
<1> HIDE DEF T
<1>4. n \in T
  <2>1. \A k \in 0 .. n : k \in T
    BY <1>2, <1>3, Counting
  <2> QED BY <2>1
<1> QED BY <1>4 DEF T

(* The prefixes.                                                           *)
LEMMA UpTo ==
  ASSUME NEW n \in Nat, NEW k \in 1 .. n
  PROVE  /\ 1 .. k \in SUBSET (1 .. n) /\ 1 .. k # {}
         /\ Max(1 .. k) = k /\ (1 .. k) \ {k} = 1 .. k - 1
<1>1. k \in Nat /\ 1 .. k \subseteq 0 .. k /\ k \in 1 .. k
  OBVIOUS
<1>2. Max(1 .. k) \in 1 .. k /\ \A y \in 1 .. k : Max(1 .. k) >= y
  BY <1>1, MaxFacts
<1> QED BY <1>1, <1>2
=============================================================================
