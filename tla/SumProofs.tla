------------------------------ MODULE SumProofs ------------------------------
(* Induction over the elements of a list, as a principle about sets of numbers, *)
(* and what it shows of Sums: Total is defined for every list of integers, and  *)
(* grows with its elements.                                                     *)
EXTENDS Sums, TLAPS, WellFoundedInduction

Less == {p \in Nat \X Nat : p[1] < p[2]}

LEMMA LessIsWellFounded == IsWellFoundedOn(Less, Nat)
<1>1. OpToRel(<, Nat) = Less
  BY Zenon DEF OpToRel, Less
<1> QED
  BY <1>1, NatLessThanWellFounded, Zenon

\* A set of natural numbers that is not empty has a least element.
LEMMA LeastNatural ==
    ASSUME NEW T \in SUBSET Nat, T # {}
    PROVE  \E m \in T : \A n \in T : m <= n
<1>1. PICK m \in T : \A n \in T : ~(<<n, m>> \in Less)
  BY LessIsWellFounded, WFMin, Zenon
<1>2. \A n \in T : <<n, m>> \in Nat \X Nat /\ <<n, m>>[1] = n /\ <<n, m>>[2] = m
  OBVIOUS
<1>3. \A n \in T : ~(n < m)
  BY <1>1, <1>2, Zenon DEF Less
<1> QED
  BY <1>3

\* A set of indices that is not empty has a greatest element.
LEMMA GreatestIndex ==
    ASSUME NEW N \in Nat, NEW T \in SUBSET (1..N), T # {}
    PROVE  \E m \in T : \A n \in T : m >= n
<1> DEFINE R == {N - n : n \in T}
<1>1. R \in SUBSET Nat /\ R # {}
  <2>1. \A n \in T : N - n \in Nat
    OBVIOUS
  <2>2. R \subseteq Nat
    BY <2>1
  <2>3. R # {}
    OBVIOUS
  <2> QED
    BY <2>2, <2>3
<1> HIDE DEF R
<1>2. PICK r \in R : \A q \in R : r <= q
  BY <1>1, LeastNatural
<1>3. PICK m \in T : r = N - m
  BY DEF R
<1>4. \A n \in T : N - m <= N - n
  BY <1>2, <1>3 DEF R
<1> QED
  BY <1>3, <1>4

\* What holds of 0, and of n + 1 if it holds of n, holds up to any bound.
LEMMA Induction ==
    ASSUME NEW N \in Nat, NEW S,
           0 \in S,
           \A n \in 0..(N - 1) : n \in S => n + 1 \in S
    PROVE  \A n \in 0..N : n \in S
<1> DEFINE T == {n \in 0..N : n \notin S}
<1>1. SUFFICES ASSUME T # {} PROVE FALSE
  OBVIOUS
<1>2. PICK m \in T : \A n \in T : m <= n
  <2>1. T \in SUBSET Nat
    OBVIOUS
  <2> QED
    BY <1>1, <2>1, LeastNatural
<1>3. m # 0 /\ m - 1 \in 0..(N - 1)
  OBVIOUS
<1>4. m - 1 \in S
  BY <1>2, <1>3
<1>5. (m - 1) + 1 \in S
  BY <1>3, <1>4
<1> QED
  BY <1>5

-----------------------------------------------------------------------------
(* Running sums *)

IsRunning(f, s) ==
    f = [i \in 0..Len(s) |-> IF i = 0 THEN 0 ELSE f[i - 1] + s[i]]

\* g adds up the first n elements of s.
AddsUp(g, s, n) ==
    /\ g \in [0..n -> Int]
    /\ g[0] = 0
    /\ \A i \in 1..n : g[i] = g[i - 1] + s[i]

LEMMA SomethingAddsUp ==
    ASSUME NEW s \in Seq(Int)
    PROVE  \E g : AddsUp(g, s, Len(s))
<1> DEFINE S == {n \in 0..Len(s) : \E g : AddsUp(g, s, n)}
<1>1. 0 \in S
  <2>1. AddsUp([i \in 0..0 |-> 0], s, 0)
    BY DEF AddsUp
  <2> QED
    BY <2>1
<1>2. ASSUME NEW n \in 0..(Len(s) - 1), n \in S PROVE n + 1 \in S
  <2>1. PICK g : AddsUp(g, s, n)
    BY <1>2
  <2>2. n + 1 \in 1..Len(s) /\ s[n + 1] \in Int
    BY <1>2
  <2> DEFINE h == [i \in 0..(n + 1) |-> IF i = n + 1 THEN g[n] + s[n + 1] ELSE g[i]]
  <2>3. AddsUp(h, s, n + 1)
    <3>1. h \in [0..(n + 1) -> Int]
      BY <2>1, <2>2 DEF AddsUp
    <3>2. h[0] = 0
      BY <2>1, <2>2 DEF AddsUp
    <3>3. \A i \in 1..(n + 1) : h[i] = h[i - 1] + s[i]
      BY <2>1, <2>2 DEF AddsUp
    <3> QED
      BY <3>1, <3>2, <3>3 DEF AddsUp
  <2> QED
    BY <2>2, <2>3
<1> HIDE DEF S
<1>3. \A n \in 0..Len(s) : n \in S
  <2>1. Len(s) \in Nat
    OBVIOUS
  <2> QED
    BY <1>1, <1>2, <2>1, Induction, Zenon
<1> QED
  BY <1>3 DEF S

LEMMA RunningAddsUp ==
    ASSUME NEW s \in Seq(Int)
    PROVE  AddsUp(Running(s), s, Len(s))
<1>1. IsRunning(Running(s), s)
  <2>1. PICK g : AddsUp(g, s, Len(s))
    BY SomethingAddsUp
  <2>2. IsRunning(g, s)
    BY <2>1 DEF AddsUp, IsRunning
  <2>3. Running(s) = CHOOSE f : IsRunning(f, s)
    BY DEF Running, IsRunning
  <2> QED
    BY <2>2, <2>3
<1> DEFINE f == Running(s)
           S == {n \in 0..Len(s) : f[n] \in Int}
<1> HIDE DEF f
<1>2. IsRunning(f, s)
  BY <1>1 DEF f
<1>3. /\ f = [i \in 0..Len(s) |-> f[i]]
      /\ \A i \in 0..Len(s) : f[i] = IF i = 0 THEN 0 ELSE f[i - 1] + s[i]
  BY <1>2 DEF IsRunning
<1>4. Len(s) \in Nat /\ \A i \in 1..Len(s) : s[i] \in Int
  OBVIOUS
<1>5. f[0] = 0 /\ \A i \in 1..Len(s) : f[i] = f[i - 1] + s[i]
  BY <1>3, <1>4
<1>6. \A n \in 0..Len(s) : n \in S
  <2>1. 0 \in S
    BY <1>5
  <2>2. \A n \in 0..(Len(s) - 1) : n \in S => n + 1 \in S
    BY <1>5, <1>4
  <2> HIDE DEF S
  <2> QED
    BY <1>4, <2>1, <2>2, Induction, Zenon
<1>7. f \in [0..Len(s) -> Int]
  BY <1>3, <1>6
<1>8. AddsUp(f, s, Len(s))
  BY <1>5, <1>7 DEF AddsUp
<1> QED
  BY <1>8 DEF f

\* The sum of integers is one.
LEMMA TotalIsInteger ==
    ASSUME NEW s \in Seq(Int)
    PROVE  Total(s) \in Int
BY RunningAddsUp DEF AddsUp, Total

\* A list that is nowhere greater than another has no greater sum.
LEMMA TotalIsMonotone ==
    ASSUME NEW s \in Seq(Int), NEW t \in Seq(Int), Len(s) = Len(t),
           \A i \in 1..Len(s) : s[i] <= t[i]
    PROVE  Total(s) <= Total(t)
<1> DEFINE f == Running(s)
           g == Running(t)
           S == {n \in 0..Len(s) : f[n] <= g[n]}
<1>1. AddsUp(f, s, Len(s)) /\ AddsUp(g, t, Len(s))
  BY RunningAddsUp
<1> HIDE DEF f, g
<1>2. \A n \in 0..Len(s) : n \in S
  <2>0. Len(s) \in Nat
    OBVIOUS
  <2>1. 0 \in S
    BY <1>1, <2>0 DEF AddsUp
  <2>2. ASSUME NEW n \in 0..(Len(s) - 1), n \in S PROVE n + 1 \in S
    <3>1. n + 1 \in 1..Len(s) /\ n + 1 \in 0..Len(s) /\ s[n + 1] \in Int /\ t[n + 1] \in Int
      OBVIOUS
    <3>2. /\ f[n] \in Int /\ g[n] \in Int
          /\ f[n + 1] = f[n] + s[n + 1]
          /\ g[n + 1] = g[n] + t[n + 1]
      <4>1. n + 1 - 1 = n /\ n \in 0..Len(s) /\ Len(s) \in Nat
        OBVIOUS
      <4>2. f \in [0..Len(s) -> Int] /\ g \in [0..Len(s) -> Int]
        BY <1>1 DEF AddsUp
      <4>3. f[n + 1] = f[n + 1 - 1] + s[n + 1] /\ g[n + 1] = g[n + 1 - 1] + t[n + 1]
        BY <1>1, <3>1 DEF AddsUp
      <4> QED
        BY <4>1, <4>2, <4>3
    <3> QED
      BY <2>2, <3>1, <3>2
  <2> HIDE DEF S
  <2> QED
    BY <2>0, <2>1, <2>2, Induction, Zenon
<1>3. f[Len(s)] <= g[Len(t)]
  BY <1>2
<1> QED
  BY <1>3 DEF f, g, Total
=============================================================================
