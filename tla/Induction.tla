----------------------------- MODULE Induction -----------------------------
(***************************************************************************)
(* Induction over the natural numbers without a predicate for a parameter:  *)
(* a set stands for it.  And what a function defined by recursion over them *)
(* is: at 0, and from one number to the next.                               *)
(***************************************************************************)
EXTENDS Naturals, WellFoundedInduction, TLAPS

LessThan == OpToRel(<, Nat)

LEMMA LessThanIs == \A m, n \in Nat : m < n => <<m, n>> \in LessThan
BY DEF LessThan, OpToRel

LEMMA LessThanWellFounded == IsWellFoundedOn(LessThan, Nat)
BY NatLessThanWellFounded DEF LessThan

LEMMA SetInduction ==
  ASSUME NEW S, 0 \in S, \A n \in Nat : n \in S => n + 1 \in S
  PROVE  Nat \subseteq S
<1> DEFINE T == Nat \ S
<1> SUFFICES ASSUME T # {}
             PROVE  FALSE
  OBVIOUS
<1>1. PICK n \in T : \A m \in T : <<m, n>> \notin LessThan
  <2>1. T \subseteq Nat
    OBVIOUS
  <2> HIDE DEF T
  <2> QED
    BY <2>1, LessThanWellFounded, WFMin
<1>2. n \in Nat /\ n # 0 /\ n - 1 \in Nat /\ (n - 1) + 1 = n /\ n - 1 < n
  OBVIOUS
<1>3. n - 1 \notin T
  <2> HIDE DEF T
  <2> QED
    BY <1>1, <1>2, LessThanIs
<1> QED
  BY <1>2, <1>3

(* A function may be defined by what it is at 0 and from one number to the  *)
(* next.                                                                    *)
Iterable(S, base, next) == base \in S /\ next \in [Nat -> [S -> S]]
Iterates(f, S, base, next) ==
  f \in [Nat -> S] /\ f[0] = base /\ \A n \in Nat : f[n+1] = next[n+1][f[n]]

LEMMA Iteration ==
  ASSUME NEW S, NEW base, NEW next, Iterable(S, base, next)
  PROVE  \E f : Iterates(f, S, base, next)
<1> DEFINE Upto(n, f) == \A i \in 0..n : f[i] = IF i = 0 THEN base ELSE next[i][f[i-1]]
           Good == {n \in Nat : \E f \in [0..n -> S] : Upto(n, f)}
<1> base \in S /\ next \in [Nat -> [S -> S]]
  BY DEF Iterable
<1>1. Nat \subseteq Good
  <2>1. 0 \in Good
    <3>1. [i \in 0..0 |-> base] \in [0..0 -> S] /\ Upto(0, [i \in 0..0 |-> base])
      OBVIOUS
    <3> QED
      BY <3>1
  <2>2. ASSUME NEW n \in Nat, n \in Good
        PROVE  n + 1 \in Good
    <3>1. PICK f \in [0..n -> S] : Upto(n, f)
      BY <2>2
    <3> DEFINE g == [i \in 0..(n+1) |-> IF i = n + 1 THEN next[n + 1][f[n]] ELSE f[i]]
    <3>a. next[n + 1][f[n]] \in S
      <4>1. n \in 0..n /\ n + 1 \in Nat
        OBVIOUS
      <4> QED
        BY <4>1
    <3>2. g \in [0..(n+1) -> S]
      BY <3>a
    <3>3. Upto(n+1, g)
      <4> SUFFICES ASSUME NEW i \in 0..(n+1)
                   PROVE  g[i] = IF i = 0 THEN base ELSE next[i][g[i-1]]
        OBVIOUS
      <4>1. CASE i = n + 1
        <5>1. i # 0 /\ i - 1 = n /\ n \in 0..(n+1) /\ n # n + 1
          BY <4>1
        <5>2. g[i] = next[n + 1][f[n]] /\ g[n] = f[n]
          BY <4>1, <5>1
        <5> HIDE DEF g
        <5> QED
          BY <4>1, <5>1, <5>2
      <4>2. CASE i # n + 1
        <5>1. i \in 0..n /\ (i # 0 => i - 1 \in 0..(n+1) /\ i - 1 # n + 1)
          BY <4>2
        <5>2. g[i] = f[i] /\ (i # 0 => g[i-1] = f[i-1])
          BY <4>2, <5>1
        <5>3. f[i] = IF i = 0 THEN base ELSE next[i][f[i-1]]
          BY <3>1, <5>1
        <5> HIDE DEF g
        <5> QED
          BY <5>2, <5>3
      <4> QED
        BY <4>1, <4>2
    <3>4. n + 1 \in Nat
      OBVIOUS
    <3> HIDE DEF g, Upto
    <3> QED
      BY <3>2, <3>3, <3>4
  <2> HIDE DEF Good
  <2> QED
    BY <2>1, <2>2, SetInduction
<1>2. ASSUME NEW m \in Nat, NEW n \in Nat, m <= n,
             NEW f \in [0..m -> S], Upto(m, f), NEW g \in [0..n -> S], Upto(n, g)
      PROVE  \A i \in 0..m : f[i] = g[i]
  <2> DEFINE Same == {i \in Nat : i <= m => f[i] = g[i]}
  <2>a. \A i \in 0..m : f[i] = IF i = 0 THEN base ELSE next[i][f[i-1]]
    BY <1>2
  <2>b. \A i \in 0..n : g[i] = IF i = 0 THEN base ELSE next[i][g[i-1]]
    BY <1>2
  <2>1. 0 \in Same
    <3>1. 0 \in 0..m /\ 0 \in 0..n
      BY <1>2
    <3> QED
      BY <2>a, <2>b, <3>1
  <2>2. ASSUME NEW i \in Nat, i \in Same
        PROVE  i + 1 \in Same
    <3> SUFFICES ASSUME i + 1 <= m
                 PROVE  f[i+1] = g[i+1]
      OBVIOUS
    <3>1. i + 1 \in 0..m /\ i + 1 \in 0..n /\ (i + 1) - 1 = i /\ i + 1 # 0
      BY <1>2
    <3>2. f[i+1] = next[i + 1][f[i]]
      BY <2>a, <3>1
    <3>3. g[i+1] = next[i + 1][g[i]]
      BY <2>b, <3>1
    <3>4. f[i] = g[i]
      BY <2>2, <3>1
    <3> QED
      BY <3>2, <3>3, <3>4
  <2>3. Nat \subseteq Same
    <3> HIDE DEF Same
    <3> QED
      BY <2>1, <2>2, SetInduction
  <2> QED
    BY <2>3
<1> DEFINE part == [n \in Nat |-> CHOOSE f \in [0..n -> S] : Upto(n, f)]
           whole == [n \in Nat |-> part[n][n]]
<1>3. \A n \in Nat : part[n] \in [0..n -> S] /\ Upto(n, part[n])
  BY <1>1
<1>4. ASSUME NEW n \in Nat
      PROVE  whole[n] = IF n = 0 THEN base ELSE next[n][whole[n-1]]
  <2>1. CASE n = 0
    <3>1. 0 \in 0..0
      OBVIOUS
    <3>2. part[0][0] = base
      <4>1. Upto(0, part[0])
        BY <1>3
      <4> HIDE DEF part
      <4> QED
        BY <3>1, <4>1
    <3> QED
      BY <2>1, <3>2
  <2>2. CASE n # 0
    <3>1. n - 1 \in Nat /\ n - 1 <= n /\ n - 1 \in 0..n /\ n - 1 \in 0..(n-1) /\ n \in 0..n
      BY <2>2
    <3>2. part[n-1][n-1] = part[n][n-1]
      <4> HIDE DEF part
      <4> QED
        BY ZenonT(60), <1>2, <1>3, <3>1
    <3>3. part[n][n] = next[n][part[n][n-1]]
      <4>1. Upto(n, part[n])
        BY <1>3
      <4> HIDE DEF part
      <4> QED
        BY <2>2, <3>1, <4>1
    <3>4. whole[n] = part[n][n] /\ whole[n-1] = part[n-1][n-1]
      BY <3>1
    <3> HIDE DEF whole, part
    <3> QED
      BY <2>2, <3>2, <3>3, <3>4
  <2> QED
    BY <2>1, <2>2
<1>5. whole \in [Nat -> S]
  <2>1. \A n \in Nat : part[n] \in [0..n -> S]
    <3> HIDE DEF part, Upto
    <3> QED
      BY <1>3
  <2> HIDE DEF part
  <2> QED
    BY <2>1
<1>6. whole[0] = base
  BY <1>4
<1>7. \A n \in Nat : n + 1 \in Nat /\ n + 1 # 0 /\ (n + 1) - 1 = n
  OBVIOUS
<1> HIDE DEF whole
<1>8. \A n \in Nat : whole[n+1] = next[n+1][whole[n]]
  BY <1>4, <1>7
<1> QED
  BY <1>5, <1>6, <1>8 DEF Iterates

(* The same for the numbers up to a last one. *)
Recurs(f, S, base, last, next) ==
  /\ f \in [0..last -> S]
  /\ f[0] = base
  /\ \A n \in 1..last : f[n] = next[n][f[n-1]]

LEMMA Recursion ==
  ASSUME NEW S, NEW base \in S, NEW last \in Nat, NEW next \in [1..last -> [S -> S]]
  PROVE  \E f : Recurs(f, S, base, last, next)
<1>1. PICK step \in [Nat -> [S -> S]] : \A n \in 1..last : step[n] = next[n]
  <2> DEFINE whole == [n \in Nat |-> IF n \in 1..last THEN next[n] ELSE [s \in S |-> s]]
  <2>1. whole \in [Nat -> [S -> S]] /\ \A n \in 1..last : whole[n] = next[n]
    OBVIOUS
  <2> HIDE DEF whole
  <2> QED
    BY <2>1
<1>a. Iterable(S, base, step)
  BY DEF Iterable
<1>b. PICK f : Iterates(f, S, base, step)
  BY <1>a, Iteration
<1>2. f \in [Nat -> S] /\ f[0] = base /\ \A n \in Nat : f[n+1] = step[n+1][f[n]]
  BY <1>b DEF Iterates
<1> DEFINE g == [n \in 0..last |-> f[n]]
<1>3. g \in [0..last -> S] /\ g[0] = base
  BY <1>2
<1>4. ASSUME NEW n \in 1..last
      PROVE  g[n] = next[n][g[n-1]]
  <2>1. n - 1 \in 0..last /\ n \in 0..last /\ n - 1 \in Nat /\ (n - 1) + 1 = n /\ n \in Nat
    OBVIOUS
  <2>2. f[n] = step[n][f[n-1]]
    BY <1>2, <2>1
  <2>3. step[n] = next[n]
    BY <1>1, <2>1
  <2> QED
    BY <2>1, <2>2, <2>3
<1> QED
  BY <1>3, <1>4 DEF Recurs
=============================================================================
