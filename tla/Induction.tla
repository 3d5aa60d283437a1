------------------------------- MODULE Induction -------------------------------
(***************************************************************************)
(* Induction over the natural numbers, and definitions by it, said of sets  *)
(* and functions, which is the form in which other proofs can cite them.    *)
(***************************************************************************)
EXTENDS Integers, WellFoundedInduction, TLAPS

\* A set of natural numbers that is not empty has a least element.
LEMMA LeastOf ==
  ASSUME NEW T \in SUBSET Nat, T # {}
  PROVE  \E x \in T : \A y \in T : x <= y
  <1> DEFINE R == OpToRel(<, Nat)
  <1>1. IsWellFoundedOn(R, Nat)
    BY NatLessThanWellFounded
  <1>2. \A x, y \in Nat : <<y, x>> \in R <=> y < x
    BY DEF OpToRel
  <1> HIDE DEF R
  <1>3. PICK x \in T : \A y \in T : ~ (<<y, x>> \in R)
    BY <1>1, WFMin
  <1>4. \A y \in T : x <= y
    <2> SUFFICES ASSUME NEW y \in T
                 PROVE  x <= y
      OBVIOUS
    <2>1. x \in Nat /\ y \in Nat
      OBVIOUS
    <2>2. ~ (y < x)
      BY <1>2, <1>3, <2>1
    <2> QED  BY <2>1, <2>2
  <1> QED  BY <1>4

\* What holds of 0, and of n + 1 if it holds of n, holds of every number up to any limit.
LEMMA UpTo ==
  ASSUME NEW n \in Nat, NEW T, 0 \in T,
         \A i \in 0 .. n - 1 : i \in T => i + 1 \in T
  PROVE  0 .. n \subseteq T
  <1> SUFFICES ASSUME NEW k \in 0 .. n, k \notin T
               PROVE  FALSE
    OBVIOUS
  <1> DEFINE Bad == {i \in 0 .. n : i \notin T}
  <1>1. PICK x \in Bad : \A y \in Bad : x <= y
    <2>1. Bad \in SUBSET Nat /\ Bad # {}
      OBVIOUS
    <2> QED  BY <2>1, LeastOf
  <1>2. x # 0 /\ x - 1 \in 0 .. n - 1 /\ x - 1 \notin Bad
    BY <1>1
  <1> QED  BY <1>1, <1>2

\* What holds of n, and of i if it holds of i + 1, holds of every number from any one on.
LEMMA DownFrom ==
  ASSUME NEW n \in Int, NEW k \in Int, NEW T, n \in T,
         \A i \in k .. n - 1 : i + 1 \in T => i \in T
  PROVE  k .. n \subseteq T
  <1> SUFFICES ASSUME NEW j \in k .. n
               PROVE  j \in T
    OBVIOUS
  <1> DEFINE U == {i \in 0 .. n - k : n - i \in T}
  <1>1. 0 \in U
    OBVIOUS
  <1>2. \A i \in 0 .. (n - k) - 1 : i \in U => i + 1 \in U
    <2> SUFFICES ASSUME NEW i \in 0 .. (n - k) - 1, i \in U
                 PROVE  i + 1 \in U
      OBVIOUS
    <2>1. n - (i + 1) \in k .. n - 1 /\ (n - (i + 1)) + 1 = n - i
      OBVIOUS
    <2> QED  BY <2>1
  <1>3. 0 .. n - k \subseteq U
    <2> HIDE DEF U
    <2> QED  BY <1>1, <1>2, UpTo
  <1>4. n - j \in 0 .. n - k /\ n - (n - j) = j
    OBVIOUS
  <1> QED  BY <1>3, <1>4

\* The functions that start at p and go from i - 1 to i as step[i] says.
StepsOn(S, n) == [1 .. n -> [S -> S]]
Walks(S, n, p, step) ==
  {r \in [0 .. n -> S] : r[0] = p /\ \A i \in 1 .. n : r[i] = step[i][r[i - 1]]}

\* A function may be defined step by step.
LEMMA StepByStep ==
  ASSUME NEW S, NEW n \in Nat, NEW p \in S, NEW step \in StepsOn(S, n)
  PROVE  Walks(S, n, p, step) # {}
  <1> USE DEF StepsOn
  <1> DEFINE Good(k, r) == r[0] = p /\ \A i \in 1 .. k : r[i] = step[i][r[i - 1]]
             T == {k \in 0 .. n : \E r \in [0 .. k -> S] : Good(k, r)}
  <1>0. ASSUME NEW k \in 0 .. n, NEW r \in [0 .. k -> S], Good(k, r)
        PROVE  k \in T
    <2> HIDE DEF Good
    <2> QED  BY <1>0
  <1>1. 0 \in T
    <2> DEFINE r == [i \in 0 .. 0 |-> p]
    <2>1. r \in [0 .. 0 -> S] /\ Good(0, r)
      OBVIOUS
    <2>2. 0 \in 0 .. n
      OBVIOUS
    <2> HIDE DEF r, T, Good
    <2> QED  BY <1>0, <2>1, <2>2
  <1>2. \A k \in 0 .. n - 1 : k \in T => k + 1 \in T
    <2> SUFFICES ASSUME NEW k \in 0 .. n - 1, k \in T
                 PROVE  k + 1 \in T
      OBVIOUS
    <2>1. PICK r \in [0 .. k -> S] : Good(k, r)
      OBVIOUS
    <2> DEFINE v == step[k + 1][r[k]]
               rr == [i \in 0 .. k + 1 |-> IF i = k + 1 THEN v ELSE r[i]]
    <2>2. v \in S
      OBVIOUS
    <2>3. rr \in [0 .. k + 1 -> S]
      BY <2>2
    <2>4. Good(k + 1, rr)
      <3>1. rr[0] = p
        BY <2>1
      <3>2. ASSUME NEW i \in 1 .. k + 1
            PROVE  rr[i] = step[i][rr[i - 1]]
        <4>1. rr[i - 1] = r[i - 1]
          OBVIOUS
        <4>2. CASE i = k + 1
          <5>1. i - 1 = k
            BY <4>2
          <5> QED  BY <4>1, <4>2, <5>1
        <4>3. CASE i # k + 1
          BY <4>1, <4>3, <2>1
        <4> QED  BY <4>2, <4>3
      <3> QED  BY <3>1, <3>2
    <2> HIDE DEF rr, T, Good
    <2> QED  BY <1>0, <2>3, <2>4
  <1>3. 0 .. n \subseteq T
    <2> HIDE DEF T
    <2> QED  BY <1>1, <1>2, UpTo
  <1>4. n \in T
    BY <1>3
  <1> QED  BY <1>4 DEF Walks

\* The functions on 0 .. n that have at i the value base gives, or the one they have at
\* next[i]; it comes later.
Ahead(n, stop, next) ==
  next \in [0 .. n -> 0 .. n] /\ \A i \in 0 .. n : i \in stop \/ next[i] > i
Lookers(S, n, stop, base, next) ==
  {f \in [0 .. n -> S] :
     \A i \in 0 .. n : f[i] = IF i \in stop THEN base[i] ELSE f[next[i]]}

\* A function may be defined by looking ahead.
LEMMA LookingAhead ==
  ASSUME NEW S, NEW n \in Nat, NEW stop \in SUBSET (0 .. n), NEW base \in [0 .. n -> S],
         NEW next, Ahead(n, stop, next)
  PROVE  Lookers(S, n, stop, base, next) # {}
  <1> USE DEF Ahead
  <1> DEFINE Good(k, f) == \A i \in k .. n : f[i] = IF i \in stop THEN base[i] ELSE f[next[i]]
             T == {k \in 0 .. n + 1 : \E f \in [0 .. n -> S] : Good(k, f)}
  <1>0. ASSUME NEW k \in 0 .. n + 1, NEW f \in [0 .. n -> S], Good(k, f)
        PROVE  k \in T
    <2> HIDE DEF Good
    <2> QED  BY <1>0
  <1>1. n + 1 \in T
    <2>1. Good(n + 1, base)
      OBVIOUS
    <2> HIDE DEF T, Good
    <2> QED  BY <1>0, <2>1
  <1>2. \A k \in 0 .. (n + 1) - 1 : k + 1 \in T => k \in T
    <2> SUFFICES ASSUME NEW k \in 0 .. n, k + 1 \in T
                 PROVE  k \in T
      BY (n + 1) - 1 = n
    <2>0. PICK f \in [0 .. n -> S] : Good(k + 1, f)
      OBVIOUS
    <2> DEFINE v == IF k \in stop THEN base[k] ELSE f[next[k]]
               g == [f EXCEPT ![k] = v]
    <2>1. v \in S
      OBVIOUS
    <2>2. g \in [0 .. n -> S] /\ g[k] = v /\ \A i \in 0 .. n : i # k => g[i] = f[i]
      BY <2>1
    <2>3. ASSUME NEW i \in k .. n
          PROVE  g[i] = IF i \in stop THEN base[i] ELSE g[next[i]]
      <3>1. next[i] \in 0 .. n /\ (i \in stop \/ next[i] > i) /\ i \in 0 .. n
        OBVIOUS
      <3>2. i \in stop \/ g[next[i]] = f[next[i]]
        BY <2>2, <3>1
      <3>3. CASE i = k
        BY <2>2, <3>2, <3>3
      <3>4. CASE i # k
        <4>1. i \in k + 1 .. n
          BY <3>4
        <4>2. f[i] = IF i \in stop THEN base[i] ELSE f[next[i]]
          BY <2>0, <4>1
        <4> QED  BY <2>2, <3>1, <3>2, <3>4, <4>2
      <3> QED  BY <3>3, <3>4
    <2>4. k \in 0 .. n + 1 /\ Good(k, g)
      <3> HIDE DEF g
      <3> QED  BY <2>3
    <2> HIDE DEF g, T, Good
    <2> QED  BY <1>0, <2>2, <2>4
  <1>3. 0 .. n + 1 \subseteq T
    <2>1. n + 1 \in Int /\ 0 \in Int
      OBVIOUS
    <2> HIDE DEF T
    <2> QED  BY <1>1, <1>2, <2>1, DownFrom
  <1>4. 0 \in T
    <2>1. 0 \in 0 .. n + 1
      OBVIOUS
    <2> HIDE DEF T
    <2> QED  BY <1>3, <2>1
  <1>5. \E f \in [0 .. n -> S] : Good(0, f)
    BY <1>4
  <1> QED  BY <1>5 DEF Lookers
================================================================================
