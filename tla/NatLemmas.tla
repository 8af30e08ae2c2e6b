----------------------------- MODULE NatLemmas ------------------------------
(***************************************************************************)
(* Induction over the natural numbers in a form the provers can use, with  *)
(* a set in place of a predicate, and the functions that are defined by a  *)
(* running sum.                                                            *)
(***************************************************************************)
EXTENDS Integers, WellFoundedInduction, TLAPS

(* A set of natural numbers has a least element. *)
LEMMA Least ==
  ASSUME NEW T \in SUBSET Nat, T # {}
  PROVE  \E x \in T : \A y \in T : x <= y
<1> DEFINE R == OpToRel(<, Nat)
<1>1. IsWellFoundedOn(R, Nat)
  BY NatLessThanWellFounded
<1>2. PICK x \in T : \A y \in T : ~(<<y, x>> \in R)
  <2> HIDE DEF R
  <2> QED
    BY <1>1, WFMin
<1>3. \A y \in T : ~(y < x)
  BY <1>2 DEF OpToRel
<1>4. QED
  BY <1>3

(* A set that holds 0 and with every number its successor holds all. *)
LEMMA SetInduction ==
  ASSUME NEW T, 0 \in T, \A n \in Nat : n \in T => n + 1 \in T
  PROVE  \A n \in Nat : n \in T
<1> DEFINE Out == {n \in Nat : n \notin T}
<1> SUFFICES ASSUME Out # {} PROVE FALSE
  OBVIOUS
<1>1. PICK x \in Out : \A y \in Out : x <= y
  BY Least
<1>2. x # 0 /\ x \in Nat
  BY <1>1
<1>3. x - 1 \in Nat /\ (x - 1) + 1 = x /\ ~(x <= x - 1)
  BY <1>2
<1>4. x - 1 \in T
  BY <1>1, <1>3
<1>5. QED
  BY <1>1, <1>3, <1>4

\* f is the running sum of c up to n.
SumTo(f, c, n) == f = [m \in 0 .. n |-> IF m = 0 THEN 0 ELSE f[m - 1] + c[m]]

(* Every function has its running sums. *)
LEMMA SumExists ==
  ASSUME NEW c
  PROVE  \A n \in Nat : \E f : SumTo(f, c, n)
<1> DEFINE T == {n \in Nat : \E f : SumTo(f, c, n)}
<1>1. 0 \in T
  <2> DEFINE f == [m \in 0 .. 0 |-> 0]
  <2>1. f = [m \in 0 .. 0 |-> IF m = 0 THEN 0 ELSE f[m - 1] + c[m]]
    OBVIOUS
  <2>2. SumTo(f, c, 0)
    BY <2>1 DEF SumTo
  <2>3. QED
    BY <2>2
<1>2. ASSUME NEW n \in Nat, n \in T PROVE n + 1 \in T
  <2>1. PICK f : SumTo(f, c, n)
    BY <1>2
  <2> DEFINE g == [m \in 0 .. n + 1 |-> IF m <= n THEN f[m] ELSE f[n] + c[n + 1]]
  <2>2. \A m \in 0 .. n : g[m] = f[m]
    OBVIOUS
  <2>3. ASSUME NEW m \in 0 .. n + 1
        PROVE  g[m] = IF m = 0 THEN 0 ELSE g[m - 1] + c[m]
    <3>1. CASE m = n + 1
      BY <2>2, <3>1, m - 1 = n, n \in 0 .. n, m # 0
    <3>2. CASE m # n + 1
      <4>1. m \in 0 .. n /\ (m # 0 => m - 1 \in 0 .. n)
        BY <3>2
      <4>2. f[m] = IF m = 0 THEN 0 ELSE f[m - 1] + c[m]
        BY <2>1, <4>1 DEF SumTo
      <4>3. QED
        BY <2>2, <4>1, <4>2
    <3>3. QED
      BY <3>1, <3>2
  <2>4. g = [m \in 0 .. n + 1 |-> IF m = 0 THEN 0 ELSE g[m - 1] + c[m]]
    BY <2>3
  <2> HIDE DEF g
  <2>5. SumTo(g, c, n + 1)
    BY <2>4 DEF SumTo
  <2>6. QED
    BY <2>5
<1> HIDE DEF T
<1>3. \A n \in Nat : n \in T
  BY <1>1, <1>2, SetInduction
<1>4. QED
  BY <1>3 DEF T

(* A running sum of natural numbers is one, and never decreases. *)
LEMMA SumIncreases ==
  ASSUME NEW c, NEW n \in Nat, NEW f, SumTo(f, c, n), \A m \in 1 .. n : c[m] \in Nat
  PROVE  /\ \A m \in 0 .. n : f[m] \in Nat
         /\ f[0] = 0
         /\ \A m \in 1 .. n : f[m] = f[m - 1] + c[m]
<1> DEFINE T == {m \in Nat : m <= n => f[m] \in Nat}
<1>1. f[0] = 0
  BY DEF SumTo
<1>2. \A m \in 1 .. n : f[m] = f[m - 1] + c[m]
  BY DEF SumTo
<1>3. 0 \in T
  BY <1>1
<1>4. ASSUME NEW m \in Nat, m \in T PROVE m + 1 \in T
  <2> SUFFICES ASSUME m + 1 <= n PROVE f[m + 1] \in Nat
    OBVIOUS
  <2>1. f[m] \in Nat /\ m + 1 \in 1 .. n /\ (m + 1) - 1 = m
    BY <1>4
  <2>2. QED
    BY <1>2, <2>1
<1>5. \A m \in Nat : m \in T
  <2> HIDE DEF T
  <2> QED
    BY <1>3, <1>4, SetInduction
<1>6. QED
  BY <1>1, <1>2, <1>5

-----------------------------------------------------------------------------
\* f is made from b by n steps of G.
Steps(f, b, G, n) ==
  /\ f[0] = b
  /\ \A m \in Nat : m < n => f[m + 1] = G[<<m, f[m]>>]

(* Two such functions agree as far as both go. *)
LEMMA StepsAgree ==
  ASSUME NEW b, NEW G, NEW n \in Nat, NEW k \in Nat, NEW f, NEW g,
         Steps(f, b, G, n), Steps(g, b, G, k)
  PROVE  \A m \in Nat : m <= n /\ m <= k => f[m] = g[m]
<1> DEFINE T == {m \in Nat : m <= n /\ m <= k => f[m] = g[m]}
<1>1. 0 \in T
  BY DEF Steps
<1>2. ASSUME NEW m \in Nat, m \in T PROVE m + 1 \in T
  <2> SUFFICES ASSUME m + 1 <= n, m + 1 <= k PROVE f[m + 1] = g[m + 1]
    OBVIOUS
  <2>1. m < n /\ m < k /\ f[m] = g[m]
    BY <1>2
  <2>2. f[m + 1] = G[<<m, f[m]>>] /\ g[m + 1] = G[<<m, g[m]>>]
    BY <2>1 DEF Steps
  <2>3. QED
    BY <2>1, <2>2
<1>3. \A m \in Nat : m \in T
  <2> HIDE DEF T
  <2> QED
    BY <1>1, <1>2, SetInduction
<1>4. QED
  BY <1>3

\* f is b at 0, and G gives what it is at the next number.
Recursive(f, S, b, G) ==
  f \in [Nat -> S] /\ f[0] = b /\ \A n \in Nat : f[n + 1] = G[<<n, f[n]>>]

(* A function may be defined by what it is at 0 and at the next number. *)
LEMMA Recursion ==
  ASSUME NEW S, NEW b, NEW G, b \in S, G \in [Nat \X S -> S]
  PROVE  \E f : Recursive(f, S, b, G)
<1> DEFINE T == {n \in Nat : \E f \in [Nat -> S] : Steps(f, b, G, n)}
<1>1. 0 \in T
  <2> DEFINE f == [m \in Nat |-> b]
  <2>1. f \in [Nat -> S] /\ Steps(f, b, G, 0)
    BY DEF Steps
  <2>2. QED
    BY <2>1
<1>2. ASSUME NEW n \in Nat, n \in T PROVE n + 1 \in T
  <2>1. PICK f \in [Nat -> S] : Steps(f, b, G, n)
    BY <1>2
  <2> DEFINE g == [f EXCEPT ![n + 1] = G[<<n, f[n]>>]]
  <2>2. g \in [Nat -> S]
    OBVIOUS
  <2>3. g[n + 1] = G[<<n, f[n]>>] /\ \A m \in Nat : m # n + 1 => g[m] = f[m]
    OBVIOUS
  <2> HIDE DEF g
  <2>4. g[0] = b
    BY <2>1, <2>3 DEF Steps
  <2>5. ASSUME NEW m \in Nat, m < n + 1 PROVE g[m + 1] = G[<<m, g[m]>>]
    <3>1. g[m] = f[m]
      BY <2>3, <2>5
    <3>2. CASE m = n
      BY <2>3, <3>1, <3>2
    <3>3. CASE m # n
      BY <2>1, <2>3, <2>5, <3>1, <3>3 DEF Steps
    <3>4. QED
      BY <3>2, <3>3
  <2>6. Steps(g, b, G, n + 1)
    BY <2>4, <2>5 DEF Steps
  <2>7. QED
    BY <2>2, <2>6
<1>3. \A n \in Nat : n \in T
  <2> HIDE DEF T
  <2> QED
    BY <1>1, <1>2, SetInduction
<1> DEFINE Upto(n) == CHOOSE f \in [Nat -> S] : Steps(f, b, G, n)
           F == [n \in Nat |-> Upto(n)[n]]
<1>4. \A n \in Nat : Upto(n) \in [Nat -> S] /\ Steps(Upto(n), b, G, n)
  BY <1>3
<1> HIDE DEF Upto
<1>5. F \in [Nat -> S] /\ F[0] = b
  BY <1>4 DEF Steps
<1>6. ASSUME NEW n \in Nat PROVE F[n + 1] = G[<<n, F[n]>>]
  <2>1. Upto(n + 1)[n] = Upto(n)[n]
    BY <1>4, StepsAgree, n <= n, n <= n + 1
  <2>2. Upto(n + 1)[n + 1] = G[<<n, Upto(n + 1)[n]>>]
    BY <1>4, n < n + 1 DEF Steps
  <2>3. QED
    BY <2>1, <2>2
<1>7. Recursive(F, S, b, G)
  BY <1>5, <1>6 DEF Recursive
<1>8. QED
  BY <1>7

\* The same for a function that is defined up to a number only.
RecursiveTo(f, S, b, G, L) ==
  f \in [0 .. L -> S] /\ f = [n \in 0 .. L |-> IF n = 0 THEN b ELSE G[<<n - 1, f[n - 1]>>]]

(* A recursive definition on 0 .. L has a solution. *)
LEMMA RecursionTo ==
  ASSUME NEW S, NEW b, NEW G, NEW L, b \in S, G \in [Nat \X S -> S], L \in Nat
  PROVE  \E f : RecursiveTo(f, S, b, G, L)
<1>1. PICK h : h \in [Nat -> S] /\ h[0] = b /\ \A n \in Nat : h[n + 1] = G[<<n, h[n]>>]
  <2>1. \E f : Recursive(f, S, b, G)
    BY Recursion
  <2>2. QED
    BY <2>1 DEF Recursive
<1> DEFINE f == [n \in 0 .. L |-> h[n]]
<1>2. f \in [0 .. L -> S]
  BY <1>1
<1>3. ASSUME NEW n \in 0 .. L PROVE f[n] = IF n = 0 THEN b ELSE G[<<n - 1, f[n - 1]>>]
  <2>1. CASE n = 0
    BY <1>1, <2>1
  <2>2. CASE n # 0
    <3>1. n - 1 \in Nat /\ n - 1 \in 0 .. L /\ (n - 1) + 1 = n
      BY <2>2
    <3>2. h[(n - 1) + 1] = G[<<n - 1, h[n - 1]>>]
      BY <1>1, <3>1
    <3>3. QED
      BY <2>2, <3>1, <3>2
  <2>3. QED
    BY <2>1, <2>2
<1>4. f = [n \in 0 .. L |-> IF n = 0 THEN b ELSE G[<<n - 1, f[n - 1]>>]]
  BY <1>3
<1> HIDE DEF f
<1>5. QED
  BY <1>2, <1>4 DEF RecursiveTo
=============================================================================
