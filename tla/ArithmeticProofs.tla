-------------------------- MODULE ArithmeticProofs --------------------------
(***************************************************************************)
(* What Arithmetic promises of the instructions that compute, proved for   *)
(* every width: TLC runs it with integers of two to five bits, the code    *)
(* with 8, 16, 32 and 64.                                                  *)
(***************************************************************************)
EXTENDS Arithmetic, NatLemmas, FiniteSetTheorems, SequenceTheorems, TLAPS

-----------------------------------------------------------------------------
(* Powers of two *)

(* Pow2 is the function its equations say. *)
LEMMA Pow2Step ==
  /\ Pow2 \in [Nat -> Nat \ {0}]
  /\ Pow2[0] = 1
  /\ \A n \in Nat : Pow2[n + 1] = 2 * Pow2[n]
<1> DEFINE S == Nat \ {0}
           G == [p \in Nat \X S |-> 2 * p[2]]
<1>1. G \in [Nat \X S -> S] /\ 1 \in S
  OBVIOUS
<1>2. \A n \in Nat, x \in S : G[<<n, x>>] = 2 * x
  OBVIOUS
<1> HIDE DEF G
<1>3. PICK f \in [Nat -> S] : f[0] = 1 /\ \A n \in Nat : f[n + 1] = G[<<n, f[n]>>]
  <2>1. \E f : Recursive(f, S, 1, G)
    <3> HIDE DEF S
    <3> QED
      BY <1>1, Recursion
  <2>2. QED
    BY <2>1 DEF Recursive
<1>4. \A n \in Nat : f[n + 1] = 2 * f[n]
  BY <1>2, <1>3
<1>5. ASSUME NEW n \in Nat PROVE f[n] = IF n = 0 THEN 1 ELSE 2 * f[n - 1]
  <2>1. CASE n = 0
    BY <1>3, <2>1
  <2>2. CASE n # 0
    <3>1. n - 1 \in Nat /\ (n - 1) + 1 = n
      BY <2>2
    <3>2. QED
      BY <1>4, <2>2, <3>1
  <2>3. QED
    BY <2>1, <2>2
<1>6. f = [n \in Nat |-> IF n = 0 THEN 1 ELSE 2 * f[n - 1]]
  BY <1>5
<1>7. Pow2 = [n \in Nat |-> IF n = 0 THEN 1 ELSE 2 * Pow2[n - 1]]
  BY <1>6 DEF Pow2
<1>8. Pow2[0] = 1
  BY <1>7
<1>9. ASSUME NEW n \in Nat PROVE Pow2[n + 1] = 2 * Pow2[n]
  BY <1>7, n + 1 \in Nat, n + 1 # 0, (n + 1) - 1 = n
<1>10. \A n \in Nat : Pow2[n] = f[n]
  <2> DEFINE T == {n \in Nat : Pow2[n] = f[n]}
  <2>1. 0 \in T
    BY <1>3, <1>8
  <2>2. ASSUME NEW n \in Nat, n \in T PROVE n + 1 \in T
    BY <1>4, <1>9, <2>2
  <2> HIDE DEF T
  <2>3. \A n \in Nat : n \in T
    BY <2>1, <2>2, SetInduction
  <2>4. QED
    BY <2>3 DEF T
<1>11. Pow2 \in [Nat -> S]
  BY <1>3, <1>7, <1>10
<1>12. QED
  BY <1>8, <1>9, <1>11

(* The half of a power, and a number is less than its power. *)
LEMMA Pow2Half ==
  ASSUME NEW w \in Nat \ {0}
  PROVE  /\ Pow2[w] \in Nat \ {0} /\ Pow2[w - 1] \in Nat \ {0}
         /\ Pow2[w] = 2 * Pow2[w - 1]
         /\ w < Pow2[w]
<1>1. w - 1 \in Nat /\ (w - 1) + 1 = w
  OBVIOUS
<1>2. Pow2[w] = 2 * Pow2[w - 1]
  BY <1>1, Pow2Step
<1> DEFINE T == {n \in Nat : n < Pow2[n]}
<1>3. 0 \in T
  BY Pow2Step
<1>4. ASSUME NEW n \in Nat, n \in T PROVE n + 1 \in T
  <2>1. Pow2[n + 1] = 2 * Pow2[n] /\ Pow2[n] \in Nat /\ n < Pow2[n]
    BY <1>4, Pow2Step
  <2>2. QED
    BY <2>1
<1> HIDE DEF T
<1>5. \A n \in Nat : n \in T
  BY <1>3, <1>4, SetInduction
<1>6. QED
  BY <1>1, <1>2, <1>5, Pow2Step DEF T

(* The power of the larger width is a multiple of the other. *)
LEMMA Pow2Divides ==
  ASSUME NEW n \in Nat, NEW d \in Nat
  PROVE  \E k \in Nat \ {0} : Pow2[n + d] = k * Pow2[n] /\ (d > 0 => \E j \in Nat \ {0} : k = 2 * j)
<1> DEFINE T == {m \in Nat : \E k \in Nat \ {0} : /\ Pow2[n + m] = k * Pow2[n]
                                                  /\ (m > 0 => \E j \in Nat \ {0} : k = 2 * j)}
<1>1. 0 \in T
  BY Pow2Step, Pow2[n + 0] = 1 * Pow2[n]
<1>2. ASSUME NEW m \in Nat, m \in T PROVE m + 1 \in T
  <2>1. PICK k \in Nat \ {0} : Pow2[n + m] = k * Pow2[n]
    BY <1>2
  <2>2. Pow2[n + (m + 1)] = 2 * Pow2[n + m]
    BY Pow2Step, n + m \in Nat, (n + m) + 1 = n + (m + 1)
  <2>3. Pow2[n] \in Nat
    BY Pow2Step
  <2>4. Pow2[n + (m + 1)] = (2 * k) * Pow2[n]
    BY <2>1, <2>2, <2>3
  <2>5. 2 * k \in Nat \ {0}
    OBVIOUS
  <2>6. QED
    BY <2>4, <2>5
<1> HIDE DEF T
<1>3. \A m \in Nat : m \in T
  BY <1>1, <1>2, SetInduction
<1>4. QED
  BY <1>3 DEF T

-----------------------------------------------------------------------------
(* Remainders *)

(* The remainder is the only one in range. *)
LEMMA ModUnique ==
  ASSUME NEW M \in Nat \ {0}, NEW x \in Int, NEW q \in Int, NEW r \in 0 .. M - 1, x = q * M + r
  PROVE  x % M = r
OBVIOUS

(* Multiples do not matter. *)
LEMMA ModMultiple ==
  ASSUME NEW M \in Nat \ {0}, NEW x \in Int, NEW k \in Int
  PROVE  (x + k * M) % M = x % M
<1> DEFINE r == x % M
           q == x \div M
<1>1. r \in 0 .. M - 1 /\ q \in Int /\ x = q * M + r
  OBVIOUS
<1> HIDE DEF r, q
<1>2. x + k * M = (q + k) * M + r
  BY <1>1
<1>3. QED
  BY <1>1, <1>2, ModUnique, x + k * M \in Int, q + k \in Int DEF r

(* Below the modulus a number is its own remainder; a negative one down to the
   modulus is the modulus less. *)
LEMMA ModSmall ==
  ASSUME NEW M \in Nat \ {0}, NEW x \in Int
  PROVE  /\ x % M \in 0 .. M - 1
         /\ x \in 0 .. M - 1 => x % M = x
         /\ x < 0 /\ x >= -M => x % M = x + M
         /\ (x + M) % M = x % M
         /\ (x - M) % M = x % M
<1>1. x % M \in 0 .. M - 1
  OBVIOUS
<1>2. x \in 0 .. M - 1 => x % M = x
  OBVIOUS
<1>3. (x + M) % M = x % M /\ (x - M) % M = x % M
  <2> DEFINE j == 1
             k == -1
  <2>1. j \in Int /\ k \in Int /\ x + j * M = x + M /\ x + k * M = x - M
    OBVIOUS
  <2> HIDE DEF j, k
  <2>2. (x + j * M) % M = x % M
    BY <2>1, ModMultiple
  <2>3. (x + k * M) % M = x % M
    BY <2>1, ModMultiple
  <2>4. QED
    BY <2>1, <2>2, <2>3
<1>4. x < 0 /\ x >= -M => x % M = x + M
  BY <1>3, x + M \in 0 .. M - 1 => (x + M) % M = x + M
<1>5. QED
  BY <1>1, <1>2, <1>3, <1>4

-----------------------------------------------------------------------------
(* Bit patterns and what they stand for.  M and H are the modulus of a type and its
   half: the signed numbers are -H .. H - 1. *)
WordTypes == IntegerTypes \cup PointerTypes
M(ty) == Pow2[Bits(ty)]
H(ty) == Pow2[Bits(ty) - 1]

(* Words of a type have 2 * H patterns, half of them negative when signed. *)
LEMMA Moduli ==
  ASSUME NEW ty \in WordTypes
  PROVE  /\ Bits(ty) \in Nat \ {0}
         /\ M(ty) \in Nat \ {0} /\ H(ty) \in Nat \ {0}
         /\ M(ty) = 2 * H(ty)
         /\ Bits(ty) < M(ty)
<1>1. Bits(ty) \in Nat \ {0}
  BY WidthAssumption DEF WordTypes, IntegerTypes, PointerTypes, Bits, SizeInBits, TargetPointerSizeInBits
<1>2. QED
  BY <1>1, Pow2Half DEF M, H

\* The types by their size.
LEMMA Sizes ==
  /\ SizeInBits("i8") = 8 /\ SizeInBits("i16") = 16 /\ SizeInBits("i32") = 32
  /\ SizeInBits("i64") = 64 /\ SizeInBits("ptr") = 64 /\ SizeInBits("gcptr") = 64
  /\ SizeInBits("r4") = 32 /\ SizeInBits("r8") = 64
  /\ Bits("ptr") = Bits("i64") /\ Bits("gcptr") = Bits("i64")
  /\ M("ptr") = M("i64") /\ M("gcptr") = M("i64")
BY DEF SizeInBits, PointerTypes, TargetPointerSizeInBits, Bits, M

(* The moduli of wider types are multiples of those of narrower ones. *)
LEMMA Wider ==
  ASSUME NEW s \in WordTypes, NEW t \in WordTypes, SizeInBits(s) <= SizeInBits(t)
  PROVE  /\ \E k \in Nat \ {0} : M(t) = k * M(s)
         /\ M(s) <= M(t) /\ H(s) <= H(t)
         /\ SizeInBits(s) < SizeInBits(t) => M(s) <= H(t)
<1>1. Bits(s) \in Nat \ {0} /\ Bits(t) \in Nat \ {0} /\ Bits(s) <= Bits(t)
      /\ (SizeInBits(s) < SizeInBits(t) => Bits(s) < Bits(t))
  BY WidthAssumption, Sizes, Moduli DEF WordTypes, IntegerTypes, PointerTypes, Bits
<1>2. PICK d \in Nat : Bits(t) = Bits(s) + d
  BY <1>1, Bits(t) - Bits(s) \in Nat, Bits(t) = Bits(s) + (Bits(t) - Bits(s))
<1>3. PICK k \in Nat \ {0} : /\ Pow2[Bits(s) + d] = k * Pow2[Bits(s)]
                             /\ d > 0 => \E j \in Nat \ {0} : k = 2 * j
  BY <1>1, <1>2, Pow2Divides
<1>4. M(t) = k * M(s)
  BY <1>2, <1>3 DEF M
<1>5. M(s) \in Nat \ {0} /\ M(t) \in Nat \ {0} /\ M(s) = 2 * H(s) /\ M(t) = 2 * H(t)
      /\ H(s) \in Nat \ {0} /\ H(t) \in Nat \ {0}
  BY Moduli
<1>6. M(s) <= k * M(s)
  BY <1>5
<1>7. ASSUME d > 0 PROVE M(s) <= H(t)
  <2>1. PICK j \in Nat \ {0} : k = 2 * j
    BY <1>3, <1>7
  <2>2. H(t) = j * M(s)
    BY <1>4, <1>5, <2>1
  <2>3. M(s) <= j * M(s)
    BY <1>5
  <2>4. QED
    BY <2>2, <2>3
<1>8. SizeInBits(s) < SizeInBits(t) => M(s) <= H(t)
  BY <1>1, <1>2, <1>7
<1>9. M(s) <= M(t) /\ H(s) <= H(t)
  BY <1>4, <1>5, <1>6
<1>10. QED
  BY <1>4, <1>8, <1>9

(* The signed number of a pattern, and the pattern of a signed number. *)
LEMMA SignedNumber ==
  ASSUME NEW h \in Nat \ {0}, NEW m \in Nat \ {0}, m = 2 * h, NEW v \in 0 .. m - 1
  PROVE  /\ (IF v >= h THEN v - m ELSE v) \in -h .. h - 1
         /\ (IF v >= h THEN v - m ELSE v) % m = v
<1>1. v \in Int /\ v - m \in Int
  OBVIOUS
<1>2. v % m = v
  BY <1>1, ModSmall
<1>3. (v - m) % m = v % m
  BY <1>1, ModSmall
<1>4. QED
  BY <1>2, <1>3

(* Reading the pattern of a number that fits, as signed, gives the number. *)
LEMMA SignedPattern ==
  ASSUME NEW h \in Nat \ {0}, NEW m \in Nat \ {0}, m = 2 * h, NEW x \in -h .. h - 1
  PROVE  (IF x % m >= h THEN (x % m) - m ELSE x % m) = x
<1>1. x \in Int
  OBVIOUS
<1>2. /\ x \in 0 .. m - 1 => x % m = x
      /\ x < 0 /\ x >= -m => x % m = x + m
  BY <1>1, ModSmall
<1>3. QED
  BY <1>2

(* The number a bit pattern stands for: the pattern, or the modulus less. *)
LEMMA ReadSigned ==
  ASSUME NEW ty \in WordTypes, NEW v \in Patterns(ty)
  PROVE  /\ Reading(Value(ty, v), TRUE) \in -H(ty) .. H(ty) - 1
         /\ Reading(Value(ty, v), TRUE) = IF v >= H(ty) THEN v - M(ty) ELSE v
         /\ Reading(Value(ty, v), FALSE) = v
         /\ Reading(Value(ty, v), TRUE) % M(ty) = v
         /\ v \in Nat /\ v < M(ty)
<1>1. M(ty) \in Nat \ {0} /\ H(ty) \in Nat \ {0} /\ M(ty) = 2 * H(ty)
  BY Moduli
<1>2. v \in 0 .. M(ty) - 1
  BY DEF Patterns, M
<1>3. /\ Reading(Value(ty, v), TRUE) = IF v >= H(ty) THEN v - M(ty) ELSE v
      /\ Reading(Value(ty, v), FALSE) = v
  BY DEF Reading, Value, Signed, M, H
<1>4. /\ (IF v >= H(ty) THEN v - M(ty) ELSE v) \in -H(ty) .. H(ty) - 1
      /\ (IF v >= H(ty) THEN v - M(ty) ELSE v) % M(ty) = v
  BY <1>1, <1>2, SignedNumber
<1>5. v \in Nat /\ v < M(ty)
  BY <1>1, <1>2
<1>6. QED
  BY <1>3, <1>4, <1>5, Zenon

(* A number the type holds is read back from its remainder. *)
LEMMA Ranges ==
  ASSUME NEW ty \in WordTypes
  PROVE  /\ IntRange(ty, TRUE) = -H(ty) .. H(ty) - 1
         /\ IntRange(ty, FALSE) = 0 .. M(ty) - 1
         /\ Patterns(ty) = 0 .. M(ty) - 1
BY DEF IntRange, Patterns, M, H

(* A number that fits is what its pattern is read as. *)
LEMMA ReadBack ==
  ASSUME NEW ty \in WordTypes, NEW x \in Int
  PROVE  /\ Wrap(x, Bits(ty)) = x % M(ty)
         /\ x % M(ty) \in Patterns(ty)
         /\ x \in IntRange(ty, TRUE) => Reading(Value(ty, x % M(ty)), TRUE) = x
         /\ x \in IntRange(ty, FALSE) => x % M(ty) = x
<1>1. M(ty) \in Nat \ {0} /\ H(ty) \in Nat \ {0} /\ M(ty) = 2 * H(ty)
  BY Moduli
<1>2. Wrap(x, Bits(ty)) = x % M(ty)
  BY DEF M, Wrap
<1>3. x % M(ty) \in 0 .. M(ty) - 1
  BY <1>1, ModSmall
<1>4. Reading(Value(ty, x % M(ty)), TRUE)
              = IF x % M(ty) >= H(ty) THEN (x % M(ty)) - M(ty) ELSE x % M(ty)
  BY DEF Reading, Value, Signed, M, H
<1>5. x \in 0 .. M(ty) - 1 => x % M(ty) = x
  BY <1>1, ModSmall
<1>6. ASSUME x \in -H(ty) .. H(ty) - 1
      PROVE  (IF x % M(ty) >= H(ty) THEN (x % M(ty)) - M(ty) ELSE x % M(ty)) = x
  BY <1>1, <1>6, SignedPattern
<1>7. QED
  BY <1>2, <1>3, <1>4, <1>5, <1>6, Ranges, Zenon

(* An operand of a word type. *)
LEMMA Reads ==
  ASSUME NEW a, a.ty \in WordTypes, a.v \in Patterns(a.ty)
  PROVE  /\ Reading(a, TRUE) \in -H(a.ty) .. H(a.ty) - 1 /\ Reading(a, TRUE) \in Int
         /\ Reading(a, TRUE) = IF a.v >= H(a.ty) THEN a.v - M(a.ty) ELSE a.v
         /\ Reading(a, FALSE) = a.v
         /\ Reading(a, TRUE) % M(a.ty) = a.v
         /\ a.v \in Nat /\ a.v \in Int /\ a.v < M(a.ty)
<1>1. Reading(a, TRUE) = Reading(Value(a.ty, a.v), TRUE) /\ Reading(a, FALSE) = Reading(Value(a.ty, a.v), FALSE)
  BY DEF Reading, Value
<1>2. H(a.ty) \in Nat
  BY Moduli
<1> DEFINE r == Reading(a, TRUE)
<1>3. /\ r \in -H(a.ty) .. H(a.ty) - 1
      /\ r = IF a.v >= H(a.ty) THEN a.v - M(a.ty) ELSE a.v
      /\ Reading(a, FALSE) = a.v
      /\ r % M(a.ty) = a.v
      /\ a.v \in Nat /\ a.v < M(a.ty)
  BY <1>1, ReadSigned, Zenon
<1> HIDE DEF r
<1>4. r \in Int /\ a.v \in Int
  BY <1>2, <1>3
<1>5. QED
  BY <1>3, <1>4, Zenon DEF r

(* Extension to a type at least as wide keeps the number. *)
LEMMA Extends ==
  ASSUME NEW a, a.ty \in WordTypes, a.v \in Patterns(a.ty),
         NEW t \in WordTypes, SizeInBits(a.ty) <= SizeInBits(t)
  PROVE  /\ Reading(a, TRUE) \in IntRange(t, TRUE) /\ a.v \in IntRange(t, FALSE)
         /\ IntCast(a, t, TRUE) = Value(t, Reading(a, TRUE) % M(t))
         /\ Reading(IntCast(a, t, TRUE), TRUE) = Reading(a, TRUE)
         /\ IntCast(a, t, FALSE) = Value(t, a.v)
<1> DEFINE x == Reading(a, TRUE)
<1>1. /\ x \in -H(a.ty) .. H(a.ty) - 1 /\ x \in Int /\ Reading(a, FALSE) = a.v
      /\ a.v \in Nat /\ a.v < M(a.ty)
  BY Reads
<1>2. /\ M(a.ty) <= M(t) /\ H(a.ty) <= H(t) /\ M(a.ty) \in Nat /\ M(t) \in Nat
      /\ H(a.ty) \in Nat /\ H(t) \in Nat
  BY Moduli, Wider
<1> HIDE DEF x
<1>3. x \in -H(t) .. H(t) - 1 /\ a.v \in 0 .. M(t) - 1
  BY <1>1, <1>2
<1>4. x \in IntRange(t, TRUE) /\ a.v \in IntRange(t, FALSE)
  BY <1>3, Ranges
<1>5. /\ Wrap(x, Bits(t)) = x % M(t) /\ Reading(Value(t, x % M(t)), TRUE) = x
      /\ Wrap(a.v, Bits(t)) = a.v
  BY <1>1, <1>4, ReadBack, a.v \in Int
<1>6. QED
  BY <1>1, <1>4, <1>5 DEF IntCast, x

-----------------------------------------------------------------------------
(* Floating-point numbers *)

(* A finite set of integers has a greatest and a least element. *)
Extremes(S) == /\ \E x \in S : \A y \in S : x >= y
               /\ \E x \in S : \A y \in S : x =< y

(* A finite set of integers has a largest and a smallest element. *)
LEMMA FiniteExtremes ==
  ASSUME NEW S \in SUBSET Int, IsFiniteSet(S), S # {}
  PROVE  Extremes(S)
<1> DEFINE T == {n \in Nat : \A U \in SUBSET Int :
                                IsFiniteSet(U) /\ Cardinality(U) = n + 1 => Extremes(U)}
<1>1. ASSUME NEW n \in Nat, NEW U \in SUBSET Int, IsFiniteSet(U), Cardinality(U) = n + 1,
             n # 0 => n - 1 \in T
      PROVE  Extremes(U)
  <2>1. U # {}
    <3>1. n + 1 # 0
      OBVIOUS
    <3>2. QED
      BY <1>1, <3>1, FS_EmptySet, Zenon
  <2>2. PICK z \in U : TRUE
    BY <2>1
  <2> DEFINE V == U \ {z}
  <2>3. IsFiniteSet(V) /\ Cardinality(V) = n
    <3>1. IsFiniteSet(V) /\ Cardinality(V) = Cardinality(U) - 1
      BY <1>1, <2>2, FS_RemoveElement, Zenon
    <3>2. QED
      BY <1>1, <3>1
  <2>4. CASE V = {}
    <3>1. \A y \in U : y = z
      BY <2>4
    <3>2. QED
      BY <2>2, <3>1 DEF Extremes
  <2>5. CASE V # {}
    <3>1. n # 0
      BY <2>3, <2>5, FS_EmptySet
    <3>2. Extremes(V)
      BY <1>1, <2>3, <3>1, (n - 1) + 1 = n
    <3>3. PICK x \in V : \A y \in V : x >= y
      BY <3>2 DEF Extremes
    <3>4. PICK w \in V : \A y \in V : w =< y
      BY <3>2 DEF Extremes
    <3>5. \E u \in U : \A y \in U : u >= y
      <4>1. CASE x >= z
        BY <3>3, <4>1
      <4>2. CASE ~(x >= z)
        BY <2>2, <3>3, <4>2
      <4>3. QED
        BY <4>1, <4>2
    <3>6. \E u \in U : \A y \in U : u =< y
      <4>1. CASE w =< z
        BY <3>4, <4>1
      <4>2. CASE ~(w =< z)
        BY <2>2, <3>4, <4>2
      <4>3. QED
        BY <4>1, <4>2
    <3>7. QED
      BY <3>5, <3>6 DEF Extremes
  <2>6. QED
    BY <2>4, <2>5
<1>2. 0 \in T
  BY <1>1
<1>3. ASSUME NEW n \in Nat, n \in T PROVE n + 1 \in T
  BY <1>1, <1>3, n + 1 \in Nat, (n + 1) - 1 = n
<1> HIDE DEF T
<1>4. \A n \in Nat : n \in T
  BY <1>2, <1>3, SetInduction
<1>5. Cardinality(S) \in Nat /\ Cardinality(S) # 0
  BY FS_CardinalityType, FS_EmptySet
<1>6. Cardinality(S) - 1 \in Nat /\ (Cardinality(S) - 1) + 1 = Cardinality(S)
  BY <1>5
<1>7. QED
  BY <1>4, <1>6 DEF T

(* Max and Min are those elements. *)
LEMMA MaxMin ==
  ASSUME NEW S \in SUBSET Int, IsFiniteSet(S), S # {}
  PROVE  /\ Max(S) \in S /\ \A y \in S : y <= Max(S)
         /\ Min(S) \in S /\ \A y \in S : Min(S) <= y
<1>1. PICK x \in S : \A y \in S : x >= y
  BY FiniteExtremes DEF Extremes
<1>2. PICK w \in S : \A y \in S : w =< y
  BY FiniteExtremes DEF Extremes
<1>3. Max(S) \in S /\ \A y \in S : Max(S) >= y
  BY <1>1 DEF Max
<1>4. Min(S) \in S /\ \A y \in S : Min(S) =< y
  BY <1>2 DEF Min
<1>5. QED
  BY <1>3, <1>4

(* The numbers of a format, with the infinities and NaN. *)
Numbers(ty) == Rep(ty) \cup {Inf, NegInf, NaN}

(* The infinities and NaN lie outside the representable numbers. *)
LEMMA Infinities ==
  /\ Inf \in Int /\ NegInf \in Int /\ NaN \in Int
  /\ \A x \in DoubleRep : x \in Int /\ x < Inf /\ x > NegInf /\ x < NaN
  /\ NegInf < 0 /\ Inf > 0 /\ Inf # NegInf /\ NaN # Inf /\ NaN # NegInf
<1>1. 0 \in DoubleRep
  BY RepAssumption
<1>2. /\ Max(DoubleRep) \in DoubleRep /\ \A y \in DoubleRep : y <= Max(DoubleRep)
      /\ Min(DoubleRep) \in DoubleRep /\ \A y \in DoubleRep : Min(DoubleRep) <= y
  BY <1>1, RepAssumption, MaxMin
<1> DEFINE mx == Max(DoubleRep)
           mn == Min(DoubleRep)
<1> HIDE DEF mx, mn
<1>3. /\ mx \in Int /\ \A y \in DoubleRep : y \in Int /\ y <= mx
      /\ mn \in Int /\ \A y \in DoubleRep : mn <= y
      /\ 0 <= mx /\ mn <= 0
  BY <1>1, <1>2, RepAssumption DEF mx, mn
<1>4. Inf = mx + 2 /\ NegInf = mn - 2 /\ NaN = mx + 4
  BY <1>3 DEF Inf, NegInf, NaN, mx, mn
<1>5. QED
  BY <1>3, <1>4

(* The numbers of a floating-point type. *)
LEMMA Formats ==
  ASSUME NEW ty \in FloatTypes
  PROVE  /\ Rep(ty) \subseteq Int /\ IsFiniteSet(Rep(ty)) /\ 0 \in Rep(ty)
         /\ Rep(ty) \subseteq DoubleRep
         /\ \A x \in Rep(ty) : IsFinite(x)
         /\ Numbers(ty) \subseteq Int
<1>1. Rep(ty) \subseteq DoubleRep /\ 0 \in Rep(ty)
  BY RepAssumption DEF Rep
<1>2. IsFiniteSet(Rep(ty)) /\ Rep(ty) \subseteq Int
  BY <1>1, RepAssumption, FS_Subset
<1>3. \A x \in Rep(ty) : IsFinite(x)
  BY <1>1, Infinities DEF IsFinite
<1>4. Numbers(ty) \subseteq Int
  BY <1>2, Infinities DEF Numbers
<1>5. QED
  BY <1>1, <1>2, <1>3, <1>4

(* Rounding gives a number of the format. *)
LEMMA RoundType ==
  ASSUME NEW ty \in FloatTypes, NEW x \in Int
  PROVE  Round(x, ty) \in Numbers(ty)
<1> DEFINE lo == {r \in Rep(ty) : r <= x}
           hi == {r \in Rep(ty) : r >= x}
<1>1. /\ Rep(ty) \subseteq Int /\ IsFiniteSet(Rep(ty)) /\ 0 \in Rep(ty)
      /\ Max(Rep(ty)) \in Int /\ Min(Rep(ty)) \in Int
  BY Formats, MaxMin
<1>2. ASSUME x >= 0 PROVE Max(lo) \in Rep(ty)
  <2>1. lo \in SUBSET Int /\ lo # {} /\ lo \in SUBSET Rep(ty)
    BY <1>1, <1>2
  <2>2. IsFiniteSet(lo)
    BY <1>1, <2>1, FS_Subset
  <2>3. QED
    BY <2>1, <2>2, MaxMin
<1>3. ASSUME ~(x >= 0) PROVE Min(hi) \in Rep(ty)
  <2>1. hi \in SUBSET Int /\ hi # {} /\ hi \in SUBSET Rep(ty)
    BY <1>1, <1>3
  <2>2. IsFiniteSet(hi)
    BY <1>1, <2>1, FS_Subset
  <2>3. QED
    BY <2>1, <2>2, MaxMin
<1>4. \/ ~IsFinite(x) /\ Round(x, ty) = x
      \/ Round(x, ty) \in {Inf, NegInf}
      \/ x >= 0 /\ Round(x, ty) = Max(lo)
      \/ ~(x >= 0) /\ Round(x, ty) = Min(hi)
  <2>1. Round(x, ty) = IF ~IsFinite(x) THEN x
                       ELSE IF x > Max(Rep(ty)) THEN Inf
                       ELSE IF x < Min(Rep(ty)) THEN NegInf
                       ELSE IF x >= 0 THEN Max(lo) ELSE Min(hi)
    BY Zenon DEF Round
  <2> HIDE DEF lo, hi
  <2>2. QED
    BY <2>1
<1> HIDE DEF lo, hi
<1>5. QED
  BY <1>2, <1>3, <1>4 DEF Numbers, IsFinite

(* A number that the format holds is not changed. *)
LEMMA RoundSame ==
  ASSUME NEW ty \in FloatTypes, NEW x \in Numbers(ty)
  PROVE  Round(x, ty) = x
<1>1. CASE ~IsFinite(x)
  BY <1>1 DEF Round
<1>2. CASE IsFinite(x)
  <2> DEFINE lo == {r \in Rep(ty) : r <= x}
             hi == {r \in Rep(ty) : r >= x}
  <2>1. x \in Rep(ty) /\ Rep(ty) \subseteq Int /\ IsFiniteSet(Rep(ty))
    BY <1>2, Formats DEF Numbers, IsFinite
  <2>2. x \in Int /\ x <= Max(Rep(ty)) /\ Min(Rep(ty)) <= x
        /\ Max(Rep(ty)) \in Int /\ Min(Rep(ty)) \in Int
    BY <2>1, MaxMin
  <2>3. /\ lo \in SUBSET Int /\ x \in lo /\ lo \in SUBSET Rep(ty)
        /\ hi \in SUBSET Int /\ x \in hi /\ hi \in SUBSET Rep(ty)
        /\ \A y \in lo : y <= x
        /\ \A y \in hi : y >= x
    BY <2>1, <2>2
  <2>4. IsFiniteSet(lo) /\ IsFiniteSet(hi)
    BY <2>1, <2>3, FS_Subset
  <2> HIDE DEF lo, hi
  <2>5. Max(lo) \in lo /\ x <= Max(lo)
    BY <2>3, <2>4, MaxMin
  <2>6. Min(hi) \in hi /\ Min(hi) <= x
    BY <2>3, <2>4, MaxMin
  <2>7. Max(lo) = x /\ Min(hi) = x
    <3>1. Max(lo) \in Int /\ Max(lo) <= x /\ Min(hi) \in Int /\ Min(hi) >= x
      BY <2>3, <2>5, <2>6
    <3>2. QED
      BY <2>2, <2>5, <2>6, <3>1
  <2>8. Round(x, ty) = Max(lo) \/ Round(x, ty) = Min(hi)
    <3>1. Round(x, ty) = IF ~IsFinite(x) THEN x
                         ELSE IF x > Max(Rep(ty)) THEN Inf
                         ELSE IF x < Min(Rep(ty)) THEN NegInf
                         ELSE IF x >= 0 THEN Max(lo) ELSE Min(hi)
      BY Zenon DEF Round, lo, hi
    <3>2. QED
      BY <1>2, <2>2, <3>1
  <2>9. QED
    BY <2>7, <2>8
<1>3. QED
  BY <1>1, <1>2

-----------------------------------------------------------------------------
(* The operands *)

Words == {"i32", "i64"} \cup PointerTypes

(* A value of the stack is a word or a floating-point number. *)
LEMMA Operand ==
  ASSUME NEW a \in Values
  PROVE  /\ a = Value(a.ty, a.v)
         /\ \/ a.ty \in Words /\ a.v \in Patterns(a.ty)
            \/ a.ty \in FloatTypes /\ a.v \in Numbers(a.ty)
BY DEF Values, Value, Numbers, Words, StackTypes

(* One that is no float is a word. *)
LEMMA WordOperand ==
  ASSUME NEW a \in Values, a.ty \notin FloatTypes
  PROVE  a.ty \in Words /\ a.ty \in WordTypes /\ a.v \in Patterns(a.ty)
BY Operand DEF Words, WordTypes, IntegerTypes

(* One that is a float has a number of its type, which is also a double. *)
LEMMA FloatOperand ==
  ASSUME NEW a \in Values, a.ty \in FloatTypes
  PROVE  a.v \in Numbers(a.ty) /\ a.v \in Numbers("r8")
<1>1. a.v \in Numbers(a.ty)
  BY Operand DEF Words, FloatTypes, PointerTypes
<1>2. Numbers(a.ty) \subseteq Numbers("r8")
  BY RepAssumption DEF Numbers, Rep
<1>3. QED
  BY <1>1, <1>2

(* Words and numbers are values of the stack. *)
LEMMA IsValue ==
  /\ \A ty \in Words : \A x \in Patterns(ty) : Value(ty, x) \in Values
  /\ \A ty \in FloatTypes : \A x \in Numbers(ty) : Value(ty, x) \in Values
<1>1. ASSUME NEW ty \in Words, NEW x \in Patterns(ty) PROVE Value(ty, x) \in Values
  <2>1. x \in Int
    <3>1. ty \in WordTypes
      BY DEF WordTypes, IntegerTypes, Words
    <3>2. x \in 0 .. M(ty) - 1 /\ M(ty) \in Nat
      BY <3>1, Ranges, Moduli
    <3>3. QED
      BY <3>2
  <2>2. ty \in StackTypes /\ ty \notin FloatTypes
    BY DEF StackTypes, Words, FloatTypes, PointerTypes
  <2>3. QED
    BY <2>1, <2>2 DEF Values, Value
<1>2. ASSUME NEW ty \in FloatTypes, NEW x \in Numbers(ty) PROVE Value(ty, x) \in Values
  BY Formats DEF Values, Value, Numbers, StackTypes
<1>3. QED
  BY <1>1, <1>2

-----------------------------------------------------------------------------
(* Comparisons *)

(* On floats the predicate of fcmp decides what IL documents, NaN included. *)
LEMMA FloatComparison ==
  ASSUME NEW a \in Values, NEW b \in Values, NEW opc \in CondBranchOpcode,
         a.ty \in FloatTypes, b.ty \in FloatTypes
  PROVE  Condition(opc, a, b) = ILHolds(opc, a, b)
<1> DEFINE p == prepareArgsForCompare(a, b)
<1>1. a.v \in Numbers("r8") /\ b.v \in Numbers("r8")
  BY FloatOperand
<1>2. Round(a.v, "r8") = a.v /\ Round(b.v, "r8") = b.v
  BY <1>1, RoundSame DEF FloatTypes
<1>3. /\ a.ty \in {"r4", "r8"} /\ b.ty \in {"r4", "r8"}
      /\ SizeInBits("r4") = 32 /\ SizeInBits("r8") = 64
  BY Sizes DEF FloatTypes
<1>4. p[1].ty \in FloatTypes /\ p[1].v = a.v /\ p[2].v = b.v
  <2>1. CASE a.ty = "r4" /\ b.ty = "r8"
    BY <1>2, <1>3, <2>1 DEF prepareArgsForCompare, FPCast, Value, FloatTypes
  <2>2. CASE a.ty = "r8" /\ b.ty = "r4"
    BY <1>2, <1>3, <2>2 DEF prepareArgsForCompare, FPCast, Value, FloatTypes
  <2>3. CASE a.ty = b.ty
    BY <1>3, <2>3 DEF prepareArgsForCompare, Value, FloatTypes, PointerTypes
  <2>4. QED
    BY <1>3, <2>1, <2>2, <2>3
<1>5. CmpMap(opc).rel = opc.rel /\ CmpMap(opc).unordered = opc.un
  BY DEF CmpMap
<1> HIDE DEF p
<1>6. QED
  BY <1>4, <1>5, Zenon DEF Condition, ILHolds, FCmp, p

(* A word that is not negative is the same number in a wider type. *)
LEMMA NotNegative ==
  ASSUME NEW a, a.ty \in WordTypes, a.v \in Patterns(a.ty), NEW t \in WordTypes,
         SizeInBits(a.ty) <= SizeInBits(t), ~(Reading(a, TRUE) < 0)
  PROVE  Wrap(Reading(a, TRUE), Bits(t)) = a.v
<1>1. /\ Reading(a, TRUE) = IF a.v >= H(a.ty) THEN a.v - M(a.ty) ELSE a.v
      /\ Reading(a, FALSE) = a.v /\ a.v \in Nat /\ a.v < M(a.ty)
  BY Reads
<1>2. M(a.ty) \in Nat
  BY Moduli
<1>3. Reading(a, TRUE) = a.v
  <2> DEFINE r == Reading(a, TRUE)
  <2>1. ~(r < 0) /\ r = IF a.v >= H(a.ty) THEN a.v - M(a.ty) ELSE a.v
    BY <1>1, Zenon
  <2> HIDE DEF r
  <2>2. r = a.v
    BY <1>1, <1>2, <2>1
  <2>3. QED
    BY <2>2, Zenon DEF r
<1>4. Value(t, Wrap(a.v, Bits(t))) = Value(t, a.v)
  BY <1>1, Extends DEF IntCast
<1>5. Wrap(a.v, Bits(t)) = a.v
  BY <1>4 DEF Value
<1>6. QED
  BY <1>3, <1>5

(* On words icmp decides what IL documents, signed or unsigned. *)
LEMMA WordComparison ==
  ASSUME NEW a \in Values, NEW b \in Values, NEW opc \in CondBranchOpcode,
         a.ty \notin FloatTypes, b.ty \notin FloatTypes, CompareAllowed(a, b),
         ~SignExtendedOperand(opc, a, b)
  PROVE  Condition(opc, a, b) = ILHolds(opc, a, b)
<1> DEFINE p == prepareArgsForCompare(a, b)
           w == IF SizeInBits(a.ty) > SizeInBits(b.ty) THEN Bits(a.ty) ELSE Bits(b.ty)
<1>1. /\ a.ty \in WordTypes /\ b.ty \in WordTypes /\ a.ty \in Words /\ b.ty \in Words
      /\ a.v \in Patterns(a.ty) /\ b.v \in Patterns(b.ty)
  BY WordOperand
<1>2. \/ a.ty = "i32" /\ b.ty = "i64"
      \/ a.ty = "i64" /\ b.ty = "i32"
      \/ a.ty = "i32" /\ b.ty = "i32"
      \/ a.ty \in PointerTypes \cup {"i64"} /\ b.ty \in PointerTypes \cup {"i64"}
  BY <1>1 DEF CompareAllowed, FloatTypes, Words
<1>3. /\ Reading(a, TRUE) \in Int /\ Reading(b, TRUE) \in Int
      /\ Reading(a, TRUE) % M(a.ty) = a.v /\ Reading(b, TRUE) % M(b.ty) = b.v
      /\ Reading(a, FALSE) = a.v /\ Reading(b, FALSE) = b.v
  BY <1>1, Reads
<1>4. /\ Wrap(Reading(a, TRUE), Bits(a.ty)) = a.v
      /\ Wrap(Reading(b, TRUE), Bits(b.ty)) = b.v
  BY <1>3 DEF Wrap, M
<1>5. /\ p[1].ty \notin FloatTypes
      /\ Reading(p[1], TRUE) = Reading(a, TRUE) /\ Reading(p[2], TRUE) = Reading(b, TRUE)
      /\ Reading(p[1], FALSE) = Wrap(Reading(a, TRUE), w)
      /\ Reading(p[2], FALSE) = Wrap(Reading(b, TRUE), w)
  <2>1. CASE a.ty = "i32" /\ b.ty = "i64"
    <3>0. /\ SizeInBits(a.ty) < SizeInBits(b.ty) /\ ~(SizeInBits(a.ty) > SizeInBits(b.ty))
          /\ SizeInBits(a.ty) <= SizeInBits("i64") /\ "i64" \notin FloatTypes /\ "i64" \in WordTypes
      BY <2>1, Sizes DEF FloatTypes, WordTypes, IntegerTypes
    <3>1. p = <<IntCast(a, "i64", TRUE), b>> /\ w = Bits("i64")
      BY <2>1, <3>0, Zenon DEF prepareArgsForCompare
    <3>2. Reading(IntCast(a, "i64", TRUE), TRUE) = Reading(a, TRUE)
      BY <1>1, <3>0, Extends, Zenon
    <3>3. /\ IntCast(a, "i64", TRUE).ty = "i64"
          /\ Reading(IntCast(a, "i64", TRUE), FALSE) = Wrap(Reading(a, TRUE), Bits("i64"))
      BY DEF IntCast, Value, Reading
    <3>4. p[1] = IntCast(a, "i64", TRUE) /\ p[2] = b
      BY <3>1
    <3> HIDE DEF p, w
    <3>5. QED
      BY <1>3, <1>4, <2>1, <3>0, <3>1, <3>2, <3>3, <3>4, Zenon
  <2>2. CASE a.ty = "i64" /\ b.ty = "i32"
    <3>0. /\ SizeInBits(a.ty) > SizeInBits(b.ty) /\ ~(SizeInBits(a.ty) < SizeInBits(b.ty))
          /\ SizeInBits(b.ty) <= SizeInBits("i64") /\ "i64" \notin FloatTypes /\ "i64" \in WordTypes
      BY <2>2, Sizes DEF FloatTypes, WordTypes, IntegerTypes
    <3>1. p = <<a, IntCast(b, "i64", TRUE)>> /\ w = Bits("i64")
      BY <2>2, <3>0, Zenon DEF prepareArgsForCompare
    <3>2. Reading(IntCast(b, "i64", TRUE), TRUE) = Reading(b, TRUE)
      BY <1>1, <3>0, Extends, Zenon
    <3>3. Reading(IntCast(b, "i64", TRUE), FALSE) = Wrap(Reading(b, TRUE), Bits("i64"))
      BY DEF IntCast, Value, Reading
    <3>4. p[1] = a /\ p[2] = IntCast(b, "i64", TRUE)
      BY <3>1
    <3> HIDE DEF p, w
    <3>5. QED
      BY <1>3, <1>4, <2>2, <3>0, <3>1, <3>2, <3>3, <3>4, Zenon
  <2>3. CASE Bits(a.ty) = Bits(b.ty) /\ SizeInBits(a.ty) = SizeInBits(b.ty) /\ SizeInBits(a.ty) \in Nat
    <3>1. /\ p = IF a.ty \in PointerTypes /\ b.ty \notin PointerTypes
                 THEN <<Value(b.ty, a.v), b>> ELSE <<a, Value(a.ty, b.v)>>
          /\ w = Bits(b.ty) /\ w = Bits(a.ty)
      BY <2>3 DEF prepareArgsForCompare
    <3>2. /\ Reading(Value(b.ty, a.v), TRUE) = Reading(a, TRUE)
          /\ Reading(Value(a.ty, b.v), TRUE) = Reading(b, TRUE)
          /\ Reading(Value(b.ty, a.v), FALSE) = a.v
          /\ Reading(Value(a.ty, b.v), FALSE) = b.v
          /\ Value(b.ty, a.v).ty = b.ty
      BY <2>3 DEF Reading, Value
    <3> HIDE DEF p, w
    <3>3. QED
      BY <1>3, <1>4, <2>3, <3>1, <3>2
  <2> HIDE DEF p, w
  <2>4. CASE a.ty = "i32" /\ b.ty = "i32"
    <3>1. Bits(a.ty) = Bits(b.ty) /\ SizeInBits(a.ty) = SizeInBits(b.ty) /\ SizeInBits(a.ty) \in Nat
      BY <2>4, Sizes
    <3>2. QED
      BY <2>3, <3>1, Zenon
  <2>5. CASE a.ty \in PointerTypes \cup {"i64"} /\ b.ty \in PointerTypes \cup {"i64"}
    <3>1. SizeInBits(a.ty) = 64 /\ SizeInBits(b.ty) = 64
      BY <2>5, Sizes DEF PointerTypes
    <3>2. Bits(a.ty) = Bits(b.ty) /\ SizeInBits(a.ty) = SizeInBits(b.ty) /\ SizeInBits(a.ty) \in Nat
      BY <3>1 DEF Bits
    <3>3. QED
      BY <2>3, <3>2, Zenon
  <2>6. QED
    BY <1>2, <2>1, <2>2, <2>4, <2>5
<1>6. CmpMap(opc).rel = opc.rel /\ CmpMap(opc).signed = ~opc.un
  BY DEF CmpMap
<1>7. opc.un \in BOOLEAN
  BY DEF CondBranchOpcode, CmpOpcode
<1> DEFINE x == Reading(a, TRUE)
           y == Reading(b, TRUE)
<1> HIDE DEF p, w, x, y
<1>8. CASE opc.un = TRUE
  <2>0. Wrap(x, w) = a.v /\ Wrap(y, w) = b.v
    <3>1. CASE a.ty = "i32" /\ b.ty = "i64"
      <4>0. ~(Reading(a, TRUE) < 0)
        BY <1>8, <3>1, Zenon DEF SignExtendedOperand
      <4>1. /\ SizeInBits(a.ty) <= SizeInBits("i64")
            /\ "i64" \in WordTypes /\ ~(SizeInBits(a.ty) > SizeInBits(b.ty))
        BY <3>1, Sizes DEF WordTypes, IntegerTypes
      <4>2. w = Bits("i64")
        BY <3>1, <4>1, Zenon DEF w
      <4>3. QED
        BY <1>1, <1>4, <3>1, <4>0, <4>1, <4>2, NotNegative, Zenon DEF x, y
    <3>2. CASE a.ty = "i64" /\ b.ty = "i32"
      <4>0. ~(Reading(b, TRUE) < 0)
        BY <1>8, <3>2, Zenon DEF SignExtendedOperand
      <4>1. /\ SizeInBits(b.ty) <= SizeInBits("i64")
            /\ "i64" \in WordTypes /\ SizeInBits(a.ty) > SizeInBits(b.ty)
        BY <3>2, Sizes DEF WordTypes, IntegerTypes
      <4>2. w = Bits("i64")
        BY <3>2, <4>1, Zenon DEF w
      <4>3. QED
        BY <1>1, <1>4, <3>2, <4>0, <4>1, <4>2, NotNegative, Zenon DEF x, y
    <3>3. CASE Bits(a.ty) = Bits(b.ty)
      BY <1>4, <3>3, Zenon DEF w, x, y
    <3>4. CASE a.ty = "i32" /\ b.ty = "i32"
      BY <3>3, <3>4
    <3>5. CASE a.ty \in PointerTypes \cup {"i64"} /\ b.ty \in PointerTypes \cup {"i64"}
      <4>1. SizeInBits(a.ty) = 64 /\ SizeInBits(b.ty) = 64
        BY <3>5, Sizes DEF PointerTypes
      <4>2. Bits(a.ty) = Bits(b.ty)
        BY <4>1 DEF Bits
      <4>3. QED
        BY <3>3, <4>2, Zenon
    <3>6. QED
      BY <1>2, <3>1, <3>2, <3>4, <3>5
  <2>1. Condition(opc, a, b) = Related(opc.rel, a.v, b.v)
    <3>1. CmpMap(opc).signed = FALSE
      BY <1>6, <1>8
    <3>2. QED
      BY <1>5, <1>6, <2>0, <3>1, Zenon DEF Condition, ICmp, p, x, y
  <2>2. ILHolds(opc, a, b) = Related(opc.rel, a.v, b.v)
    <3>1. Num(a, opc.un) = a.v /\ Num(b, opc.un) = b.v
      BY <1>8 DEF Num, Reading
    <3>2. QED
      BY <3>1, Zenon DEF ILHolds
  <2>3. QED
    BY <2>1, <2>2, Zenon
<1>9. CASE opc.un = FALSE
  <2>1. Condition(opc, a, b) = Related(opc.rel, x, y)
    <3>1. CmpMap(opc).signed = TRUE
      BY <1>6, <1>9
    <3>2. QED
      BY <1>5, <1>6, <3>1, Zenon DEF Condition, ICmp, p, x, y
  <2>2. ILHolds(opc, a, b) = Related(opc.rel, x, y)
    <3>1. Num(a, opc.un) = x /\ Num(b, opc.un) = y
      BY <1>9 DEF Num, Reading, x, y
    <3>2. QED
      BY <3>1, Zenon DEF ILHolds
  <2>3. QED
    BY <2>1, <2>2, Zenon
<1>10. QED
  BY <1>7, <1>8, <1>9

(* The condition of cmp and of the branches is the relation between the numbers. *)
LEMMA Comparison ==
  ASSUME NEW a \in Values, NEW b \in Values, NEW opc \in CondBranchOpcode, CompareAllowed(a, b),
         ~SignExtendedOperand(opc, a, b)
  PROVE  Condition(opc, a, b) = ILHolds(opc, a, b)
<1>1. CASE a.ty \in FloatTypes
  <2>1. b.ty \in FloatTypes
    BY <1>1 DEF CompareAllowed, FloatTypes, PointerTypes
  <2>2. QED
    BY <1>1, <2>1, FloatComparison
<1>2. CASE a.ty \notin FloatTypes
  <2>1. b.ty \notin FloatTypes
    BY <1>2 DEF CompareAllowed, FloatTypes, PointerTypes
  <2>2. QED
    BY <1>2, <2>1, WordComparison
<1>3. QED
  BY <1>1, <1>2

-----------------------------------------------------------------------------
(* The operations on integers *)

(* A quotient is an integer, and none grows the dividend. *)
LEMMA QuotientType ==
  ASSUME NEW x \in Int, NEW y \in Int, y # 0
  PROVE  /\ Quotient(x, y) \in Int
         /\ x >= 0 /\ y > 0 => Quotient(x, y) \in 0 .. x
<1> DEFINE ax == IF x < 0 THEN -x ELSE x
           ay == IF y < 0 THEN -y ELSE y
           q == ax \div ay
<1>1. ax \in Nat /\ ay \in Nat \ {0} /\ (x >= 0 => ax = x)
  OBVIOUS
<1>2. Quotient(x, y) = IF (x < 0) = (y < 0) THEN q ELSE -q
  BY Zenon DEF Quotient
<1> HIDE DEF ax, ay
<1>3. q \in Int /\ q >= 0 /\ q <= ax
  BY <1>1
<1> HIDE DEF q
<1>4. QED
  BY <1>1, <1>2, <1>3

(* The exact result of an operation is an integer. *)
LEMMA ExactType ==
  ASSUME NEW x \in Int, NEW y \in Int,
         NEW op \in {"Add", "Sub", "Mul", "Div", "Rem"}, op \in {"Div", "Rem"} => y # 0
  PROVE  Exact(op, x, y) \in Int
<1>1. CASE op \in {"Add", "Sub"}
  BY <1>1 DEF Exact
<1>2. CASE op = "Mul"
  BY <1>2 DEF Exact
<1>3. CASE op \in {"Div", "Rem"}
  <2>1. Quotient(x, y) \in Int
    BY <1>3, QuotientType
  <2>2. QED
    BY <1>3, <2>1 DEF Exact
<1>4. QED
  BY <1>1, <1>2, <1>3

(* The sum of the bits below a power of two stays below it. *)
LEMMA LogicalType ==
  ASSUME NEW op \in {"And", "Or", "Xor"}, NEW x \in Nat, NEW y \in Nat, NEW w \in Nat
  PROVE  Logical(op, x, y, w) \in 0 .. Pow2[w] - 1
<1> DEFINE bit(n) == BitOf(op, (x \div Pow2[n]) % 2, (y \div Pow2[n]) % 2)
           G == [p \in Nat \X Int |-> p[2] + Pow2[p[1]] * bit(p[1])]
           F == CHOOSE f : f = [n \in Nat |-> IF n = 0 THEN 0 ELSE f[n - 1] + Pow2[n - 1] * bit(n - 1)]
<1>1. ASSUME NEW n \in Nat PROVE bit(n) \in 0 .. 1 /\ Pow2[n] \in Nat \ {0}
  <2> DEFINE p == (x \div Pow2[n]) % 2
             q == (y \div Pow2[n]) % 2
  <2>1. Pow2[n] \in Nat \ {0}
    BY Pow2Step
  <2>2. p \in 0 .. 1 /\ q \in 0 .. 1
    BY <2>1
  <2> HIDE DEF p, q
  <2>3. p \in {0, 1} /\ q \in {0, 1}
    BY <2>2
  <2>4. BitOf(op, p, q) \in 0 .. 1
    <3>1. CASE op = "And"
      BY <2>3, <3>1 DEF BitOf
    <3>2. CASE op = "Or"
      BY <2>3, <3>2 DEF BitOf
    <3>3. CASE op = "Xor"
      BY <2>3, <3>3 DEF BitOf
    <3>4. QED
      BY <3>1, <3>2, <3>3
  <2>5. QED
    BY <2>1, <2>4 DEF p, q
<1>2. Logical(op, x, y, w) = F[w]
  BY Zenon DEF Logical
<1> HIDE DEF bit
<1>3. G \in [Nat \X Int -> Int] /\ 0 \in Int
  <2>1. ASSUME NEW p \in Nat \X Int PROVE p[2] + Pow2[p[1]] * bit(p[1]) \in Int
    <3>1. p[1] \in Nat /\ p[2] \in Int
      OBVIOUS
    <3>2. bit(p[1]) \in Int /\ Pow2[p[1]] \in Int
      BY <1>1, <3>1
    <3>3. QED
      BY <3>1, <3>2
  <2>2. QED
    BY <2>1
<1>4. \A n \in Nat, z \in Int : G[<<n, z>>] = z + Pow2[n] * bit(n)
  OBVIOUS
<1> HIDE DEF G
<1>5. PICK f \in [Nat -> Int] : f[0] = 0 /\ \A n \in Nat : f[n + 1] = G[<<n, f[n]>>]
  <2>1. \E f : Recursive(f, Int, 0, G)
    BY <1>3, Recursion
  <2>2. QED
    BY <2>1 DEF Recursive
<1>6. \A n \in Nat : f[n + 1] = f[n] + Pow2[n] * bit(n)
  BY <1>4, <1>5
<1>7. ASSUME NEW n \in Nat PROVE f[n] = IF n = 0 THEN 0 ELSE f[n - 1] + Pow2[n - 1] * bit(n - 1)
  <2>1. CASE n = 0
    BY <1>5, <2>1
  <2>2. CASE n # 0
    BY <1>6, <2>2, n - 1 \in Nat, (n - 1) + 1 = n
  <2>3. QED
    BY <2>1, <2>2
<1>8. f = [n \in Nat |-> IF n = 0 THEN 0 ELSE f[n - 1] + Pow2[n - 1] * bit(n - 1)]
  BY <1>7
<1>9. F = [n \in Nat |-> IF n = 0 THEN 0 ELSE F[n - 1] + Pow2[n - 1] * bit(n - 1)]
  BY <1>8
<1> HIDE DEF F
<1>10. F[0] = 0
  BY <1>9
<1>11. ASSUME NEW n \in Nat PROVE F[n + 1] = F[n] + Pow2[n] * bit(n)
  BY <1>9, n + 1 \in Nat, n + 1 # 0, (n + 1) - 1 = n
<1> DEFINE T == {n \in Nat : F[n] \in 0 .. Pow2[n] - 1}
<1>12. 0 \in T
  BY <1>10, Pow2Step
<1>13. ASSUME NEW n \in Nat, n \in T PROVE n + 1 \in T
  <2>1. Pow2[n + 1] = 2 * Pow2[n] /\ Pow2[n] \in Nat \ {0}
    BY Pow2Step
  <2>2. bit(n) \in {0, 1}
    BY <1>1
  <2>3. F[n] \in 0 .. Pow2[n] - 1
    BY <1>13
  <2>4. Pow2[n] * bit(n) \in {0, Pow2[n]}
    BY <2>1, <2>2
  <2>5. QED
    BY <1>11, <2>1, <2>3, <2>4
<1> HIDE DEF T
<1>14. w \in T
  BY <1>12, <1>13, SetInduction
<1>15. QED
  BY <1>2, <1>14 DEF T

(* The operands of an operation on words: brought to the type of the operation, they
   stand for the same numbers. *)
LEMMA Converted ==
  ASSUME NEW a \in Values, a.ty \notin FloatTypes, NEW t \in {"i32", "i64"}, NEW s \in BOOLEAN,
         SizeInBits(a.ty) <= SizeInBits(t)
  PROVE  /\ convert(t, a, s).ty = t /\ convert(t, a, s).v \in Patterns(t)
         /\ Reading(convert(t, a, s), s) = Reading(a, s)
<1>1. a.ty \in WordTypes /\ a.v \in Patterns(a.ty) /\ t \in WordTypes
  BY WordOperand DEF WordTypes, IntegerTypes
<1>2. CASE a.ty = t
  BY <1>1, <1>2, Zenon DEF convert
<1>3. CASE a.ty # t
  <2>1. convert(t, a, s) = IntCast(a, t, s)
    BY <1>3, Zenon DEF convert
  <2>2. /\ Reading(a, TRUE) \in Int /\ a.v \in Int /\ Reading(a, FALSE) = a.v
        /\ a.v \in IntRange(t, FALSE)
    BY <1>1, Reads, Extends, Zenon
  <2>3. Reading(a, TRUE) % M(t) \in Patterns(t) /\ a.v \in Patterns(t)
    <3>1. Reading(a, TRUE) % M(t) \in Patterns(t)
      BY <1>1, <2>2, ReadBack, Zenon
    <3>2. QED
      BY <2>2, <3>1 DEF IntRange
  <2>4. CASE s = TRUE
    <3>1. IntCast(a, t, s) = Value(t, Reading(a, TRUE) % M(t)) /\ Reading(IntCast(a, t, s), s) = Reading(a, s)
      BY <1>1, <2>4, Extends, Zenon
    <3>2. Value(t, Reading(a, TRUE) % M(t)).ty = t
          /\ Value(t, Reading(a, TRUE) % M(t)).v = Reading(a, TRUE) % M(t)
      BY DEF Value
    <3>3. QED
      BY <2>1, <2>3, <3>1, <3>2, Zenon
  <2>5. CASE s = FALSE
    <3>1. IntCast(a, t, s) = Value(t, a.v)
      BY <1>1, <2>5, Extends, Zenon
    <3>2. Reading(Value(t, a.v), FALSE) = a.v /\ Value(t, a.v).ty = t /\ Value(t, a.v).v = a.v
      BY DEF Reading, Value
    <3>3. QED
      BY <2>1, <2>2, <2>3, <2>5, <3>1, <3>2, Zenon
  <2>6. QED
    BY <2>4, <2>5
<1>4. QED
  BY <1>2, <1>3

(* What the result of a binary operation on words may be. *)
StackIntegers == {"i32", "i64"}
Operations    == {"Add", "Sub", "Mul", "Div", "Rem", "And", "Or", "Xor"}
Divisions     == {"Div", "Rem"}

(* The instructions of LLVM give a word of the type of their operands. *)
LEMMA BinOpType ==
  ASSUME NEW a, NEW b, NEW t \in StackIntegers, NEW un \in BOOLEAN, NEW op \in Operations,
         a.ty = t, b.ty = t, a.v \in Patterns(t), b.v \in Patterns(t),
         op \in Divisions => b.v # 0
  PROVE  \A r \in BinOp(op, un, a, b) : r.ty = t /\ r.v \in Patterns(t)
<1> USE DEF StackIntegers, Operations, Divisions
<1> DEFINE w == Bits(a.ty)
           e == Exact(op, Reading(a, ~un), Reading(b, ~un))
<1>1. t \in WordTypes
  BY DEF WordTypes, IntegerTypes
<1>2. /\ Reading(a, TRUE) \in Int /\ Reading(b, TRUE) \in Int
      /\ Reading(a, FALSE) = a.v /\ Reading(b, FALSE) = b.v
      /\ a.v \in Nat /\ b.v \in Nat /\ a.v \in Int /\ b.v \in Int
      /\ Reading(b, TRUE) % M(t) = b.v
  BY <1>1, Reads, Zenon
<1>3. ASSUME op \in {"And", "Or", "Xor"} PROVE Logical(op, a.v, b.v, w) \in Patterns(t)
  <2>1. w \in Nat
    BY <1>1, Moduli
  <2>2. Logical(op, a.v, b.v, w) \in 0 .. Pow2[w] - 1
    BY <1>2, <1>3, <2>1, LogicalType
  <2>3. QED
    BY <2>2 DEF Patterns
<1>4. ASSUME op \notin {"And", "Or", "Xor"} PROVE Wrap(e, w) \in Patterns(t)
  <2>1. M(t) \in Nat \ {0}
    BY <1>1, Moduli
  <2>2. Reading(b, TRUE) = 0 => b.v = 0
    <3>1. 0 % M(t) = 0
      BY <2>1, ModSmall
    <3>2. QED
      BY <1>2, <3>1
  <2>3. e \in Int
    <3>1. op \in {"Add", "Sub", "Mul", "Div", "Rem"}
      BY <1>4
    <3>2. CASE un = TRUE
      <4>1. Reading(a, ~un) = a.v /\ Reading(b, ~un) = b.v
        BY <1>2, <3>2, Zenon DEF Reading
      <4>2. QED
        BY <1>2, <3>1, <4>1, ExactType, Zenon
    <3>3. CASE un = FALSE
      <4>1. Reading(a, ~un) = Reading(a, TRUE) /\ Reading(b, ~un) = Reading(b, TRUE)
        BY <3>3, Zenon DEF Reading
      <4> DEFINE x == Reading(a, TRUE)
                 y == Reading(b, TRUE)
      <4>2. x \in Int /\ y \in Int /\ (op \in {"Div", "Rem"} => y # 0) /\ e = Exact(op, x, y)
        BY <1>2, <2>2, <4>1
      <4> HIDE DEF x, y, e
      <4>3. QED
        BY <3>1, <4>2, ExactType
    <3>4. QED
      BY <3>2, <3>3
  <2> HIDE DEF e
  <2>4. QED
    BY <1>1, <2>3, ReadBack
<1> HIDE DEF e
<1>5. \A r \in BinOp(op, un, a, b) :
         \/ op \in {"And", "Or", "Xor"} /\ r = Value(a.ty, Logical(op, a.v, b.v, w))
         \/ \E x \in Patterns(a.ty) : r = Value(a.ty, x)
         \/ op \notin {"And", "Or", "Xor"} /\ r = Value(a.ty, Wrap(e, w))
  BY Zenon DEF BinOp, e
<1> HIDE DEF w
<1>6. QED
  BY <1>3, <1>4, <1>5 DEF Value

(* What the table of binary opcodes says of each. *)
LEMMA Opcode ==
  ASSUME NEW opc \in BinaryOpcode
  PROVE  /\ opc.op \in {"Add", "Sub", "Mul", "Div", "Rem", "And", "Or", "Xor"}
         /\ opc.ovf \in BOOLEAN /\ opc.un \in BOOLEAN
         /\ opc.ovf => opc.op \in {"Add", "Sub", "Mul"}
         /\ opc.op \in {"And", "Or", "Xor"} => ~opc.un
         /\ opc.op \in {"Add", "Sub"} /\ ~opc.ovf => ~opc.un
BY DEF BinaryOpcode

(* The three kinds of binary operation. *)
OnFloats(opc, a, b, ty) ==
  /\ ty \in FloatTypes /\ a.ty \in FloatTypes /\ b.ty \in FloatTypes
  /\ ty = IF "r8" \in {a.ty, b.ty} THEN "r8" ELSE "r4"
  /\ opc.op \in {"Add", "Sub", "Mul", "Div", "Rem"}
OnPointer(opc, a, b, ty) ==
  /\ ty \in PointerTypes /\ ~opc.ovf /\ ~opc.un
  /\ \/ opc.op = "Add" /\ a.ty = ty /\ b.ty \in {"i32", "i64"}
     \/ opc.op = "Add" /\ a.ty \in {"i32", "i64"} /\ b.ty = ty
     \/ opc.op = "Sub" /\ a.ty = ty /\ b.ty \in {"i32", "i64"}
OnWords(opc, a, b, ty) ==
  /\ ty \in {"i32", "i64"} \/ (ty = "ptr" /\ opc.ovf)
  /\ a.ty \notin FloatTypes /\ b.ty \notin FloatTypes
  /\ ty = "i32" => a.ty = "i32" /\ b.ty = "i32"

(* Binary operates on floats, on a pointer and an offset, or on two words. *)
LEMMA BinaryKinds ==
  ASSUME NEW a \in Values, NEW b \in Values, NEW opc \in BinaryOpcode, BinaryAllowed(opc, a, b),
         NEW ty, ty = binaryOpType(opc, a.ty, b.ty)
  PROVE  OnFloats(opc, a, b, ty) \/ OnPointer(opc, a, b, ty) \/ OnWords(opc, a, b, ty)
<1>1. a.ty \in StackTypes /\ b.ty \in StackTypes
  BY DEF Values
<1>2. /\ ty # "invalid"
      /\ ty \in FloatTypes => opc.op \in {"Add", "Sub", "Mul", "Div", "Rem"}
  BY DEF BinaryAllowed
<1> DEFINE floats == a.ty \in FloatTypes /\ b.ty \in FloatTypes
           ints == a.ty \in {"i32", "i64"} /\ b.ty \in {"i32", "i64"}
           addsub == opc.op = "Add" \/ opc.op = "Sub"
           offset == \/ addsub /\ a.ty = "ptr" /\ b.ty \in {"i32", "i64"}
                     \/ opc.op = "Add" /\ a.ty \in {"i32", "i64"} /\ b.ty = "ptr"
<1>3. CASE floats
  <2>1. {a.ty, b.ty} \subseteq FloatTypes /\ ~({a.ty, b.ty} \subseteq {"i32", "i64"})
        /\ "ptr" \notin {a.ty, b.ty} /\ a.ty # "gcptr"
    BY <1>3 DEF FloatTypes
  <2>2. ty = IF "r8" \in {a.ty, b.ty} THEN "r8" ELSE "r4"
    BY <2>1, Zenon DEF binaryOpType
  <2>3. QED
    BY <1>2, <1>3, <2>2 DEF OnFloats, FloatTypes
<1>4. CASE ints
  <2>1. ~({a.ty, b.ty} \subseteq FloatTypes) /\ {a.ty, b.ty} \subseteq {"i32", "i64"}
        /\ "ptr" \notin {a.ty, b.ty} /\ a.ty # "gcptr"
    BY <1>4 DEF FloatTypes
  <2>2. ty = IF a.ty = b.ty THEN a.ty ELSE "i64"
    BY <2>1, Zenon DEF binaryOpType
  <2>3. QED
    BY <1>4, <2>2 DEF OnWords, FloatTypes
<1>5. CASE "ptr" \in {a.ty, b.ty}
  <2>1. ~({a.ty, b.ty} \subseteq FloatTypes) /\ ~({a.ty, b.ty} \subseteq {"i32", "i64"})
        /\ ~(a.ty = "gcptr" /\ b.ty = "gcptr") /\ ~(a.ty = "gcptr" /\ b.ty \in {"i32", "i64"})
    BY <1>5 DEF FloatTypes
  <2>2. ty = IF {a.ty, b.ty} \cap FloatTypes # {} THEN "invalid" ELSE IF offset THEN "ptr" ELSE "i64"
    BY <1>5, <2>1, Zenon DEF binaryOpType
  <2>3. a.ty \notin FloatTypes /\ b.ty \notin FloatTypes
    BY <1>2, <2>2
  <2>4. CASE offset
    <3>1. ty = "ptr"
      BY <1>2, <2>2, <2>4
    <3>2. CASE opc.ovf
      BY <2>3, <3>1, <3>2, Zenon DEF OnWords
    <3>3. CASE ~opc.ovf
      <4>1. ~opc.un
        BY <2>4, <3>3, Opcode, Zenon
      <4>2. QED
        BY <2>4, <3>1, <3>3, <4>1, Zenon DEF OnPointer, PointerTypes
    <3>4. QED
      BY <3>2, <3>3
  <2>5. CASE ~offset
    <3>1. ty = "i64"
      BY <1>2, <2>2, <2>5
    <3>2. QED
      BY <2>3, <3>1 DEF OnWords
  <2>6. QED
    BY <2>4, <2>5
<1>6. CASE ~floats /\ ~ints /\ "ptr" \notin {a.ty, b.ty}
  <2>1. ~({a.ty, b.ty} \subseteq FloatTypes) /\ ~({a.ty, b.ty} \subseteq {"i32", "i64"})
    BY <1>6
  <2>2. CASE a.ty = "gcptr" /\ opc.op = "Sub" /\ b.ty = "gcptr"
    <3>1. ty = "i64"
      BY <1>6, <2>1, <2>2, Zenon DEF binaryOpType
    <3>2. QED
      BY <2>2, <3>1 DEF OnWords, FloatTypes
  <2>3. CASE a.ty = "gcptr" /\ addsub /\ ~opc.ovf /\ b.ty \in {"i32", "i64"}
    <3>1. b.ty # "gcptr"
      BY <2>3
    <3>2. ty = "gcptr"
      BY <1>6, <2>1, <2>3, <3>1, Zenon DEF binaryOpType
    <3>3. ~opc.un
      BY <2>3, Opcode, Zenon
    <3>4. QED
      BY <2>3, <3>2, <3>3, Zenon DEF OnPointer, PointerTypes
  <2>4. CASE /\ ~(a.ty = "gcptr" /\ opc.op = "Sub" /\ b.ty = "gcptr")
             /\ ~(a.ty = "gcptr" /\ addsub /\ ~opc.ovf /\ b.ty \in {"i32", "i64"})
    <3>1. ty = "invalid"
      BY <1>6, <2>1, <2>4, Zenon DEF binaryOpType
    <3>2. QED
      BY <1>2, <3>1
  <2>5. QED
    BY <2>2, <2>3, <2>4
<1>7. QED
  BY <1>3, <1>4, <1>5, <1>6, Zenon

(* An outcome that may be pushed. *)
Good(o) == o.exc = "none" => o.val \in Values

(* Results and exceptions are outcomes. *)
LEMMA Outcomes ==
  /\ \A v : Ret(v).exc = "none" /\ Ret(v).val = v
  /\ \A v \in Values : Good(Ret(v))
  /\ \A e : e # "none" => Good(Throw(e))
BY DEF Good, Ret, Throw

(* The floating-point instructions give a float. *)
LEMMA FBinOpType ==
  ASSUME NEW x, NEW y, NEW op \in {"Add", "Sub", "Mul", "Div", "Rem"},
         x.ty \in FloatTypes, x.v \in Int, y.v \in Int
  PROVE  FBinOp(op, x, y) \in Values
<1> DEFINE undefined == ~IsFinite(x.v) \/ ~IsFinite(y.v) \/ (op \in {"Div", "Rem"} /\ y.v = 0)
           e == CASE op = "Mul" -> Quotient(x.v * y.v, 2)
                  [] op = "Div" -> Quotient(2 * x.v, y.v)
                  [] OTHER      -> Exact(op, x.v, y.v)
           r == IF undefined THEN NaN ELSE e
<1>1. ASSUME ~undefined PROVE e \in Int
  <2> HIDE DEF undefined
  <2>1. CASE op = "Mul"
    BY <2>1, QuotientType, x.v * y.v \in Int
  <2>2. CASE op = "Div"
    BY <1>1, <2>2, QuotientType, 2 * x.v \in Int DEF undefined
  <2>3. CASE op \in {"Add", "Sub", "Rem"}
    <3>1. Exact(op, x.v, y.v) \in Int
      BY <1>1, <2>3, ExactType DEF undefined
    <3>2. QED
      BY <2>3, <3>1
  <2>4. QED
    BY <2>1, <2>2, <2>3
<1>2. r \in Int
  BY <1>1, Infinities, Zenon
<1>3. FBinOp(op, x, y) = Value(x.ty, Round(r, x.ty))
  BY Zenon DEF FBinOp
<1> HIDE DEF r
<1>4. QED
  BY <1>2, <1>3, RoundType, IsValue

(* On floats binaryOp does what IL documents. *)
LEMMA BinaryFloats ==
  ASSUME NEW a \in Values, NEW b \in Values, NEW opc \in BinaryOpcode,
         NEW ty, ty = binaryOpType(opc, a.ty, b.ty), OnFloats(opc, a, b, ty)
  PROVE  /\ binaryOp(opc, a, b) = ILBinary(opc, a, b)
         /\ \A o \in binaryOp(opc, a, b) : Good(o)
<1>1. /\ ty \in FloatTypes /\ ty \notin PointerTypes /\ ty # "ptr"
      /\ opc.op \in {"Add", "Sub", "Mul", "Div", "Rem"}
  BY DEF OnFloats, FloatTypes, PointerTypes
<1>2. ASSUME NEW c \in {a, b} PROVE convert(ty, c, ~opc.un) = FPCast(c, ty)
  <2>1. c \in Values /\ c.ty \in FloatTypes
    BY DEF OnFloats
  <2>2. CASE c.ty = ty
    <3>1. Round(c.v, ty) = c.v /\ c = Value(ty, c.v)
      BY <2>1, <2>2, FloatOperand, RoundSame, Operand
    <3>2. QED
      BY <2>2, <3>1, Zenon DEF convert, FPCast
  <2>3. CASE c.ty # ty
    BY <2>1, <2>3, Zenon DEF convert
  <2>4. QED
    BY <2>2, <2>3
<1>3. convert(ty, a, ~opc.un) = FPCast(a, ty) /\ convert(ty, b, ~opc.un) = FPCast(b, ty)
  BY <1>2
<1> DEFINE f == FBinOp(opc.op, FPCast(a, ty), FPCast(b, ty))
<1>4. binaryOp(opc, a, b) = {Ret(f)}
  BY <1>1, <1>3, Zenon DEF binaryOp
<1>5. ILBinary(opc, a, b) = {Ret(f)}
  BY <1>1, Zenon DEF ILBinary
<1>6. f \in Values
  <2>1. a.v \in Int /\ b.v \in Int
    BY FloatOperand, Formats DEF OnFloats
  <2>2. Round(a.v, ty) \in Int /\ Round(b.v, ty) \in Int
    BY <1>1, <2>1, RoundType, Formats
  <2>3. FPCast(a, ty).ty = ty /\ FPCast(a, ty).v \in Int /\ FPCast(b, ty).v \in Int
    BY <2>2 DEF FPCast, Value
  <2>4. QED
    BY <1>1, <2>3, FBinOpType
<1> HIDE DEF f
<1>7. QED
  BY <1>4, <1>5, <1>6, Outcomes

(* A pointer plus an offset, and less an offset unless that is the smallest int32. *)
LEMMA NegatedNumber ==
  ASSUME NEW t \in {"i32", "i64"}, NEW v \in Patterns(t)
  PROVE  LET n == Reading(Value(t, Wrap(-v, Bits(t))), TRUE)
             s == Reading(Value(t, v), TRUE)
         IN  /\ n \in Int /\ s \in Int
             /\ n = -s \/ (v = H(t) /\ n = s /\ s = -H(t))
<1> DEFINE m == M(t)
           h == H(t)
           s == Reading(Value(t, v), TRUE)
           n == Reading(Value(t, Wrap(-v, Bits(t))), TRUE)
<1>1. t \in WordTypes
  BY DEF WordTypes, IntegerTypes
<1>2. m \in Nat \ {0} /\ h \in Nat \ {0} /\ m = 2 * h
  BY <1>1, Moduli
<1>3. /\ s \in -h .. h - 1 /\ s = IF v >= h THEN v - m ELSE v
      /\ v \in Nat /\ v < m
  BY <1>1, ReadSigned
<1> HIDE DEF m, h, s
<1>4. -v \in Int /\ s \in Int
  BY <1>2, <1>3
<1>5. Wrap(-v, Bits(t)) = (-v) % m
  BY <1>1, <1>4, ReadBack DEF m
<1>6. n = IF (-v) % m >= h THEN ((-v) % m) - m ELSE (-v) % m
  BY <1>5 DEF Reading, Value, Signed, M, H, m, h
<1> DEFINE u == -v
<1>7. /\ u \in 0 .. m - 1 => u % m = u
      /\ u < 0 /\ u >= -m => u % m = u + m
  BY <1>2, <1>4, ModSmall
<1> HIDE DEF n
<1>8. (-v) % m = IF v = 0 THEN 0 ELSE m - v
  <2>1. ASSUME v = 0 PROVE u \in 0 .. m - 1 /\ u = 0
    <3>1. u = 0
      <4>1. u \in Int /\ v + u = 0
        BY <1>3
      <4> HIDE DEF u
      <4>2. QED
        BY <2>1, <4>1
    <3>2. 0 \in 0 .. m - 1
      BY <1>2
    <3>3. QED
      BY <3>1, <3>2
  <2>2. v # 0 => u < 0 /\ u >= -m /\ u + m = m - v
    BY <1>2, <1>3
  <2>3. (-v) % m = u % m
    OBVIOUS
  <2> HIDE DEF u
  <2>4. CASE v = 0
    BY <1>7, <2>1, <2>3, <2>4
  <2>5. CASE v # 0
    BY <1>7, <2>2, <2>3, <2>5, Zenon
  <2>6. QED
    BY <2>4, <2>5
<1>9. n \in Int /\ (n = -s \/ (v = h /\ n = s /\ s = -h))
  BY <1>2, <1>3, <1>6, <1>8
<1>10. QED
  BY <1>4, <1>9 DEF n, s, h

(* Numbers that differ by a multiple of the modulus leave the same pattern. *)
LEMMA SamePattern ==
  ASSUME NEW m \in Nat \ {0}, NEW p \in Int, NEW q \in Int, p \in {q, q - m, q + m}
  PROVE  p % m = q % m
<1>1. (q - m) % m = q % m /\ (q + m) % m = q % m
  BY ModSmall
<1>2. QED
  BY <1>1

(* On a pointer it does, unless the smallest int32 is subtracted from it. *)
LEMMA BinaryPointer ==
  ASSUME NEW a \in Values, NEW b \in Values, NEW opc \in BinaryOpcode,
         NEW ty, ty = binaryOpType(opc, a.ty, b.ty), OnPointer(opc, a, b, ty)
  PROVE  /\ (opc.op = "Sub" => b # Value("i32", Pow2[Width[32] - 1]))
               => binaryOp(opc, a, b) = ILBinary(opc, a, b)
         /\ \A o \in binaryOp(opc, a, b) : Good(o)
<1> DEFINE x == Reading(a, TRUE)
           y == Reading(b, TRUE)
           r == Exact(opc.op, x, y)
           g == IF opc.op = "Add" THEN genPointerAdd(a, b) ELSE genPointerSub(a, b)
           m == M(ty)
<1>1. /\ ty \in PointerTypes /\ ty \in WordTypes /\ ty \in Words /\ ty \notin FloatTypes
      /\ ~opc.ovf /\ opc.un = FALSE
      /\ opc.op \in {"Add", "Sub"}
      /\ a.ty \notin FloatTypes /\ b.ty \notin FloatTypes
  BY Opcode DEF OnPointer, PointerTypes, WordTypes, FloatTypes, Words
<1>2. /\ a.ty \in WordTypes /\ b.ty \in WordTypes /\ a.v \in Patterns(a.ty) /\ b.v \in Patterns(b.ty)
      /\ a = Value(a.ty, a.v) /\ b = Value(b.ty, b.v)
  BY <1>1, WordOperand, Operand
<1>3. /\ x \in Int /\ y \in Int /\ a.v \in Int /\ b.v \in Int
      /\ x = IF a.v >= H(a.ty) THEN a.v - M(a.ty) ELSE a.v
      /\ y = IF b.v >= H(b.ty) THEN b.v - M(b.ty) ELSE b.v
  BY <1>2, Reads, Zenon
<1>4. m \in Nat \ {0} /\ m = M("i64") /\ m = 2 * H("i64")
  <2>1. "i64" \in WordTypes
    BY DEF WordTypes, IntegerTypes
  <2>2. m = M("i64")
    BY <1>1, Sizes DEF PointerTypes
  <2> HIDE DEF m
  <2>3. QED
    BY <2>1, <2>2, Moduli
<1>5. binaryOp(opc, a, b) = {Ret(g)}
  BY <1>1, Zenon DEF binaryOp
<1>6. ILBinary(opc, a, b) = {Number(r, ty)}
  <2>1. opc.op \notin {"And", "Or", "Xor"} /\ opc.op \notin {"Div", "Rem"}
    BY <1>1
  <2>2. Num(a, opc.un) = x /\ Num(b, opc.un) = y
    BY <1>1, Zenon DEF Num, Reading
  <2>3. QED
    BY <1>1, <2>1, <2>2, Zenon DEF ILBinary
<1>7. r = IF opc.op = "Add" THEN x + y ELSE x - y
  BY <1>1 DEF Exact
<1>8. Number(r, ty) = Ret(Value(ty, r % m))
  BY DEF Number, Wrap, M
<1> HIDE DEF x, y, r, g, m
<1>13. m \in Nat \ {0} /\ x \in Int /\ y \in Int /\ a.v \in Int /\ b.v \in Int
  BY <1>3, <1>4
<1>9. \E k \in Int :
         /\ g = Value(ty, k % m)
         /\ (opc.op = "Sub" => b # Value("i32", Pow2[Width[32] - 1])) => k % m = r % m
  <2>1. CASE opc.op = "Add" /\ a.ty = ty /\ b.ty \in {"i32", "i64"}
    <3>1. b.ty \notin PointerTypes
      BY <2>1 DEF PointerTypes
    <3>2. g = Value(ty, (a.v + y) % m)
      BY <2>1, <3>1 DEF g, genPointerAdd, PointerPlus, Wrap, M, m, y
    <3>3. (a.v + y) % m = (x + y) % m
      <4> DEFINE p == a.v + y
                 q == x + y
      <4>1. x = a.v \/ x = a.v - m
        BY <1>3, <2>1 DEF m
      <4>2. p \in Int /\ q \in Int /\ p \in {q, q - m, q + m}
        BY <1>13, <4>1
      <4> HIDE DEF p, q
      <4>3. p % m = q % m
        BY <1>13, <4>2, SamePattern
      <4>4. QED
        BY <4>3 DEF p, q
    <3>4. QED
      BY <1>3, <1>7, <2>1, <3>2, <3>3, a.v + y \in Int
  <2>2. CASE opc.op = "Add" /\ a.ty \in {"i32", "i64"} /\ b.ty = ty
    <3>1. b.ty \in PointerTypes
      BY <1>1, <2>2
    <3>2. g = Value(ty, (b.v + x) % m)
      BY <2>2, <3>1 DEF g, genPointerAdd, PointerPlus, Wrap, M, m, x
    <3>3. (b.v + x) % m = (y + x) % m
      <4> DEFINE p == b.v + x
                 q == y + x
      <4>1. y = b.v \/ y = b.v - m
        BY <1>3, <2>2 DEF m
      <4>2. p \in Int /\ q \in Int /\ p \in {q, q - m, q + m}
        BY <1>13, <4>1
      <4> HIDE DEF p, q
      <4>3. p % m = q % m
        BY <1>13, <4>2, SamePattern
      <4>4. QED
        BY <4>3 DEF p, q
    <3>4. y + x = x + y /\ b.v + x \in Int
      BY <1>3
    <3>5. QED
      BY <1>7, <2>2, <3>2, <3>3, <3>4
  <2>3. CASE opc.op = "Sub" /\ a.ty = ty /\ b.ty \in {"i32", "i64"}
    <3> DEFINE n == Reading(Value(b.ty, Wrap(-b.v, Bits(b.ty))), TRUE)
               s == -y
    <3>1. g = Value(ty, (a.v + n) % m)
      BY <2>3 DEF g, genPointerSub, PointerPlus, Wrap, M, m
    <3>2. n \in Int /\ (n = -y \/ (b.v = H(b.ty) /\ n = y /\ y = -H(b.ty)))
      <4>1. y = Reading(Value(b.ty, b.v), TRUE)
        BY <1>2 DEF y
      <4>2. QED
        BY <1>2, <2>3, <4>1, NegatedNumber, Zenon
    <3> HIDE DEF n
    <3>3. ASSUME b # Value("i32", Pow2[Width[32] - 1]) PROVE n = s \/ n = s - m
      <4>1. CASE n = -y
        BY <4>1
      <4>2. CASE b.v = H(b.ty) /\ n = y /\ y = -H(b.ty)
        <5>1. H("i32") = Pow2[Width[32] - 1]
          BY Sizes DEF H, Bits
        <5>2. b.ty = "i64"
          BY <1>2, <2>3, <3>3, <4>2, <5>1
        <5>3. n = -H("i64") /\ s = H("i64") /\ H("i64") \in Nat
          BY <1>4, <4>2, <5>2, Moduli DEF WordTypes, IntegerTypes
        <5> HIDE DEF s
        <5>4. QED
          BY <1>4, <5>3
      <4>3. QED
        BY <3>2, <4>1, <4>2
    <3>4. s \in Int /\ x + s = x - y
      BY <1>3
    <3> HIDE DEF s
    <3>9. n \in Int /\ s \in Int
      BY <3>2, <3>4
    <3>5. ASSUME b # Value("i32", Pow2[Width[32] - 1]) PROVE (a.v + n) % m = (x + s) % m
      <4>1. x = a.v \/ x = a.v - m
        BY <1>3, <2>3 DEF m
      <4> DEFINE p == a.v + n
                 q == x + s
      <4>2. p \in Int /\ q \in Int /\ p \in {q, q - m, q + m}
        BY <1>13, <3>3, <3>5, <3>9, <4>1
      <4> HIDE DEF p, q
      <4>3. p % m = q % m
        BY <1>13, <4>2, SamePattern
      <4>4. QED
        BY <4>3 DEF p, q
    <3>6. a.v + n \in Int
      BY <1>3, <3>2
    <3>7. r = x - y
      BY <1>7, <2>3
    <3>8. QED
      BY <2>3, <3>1, <3>4, <3>5, <3>6, <3>7
  <2>4. QED
    BY <2>1, <2>2, <2>3 DEF OnPointer
<1>10. PICK k \in Int :
         /\ g = Value(ty, k % m)
         /\ (opc.op = "Sub" => b # Value("i32", Pow2[Width[32] - 1])) => k % m = r % m
  BY <1>9
<1>11. g \in Values
  <2>1. k % m \in Patterns(ty)
    BY <1>1, ReadBack DEF m
  <2>2. QED
    BY <1>1, <1>10, <2>1, IsValue
<1>12. QED
  BY <1>5, <1>6, <1>8, <1>10, <1>11, Outcomes

(* On words it does, overflow and zero divisors included. *)
LEMMA BinaryWords ==
  ASSUME NEW a \in Values, NEW b \in Values, NEW opc \in BinaryOpcode,
         NEW ty, ty = binaryOpType(opc, a.ty, b.ty), OnWords(opc, a, b, ty)
  PROVE  /\ binaryOp(opc, a, b) = ILBinary(opc, a, b)
         /\ \A o \in binaryOp(opc, a, b) : Good(o)
<1> DEFINE as == IF ty = "ptr" THEN "i64" ELSE ty
           x == convert(as, a, ~opc.un)
           y == convert(as, b, ~opc.un)
           X == Reading(a, ~opc.un)
           Y == Reading(b, ~opc.un)
           e == Exact(opc.op, X, Y)
           bits == opc.op \in {"And", "Or", "Xor"}
           divides == opc.op \in {"Div", "Rem"}
           over == opc.ovf /\ e \notin IntRange(as, ~opc.un)
           far == divides /\ Quotient(X, Y) \notin IntRange(as, ~opc.un)
<1>1. /\ as \in {"i32", "i64"} /\ as \in WordTypes /\ ty \in Words /\ ty \notin FloatTypes
      /\ a.ty \notin FloatTypes /\ b.ty \notin FloatTypes
  BY DEF OnWords, WordTypes, IntegerTypes, PointerTypes, Words, FloatTypes
<1>2. ~(ty \in PointerTypes /\ ~opc.ovf)
  BY DEF OnWords, PointerTypes
<1>3. Bits(ty) = Bits(as) /\ Patterns(ty) = Patterns(as)
  <2>1. Bits(ty) = Bits(as)
    BY Sizes
  <2>2. QED
    BY <2>1, Zenon DEF Patterns
<1>4. SizeInBits(a.ty) <= SizeInBits(as) /\ SizeInBits(b.ty) <= SizeInBits(as)
  <2>1. a.ty \in Words /\ b.ty \in Words
    BY <1>1, WordOperand
  <2>2. CASE as = "i32"
    <3>1. a.ty = "i32" /\ b.ty = "i32"
      BY <2>2 DEF OnWords
    <3>2. QED
      BY <2>2, <3>1, Sizes
  <2>3. CASE as = "i64"
    <3>1. \A t \in Words : SizeInBits(t) <= 64
      BY Sizes DEF Words, PointerTypes
    <3>2. QED
      BY <2>1, <2>3, <3>1, Sizes
  <2> HIDE DEF as
  <2>4. QED
    BY <1>1, <2>2, <2>3
<1>5. /\ opc.op \in {"Add", "Sub", "Mul", "Div", "Rem", "And", "Or", "Xor"}
      /\ opc.ovf \in BOOLEAN /\ opc.un \in BOOLEAN /\ (~opc.un) \in BOOLEAN
      /\ (opc.ovf => ~bits /\ ~divides)
      /\ (bits => ~opc.un) /\ ~(bits /\ divides)
  <2>1. (~opc.un) \in BOOLEAN
    BY Zenon
  <2>2. QED
    BY <2>1, Opcode
<1> HIDE DEF as
<1>6. /\ x.ty = as /\ x.v \in Patterns(as) /\ Reading(x, ~opc.un) = X
      /\ y.ty = as /\ y.v \in Patterns(as) /\ Reading(y, ~opc.un) = Y
  BY <1>1, <1>4, <1>5, Converted, Zenon
<1> HIDE DEF x, y
<1>7. /\ Reading(x, TRUE) \in Int /\ Reading(y, TRUE) \in Int
      /\ Reading(x, FALSE) = x.v /\ Reading(y, FALSE) = y.v
      /\ x.v \in Nat /\ y.v \in Nat /\ x.v \in Int /\ y.v \in Int
      /\ Reading(x, TRUE) % M(as) = x.v /\ Reading(y, TRUE) % M(as) = y.v
  BY <1>1, <1>6, Reads, Zenon
<1>8. Reading(y, TRUE) = 0 <=> y.v = 0
  <2>1. M(as) \in Nat \ {0} /\ H(as) \in Nat \ {0} /\ y.v < M(as)
        /\ Reading(y, TRUE) = IF y.v >= H(as) THEN y.v - M(as) ELSE y.v
    BY <1>1, <1>6, Moduli, Reads, Zenon
  <2> DEFINE v == y.v
             rd == Reading(y, TRUE)
             mm == M(as)
             hh == H(as)
  <2>2. /\ mm \in Nat \ {0} /\ hh \in Nat \ {0} /\ v < mm /\ v \in Nat
        /\ rd = IF v >= hh THEN v - mm ELSE v
    BY <1>7, <2>1, Zenon
  <2> HIDE DEF v, rd, mm, hh
  <2>3. rd = 0 <=> v = 0
    BY <2>2
  <2>4. QED
    BY <2>3 DEF v, rd
<1>9. Y = 0 <=> y.v = 0
  <2>1. CASE opc.un = TRUE
    <3>1. Y = Reading(y, FALSE)
      BY <1>6, <2>1, Zenon DEF Reading
    <3>2. QED
      BY <1>7, <3>1, Zenon
  <2>2. CASE opc.un = FALSE
    <3>1. Y = Reading(y, TRUE)
      BY <1>6, <2>2, Zenon DEF Reading
    <3>2. QED
      BY <1>8, <3>1, Zenon
  <2>3. QED
    BY <1>5, <2>1, <2>2, Zenon
<1> HIDE DEF X, Y, e
<1>10. opc.ovf /\ Overflows(opc.op, opc.un, x, y) <=> over
  BY <1>6, Zenon DEF Overflows, e
<1> DEFINE B == {Ret(Value(ty, r.v)) : r \in BinOp(opc.op, opc.un, x, y)}
<1>11. binaryOp(opc, a, b) = IF over THEN {Throw("Overflow")}
                             ELSE IF divides /\ Y = 0 THEN {Throw("DivideByZero")} ELSE B
  <2>1. binaryOp(opc, a, b) = IF opc.ovf /\ Overflows(opc.op, opc.un, x, y) THEN {Throw("Overflow")}
                              ELSE IF divides /\ y.v = 0 THEN {Throw("DivideByZero")} ELSE B
    BY <1>1, <1>2, Zenon DEF binaryOp, as, x, y
  <2> HIDE DEF over, divides, B
  <2>2. QED
    BY <1>9, <1>10, <2>1, Zenon
<1> DEFINE L == Ret(Value(ty, Logical(opc.op, Wrap(X, Bits(ty)), Wrap(Y, Bits(ty)), Bits(ty))))
<1>12. ILBinary(opc, a, b) = IF bits THEN {L}
                             ELSE IF divides /\ Y = 0 THEN {Throw("DivideByZero")}
                             ELSE IF far THEN Unspecified(ty)
                             ELSE IF over THEN {Throw("Overflow")} ELSE {Number(e, ty)}
  BY <1>1, Zenon DEF ILBinary, Num, as, X, Y, e
<1>21. \A z : Value(as, z).v = z
  BY DEF Value
<1>13. ASSUME bits PROVE B = {L}
  <2>1. opc.un = FALSE
    BY <1>5, <1>13
  <2>2. X = Reading(x, TRUE) /\ Y = Reading(y, TRUE)
    BY <1>6, <2>1, Zenon DEF Reading
  <2>3. Wrap(X, Bits(ty)) = x.v /\ Wrap(Y, Bits(ty)) = y.v
    BY <1>3, <1>7, <2>2, Zenon DEF Wrap, M
  <2> DEFINE l == Logical(opc.op, x.v, y.v, Bits(as))
  <2>4. BinOp(opc.op, opc.un, x, y) = {Value(as, l)}
    BY <1>6, <1>13, Zenon DEF BinOp
  <2> HIDE DEF l
  <2>5. B = {Ret(Value(ty, l))}
    BY <2>4 DEF Value
  <2>6. QED
    BY <1>3, <2>3, <2>5, Zenon DEF l
<1>14. ASSUME far, ~(Y = 0) PROVE B = Unspecified(ty)
  <2>1. opc.un = FALSE
    <3> SUFFICES ASSUME opc.un = TRUE PROVE FALSE
      BY <1>5
    <3>1. X = x.v /\ Y = y.v
      BY <1>6, <1>7, Zenon DEF Reading
    <3>2. Quotient(X, Y) \in 0 .. X
      BY <1>7, <1>14, <3>1, QuotientType
    <3>3. X \in 0 .. M(as) - 1 /\ M(as) \in Nat
      BY <1>1, <1>6, <3>1, Ranges, Moduli
    <3>4. Quotient(X, Y) \in Patterns(as)
      <4> DEFINE q == Quotient(X, Y)
                 m == M(as)
      <4>1. q \in 0 .. X /\ X \in 0 .. m - 1 /\ m \in Nat
        BY <3>2, <3>3
      <4> HIDE DEF q, m
      <4>2. q \in 0 .. m - 1
        BY <4>1
      <4>3. QED
        BY <1>1, <4>2, Ranges DEF q, m
    <3>5. IntRange(as, ~opc.un) = Patterns(as)
      BY Zenon DEF IntRange
    <3>6. QED
      BY <1>14, <3>4, <3>5, Zenon
  <2>2. X = Reading(x, TRUE) /\ Y = Reading(y, TRUE) /\ IntRange(as, ~opc.un) = IntRange(as, TRUE)
    BY <1>6, <2>1, Zenon DEF Reading, IntRange
  <2>3. opc.op \notin {"And", "Or", "Xor"}
    BY <1>5, <1>14
  <2>4. BinOp(opc.op, opc.un, x, y) = {Value(as, z) : z \in Patterns(as)}
    BY <1>6, <1>14, <2>1, <2>2, <2>3, Zenon DEF BinOp
  <2>5. B = {Ret(Value(ty, z)) : z \in Patterns(as)}
    BY <2>4, <1>21, Zenon
  <2>6. QED
    BY <1>3, <2>5, Zenon DEF Unspecified
<1>15. ASSUME ~far, ~bits PROVE B = {Number(e, ty)}
  <2>1. ~(divides /\ ~opc.un /\ Quotient(Reading(x, TRUE), Reading(y, TRUE)) \notin IntRange(as, TRUE))
    <3> SUFFICES ASSUME divides, ~opc.un,
                        Quotient(Reading(x, TRUE), Reading(y, TRUE)) \notin IntRange(as, TRUE)
                 PROVE  FALSE
      OBVIOUS
    <3>1. X = Reading(x, TRUE) /\ Y = Reading(y, TRUE) /\ IntRange(as, ~opc.un) = IntRange(as, TRUE)
      BY <1>6, Zenon DEF Reading, IntRange
    <3>2. QED
      BY <1>15, <3>1, Zenon
  <2>2. BinOp(opc.op, opc.un, x, y) = {Value(as, Wrap(e, Bits(as)))}
    BY <1>6, <1>15, <2>1, Zenon DEF BinOp, e
  <2>3. B = {Ret(Value(ty, Wrap(e, Bits(as))))}
    BY <2>2, <1>21, Zenon
  <2>4. QED
    BY <1>3, <2>3, Zenon DEF Number
<1>16. ASSUME ~(divides /\ Y = 0) PROVE \A o \in B : Good(o)
  <2>1. \A r \in BinOp(opc.op, opc.un, x, y) : r.v \in Patterns(as)
    <3>1. opc.op \in Operations /\ opc.un \in BOOLEAN /\ as \in StackIntegers
      BY <1>1, <1>5, Zenon DEF Operations, StackIntegers
    <3>2. opc.op \in Divisions => y.v # 0
      BY <1>9, <1>16, Zenon DEF Divisions
    <3> HIDE DEF B, bits, divides, over, far
    <3>3. QED
      BY <1>6, <3>1, <3>2, BinOpType, Zenon
  <2>2. \A r \in BinOp(opc.op, opc.un, x, y) : Good(Ret(Value(ty, r.v)))
    BY <1>1, <1>3, <2>1, IsValue, Outcomes, Zenon
  <2>3. QED
    BY <2>2, Zenon
<1> HIDE DEF B, L
<1>17. over => ~bits /\ ~divides
  BY <1>5
<1>18. \A o \in binaryOp(opc, a, b) : Good(o)
  <2>1. Good(Throw("Overflow")) /\ Good(Throw("DivideByZero"))
    BY Outcomes
  <2> HIDE DEF over, divides
  <2>2. QED
    BY <1>11, <1>16, <2>1, Zenon
<1>19. binaryOp(opc, a, b) = ILBinary(opc, a, b)
  <2>1. far => divides
    OBVIOUS
  <2> HIDE DEF over, divides, bits, far
  <2>2. CASE bits
    BY <1>5, <1>11, <1>12, <1>13, <1>17, <2>2, Zenon
  <2>3. CASE ~bits /\ divides /\ Y = 0
    BY <1>11, <1>12, <1>17, <2>3, Zenon
  <2>4. CASE ~bits /\ ~(divides /\ Y = 0) /\ far
    BY <1>11, <1>12, <1>14, <1>17, <2>1, <2>4, Zenon
  <2>5. CASE ~bits /\ ~(divides /\ Y = 0) /\ ~far
    BY <1>11, <1>12, <1>15, <2>5, Zenon
  <2>6. QED
    BY <2>2, <2>3, <2>4, <2>5, Zenon
<1>20. QED
  BY <1>18, <1>19

(* binaryOp computes what the enumerations say, except where it negates the smallest
   int32 as an offset. *)
LEMMA BinaryCorrect ==
  ASSUME NEW a \in Values, NEW b \in Values, NEW opc \in BinaryOpcode, BinaryAllowed(opc, a, b)
  PROVE  /\ ~(/\ opc.op = "Sub" /\ ~opc.ovf /\ a.ty \in PointerTypes
              /\ b = Value("i32", Pow2[Width[32] - 1]))
                => binaryOp(opc, a, b) = ILBinary(opc, a, b)
         /\ \A o \in binaryOp(opc, a, b) : Good(o)
<1> DEFINE ty == binaryOpType(opc, a.ty, b.ty)
<1>1. OnFloats(opc, a, b, ty) \/ OnPointer(opc, a, b, ty) \/ OnWords(opc, a, b, ty)
  BY BinaryKinds
<1> HIDE DEF ty
<1>2. ty = binaryOpType(opc, a.ty, b.ty)
  BY DEF ty
<1>3. CASE OnFloats(opc, a, b, ty)
  BY <1>2, <1>3, BinaryFloats, Zenon
<1>4. CASE OnPointer(opc, a, b, ty)
  <2>1. opc.op = "Sub" => ~opc.ovf /\ a.ty \in PointerTypes
    BY <1>4, Zenon DEF OnPointer
  <2>2. QED
    BY <1>2, <1>4, <2>1, BinaryPointer, Zenon
<1>5. CASE OnWords(opc, a, b, ty)
  BY <1>2, <1>5, BinaryWords, Zenon
<1>6. QED
  BY <1>1, <1>3, <1>4, <1>5, Zenon

(* The results of unaryOp, ckFinite and shift. *)
LEMMA UnaryCorrect ==
  ASSUME NEW a \in Values, NEW op \in UnaryOpcode,
         a.ty \in {"i32", "i64"} \/ (op = "Neg" /\ a.ty \in FloatTypes)
  PROVE  unaryOp(op, a) = ILUnary(op, a) /\ \A o \in unaryOp(op, a) : Good(o)
<1>1. CASE a.ty \in FloatTypes
  <2>1. op = "Neg" /\ op # "Not"
    BY <1>1 DEF FloatTypes
  <2>2. unaryOp(op, a) = {Ret(FNeg(a))} /\ ILUnary(op, a) = {Ret(FNeg(a))}
    BY <1>1, <2>1 DEF unaryOp, ILUnary
  <2>3. a.v \in Int
    BY <1>1, FloatOperand, Formats
  <2>4. FNeg(a) \in Values
    <3> DEFINE n == Round(-a.v, a.ty)
    <3>1. n \in Numbers(a.ty)
      BY <1>1, <2>3, RoundType, -a.v \in Int
    <3>2. \E x \in {NaN, NegInf, Inf, n} : FNeg(a) = Value(a.ty, x)
      <4> HIDE DEF n
      <4> QED
        BY Infinities DEF FNeg, n
    <3> HIDE DEF n
    <3>3. {NaN, NegInf, Inf, n} \subseteq Numbers(a.ty)
      BY <3>1 DEF Numbers
    <3>4. QED
      BY <1>1, <3>2, <3>3, IsValue
  <2>5. QED
    BY <2>2, <2>4, Outcomes
<1>2. CASE a.ty \in {"i32", "i64"}
  <2> DEFINE m == M(a.ty)
             v == a.v
  <2>1. a.ty \notin FloatTypes /\ a.ty \in Words /\ a.ty \in WordTypes
    BY <1>2 DEF FloatTypes, Words, WordTypes, IntegerTypes
  <2>2. v \in Int /\ m \in Nat \ {0}
    BY <2>1, WordOperand, Reads, Moduli
  <2>3. \A x : Wrap(x, Bits(a.ty)) = x % m
    BY DEF Wrap, M
  <2>4. m = Pow2[Bits(a.ty)]
    BY DEF M
  <2> DEFINE n == IF op = "Neg" THEN -v ELSE -v - 1
             k == IF op = "Neg" THEN m - v ELSE m - 1 - v
  <2>5. unaryOp(op, a) = {Ret(Value(a.ty, n % m))}
    <3>1. CASE op = "Neg"
      BY <2>1, <2>3, <3>1 DEF unaryOp
    <3>2. CASE op = "Not"
      BY <2>3, <3>2 DEF unaryOp
    <3>3. QED
      BY <3>1, <3>2 DEF UnaryOpcode
  <2>6. ILUnary(op, a) = {Ret(Value(a.ty, k % m))}
    <3>1. CASE op = "Neg"
      BY <2>1, <2>3, <2>4, <3>1 DEF ILUnary, Number
    <3>2. CASE op = "Not"
      BY <2>1, <2>3, <2>4, <3>2 DEF ILUnary, Number
    <3>3. QED
      BY <3>1, <3>2 DEF UnaryOpcode
  <2> HIDE DEF m, v
  <2>7. n \in Int /\ k \in Int /\ n \in {k, k - m, k + m}
    BY <2>2
  <2> HIDE DEF n, k
  <2>8. n % m = k % m
    BY <2>2, <2>7, SamePattern
  <2>9. Value(a.ty, n % m) \in Values
    <3>1. n % m \in Patterns(a.ty)
      BY <2>1, <2>7, ReadBack DEF m
    <3>2. QED
      BY <2>1, <3>1, IsValue
  <2>10. QED
    BY <2>5, <2>6, <2>8, <2>9, Outcomes
<1>3. QED
  BY <1>1, <1>2

(* ckfinite gives a value. *)
LEMMA FiniteChecked ==
  ASSUME NEW a \in Values
  PROVE  \A o \in ckFinite(a) : Good(o)
BY Outcomes DEF ckFinite

(* shift gives an outcome IL documents, for amounts that are too large too. *)
LEMMA ShiftCorrect ==
  ASSUME NEW a \in Values, NEW n \in Values, NEW op \in ShiftOpcode,
         a.ty \in {"i32", "i64"}, n.ty \in {"i32", "i64"}
  PROVE  /\ \A o \in shift(op, n, a) : o \in ILShift(op, a, n)
         /\ \A o \in shift(op, n, a) : Good(o)
<1> DEFINE c == IF n.ty = a.ty THEN n ELSE IntCast(n, a.ty, FALSE)
           w == Bits(a.ty)
           R(p) == CASE op = "Shl"   -> a.v * Pow2[p]
                     [] op = "Shr"   -> Signed(a.v, w) \div Pow2[p]
                     [] op = "ShrUn" -> a.v \div Pow2[p]
<1>1. /\ a.ty \in WordTypes /\ n.ty \in WordTypes /\ a.ty \in Words
      /\ a.v \in Patterns(a.ty) /\ n.v \in Patterns(n.ty)
  BY WordOperand DEF FloatTypes
<1>2. /\ a.v \in Int /\ n.v \in Int /\ n.v \in Nat /\ Reading(n, FALSE) = n.v
      /\ Reading(a, TRUE) \in Int
      /\ w \in Nat \ {0} /\ M(a.ty) \in Nat \ {0} /\ w < M(a.ty)
  BY <1>1, Reads, Moduli
<1>3. Reading(a, TRUE) = Signed(a.v, w)
  BY DEF Reading
<1>4. c.v = n.v \/ c.v = n.v % M(a.ty)
  <2>1. CASE n.ty = a.ty
    BY <2>1
  <2>2. CASE n.ty # a.ty
    <3>1. c = Value(a.ty, n.v % M(a.ty))
      <4>1. IntCast(n, a.ty, FALSE) = Value(a.ty, Reading(n, FALSE) % M(a.ty))
        BY Zenon DEF IntCast, Wrap, M
      <4>2. QED
        BY <1>2, <2>2, <4>1
    <3> HIDE DEF c
    <3>2. QED
      BY <3>1 DEF Value
  <2>3. QED
    BY <2>1, <2>2
<1>5. shift(op, n, a) = {Ret(r) : r \in ShiftOp(op, a, c)}
  BY Zenon DEF shift
<1> HIDE DEF c, w
<1>6. c.v \in Nat /\ (n.v < w => c.v = n.v)
  <2>1. n.v % M(a.ty) \in 0 .. M(a.ty) - 1 /\ (n.v \in 0 .. M(a.ty) - 1 => n.v % M(a.ty) = n.v)
    BY <1>2, ModSmall
  <2> DEFINE m == M(a.ty)
             v == n.v
             u == n.v % M(a.ty)
  <2>2. /\ m \in Nat \ {0} /\ v \in Nat /\ w < m /\ w \in Nat
        /\ u \in 0 .. m - 1 /\ (v \in 0 .. m - 1 => u = v)
    BY <1>2, <2>1
  <2> HIDE DEF m, v, u
  <2>3. u \in Nat /\ v \in Nat /\ (v < w => u = v)
    BY <2>2
  <2>4. QED
    BY <1>4, <2>3 DEF u, v
<1>7. ASSUME NEW p \in Nat PROVE R(p) \in Int
  <2> DEFINE s == Signed(a.v, w)
             d == Pow2[p]
  <2>1. d \in Nat \ {0} /\ s \in Int
    BY <1>2, <1>3, Pow2Step
  <2> HIDE DEF s, d
  <2>2. a.v * d \in Int /\ s \div d \in Int /\ a.v \div d \in Int
    BY <1>2, <2>1
  <2>3. QED
    BY <2>2 DEF ShiftOpcode, s, d
<1>8. ShiftOp(op, a, c) = IF c.v >= w THEN {Value(a.ty, x) : x \in Patterns(a.ty)}
                          ELSE {Value(a.ty, Wrap(R(c.v), w))}
  BY Zenon DEF ShiftOp, w
<1>9. ILShift(op, a, n) = IF n.v >= w THEN Unspecified(a.ty) ELSE {Number(R(n.v), a.ty)}
  <2>1. CASE n.v >= w
    BY <2>1, Zenon DEF ILShift, w
  <2>2. CASE ~(n.v >= w)
    <3>1. CASE op = "Shl"
      BY <2>2, <3>1 DEF ILShift, w
    <3>2. CASE op = "Shr"
      BY <1>3, <2>2, <3>2 DEF ILShift, w
    <3>3. CASE op = "ShrUn"
      BY <2>2, <3>3 DEF ILShift, w
    <3>4. QED
      BY <3>1, <3>2, <3>3 DEF ShiftOpcode
  <2>3. QED
    BY <2>1, <2>2
<1> HIDE DEF R
<1>10. \A r \in ShiftOp(op, a, c) : \E x \in Patterns(a.ty) : r = Value(a.ty, x)
  <2>1. Wrap(R(c.v), w) \in Patterns(a.ty)
    BY <1>1, <1>6, <1>7, ReadBack DEF w
  <2>2. QED
    BY <1>8, <2>1, Zenon
<1>11. \A o \in shift(op, n, a) : Good(o) /\ o \in Unspecified(a.ty)
  <2>1. ASSUME NEW r \in ShiftOp(op, a, c) PROVE Good(Ret(r)) /\ Ret(r) \in Unspecified(a.ty)
    BY <1>1, <1>10, IsValue, Outcomes, Zenon DEF Unspecified
  <2>2. QED
    BY <1>5, <2>1, Zenon
<1>12. CASE n.v >= w
  BY <1>9, <1>11, <1>12, Zenon
<1>13. CASE ~(n.v >= w)
  <2>1. c.v = n.v /\ ~(c.v >= w)
    BY <1>2, <1>6, <1>13
  <2>2. shift(op, n, a) = {Number(R(n.v), a.ty)}
    BY <1>5, <1>8, <2>1, Zenon DEF Number, w
  <2>3. QED
    BY <1>9, <1>11, <1>13, <2>2, Zenon
<1>14. QED
  BY <1>12, <1>13

-----------------------------------------------------------------------------
(* Conversions *)

Targets == Integral \ {"BOOL", "CHAR"}

(* The opcodes of conv. *)
LEMMA ConvCases ==
  ASSUME NEW opc \in ConvOpcode
  PROVE  /\ opc.ovf \in BOOLEAN /\ opc.un \in BOOLEAN
         /\ \/ opc.cor \in Targets /\ (opc.ovf \/ ~opc.un)
            \/ opc.cor \in {"FLOAT", "DOUBLE"} /\ ~opc.ovf
BY DEF ConvOpcode, Targets

(* The types conv converts to and those it leaves on the stack. *)
LEMMA TargetTypes ==
  ASSUME NEW cor \in Targets
  PROVE  /\ getType(cor) \in IntegerTypes /\ getType(cor) \in WordTypes /\ getType(cor) \notin FloatTypes
         /\ getStackType(cor) \in {"i32", "i64"} /\ getStackType(cor) \in WordTypes
         /\ SizeInBits(getStackType(cor)) = stackSize(cor)
         /\ Width[stackSize(cor)] = Bits(getStackType(cor))
         /\ \/ SizeInBits(getType(cor)) < stackSize(cor)
            \/ SizeInBits(getType(cor)) = stackSize(cor) /\ getType(cor) = getStackType(cor)
         /\ SizeInBits(getType(cor)) \in {8, 16, 32, 64} /\ stackSize(cor) \in {32, 64}
         /\ SizeInBits(getType(cor)) = 64 <=> getType(cor) = "i64"
         /\ isSigned(cor) \in BOOLEAN
         /\ getType(cor) = "i64" /\ isSigned(cor) => cor \in {"LONG", "NATIVEINT"}
<1>1. /\ getType(cor) \in IntegerTypes /\ getType(cor) \in WordTypes /\ getType(cor) \notin FloatTypes
      /\ getStackType(cor) \in {"i32", "i64"} /\ getStackType(cor) \in WordTypes
  BY DEF Targets, Integral, getType, getStackType, stackSize, IntegerTypes, WordTypes, FloatTypes
<1>2. stackSize(cor) = IF cor \in {"LONG", "ULONG", "NATIVEINT", "NATIVEUINT"} THEN 64 ELSE 32
  BY DEF Targets, Integral, stackSize
<1>3. getType(cor) = CASE cor \in {"BYTE", "UBYTE"} -> "i8" [] cor \in {"SHORT", "USHORT"} -> "i16"
                       [] cor \in {"INT", "UINT"} -> "i32"
                       [] cor \in {"LONG", "ULONG", "NATIVEINT", "NATIVEUINT"} -> "i64"
  BY DEF Targets, Integral, getType
<1>4. SizeInBits(getStackType(cor)) = stackSize(cor)
  BY <1>2, Sizes DEF getStackType
<1>5. /\ \/ SizeInBits(getType(cor)) < stackSize(cor)
         \/ SizeInBits(getType(cor)) = stackSize(cor) /\ getType(cor) = getStackType(cor)
      /\ SizeInBits(getType(cor)) \in {8, 16, 32, 64} /\ stackSize(cor) \in {32, 64}
      /\ SizeInBits(getType(cor)) = 64 <=> getType(cor) = "i64"
  <2> DEFINE z == SizeInBits(getType(cor))
             t == getType(cor)
             k == stackSize(cor)
             st == getStackType(cor)
  <2>1. st = IF k = 64 THEN "i64" ELSE "i32"
    BY DEF getStackType
  <2> HIDE DEF k, st
  <2>2. \/ z = 8 /\ k = 32 /\ t = "i8"
        \/ z = 16 /\ k = 32 /\ t = "i16"
        \/ z = 32 /\ k = 32 /\ t = "i32"
        \/ z = 64 /\ k = 64 /\ t = "i64"
    <3>1. CASE cor \in {"BYTE", "UBYTE"}
      BY <1>2, <1>3, <3>1, Sizes DEF k
    <3>2. CASE cor \in {"SHORT", "USHORT"}
      BY <1>2, <1>3, <3>2, Sizes DEF k
    <3>3. CASE cor \in {"INT", "UINT"}
      BY <1>2, <1>3, <3>3, Sizes DEF k
    <3>4. CASE cor \in {"LONG", "ULONG", "NATIVEINT", "NATIVEUINT"}
      BY <1>2, <1>3, <3>4, Sizes DEF k
    <3>5. QED
      BY <3>1, <3>2, <3>3, <3>4 DEF Targets, Integral
  <2> HIDE DEF z, t
  <2>3. /\ z < k \/ (z = k /\ t = st)
        /\ z \in {8, 16, 32, 64} /\ k \in {32, 64}
        /\ z = 64 <=> t = "i64"
    BY <2>1, <2>2
  <2>4. QED
    BY <2>3 DEF z, t, k, st
<1>6. isSigned(cor) \in BOOLEAN
  BY DEF isSigned
<1>7. getType(cor) = "i64" /\ isSigned(cor) => cor \in {"LONG", "NATIVEINT"}
  BY <1>3 DEF isSigned, Targets, Integral
<1>8. QED
  BY <1>1, <1>4, <1>5, <1>6, <1>7, Zenon DEF Bits

(* What the conversion of an integer leaves. *)
LEMMA Cast ==
  ASSUME NEW a, a.ty \in WordTypes, a.v \in Patterns(a.ty), NEW t \in WordTypes
  PROVE  /\ IntCast(a, t, TRUE) = Value(t, Reading(a, TRUE) % M(t))
         /\ IntCast(a, t, FALSE) = Value(t, a.v % M(t))
         /\ Reading(a, TRUE) % M(t) \in Patterns(t) /\ a.v % M(t) \in Patterns(t)
         /\ \A p : Reading(Value(t, p), FALSE) = p
<1>1. Reading(a, TRUE) \in Int /\ a.v \in Int /\ Reading(a, FALSE) = a.v
  BY Reads, Zenon
<1>2. \A x, z : IntCast(a, t, z) = Value(t, Reading(a, z) % M(t))
  BY Zenon DEF IntCast, Wrap, M
<1>3. Reading(a, TRUE) % M(t) \in Patterns(t) /\ a.v % M(t) \in Patterns(t)
  BY <1>1, ReadBack, Zenon
<1>4. \A p : Reading(Value(t, p), FALSE) = p
  BY DEF Reading, Value
<1>5. QED
  BY <1>1, <1>2, <1>3, <1>4, Zenon

(* What is pushed is the number in the stack type. *)
LEMMA Pushed ==
  ASSUME NEW cor \in Targets, NEW p \in Patterns(getType(cor))
  PROVE  /\ Ret(convertToStackType(Value(getType(cor), p), cor))
                = OnStack(Reading(Value(getType(cor), p), isSigned(cor)), cor)
         /\ Good(Ret(convertToStackType(Value(getType(cor), p), cor)))
<1> DEFINE t == getType(cor)
           st == getStackType(cor)
           a == Value(t, p)
           x == Reading(a, isSigned(cor))
           c == convertToStackType(a, cor)
<1>1. a.ty = t /\ a.v = p
  BY DEF Value
<1>2. /\ t \in IntegerTypes /\ t \in WordTypes /\ st \in {"i32", "i64"} /\ st \in WordTypes
      /\ Width[stackSize(cor)] = Bits(st) /\ isSigned(cor) \in BOOLEAN
      /\ ~(SizeInBits(t) < stackSize(cor)) => t = st
  BY TargetTypes, Zenon
<1> HIDE DEF t, st, a
<1>3. Reading(a, TRUE) \in Int /\ p \in Int /\ Reading(a, FALSE) = p /\ Reading(a, TRUE) % M(t) = p
  BY <1>1, <1>2, Reads, Zenon DEF t
<1>4. x \in Int
  <2>1. CASE isSigned(cor) = TRUE
    BY <1>3, <2>1, Zenon
  <2>2. CASE isSigned(cor) = FALSE
    BY <1>3, <2>2, Zenon
  <2>3. QED
    BY <1>2, <2>1, <2>2, Zenon
<1>5. OnStack(x, cor) = Ret(Value(st, x % M(st)))
  BY <1>2, Zenon DEF OnStack, Wrap, M, st
<1>6. c = Value(st, x % M(st))
  <2>1. CASE SizeInBits(t) < stackSize(cor)
    BY <1>1, <1>2, <2>1, Zenon DEF convertToStackType, IntCast, Wrap, M, st
  <2>2. CASE ~(SizeInBits(t) < stackSize(cor))
    <3>1. c = a /\ t = st
      BY <1>1, <1>2, <2>2, Zenon DEF convertToStackType
    <3>2. x % M(t) = p
      <4>1. CASE isSigned(cor) = TRUE
        BY <1>3, <4>1, Zenon
      <4>2. CASE isSigned(cor) = FALSE
        <5>1. p % M(t) = p
          <6>1. p \in IntRange(t, FALSE)
            BY DEF IntRange, t
          <6>2. QED
            BY <1>2, <1>3, <6>1, ReadBack, Zenon
        <5>2. QED
          BY <1>3, <4>2, <5>1, Zenon
      <4>3. QED
        BY <1>2, <4>1, <4>2, Zenon
    <3>3. QED
      BY <3>1, <3>2, Zenon DEF a
  <2>3. QED
    BY <2>1, <2>2
<1>7. Value(st, x % M(st)) \in Values
  <2>1. st \in Words
    BY <1>2 DEF Words
  <2>2. QED
    BY <1>2, <1>4, <2>1, ReadBack, IsValue, Zenon
<1>8. Ret(c) = OnStack(x, cor) /\ Good(Ret(c))
  BY <1>5, <1>6, <1>7, Outcomes, Zenon
<1>9. QED
  BY <1>8, Zenon DEF a, t

(* The checks before a conversion find the numbers that the target does not hold. *)
LEMMA ConvertChecks ==
  ASSUME NEW a, a.ty \in StackIntegers, a.v \in Patterns(a.ty), NEW t \in IntegerTypes
  PROVE  /\ ConvertOverflows(a, t, TRUE, TRUE) <=> Reading(a, TRUE) \notin IntRange(t, TRUE)
         /\ ConvertOverflows(a, t, TRUE, FALSE) <=> Reading(a, TRUE) \notin IntRange(t, FALSE)
         /\ ConvertOverflows(a, t, FALSE, TRUE) <=> a.v \notin IntRange(t, TRUE)
         /\ ConvertOverflows(a, t, FALSE, FALSE) <=> a.v \notin IntRange(t, FALSE)
<1> DEFINE from == SizeInBits(a.ty)
           to == SizeInBits(t)
           x == Reading(a, TRUE)
           v == a.v
           m == M(a.ty)
           h == H(a.ty)
           mt == M(t)
           ht == H(t)
<1>1. a.ty \in WordTypes /\ t \in WordTypes /\ from \in Nat /\ to \in Nat
      /\ (from = to => a.ty = t)
  BY Sizes DEF StackIntegers, WordTypes, IntegerTypes
<1>2. /\ IntRange(t, TRUE) = -ht .. ht - 1 /\ IntRange(t, FALSE) = 0 .. mt - 1
      /\ Pow2[Bits(t) - 1] = ht /\ Pow2[Bits(t)] = mt
  BY <1>1, Ranges DEF M, H
<1>3. /\ x \in Int /\ x \in -h .. h - 1 /\ x = IF v >= h THEN v - m ELSE v
      /\ v \in Nat /\ v < m
  BY <1>1, Reads, Zenon
<1>4. /\ m \in Nat /\ h \in Nat /\ m = 2 * h /\ mt \in Nat /\ ht \in Nat /\ mt = 2 * ht
      /\ from < to => m <= ht
      /\ from = to => m = mt /\ h = ht
      /\ to < from => mt <= h
  <2>1. m \in Nat /\ h \in Nat /\ m = 2 * h /\ mt \in Nat /\ ht \in Nat /\ mt = 2 * ht
    BY <1>1, Moduli
  <2>2. from < to => m <= ht
    BY <1>1, Wider
  <2>3. to < from => mt <= h
    BY <1>1, Wider
  <2>4. from = to => m = mt /\ h = ht
    BY <1>1
  <2>5. QED
    BY <2>1, <2>2, <2>3, <2>4, Zenon
<1> DEFINE CO(s, d) == ConvertOverflows(a, t, s, d)
<1>5. /\ to > from => ~(to = from) /\ ~(to < from)
      /\ to = from => ~(to > from) /\ ~(to < from)
      /\ to < from => ~(to > from) /\ ~(to = from)
      /\ to > from \/ to = from \/ to < from
  BY <1>1
<1> HIDE DEF x, v, m, h, mt, ht, from, to
<1>6. /\ CO(TRUE, TRUE) <=> x \notin -ht .. ht - 1
      /\ CO(TRUE, FALSE) <=> x \notin 0 .. mt - 1
      /\ CO(FALSE, TRUE) <=> v \notin -ht .. ht - 1
      /\ CO(FALSE, FALSE) <=> v \notin 0 .. mt - 1
  <2>1. CASE to > from
    <3>1. ~CO(TRUE, TRUE)
      BY <1>2, <1>5, <2>1, Zenon DEF ConvertOverflows, x, v, from, to
    <3>2. CO(TRUE, FALSE) <=> x < 0
      BY <1>2, <1>5, <2>1, Zenon DEF ConvertOverflows, x, v, from, to
    <3>3. ~CO(FALSE, TRUE)
      BY <1>2, <1>5, <2>1, Zenon DEF ConvertOverflows, x, v, from, to
    <3>4. ~CO(FALSE, FALSE)
      BY <1>2, <1>5, <2>1, Zenon DEF ConvertOverflows, x, v, from, to
    <3>5. /\ x \in -ht .. ht - 1
          /\ x < 0 <=> x \notin 0 .. mt - 1
          /\ v \in -ht .. ht - 1
          /\ v \in 0 .. mt - 1
      BY <1>1, <1>3, <1>4, <2>1
    <3> HIDE DEF CO
    <3>6. QED
      BY <3>1, <3>2, <3>3, <3>4, <3>5, Zenon
  <2>2. CASE to = from
    <3>1. ~CO(TRUE, TRUE)
      BY <1>2, <1>5, <2>2, Zenon DEF ConvertOverflows, x, v, from, to
    <3>2. CO(TRUE, FALSE) <=> x < 0
      BY <1>2, <1>5, <2>2, Zenon DEF ConvertOverflows, x, v, from, to
    <3>3. CO(FALSE, TRUE) <=> x < 0
      BY <1>2, <1>5, <2>2, Zenon DEF ConvertOverflows, x, v, from, to
    <3>4. ~CO(FALSE, FALSE)
      BY <1>2, <1>5, <2>2, Zenon DEF ConvertOverflows, x, v, from, to
    <3>5. /\ x \in -ht .. ht - 1
          /\ x < 0 <=> x \notin 0 .. mt - 1
          /\ x < 0 <=> v \notin -ht .. ht - 1
          /\ v \in 0 .. mt - 1
      BY <1>1, <1>3, <1>4, <2>2
    <3> HIDE DEF CO
    <3>6. QED
      BY <3>1, <3>2, <3>3, <3>4, <3>5, Zenon
  <2>3. CASE to < from
    <3>1. CO(TRUE, TRUE) <=> (x < -ht \/ x > ht - 1)
      BY <1>2, <1>5, <2>3, Zenon DEF ConvertOverflows, x, v, from, to
    <3>2. CO(TRUE, FALSE) <=> v > mt - 1
      BY <1>2, <1>5, <2>3, Zenon DEF ConvertOverflows, x, v, from, to
    <3>3. CO(FALSE, TRUE) <=> v > ht - 1
      BY <1>2, <1>5, <2>3, Zenon DEF ConvertOverflows, x, v, from, to
    <3>4. CO(FALSE, FALSE) <=> v > mt - 1
      BY <1>2, <1>5, <2>3, Zenon DEF ConvertOverflows, x, v, from, to
    <3>5. /\ (x < -ht \/ x > ht - 1) <=> x \notin -ht .. ht - 1
          /\ v > mt - 1 <=> x \notin 0 .. mt - 1
          /\ v > ht - 1 <=> v \notin -ht .. ht - 1
          /\ v > mt - 1 <=> v \notin 0 .. mt - 1
      BY <1>1, <1>3, <1>4, <2>3
    <3> HIDE DEF CO
    <3>6. QED
      BY <3>1, <3>2, <3>3, <3>4, <3>5, Zenon
  <2>4. QED
    BY <1>5, <2>1, <2>2, <2>3, Zenon
<1>7. QED
  BY <1>2, <1>6, Zenon DEF CO, x, v

(* A number that the target holds survives the conversion, unless an unsigned one is
   extended with its sign. *)
LEMMA ConvertKeeps ==
  ASSUME NEW a, a.ty \in WordTypes, a.v \in Patterns(a.ty), NEW t \in WordTypes
  PROVE  /\ Reading(a, TRUE) \in IntRange(t, TRUE)
                => Reading(IntCast(a, t, TRUE), TRUE) = Reading(a, TRUE)
         /\ Reading(a, TRUE) \in IntRange(t, FALSE)
                => Reading(IntCast(a, t, FALSE), FALSE) = Reading(a, TRUE)
         /\ a.v \in IntRange(t, TRUE) /\ (SizeInBits(t) <= SizeInBits(a.ty) \/ Reading(a, TRUE) >= 0)
                => Reading(IntCast(a, t, TRUE), TRUE) = a.v
         /\ a.v \in IntRange(t, FALSE)
                => Reading(IntCast(a, t, FALSE), FALSE) = a.v
<1> DEFINE x == Reading(a, TRUE)
           v == a.v
           m == M(a.ty)
           h == H(a.ty)
           ht == H(t)
<1>1. /\ x \in Int /\ x = IF v >= h THEN v - m ELSE v
      /\ v \in Nat /\ v \in Int /\ v < m
  BY Reads, Zenon
<1>2. m \in Nat /\ h \in Nat /\ ht \in Nat
  BY Moduli
<1>3. /\ IntCast(a, t, TRUE) = Value(t, x % M(t)) /\ IntCast(a, t, FALSE) = Value(t, v % M(t))
      /\ \A p : Reading(Value(t, p), FALSE) = p
  BY Cast, Zenon
<1>4. IntRange(t, TRUE) = -ht .. ht - 1 /\ IntRange(t, FALSE) = 0 .. M(t) - 1
  BY Ranges
<1> HIDE DEF x, v, m, h, ht
<1>5. x \in IntRange(t, TRUE) => Reading(Value(t, x % M(t)), TRUE) = x
  BY <1>1, ReadBack, Zenon
<1>6. v \in IntRange(t, FALSE) => v % M(t) = v
  BY <1>1, ReadBack, Zenon
<1>7. x \in IntRange(t, FALSE) => x = v
  <2>1. x \in 0 .. M(t) - 1 => x >= 0
    BY Moduli
  <2>2. x >= 0 => x = v
    BY <1>1, <1>2
  <2>3. QED
    BY <1>4, <2>1, <2>2, Zenon
<1>8. v \in IntRange(t, TRUE) /\ (SizeInBits(t) <= SizeInBits(a.ty) \/ x >= 0) => x = v
  <2>1. CASE x >= 0
    BY <1>1, <1>2, <2>1
  <2>2. CASE v \in -ht .. ht - 1 /\ SizeInBits(t) <= SizeInBits(a.ty)
    <3>1. ht <= h
      BY <2>2, Wider DEF h, ht
    <3>2. QED
      BY <1>1, <1>2, <2>2, <3>1
  <2>3. QED
    BY <1>4, <2>1, <2>2, Zenon
<1>9. QED
  BY <1>3, <1>5, <1>6, <1>7, <1>8, Zenon DEF x, v

(* Only the low bits of a pointer remain, signed or not. *)
LEMMA LowBits ==
  ASSUME NEW a, a.ty \in WordTypes, a.v \in Patterns(a.ty), NEW t \in WordTypes,
         SizeInBits(t) <= SizeInBits(a.ty)
  PROVE  Reading(a, TRUE) % M(t) = a.v % M(t)
<1> DEFINE x == Reading(a, TRUE)
           v == a.v
           m == M(t)
<1>1. PICK k \in Nat \ {0} : M(a.ty) = k * m
  BY Wider
<1>2. v \in Int /\ x \in Int /\ x = IF v >= H(a.ty) THEN v - M(a.ty) ELSE v
  BY Reads, Zenon
<1>3. m \in Nat \ {0}
  BY Moduli
<1> HIDE DEF x, v, m
<1> DEFINE j == -k
<1>4. j \in Int /\ (x = v \/ x = v + j * m)
  BY <1>1, <1>2, <1>3
<1> HIDE DEF j
<1>5. (v + j * m) % m = v % m
  BY <1>2, <1>3, <1>4, ModMultiple
<1>6. x % m = v % m
  BY <1>4, <1>5
<1>7. QED
  BY <1>6 DEF x, v, m

(* Conversions to a floating-point type. *)
LEMMA ConvFloats ==
  ASSUME NEW a \in Values, NEW opc, opc.cor \in {"FLOAT", "DOUBLE"}, ~opc.ovf, opc.un \in BOOLEAN,
         a.ty \notin PointerTypes
  PROVE  conv(opc, a) = ILConvert(opc, a) /\ \A o \in conv(opc, a) : Good(o)
<1> DEFINE t == getType(opc.cor)
           X == Reading(a, ~opc.un)
           y == IF a.ty \in FloatTypes THEN a.v ELSE 2 * X
           f == Value(t, Round(y, t))
<1>1. t \in FloatTypes /\ t \notin IntegerTypes /\ t \notin PointerTypes
  BY DEF getType, FloatTypes, IntegerTypes, PointerTypes
<1>2. ILConvert(opc, a) = {Ret(f)}
  <2>1. CASE a.ty \in FloatTypes
    BY <1>1, <2>1, Zenon DEF ILConvert
  <2>2. CASE a.ty \notin FloatTypes
    BY <1>1, <2>2, Zenon DEF ILConvert, Num
  <2>3. QED
    BY <2>1, <2>2
<1>3. a.ty \in FloatTypes \/ a.ty \in IntegerTypes
  BY Operand DEF Words, IntegerTypes
<1>4. y \in Int
  <2>1. CASE a.ty \in FloatTypes
    <3>1. a.v \in Int
      BY <2>1, FloatOperand, Formats
    <3>2. QED
      BY <2>1, <3>1, Zenon
  <2>2. CASE a.ty \notin FloatTypes
    <3>1. Reading(a, TRUE) \in Int /\ Reading(a, FALSE) \in Int
      BY <2>2, WordOperand, Reads
    <3>2. X \in Int
      <4>1. CASE opc.un = TRUE
        BY <3>1, <4>1, Zenon DEF Reading
      <4>2. CASE opc.un = FALSE
        BY <3>1, <4>2, Zenon DEF Reading
      <4>3. QED
        BY <4>1, <4>2, Zenon
    <3> HIDE DEF X
    <3>3. 2 * X \in Int
      BY <3>2
    <3>4. QED
      BY <2>2, <3>3, Zenon
  <2>3. QED
    BY <2>1, <2>2
<1>5. Conversion(a, t, ~opc.un, FALSE) = {f}
  <2>1. CASE a.ty = t
    <3>1. Round(a.v, t) = a.v /\ a = Value(t, a.v)
      BY <1>1, <2>1, FloatOperand, RoundSame, Operand
    <3>2. QED
      BY <1>1, <2>1, <3>1, Zenon DEF Conversion
  <2>2. CASE a.ty \in FloatTypes /\ a.ty # t
    <3>1. a.ty \notin IntegerTypes
      BY <2>2 DEF FloatTypes, IntegerTypes
    <3>2. Conversion(a, t, ~opc.un, FALSE) = {FPCast(a, t)}
      BY <1>1, <2>2, <3>1, Zenon DEF Conversion
    <3>3. QED
      BY <2>2, <3>2, Zenon DEF FPCast
  <2>3. CASE a.ty \in IntegerTypes
    <3>1. a.ty \notin FloatTypes /\ a.ty # t
      BY <1>1, <2>3 DEF FloatTypes, IntegerTypes
    <3>2. Conversion(a, t, ~opc.un, FALSE) = {IF ~opc.un THEN SIToFP(a, t) ELSE UIToFP(a, t)}
      BY <1>1, <2>3, <3>1, Zenon DEF Conversion
    <3>3. CASE opc.un = TRUE
      BY <3>1, <3>2, <3>3, Zenon DEF UIToFP, Reading
    <3>4. CASE opc.un = FALSE
      BY <3>1, <3>2, <3>4, Zenon DEF SIToFP, Reading
    <3>5. QED
      BY <3>3, <3>4, Zenon
  <2>4. QED
    BY <1>3, <2>1, <2>2, <2>3
<1>6. convertToStackType(f, opc.cor) = f
  <2>1. f.ty = t
    BY DEF Value
  <2> HIDE DEF f
  <2>2. QED
    BY <1>1, <2>1, Zenon DEF convertToStackType
<1>7. f \in Values
  <2> HIDE DEF y
  <2>1. QED
    BY <1>1, <1>4, RoundType, IsValue
<1>8. conv(opc, a) = {Ret(convertToStackType(r, opc.cor)) : r \in Conversion(a, t, ~opc.un, FALSE)}
  <2>1. (t \in IntegerTypes /\ isSigned(opc.cor)) = FALSE
    BY <1>1
  <2>2. QED
    BY <2>1, Zenon DEF conv
<1> HIDE DEF f
<1>9. conv(opc, a) = {Ret(f)}
  BY <1>5, <1>6, <1>8, Zenon
<1>10. QED
  BY <1>2, <1>7, <1>9, Outcomes, Zenon

(* Conversions of an integer or a pointer to an integer type, without a check. *)
LEMMA ConvUnchecked ==
  ASSUME NEW a \in Values, a.ty \notin FloatTypes, NEW opc, opc.cor \in Targets, ~opc.ovf, ~opc.un
  PROVE  conv(opc, a) = ILConvert(opc, a) /\ \A o \in conv(opc, a) : Good(o)
<1> DEFINE t == getType(opc.cor)
           sg == isSigned(opc.cor)
           w == Bits(t)
           X == Reading(a, sg)
           r == Value(t, X % M(t))
<1>1. /\ t \in IntegerTypes /\ t \in WordTypes /\ t \notin FloatTypes /\ sg \in BOOLEAN
      /\ SizeInBits(t) \in {8, 16, 32, 64}
  BY TargetTypes, Zenon
<1>2. a.ty \in Words /\ a.ty \in WordTypes /\ a.v \in Patterns(a.ty) /\ a = Value(a.ty, a.v)
  BY WordOperand, Operand, Zenon
<1>3. /\ Reading(a, TRUE) \in Int /\ Reading(a, FALSE) = a.v /\ a.v \in Int
      /\ Reading(a, TRUE) % M(a.ty) = a.v
  BY <1>2, Reads, Zenon
<1>4. ILConvert(opc, a) =
         IF X \in IntRange(t, sg) THEN {OnStack(X, opc.cor)}
         ELSE IF sg THEN {OnStack(Signed(Wrap(X, w), w), opc.cor)}
         ELSE {OnStack(Wrap(X, w), opc.cor)}
  <2>1. Num(a, ~sg) = X
    BY Zenon DEF Num, Reading
  <2>2. QED
    BY <1>1, <2>1, Zenon DEF ILConvert, Holds
<1>5. conv(opc, a) = {Ret(convertToStackType(z, opc.cor)) : z \in Conversion(a, t, ~opc.un, sg)}
  <2>1. (t \in IntegerTypes /\ sg) = sg
    BY <1>1, Zenon
  <2>2. QED
    BY <2>1, Zenon DEF conv
<1> HIDE DEF t, sg
<1>6. X \in Int /\ X % M(t) \in Patterns(t) /\ Wrap(X, w) = X % M(t)
  <2>1. X \in Int
    <3>1. CASE sg = TRUE
      BY <1>3, <3>1, Zenon
    <3>2. CASE sg = FALSE
      BY <1>3, <3>2, Zenon
    <3>3. QED
      BY <1>1, <3>1, <3>2, Zenon
  <2> HIDE DEF X
  <2>2. QED
    BY <1>1, <2>1, ReadBack, Zenon
<1>7. Conversion(a, t, ~opc.un, sg) = {r}
  <2>1. CASE a.ty = t
    <3>1. X % M(t) = a.v
      <4>1. CASE sg = TRUE
        BY <1>3, <2>1, <4>1, Zenon
      <4>2. CASE sg = FALSE
        <5>1. a.v \in IntRange(t, FALSE)
          BY <1>2, <2>1 DEF IntRange
        <5>2. a.v % M(t) = a.v
          BY <1>1, <1>3, <5>1, ReadBack, Zenon
        <5>3. QED
          BY <1>3, <4>2, <5>2, Zenon
      <4>3. QED
        BY <1>1, <4>1, <4>2, Zenon
    <3>2. QED
      BY <1>2, <2>1, <3>1, Zenon DEF Conversion
  <2>2. CASE a.ty # t /\ a.ty \in IntegerTypes
    <3>1. a.ty \notin PointerTypes
      BY <2>2 DEF PointerTypes, IntegerTypes
    <3>2. Conversion(a, t, ~opc.un, sg) = {IntCast(a, t, sg)}
      BY <1>1, <2>2, <3>1, Zenon DEF Conversion
    <3>3. QED
      BY <3>2, Zenon DEF IntCast, Wrap, M
  <2>3. CASE a.ty \in PointerTypes
    <3>1. a.ty \notin IntegerTypes /\ a.ty # t /\ SizeInBits(a.ty) = 64
      BY <1>1, <2>3, Sizes DEF PointerTypes, IntegerTypes
    <3>2. Conversion(a, t, ~opc.un, sg) = {IntCast(a, t, FALSE)}
      BY <1>1, <2>3, <3>1, Zenon DEF Conversion
    <3>3. IntCast(a, t, FALSE) = Value(t, a.v % M(t))
      BY <1>1, <1>2, Cast, Zenon
    <3>4. SizeInBits(t) <= SizeInBits(a.ty)
      BY <1>1, <3>1
    <3>5. Reading(a, TRUE) % M(t) = a.v % M(t)
      BY <1>1, <1>2, <3>4, LowBits, Zenon
    <3>6. X % M(t) = a.v % M(t)
      <4>1. CASE sg = TRUE
        BY <3>5, <4>1, Zenon
      <4>2. CASE sg = FALSE
        BY <1>3, <4>2, Zenon
      <4>3. QED
        BY <1>1, <4>1, <4>2, Zenon
    <3>7. QED
      BY <3>2, <3>3, <3>6, Zenon
  <2>4. a.ty \in IntegerTypes \/ a.ty \in PointerTypes
    BY <1>2 DEF Words, IntegerTypes
  <2>5. QED
    BY <2>1, <2>2, <2>3, <2>4, Zenon
<1>8. ILConvert(opc, a) = {OnStack(Reading(r, sg), opc.cor)}
  <2>1. CASE sg = TRUE
    <3>1. Reading(r, TRUE) = Signed(X % M(t), w)
      BY DEF Reading, Value
    <3>2. X \in IntRange(t, TRUE) => Reading(r, TRUE) = X
      BY <1>1, <1>6, ReadBack, Zenon
    <3>3. QED
      BY <1>4, <1>6, <2>1, <3>1, <3>2, Zenon
  <2>2. CASE sg = FALSE
    <3>1. Reading(r, FALSE) = X % M(t)
      BY DEF Reading, Value
    <3>2. X \in IntRange(t, FALSE) => X % M(t) = X
      BY <1>1, <1>6, ReadBack, Zenon
    <3>3. QED
      BY <1>4, <1>6, <2>2, <3>1, <3>2, Zenon
  <2>3. QED
    BY <1>1, <2>1, <2>2, Zenon
<1>9. /\ Ret(convertToStackType(r, opc.cor)) = OnStack(Reading(r, sg), opc.cor)
      /\ Good(Ret(convertToStackType(r, opc.cor)))
  BY <1>6, Pushed, Zenon DEF t, sg
<1> HIDE DEF r, X
<1>10. conv(opc, a) = {Ret(convertToStackType(r, opc.cor))}
  BY <1>5, <1>7, Zenon
<1>11. QED
  BY <1>8, <1>9, <1>10, Zenon

(* The number before the point is a number. *)
LEMMA TruncatedType ==
  ASSUME NEW a \in Values, a.ty \in FloatTypes
  PROVE  Truncated(a.v) \in Int /\ a.v \in Int /\ Round(a.v, "r8") = a.v
<1>1. a.v \in Numbers("r8")
  BY FloatOperand
<1>2. a.v \in Int
  BY <1>1, Formats DEF FloatTypes
<1>3. Truncated(a.v) \in Int
  BY <1>2, QuotientType DEF Truncated
<1>4. QED
  BY <1>1, <1>2, <1>3, RoundSame DEF FloatTypes

(* Reading a pattern gives a number the type holds; a wider type holds the numbers of a
   narrower one. *)
LEMMA ReadingHeld ==
  ASSUME NEW t \in WordTypes, NEW p \in Patterns(t), NEW z \in BOOLEAN
  PROVE  Reading(Value(t, p), z) \in IntRange(t, z)
<1>1. CASE z = TRUE
  BY <1>1, ReadSigned, Ranges, Zenon
<1>2. CASE z = FALSE
  BY <1>2, Zenon DEF Reading, Value, IntRange
<1>3. QED
  BY <1>1, <1>2, Zenon

(* A wider type holds what a narrower one does. *)
LEMMA RangeGrows ==
  ASSUME NEW s \in WordTypes, NEW t \in WordTypes, SizeInBits(s) <= SizeInBits(t), NEW z \in BOOLEAN
  PROVE  IntRange(s, z) \subseteq IntRange(t, z) /\ IntRange(t, z) \subseteq Int
<1> DEFINE m == M(s)
           h == H(s)
           mt == M(t)
           ht == H(t)
<1>1. m \in Nat /\ h \in Nat /\ mt \in Nat /\ ht \in Nat /\ m <= mt /\ h <= ht
  BY Moduli, Wider, Zenon
<1> HIDE DEF m, h, mt, ht
<1>2. /\ -h .. h - 1 \subseteq -ht .. ht - 1 /\ -ht .. ht - 1 \subseteq Int
      /\ 0 .. m - 1 \subseteq 0 .. mt - 1 /\ 0 .. mt - 1 \subseteq Int
  BY <1>1
<1>3. CASE z = TRUE
  BY <1>2, <1>3, Ranges, Zenon DEF h, ht
<1>4. CASE z = FALSE
  BY <1>2, <1>4, Ranges, Zenon DEF m, mt
<1>5. QED
  BY <1>3, <1>4, Zenon

(* A cast of a word keeps the number the target holds. *)
LEMMA CastKeeps ==
  ASSUME NEW q, q.ty \in WordTypes, q.v \in Patterns(q.ty), NEW t \in WordTypes, NEW z \in BOOLEAN
  PROVE  /\ \E p \in Patterns(t) : IntCast(q, t, z) = Value(t, p)
         /\ Reading(q, z) \in IntRange(t, z) => Reading(IntCast(q, t, z), z) = Reading(q, z)
<1>1. CASE z = TRUE
  <2>1. \E p \in Patterns(t) : IntCast(q, t, TRUE) = Value(t, p)
    BY Cast, Zenon
  <2>2. Reading(q, TRUE) \in IntRange(t, TRUE) => Reading(IntCast(q, t, TRUE), TRUE) = Reading(q, TRUE)
    BY ConvertKeeps, Zenon
  <2>3. QED
    BY <1>1, <2>1, <2>2, Zenon
<1>2. CASE z = FALSE
  <2>1. Reading(q, FALSE) = q.v
    BY Reads, Zenon
  <2>2. \E p \in Patterns(t) : IntCast(q, t, FALSE) = Value(t, p)
    BY Cast, Zenon
  <2>3. Reading(q, FALSE) \in IntRange(t, FALSE)
           => Reading(IntCast(q, t, FALSE), FALSE) = Reading(q, FALSE)
    BY <2>1, ConvertKeeps, Zenon
  <2>4. QED
    BY <1>2, <2>2, <2>3, Zenon
<1>3. QED
  BY <1>1, <1>2, Zenon

(* Conversions of a floating-point number to an integer type, without a check. *)
LEMMA ConvTruncated ==
  ASSUME NEW a \in Values, a.ty \in FloatTypes, NEW opc, opc.cor \in Targets, ~opc.ovf
  PROVE  \A o \in conv(opc, a) : o \in ILConvert(opc, a) /\ Good(o)
<1> DEFINE t == getType(opc.cor)
           sg == isSigned(opc.cor)
           x == Truncated(a.v)
           Q == FPToInt(a, "i64", sg)
           fits == IsFinite(a.v) /\ x \in IntRange(t, sg)
<1>1. /\ t \in IntegerTypes /\ t \in WordTypes /\ t \notin FloatTypes /\ sg \in BOOLEAN
      /\ SizeInBits(t) \in {8, 16, 32, 64}
  BY TargetTypes, Zenon
<1>2. a.ty \notin IntegerTypes /\ a.ty \notin PointerTypes /\ a.ty # t /\ "i64" \in WordTypes
  BY <1>1 DEF FloatTypes, IntegerTypes, PointerTypes, WordTypes
<1>3. x \in Int
  BY TruncatedType, Zenon
<1>4. ILConvert(opc, a) = IF fits THEN {OnStack(x, opc.cor)}
                          ELSE {OnStack(z, opc.cor) : z \in IntRange(t, sg)}
  BY <1>1, Zenon DEF ILConvert, Holds
<1>5. conv(opc, a) = {Ret(convertToStackType(z, opc.cor)) : z \in {IntCast(q, t, sg) : q \in Q}}
  <2>1. (t \in IntegerTypes /\ sg) = sg
    BY <1>1, Zenon
  <2>2. Conversion(a, t, ~opc.un, sg) = {IntCast(q, t, sg) : q \in Q}
    BY <1>1, <1>2, Zenon DEF Conversion
  <2>3. QED
    BY <2>1, <2>2, Zenon DEF conv
<1>6. SizeInBits(t) <= SizeInBits("i64")
  BY <1>1, Sizes
<1> HIDE DEF t, sg, x
<1>7. IntRange(t, sg) \subseteq IntRange("i64", sg)
  BY <1>1, <1>2, <1>6, RangeGrows, Zenon
<1>8. Wrap(x, Bits("i64")) = x % M("i64") /\ x % M("i64") \in Patterns("i64")
  BY <1>2, <1>3, ReadBack, Zenon
<1>9. ASSUME NEW q \in Q PROVE q.ty = "i64" /\ q.v \in Patterns("i64")
  <2>1. \E p \in Patterns("i64") : q = Value("i64", p)
    BY <1>8, Zenon DEF FPToInt, x
  <2>2. QED
    BY <2>1 DEF Value
<1>10. ASSUME fits, NEW q \in Q PROVE Reading(q, sg) = x
  <2>1. q = Value("i64", x % M("i64"))
    BY <1>7, <1>8, <1>10, Zenon DEF FPToInt, x
  <2>2. x \in IntRange("i64", sg)
    BY <1>7, <1>10, Zenon
  <2>3. CASE sg = TRUE
    BY <1>2, <1>3, <2>1, <2>2, <2>3, ReadBack, Zenon
  <2>4. CASE sg = FALSE
    <3>1. x % M("i64") = x
      BY <1>2, <1>3, <2>2, <2>4, ReadBack, Zenon
    <3>2. Reading(Value("i64", x % M("i64")), FALSE) = x % M("i64")
      BY DEF Reading, Value
    <3>3. QED
      BY <2>1, <2>4, <3>1, <3>2, Zenon
  <2>5. QED
    BY <1>1, <2>3, <2>4, Zenon
<1>11. ASSUME NEW q \in Q
       PROVE  LET o == Ret(convertToStackType(IntCast(q, t, sg), opc.cor))
              IN  o \in ILConvert(opc, a) /\ Good(o)
  <2> DEFINE r == IntCast(q, t, sg)
             o == Ret(convertToStackType(r, opc.cor))
  <2>0. q.ty \in WordTypes /\ q.v \in Patterns(q.ty)
    BY <1>2, <1>9
  <2>1. /\ \E p \in Patterns(t) : r = Value(t, p)
        /\ Reading(q, sg) \in IntRange(t, sg) => Reading(r, sg) = Reading(q, sg)
    BY <1>1, <2>0, CastKeeps, Zenon
  <2>2. PICK p \in Patterns(t) : r = Value(t, p)
    BY <2>1, Zenon
  <2>3. o = OnStack(Reading(r, sg), opc.cor) /\ Good(o)
    BY <2>2, Pushed, Zenon DEF t, sg
  <2>4. Reading(r, sg) \in IntRange(t, sg)
    BY <1>1, <2>2, ReadingHeld, Zenon
  <2> HIDE DEF r
  <2>5. CASE fits
    <3>1. Reading(r, sg) = x
      BY <1>10, <2>1, <2>5, Zenon
    <3>2. QED
      BY <1>4, <2>3, <2>5, <3>1, Zenon DEF r
  <2>6. CASE ~fits
    BY <1>4, <2>3, <2>4, <2>6, Zenon DEF r
  <2>7. QED
    BY <2>5, <2>6, Zenon
<1>12. QED
  BY <1>5, <1>11, Zenon

(* The check and the conversion of an integer, the sign of its source given.  An unsigned
   number that is extended with its sign is the exception. *)
Misread(q, t, s, d) == ~s /\ d /\ SizeInBits(t) > SizeInBits(q.ty) /\ Reading(q, TRUE) < 0

CheckedCast(q, t, s, d) ==
    /\ ConvertOverflows(q, t, s, d) <=> Reading(q, s) \notin IntRange(t, d)
    /\ \E p \in Patterns(t) : IntCast(q, t, d) = Value(t, p)
    /\ Conversion(q, t, s, d) = {IntCast(q, t, d)}
    /\ Reading(q, s) \in IntRange(t, d) /\ ~Misread(q, t, s, d)
          => Reading(IntCast(q, t, d), d) = Reading(q, s)

(* The two comparisons of the overflow check throw for what the target does not hold. *)
LEMMA Checked ==
  ASSUME NEW q, q.ty \in StackIntegers, q.v \in Patterns(q.ty), q = Value(q.ty, q.v),
         NEW t \in IntegerTypes, NEW s \in BOOLEAN, NEW d \in BOOLEAN
  PROVE  CheckedCast(q, t, s, d)
<1>1. q.ty \in WordTypes /\ t \in WordTypes /\ q.ty \in IntegerTypes /\ q.ty \notin PointerTypes
      /\ t \notin FloatTypes /\ q.ty \notin FloatTypes
  BY DEF WordTypes, IntegerTypes, StackIntegers, PointerTypes, FloatTypes
<1>2. Reading(q, FALSE) = q.v /\ Reading(q, TRUE) % M(q.ty) = q.v /\ Reading(q, TRUE) \in Int
  BY <1>1, Reads, Zenon
<1>3. \E p \in Patterns(t) : IntCast(q, t, d) = Value(t, p)
  BY <1>1, CastKeeps, Zenon
<1>4. Conversion(q, t, s, d) = {IntCast(q, t, d)}
  <2>1. CASE q.ty = t
    <3>1. q.v \in IntRange(t, FALSE)
      BY <2>1 DEF IntRange
    <3>2. q.v \in Int
      BY <1>1, Reads, Zenon
    <3>3. q.v % M(t) = q.v
      BY <1>1, <3>1, <3>2, ReadBack, Zenon
    <3>4. IntCast(q, t, TRUE) = q /\ IntCast(q, t, FALSE) = q
      BY <1>1, <1>2, <2>1, <3>3, Cast, Zenon
    <3>5. IntCast(q, t, d) = q
      <4>1. CASE d = TRUE
        BY <3>4, <4>1, Zenon
      <4>2. CASE d = FALSE
        BY <3>4, <4>2, Zenon
      <4>3. QED
        BY <4>1, <4>2, Zenon
    <3>6. QED
      BY <2>1, <3>5, Zenon DEF Conversion
  <2>2. CASE q.ty # t
    BY <1>1, <2>2, Zenon DEF Conversion
  <2>3. QED
    BY <2>1, <2>2, Zenon
<1>5. ConvertOverflows(q, t, s, d) <=> Reading(q, s) \notin IntRange(t, d)
  <2>1. CASE s = TRUE /\ d = TRUE
    BY <1>2, <2>1, ConvertChecks, Zenon
  <2>2. CASE s = TRUE /\ d = FALSE
    BY <1>2, <2>2, ConvertChecks, Zenon
  <2>3. CASE s = FALSE /\ d = TRUE
    BY <1>2, <2>3, ConvertChecks, Zenon
  <2>4. CASE s = FALSE /\ d = FALSE
    BY <1>2, <2>4, ConvertChecks, Zenon
  <2>5. QED
    BY <2>1, <2>2, <2>3, <2>4, Zenon
<1>6. ASSUME ~Misread(q, t, s, d), Reading(q, s) \in IntRange(t, d)
      PROVE  Reading(IntCast(q, t, d), d) = Reading(q, s)
  <2>1. CASE s = TRUE /\ d = TRUE
    BY <1>1, <1>6, <2>1, ConvertKeeps, Zenon
  <2>2. CASE s = TRUE /\ d = FALSE
    BY <1>1, <1>6, <2>2, ConvertKeeps, Zenon
  <2>3. CASE s = FALSE /\ d = TRUE
    <3>1. SizeInBits(t) <= SizeInBits(q.ty) \/ Reading(q, TRUE) >= 0
      <4>1. SizeInBits(t) \in Int /\ SizeInBits(q.ty) \in Int
        BY Sizes DEF StackIntegers, IntegerTypes
      <4>2. ~(SizeInBits(t) > SizeInBits(q.ty)) => SizeInBits(t) <= SizeInBits(q.ty)
        BY <4>1
      <4>3. \A x \in Int : ~(x < 0) => x >= 0
        OBVIOUS
      <4>4. QED
        BY <1>2, <1>6, <2>3, <4>2, <4>3, Zenon DEF Misread
    <3>2. QED
      BY <1>1, <1>2, <1>6, <2>3, <3>1, ConvertKeeps, Zenon
  <2>4. CASE s = FALSE /\ d = FALSE
    BY <1>1, <1>2, <1>6, <2>4, ConvertKeeps, Zenon
  <2>5. QED
    BY <2>1, <2>2, <2>3, <2>4, Zenon
<1>7. QED
  BY <1>3, <1>4, <1>5, <1>6, Zenon DEF CheckedCast

(* What is pushed after the check. *)
Thrown(q, t, s, d, cor) ==
    IF ConvertOverflows(q, t, s, d) THEN {Throw("Overflow")}
    ELSE {Ret(convertToStackType(r, cor)) : r \in Conversion(q, t, s, d)}
Fitting(x, t, d, cor) ==
    IF x \in IntRange(t, d) THEN {OnStack(x, cor)} ELSE {Throw("Overflow")}
CheckAgrees(q, t, s, d, cor) ==
    /\ \A o \in Thrown(q, t, s, d, cor) : Good(o)
    /\ ~Misread(q, t, s, d) => Thrown(q, t, s, d, cor) = Fitting(Reading(q, s), t, d, cor)

(* What conv does with a checked word is what IL documents, unless the check misreads it. *)
LEMMA AfterCheck ==
  ASSUME NEW q, q.ty \in StackIntegers, q.v \in Patterns(q.ty), q = Value(q.ty, q.v),
         NEW cor \in Targets, NEW s \in BOOLEAN, NEW t, t = getType(cor), NEW d, d = isSigned(cor)
  PROVE  CheckAgrees(q, t, s, d, cor)
<1> DEFINE r == IntCast(q, t, d)
           o == Ret(convertToStackType(r, cor))
<1>1. t \in IntegerTypes /\ d \in BOOLEAN
  BY TargetTypes, Zenon
<1>2. CheckedCast(q, t, s, d)
  BY <1>1, Checked, Zenon
<1>3. PICK p \in Patterns(t) : r = Value(t, p)
  BY <1>2, Zenon DEF CheckedCast
<1>4. Good(o) /\ o = OnStack(Reading(r, d), cor)
  BY <1>3, Pushed, Zenon
<1>5. Thrown(q, t, s, d, cor) = IF ConvertOverflows(q, t, s, d) THEN {Throw("Overflow")} ELSE {o}
  BY <1>2, Zenon DEF CheckedCast, Thrown
<1>6. Good(Throw("Overflow"))
  BY Outcomes
<1>7. /\ ConvertOverflows(q, t, s, d) <=> Reading(q, s) \notin IntRange(t, d)
      /\ Reading(q, s) \in IntRange(t, d) /\ ~Misread(q, t, s, d) => Reading(r, d) = Reading(q, s)
  BY <1>2, Zenon DEF CheckedCast
<1> HIDE DEF r, o
<1>8. \A z \in Thrown(q, t, s, d, cor) : Good(z)
  BY <1>4, <1>5, <1>6, Zenon
<1>9. ASSUME ~Misread(q, t, s, d)
      PROVE  Thrown(q, t, s, d, cor) = Fitting(Reading(q, s), t, d, cor)
  <2>1. CASE Reading(q, s) \in IntRange(t, d)
    BY <1>4, <1>5, <1>7, <1>9, <2>1, Zenon DEF Fitting
  <2>2. CASE Reading(q, s) \notin IntRange(t, d)
    BY <1>5, <1>7, <2>2, Zenon DEF Fitting
  <2>3. QED
    BY <2>1, <2>2, Zenon
<1>10. QED
  BY <1>8, <1>9, Zenon DEF CheckAgrees

(* Conversions with a check, from an integer or a pointer. *)
LEMMA ConvChecked ==
  ASSUME NEW a \in Values, a.ty \notin FloatTypes, NEW opc, opc.cor \in Targets,
         opc.ovf, opc.un \in BOOLEAN
  PROVE  /\ \A o \in conv(opc, a) : Good(o)
         /\ ~(/\ opc.un /\ opc.cor \in {"LONG", "NATIVEINT"} /\ a.ty = "i32" /\ Reading(a, TRUE) < 0)
               => conv(opc, a) = ILConvert(opc, a)
<1> DEFINE t == getType(opc.cor)
           d == isSigned(opc.cor)
           s == ~opc.un
           q == IF a.ty \in PointerTypes THEN Value("i64", a.v) ELSE a
<1>1. /\ t \in IntegerTypes /\ t \notin FloatTypes /\ d \in BOOLEAN /\ s \in BOOLEAN
      /\ SizeInBits(t) \in {8, 16, 32, 64}
      /\ (SizeInBits(t) = 64 <=> t = "i64")
      /\ (t = "i64" /\ d => opc.cor \in {"LONG", "NATIVEINT"})
  <2>1. s \in BOOLEAN
    BY Zenon
  <2>2. QED
    BY <2>1, TargetTypes, Zenon
<1>2. a.ty \in Words /\ a.v \in Patterns(a.ty) /\ a = Value(a.ty, a.v)
  BY WordOperand, Operand, Zenon
<1>3. /\ q.ty \in StackIntegers /\ q.v \in Patterns(q.ty) /\ q = Value(q.ty, q.v)
      /\ Reading(q, TRUE) = Reading(a, TRUE) /\ Reading(q, FALSE) = Reading(a, FALSE)
      /\ (a.ty \in PointerTypes => q.ty = "i64") /\ (a.ty \notin PointerTypes => q = a)
  <2>1. CASE a.ty \in PointerTypes
    <3>1. Bits(a.ty) = Bits("i64")
      BY <2>1, Sizes DEF PointerTypes
    <3>2. Patterns(a.ty) = Patterns("i64")
      BY <3>1, Zenon DEF Patterns
    <3>3. q = Value("i64", a.v)
      BY <2>1
    <3> HIDE DEF q
    <3>4. q.ty = "i64" /\ q.v = a.v
      BY <3>3 DEF Value
    <3>5. Reading(q, TRUE) = Reading(a, TRUE) /\ Reading(q, FALSE) = Reading(a, FALSE)
      BY <3>1, <3>4, Zenon DEF Reading
    <3>6. q.ty \in StackIntegers
      BY <3>4 DEF StackIntegers
    <3>7. QED
      BY <1>2, <2>1, <3>2, <3>3, <3>4, <3>5, <3>6, Zenon
  <2>2. CASE a.ty \notin PointerTypes
    <3>1. q = a
      BY <2>2
    <3>2. a.ty \in StackIntegers
      BY <1>2, <2>2 DEF StackIntegers, Words
    <3> HIDE DEF q
    <3>3. QED
      BY <1>2, <2>2, <3>1, <3>2, Zenon
  <2>3. QED
    BY <2>1, <2>2, Zenon
<1>4. Reading(q, s) = Reading(a, s)
  <2>1. CASE s = TRUE
    BY <1>3, <2>1, Zenon
  <2>2. CASE s = FALSE
    BY <1>3, <2>2, Zenon
  <2>3. QED
    BY <1>1, <2>1, <2>2, Zenon
<1> DEFINE check == genConvertOverflowCheck(a, t, s, d)
<1>5. check.source = q /\ check.signed = s /\ (check.fails <=> ConvertOverflows(q, t, s, d))
  <2> DEFINE int == CASE a.ty \in FloatTypes   -> DoubleToIntOvf(FPCast(a, "r8"), IF SizeInBits(t) = 64 THEN "i64" ELSE "i32", d).source
                      [] a.ty \in PointerTypes -> Value("i64", a.v)
                      [] OTHER                 -> a
             fails == \/ a.ty \in FloatTypes /\ DoubleToIntOvf(FPCast(a, "r8"), IF SizeInBits(t) = 64 THEN "i64" ELSE "i32", d).fails
                      \/ ConvertOverflows(int, t, IF a.ty \in FloatTypes THEN d ELSE s, d)
  <2>1. check = [source |-> int, signed |-> IF a.ty \in FloatTypes THEN d ELSE s, fails |-> fails]
    BY Zenon DEF genConvertOverflowCheck
  <2>2. int = q
    <3>1. CASE a.ty \in PointerTypes
      BY <3>1, Zenon
    <3>2. CASE a.ty \notin PointerTypes
      BY <3>2, Zenon
    <3>3. QED
      BY <3>1, <3>2, Zenon
  <2> HIDE DEF check, int
  <2>3. fails <=> ConvertOverflows(q, t, s, d)
    BY <2>2, Zenon
  <2>4. check.source = int /\ (check.fails <=> fails) /\ check.signed = IF a.ty \in FloatTypes THEN d ELSE s
    <3> HIDE DEF fails, d, s
    <3> QED
      BY <2>1, Zenon
  <2>5. QED
    BY <2>2, <2>3, <2>4, Zenon
<1>6. conv(opc, a) = IF ConvertOverflows(q, t, s, d) THEN {Throw("Overflow")}
                     ELSE {Ret(convertToStackType(r, opc.cor)) : r \in Conversion(q, t, s, d)}
  <2>1. (t \in IntegerTypes /\ d) = d
    BY <1>1, Zenon
  <2>2. conv(opc, a) = IF check.fails THEN {Throw("Overflow")}
                       ELSE {Ret(convertToStackType(r, opc.cor)) : r \in Conversion(check.source, t, check.signed, d)}
    BY <2>1, Zenon DEF conv
  <2> HIDE DEF check, q, t, d, s
  <2>3. QED
    BY <1>5, <2>2, Zenon
<1>7. ILConvert(opc, a) = IF Reading(a, s) \in IntRange(t, d) THEN {OnStack(Reading(a, s), opc.cor)}
                          ELSE {Throw("Overflow")}
  BY <1>1, Zenon DEF ILConvert, Holds, Num
<1>8. Misread(q, t, s, d)
         => opc.un /\ opc.cor \in {"LONG", "NATIVEINT"} /\ a.ty = "i32" /\ Reading(a, TRUE) < 0
  <2> HIDE DEF q, t, d
  <2>1. ASSUME SizeInBits(t) > SizeInBits(q.ty) PROVE q.ty = "i32" /\ t = "i64"
    BY <1>1, <1>3, <2>1, Sizes DEF StackIntegers
  <2>2. "i32" # "i64"
    OBVIOUS
  <2>3. QED
    BY <1>1, <1>3, <2>1, <2>2, Zenon DEF Misread
<1> DEFINE O == conv(opc, a)
<1>9. O = Thrown(q, t, s, d, opc.cor)
  BY <1>6, Zenon DEF Thrown
<1>10. t = getType(opc.cor) /\ d = isSigned(opc.cor)
  OBVIOUS
<1> HIDE DEF q, s, t, d, O
<1>11. CheckAgrees(q, t, s, d, opc.cor)
  <2>1. q.ty \in StackIntegers /\ q.v \in Patterns(q.ty) /\ q = Value(q.ty, q.v) /\ s \in BOOLEAN
    BY <1>1, <1>3, Zenon
  <2>2. QED
    BY <1>10, <2>1, AfterCheck, Zenon
<1>12. Fitting(Reading(q, s), t, d, opc.cor) = ILConvert(opc, a)
  BY <1>4, <1>7, Zenon DEF Fitting
<1>13. QED
  BY <1>8, <1>9, <1>11, <1>12, Zenon DEF O, CheckAgrees

(* Conversions of a floating-point number with a check: the runtime's helper checks the range
   of 32 or 64 bits, the comparison after it the range of the target. *)
LEMMA HelperReads ==
  ASSUME NEW a \in Values, a.ty \in FloatTypes, NEW T \in StackIntegers, NEW d \in BOOLEAN,
         IsFinite(a.v), Truncated(a.v) \in IntRange(T, d)
  PROVE  LET h == DoubleToIntOvf(FPCast(a, "r8"), T, d)
         IN  /\ h.fails = FALSE /\ h.source.ty = T /\ h.source.v \in Patterns(T)
             /\ h.source = Value(h.source.ty, h.source.v)
             /\ Reading(h.source, d) = Truncated(a.v)
<1> DEFINE x == Truncated(a.v)
           f == FPCast(a, "r8")
           q == Value(T, x % M(T))
           h == DoubleToIntOvf(f, T, d)
<1>1. T \in WordTypes
  BY DEF StackIntegers, WordTypes, IntegerTypes
<1>2. x \in Int /\ f.v = a.v
  BY TruncatedType DEF FPCast, Value
<1>3. Wrap(x, Bits(T)) = x % M(T) /\ x % M(T) \in Patterns(T)
  BY <1>1, <1>2, ReadBack, Zenon
<1>4. h = [fails |-> FALSE, source |-> q]
  <2>1. IsFinite(f.v) /\ Truncated(f.v) = x
    BY <1>2, Zenon
  <2> HIDE DEF f
  <2>2. QED
    BY <1>3, <2>1, Zenon DEF DoubleToIntOvf
<1> HIDE DEF h, x
<1>5. h.fails = FALSE /\ h.source = q
  BY <1>4, Zenon
<1>6. q.ty = T /\ q.v = x % M(T)
  BY DEF Value
<1>7. Reading(q, d) = x
  <2>1. x \in IntRange(T, d)
    BY DEF x
  <2>2. CASE d = TRUE
    BY <1>1, <1>2, <2>1, <2>2, ReadBack, Zenon
  <2>3. CASE d = FALSE
    <3>1. x % M(T) = x
      BY <1>1, <1>2, <2>1, <2>3, ReadBack, Zenon
    <3>2. Reading(q, FALSE) = x % M(T)
      BY <1>6, Zenon DEF Reading
    <3>3. QED
      BY <2>3, <3>1, <3>2, Zenon
  <2>4. QED
    BY <2>2, <2>3, Zenon
<1>8. h.source.ty = T /\ h.source.v \in Patterns(T) /\ h.source = Value(h.source.ty, h.source.v)
  BY <1>3, <1>5, <1>6, Zenon
<1>9. QED
  BY <1>5, <1>7, <1>8, Zenon DEF x, h

(* The helper of the runtime throws for what the target does not hold. *)
LEMMA HelperFails ==
  ASSUME NEW a \in Values, a.ty \in FloatTypes, NEW T, NEW d,
         ~(IsFinite(a.v) /\ Truncated(a.v) \in IntRange(T, d))
  PROVE  DoubleToIntOvf(FPCast(a, "r8"), T, d).fails = TRUE
<1> DEFINE f == FPCast(a, "r8")
           h == DoubleToIntOvf(f, T, d)
<1>1. f.v = a.v
  BY TruncatedType DEF FPCast, Value
<1> HIDE DEF f
<1>2. h = [fails |-> TRUE, source |-> Value(T, 0)]
  BY <1>1, Zenon DEF DoubleToIntOvf
<1> HIDE DEF h
<1>3. h.fails = TRUE
  BY <1>2, Zenon
<1>4. QED
  BY <1>3, Zenon DEF h, f

(* A checked conversion of a float does what IL documents. *)
LEMMA ConvCheckedFloat ==
  ASSUME NEW a \in Values, a.ty \in FloatTypes, NEW opc, opc.cor \in Targets, opc.ovf
  PROVE  conv(opc, a) = ILConvert(opc, a) /\ \A o \in conv(opc, a) : Good(o)
<1> DEFINE cor == opc.cor
           t == getType(cor)
           d == isSigned(cor)
           x == Truncated(a.v)
           T == IF SizeInBits(t) = 64 THEN "i64" ELSE "i32"
           h == DoubleToIntOvf(FPCast(a, "r8"), T, d)
           q == h.source
           check == genConvertOverflowCheck(a, t, ~opc.un, d)
<1>1. /\ t \in IntegerTypes /\ t \in WordTypes /\ t \notin FloatTypes /\ d \in BOOLEAN
      /\ SizeInBits(t) \in {8, 16, 32, 64}
  BY TargetTypes, Zenon
<1>2. T \in StackIntegers /\ T \in WordTypes /\ SizeInBits(t) <= SizeInBits(T)
  <2>1. SizeInBits("i64") = 64 /\ SizeInBits("i32") = 32
    BY Sizes
  <2>2. CASE SizeInBits(t) = 64
    <3>1. T = "i64"
      BY <2>2
    <3>2. QED
      BY <2>1, <2>2, <3>1 DEF StackIntegers, WordTypes, IntegerTypes
  <2>3. CASE SizeInBits(t) # 64
    <3>1. T = "i32"
      BY <2>3
    <3>2. SizeInBits(t) <= 32
      BY <1>1, <2>3
    <3>3. QED
      BY <2>1, <3>1, <3>2 DEF StackIntegers, WordTypes, IntegerTypes
  <2>4. QED
    BY <2>2, <2>3, Zenon
<1>3. check = [source |-> q, signed |-> d, fails |-> h.fails \/ ConvertOverflows(q, t, d, d)]
  <2>1. a.ty \notin PointerTypes
    BY DEF PointerTypes, FloatTypes
  <2>2. QED
    BY <2>1, Zenon DEF genConvertOverflowCheck
<1>4. conv(opc, a) = IF check.fails THEN {Throw("Overflow")}
                     ELSE {Ret(convertToStackType(r, cor)) : r \in Conversion(check.source, t, check.signed, d)}
  <2>1. (t \in IntegerTypes /\ d) = d
    BY <1>1, Zenon
  <2>2. QED
    BY <2>1, Zenon DEF conv
<1>5. ILConvert(opc, a) = IF IsFinite(a.v) /\ x \in IntRange(t, d) THEN {OnStack(x, cor)}
                          ELSE {Throw("Overflow")}
  BY <1>1, Zenon DEF ILConvert, Holds
<1>6. t = getType(cor) /\ d = isSigned(cor) /\ cor \in Targets
  OBVIOUS
<1> HIDE DEF check, q, t, d
<1>7. check.source = q /\ check.signed = d /\ (check.fails <=> h.fails \/ ConvertOverflows(q, t, d, d))
  <2> DEFINE fails == h.fails \/ ConvertOverflows(q, t, d, d)
  <2> HIDE DEF fails, h
  <2>1. check = [source |-> q, signed |-> d, fails |-> fails]
    BY <1>3, Zenon DEF fails, h
  <2>2. check.source = q /\ check.signed = d /\ (check.fails <=> fails)
    BY <2>1, Zenon
  <2>3. QED
    BY <2>2, Zenon DEF fails
<1>8. IntRange(t, d) \subseteq IntRange(T, d)
  <2> HIDE DEF T
  <2> QED
    BY <1>1, <1>2, RangeGrows, Zenon
<1> HIDE DEF T, x
<1>9. CASE IsFinite(a.v) /\ x \in IntRange(T, d)
  <2>1. h.fails = FALSE /\ q.ty = T /\ q.v \in Patterns(T) /\ q = Value(q.ty, q.v) /\ Reading(q, d) = x
    <3>1. T \in StackIntegers /\ d \in BOOLEAN
      BY <1>1, <1>2, Zenon
    <3>2. IsFinite(a.v) /\ Truncated(a.v) \in IntRange(T, d)
      BY <1>9, Zenon DEF x
    <3>3. QED
      BY <3>1, <3>2, HelperReads, ZenonT(40) DEF x, q
  <2> HIDE DEF h
  <2>2. conv(opc, a) = Thrown(q, t, d, d, cor)
    BY <1>4, <1>7, <2>1, Zenon DEF Thrown
  <2>3. q.ty \in StackIntegers /\ q.v \in Patterns(q.ty)
    BY <1>2, <2>1, Zenon
  <2>4. CheckAgrees(q, t, d, d, cor)
    <3> HIDE DEF cor
    <3> QED
      BY <1>1, <1>6, <2>1, <2>3, AfterCheck, Zenon
  <2>5. ~Misread(q, t, d, d)
    BY Zenon DEF Misread
  <2>6. ILConvert(opc, a) = Fitting(x, t, d, cor)
    BY <1>5, <1>9, Zenon DEF Fitting
  <2>7. QED
    BY <2>1, <2>2, <2>4, <2>5, <2>6, Zenon DEF CheckAgrees
<1>10. CASE ~(IsFinite(a.v) /\ x \in IntRange(T, d))
  <2>1. h.fails = TRUE
    BY <1>10, HelperFails, Zenon DEF x
  <2>2. conv(opc, a) = {Throw("Overflow")}
    BY <1>4, <1>7, <2>1, Zenon
  <2>3. ILConvert(opc, a) = {Throw("Overflow")}
    BY <1>5, <1>8, <1>10, Zenon
  <2>4. QED
    BY <2>2, <2>3, Outcomes, Zenon
<1>11. QED
  BY <1>9, <1>10, Zenon

(* Every conversion, with the one exception that the property names. *)
LEMMA ConvCorrect ==
  ASSUME NEW a \in Values, NEW opc \in ConvOpcode,
         a.ty \in PointerTypes => getType(opc.cor) \in IntegerTypes, NEW o \in conv(opc, a)
  PROVE  /\ Good(o)
         /\ ~(/\ opc.ovf /\ opc.un /\ opc.cor \in {"LONG", "NATIVEINT"}
              /\ a.ty = "i32" /\ Reading(a, TRUE) < 0)
               => o \in ILConvert(opc, a)
<1>1. /\ opc.ovf \in BOOLEAN /\ opc.un \in BOOLEAN
      /\ \/ opc.cor \in Targets /\ (opc.ovf \/ ~opc.un)
         \/ opc.cor \in {"FLOAT", "DOUBLE"} /\ ~opc.ovf
  BY ConvCases, Zenon
<1>2. CASE opc.cor \in {"FLOAT", "DOUBLE"} /\ ~opc.ovf
  <2>1. getType(opc.cor) \notin IntegerTypes
    BY <1>2 DEF getType, IntegerTypes
  <2>2. conv(opc, a) = ILConvert(opc, a) /\ \A z \in conv(opc, a) : Good(z)
    BY <1>1, <1>2, <2>1, ConvFloats
  <2>3. QED
    BY <2>2, Zenon
<1>3. CASE opc.cor \in Targets /\ opc.ovf
  <2>1. CASE a.ty \in FloatTypes
    BY <1>3, <2>1, ConvCheckedFloat, Zenon
  <2>2. CASE a.ty \notin FloatTypes
    BY <1>1, <1>3, <2>2, ConvChecked, Zenon
  <2>3. QED
    BY <2>1, <2>2, Zenon
<1>4. CASE opc.cor \in Targets /\ ~opc.ovf /\ ~opc.un
  <2>1. CASE a.ty \in FloatTypes
    BY <1>4, <2>1, ConvTruncated, Zenon
  <2>2. CASE a.ty \notin FloatTypes
    BY <1>4, <2>2, ConvUnchecked, Zenon
  <2>3. QED
    BY <2>1, <2>2, Zenon
<1>5. QED
  BY <1>1, <1>2, <1>3, <1>4, Zenon

----------------------------------------------------------------------------
(* The loop over the instructions *)

(* An instruction takes its operands from the top, and leaves values on the stack. *)
LEMMA Tops ==
  ASSUME stack \in Seq(Values)
  PROVE  /\ Operands(1) => Second \in Values /\ Top(1)[1] = Second
         /\ Operands(2) => First \in Values /\ Second \in Values /\ Top(2)[1] = First /\ Top(2)[2] = Second
<1> DEFINE l == Len(stack)
<1>1. l \in Nat /\ stack \in [1 .. l -> Values]
  BY LenProperties
<1>2. ASSUME l >= 1 PROVE stack[l] \in Values /\ Top(1)[1] = stack[l]
  <2>1. Top(1) = [i \in 1 .. l - (l - 1 + 1) + 1 |-> stack[i + (l - 1 + 1) - 1]]
    BY DEF Top
  <2>2. QED
    BY <1>1, <1>2, <2>1
<1>3. ASSUME l >= 2 PROVE stack[l - 1] \in Values /\ Top(2)[1] = stack[l - 1] /\ Top(2)[2] = stack[l]
  <2>1. Top(2) = [i \in 1 .. l - (l - 2 + 1) + 1 |-> stack[i + (l - 2 + 1) - 1]]
    BY DEF Top
  <2>2. QED
    BY <1>1, <1>3, <2>1
<1>4. QED
  BY <1>1, <1>2, <1>3 DEF Operands, First, Second

(* An instruction keeps the stack well-typed, and the record of it is true. *)
LEMMA Executed ==
  ASSUME stack \in Seq(Values), NEW name, NEW opc, NEW outs, NEW n \in 0 .. 2, Len(stack) >= n,
         NEW k \in 0 .. 2, k # 0 => \A o \in outs : Good(o), Execute(name, opc, n, outs, k)
  PROVE  /\ stack' \in Seq(Values)
         /\ \E o \in outs : /\ last'.op = name /\ last'.opc = opc
                            /\ last'.args = Top(n) /\ last'.out = o
<1>1. PICK o \in outs :
         /\ last' = [op |-> name, opc |-> opc, args |-> Top(n), out |-> o]
         /\ stack' = IF o.exc # "none" THEN <<>> ELSE Rest(n) \o [j \in 1 .. k |-> o.val]
  BY DEF Execute
<1>2. last'.op = name /\ last'.opc = opc /\ last'.args = Top(n) /\ last'.out = o
  <2> HIDE DEF Top
  <2> QED
    BY <1>1, Zenon
<1>3. stack' \in Seq(Values)
  <2>1. CASE o.exc # "none"
    BY <1>1, <2>1
  <2>2. CASE o.exc = "none"
    <3> DEFINE new == [j \in 1 .. k |-> o.val]
    <3>1. Rest(n) \in Seq(Values)
      BY DEF Rest
    <3>2. new \in Seq(Values)
      <4>1. CASE k = 0
        <5>1. new = <<>>
          BY <4>1
        <5>2. QED
          BY <5>1
      <4>2. CASE k # 0
        <5>1. o.val \in Values
          BY <2>2, <4>2 DEF Good
        <5>2. k \in Nat
          OBVIOUS
        <5>3. QED
          BY <5>1, <5>2
      <4>3. QED
        BY <4>1, <4>2
    <3>3. stack' = Rest(n) \o new
      BY <1>1, <2>2
    <3> HIDE DEF new
    <3>4. QED
      BY <3>1, <3>2, <3>3
  <2>3. QED
    BY <2>1, <2>2
<1>4. QED
  BY <1>2, <1>3, Zenon

-----------------------------------------------------------------------------
(* The invariant: what is on the stack is a value of its type, and the three properties *)

StackOK == stack \in Seq(Values)
IInv == StackOK /\ ArithmeticAsDocumented /\ ConversionsAsDocumented /\ ComparisonsAsDocumented

(* Instructions that the properties do not speak of. *)
Judged == {"Binary", "Unary", "Shift", "Convert", "Compare", "CondBranch", "BoolBranch"}

(* Of the other opcodes the properties say nothing. *)
LEMMA NotJudged ==
  ASSUME last'.op \notin Judged
  PROVE  ArithmeticAsDocumented' /\ ConversionsAsDocumented' /\ ComparisonsAsDocumented'
BY Zenon DEF Judged, ArithmeticAsDocumented, ConversionsAsDocumented, ComparisonsAsDocumented

(* A binary opcode keeps the invariant. *)
LEMMA BinaryStep ==
  ASSUME StackOK, Binary PROVE IInv'
<1>1. Operands(2) /\ Len(stack) >= 2
  BY DEF Binary, Operands
<1>2. First \in Values /\ Second \in Values /\ Top(2)[1] = First /\ Top(2)[2] = Second
  BY <1>1, Tops, Zenon DEF StackOK
<1>3. PICK opc \in BinaryOpcode :
         BinaryAllowed(opc, First, Second) /\ Execute("Binary", opc, 2, binaryOp(opc, First, Second), 1)
  BY Zenon DEF Binary
<1> DEFINE a == First
           b == Second
           outs == binaryOp(opc, First, Second)
<1>4. /\ ~(/\ opc.op = "Sub" /\ ~opc.ovf /\ a.ty \in PointerTypes
           /\ b = Value("i32", Pow2[Width[32] - 1]))
             => binaryOp(opc, a, b) = ILBinary(opc, a, b)
      /\ \A o \in outs : Good(o)
  <2> HIDE DEF First, Second
  <2> QED
    BY <1>2, <1>3, BinaryCorrect, Zenon
<1>5. /\ stack' \in Seq(Values)
      /\ \E o \in outs : /\ last'.op = "Binary" /\ last'.opc = opc
                         /\ last'.args = Top(2) /\ last'.out = o
  <2>1. Execute("Binary", opc, 2, outs, 1)
    BY <1>3, Zenon
  <2>2. stack \in Seq(Values) /\ Len(stack) >= 2
    BY <1>1 DEF StackOK
  <2> HIDE DEF outs
  <2>3. QED
    BY <1>4, <2>1, <2>2, Executed
<1>6. PICK o \in outs : last'.op = "Binary" /\ last'.opc = opc /\ last'.args = Top(2) /\ last'.out = o
  BY <1>5, Zenon
<1>7. ~NegatedOffset' => last'.out \in ILBinary(last'.opc, last'.args[1], last'.args[2])
  <2>1. last'.args[1] = a /\ last'.args[2] = b
    BY <1>2, <1>6, Zenon
  <2> HIDE DEF First, Second
  <2>2. ASSUME ~NegatedOffset' PROVE binaryOp(opc, a, b) = ILBinary(opc, a, b)
    BY <1>4, <1>6, <2>1, <2>2, Zenon DEF NegatedOffset
  <2>3. QED
    BY <1>6, <2>1, <2>2, Zenon
<1>8. ArithmeticAsDocumented' /\ ConversionsAsDocumented' /\ ComparisonsAsDocumented'
  BY <1>6, <1>7, Zenon DEF ArithmeticAsDocumented, ConversionsAsDocumented, ComparisonsAsDocumented
<1>9. QED
  BY <1>5, <1>8, Zenon DEF IInv, StackOK

(* A unary opcode keeps the invariant. *)
LEMMA UnaryStep ==
  ASSUME StackOK, Unary PROVE IInv'
<1>1. Operands(1) /\ Len(stack) >= 1
  BY DEF Unary, Operands
<1>2. Second \in Values /\ Top(1)[1] = Second
  BY <1>1, Tops, Zenon DEF StackOK
<1>3. PICK opc \in UnaryOpcode :
         /\ Second.ty \in {"i32", "i64"} \/ (opc = "Neg" /\ Second.ty \in FloatTypes)
         /\ Execute("Unary", opc, 1, unaryOp(opc, Second), 1)
  BY Zenon DEF Unary
<1> DEFINE outs == unaryOp(opc, Second)
<1>4. outs = ILUnary(opc, Second) /\ \A o \in outs : Good(o)
  <2> HIDE DEF Second
  <2> QED
    BY <1>2, <1>3, UnaryCorrect
<1>5. /\ stack' \in Seq(Values)
      /\ \E o \in outs : /\ last'.op = "Unary" /\ last'.opc = opc
                         /\ last'.args = Top(1) /\ last'.out = o
  <2>1. Execute("Unary", opc, 1, outs, 1)
    BY <1>3, Zenon
  <2>2. stack \in Seq(Values) /\ Len(stack) >= 1
    BY <1>1 DEF StackOK
  <2> HIDE DEF outs
  <2>3. QED
    BY <1>4, <2>1, <2>2, Executed
<1>6. last'.op = "Unary" /\ last'.out \in ILUnary(last'.opc, last'.args[1])
  BY <1>2, <1>4, <1>5, Zenon
<1>7. ArithmeticAsDocumented' /\ ConversionsAsDocumented' /\ ComparisonsAsDocumented'
  BY <1>6, Zenon DEF ArithmeticAsDocumented, ConversionsAsDocumented, ComparisonsAsDocumented
<1>8. QED
  BY <1>5, <1>7, Zenon DEF IInv, StackOK

(* A shift keeps the invariant. *)
LEMMA ShiftStep ==
  ASSUME StackOK, Shift PROVE IInv'
<1>1. Operands(2) /\ Len(stack) >= 2 /\ First.ty \in {"i32", "i64"} /\ Second.ty \in {"i32", "i64"}
  BY DEF Shift, Operands
<1>2. First \in Values /\ Second \in Values /\ Top(2)[1] = First /\ Top(2)[2] = Second
  BY <1>1, Tops, Zenon DEF StackOK
<1>3. PICK opc \in ShiftOpcode : Execute("Shift", opc, 2, shift(opc, Second, First), 1)
  BY Zenon DEF Shift
<1> DEFINE outs == shift(opc, Second, First)
<1>4. \A o \in outs : o \in ILShift(opc, First, Second) /\ Good(o)
  <2> HIDE DEF First, Second
  <2> QED
    BY <1>1, <1>2, <1>3, ShiftCorrect
<1>5. /\ stack' \in Seq(Values)
      /\ \E o \in outs : /\ last'.op = "Shift" /\ last'.opc = opc
                         /\ last'.args = Top(2) /\ last'.out = o
  <2>1. Execute("Shift", opc, 2, outs, 1)
    BY <1>3, Zenon
  <2>2. stack \in Seq(Values) /\ Len(stack) >= 2
    BY <1>1 DEF StackOK
  <2> HIDE DEF outs
  <2>3. QED
    BY <1>4, <2>1, <2>2, Executed
<1>6. last'.op = "Shift" /\ last'.out \in ILShift(last'.opc, last'.args[1], last'.args[2])
  BY <1>2, <1>4, <1>5, Zenon
<1>7. ArithmeticAsDocumented' /\ ConversionsAsDocumented' /\ ComparisonsAsDocumented'
  BY <1>6, Zenon DEF ArithmeticAsDocumented, ConversionsAsDocumented, ComparisonsAsDocumented
<1>8. QED
  BY <1>5, <1>7, Zenon DEF IInv, StackOK

(* A conversion keeps the invariant. *)
LEMMA ConvertStep ==
  ASSUME StackOK, Convert PROVE IInv'
<1>1. Operands(1) /\ Len(stack) >= 1
  BY DEF Convert, Operands
<1>2. Second \in Values /\ Top(1)[1] = Second
  BY <1>1, Tops, Zenon DEF StackOK
<1>3. PICK opc \in ConvOpcode :
         /\ Second.ty \in PointerTypes => getType(opc.cor) \in IntegerTypes
         /\ Execute("Convert", opc, 1, conv(opc, Second), 1)
  BY Zenon DEF Convert
<1> DEFINE a == Second
           outs == conv(opc, Second)
<1>4. ASSUME NEW o \in outs
      PROVE  /\ Good(o)
             /\ ~(/\ opc.ovf /\ opc.un /\ opc.cor \in {"LONG", "NATIVEINT"}
                  /\ a.ty = "i32" /\ Reading(a, TRUE) < 0)
                   => o \in ILConvert(opc, a)
  <2> HIDE DEF Second
  <2> QED
    BY <1>2, <1>3, ConvCorrect, Zenon
<1>5. /\ stack' \in Seq(Values)
      /\ \E o \in outs : /\ last'.op = "Convert" /\ last'.opc = opc
                         /\ last'.args = Top(1) /\ last'.out = o
  <2>1. Execute("Convert", opc, 1, outs, 1)
    BY <1>3, Zenon
  <2>2. stack \in Seq(Values) /\ Len(stack) >= 1
    BY <1>1 DEF StackOK
  <2>3. \A o \in outs : Good(o)
    BY <1>4, Zenon
  <2> HIDE DEF outs
  <2>4. QED
    BY <2>1, <2>2, <2>3, Executed
<1>6. PICK o \in outs : last'.op = "Convert" /\ last'.opc = opc /\ last'.args = Top(1) /\ last'.out = o
  BY <1>5, Zenon
<1>7. ~WidenedSigned' => last'.out \in ILConvert(last'.opc, last'.args[1])
  <2>1. last'.args[1] = a
    BY <1>2, <1>6, Zenon
  <2> HIDE DEF Second
  <2>2. QED
    BY <1>4, <1>6, <2>1, Zenon DEF WidenedSigned
<1>8. ArithmeticAsDocumented' /\ ConversionsAsDocumented' /\ ComparisonsAsDocumented'
  BY <1>6, <1>7, Zenon DEF ArithmeticAsDocumented, ConversionsAsDocumented, ComparisonsAsDocumented
<1>9. QED
  BY <1>5, <1>8, Zenon DEF IInv, StackOK

(* A condition is a bit. *)
LEMMA Bit ==
  ASSUME NEW c
  PROVE  Good(Ret(Value("i32", AsBit(c)))) /\ AsBit(c) \in Int
<1>1. AsBit(c) \in {0, 1}
  BY DEF AsBit
<1>2. H("i32") \in Nat /\ H("i32") >= 1 /\ M("i32") = 2 * H("i32")
  BY Moduli DEF WordTypes, IntegerTypes
<1>3. AsBit(c) \in Patterns("i32")
  BY <1>1, <1>2 DEF Patterns, M
<1>4. Value("i32", AsBit(c)) \in Values
  BY <1>3, IsValue DEF Words
<1>5. QED
  BY <1>1, <1>4, Outcomes

(* A comparison keeps the invariant. *)
LEMMA CompareStep ==
  ASSUME StackOK, Compare PROVE IInv'
<1>1. Operands(2) /\ Len(stack) >= 2 /\ CompareAllowed(First, Second)
  BY DEF Compare, Operands
<1>2. First \in Values /\ Second \in Values /\ Top(2)[1] = First /\ Top(2)[2] = Second
  BY <1>1, Tops, Zenon DEF StackOK
<1>3. PICK opc \in CmpOpcode : Execute("Compare", opc, 2, cmp(opc, First, Second), 1)
  BY Zenon DEF Compare
<1> DEFINE outs == cmp(opc, First, Second)
           bit == AsBit(Condition(opc, First, Second))
<1>4. opc \in CondBranchOpcode
  BY DEF CondBranchOpcode
<1>5. ASSUME ~SignExtendedOperand(opc, First, Second)
      PROVE  bit = AsBit(ILHolds(opc, First, Second))
  <2> HIDE DEF First, Second
  <2>1. Condition(opc, First, Second) = ILHolds(opc, First, Second)
    BY <1>1, <1>2, <1>4, <1>5, Comparison, Zenon
  <2>2. QED
    BY <2>1, Zenon
<1>6. outs = {Ret(Value("i32", bit))} /\ \A o \in outs : Good(o)
  BY Bit, Zenon DEF cmp
<1>7. \A o \in outs : o.val.v = bit
  <2> HIDE DEF bit
  <2>1. Ret(Value("i32", bit)).val = Value("i32", bit) /\ Value("i32", bit).v = bit
    BY Outcomes DEF Value
  <2> HIDE DEF outs
  <2>2. QED
    BY <1>6, <2>1, Zenon
<1>8. /\ stack' \in Seq(Values)
      /\ \E o \in outs : /\ last'.op = "Compare" /\ last'.opc = opc
                         /\ last'.args = Top(2) /\ last'.out = o
  <2>1. Execute("Compare", opc, 2, outs, 1)
    BY <1>3, Zenon
  <2>2. stack \in Seq(Values) /\ Len(stack) >= 2
    BY <1>1 DEF StackOK
  <2> HIDE DEF outs
  <2>3. QED
    BY <1>6, <2>1, <2>2, Executed
<1>9. /\ last'.op = "Compare"
      /\ ~SignExtendedOperand(last'.opc, last'.args[1], last'.args[2]) =>
            last'.out.val.v = AsBit(ILHolds(last'.opc, last'.args[1], last'.args[2]))
  <2> HIDE DEF outs, bit, First, Second
  <2> QED
    BY <1>2, <1>5, <1>7, <1>8, Zenon
<1>10. ArithmeticAsDocumented' /\ ConversionsAsDocumented' /\ ComparisonsAsDocumented'
  BY <1>9, Zenon DEF ArithmeticAsDocumented, ConversionsAsDocumented, ComparisonsAsDocumented
<1>11. QED
  BY <1>8, <1>10, Zenon DEF IInv, StackOK

(* A branch on a comparison keeps the invariant. *)
LEMMA CondBranchStep ==
  ASSUME StackOK, CondBranch PROVE IInv'
<1>1. Operands(2) /\ Len(stack) >= 2 /\ CompareAllowed(First, Second)
  BY DEF CondBranch, Operands
<1>2. First \in Values /\ Second \in Values /\ Top(2)[1] = First /\ Top(2)[2] = Second
  BY <1>1, Tops, Zenon DEF StackOK
<1>3. PICK opc \in CondBranchOpcode : Execute("CondBranch", opc, 2, condBranch(opc, First, Second), 0)
  BY Zenon DEF CondBranch
<1> DEFINE outs == condBranch(opc, First, Second)
           bit == AsBit(Condition(opc, First, Second))
<1>4. ASSUME ~SignExtendedOperand(opc, First, Second)
      PROVE  bit = AsBit(ILHolds(opc, First, Second))
  <2> HIDE DEF First, Second
  <2>1. Condition(opc, First, Second) = ILHolds(opc, First, Second)
    BY <1>1, <1>2, <1>3, <1>4, Comparison, Zenon
  <2>2. QED
    BY <2>1, Zenon
<1>5. outs = {Ret(Value("i1", bit))}
  BY Zenon DEF condBranch
<1>6. \A o \in outs : o.val.v = bit
  <2> HIDE DEF bit
  <2>1. Ret(Value("i1", bit)).val = Value("i1", bit) /\ Value("i1", bit).v = bit
    BY Outcomes DEF Value
  <2> HIDE DEF outs
  <2>2. QED
    BY <1>5, <2>1, Zenon
<1>7. /\ stack' \in Seq(Values)
      /\ \E o \in outs : /\ last'.op = "CondBranch" /\ last'.opc = opc
                         /\ last'.args = Top(2) /\ last'.out = o
  <2>1. Execute("CondBranch", opc, 2, outs, 0)
    BY <1>3, Zenon
  <2>2. stack \in Seq(Values) /\ Len(stack) >= 2
    BY <1>1 DEF StackOK
  <2> HIDE DEF outs
  <2>3. QED
    BY <2>1, <2>2, Executed
<1>8. /\ last'.op = "CondBranch"
      /\ ~SignExtendedOperand(last'.opc, last'.args[1], last'.args[2]) =>
            last'.out.val.v = AsBit(ILHolds(last'.opc, last'.args[1], last'.args[2]))
  <2> HIDE DEF outs, bit, First, Second
  <2> QED
    BY <1>2, <1>4, <1>6, <1>7, Zenon
<1>9. ArithmeticAsDocumented' /\ ConversionsAsDocumented' /\ ComparisonsAsDocumented'
  BY <1>8, Zenon DEF ArithmeticAsDocumented, ConversionsAsDocumented, ComparisonsAsDocumented
<1>10. QED
  BY <1>7, <1>9, Zenon DEF IInv, StackOK

(* A branch on one value keeps the invariant. *)
LEMMA BoolBranchStep ==
  ASSUME StackOK, BoolBranch PROVE IInv'
<1>1. Operands(1) /\ Len(stack) >= 1
  BY DEF BoolBranch, Operands
<1>2. Second \in Values /\ Top(1)[1] = Second
  BY <1>1, Tops, Zenon DEF StackOK
<1>3. PICK opc \in BoolBranchOpcode : Execute("BoolBranch", opc, 1, boolBranch(opc, Second), 0)
  BY Zenon DEF BoolBranch
<1> DEFINE outs == boolBranch(opc, Second)
           bit == AsBit(Related(opc, Second.v, 0))
<1>4. outs = {Ret(Value("i1", bit))}
  BY Zenon DEF boolBranch
<1>5. \A o \in outs : o.val.v = bit
  <2> HIDE DEF bit
  <2>1. Ret(Value("i1", bit)).val = Value("i1", bit) /\ Value("i1", bit).v = bit
    BY Outcomes DEF Value
  <2> HIDE DEF outs
  <2>2. QED
    BY <1>4, <2>1, Zenon
<1>6. /\ stack' \in Seq(Values)
      /\ \E o \in outs : /\ last'.op = "BoolBranch" /\ last'.opc = opc
                         /\ last'.args = Top(1) /\ last'.out = o
  <2>1. Execute("BoolBranch", opc, 1, outs, 0)
    BY <1>3, Zenon
  <2>2. stack \in Seq(Values) /\ Len(stack) >= 1
    BY <1>1 DEF StackOK
  <2> HIDE DEF outs
  <2>3. QED
    BY <2>1, <2>2, Executed
<1>7. last'.op = "BoolBranch" /\ last'.out.val.v = AsBit(Related(last'.opc, last'.args[1].v, 0))
  <2> HIDE DEF outs, Second
  <2> QED
    BY <1>2, <1>5, <1>6, Zenon
<1>8. ArithmeticAsDocumented' /\ ConversionsAsDocumented' /\ ComparisonsAsDocumented'
  BY <1>7, Zenon DEF ArithmeticAsDocumented, ConversionsAsDocumented, ComparisonsAsDocumented
<1>9. QED
  BY <1>6, <1>8, Zenon DEF IInv, StackOK

(* So do the other opcodes. *)
LEMMA OtherSteps ==
  ASSUME StackOK, LoadConstant \/ CkFinite \/ Dup \/ Pop PROVE IInv'
<1>0. stack \in Seq(Values) /\ Len(stack) \in Nat
  BY DEF StackOK
<1>1. ASSUME NEW name, name \notin Judged, NEW opc, NEW outs, NEW n \in 0 .. 2, Len(stack) >= n,
             NEW k \in 0 .. 2, k # 0 => \A o \in outs : Good(o), Execute(name, opc, n, outs, k)
      PROVE  IInv'
  <2>1. stack' \in Seq(Values) /\ \E o \in outs : last'.op = name
    BY <1>0, <1>1, Executed
  <2>2. last'.op \notin Judged
    BY <1>1, <2>1, Zenon
  <2>3. QED
    BY <2>1, <2>2, NotJudged, Zenon DEF IInv, StackOK
<1>2. CASE LoadConstant
  <2>1. PICK a \in Constants : Execute("LoadConstant", a, 0, loadConstant(a), 1)
    BY <1>2, Zenon DEF LoadConstant
  <2>2. \A o \in loadConstant(a) : Good(o)
    BY <2>1, ConstantsAssumption, Outcomes DEF loadConstant
  <2>3. "LoadConstant" \notin Judged
    BY DEF Judged
  <2>4. 0 \in 0 .. 2 /\ 1 \in 0 .. 2 /\ Len(stack) >= 0
    BY <1>0
  <2>5. QED
    BY <1>1, <2>1, <2>2, <2>3, <2>4, Zenon
<1>3. CASE CkFinite
  <2>1. Operands(1) /\ Execute("CkFinite", "none", 1, ckFinite(Second), 1)
    BY <1>3, Zenon DEF CkFinite
  <2>2. Second \in Values
    BY <1>0, <2>1, Tops, Zenon
  <2>3. \A o \in ckFinite(Second) : Good(o)
    BY <2>2, FiniteChecked, Zenon
  <2>4. "CkFinite" \notin Judged
    BY DEF Judged
  <2>5. 1 \in 0 .. 2 /\ Len(stack) >= 1
    BY <2>1 DEF Operands
  <2>6. QED
    BY <1>1, <2>1, <2>3, <2>4, <2>5, Zenon
<1>4. CASE Dup
  <2>1. Operands(1) /\ Execute("Dup", "none", 1, {Ret(Second)}, 2)
    BY <1>4, Zenon DEF Dup
  <2>2. Second \in Values
    BY <1>0, <2>1, Tops, Zenon
  <2>3. \A o \in {Ret(Second)} : Good(o)
    BY <2>2, Outcomes, Zenon
  <2>4. "Dup" \notin Judged
    BY DEF Judged
  <2>5. 1 \in 0 .. 2 /\ 2 \in 0 .. 2 /\ Len(stack) >= 1
    BY <2>1 DEF Operands
  <2>6. QED
    BY <1>1, <2>1, <2>3, <2>4, <2>5, Zenon
<1>5. CASE Pop
  <2>1. Operands(1) /\ Execute("Pop", "none", 1, {Ret(NoValue)}, 0)
    BY <1>5, Zenon DEF Pop
  <2>2. "Pop" \notin Judged
    BY DEF Judged
  <2>3. 1 \in 0 .. 2 /\ 0 \in 0 .. 2 /\ Len(stack) >= 1
    BY <2>1 DEF Operands
  <2>4. QED
    BY <1>1, <2>1, <2>2, <2>3, Zenon
<1>6. QED
  BY <1>2, <1>3, <1>4, <1>5, Zenon

(* The invariant holds at the start. *)
LEMMA Started ==
  Init => IInv
<1>1. NoInstruction.op = "none" /\ "none" \notin Judged
  BY DEF NoInstruction, Judged
<1>2. ASSUME Init PROVE StackOK /\ last.op \notin Judged
  BY <1>1, <1>2 DEF Init, StackOK
<1>3. QED
  BY <1>2, Zenon
     DEF IInv, Judged, ArithmeticAsDocumented, ConversionsAsDocumented, ComparisonsAsDocumented

(* Every step keeps it. *)
LEMMA Kept ==
  IInv /\ [Next]_vars => IInv'
<1> SUFFICES ASSUME IInv, [Next]_vars PROVE IInv'
  OBVIOUS
<1>1. StackOK
  BY DEF IInv
<1>2. CASE NextInstruction
  <2>1. last' = NoInstruction /\ stack' = stack
    BY <1>2 DEF NextInstruction
  <2>2. last'.op \notin Judged
    BY <2>1 DEF NoInstruction, Judged
  <2>3. StackOK'
    BY <1>1, <2>1 DEF StackOK
  <2>4. QED
    BY <2>2, <2>3, NotJudged, Zenon DEF IInv
<1>3. CASE LoadConstant \/ CkFinite \/ Dup \/ Pop
  BY <1>1, <1>3, OtherSteps, Zenon
<1>4. CASE Binary
  BY <1>1, <1>4, BinaryStep, Zenon
<1>5. CASE Unary
  BY <1>1, <1>5, UnaryStep, Zenon
<1>6. CASE Shift
  BY <1>1, <1>6, ShiftStep, Zenon
<1>7. CASE Convert
  BY <1>1, <1>7, ConvertStep, Zenon
<1>8. CASE Compare
  BY <1>1, <1>8, CompareStep, Zenon
<1>9. CASE CondBranch
  BY <1>1, <1>9, CondBranchStep, Zenon
<1>10. CASE BoolBranch
  BY <1>1, <1>10, BoolBranchStep, Zenon
<1>11. CASE UNCHANGED vars
  <2>1. stack' = stack /\ last' = last
    BY <1>11 DEF vars
  <2>2. QED
    BY <2>1, Zenon DEF IInv, StackOK, ArithmeticAsDocumented, ConversionsAsDocumented,
                       ComparisonsAsDocumented, NegatedOffset, WidenedSigned
<1>12. QED
  BY <1>2, <1>3, <1>4, <1>5, <1>6, <1>7, <1>8, <1>9, <1>10, <1>11, Zenon DEF Next

(* The results of binaryOp, unaryOp and shift in readerir.cpp, for integers of every width: a
   sum, product, quotient, bit operation, pointer offset or shift is the one readerenum.h
   documents, and an exception is raised exactly when the number does not fit or the divisor
   is zero; ptr minus the smallest int32 is the only exception. *)
THEOREM ArithmeticHolds == Spec => []ArithmeticAsDocumented
<1>1. IInv => ArithmeticAsDocumented
  BY DEF IInv
<1>2. QED
  BY <1>1, Started, Kept, PTL DEF Spec

(* GenIR::conv with genConvertOverflowCheck, for integers of every width: the checks made in
   the source's type, or by the runtime's helper for a floating-point number, throw for exactly
   the numbers the target does not hold, and the others arrive unchanged; the only exception is
   an int32 with its highest bit set that conv.ovf.i8.un or conv.ovf.i.un widens. *)
THEOREM ConversionsHold == Spec => []ConversionsAsDocumented
<1>1. IInv => ConversionsAsDocumented
  BY DEF IInv
<1>2. QED
  BY <1>1, Started, Kept, PTL DEF Spec

(* GenIR::cmp, condBranch and boolBranch, for integers of every width: the predicate tables
   applied after prepareArgsForCompare extended the narrower operand give the relation between
   the two numbers, with no exception, and with a NaN only the unordered forms hold. *)
THEOREM ComparisonsHold == Spec => []ComparisonsAsDocumented
<1>1. IInv => ComparisonsAsDocumented
  BY DEF IInv
<1>2. QED
  BY <1>1, Started, Kept, PTL DEF Spec
=============================================================================
