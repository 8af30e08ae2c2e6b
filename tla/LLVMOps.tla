------------------------------ MODULE LLVMOps ------------------------------
(***************************************************************************)
(* The LLVM values the reader computes with and the instructions it emits  *)
(* for them, as far as the reader relies on them.  Integers are bit        *)
(* patterns (0 .. 2^w - 1) of a width that Width gives for 8, 16, 32 and   *)
(* 64 bits: widths of a few bits have every boundary the real ones have.   *)
(* Floating-point numbers are counted in halves; each format has a set of  *)
(* numbers it can hold, and conversions round to it.  An operation that    *)
(* LLVM leaves undefined has every value as an outcome.                    *)
(***************************************************************************)
EXTENDS Integers, FiniteSets, FiniteSetsExt

CONSTANTS Width,      \* the number of bits that stands for 8, 16, 32, 64
          FloatRep,   \* the finite numbers a "r4" can hold, in halves
          DoubleRep   \* the finite numbers a "r8" can hold, in halves

ASSUME WidthAssumption ==
    /\ Width \in [{8, 16, 32, 64} -> Nat \ {0}]
    /\ Width[8] < Width[16] /\ Width[16] < Width[32] /\ Width[32] < Width[64]

ASSUME RepAssumption ==
    /\ IsFiniteSet(DoubleRep) /\ DoubleRep \subseteq Int
    /\ FloatRep \subseteq DoubleRep /\ 0 \in FloatRep

TargetPointerSizeInBits == 64

\* Types a value can have in a register: integers by size, the two formats of
\* floating point, unmanaged ("ptr") and managed ("gcptr") pointers.
IntegerTypes == {"i8", "i16", "i32", "i64"}
FloatTypes   == {"r4", "r8"}
PointerTypes == {"ptr", "gcptr"}
StackTypes   == {"i32", "i64"} \cup FloatTypes \cup PointerTypes

SizeInBits(ty) ==
    CASE ty = "i8" -> 8 [] ty = "i16" -> 16 [] ty \in {"i32", "r4"} -> 32
      [] ty \in {"i64", "r8"} -> 64 [] ty \in PointerTypes -> TargetPointerSizeInBits

Bits(ty)    == Width[SizeInBits(ty)]
Value(t, x) == [ty |-> t, v |-> x]

----------------------------------------------------------------------------
(* Integers *)

\* The powers of two.
Pow2[n \in Nat] == IF n = 0 THEN 1 ELSE 2 * Pow2[n - 1]

Wrap(x, w)   == x % Pow2[w]
Signed(x, w) == IF x >= Pow2[w - 1] THEN x - Pow2[w] ELSE x
Reading(a, isSigned) == IF isSigned THEN Signed(a.v, Bits(a.ty)) ELSE a.v

Patterns(ty) == 0 .. Pow2[Bits(ty)] - 1
IntRange(ty, isSigned) ==
    IF isSigned THEN -(Pow2[Bits(ty) - 1]) .. Pow2[Bits(ty) - 1] - 1 ELSE Patterns(ty)

\* CreateIntCast, CreatePtrToInt, CreateIntToPtr: cut off or extend the bits.
IntCast(a, ty, isSigned) == Value(ty, Wrap(Reading(a, isSigned), Bits(ty)))

Quotient(x, y) ==
    LET Abs(n) == IF n < 0 THEN -n ELSE n
        q      == Abs(x) \div Abs(y)
    IN  IF (x < 0) = (y < 0) THEN q ELSE -q

Exact(op, x, y) ==
    CASE op = "Add" -> x + y
      [] op = "Sub" -> x - y
      [] op = "Mul" -> x * y
      [] op = "Div" -> Quotient(x, y)
      [] op = "Rem" -> x - y * Quotient(x, y)

\* One bit of the result, and the sum of all of them.
BitOf(op, p, q) ==
    CASE op = "And" -> p * q
      [] op = "Or"  -> p + q - p * q
      [] op = "Xor" -> (p + q) % 2
Logical(op, x, y, w) ==
    LET sum[n \in Nat] ==
            IF n = 0 THEN 0
            ELSE sum[n - 1] + Pow2[n - 1] * BitOf(op, (x \div Pow2[n - 1]) % 2, (y \div Pow2[n - 1]) % 2)
    IN  sum[w]

\* Outcomes of CreateBinOp on two integers of one type.  The quotient of the
\* smallest integer and -1 does not fit: LLVM leaves it undefined.
BinOp(op, un, a, b) ==
    LET w == Bits(a.ty)
        r == Exact(op, Reading(a, ~un), Reading(b, ~un))
    IN  IF op \in {"And", "Or", "Xor"} THEN {Value(a.ty, Logical(op, a.v, b.v, w))}
        ELSE IF op \in {"Div", "Rem"} /\ ~un
                /\ Quotient(Reading(a, TRUE), Reading(b, TRUE)) \notin IntRange(a.ty, TRUE)
             THEN {Value(a.ty, x) : x \in Patterns(a.ty)}
             ELSE {Value(a.ty, Wrap(r, w))}

\* The overflow bit of the intrinsics llvm.{s,u}{add,sub,mul}.with.overflow.
Overflows(op, un, a, b) ==
    Exact(op, Reading(a, ~un), Reading(b, ~un)) \notin IntRange(a.ty, ~un)

\* Outcomes of shl, ashr, lshr; by the width or more they are undefined.
ShiftOp(op, a, n) ==
    LET w == Bits(a.ty)
        r == CASE op = "Shl"   -> a.v * Pow2[n.v]
               [] op = "Shr"   -> Signed(a.v, w) \div Pow2[n.v]
               [] op = "ShrUn" -> a.v \div Pow2[n.v]
    IN  IF n.v >= w THEN {Value(a.ty, x) : x \in Patterns(a.ty)}
        ELSE {Value(a.ty, Wrap(r, w))}

----------------------------------------------------------------------------
(* Floating point *)

Inf    == Max(DoubleRep) + 2
NegInf == Min(DoubleRep) - 2
NaN    == Inf + 2

Rep(ty)       == IF ty = "r4" THEN FloatRep ELSE DoubleRep
IsFinite(x)   == x \notin {Inf, NegInf, NaN}

\* x, in halves, rounded towards zero to what the format holds.
Round(x, ty) ==
    IF ~IsFinite(x) THEN x
    ELSE IF x > Max(Rep(ty)) THEN Inf
    ELSE IF x < Min(Rep(ty)) THEN NegInf
    ELSE IF x >= 0 THEN Max({r \in Rep(ty) : r <= x})
    ELSE Min({r \in Rep(ty) : r >= x})

FPCast(a, ty) == Value(ty, Round(a.v, ty))

SIToFP(a, ty) == Value(ty, Round(2 * Reading(a, TRUE), ty))
UIToFP(a, ty) == Value(ty, Round(2 * a.v, ty))

FNeg(a) ==
    Value(a.ty, CASE a.v = NaN -> NaN [] a.v = Inf -> NegInf [] a.v = NegInf -> Inf
                  [] OTHER -> Round(-a.v, a.ty))

Truncated(x) == Quotient(x, 2)

\* Outcomes of fptosi and fptoui: undefined when the number does not fit.
FPToInt(a, ty, isSigned) ==
    IF IsFinite(a.v) /\ Truncated(a.v) \in IntRange(ty, isSigned)
    THEN {Value(ty, Wrap(Truncated(a.v), Bits(ty)))}
    ELSE {Value(ty, x) : x \in Patterns(ty)}

\* fadd, fsub, fmul, fdiv and the remainder helpers on operands of one format.
FBinOp(op, a, b) ==
    LET x == a.v
        y == b.v
        undefined == ~IsFinite(x) \/ ~IsFinite(y) \/ (op \in {"Div", "Rem"} /\ y = 0)
        r == IF undefined THEN NaN
             ELSE CASE op = "Mul" -> Quotient(x * y, 2)
                    [] op = "Div" -> Quotient(2 * x, y)
                    [] OTHER      -> Exact(op, x, y)
    IN  Value(a.ty, Round(r, a.ty))

----------------------------------------------------------------------------
(* Comparisons: the predicate is a relation with, for integers, the reading *)
(* of the operands and, for floating point, the answer when one is a NaN    *)

Related(rel, x, y) ==
    CASE rel = "EQ" -> x = y [] rel = "NE" -> x # y [] rel = "LT" -> x < y
      [] rel = "LE" -> x <= y [] rel = "GT" -> x > y [] rel = "GE" -> x >= y

ICmp(p, a, b) == Related(p.rel, Reading(a, p.signed), Reading(b, p.signed))
FCmp(p, a, b) == IF NaN \in {a.v, b.v} THEN p.unordered ELSE Related(p.rel, a.v, b.v)

=============================================================================
