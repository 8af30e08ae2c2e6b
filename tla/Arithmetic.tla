----------------------------- MODULE Arithmetic -----------------------------
(***************************************************************************)
(* How the reader translates the instructions that compute: the operand    *)
(* stack holds LLVM values of the types the evaluation stack allows, each  *)
(* instruction pops its operands and pushes what the instructions GenIR    *)
(* emits for it compute (readerir.cpp, called from the switch of           *)
(* ReaderBase::readBytesForFlowGraphNodeHelper).  Opcodes are records: the *)
(* enumerations of readerenum.h list the same operation for signed and     *)
(* unsigned operands, with and without an overflow check.                  *)
(*                                                                         *)
(* What the enumerations say of each opcode is the reference: the second   *)
(* half of the module states it in terms of numbers, and the properties    *)
(* compare the two.                                                        *)
(***************************************************************************)
EXTENDS StackTypes, Sequences

CONSTANTS MaxStack,       \* bound on the depth of the operand stack
          Constants       \* the values ldc and the loads may push

\* A value is a bit pattern of its type, or a number its format holds.
Values ==
    {a \in [ty : StackTypes, v : Int] :
        a.v \in IF a.ty \in FloatTypes THEN Rep(a.ty) \cup {Inf, NegInf, NaN} ELSE Patterns(a.ty)}

ASSUME ConstantsAssumption == Constants \subseteq Values /\ MaxStack \in Nat

VARIABLES stack,          \* ReaderOperandStack
          last            \* the instruction just executed: opcode, operands, outcome

vars == <<stack, last>>

----------------------------------------------------------------------------
(* Opcodes *)

UnaryOpcode  == {"Neg", "Not"}
ShiftOpcode  == {"Shl", "Shr", "ShrUn"}
BinaryOpcode ==
    [op : {"Add", "Sub", "Mul"}, ovf : {FALSE}, un : {FALSE}]
        \cup [op : {"Add", "Sub", "Mul"}, ovf : {TRUE}, un : BOOLEAN]
        \cup [op : {"Div", "Rem"}, ovf : {FALSE}, un : BOOLEAN]
        \cup [op : {"And", "Or", "Xor"}, ovf : {FALSE}, un : {FALSE}]
CmpOpcode    ==
    [rel : {"EQ"}, un : {FALSE}] \cup [rel : {"GT", "LT"}, un : BOOLEAN]
CondBranchOpcode ==
    CmpOpcode \cup [rel : {"GE", "LE"}, un : BOOLEAN] \cup [rel : {"NE"}, un : {TRUE}]
BoolBranchOpcode == {"EQ", "NE"}               \* brfalse, brtrue: compare with zero
ConvOpcode   ==
    LET Targets == Integral \ {"BOOL", "CHAR"}
    IN  [cor : Targets \cup {"FLOAT", "DOUBLE"}, ovf : {FALSE}, un : {FALSE}]
            \cup [cor : Targets, ovf : {TRUE}, un : BOOLEAN]
            \cup [cor : {"DOUBLE"}, ovf : {FALSE}, un : {TRUE}]

----------------------------------------------------------------------------
(* Outcomes: a value, or the exception of a throw helper *)

NoValue  == Value("none", 0)
Ret(a)   == [exc |-> "none", val |-> a]
Throw(e) == [exc |-> e, val |-> NoValue]

loadConstant(a) == {Ret(a)}

unaryOp(op, a) ==
    CASE op = "Neg" /\ a.ty \in FloatTypes ->
            {Ret(FNeg(a))}
      [] op = "Neg" /\ a.ty \notin FloatTypes ->
            {Ret(Value(a.ty, Wrap(-a.v, Bits(a.ty))))}
      [] op = "Not" -> {Ret(Value(a.ty, Wrap(-a.v - 1, Bits(a.ty))))}

\* Throws when the exponent bits are all ones.
ckFinite(a) == IF IsFinite(a.v) THEN {Ret(a)} ELSE {Throw("Overflow")}

\* Both operands of a shift have one type in LLVM.
shift(op, amount, a) ==
    {Ret(r) : r \in ShiftOp(op, a, IF amount.ty = a.ty THEN amount
                                   ELSE IntCast(amount, a.ty, FALSE))}

\* The type in which a binary operation is typed, "invalid" where the source
\* does not expect the combination.
binaryOpType(opc, t1, t2) ==
    LET ints    == {t1, t2} \subseteq {"i32", "i64"}
        isAdd   == opc.op = "Add"
        isSub   == opc.op = "Sub"
        strict  == ~opc.ovf
        int(t)  == t \in {"i32", "i64"}
        offset  == \/ (isAdd \/ isSub) /\ t1 = "ptr" /\ int(t2)
                   \/ isAdd /\ int(t1) /\ t2 = "ptr"
    IN  CASE {t1, t2} \subseteq FloatTypes -> IF "r8" \in {t1, t2} THEN "r8" ELSE "r4"
          [] ints -> IF t1 = t2 THEN t1 ELSE "i64"
          [] "ptr" \in {t1, t2} -> IF {t1, t2} \cap FloatTypes # {} THEN "invalid"
                                   ELSE IF offset THEN "ptr" ELSE "i64"
          [] t1 = "gcptr" /\ isSub /\ t2 = "gcptr" -> "i64"
          [] t1 = "gcptr" /\ (isAdd \/ isSub) /\ strict /\ int(t2) -> "gcptr"
          [] OTHER -> "invalid"

\* An LLVM GEP over bytes: the offset is extended with its sign.
PointerPlus(p, offset) == Value(p.ty, Wrap(p.v + Reading(offset, TRUE), Bits(p.ty)))

genPointerAdd(a, b) ==
    IF b.ty \in PointerTypes THEN PointerPlus(b, a) ELSE PointerPlus(a, b)

\* The offset is negated in its own type.
genPointerSub(a, b) == PointerPlus(a, Value(b.ty, Wrap(-b.v, Bits(b.ty))))

\* Mistake: the unsigned operations extend with the sign as well.
convert_Signed(ty, a, signed) ==
    IF a.ty = ty THEN a
    ELSE IF a.ty \in FloatTypes THEN FPCast(a, ty) ELSE IntCast(a, ty, TRUE)

\* Arithmetic conversions of the operands of a binary operation.
convert(ty, a, signed) ==
    IF a.ty = ty THEN a
    ELSE IF a.ty \in FloatTypes THEN FPCast(a, ty) ELSE IntCast(a, ty, signed)

binaryOp(opc, a, b) ==
    LET resultType == binaryOpType(opc, a.ty, b.ty)
        arithType  == IF resultType = "ptr" THEN "i64" ELSE resultType
        x          == convert(arithType, a, ~opc.un)
        y          == convert(arithType, b, ~opc.un)
        Typed(r)   == Value(resultType, r.v)
    IN  IF resultType \in PointerTypes /\ ~opc.ovf
        THEN {Ret(IF opc.op = "Add" THEN genPointerAdd(a, b) ELSE genPointerSub(a, b))}
        ELSE IF resultType \in FloatTypes THEN {Ret(FBinOp(opc.op, x, y))}
        ELSE IF opc.ovf /\ Overflows(opc.op, opc.un, x, y) THEN {Throw("Overflow")}
        ELSE IF opc.op \in {"Div", "Rem"} /\ y.v = 0 THEN {Throw("DivideByZero")}
        ELSE {Ret(Typed(r)) : r \in BinOp(opc.op, opc.un, x, y)}

\* The runtime's helpers DBL2INT_OVF, DBL2UINT_OVF, DBL2LNG_OVF, DBL2ULNG_OVF.
DoubleToIntOvf(a, ty, signed) ==
    IF IsFinite(a.v) /\ Truncated(a.v) \in IntRange(ty, signed)
    THEN [fails |-> FALSE, source |-> Value(ty, Wrap(Truncated(a.v), Bits(ty)))]
    ELSE [fails |-> TRUE, source |-> Value(ty, 0)]

\* Mistake: a signed number is only compared with the largest of the target.
ConvertOverflows_UpperOnly(int, ty, signed, destIsSigned) ==
    LET x == Reading(int, signed)
    IN  x > Pow2[Bits(ty) - (IF destIsSigned THEN 1 ELSE 0)] - 1 \/ (x < 0 /\ ~destIsSigned)

\* The comparisons that stand before a conversion between integers.
ConvertOverflows(int, ty, signed, destIsSigned) ==
    LET from == SizeInBits(int.ty)
        to   == SizeInBits(ty)
        x    == Reading(int, TRUE)
    IN  CASE to > from -> signed /\ ~destIsSigned /\ x < 0
          [] to = from -> signed # destIsSigned /\ x < 0
          [] to < from /\ destIsSigned /\ signed ->
                x < -(Pow2[Bits(ty) - 1]) \/ x > Pow2[Bits(ty) - 1] - 1
          [] to < from /\ destIsSigned /\ ~signed -> int.v > Pow2[Bits(ty) - 1] - 1
          [] OTHER -> int.v > Pow2[Bits(ty)] - 1

\* The source as an integer, whether it is signed, and whether a check throws.
genConvertOverflowCheck(a, ty, sourceIsSigned, destIsSigned) ==
    LET helper == DoubleToIntOvf(FPCast(a, "r8"), IF SizeInBits(ty) = 64 THEN "i64" ELSE "i32",
                                 destIsSigned)
        int    == CASE a.ty \in FloatTypes   -> helper.source
                    [] a.ty \in PointerTypes -> Value("i64", a.v)
                    [] OTHER                 -> a
        signed == IF a.ty \in FloatTypes THEN destIsSigned ELSE sourceIsSigned
    IN  [source |-> int, signed |-> signed,
         fails  |-> (a.ty \in FloatTypes /\ helper.fails)
                        \/ ConvertOverflows(int, ty, signed, destIsSigned)]

\* The conversion after the check; a floating-point source goes through 64 bits.
Conversion(a, ty, sourceIsSigned, destIsSigned) ==
    IF a.ty = ty THEN {a}
    ELSE CASE a.ty \in IntegerTypes /\ ty \in IntegerTypes -> {IntCast(a, ty, destIsSigned)}
           [] a.ty \in PointerTypes /\ ty \in IntegerTypes -> {IntCast(a, ty, FALSE)}
           [] a.ty \in IntegerTypes /\ ty \in FloatTypes ->
                {IF sourceIsSigned THEN SIToFP(a, ty) ELSE UIToFP(a, ty)}
           [] a.ty \in FloatTypes /\ ty \in IntegerTypes ->
                {IntCast(r, ty, destIsSigned) : r \in FPToInt(a, "i64", destIsSigned)}
           [] a.ty \in FloatTypes /\ ty \in FloatTypes -> {FPCast(a, ty)}

conv(opc, a) ==
    LET ty      == getType(opc.cor)
        dest    == ty \in IntegerTypes /\ isSigned(opc.cor)
        check   == genConvertOverflowCheck(a, ty, ~opc.un, dest)
        results == IF opc.ovf THEN Conversion(check.source, ty, check.signed, dest)
                   ELSE Conversion(a, ty, ~opc.un, dest)
    IN  IF opc.ovf /\ check.fails THEN {Throw("Overflow")}
        ELSE {Ret(convertToStackType(r, opc.cor)) : r \in results}

\* Brings both operands of a comparison to one type.
prepareArgsForCompare(a, b) ==
    LET To(x, ty) == IF ty \in FloatTypes THEN FPCast(x, ty) ELSE IntCast(x, ty, TRUE)
    IN  IF SizeInBits(a.ty) < SizeInBits(b.ty) THEN <<To(a, b.ty), b>>
        ELSE IF SizeInBits(a.ty) > SizeInBits(b.ty) THEN <<a, To(b, a.ty)>>
        ELSE IF a.ty \in PointerTypes /\ b.ty \notin PointerTypes THEN <<Value(b.ty, a.v), b>>
        ELSE <<a, Value(a.ty, b.v)>>

\* Mistake: the ordered predicates in every row of the tables.
CmpMap_Ordered(opc) == [rel |-> opc.rel, signed |-> ~opc.un, unordered |-> FALSE]

\* The predicate tables of cmp and condBranch.
CmpMap(opc) == [rel |-> opc.rel, signed |-> ~opc.un, unordered |-> opc.un]

Condition(opc, a, b) ==
    LET p == prepareArgsForCompare(a, b)
    IN  IF p[1].ty \in FloatTypes THEN FCmp(CmpMap(opc), p[1], p[2])
        ELSE ICmp(CmpMap(opc), p[1], p[2])

AsBit(c) == IF c THEN 1 ELSE 0

cmp(opc, a, b) == {Ret(Value("i32", AsBit(Condition(opc, a, b))))}

\* A branch leaves its condition to the terminator the first pass made.
condBranch(opc, a, b) == {Ret(Value("i1", AsBit(Condition(opc, a, b))))}

boolBranch(opc, a) ==
    {Ret(Value("i1", AsBit(Related(opc, a.v, 0))))}

----------------------------------------------------------------------------
(* The loop over the instructions of a block *)

NoInstruction == [op |-> "none", opc |-> "none", args |-> <<>>, out |-> Ret(NoValue)]
Init == stack = <<>> /\ last = NoInstruction

Top(n)  == SubSeq(stack, Len(stack) - n + 1, Len(stack))
Rest(n) == SubSeq(stack, 1, Len(stack) - n)

\* An instruction pops n operands and pushes its result, once, twice or not at all; a
\* throw helper never returns, and the handler starts with a stack of its own.
Execute(name, opcode, n, outcomes, pushes) ==
    \E o \in outcomes :
        /\ last' = [op |-> name, opc |-> opcode, args |-> Top(n), out |-> o]
        /\ stack' = IF o.exc # "none" THEN <<>> ELSE Rest(n) \o [k \in 1 .. pushes |-> o.val]

\* The next round of the loop.
NextInstruction == last # NoInstruction /\ last' = NoInstruction /\ UNCHANGED stack

Operands(n) == last = NoInstruction /\ Len(stack) >= n
First  == stack[Len(stack) - 1]
Second == stack[Len(stack)]

\* The operand types IL allows; the source asserts them.
BinaryAllowed(opc, a, b) ==
    LET ty == binaryOpType(opc, a.ty, b.ty)
    IN  /\ ty # "invalid"
        /\ ty \in FloatTypes => opc.op \in {"Add", "Sub", "Mul", "Div", "Rem"} /\ ~opc.ovf /\ ~opc.un
        /\ ty = "ptr" => (opc.ovf => opc.un)
CompareAllowed(a, b) ==
    \/ {a.ty, b.ty} \subseteq FloatTypes
    \/ {a.ty, b.ty} \subseteq {"i32", "i64"}
    \/ {a.ty, b.ty} \subseteq PointerTypes \cup {"i64"}

LoadConstant ==
    /\ Operands(0) /\ Len(stack) < MaxStack
    /\ \E a \in Constants :
          Execute("LoadConstant", a, 0, loadConstant(a), 1)

Binary ==
    /\ Operands(2)
    /\ \E opc \in BinaryOpcode :
          /\ BinaryAllowed(opc, First, Second)
          /\ \E outs \in {binaryOp(opc, First, Second)} :
                Execute("Binary", opc, 2, outs, 1)

Unary ==
    /\ Operands(1)
    /\ \E opc \in UnaryOpcode :
          /\ Second.ty \in {"i32", "i64"} \/ (opc = "Neg" /\ Second.ty \in FloatTypes)
          /\ \E outs \in {unaryOp(opc, Second)} : Execute("Unary", opc, 1, outs, 1)

CkFinite ==
    /\ Operands(1)
    /\ Second.ty \in FloatTypes
    /\ \E outs \in {ckFinite(Second)} : Execute("CkFinite", "none", 1, outs, 1)

\* The amount is on top of the operand.
Shift ==
    /\ Operands(2)
    /\ {First.ty, Second.ty} \subseteq {"i32", "i64"}
    /\ \E opc \in ShiftOpcode : \E outs \in {shift(opc, Second, First)} :
          Execute("Shift", opc, 2, outs, 1)

Convert ==
    /\ Operands(1)
    /\ \E opc \in ConvOpcode :
          /\ Second.ty \in PointerTypes => getType(opc.cor) \in IntegerTypes
          /\ \E outs \in {conv(opc, Second)} : Execute("Convert", opc, 1, outs, 1)

Compare ==
    /\ Operands(2)
    /\ CompareAllowed(First, Second)
    /\ \E opc \in CmpOpcode : \E outs \in {cmp(opc, First, Second)} :
          Execute("Compare", opc, 2, outs, 1)

\* Branches pop their operands; what is left goes to the successors.
CondBranch ==
    /\ Operands(2)
    /\ CompareAllowed(First, Second)
    /\ \E opc \in CondBranchOpcode : \E outs \in {condBranch(opc, First, Second)} :
          Execute("CondBranch", opc, 2, outs, 0)

BoolBranch ==
    /\ Operands(1)
    /\ Second.ty \notin FloatTypes
    /\ \E opc \in BoolBranchOpcode : \E outs \in {boolBranch(opc, Second)} :
          Execute("BoolBranch", opc, 1, outs, 0)

Dup ==
    /\ Operands(1)
    /\ Len(stack) < MaxStack
    /\ Execute("Dup", "none", 1, {Ret(Second)}, 2)

Pop ==
    /\ Operands(1)
    /\ Execute("Pop", "none", 1, {Ret(NoValue)}, 0)

Next ==
    \/ NextInstruction \/ LoadConstant \/ Binary \/ Unary \/ CkFinite \/ Shift \/ Convert
    \/ Compare \/ CondBranch \/ BoolBranch \/ Dup \/ Pop

Spec == Init /\ [][Next]_vars

----------------------------------------------------------------------------
(* What readerenum.h says of the opcodes, in numbers *)

Unspecified(ty)  == {Ret(Value(ty, x)) : x \in Patterns(ty)}
Number(x, ty) == Ret(Value(ty, Wrap(x, Bits(ty))))

\* The number an operand stands for in an operation of type ty: an int32 that
\* meets a native int is extended by the sign the opcode gives it.
Num(a, un) == Reading(a, ~un)

ILBinary(opc, a, b) ==
    LET ty == binaryOpType(opc, a.ty, b.ty)
        x  == Num(a, opc.un)
        y  == Num(b, opc.un)
        r  == Exact(opc.op, x, y)
        as == IF ty = "ptr" THEN "i64" ELSE ty
        bits    == opc.op \in {"And", "Or", "Xor"}
        divides == opc.op \in {"Div", "Rem"}
    IN  IF ty \in FloatTypes THEN {Ret(FBinOp(opc.op, FPCast(a, ty), FPCast(b, ty)))}
        ELSE IF bits
        THEN {Ret(Value(ty, Logical(opc.op, Wrap(x, Bits(ty)), Wrap(y, Bits(ty)), Bits(ty))))}
        ELSE IF divides /\ y = 0 THEN {Throw("DivideByZero")}
        ELSE IF divides /\ Quotient(x, y) \notin IntRange(as, ~opc.un) THEN Unspecified(ty)
        ELSE IF opc.ovf /\ r \notin IntRange(as, ~opc.un) THEN {Throw("Overflow")}
        ELSE {Number(r, ty)}

ILUnary(opc, a) ==
    CASE opc = "Not" -> {Number(Pow2[Bits(a.ty)] - 1 - a.v, a.ty)}
      [] a.ty \in FloatTypes -> {Ret(FNeg(a))}
      [] OTHER -> {Number(Pow2[Bits(a.ty)] - a.v, a.ty)}

ILShift(opc, a, amount) ==
    IF amount.v >= Bits(a.ty) THEN Unspecified(a.ty)
    ELSE CASE opc = "Shl"   -> {Number(a.v * Pow2[amount.v], a.ty)}
           [] opc = "Shr"   -> {Number(Reading(a, TRUE) \div Pow2[amount.v], a.ty)}
           [] opc = "ShrUn" -> {Number(a.v \div Pow2[amount.v], a.ty)}

\* The stack type of a number of type cor, and the numbers the type holds.
OnStack(x, cor) == Ret(Value(getStackType(cor), Wrap(x, Width[stackSize(cor)])))
Holds(cor)      == IntRange(getType(cor), isSigned(cor))

ILConvert(opc, a) ==
    LET x   == IF a.ty \in FloatTypes THEN Truncated(a.v)
               ELSE Num(a, IF opc.ovf \/ getType(opc.cor) \in FloatTypes THEN opc.un
                           ELSE ~isSigned(opc.cor))
        fits == (a.ty \in FloatTypes => IsFinite(a.v)) /\ x \in Holds(opc.cor)
        w    == Bits(getType(opc.cor))
        y    == IF a.ty \in FloatTypes THEN a.v ELSE 2 * x
    IN  IF getType(opc.cor) \in FloatTypes
        THEN {Ret(Value(getType(opc.cor), Round(y, getType(opc.cor))))}
        ELSE IF fits THEN {OnStack(x, opc.cor)}
        ELSE IF opc.ovf THEN {Throw("Overflow")}
        ELSE IF a.ty \in FloatTypes THEN {OnStack(z, opc.cor) : z \in Holds(opc.cor)}
        ELSE IF isSigned(opc.cor) THEN {OnStack(Signed(Wrap(x, w), w), opc.cor)}
        ELSE {OnStack(Wrap(x, w), opc.cor)}

\* True when the relation holds between the two numbers, both unsigned in the
\* forms with un; with a NaN only those, the unordered forms, hold.
ILHolds(opc, a, b) ==
    IF a.ty \in FloatTypes
    THEN IF NaN \in {a.v, b.v} THEN opc.un ELSE Related(opc.rel, a.v, b.v)
    ELSE Related(opc.rel, Num(a, opc.un), Num(b, opc.un))

----------------------------------------------------------------------------
(* Properties *)

\* Three results that differ from what the enumerations say; see the README.
\* ptr - int32 negates the offset in 32 bits, so the smallest int32 is added
\* with the wrong sign.
NegatedOffset ==
    /\ last.op = "Binary"
    /\ last.opc.op = "Sub" /\ ~last.opc.ovf
    /\ last.args[1].ty \in PointerTypes
    /\ last.args[2] = Value("i32", Pow2[Width[32] - 1])
\* conv.ovf.i8.un and conv.ovf.i.un extend an int32 with its sign.
WidenedSigned ==
    /\ last.op = "Convert"
    /\ last.opc.ovf /\ last.opc.un /\ last.opc.cor \in {"LONG", "NATIVEINT"}
    /\ last.args[1].ty = "i32" /\ Reading(last.args[1], TRUE) < 0
\* prepareArgsForCompare extends a negative int32 with its sign when it meets a
\* native int, for the unsigned comparisons as well.
SignExtendedOperand(opc, a, b) ==
    /\ opc.un
    /\ \/ a.ty = "i32" /\ b.ty = "i64" /\ Reading(a, TRUE) < 0
       \/ a.ty = "i64" /\ b.ty = "i32" /\ Reading(b, TRUE) < 0

\* binaryOp, unaryOp, shift: sums, quotients, bits and pointers come out as the
\* enumerations say, whatever the mixture of int32, native int, pointer, float
\* and double, and an exception is raised exactly when the number does not fit
\* or the divisor is zero.
ArithmeticAsDocumented ==
    /\ last.op = "Binary" /\ ~NegatedOffset =>
          last.out \in ILBinary(last.opc, last.args[1], last.args[2])
    /\ last.op = "Unary" => last.out \in ILUnary(last.opc, last.args[1])
    /\ last.op = "Shift" => last.out \in ILShift(last.opc, last.args[1], last.args[2])

\* conv with its overflow checks: the checks made in the source's type, by
\* comparison with constants of the target's, throw for exactly the numbers the
\* target type does not hold, and the others arrive unchanged.
ConversionsAsDocumented ==
    last.op = "Convert" /\ ~WidenedSigned => last.out \in ILConvert(last.opc, last.args[1])

\* cmp and the branches: one relation between two numbers, both signed or, for the
\* .un forms, both unsigned, whatever their widths; with a NaN only the unordered
\* forms hold, so that of blt and bge.un exactly one is taken.  Excepted is an int32
\* that is extended the other way (SignExtendedOperand).
ComparisonsAsDocumented ==
    /\ (/\ last.op \in {"Compare", "CondBranch"}
        /\ ~SignExtendedOperand(last.opc, last.args[1], last.args[2])) =>
          last.out.val.v = AsBit(ILHolds(last.opc, last.args[1], last.args[2]))
    /\ last.op = "BoolBranch" => last.out.val.v = AsBit(Related(last.opc, last.args[1].v, 0))

=============================================================================
