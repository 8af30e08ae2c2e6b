--------------------------------- MODULE ABI ---------------------------------
(***************************************************************************)
(* How arguments and results travel between a caller and a callee.  Both   *)
(* sides classify the same signature on their own (ABIInfo), the caller    *)
(* lays out the arguments of an LLVM call (ABICallSignature::emitCall) and *)
(* the callee the parameters of an LLVM function (createFunction), and     *)
(* LLVM gives every slot a register or a place on the stack.               *)
(*                                                                         *)
(* A value is the sequence of its bytes; a byte is <<name, offset>>, so    *)
(* that a byte that arrives in the wrong place can be told.  The EE's      *)
(* description of a type is a record                                       *)
(*   [form |-> "int" | "fp" | "ptr" | "struct" | "vector" | "void",        *)
(*    bytes, signed, eight |-> the eightbytes of a struct that System V    *)
(*    passes in registers, <<>> for one it does not].                      *)
(***************************************************************************)
EXTENDS Integers, Sequences, SequencesExt

CONSTANT TypeInfo        \* the types: a function from their names

Bytes(t)       == TypeInfo[t].bytes
Value(name, t) == [b \in 1 .. Bytes(t) |-> <<name, b>>]
Undef          == <<"undef", 0>>
Undefs(n)      == [b \in 1 .. n |-> Undef]

\* An LLVM type, as far as a calling convention looks at it.
LLVMType(form, bytes) == [form |-> form, bytes |-> bytes]
IntTy(bytes) == LLVMType("int", bytes)
PtrTy        == LLVMType("ptr", 8)
TypeOf(t)    == LLVMType(TypeInfo[t].form, TypeInfo[t].bytes)
IsAggregate(t) == TypeInfo[t].form \in {"struct", "vector"}

----------------------------------------------------------------------------
(* ABIArgInfo *)

ArgInfo(kind, type, parts) == [kind |-> kind, type |-> type, parts |-> parts]
getDirect(type)     == ArgInfo("Direct", type, <<>>)
getExpand(parts)    == ArgInfo("Expand", LLVMType("void", 0), parts)
getZeroExtend(type) == ArgInfo("ZeroExtend", type, <<>>)
getSignExtend(type) == ArgInfo("SignExtend", type, <<>>)
getIndirect(type)   == ArgInfo("Indirect", type, <<>>)

\* Managed code extends integers of fewer than 32 bits to 32.
PassScalar(t, managed) ==
    IF TypeInfo[t].form = "int" /\ managed /\ Bytes(t) < 4
    THEN IF TypeInfo[t].signed THEN getSignExtend(TypeOf(t)) ELSE getZeroExtend(TypeOf(t))
    ELSE getDirect(TypeOf(t))

Win64Classify(t, managed) ==
    IF IsAggregate(t)
    THEN IF Bytes(t) \in {1, 2, 4, 8} THEN getDirect(IntTy(Bytes(t)))
                                      ELSE getIndirect(TypeOf(t))
    ELSE PassScalar(t, managed)

Win64ClassifyResult(t, managed) ==
    IF t = "void" THEN getDirect(TypeOf(t)) ELSE Win64Classify(t, managed)

Win64Signature(managed, result, args) ==
    [result |-> Win64ClassifyResult(result, managed),
     args   |-> [i \in DOMAIN args |-> Win64Classify(args[i], managed)]]

\* An eightbyte of a struct: an integer, a float or double, or a GC reference.
Expansion(e) ==
    [type   |-> CASE e.class = "Integer"          -> IntTy(e.bytes)
                  [] e.class = "SSE"              -> LLVMType("fp", IF e.bytes <= 4 THEN 4 ELSE 8)
                  [] e.class = "IntegerReference" -> PtrTy,
     offset |-> e.offset]

Needs(info, ints, sses) == [info |-> info, ints |-> ints, sses |-> sses]

SysVClassify(t, managed, isResult) ==
    LET eight == TypeInfo[t].eight
        sses  == Len(SelectSeq(eight, LAMBDA e : e.class = "SSE"))
    IN  IF IsAggregate(t)
        THEN IF eight = <<>>
             THEN IF isResult THEN Needs(getIndirect(TypeOf(t)), 1, 0)
                              ELSE Needs(getDirect(TypeOf(t)), 0, 0)
             ELSE Needs(getExpand([i \in DOMAIN eight |-> Expansion(eight[i])]),
                        Len(eight) - sses, sses)
        ELSE Needs(PassScalar(t, managed),
                   IF TypeInfo[t].form = "fp" THEN 0 ELSE 1,
                   IF TypeInfo[t].form = "fp" THEN 1 ELSE 0)

classifyArgument(t, managed) == SysVClassify(t, managed, FALSE)
classifyResult(t, managed) ==
    IF t = "void" THEN getDirect(TypeOf(t)) ELSE SysVClassify(t, managed, TRUE).info

\* The registers left while the arguments are classified from left to right.
FreeIntRegs(result) == IF result.kind = "Indirect" THEN 5 ELSE 6
FreeSSERegs == 8

\* A struct of which some eightbyte does not fit goes on the stack as a whole and
\* takes no register.
TakeRegisters(free, need, type) ==
    IF /\ need.info.kind = "Expand"
       /\ free.ints < need.ints \/ free.sses < need.sses
    THEN [free EXCEPT !.infos = Append(@, getDirect(type))]
    ELSE [infos |-> Append(free.infos, need.info),
          ints  |-> IF need.ints > 0 /\ free.ints >= need.ints
                    THEN free.ints - need.ints ELSE free.ints,
          sses  |-> IF need.sses > 0 /\ free.sses >= need.sses
                    THEN free.sses - need.sses ELSE free.sses]

SysVSignature(managed, result, args) ==
    LET res  == classifyResult(result, managed)
        Step(free, t) == TakeRegisters(free, classifyArgument(t, managed), TypeOf(t))
        done == FoldLeft(Step, [infos |-> <<>>, ints |-> FreeIntRegs(res),
                                sses |-> FreeSSERegs], args)
    IN  [result |-> res, args |-> done.infos]

computeSignatureInfo(windows, managed, result, args) ==
    IF windows THEN Win64Signature(managed, result, args)
               ELSE SysVSignature(managed, result, args)

----------------------------------------------------------------------------
(* ABISignature: a signature is [this, secret, conv, args, result], args    *)
(* being the runtime arguments, hidden ones included.                       *)

\* Every 32-bit convention is the C convention on x86-64.
getNormalizedCallingConvention(conv) ==
    IF conv \in {"STDCALL", "THISCALL", "FASTCALL"} THEN "C" ELSE conv
IsManagedCallingConv(conv) == getNormalizedCallingConvention(conv) = "DEFAULT"

ABISignature(windows, sig) ==
    computeSignatureInfo(windows, IsManagedCallingConv(sig.conv), sig.result, sig.args)

NumABIArgs(info)   == IF info.kind = "Expand" THEN Len(info.parts) ELSE 1
getNumABIArgs(abi) == FoldLeft(LAMBDA n, info : n + NumABIArgs(info), 0, abi.args)
HasIndirectResult(abi) == abi.result.kind = "Indirect"

\* The bytes of one expansion of a struct, and a struct with one filled in.
expand(part, value) == SubSeq(value, part.offset + 1, part.offset + part.type.bytes)
collapse(part, val, base) ==
    [b \in DOMAIN base |->
        IF b - part.offset \in 1 .. Len(val) THEN val[b - part.offset] ELSE base[b]]
\* Reading a value as another type: its first bytes, more being undefined.
coerce(type, value) ==
    [b \in 1 .. type.bytes |-> IF b <= Len(value) THEN value[b] ELSE Undef]

\* One argument of a call or parameter of a function.  at says how the bytes are
\* passed: as a value, as a copy on the stack (byval), or by address: of a temporary
\* of this frame (temp) or of storage of the caller's caller (caller).
Slot(type, attr, at, bytes) == [type |-> type, attr |-> attr, at |-> at, bytes |-> bytes]
NoSlot == Slot(LLVMType("void", 0), "none", "value", <<>>)

Attr(info) == CASE info.kind = "ZeroExtend" -> "zext"
                [] info.kind = "SignExtend" -> "sext"
                [] OTHER                    -> "none"

\* A buffer of this frame; a jmp passes on the address it was given instead.
FrameOrCaller(isJmp) == IF isJmp THEN "caller" ELSE "temp"

\* The slots of one argument of a call.
PassArgument(info, value, isJmp) ==
    CASE info.kind = "Indirect" -> << Slot(PtrTy, "none", FrameOrCaller(isJmp), value) >>
      [] info.kind = "Expand" ->
           [i \in DOMAIN info.parts |->
               Slot(info.parts[i].type, "none", "value", expand(info.parts[i], value))]
      [] OTHER ->
           IF info.type.form \in {"struct", "vector"}
           THEN << Slot(PtrTy, "byval", "byval", value) >>
           ELSE << Slot(info.type, Attr(info), "value", coerce(info.type, value)) >>

\* The slots of one parameter of a function, whose bytes are yet to arrive.
DeclareParameter(info) ==
    CASE info.kind = "Indirect" -> << Slot(PtrTy, "none", "temp", <<>>) >>
      [] info.kind = "Expand" ->
           [i \in DOMAIN info.parts |-> Slot(info.parts[i].type, "none", "value", <<>>)]
      [] OTHER ->
           IF info.type.form = "struct"
           THEN << Slot(PtrTy, "byval", "byval", Undefs(info.type.bytes)) >>
           ELSE << Slot(info.type, Attr(info), "value", <<>>) >>

\* The arguments fill the slots from the first on and step over the slot of the
\* result; index is the last slot of each argument.
FillSlots(slots, first, resultIndex, groups) ==
    FoldLeft(LAMBDA at, group :
                LET I == IF at.next = resultIndex THEN at.next + 1 ELSE at.next
                IN  [next  |-> I + Len(group),
                     index |-> Append(at.index, I + Len(group) - 1),
                     slots |-> [i \in DOMAIN at.slots |->
                                   IF i - I \in 0 .. Len(group) - 1
                                   THEN group[i - I + 1] ELSE at.slots[i]]],
             [next |-> first, index |-> <<>>, slots |-> slots], groups)

One(b) == IF b THEN 1 ELSE 0

\* Where emitCall puts the result's buffer: behind the special argument and this.
CallResultIndex(abi, sig, special) ==
    IF HasIndirectResult(abi) THEN Len(special) + One(sig.this) + 1 ELSE 0
\* The slots emitCall fills before it comes to the arguments.  special is the
\* indirection cell or the secret parameter a jmp passes on, in a sequence of at
\* most one value.
SpecialSlots(abi, sig, special, isJmp) ==
    [i \in 1 .. getNumABIArgs(abi) + Len(special) + One(HasIndirectResult(abi)) |->
        CASE i <= Len(special) -> Slot(IntTy(8), "none", "value", special[1])
          [] i = CallResultIndex(abi, sig, special) ->
               Slot(PtrTy, "none", FrameOrCaller(isJmp), << <<"buffer", 1>> >>)
          [] OTHER -> NoSlot]
\* emitCall's layout of a call.
CallLayout(abi, sig, values, special, isJmp) ==
    FillSlots(SpecialSlots(abi, sig, special, isJmp), Len(special) + 1,
              CallResultIndex(abi, sig, special),
              [i \in DOMAIN values |-> PassArgument(abi.args[i], values[i], isJmp)]).slots

\* createFunction's layout of a method: the secret parameter is the first of its
\* arguments, and nothing is said of it when the result's slot is chosen.
FunctionLayout(abi, sig) ==
    LET ResultIndex == IF HasIndirectResult(abi) THEN One(sig.this) + 1 ELSE 0
        empty == [i \in 1 .. getNumABIArgs(abi) + One(HasIndirectResult(abi)) |->
                     IF i = ResultIndex THEN Slot(PtrTy, "none", "temp", <<>>) ELSE NoSlot]
        full  == FillSlots(empty, 1, ResultIndex,
                           [i \in DOMAIN abi.args |-> DeclareParameter(abi.args[i])])
    IN  [abi |-> abi, slots |-> full.slots, index |-> full.index]

\* A call may pass the addresses of temporaries of the caller's frame.
hasIndirectResultOrArg(abi) ==
    HasIndirectResult(abi) \/ \E i \in DOMAIN abi.args : abi.args[i].kind = "Indirect"

----------------------------------------------------------------------------
(* LLVM's calling conventions.  The special argument of a virtual stub      *)
(* dispatch or of a stub with a secret parameter has a register of its own. *)

IsSSE(slot) == slot.type.form \in {"fp", "vector"}
Words(slot) == IF slot.at = "byval" THEN 1 + (Len(slot.bytes) - 1) \div 8 ELSE 1

\* The register or the stack word of the next slot, given what is used so far.
Assign(windows, used, slot) ==
    LET n == used.ints + used.sses + used.words
    IN  CASE windows /\ n < 4 -> <<IF IsSSE(slot) THEN "sse" ELSE "int", n>>
          [] ~windows /\ slot.at # "byval" /\ IsSSE(slot) /\ used.sses < 8 ->
               <<"sse", used.sses>>
          [] ~windows /\ slot.at # "byval" /\ ~IsSSE(slot) /\ used.ints < 6 ->
               <<"int", used.ints>>
          [] OTHER -> <<"stack", used.words>>

Locations(windows, slots, hasSpecial) ==
    LET Step(used, slot) ==
            LET loc == IF hasSpecial /\ used.locs = <<>> THEN <<"special", 0>>
                       ELSE Assign(windows, used, slot)
            IN  [ints  |-> used.ints + One(loc[1] = "int"),
                 sses  |-> used.sses + One(loc[1] = "sse"),
                 words |-> IF loc[1] = "stack" THEN used.words + Words(slot) ELSE used.words,
                 locs  |-> Append(used.locs, loc)]
    IN  FoldLeft(Step, [ints |-> 0, sses |-> 0, words |-> 0, locs |-> <<>>], slots).locs

\* What is in the registers and on the stack when a call is made.
Machine(windows, slots, hasSpecial) ==
    LET locs == Locations(windows, slots, hasSpecial)
    IN  [l \in ToSet(locs) |-> slots[CHOOSE i \in DOMAIN slots : locs[i] = l]]

\* The same slots where the callee looks for them.
Arrived(windows, slots, hasSpecial, machine) ==
    LET locs == Locations(windows, slots, hasSpecial)
    IN  [i \in DOMAIN slots |->
            IF locs[i] \in DOMAIN machine THEN machine[locs[i]] ELSE NoSlot]

----------------------------------------------------------------------------
(* The callee's side *)

\* Whether an argument is copied from where it arrives into a home in the frame.
doesArgumentHaveHome(info) ==
    CASE info.kind = "Indirect" -> FALSE
      [] info.kind = "Direct"   -> info.type.form \notin {"struct", "vector"}
      [] OTHER                  -> TRUE

\* Mistake: only the last expansion of a struct is written to its home.
HomeExpansions_Last(info, bytes, last, slots) ==
    collapse(info.parts[Len(info.parts)], slots[last].bytes, Undefs(bytes))

\* The expansions of a struct, ending in slot last, are written to its home.
HomeExpansions(info, bytes, last, slots) ==
    FoldLeft(LAMBDA home, e :
                collapse(info.parts[e], slots[last - Len(info.parts) + e].bytes, home),
             Undefs(bytes), [e \in DOMAIN info.parts |-> e])

\* The value of the argument of type t whose last slot is given: from its home, or
\* behind the address it arrived as.
HomeArgument(info, t, last, slots) ==
    CASE info.kind = "Expand" -> HomeExpansions(info, Bytes(t), last, slots)
      [] doesArgumentHaveHome(info) /\ info.kind # "Expand" ->
           IF slots[last].at = "value" THEN coerce(TypeOf(t), slots[last].bytes)
                                       ELSE Undefs(Bytes(t))
      [] OTHER ->
           IF slots[last].at = "value" THEN Undefs(Bytes(t))
                                       ELSE coerce(TypeOf(t), slots[last].bytes)

\* What the method of this signature finds in its arguments.
Homes(sig, layout, slots) ==
    [i \in DOMAIN sig.args |->
        HomeArgument(layout.abi.args[i], sig.args[i], layout.index[i], slots)]

\* The byte that fills a register behind a small integer.
ExtensionByte(attr, bytes) ==
    CASE attr = "zext" -> <<"zero", 0>>
      [] attr = "sext" -> <<"sign", bytes[Len(bytes)][2]>>
      [] OTHER         -> Undef
Extend(bytes, attr) ==
    [b \in 1 .. IF Len(bytes) < 4 THEN 4 ELSE Len(bytes) |->
        IF b <= Len(bytes) THEN bytes[b] ELSE ExtensionByte(attr, bytes)]
\* The same of a value of a type: what managed code, ours or not, may rely on.
Extended(value, t) ==
    IF TypeInfo[t].form # "int" THEN value
    ELSE Extend(value, IF TypeInfo[t].signed THEN "sext" ELSE "zext")

\* The registers of the small integer arguments, as a callee finds them.
Registers(sig, layout, slots) ==
    [i \in {j \in DOMAIN sig.args : TypeInfo[sig.args[j]].form = "int"} |->
        Extend(slots[layout.index[i]].bytes, slots[layout.index[i]].attr)]

\* A method of this signature is entered; the first argument of the LLVM function
\* is what it takes for its secret parameter.
Received(sig, layout, slots) ==
    [homes     |-> Homes(sig, layout, slots),
     registers |-> Registers(sig, layout, slots),
     first     |-> IF slots = <<>> THEN <<>> ELSE slots[1].bytes]
EnterFunction(windows, sig, layout, machine) ==
    Received(sig, layout, Arrived(windows, layout.slots, sig.secret, machine))
Enter(windows, sig, machine) ==
    EnterFunction(windows, sig, FunctionLayout(ABISignature(windows, sig), sig), machine)

\* What a method leaves for its caller: a buffer, or one value per register.
Returned(abi, value, t) ==
    CASE abi.result.kind = "Indirect" -> << coerce(abi.result.type, value) >>
      [] abi.result.kind = "Expand" ->
           [i \in DOMAIN abi.result.parts |-> expand(abi.result.parts[i], value)]
      [] OTHER -> << coerce(abi.result.type, coerce(TypeOf(t), value)) >>

\* What the caller makes of it.
CallResult(abi, parts, t) ==
    IF abi.result.kind = "Expand"
    THEN FoldLeft(LAMBDA base, e : collapse(abi.result.parts[e], parts[e], base),
                  Undefs(Bytes(t)), [e \in DOMAIN parts |-> e])
    ELSE coerce(TypeOf(t), parts[1])
=============================================================================
