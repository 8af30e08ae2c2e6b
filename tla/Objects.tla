------------------------------- MODULE Objects -------------------------------
(***************************************************************************)
(* The instructions that read and write memory: locals, arguments, fields, *)
(* statics, indirections, vectors, multi-dimensional arrays and boxes.     *)
(* Memory is a row of cells, one for each location of a primitive or       *)
(* reference type; an address is the number of a cell and 0 is null.  A    *)
(* Layout says what stands where.  The operators named after GenIR's and   *)
(* ReaderBase's methods give the outcome of the code these emit: the       *)
(* checks in their order, the loads, and the writes with the kind of write *)
(* barrier, plain for none.  The operands an instruction pops are drawn    *)
(* from what IL lets stand on the stack there.                             *)
(***************************************************************************)
EXTENDS StackTypes, Sequences, SequencesExt

CONSTANTS Layouts,       \* the memories explored
          Stored32       \* the int32 values stored

VARIABLES layout,        \* the memory layout of this behaviour
          mem,           \* the value of every cell
          known,         \* the cells whose value the collector has been told of
          prefix,        \* HasVolatilePrefix, HasReadOnlyPrefix
          last           \* the instruction just executed and its outcome

vars == <<layout, mem, known, prefix, last>>

Cells   == DOMAIN layout.cor
GCCells == {a \in Cells : layout.cor[a] = "CLASS"}
Desc(p) == layout.objects[p]             \* the object an object reference is to

\* A struct takes the cells of its fields; every other type takes one.
StructCells == layout.struct
SizeOf(cor) == IF cor = "VALUECLASS" THEN Len(StructCells) ELSE 1

\* The result of ldnull, a constant the reader recognises; a null that comes out
\* of memory is an ordinary reference.
ConstantNull == Value("null", 0)
Ref(p)       == Value("gcptr", p)

\* A struct on the stack stands for the temporary it was copied to.
Radix       == 8 + Len(layout.cor)
Pack(cells) == Value("struct", FoldLeft(LAMBDA n, c : n * Radix + c, 0, cells))
Unpack(a)   == [i \in 1 .. Len(StructCells) |->
                   (a.v \div Radix ^ (Len(StructCells) - i)) % Radix]

----------------------------------------------------------------------------
(* Outcomes of the emitted code *)

NoValue  == Value("none", 0)
Done(a)  == [exc |-> "none", val |-> a, writes |-> <<>>, volatile |-> FALSE]
Throw(e) == [Done(NoValue) EXCEPT !.exc = e]
Write(addr, x, barrier) == [addr |-> addr, x |-> x, barrier |-> barrier]
Stored(writes, vol)     == [Done(NoValue) EXCEPT !.writes = writes, !.volatile = vol]

\* A plain load or store of an address that is no cell.
Fault == Throw("AccessViolation")

genConditionalThrow(condition, exception, rest) ==
    IF condition THEN Throw(exception) ELSE rest

genNullCheck(p, rest) == genConditionalThrow(p.v = 0, "NullReference", rest)

\* What is done with an address once the checks on the way to it have passed.
AtAddress(checked, Access(_)) == IF checked.exc = "none" THEN Access(checked.val) ELSE checked

\* Mistake: the index keeps its sign.
genBoundsCheck_Signed(length, index, rest) ==
    genConditionalThrow(Reading(index, TRUE) >= length.v, "IndexOutOfRange", rest)

\* One unsigned comparison for both ends.
genBoundsCheck(length, index, rest) ==
    genConditionalThrow(IntCast(index, length.ty, FALSE).v >= length.v,
                        "IndexOutOfRange", rest)

makeLoad(addr, cor, vol, mayBeNull) ==
    LET Load == IF addr.v \in Cells
                THEN [Done(convertToStackType(Value(getType(cor), mem[addr.v]), cor))
                          EXCEPT !.volatile = vol]
                ELSE Fault
    IN  IF mayBeNull THEN genNullCheck(addr, Load) ELSE Load

\* A struct is copied to a temporary.
loadNonPrimitiveObj(addr, vol, mayBeNull) ==
    LET from == addr.v .. addr.v + Len(StructCells) - 1
        Load == IF from \subseteq Cells
                THEN [Done(Pack([i \in DOMAIN StructCells |-> mem[addr.v + i - 1]]))
                          EXCEPT !.volatile = vol]
                ELSE Fault
    IN  IF mayBeNull THEN genNullCheck(addr, Load) ELSE Load

loadAtAddress(addr, cor, vol, mayBeNull) ==
    IF cor = "VALUECLASS" THEN loadNonPrimitiveObj(addr, vol, mayBeNull)
    ELSE makeLoad(addr, cor, vol, mayBeNull)

makeStore(x, addr, vol, mayBeNull) ==
    LET Store == IF addr.v \in Cells THEN Stored(<<Write(addr.v, x.v, "plain")>>, vol)
                 ELSE Fault
    IN  IF mayBeNull THEN genNullCheck(addr, Store) ELSE Store

\* The memcpy and memset helpers fail on null before they write.
HelperWrites(addr, writes, vol) == genNullCheck(addr, Stored(writes, vol))

----------------------------------------------------------------------------
(* Write barriers *)

\* Copies the blocks before, between and after the references of the struct and
\* each reference through the barrier helper.
copyStruct(dst, cells, barrier) ==
    LET Block(from, to) == [i \in 1 .. to - from + 1 |->
                               Write(dst + from + i - 2, cells[from + i - 1], "plain")]
        Slot(s, i) ==
            IF StructCells[i] # "CLASS" THEN s
            ELSE [after |-> i + 1,
                  writes |-> s.writes \o Block(s.after, i - 1)
                                 \o <<Write(dst + i - 1, cells[i], barrier)>>]
        s == FoldLeft(Slot, [after |-> 1, writes |-> <<>>], [i \in 1 .. Len(cells) |-> i])
    IN  s.writes \o Block(s.after, Len(cells))

\* The helpers fail on null; an unchecked one takes the address to be in the heap.
rdrCallWriteBarrierHelper(dst, src, isNotValueClass, isUnchecked, vol) ==
    LET barrier == IF isUnchecked THEN "unchecked" ELSE "checked"
    IN  HelperWrites(dst, IF isNotValueClass THEN <<Write(dst.v, src.v, barrier)>>
                          ELSE copyStruct(dst.v, Unpack(src), barrier), vol)

\* ICorJitInfo: references, and structs that hold one.
isWriteBarrierHelperRequired(cor) ==
    cor = "CLASS" \/ (cor = "VALUECLASS" /\ "CLASS" \in {StructCells[i] : i \in DOMAIN StructCells})

\* Into a local, a by-value argument or a static without references.
storeAtAddressNoBarrierNonNull(addr, x, cor, vol) ==
    IF cor = "VALUECLASS"
    THEN Stored([i \in 1 .. SizeOf(cor) |-> Write(addr.v + i - 1, Unpack(x)[i], "plain")], vol)
    ELSE makeStore(x, addr, vol, FALSE)

\* What is stored: the literal null is a reference like any other by now.
FromStack(a, cor) ==
    CASE cor = "VALUECLASS" -> a
      [] a.ty = "null"      -> Ref(0)
      [] OTHER              -> convertFromStackType(a, cor)

----------------------------------------------------------------------------
(* Locals and arguments *)

storeLocal(l, x, vol) ==
    storeAtAddressNoBarrierNonNull(Ref(l.pos), FromStack(x, l.cor), l.cor, vol)
loadLocal(l)          == loadAtAddress(Ref(l.pos), l.cor, FALSE, FALSE)
loadManagedAddress(l) == Done(Ref(l.pos))

\* Mistake: the caller's copy is taken to be in its frame.
storeIndirectArg_NoBarrier(a, x, vol) == storeAtAddressNoBarrierNonNull(Ref(a.pos), x, a.cor, vol)

\* The copy the caller passes the address of may be in the heap.
storeIndirectArg(a, x, vol) == rdrCallWriteBarrierHelper(Ref(a.pos), x, FALSE, FALSE, vol)

storeArg(a, x, vol) ==
    LET y == FromStack(x, a.cor)
    IN  IF a.kind = "indirect" THEN storeIndirectArg(a, y, vol)
        ELSE storeAtAddressNoBarrierNonNull(Ref(a.pos), y, a.cor, vol)
loadArg(a) == loadAtAddress(Ref(a.pos), a.cor, FALSE, FALSE)

----------------------------------------------------------------------------
(* Fields *)

\* A field counted from the end of the base class (ReadyToRun, where the size of a
\* base class of another version is not known) has that size added.
simpleFieldAddress(obj, f) ==
    LET base == IF f.kind = "based" THEN Ref(obj.v + layout.base) ELSE obj
    IN  IF f.pos # 0 THEN Ref(base.v + f.pos) ELSE Ref(base.v)

\* Some statics are constants the EE knows of: a native zero and the empty string,
\* whose pos is the string.
IsStatic(f) == f.kind \in {"static", "zero", "empty"}

rdrGetStaticFieldAddress(f) == Ref(f.pos)
loadStaticField(f, vol) ==
    CASE f.kind = "zero"  -> Done(Value("i64", 0))
      [] f.kind = "empty" -> Done(Ref(f.pos))
      [] OTHER -> loadAtAddress(rdrGetStaticFieldAddress(f), f.cor, vol, FALSE)

\* Statics are in the heap, so the barrier need not look.
storeStaticField(f, x, vol) ==
    LET y == FromStack(x, f.cor)
    IN  IF isWriteBarrierHelperRequired(f.cor)
        THEN rdrCallWriteBarrierHelper(rdrGetStaticFieldAddress(f), y, f.cor # "VALUECLASS", TRUE, vol)
        ELSE storeAtAddressNoBarrierNonNull(rdrGetStaticFieldAddress(f), y, f.cor, vol)

\* The runtime's helpers for the fields it keeps to itself; they check the object.
GETFIELDADDR(f, obj) == genNullCheck(obj, Done(Ref(obj.v + f.pos)))
GETFIELD(f, obj) ==
    AtAddress(GETFIELDADDR(f, obj), LAMBDA p : Done(Value(getType(f.cor), mem[p.v])))
SETFIELD(f, obj, x) ==
    AtAddress(GETFIELDADDR(f, obj), LAMBDA p :
        Stored(<<Write(p.v, x.v, IF f.cor = "CLASS" THEN "checked" ELSE "plain")>>, FALSE))

rdrCallFieldHelper(f, isLoad, obj, x, vol) ==
    [(IF isLoad THEN GETFIELD(f, obj) ELSE SETFIELD(f, obj, x)) EXCEPT !.volatile = vol]

\* ldflda, and the address part of ldfld and stfld, which all check the object.
getFieldAddress(f, obj) ==
    CASE IsStatic(f)       -> Done(rdrGetStaticFieldAddress(f))
      [] f.kind = "helper" -> GETFIELDADDR(f, obj)
      [] OTHER             -> genNullCheck(obj, Done(simpleFieldAddress(obj, f)))
loadFieldAddress(f, obj) == getFieldAddress(f, obj)

\* ldfld on a static only drops the object; on a struct value it reads the copy.
loadField(f, obj, vol) ==
    CASE IsStatic(f)       -> loadStaticField(f, vol)
      [] f.kind = "helper" ->
            LET o == rdrCallFieldHelper(f, TRUE, obj, NoValue, vol)
            IN  IF o.exc = "none" THEN [o EXCEPT !.val = convertToStackType(@, f.cor)] ELSE o
      [] obj.ty = "struct" /\ f.kind \notin {"static", "helper"} ->
            Done(convertToStackType(Value(getType(f.cor), Unpack(obj)[f.pos + 1]), f.cor))
      [] OTHER -> AtAddress(getFieldAddress(f, obj), LAMBDA p : loadAtAddress(p, f.cor, vol, FALSE))

storeField(f, x, obj, vol) ==
    LET y == FromStack(x, f.cor)
    IN  CASE IsStatic(f)       -> storeStaticField(f, x, vol)
          [] f.kind = "helper" -> rdrCallFieldHelper(f, FALSE, obj, y, vol)
          [] OTHER -> AtAddress(getFieldAddress(f, obj), LAMBDA p :
                IF isWriteBarrierHelperRequired(f.cor)
                THEN rdrCallWriteBarrierHelper(p, y, f.cor # "VALUECLASS", FALSE, vol)
                ELSE storeAtAddressNoBarrierNonNull(p, y, f.cor, vol))

----------------------------------------------------------------------------
(* Indirections *)

LdIndirOpcode == {"BYTE", "UBYTE", "SHORT", "USHORT", "INT", "UINT", "LONG", "NATIVEINT",
                  "FLOAT", "DOUBLE", "CLASS"}
StIndirOpcode == {"BYTE", "SHORT", "INT", "LONG", "NATIVEINT", "FLOAT", "DOUBLE", "CLASS"}

loadPrimitiveType(addr, cor, vol) == makeLoad(addr, cor, vol, TRUE)
loadIndir(cor, addr, vol)         == loadPrimitiveType(addr, cor, vol)

storePrimitiveType(x, addr, cor, vol) == makeStore(FromStack(x, cor), addr, vol, TRUE)
storeNonPrimitiveType(x, addr, vol)   == rdrCallWriteBarrierHelper(addr, x, FALSE, FALSE, vol)

storeIndir(cor, x, addr, vol) ==
    IF cor = "CLASS" THEN rdrCallWriteBarrierHelper(addr, FromStack(x, cor), TRUE, FALSE, vol)
    ELSE storePrimitiveType(x, addr, cor, vol)

loadObj(cor, addr, vol) ==
    CASE cor = "CLASS"      -> loadIndir(cor, addr, vol)
      [] cor = "VALUECLASS" -> loadNonPrimitiveObj(addr, vol, TRUE)
      [] OTHER              -> loadPrimitiveType(addr, cor, vol)
storeObj(cor, x, addr, vol) ==
    CASE cor = "CLASS"      -> storeIndir(cor, x, addr, vol)
      [] cor = "VALUECLASS" -> storeNonPrimitiveType(x, addr, vol)
      [] OTHER              -> storePrimitiveType(x, addr, cor, vol)

\* The source is read, with its null check, before the destination is touched.
cpObj(cor, src, dst, vol) ==
    LET o == loadObj(cor, src, vol)
    IN  IF o.exc # "none" THEN o ELSE storeObj(cor, o.val, dst, vol)

initObj(cor, addr) ==
    HelperWrites(addr, [i \in 1 .. SizeOf(cor) |-> Write(addr.v + i - 1, 0, "plain")], FALSE)

----------------------------------------------------------------------------
(* Vectors *)

\* The length as an unsigned native integer.
ArrayLength(p) == convertToStackType(Value("i32", Desc(p.v).lengths[1]), "NATIVEUINT")
loadLen(array) == genNullCheck(array, Done(ArrayLength(array)))

\* The checks come before the address is computed; the index is extended by its
\* sign in the address.
genArrayElemAddress(array, index) ==
    genNullCheck(array, genBoundsCheck(ArrayLength(array), index,
        Done(Ref(array.v + 1 + Reading(index, TRUE) * SizeOf(Desc(array.v).elem)))))

LdElemOpcode == LdIndirOpcode \cup {"VALUECLASS"}
StElemOpcode == StIndirOpcode \cup {"VALUECLASS"}

loadElem(cor, index, array) ==
    AtAddress(genArrayElemAddress(array, index), LAMBDA p : loadAtAddress(p, cor, FALSE, FALSE))

\* The runtime's helpers that check the type of the element.
ARRADDR_ST(x, index, array) ==
    AtAddress(genArrayElemAddress(array, index), LAMBDA p :
        genConditionalThrow(x.v # 0 /\ Desc(array.v).class \notin Desc(x.v).supers,
            "ArrayTypeMismatch", Stored(<<Write(p.v, x.v, "checked")>>, FALSE)))
LDELEMA_REF(index, array, class) ==
    AtAddress(genArrayElemAddress(array, index), LAMBDA p :
        genConditionalThrow(Desc(array.v).class # class, "ArrayTypeMismatch", Done(p)))

\* The helper is not needed where the element type is exact by itself or the
\* address is only read.
loadElemA(cor, class, index, array, readonly) ==
    IF ~readonly /\ cor = "CLASS" THEN LDELEMA_REF(index, array, class)
    ELSE genArrayElemAddress(array, index)

\* A literal null needs neither the type check nor the barrier.
storeElem(cor, x, index, array) ==
    IF cor = "CLASS" /\ x # ConstantNull THEN ARRADDR_ST(x, index, array)
    ELSE AtAddress(genArrayElemAddress(array, index), LAMBDA p :
            IF cor = "VALUECLASS" THEN rdrCallWriteBarrierHelper(p, x, FALSE, FALSE, FALSE)
            ELSE makeStore(FromStack(x, cor), p, FALSE, FALSE))

----------------------------------------------------------------------------
(* Multi-dimensional arrays *)

ArrayIntrinMaxRank == 3

\* Rank 1, structs, and the store or address of what might need a type check
\* are left to the methods of the array type.
canExpandMDArrayRef(rank, cor, final, isStore, isLoadAddr) ==
    /\ rank \in 2 .. ArrayIntrinMaxRank
    /\ cor = "VALUECLASS" => isLoadAddr
    /\ (isStore \/ isLoadAddr) /\ cor = "CLASS" => final

mdArrayGetDimensionLength(array, d) == Value("i32", Desc(array.v).lengths[d])

\* Dimension by dimension: take off the lower bound, check, accumulate, all in
\* 32 bits; the position is extended by its sign in the address.
mdArrayRefAddr(array, indices) ==
    LET Offset(d) == Value("i32", Wrap(indices[d].v - Desc(array.v).bounds[d], Bits("i32")))
        Dim(s, d) ==
            [ok  |-> s.ok /\ genBoundsCheck(mdArrayGetDimensionLength(array, d), Offset(d),
                                           Done(NoValue)).exc = "none",
             pos |-> Wrap(s.pos * mdArrayGetDimensionLength(array, d).v + Offset(d).v, Bits("i32"))]
        s == FoldLeft(Dim, [ok |-> TRUE, pos |-> 0], [d \in DOMAIN indices |-> d])
    IN  genNullCheck(array, genConditionalThrow(~s.ok, "IndexOutOfRange",
            Done(Ref(array.v + 1 + Signed(s.pos, Bits("i32")) * SizeOf(Desc(array.v).elem)))))

arrayGet(array, indices, cor) ==
    AtAddress(mdArrayRefAddr(array, indices), LAMBDA p : loadAtAddress(p, cor, FALSE, FALSE))

\* Arrays are in the heap: the barrier need not look.
arraySet(array, indices, x, cor) ==
    AtAddress(mdArrayRefAddr(array, indices), LAMBDA p :
        IF cor = "CLASS" THEN rdrCallWriteBarrierHelper(p, FromStack(x, cor), TRUE, TRUE, FALSE)
        ELSE makeStore(FromStack(x, cor), p, FALSE, FALSE))

arrayAddress(array, indices) == mdArrayRefAddr(array, indices)

\* A vector checks the dimension, then the reference; any other array the
\* reference first.
arrayGetDimLength(dimension, array, isVector) ==
    IF isVector THEN genBoundsCheck(Value("i32", 1), dimension, loadLen(array))
    ELSE genNullCheck(array, genBoundsCheck(Value("i32", Len(Desc(array.v).lengths)), dimension,
            Done(mdArrayGetDimensionLength(array, dimension.v + 1))))

----------------------------------------------------------------------------
(* Strings, boxes, casts, blocks and interlocked operations *)

loadStringLen(s) == genNullCheck(s, Done(Value("i32", Desc(s.v).lengths[1])))

\* Only the reference is checked, not the index.
stringGetChar(s, index) ==
    genNullCheck(s, loadAtAddress(Ref(s.v + 1 + Reading(index, TRUE)), "CHAR", FALSE, FALSE))

\* The runtime's box, unbox and casting helpers.
BOX(p, x, cor) ==
    [Done(Ref(p)) EXCEPT !.writes = <<Write(p + 1, IntCast(x, getType(cor), FALSE).v, "checked")>>]
UNBOX(p, class) ==
    genNullCheck(p, genConditionalThrow(Desc(p.v).class # class, "InvalidCast", Done(Ref(p.v + 1))))
InstanceOf(p, class) == class \in Desc(p.v).supers
\* The value and whether there is one, which there is not for null.
UNBOX_NULLABLE(p, class) ==
    genConditionalThrow(p.v # 0 /\ Desc(p.v).class # class, "InvalidCast",
        Done(Pack(IF p.v = 0 THEN <<0, 0>> ELSE <<1, mem[p.v + 1]>>)))

\* A floating-point number is cast to the type it has already; see the README.
convertToBoxHelperArgumentType(x) == IF x.ty \in FloatTypes THEN FPCast(x, x.ty) ELSE x

\* box of a reference type does nothing.
box(p, x, cor) ==
    IF cor = "CLASS" THEN Done(x) ELSE BOX(p, convertToBoxHelperArgumentType(x), cor)

\* A Nullable is unboxed to a temporary, which is loaded or has its address taken.
unbox(p, class, cor, andLoad, vol) ==
    IF cor = "VALUECLASS"
    THEN AtAddress(UNBOX_NULLABLE(p, class), LAMBDA x :
            IF andLoad THEN Done(x)
            ELSE [Done(Ref(layout.temporary)) EXCEPT
                     !.writes = [i \in 1 .. SizeOf(cor) |->
                                    Write(layout.temporary + i - 1, Unpack(x)[i], "plain")]])
    ELSE IF andLoad THEN AtAddress(UNBOX(p, class), LAMBDA q : loadAtAddress(q, cor, vol, FALSE))
    ELSE UNBOX(p, class)

castClass(p, class) ==
    genConditionalThrow(p.v # 0 /\ ~InstanceOf(p, class), "InvalidCast", Done(Ref(p.v)))
\* Of a value type unbox and a load, of a reference type a cast.
unboxAny(p, class, cor, vol) ==
    IF cor = "CLASS" THEN castClass(p, class) ELSE unbox(p, class, cor, TRUE, vol)
isInst(p, class) == Done(Ref(IF p.v # 0 /\ InstanceOf(p, class) THEN p.v ELSE 0))

cpBlk(count, src, dst, vol) ==
    genNullCheck(src, HelperWrites(dst,
        [i \in 1 .. count.v |-> Write(dst.v + i - 1, mem[src.v + i - 1], "plain")], vol))
initBlk(count, x, dst, vol) ==
    HelperWrites(dst, [i \in 1 .. count.v |->
        Write(dst.v + i - 1, IntCast(x, "i8", FALSE).v, "plain")], vol)

\* The whole of the read and the write is one step of the machine.
interlockedIntrinsicBinOp(op, addr, x) ==
    LET old == mem[addr.v]
    IN  [Done(Value("i32", old)) EXCEPT !.writes = <<Write(addr.v,
            IF op = "XAdd" THEN Wrap(old + x.v, Bits("i32")) ELSE x.v, "plain")>>]
interlockedCmpXchg(addr, x, comparand) ==
    LET old == mem[addr.v]
    IN  [Done(Value("i32", old)) EXCEPT
            !.writes = IF old = comparand.v THEN <<Write(addr.v, x.v, "plain")>> ELSE <<>>]

----------------------------------------------------------------------------
(* The loop over the instructions *)

NoPrefix == [volatile |-> FALSE, readonly |-> FALSE]
NoPlace  == [kind |-> "none", cor |-> "none", pos |-> 0]
Nothing(op) == [op |-> op, place |-> NoPlace, args |-> <<>>, out |-> Done(NoValue)]

Init ==
    /\ layout \in Layouts
    /\ mem = layout.init
    /\ known = {a \in GCCells : a \in layout.heap}
    /\ prefix = NoPrefix
    /\ last = Nothing("none")

\* What the collector knows of the heap after a write: the barriers tell it of
\* the cell, and of a null it need not know.
Told(k, w) ==
    IF w.addr \notin GCCells \cap layout.heap THEN k
    ELSE IF w.barrier = "plain" /\ w.x # 0 THEN k \ {w.addr} ELSE k \cup {w.addr}

\* The next round of the loop.
AtInstruction == last.op \in {"none", "volatile", "readonly"}
NextInstruction ==
    /\ ~AtInstruction
    /\ last' = Nothing("none")
    /\ UNCHANGED <<layout, mem, known, prefix>>

\* An instruction that is no prefix ends the effect of the prefixes.
Executed(op, place, args, o) ==
    /\ AtInstruction
    /\ mem' = FoldLeft(LAMBDA m, w : [m EXCEPT ![w.addr] = w.x], mem, o.writes)
    /\ known' = FoldLeft(Told, known, o.writes)
    /\ last' = [op |-> op, place |-> place, args |-> args, out |-> o]
    /\ prefix' = NoPrefix
    /\ UNCHANGED layout

\* The operands IL allows.
Boxes    == {p \in DOMAIN layout.objects : Desc(p).box}
Live(p)  == p \in Boxes => \E a \in GCCells : mem[a] = p
Objects  == {Ref(p) : p \in {p \in DOMAIN layout.objects : Live(p)}} \cup {Ref(0)}
Int32s   == {Value("i32", x) : x \in Patterns("i32")}
Places(kinds)  == {l \in layout.places : l.kind \in kinds}
Arrays(rank)   ==
    {p \in Objects : /\ layout.elem # "none"
                     /\ p.v = 0 \/ (Len(Desc(p.v).lengths) = rank /\ Desc(p.v).elem = layout.elem)}
Strings        == {p \in Objects : p.v = 0 \/ Desc(p.v).class = "String"}
AddressesOf(cor) ==
    {Ref(0)} \cup {Ref(a) : a \in IF cor = "VALUECLASS" THEN layout.structs
                                 ELSE {a \in Cells : layout.cor[a] = cor}}
Structs == {Pack([i \in DOMAIN StructCells |-> IF StructCells[i] = "CLASS" THEN p.v ELSE n]) :
                p \in Objects, n \in 0 .. 1}
ValuesFor(cor) ==
    CASE cor = "CLASS"      -> Objects \cup {ConstantNull}
      [] cor = "VALUECLASS" -> Structs
      [] OTHER              -> Stored32

\* What the array's type, as the method knows it, lets an element be.
ElementsFor(cor) ==
    IF cor = "CLASS"
    THEN {x \in ValuesFor(cor) : x.v = 0 \/ layout.class \in Desc(x.v).supers}
    ELSE ValuesFor(cor)

\* A field of a struct is reached through its address; ldfld also takes a value.
Owners(f) ==
    IF f.kind = "member" THEN AddressesOf("VALUECLASS")
    ELSE {p \in Objects : p.v = 0 \/ Desc(p.v).class = "Object"}

Volatile ==
    /\ AtInstruction /\ ~prefix.volatile
    /\ prefix' = [prefix EXCEPT !.volatile = TRUE]
    /\ last' = Nothing("volatile")
    /\ UNCHANGED <<layout, mem, known>>

ReadOnly ==
    /\ AtInstruction /\ ~prefix.readonly
    /\ prefix' = [prefix EXCEPT !.readonly = TRUE]
    /\ last' = Nothing("readonly")
    /\ UNCHANGED <<layout, mem, known>>

Variables == Places({"local", "arg", "indirect"})
At(c)     == [NoPlace EXCEPT !.cor = c]

LoadVariable ==
    \E l \in Variables :
        Executed("ldvar", l, <<>>, IF l.kind = "local" THEN loadLocal(l) ELSE loadArg(l))
LoadVariableAddress ==
    \E l \in Variables : Executed("ldvara", l, <<>>, loadManagedAddress(l))
StoreLocal ==
    \E l \in Places({"local"}) : \E x \in ValuesFor(l.cor) :
        Executed("stvar", l, <<x>>, storeLocal(l, x, prefix.volatile))
StoreArg ==
    \E l \in Places({"arg", "indirect"}) : \E x \in ValuesFor(l.cor) :
        Executed("stvar", l, <<x>>, storeArg(l, x, prefix.volatile))

\* On a static field these drop the object.
Fields == Places({"field", "based", "helper", "static", "member"})

LoadField ==
    \/ \E f \in Places({"member"}), x \in Structs :
          Executed("ldfld", f, <<x>>, loadField(f, x, prefix.volatile))
    \/ \E f \in Fields : \E obj \in Owners(f) :
          Executed("ldfld", f, <<obj>>, loadField(f, obj, prefix.volatile))
LoadFieldAddress ==
    \E f \in Fields : \E obj \in Owners(f) : Executed("ldflda", f, <<obj>>, loadFieldAddress(f, obj))
StoreField ==
    \E f \in Fields : \E obj \in Owners(f), x \in ValuesFor(f.cor) :
        Executed("stfld", f, <<obj, x>>, storeField(f, x, obj, prefix.volatile))
LoadStaticField ==
    \E f \in {l \in layout.places : IsStatic(l)} :
        Executed("ldsfld", f, <<>>, loadStaticField(f, prefix.volatile))
StoreStaticField ==
    \E f \in Places({"static"}) : \E x \in ValuesFor(f.cor) :
        Executed("stsfld", f, <<x>>, storeStaticField(f, x, prefix.volatile))

LoadIndirect ==
    \E cor \in layout.types \cap LdIndirOpcode : \E addr \in AddressesOf(cor) :
        Executed("ldind", At(cor), <<addr>>, loadIndir(cor, addr, prefix.volatile))
StoreIndirect ==
    \E cor \in layout.types \cap StIndirOpcode : \E addr \in AddressesOf(cor), x \in ValuesFor(cor) :
        Executed("stind", At(cor), <<addr, x>>, storeIndir(cor, x, addr, prefix.volatile))
LoadObject ==
    \E cor \in layout.types : \E addr \in AddressesOf(cor) :
        Executed("ldobj", At(cor), <<addr>>, loadObj(cor, addr, prefix.volatile))
StoreObject ==
    \E cor \in layout.types : \E addr \in AddressesOf(cor), x \in ValuesFor(cor) :
        Executed("stobj", At(cor), <<addr, x>>, storeObj(cor, x, addr, prefix.volatile))
CopyObject ==
    \E cor \in layout.types : \E addr, src \in AddressesOf(cor) :
        Executed("cpobj", At(cor), <<addr, src>>, cpObj(cor, src, addr, prefix.volatile))
InitObject ==
    \E cor \in layout.types : \E addr \in AddressesOf(cor) :
        Executed("initobj", At(cor), <<addr>>, initObj(cor, addr))

Element(array) == At(IF array.v = 0 THEN layout.elem ELSE Desc(array.v).elem)

LoadLength ==
    \E array \in Arrays(1) : Executed("ldlen", Element(array), <<array>>, loadLen(array))
LoadElement ==
    \E array \in Arrays(1), index \in Int32s :
        /\ Element(array).cor \in LdElemOpcode
        /\ Executed("ldelem", Element(array), <<array, index>>, loadElem(Element(array).cor, index, array))
LoadElementAddress ==
    \E array \in Arrays(1), index \in Int32s :
        Executed(IF prefix.readonly THEN "ldelema.readonly" ELSE "ldelema", Element(array),
                 <<array, index>>,
                 loadElemA(Element(array).cor, layout.class, index, array, prefix.readonly))
StoreElement ==
    \E array \in Arrays(1), index \in Int32s : \E x \in ElementsFor(Element(array).cor) :
        /\ Element(array).cor \in StElemOpcode
        /\ Executed("stelem", Element(array), <<array, index, x>>,
                    storeElem(Element(array).cor, x, index, array))

\* The intrinsics of rdrCall.  The array methods are called where they are not
\* expanded; the operands go back to the stack then.
Expanded(array, isStore, isLoadAddr) ==
    canExpandMDArrayRef(2, Element(array).cor, layout.final, isStore, isLoadAddr)
ArrayGet ==
    \E array \in Arrays(2), i, j \in Int32s :
        /\ Expanded(array, FALSE, FALSE)
        /\ Executed("Get", Element(array), <<array, i, j>>, arrayGet(array, <<i, j>>, Element(array).cor))
ArrayAddress ==
    \E array \in Arrays(2), i, j \in Int32s :
        /\ Expanded(array, FALSE, TRUE)
        /\ Executed("Address", Element(array), <<array, i, j>>, arrayAddress(array, <<i, j>>))
ArraySet ==
    \E array \in Arrays(2), i, j \in Int32s :
        /\ Expanded(array, TRUE, FALSE)
        /\ \E x \in ElementsFor(Element(array).cor) :
              Executed("Set", Element(array), <<array, i, j, x>>,
                       arraySet(array, <<i, j>>, x, Element(array).cor))
ArrayGetDimLength ==
    \E rank \in 1 .. 2 : \E array \in Arrays(rank), d \in Int32s :
        Executed("GetDimLength", Element(array), <<array, d>>, arrayGetDimLength(d, array, rank = 1))
StringLength ==
    \E s \in Strings : Executed("strlen", At("CHAR"), <<s>>, loadStringLen(s))
StringGetChar ==
    \E s \in Strings, i \in Int32s : Executed("strchar", At("CHAR"), <<s, i>>, stringGetChar(s, i))
InterlockedBinOp ==
    \E op \in {"XAdd", "Xchg"}, addr \in AddressesOf("INT") \ {Ref(0)}, x \in Stored32 :
        /\ "INT" \in layout.types
        /\ Executed(op, At("INT"), <<addr, x>>, interlockedIntrinsicBinOp(op, addr, x))
InterlockedCmpXchg ==
    \E addr \in AddressesOf("INT") \ {Ref(0)}, x, c \in Stored32 :
        /\ "INT" \in layout.types
        /\ Executed("CmpXchg", At("INT"), <<addr, x, c>>, interlockedCmpXchg(addr, x, c))

\* A box is made of an object that nothing refers to.
Box ==
    \/ \E p \in Boxes, x \in Int32s :
          /\ ~Live(p)
          /\ Executed("box", At(Desc(p).elem), <<Ref(p), x>>, box(p, x, Desc(p).elem))
    \/ \E x \in Objects :
          /\ layout.classes # {}
          /\ Executed("box.ref", At("CLASS"), <<x>>, box(0, x, "CLASS"))

\* The type a box is unboxed to: that of its value, or the Nullable of it.
UnboxedTypes ==
    UNION {{[NoPlace EXCEPT !.kind = Desc(b).class, !.cor = c] : c \in {Desc(b).elem, "VALUECLASS"}} :
               b \in Boxes}
Unbox ==
    \E p \in Objects, t \in UnboxedTypes :
        Executed("unbox", t, <<p>>, unbox(p, t.kind, t.cor, FALSE, FALSE))
UnboxAny ==
    \E p \in Objects, t \in UnboxedTypes
                \cup {[kind |-> c, cor |-> "CLASS", pos |-> 0] : c \in layout.classes} :
        Executed("unbox.any", t, <<p>>, unboxAny(p, t.kind, t.cor, prefix.volatile))
CastClass ==
    \E p \in Objects \cup {ConstantNull}, class \in layout.classes :
        Executed("castclass", [At("CLASS") EXCEPT !.kind = class], <<p>>, castClass(p, class))
IsInst ==
    \E p \in Objects \cup {ConstantNull}, class \in layout.classes :
        Executed("isinst", [At("CLASS") EXCEPT !.kind = class], <<p>>, isInst(p, class))

\* Blocks of bytes inside one object.
Blocks(count) ==
    {a \in AddressesOf("BYTE") : /\ "BYTE" \in layout.types
                                 /\ a.v # 0 => \A c \in a.v .. a.v + count.v - 1 :
                                                  c \in Cells /\ layout.cor[c] = "BYTE"}
CopyBlock ==
    \E count \in Int32s \ {Value("i32", 0)} : \E dst, src \in Blocks(count) :
        /\ src.v = 0 \/ dst.v = 0 \/ src.v + count.v <= dst.v \/ dst.v + count.v <= src.v
        /\ Executed("cpblk", At("BYTE"), <<dst, src, count>>, cpBlk(count, src, dst, prefix.volatile))
InitBlock ==
    \E count \in Int32s \ {Value("i32", 0)} : \E dst \in Blocks(count), x \in Stored32 :
        Executed("initblk", At("BYTE"), <<dst, x, count>>, initBlk(count, x, dst, prefix.volatile))

Next ==
    \/ NextInstruction \/ Volatile \/ ReadOnly
    \/ LoadVariable \/ LoadVariableAddress \/ StoreLocal \/ StoreArg
    \/ LoadField \/ LoadFieldAddress \/ StoreField \/ LoadStaticField \/ StoreStaticField
    \/ LoadIndirect \/ StoreIndirect \/ LoadObject \/ StoreObject \/ CopyObject \/ InitObject
    \/ LoadLength \/ LoadElement \/ LoadElementAddress \/ StoreElement
    \/ ArrayGet \/ ArrayAddress \/ ArraySet \/ ArrayGetDimLength \/ StringLength \/ StringGetChar
    \/ InterlockedBinOp \/ InterlockedCmpXchg
    \/ Box \/ Unbox \/ UnboxAny \/ CastClass \/ IsInst \/ CopyBlock \/ InitBlock

Spec == Init /\ [][Next]_vars

----------------------------------------------------------------------------
(* What IL says of the instructions, without the code's order of work: i is *)
(* an instruction with its place and operands, mem the memory before it     *)

\* A number as a location of type cor holds it, and as it is then loaded.
Held(x, cor)   == IF cor = "CLASS" THEN x.v ELSE x.v % Pow2[Bits(getType(cor))]
Pushed(c, cor) ==
    IF cor = "CLASS" THEN Ref(c)
    ELSE Value("i32", Wrap(IF isSigned(cor) THEN Signed(c, Bits(getType(cor))) ELSE c, Bits("i32")))

\* The operands that must not be null.
ILReferences(i) ==
    CASE i.op \in {"ldfld", "ldflda", "stfld"} /\ (IsStatic(i.place) \/ i.args[1].ty = "struct") -> {}
      [] i.op \in {"cpobj", "cpblk"} -> {i.args[1], i.args[2]}
      [] i.op \in {"ldvar", "ldvara", "stvar", "ldsfld", "stsfld", "castclass", "isinst", "box", "box.ref",
                   "XAdd", "Xchg", "CmpXchg"} -> {}
      [] i.op \in {"unbox", "unbox.any"} /\ i.place.cor \in {"CLASS", "VALUECLASS"} -> {}
      [] OTHER -> {i.args[1]}

\* The index tuples of an array, and the one an instruction names.
ILIndices(p) ==
    LET d == Desc(p)
        n == Len(d.lengths)
        low(k)   == Signed(d.bounds[k], Bits("i32"))
        along(k) == low(k) .. low(k) + d.lengths[k] - 1
    IN  {t \in [1 .. n -> UNION {along(k) : k \in 1 .. n}] : \A k \in 1 .. n : t[k] \in along(k)}
ILIndex(i) ==
    [k \in 1 .. (IF i.op \in {"Get", "Set", "Address"} THEN 2 ELSE 1) |-> Reading(i.args[k + 1], TRUE)]
Indexed == {"ldelem", "ldelema", "ldelema.readonly", "stelem", "Get", "Set", "Address", "strchar"}

ILOutOfRange(i) ==
    \/ i.op \in Indexed /\ ILIndex(i) \notin ILIndices(i.args[1].v)
    \/ i.op = "GetDimLength" /\ i.args[2].v >= Len(Desc(i.args[1].v).lengths)

\* An element of a covariant array takes only what its own class allows.
ILMismatch(i) ==
    LET x == i.args[Len(i.args)]
    IN  \/ /\ i.op \in {"stelem", "Set"} /\ i.place.cor = "CLASS" /\ x.v # 0
           /\ Desc(i.args[1].v).class \notin Desc(x.v).supers
        \/ i.op = "ldelema" /\ i.place.cor = "CLASS" /\ Desc(i.args[1].v).class # layout.class

ILCast(i)     == i.op = "castclass" \/ (i.op = "unbox.any" /\ i.place.cor = "CLASS")
ILNullable(i) == i.op \in {"unbox", "unbox.any"} /\ i.place.cor = "VALUECLASS"
ILBadCast(i) ==
    \/ /\ i.op \in {"unbox", "unbox.any"} /\ i.place.cor # "CLASS" /\ i.args[1].v # 0
       /\ Desc(i.args[1].v).class # i.place.kind
    \/ ILCast(i) /\ i.args[1].v # 0 /\ i.place.kind \notin Desc(i.args[1].v).supers

ILException(i) ==
    IF \E p \in ILReferences(i) : p.v = 0 THEN "NullReference"
    ELSE IF ILOutOfRange(i) THEN "IndexOutOfRange"
    ELSE IF ILMismatch(i)   THEN "ArrayTypeMismatch"
    ELSE IF ILBadCast(i)    THEN "InvalidCast"
    ELSE "none"

\* The cell an instruction is about.  Elements stand in the lexicographic order
\* of their indices.
ILCell(i) ==
    CASE i.op \in {"ldvar", "ldvara", "stvar", "ldsfld", "stsfld"} \/ IsStatic(i.place) -> i.place.pos
      [] i.op \in {"ldfld", "ldflda", "stfld"} /\ ~IsStatic(i.place) ->
            i.args[1].v + i.place.pos + (IF i.place.kind = "based" THEN layout.base ELSE 0)
      [] i.op \in {"box", "unbox", "unbox.any"} /\ ~ILNullable(i) -> i.args[1].v + 1
      [] ILNullable(i) -> layout.temporary
      [] i.op \in Indexed ->
            LET Before(t, u) == \E k \in DOMAIN t : t[k] < u[k] /\ \A m \in 1 .. k - 1 : t[m] = u[m]
            IN  i.args[1].v + 1 + SizeOf(i.place.cor)
                    * Cardinality({t \in ILIndices(i.args[1].v) : Before(t, ILIndex(i))})
      [] OTHER -> i.args[1].v

ILConstant(i) == i.place.kind \in {"zero", "empty"}
ILNullableCells(i) == IF i.args[1].v = 0 THEN <<0, 0>> ELSE <<1, mem[i.args[1].v + 1]>>

Stores == {"stvar", "stfld", "stsfld", "stind", "stobj", "stelem", "Set", "box", "Xchg"}
Loads  == {"ldvar", "ldfld", "ldsfld", "ldind", "ldobj", "ldelem", "Get", "unbox.any", "strchar"}
Addresses == {"ldvara", "ldflda", "ldelema", "ldelema.readonly", "Address", "unbox"}

\* The memory afterwards.
ILMemory(i) ==
    LET from  == ILCell(i)
        cor   == i.place.cor
        n     == IF i.op \in {"cpblk", "initblk"} THEN i.args[3].v ELSE SizeOf(cor)
        x     == i.args[Len(i.args)]
        New(c) ==
            CASE i.op \in Stores /\ cor = "VALUECLASS" -> Unpack(x)[c - from + 1]
              [] i.op \in Stores /\ cor # "VALUECLASS" -> Held(x, cor)
              [] i.op \in {"cpobj", "cpblk"} -> mem[i.args[2].v + c - from]
              [] i.op = "initobj" -> 0
              [] i.op = "unbox" /\ ILNullable(i) -> ILNullableCells(i)[c - from + 1]
              [] i.op = "initblk" -> Held(i.args[2], cor)
              [] i.op = "XAdd"    -> (mem[c] + x.v) % Pow2[Bits("i32")]
              [] i.op = "CmpXchg" -> IF mem[c] = x.v THEN i.args[2].v ELSE mem[c]
              [] OTHER            -> mem[c]
    IN  [c \in Cells |-> IF c \in from .. from + n - 1 THEN New(c) ELSE mem[c]]

\* What is pushed.
ILValue(i) ==
    LET cor  == i.place.cor
        copy == i.op = "ldfld" /\ i.args[1].ty = "struct"
    IN  CASE copy -> Pushed(Unpack(i.args[1])[i.place.pos + 1], cor)
          [] i.place.kind = "zero"  -> Value("i64", 0)
          [] i.place.kind = "empty" ->
                Ref(CHOOSE p \in DOMAIN layout.objects :
                        Desc(p).class = "String" /\ Desc(p).lengths = <<0>>)
          [] i.op = "unbox.any" /\ ILNullable(i) -> Pack(ILNullableCells(i))
          [] i.op \in Loads /\ ~copy /\ ~ILConstant(i) /\ ~ILNullable(i) /\ ~ILCast(i) ->
                IF cor = "VALUECLASS"
                THEN Pack([k \in 1 .. SizeOf(cor) |-> mem[ILCell(i) + k - 1]])
                ELSE Pushed(mem[ILCell(i)], cor)
          [] i.op \in Addresses  -> Ref(ILCell(i))
          [] i.op \in {"XAdd", "Xchg", "CmpXchg"} -> Pushed(mem[ILCell(i)], cor)
          [] i.op \in {"box", "box.ref"} -> i.args[1]
          [] ILCast(i)           -> Ref(i.args[1].v)
          [] i.op = "isinst"     ->
                Ref(IF i.args[1].v # 0 /\ i.place.kind \in Desc(i.args[1].v).supers
                    THEN i.args[1].v ELSE 0)
          [] i.op = "ldlen"      -> Value("i64", Desc(i.args[1].v).lengths[1])
          [] i.op = "strlen"     -> Value("i32", Desc(i.args[1].v).lengths[1])
          [] i.op = "GetDimLength" ->
                Value(IF Len(Desc(i.args[1].v).lengths) = 1 THEN "i64" ELSE "i32",
                      Desc(i.args[1].v).lengths[i.args[2].v + 1])
          [] OTHER -> NoValue

----------------------------------------------------------------------------
(* Properties *)

\* Two outcomes that differ from what IL says; see the README.  A character is
\* read without a check of its index, and GetLength of a null vector with a bad
\* dimension reports the dimension.
UncheckedIndex(i)  == i.op = "strchar" /\ i.args[1].v # 0 /\ ILOutOfRange(i)
DimensionFirst(i)  == i.op = "GetDimLength" /\ i.args[1].v = 0

MayBeVolatile == {"ldfld", "stfld", "ldsfld", "stsfld", "ldind", "stind", "ldobj", "stobj",
                  "cpobj", "cpblk", "initblk"}

\* loadField, storeIndir, storeElem, mdArrayRefAddr, ...: every access raises the
\* exception IL names, the first one where several apply and before anything is
\* written; reads what IL says it reads, widened by the sign of the location;
\* and changes the named location, cut to its width, and no other.  A volatile.
\* prefix is about the instruction that follows its prefixes and no later one, and
\* reaches every load and store that honours it (readBytesForFlowGraphNodeHelper).
AccessesAsInIL ==
    [][ /\ last'.op \notin {"none", "volatile", "readonly"} /\ ~UncheckedIndex(last') /\ ~DimensionFirst(last') =>
             /\ last'.out.exc = ILException(last')
             /\ last'.out.exc = "none" => last'.out.val = ILValue(last') /\ mem' = ILMemory(last')
             /\ last'.out.exc # "none" => mem' = mem
        /\ last'.out.volatile => last.op \in {"volatile", "readonly"}
        /\ last.op = "volatile" /\ last'.op \in MayBeVolatile /\ last'.out.exc = "none"
              /\ (last'.op = "ldfld" => last'.args[1].ty # "struct") /\ ~ILConstant(last')
              => last'.out.volatile ]_vars

\* copyStruct, rdrCallWriteBarrierHelper, arraySet, storeStaticField: every
\* reference in the heap was put there through a write barrier, and a barrier
\* that does not look where it writes is only used on the heap.
BarriersKept ==
    /\ \A a \in GCCells \cap layout.heap : mem[a] # 0 => a \in known
    /\ \A n \in DOMAIN last.out.writes :
          last.out.writes[n].barrier = "unchecked" => last.out.writes[n].addr \in layout.heap
=============================================================================
