----------------------------- MODULE StackTypes -----------------------------
(***************************************************************************)
(* The types of locations and of the evaluation stack, and the conversions *)
(* between them (readerir.cpp): a value is widened when it is pushed and   *)
(* cut to the type of the location when it is stored.                      *)
(***************************************************************************)
EXTENDS LLVMOps

Integral == {"BOOL", "CHAR", "BYTE", "UBYTE", "SHORT", "USHORT", "INT", "UINT",
             "LONG", "ULONG", "NATIVEINT", "NATIVEUINT"}

\* The LLVM type of a location of a CorInfoType.
getType(cor) ==
    CASE cor \in {"BOOL", "BYTE", "UBYTE"}    -> "i8"
      [] cor \in {"CHAR", "SHORT", "USHORT"}  -> "i16"
      [] cor \in {"INT", "UINT"}              -> "i32"
      [] cor \in {"LONG", "ULONG", "NATIVEINT", "NATIVEUINT"} -> "i64"
      [] cor = "FLOAT" -> "r4" [] cor = "DOUBLE" -> "r8" [] cor = "PTR" -> "ptr"
      [] cor \in {"BYREF", "CLASS"} -> "gcptr"

stackSize(cor) ==
    IF cor \in {"LONG", "ULONG", "DOUBLE", "NATIVEINT", "NATIVEUINT", "PTR", "BYREF", "CLASS"}
    THEN 64 ELSE 32

\* GenIR::size.  CHAR and UBYTE are out of place in the source; only "smaller
\* than 32 bits" is ever used of the small ones.
size(cor) ==
    CASE cor \in {"BOOL", "CHAR", "BYTE"}     -> 8
      [] cor \in {"UBYTE", "SHORT", "USHORT"} -> 16
      [] cor \in {"INT", "UINT", "FLOAT"}     -> 32
      [] OTHER                                -> 64

isSigned(cor) == cor \in {"BYTE", "SHORT", "INT", "LONG", "NATIVEINT"}

getStackType(cor) == IF stackSize(cor) = 64 THEN "i64" ELSE "i32"

\* A value just loaded or converted, as it is pushed.
convertToStackType(a, cor) ==
    IF a.ty \in IntegerTypes /\ SizeInBits(a.ty) < stackSize(cor)
    THEN IntCast(a, getStackType(cor), isSigned(cor))
    ELSE a

\* A value popped, as it is stored to a location of type cor.
convertFromStackType(a, cor) ==
    LET bits == SizeInBits(a.ty)
    IN  CASE a.ty \in IntegerTypes /\ bits > size(cor) ->
                IntCast(a, getType(cor), isSigned(cor))
          [] a.ty \in IntegerTypes /\ bits < size(cor) ->
                IntCast(a, getType(cor), cor = "NATIVEINT")
          [] a.ty \in IntegerTypes /\ bits = size(cor) /\ cor \in {"PTR", "BYREF"} ->
                Value(getType(cor), a.v)
          [] a.ty \in FloatTypes /\ bits # size(cor) -> FPCast(a, getType(cor))
          [] a.ty \in PointerTypes -> Value(getType(cor), a.v)
          [] OTHER -> a

=============================================================================
