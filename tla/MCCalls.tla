------------------------------- MODULE MCCalls -------------------------------
(* Types of every class of the two calling conventions, and pairs of a method *)
(* and the method it calls, around each of the ways to make a call.            *)
EXTENDS Calls

Scalar(form, bytes, signed) == [form |-> form, bytes |-> bytes, signed |-> signed, eight |-> <<>>]
Eight(class, bytes, offset) == [class |-> class, bytes |-> bytes, offset |-> offset]
Struct(bytes, eight) == [form |-> "struct", bytes |-> bytes, signed |-> FALSE, eight |-> eight]

\* i, f and g: eightbytes of integers, of floats and of references.
MCTypeInfo ==
    [void  |-> Scalar("void", 0, FALSE),  u1 |-> Scalar("int", 1, FALSE),
     i2    |-> Scalar("int", 2, TRUE),    i4 |-> Scalar("int", 4, TRUE),
     i8    |-> Scalar("int", 8, TRUE),    f8 |-> Scalar("fp", 8, TRUE),
     ref   |-> Scalar("ptr", 8, FALSE),   byref |-> Scalar("ptr", 8, FALSE),
     S3    |-> Struct(3, <<Eight("Integer", 3, 0)>>),
     S8    |-> Struct(8, <<Eight("Integer", 8, 0)>>),
     S12if |-> Struct(12, <<Eight("Integer", 8, 0), Eight("SSE", 4, 8)>>),
     S16ii |-> Struct(16, <<Eight("Integer", 8, 0), Eight("Integer", 8, 8)>>),
     S16ff |-> Struct(16, <<Eight("SSE", 8, 0), Eight("SSE", 8, 8)>>),
     S16gi |-> Struct(16, <<Eight("IntegerReference", 8, 0), Eight("Integer", 8, 8)>>),
     S24   |-> Struct(24, <<>>),
     V32   |-> [form |-> "vector", bytes |-> 32, signed |-> FALSE, eight |-> <<>>]]

MCArgNames == <<"a", "b", "c", "d", "e", "f_", "h", "k", "m">>

\* Both systems; ReadyToRun and jitted code, the latter without optimization too.
MCEnvs == {e \in [windows : BOOLEAN, r2r : BOOLEAN, optimize : BOOLEAN, tailOpt : BOOLEAN] :
              e.optimize = e.tailOpt /\ (e.r2r => e.optimize)}

Method(name, params, result) ==
    [name |-> name, this |-> "none", secret |-> FALSE, typeArg |-> "none", conv |-> "DEFAULT",
     params |-> params, result |-> result, class |-> "plain", ctor |-> FALSE, virtual |-> FALSE,
     shared |-> FALSE, constraint |-> "none", indirect |-> FALSE, jmp |-> FALSE,
     structType |-> "S24", synch |-> FALSE, security |-> FALSE, localloc |-> FALSE,
     addressTaken |-> FALSE, unsafeArg |-> FALSE]

Main == Method("main", <<>>, "void")

\* Signatures at the edges of both conventions: integer and float registers that run
\* out in the middle of a struct, small integers, buffers for results.
Mixed(name)  == Method(name, <<"u1", "S12if", "i2", "S16ii", "S16gi", "S8", "i4">>, "S16gi")
Floats(name) == Method(name, <<"f8", "S16ff", "S12if", "S16ff", "f8", "S16ff", "f8", "u1">>, "S12if")
Buffers(name) == Method(name, <<"S24", "i2", "S3", "i8", "S16ii", "S24">>, "S24")
Signatures == {Mixed("x"), Floats("x"), Buffers("x"), Method("x", <<"i2">>, "u1"),
               Method("x", <<>>, "S3")}

WithThis(m) == [m EXCEPT !.this = "ref"]
Generic(m)  == [m EXCEPT !.typeArg = "method"]
Calling(m)  == <<Main, m>>

Direct     == {Calling([v EXCEPT !.indirect = v.typeArg = "none"]) :
                 v \in UNION {{s, WithThis(s), Generic(s), Generic(WithThis(s))} : s \in Signatures}}
Shared     == {Calling([m EXCEPT !.shared = TRUE]) : m \in {Mixed("x"), WithThis(Mixed("x"))}}
Vectors    == {Calling(Method("x", <<"i4", "V32", "i8">>, "V32")),
               <<Method("main", <<"V32", "u1">>, "void"), Method("x", <<>>, "void")>>}

Jumps      == {<<[s EXCEPT !.name = "main", !.typeArg = IF @ = "none" THEN "none" ELSE "class"],
                 [s EXCEPT !.jmp = TRUE]>> :
                 s \in UNION {{s, WithThis(s), Generic(s)} : s \in Signatures}}
                \cup {<<[s EXCEPT !.name = "main", !.secret = TRUE], [s EXCEPT !.jmp = TRUE]>> :
                        s \in {WithThis(Method("x", <<"S24", "i2", "S3", "S12if">>, "u1")),
                              Method("x", <<"i2", "S24">>, "u1"), Mixed("x"), WithThis(Buffers("x")),
                              Method("x", <<"i8", "S16ii", "i8", "S16ii">>, "u1")}}
                \cup {<<Main, [Method("x", <<"i4">>, "void") EXCEPT !.jmp = TRUE]>>}
Virtual    == {Calling([WithThis(s) EXCEPT !.virtual = TRUE]) : s \in {Mixed("x"), Buffers("x")}}
                \cup {Calling([WithThis(Generic(Buffers("x"))) EXCEPT !.virtual = TRUE])}
Constrained == {Calling([WithThis(Method("x", <<"u1">>, "S24")) EXCEPT
                           !.virtual = TRUE, !.constraint = c]) : c \in {"ref", "value", "boxed"}}
ArrayAddress == {Calling([WithThis(Method("x", <<"i4">>, "byref")) EXCEPT
                           !.typeArg = "class", !.class = "array"])}
Delegates  == {Calling([WithThis(Method("x", <<"ref", "i8">>, "void")) EXCEPT
                           !.class = "delegate", !.ctor = TRUE]),
               Calling([WithThis(Buffers("x")) EXCEPT !.class = "invoke", !.virtual = TRUE])}
NewObjects == {Calling([WithThis(Method("x", <<"u1", "S24">>, "void")) EXCEPT
                           !.class = c, !.ctor = TRUE, !.this = IF c = "value" THEN "byref" ELSE "ref"]) :
                  c \in {"plain", "value", "varsize"}}
                \cup {Calling([WithThis(Method("x", <<"i4", "i4">>, "void")) EXCEPT
                           !.class = "array", !.ctor = TRUE])}
Unmanaged  == {<<[s EXCEPT !.name = "main", !.secret = b],
                 [s EXCEPT !.conv = "STDCALL", !.indirect = TRUE]>> :
                  b \in BOOLEAN, s \in {Method("x", <<"i2", "S8">>, "u1"), Method("x", <<"f8">>, "void")}}
Results    == {Method("x", <<"u1">>, "S24"), Method("x", <<"S24">>, "i2"), Method("x", <<"S8">>, "i4")}
Tails      == {<<[r EXCEPT !.name = "main", ![flag] = TRUE], [r EXCEPT !.indirect = TRUE]>> :
                  r \in Results, flag \in {"synch", "security", "localloc", "addressTaken", "unsafeArg"}}
                \cup {<<[r EXCEPT !.name = "main"], r>> : r \in Results}
                \cup {<<Main, r>> : r \in Results}
Recursion  == {<<[r EXCEPT !.name = "main"], [r EXCEPT !.name = "main"]>> : r \in Results}
Locked     == {<<[Main EXCEPT !.synch = TRUE, !.this = t], Method("x", <<>>, "void")>> :
                  t \in {"none", "ref"}}
                \cup {<<[Main EXCEPT !.synch = TRUE, !.typeArg = t], Method("x", <<>>, "void")>> :
                  t \in {"class", "method"}}

MCPairs == UNION {Direct, Shared, Vectors, Jumps, Virtual, Constrained, ArrayAddress, Delegates,
                  NewObjects, Unmanaged, Tails, Recursion, Locked}

=============================================================================
