------------------------------ MODULE MCObjects ------------------------------
(* Nine small memories: an object with fields, structs with references, bytes *)
(* and a string, covariant vectors, two grids and boxes.                       *)
EXTENDS Objects

MCWidth    == (8 :> 1) @@ (16 :> 2) @@ (32 :> 3) @@ (64 :> 4)
MCRep      == {0}
MCStored32 == {Value("i32", x) : x \in {0, 1, 5}}

Plain(cor)    == [cor |-> cor, init |-> [a \in DOMAIN cor |-> 0], heap |-> {}, objects |-> << >>,
                  struct |-> <<>>, structs |-> {}, places |-> {}, types |-> {}, elem |-> "none",
                  class |-> "C", final |-> FALSE, classes |-> {}, base |-> 0, temporary |-> 0]
Object(c, up) == [class |-> c, supers |-> up, elem |-> "none", lengths |-> <<>>, bounds |-> <<>>, box |-> FALSE]
Array(c, e, lengths, bounds) ==
    [Object(c, {}) EXCEPT !.elem = e, !.lengths = lengths, !.bounds = bounds]
Place(kind, cor, pos) == [kind |-> kind, cor |-> cor, pos |-> pos]

WithFields ==
    [Plain(<<"UBYTE", "CLASS", "HEADER", "BYTE", "CLASS", "CLASS">>) EXCEPT
        !.heap = 3 .. 6, !.objects = (3 :> Object("Object", {"Object"})),
        !.places = {Place("local", "UBYTE", 1), Place("arg", "CLASS", 2), Place("field", "BYTE", 1),
                    Place("field", "CLASS", 2), Place("static", "CLASS", 6), Place("based", "BYTE", 0),
                    Place("based", "CLASS", 1), Place("helper", "BYTE", 1), Place("helper", "CLASS", 2)},
        !.base = 1,
        !.types = {"BYTE", "CLASS"}]

\* A vector of one struct, a local, an argument passed by reference to the heap,
\* and a static.
S == <<"INT", "CLASS", "INT", "CLASS", "INT">>
WithStructs ==
    [Plain(<<"HEADER">> \o S \o S \o S) EXCEPT
        !.heap = 1 .. 6 \cup 12 .. 16,
        !.objects = (1 :> Array("S", "VALUECLASS", <<1>>, <<0>>)),
        !.struct = S, !.structs = {2, 7, 12}, !.elem = "VALUECLASS",
        !.places = {Place("local", "VALUECLASS", 7), Place("indirect", "VALUECLASS", 12)},
        !.types = {"VALUECLASS"}]

\* One struct in an object, changed field by field.
WithMembers ==
    [Plain(<<"HEADER", "BYTE", "CLASS", "CLASS">>) EXCEPT
        !.heap = 1 .. 3, !.objects = (1 :> Object("Object", {"Object"})),
        !.struct = <<"BYTE", "CLASS">>, !.structs = {2},
        !.places = {Place("member", "BYTE", 0), Place("member", "CLASS", 1), Place("field", "VALUECLASS", 1),
                    Place("local", "CLASS", 4)}]

WithBytes ==
    [Plain(<<"HEADER", "BYTE", "BYTE", "HEADER", "CHAR", "INT", "HEADER">>) EXCEPT
        !.heap = {1, 2, 3, 4, 5, 7}, !.init = <<0, 1, 0, 0, 3, 0, 0>>,
        !.objects = (1 :> Array("byte", "BYTE", <<2>>, <<0>>)) @@ (4 :> Array("String", "none", <<1>>, <<0>>))
                        @@ (7 :> Array("String", "none", <<0>>, <<0>>)),
        !.places = {Place("local", "INT", 6), Place("zero", "NATIVEINT", 0), Place("empty", "CLASS", 7)}, !.types = {"BYTE", "INT"}, !.elem = "BYTE"]

\* A C[] and a D[] that a variable of type C[] may hold.
WithVectors ==
    [Plain(<<"HEADER", "CLASS", "HEADER", "CLASS", "HEADER", "HEADER">>) EXCEPT
        !.heap = 1 .. 6,
        !.objects = (1 :> Array("C", "CLASS", <<1>>, <<0>>)) @@ (3 :> Array("D", "CLASS", <<1>>, <<0>>))
                        @@ (5 :> Object("C", {"C"})) @@ (6 :> Object("D", {"C", "D"})),
        !.elem = "CLASS", !.classes = {"C", "D"}]

WithGrid ==
    [Plain(<<"HEADER", "BYTE", "BYTE", "BYTE", "BYTE">>) EXCEPT
        !.heap = 1 .. 5, !.elem = "BYTE",
        !.objects = (1 :> Array("byte", "BYTE", <<2, 2>>, <<7, 2>>))]

\* A D[,] that a variable of type C[,] may hold.
WithRefs(final) ==
    [Plain(<<"HEADER", "CLASS", "CLASS", "HEADER", "HEADER">>) EXCEPT
        !.heap = 1 .. 5, !.elem = "CLASS", !.final = final, !.class = IF final THEN "D" ELSE "C",
        !.objects = (1 :> Array("D", "CLASS", <<1, 2>>, <<0, 0>>)) @@ (5 :> Object("D", {"C", "D"}))
                        @@ (IF final THEN << >> ELSE (4 :> Object("C", {"C"})))]

WithBoxes ==
    [Plain(<<"CLASS", "HEADER", "SHORT", "HEADER", "USHORT", "BYTE", "SHORT">>) EXCEPT
        !.struct = <<"BYTE", "SHORT">>, !.temporary = 6, !.heap = 2 .. 5, !.places = {Place("local", "CLASS", 1)}, !.classes = {"Short", "object"},
        !.objects = (2 :> [Array("Short", "SHORT", <<>>, <<>>) EXCEPT !.box = TRUE, !.supers = {"Short", "object"}])
            @@ (4 :> [Array("UShort", "USHORT", <<>>, <<>>) EXCEPT !.box = TRUE, !.supers = {"UShort", "object"}])]

MCLayouts == {WithFields, WithStructs, WithMembers, WithBytes, WithVectors, WithGrid, WithRefs(TRUE), WithRefs(FALSE), WithBoxes}

=============================================================================
