---------------------------- MODULE MCArithmetic ----------------------------
(* Arithmetic on integers of two to five bits and numbers up to 32. *)
EXTENDS Arithmetic, TLC

MCWidth     == (8 :> 2) @@ (16 :> 3) @@ (32 :> 4) @@ (64 :> 5)

\* In halves: the bounds of every integer type, and a half beyond them.
MCFloatRep  == {-32, -16, -8, -2, 0, 2, 6, 14, 30, 64}
MCDoubleRep == MCFloatRep \cup {-34, -33, -17, -9, -5, -3, -1, 1, 3, 7, 15, 31, 62, 63}

MCConstants ==
    {Value("i32", x) : x \in 0 .. 15} \cup {Value("i64", x) : x \in 0 .. 31}
        \cup {Value("r4", x) : x \in {-32, 0, 6, 14, 64, Inf}}
        \cup {Value("r8", x) : x \in {-34, -33, -17, -9, -3, 1, 7, 15, 31, 63, NaN}}
        \cup [ty : {"ptr", "gcptr"}, v : {0, 12}]

=============================================================================
