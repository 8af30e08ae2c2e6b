------------------------------ MODULE MethodID ------------------------------
(***************************************************************************)
(* The method patterns of the AltJit configuration strings (class MethodID *)
(* and the matching of MethodSet::contains, lib/Jit/utility.cpp).  A string *)
(* is a sequence of characters; a name is one letter.  MethodSet runs the  *)
(* parser on the threads that initialise a set.                            *)
(*                                                                         *)
(* The strings enumerated are the ones that the comment in utility.h calls *)
(* patterns separated by one or more spaces; a tab may come before one.    *)
(***************************************************************************)
EXTENDS Integers, Sequences, SequencesExt

CONSTANTS
  Names,         \* one-letter class and method names
  Digits,        \* one-digit argument counts: a function Digits -> Nat
  MaxPatterns,   \* bound on the patterns of a string
  MaxTrailing    \* bound on the blanks after the last pattern

None == "none"
AnyArgs == -1
Blank == " "
Tab == "tab"
Delimiters == {Blank, ":", "(", ")"}
CountOf(c) == CHOOSE n \in {d.n : d \in {x \in Digits : x.c = c}} : TRUE

Patterns == [ClassName : Names \union {None}, MethodName : Names,
             NumArgs : {AnyArgs, 0} \union {d.n : d \in Digits}]
            \union {[ClassName |-> "*", MethodName |-> None, NumArgs |-> AnyArgs]}

\* The text of a pattern, as the comment on MethodID::parse describes it.
Text(p) ==
  IF p.ClassName = "*" THEN <<"*">>
  ELSE (IF p.ClassName = None THEN <<>> ELSE <<p.ClassName, ":">>)
       \o <<p.MethodName>>
       \o (IF p.NumArgs = AnyArgs THEN <<>>
           ELSE <<"(">> \o SetToSeq({d.c : d \in {x \in Digits : x.n = p.NumArgs}}) \o <<")">>)

Blanks(n) == [i \in 1 .. n |-> Blank]

\* Patterns with what leads each of them, a blank between them, then the trailing
\* blanks.
Config(ps, lead, trail) ==
  LET spaced == FoldLeft(LAMBDA text, p : text \o lead \o Text(p) \o <<Blank>>,
                         <<>>, ps)
  IN  SubSeq(spaced, 1, Len(spaced) - 1) \o Blanks(trail)

\* The configurations: a string, and the patterns it was written from.
Configs ==
  UNION {{[written |-> ps, S |-> Config(ps, lead, trail)] :
            lead \in {<<>>, <<Blank>>, <<Tab>>}, trail \in 0 .. MaxTrailing} :
         ps \in UNION {[1 .. n -> Patterns] : n \in 1 .. MaxPatterns}}

-----------------------------------------------------------------------------
npos == 1000    \* std::string::npos: past the end of every string

\* find_first_of and find_first_not_of: the first index from i on in P, or npos
FirstIn(s, i, P) ==
  LET found == {k \in i .. Len(s) : s[k] \in P}
  IN  IF found = {} THEN npos ELSE Min(found)
FirstNotIn(s, i, P) == FirstIn(s, i, {s[k] : k \in 1 .. Len(s)} \ P)

\* S[I], which is the terminating null at the end of the string
CharAt(s, i) == IF i <= Len(s) THEN s[i] ELSE "nul"

(* MethodID::scan: skip blanks, then the token up to the next delimiter.  The
   token's constructor throws when only blanks were left. *)
scan(s, i) ==
  LET start == FirstNotIn(s, i, {Blank, Tab})
      end == IF start = npos THEN npos ELSE FirstIn(s, start, Delimiters)
      past == IF end = npos THEN Len(s) + 1 ELSE end
  IN  IF i > Len(s) THEN [Token |-> <<>>, I |-> i, throws |-> FALSE]
      ELSE IF start = npos THEN [Token |-> <<>>, I |-> past, throws |-> TRUE]
      ELSE [Token |-> SubSeq(s, start, past - 1), I |-> past, throws |-> FALSE]

(* MethodID::parseArgs, from the '(' at i; atoi of no digits is 0 *)
parseArgs(s, i) ==
  LET close == FirstIn(s, i + 1, {")"})
      num == SubSeq(s, i + 1, close - 1)
  IN  IF close = npos THEN [NumArgs |-> AnyArgs, I |-> npos]
      ELSE [NumArgs |-> IF num = <<>> THEN 0 ELSE CountOf(num[1]), I |-> close + 1]

\* A name of the letters of a token: after "C:" it may be empty.
Name(token) == IF token = <<>> THEN "" ELSE token[1]
Parsed(ok, throws, class, method, n, i) ==
  [ok |-> ok, throws |-> throws, I |-> i,
   MId |-> [ClassName |-> class, MethodName |-> method, NumArgs |-> n]]

(* MethodID::parse: the next pattern, if there is one *)
parse(s, i) ==
  LET first == scan(s, i)
      hasClass == CharAt(s, first.I) = ":"
      second == IF hasClass THEN scan(s, first.I + 1) ELSE first
      class == IF hasClass THEN Name(first.Token) ELSE None
      method == Name(second.Token)
      args == parseArgs(s, second.I)
  IN  IF first.throws THEN Parsed(FALSE, TRUE, None, None, AnyArgs, first.I)
      ELSE IF first.Token = <<>> THEN Parsed(FALSE, FALSE, None, None, AnyArgs, first.I)
      ELSE IF first.Token = <<"*">> THEN Parsed(TRUE, FALSE, "*", None, AnyArgs, first.I)
      ELSE IF second.throws THEN Parsed(FALSE, TRUE, class, None, AnyArgs, second.I)
      ELSE IF CharAt(s, second.I) \in {"nul", Blank}
           THEN Parsed(TRUE, FALSE, class, method, AnyArgs, second.I)
      ELSE IF CharAt(s, second.I) # "("
           THEN Parsed(FALSE, FALSE, class, method, AnyArgs, second.I)
      ELSE Parsed(TRUE, FALSE, class, method, args.NumArgs, args.I)

-----------------------------------------------------------------------------
(* MethodSet::contains: does pattern P match method m?  Mistake: the number of
   arguments is not compared. *)
matches_AnyCount(P, m) ==
  \/ P.ClassName = "*"
  \/ /\ P.MethodName \in {None, m.MethodName}
     /\ P.ClassName \in {None, m.ClassName}
matches(P, m) ==
  \/ P.ClassName = "*"
  \/ /\ P.NumArgs \in {AnyArgs, m.NumArgs}
     /\ P.MethodName \in {None, m.MethodName}
     /\ P.ClassName \in {None, m.ClassName}
Selects(list, m) == \E k \in 1 .. Len(list) : matches(list[k], m)

\* The methods a pattern stands for, by the comment on MethodID::parse: "*" any
\* method, M the methods of that name, C:M those of that class, (n) those with n
\* arguments.
Methods == [ClassName : Names, MethodName : Names, NumArgs : 0 .. 2]
Denotes(p) ==
  CASE p.ClassName = "*" -> Methods
    [] p.ClassName = None -> {m \in Methods : m.MethodName = p.MethodName}
    [] OTHER -> {m \in Methods : /\ m.MethodName = p.MethodName
                                 /\ m.ClassName = p.ClassName}
DenotesWithArgs(p) ==
  {m \in Denotes(p) : p.NumArgs # AnyArgs => m.NumArgs = p.NumArgs}

=============================================================================
