---------------------------- MODULE MCMethodSet -----------------------------
(* Instances of MethodSet for TLC. *)
EXTENDS MethodSet

MCDigits == {[c |-> "1", n |-> 1]}
MCQueries == <<>>
MCRaceQueries == <<"AltJitExclude", "AltJitBreakAtJitStart">>
=============================================================================
