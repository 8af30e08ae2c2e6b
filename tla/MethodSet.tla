----------------------------- MODULE MethodSet ------------------------------
(***************************************************************************)
(* The lazily initialised method sets (class MethodSet, lib/Jit/utility.h  *)
(* and .cpp) as the constructor of JitOptions (lib/Jit/jitoptions.cpp)     *)
(* queries them, from several threads that compile methods concurrently.   *)
(*                                                                         *)
(* The sets are static.  A thread that finds a set without a list parses   *)
(* the configuration string into a list of its own and tries to be first:  *)
(* the flag Initialized is swapped from 0 to 1 atomically, but the pointer *)
(* MethodIDList, the one isInitialized() looks at, is stored afterwards.   *)
(* A list is known by the thread that made it.                             *)
(***************************************************************************)
EXTENDS MethodID, FiniteSets

CONSTANTS
  Threads,    \* threads the runtime compiles on
  AltJitSets, \* the sets the flags of a request may choose: "AltJit", "AltJitNgen"
  Queries     \* the sets queried after the AltJit one, in order

VARIABLES
  config,       \* the configuration string of the sets, which none has read yet
  Initialized,  \* set -> 0 or 1
  MethodIDList, \* set -> the thread whose list is published, or "null"
  lists,        \* set -> thread -> "none", "live" or "deleted"
  MIdList,      \* set -> thread -> the patterns of its list
  I,            \* thread -> the index of the next character it parses
  pc,           \* thread -> where in queryMethodSet it is
  query,        \* thread -> the sets it has still to query, the current one first
  aborted       \* an assertion failed or an exception escaped: the process is gone

vars == <<config, Initialized, MethodIDList, lists, MIdList, I, pc, query, aborted>>
parseVars == <<config, MIdList, I>>

Sets == AltJitSets \union {Queries[i] : i \in 1 .. Len(Queries)}

ASSUME ThreadsAssumption == "null" \notin Threads
ASSUME AltJitAssumption == AltJitSets \subseteq {"AltJit", "AltJitNgen"} /\ AltJitSets # {}
ASSUME QueriesAssumption == Queries \in Seq(STRING)

\* Every set is configured with the same string.
Init ==
  /\ config \in Configs
  /\ Initialized = [s \in Sets |-> 0]
  /\ MethodIDList = [s \in Sets |-> "null"]
  /\ lists = [s \in Sets |-> [t \in Threads |-> "none"]]
  /\ MIdList = [s \in Sets |-> [t \in Threads |-> <<>>]]
  /\ I = [t \in Threads |-> 1]
  /\ pc = [t \in Threads |-> "idle"]
  /\ query = [t \in Threads |-> <<>>]
  /\ aborted = FALSE

isInitialized(s) == MethodIDList[s] # "null"

-----------------------------------------------------------------------------
(* The constructor of JitOptions starts: the AltJit set depends on the flags. *)
JitOptions(t) ==
  /\ ~aborted
  /\ pc[t] = "idle"
  /\ \E altJit \in AltJitSets : query' = [query EXCEPT ![t] = <<altJit>> \o Queries]
  /\ pc' = [pc EXCEPT ![t] = "query"]
  /\ UNCHANGED <<parseVars, Initialized, MethodIDList, lists, aborted>>

(* queryMethodSet and queryIsAltJit: fetch the configuration if there is no list *)
queryMethodSet(t) ==
  /\ ~aborted
  /\ pc[t] = "query"
  /\ pc' = [pc EXCEPT ![t] = IF isInitialized(Head(query[t])) THEN "contains" ELSE "init"]
  /\ UNCHANGED <<parseVars, Initialized, MethodIDList, lists, query, aborted>>

(* MethodSet::init, and insert up to its loop: a new list *)
init(t) ==
  LET s == Head(query[t])
  IN  /\ ~aborted
      /\ pc[t] = "init"
      /\ IF isInitialized(s)
         THEN /\ pc' = [pc EXCEPT ![t] = "contains"]
              /\ UNCHANGED <<lists, I>>
         ELSE /\ lists' = [lists EXCEPT ![s][t] = "live"]
              /\ I' = [I EXCEPT ![t] = 1]
              /\ pc' = [pc EXCEPT ![t] = "insert"]
      /\ UNCHANGED <<config, Initialized, MethodIDList, MIdList, query, aborted>>

\* MethodID::parse at every index of every string
Parses == [c \in Configs |-> [i \in 1 .. Len(c.S) + 1 |-> parse(c.S, i)]]

(* insert's loop: parse until there is no pattern left.  What scan throws nobody
   catches. *)
insert(t) ==
  LET s == Head(query[t])
  IN  /\ ~aborted
      /\ pc[t] = "insert"
      /\ \E r \in {Parses[config][I[t]]} :
           /\ I' = [I EXCEPT ![t] = IF r.ok THEN r.I ELSE 1]
           /\ MIdList' = IF r.ok THEN [MIdList EXCEPT ![s][t] = Append(@, r.MId)] ELSE MIdList
           /\ pc' = [pc EXCEPT ![t] = IF r.ok THEN "insert" ELSE "swap"]
           /\ aborted' = r.throws
      /\ UNCHANGED <<config, Initialized, MethodIDList, lists, query>>

(* Mistake: a thread that is not first waits for the flag to be cleared. *)
CompareAndSwap_Waits(t) ==
  LET s == Head(query[t])
  IN  /\ ~aborted
      /\ pc[t] = "swap"
      /\ Initialized[s] = 0
      /\ Initialized' = [Initialized EXCEPT ![s] = 1]
      /\ pc' = [pc EXCEPT ![t] = "store"]
      /\ UNCHANGED <<parseVars, MethodIDList, lists, query, aborted>>

(* Mistake: a list that came second is not deleted. *)
CompareAndSwap_Leaks(t) ==
  LET s == Head(query[t])
  IN  /\ ~aborted
      /\ pc[t] = "swap"
      /\ Initialized' = [Initialized EXCEPT ![s] = 1]
      /\ pc' = [pc EXCEPT ![t] = IF Initialized[s] = 0 THEN "store" ELSE "contains"]
      /\ UNCHANGED <<parseVars, MethodIDList, lists, query, aborted>>

(* insert: the swap of Initialized; a thread that was not first deletes its list *)
CompareAndSwap(t) ==
  LET s == Head(query[t])
  IN  /\ ~aborted
      /\ pc[t] = "swap"
      /\ IF Initialized[s] = 0
         THEN /\ Initialized' = [Initialized EXCEPT ![s] = 1]
              /\ pc' = [pc EXCEPT ![t] = "store"]
              /\ UNCHANGED lists
         ELSE /\ lists' = [lists EXCEPT ![s][t] = "deleted"]
              /\ pc' = [pc EXCEPT ![t] = "contains"]
              /\ UNCHANGED Initialized
      /\ UNCHANGED <<parseVars, MethodIDList, query, aborted>>

(* insert: the list of the first is published, by a store of its own *)
store(t) ==
  LET s == Head(query[t])
  IN  /\ ~aborted
      /\ pc[t] = "store"
      /\ MethodIDList' = [MethodIDList EXCEPT ![s] = t]
      /\ pc' = [pc EXCEPT ![t] = "contains"]
      /\ UNCHANGED <<parseVars, Initialized, lists, query, aborted>>

(* MethodSet::contains: asserts that the list is there, searches it, and the
   constructor goes on to its next query. *)
contains(t) ==
  /\ ~aborted
  /\ pc[t] = "contains"
  /\ aborted' = ~isInitialized(Head(query[t]))
  /\ query' = [query EXCEPT ![t] = Tail(query[t])]
  /\ pc' = [pc EXCEPT ![t] = IF query'[t] = <<>> THEN "idle" ELSE "query"]
  /\ UNCHANGED <<parseVars, Initialized, MethodIDList, lists>>

Step(t) == \/ queryMethodSet(t) \/ init(t) \/ insert(t) \/ CompareAndSwap(t) \/ store(t) \/ contains(t)
Next == \E t \in Threads : JitOptions(t) \/ Step(t)

\* A thread that runs queryMethodSet is not blocked by anything.
Spec == Init /\ [][Next]_vars /\ \A t \in Threads : WF_vars(Step(t))

-----------------------------------------------------------------------------
(* The list contains() walks through is alive, and once no thread is inside init
   it is the only list of its set: the ones that came second are deleted. *)
OneListSurvives ==
  \A s \in Sets :
    /\ isInitialized(s) => lists[s][MethodIDList[s]] = "live"
    /\ (\A t \in Threads : ~(pc[t] \in {"insert", "swap", "store"} /\ Head(query[t]) = s)) =>
         {t \in Threads : lists[s][t] = "live"} = {MethodIDList[s]} \ {"null"}

(* A set whose flag is swapped is published, and every constructor gets through
   its queries, unless the process is gone. *)
QueriesEnd == \A t \in Threads : pc[t] # "idle" ~> (pc[t] = "idle" \/ aborted)

\* Exception: a string that ends in a blank.  scan skips to npos there and throws,
\* although the comment on MethodID::parse gives such a string as an example.
TrailingBlank(c) == c.S[Len(c.S)] = Blank

(* A set that is initialised selects exactly the methods that the patterns of its
   configuration, read as their documentation says, stand for: whichever thread
   made the list.  The parser throws on no string but those of TrailingBlank, and
   on these not before it has found every pattern. *)
SelectsWhatIsWritten ==
  \A s \in Sets :
    /\ isInitialized(s) =>
         \A m \in Methods : Selects(MIdList[s][MethodIDList[s]], m) <=>
           \E k \in 1 .. Len(config.written) : m \in DenotesWithArgs(config.written[k])
    /\ \A t \in Threads :
         pc[t] = "insert" /\ Head(query[t]) = s /\ Parses[config][I[t]].throws =>
           TrailingBlank(config) /\ Len(MIdList[s][t]) = Len(config.written)

(* contains() opens with assert(this->isInitialized()), and the comment in insert
   wants the flag and the list to be written as one. *)
ContainsInitialized ==
  \A t \in Threads : pc[t] = "contains" => isInitialized(Head(query[t]))
=============================================================================
