------------------------------ MODULE LLILCJit ------------------------------
(***************************************************************************)
(* The jit's entry point, LLILCJit::compileMethod (lib/Jit/LLILCJit.cpp),  *)
(* with the contexts and the type caches it keeps per thread.              *)
(*                                                                         *)
(* Threads share nothing but the method sets (module MethodSet), so one    *)
(* thread is modelled.  What it does share state with is itself: while a   *)
(* method is being read the runtime may run managed code on this thread,   *)
(* which compiles a method in turn, and what one method caches is found by *)
(* the next.  A context is a stack-allocated C++ object; the stack of      *)
(* contexts is the list linked through Next.                               *)
(***************************************************************************)
EXTENDS Integers, Sequences

CONSTANTS
  Classes,      \* class handles a method may ask the type of
  MaxRequests   \* bound on the compilations of the thread

ASSUME RequestsAssumption == MaxRequests \in Nat

VARIABLES
  readyToRun,   \* the process is crossgen: every request has CORJIT_FLG_READYTORUN
  contexts,     \* the contexts of the requests under way, the innermost first
  requests,     \* the number of requests so far; names the contexts
  ClassTypeMap, \* the classes with a cached type (and its three companion maps)
  laidOut,      \* those whose cached type has its fields: the others are opaque
  owned,        \* <<context, object>>: the heap objects not deleted
  returned,     \* what was answered: a set of records
  failedRead    \* history: some method read on this thread was given up

vars == <<readyToRun, contexts, requests, ClassTypeMap, laidOut, owned, returned, failedRead>>
caches == <<ClassTypeMap, laidOut>>

Context == Head(contexts)
SetContext(c) == contexts' = <<c>> \o Tail(contexts)
Goto(pc) == SetContext([Context EXCEPT !.pc = pc])
At(pc) == Len(contexts) > 0 /\ Context.pc = pc

Init ==
  /\ readyToRun \in BOOLEAN
  /\ contexts = <<>>
  /\ requests = 0
  /\ ClassTypeMap = {}
  /\ laidOut = {}
  /\ owned = {}
  /\ returned = {}
  /\ failedRead = FALSE

-----------------------------------------------------------------------------
\* The context of a new request.
newContext(import, loadedBitCode, garbage) ==
  [id |-> requests + 1, pc |-> "options", importOnly |-> import,
   HasLoadedBitCode |-> loadedBitCode, HasMethod |-> FALSE,
   ContainsUnmanagedCall |-> garbage, unmanaged |-> FALSE,
   used |-> {}, recorded |-> {}]

(* LLILCJitContext's constructor *)
push(c) == contexts' = <<c>> \o contexts

\* A request comes from the top level, or from within the reading of another
\* method.  crossgen runs no managed code.
MayStart == contexts = <<>> \/ (At("reading") /\ ~readyToRun)

\* The answer to a request, with what is known of the method.
answer(id, exit, result, entry, rewritten, method) ==
  [id |-> id, exit |-> exit, result |-> result, entry |-> entry, rewritten |-> rewritten,
   unmanaged |-> method.unmanaged, loadedBitCode |-> method.HasLoadedBitCode,
   unrecorded |-> method.used \ method.recorded]
NoMethod == [unmanaged |-> FALSE, HasLoadedBitCode |-> FALSE, used |-> {}, recorded |-> {}]

(* compileMethod up to the options.  The module may come from a bitcode file (getModuleForMethod).  ContainsUnmanagedCall is
   declared without a value: it has whatever the stack held. *)
compileMethod(import, loadedBitCode, garbage) ==
  /\ requests < MaxRequests
  /\ MayStart
  /\ requests' = requests + 1
  /\ push(newContext(import, loadedBitCode, garbage))
  /\ owned' = owned \union {<<requests', "ABIInfo">>, <<requests', "GcInfo">>}
  /\ UNCHANGED <<readyToRun, caches, returned, failedRead>>

(* compileMethod with a null argument: declined before there is a context. *)
malformedRequest ==
  /\ requests < MaxRequests
  /\ MayStart
  /\ requests' = requests + 1
  /\ returned' = returned \union {answer(requests', "malformed", "CORJIT_INTERNALERROR",
                                         FALSE, FALSE, NoMethod)}
  /\ UNCHANGED <<readyToRun, contexts, caches, owned, failedRead>>

(* Return from compileMethod at one of its four exits: the context is destroyed,
   the answer is given. *)
Return(exit, result, entry, rewritten) ==
  /\ contexts' = Tail(contexts)
  /\ returned' = returned \union {answer(Context.id, exit, result, entry, rewritten, Context)}

(* The method is not for this jit: clean up and decline. *)
skipMethod ==
  /\ At("options")
  /\ owned' = {o \in owned : o[1] # Context.id}
  /\ Return("end", "CORJIT_INTERNALERROR", FALSE, FALSE)
  /\ UNCHANGED <<readyToRun, requests, caches, failedRead>>

(* The method is jitted: the target is looked up and a target machine is made. *)
lookupTarget ==
  /\ At("options")
  /\ \/ /\ Return("no_target", "CORJIT_INTERNALERROR", FALSE, FALSE)
        /\ UNCHANGED owned
     \/ /\ owned' = owned \union {<<Context.id, "TM">>}
        /\ Goto("read")
        /\ UNCHANGED returned
  /\ UNCHANGED <<readyToRun, requests, caches, failedRead>>

(* readMethod: a module from a bitcode file is complete.  msilToIR returns at once
   when it is only to import.  `unmanaged' is what the method really contains. *)
readMethod(unmanaged) ==
  /\ At("read")
  /\ SetContext([Context EXCEPT !.pc = IF Context.HasLoadedBitCode THEN "import"
                                       ELSE IF Context.importOnly THEN "read_done"
                                       ELSE "reading",
                                !.HasMethod = Context.HasLoadedBitCode,
                                !.unmanaged = unmanaged])
  /\ UNCHANGED <<readyToRun, requests, caches, owned, returned, failedRead>>

(* getClassType, anywhere in the reading: an opaque placeholder, when no fields are
   wanted (a reference to a class that may still be under construction), or the
   type with its fields.  The class size is asked for, and thereby recorded as a
   dependence of this method, only if the cached type has no fields yet. *)
getClassType(c, GetAggregateFields) ==
  /\ At("reading")
  /\ IF GetAggregateFields
     THEN /\ c \notin Context.used
          /\ SetContext([Context EXCEPT !.used = @ \union {c},
                                        !.recorded = @ \union ({c} \ laidOut)])
          /\ laidOut' = laidOut \union {c}
     ELSE /\ c \notin ClassTypeMap
          /\ UNCHANGED <<contexts, laidOut>>
  /\ ClassTypeMap' = ClassTypeMap \union {c}
  /\ UNCHANGED <<readyToRun, requests, owned, returned, failedRead>>

(* Mistake: the caches survive the method. *)
readerPostPass_KeepsTypes ==
  /\ At("reading")
  /\ Goto("read_done")
  /\ UNCHANGED <<readyToRun, requests, caches, owned, returned, failedRead>>

(* readerPostPass, the end of msilToIR: for ReadyToRun code the caches are cleared *)
readerPostPass ==
  /\ At("reading")
  /\ ClassTypeMap' = IF readyToRun THEN {} ELSE ClassTypeMap
  /\ laidOut' = IF readyToRun THEN {} ELSE laidOut
  /\ Goto("read_done")
  /\ UNCHANGED <<readyToRun, requests, owned, returned, failedRead>>

(* Mistake: the out parameter is not set. *)
verifyModule_FlagLost(ok) ==
  /\ At("read_done")
  /\ SetContext([Context EXCEPT !.pc = "import", !.HasMethod = ok])
  /\ UNCHANGED <<readyToRun, requests, caches, owned, returned, failedRead>>

(* readMethod, after msilToIR: the out parameter is set and the module verified *)
verifyModule(ok) ==
  /\ At("read_done")
  /\ SetContext([Context EXCEPT !.pc = "import", !.HasMethod = ok,
                                !.ContainsUnmanagedCall = Context.unmanaged])
  /\ UNCHANGED <<readyToRun, requests, caches, owned, returned, failedRead>>

(* readMethod: the reader gave up with a NotYetImplementedException *)
notYetImplemented ==
  /\ At("reading")
  /\ failedRead' = TRUE
  /\ Goto("import")
  /\ UNCHANGED <<readyToRun, requests, caches, owned, returned>>

(* A request that only imports is answered here, before any clean up. *)
importOnly ==
  /\ At("import") /\ Context.importOnly
  /\ Return("import_only", "CORJIT_OK", FALSE, FALSE)
  /\ UNCHANGED <<readyToRun, requests, caches, owned, failedRead>>

(* The clean up at the end of compileMethod.  Mistake: the target machine is
   deleted only when there is code. *)
cleanUp_KeepsTM == IF Context.HasMethod THEN {o \in owned : o[1] # Context.id}
                   ELSE {o \in owned : o[1] # Context.id \/ o[2] = "TM"}
cleanUp == {o \in owned : o[1] # Context.id}

(* Mistake: a method that could not be read is not answered. *)
generate_OnlyMethod(doInsertStatepoints) ==
  /\ At("import") /\ ~Context.importOnly
  /\ Context.HasMethod
  /\ owned' = cleanUp
  /\ Return("end", "CORJIT_OK", TRUE, Context.ContainsUnmanagedCall \/ doInsertStatepoints)
  /\ UNCHANGED <<readyToRun, requests, caches, failedRead>>

(* Code generation, with or without statepoint lowering, then GC info and clean
   up; or only the clean up, when there is no method. *)
generate(doInsertStatepoints) ==
  /\ At("import") /\ ~Context.importOnly
  /\ owned' = cleanUp
  /\ IF Context.HasMethod
     THEN Return("end", "CORJIT_OK", TRUE, Context.ContainsUnmanagedCall \/ doInsertStatepoints)
     ELSE Return("end", "CORJIT_INTERNALERROR", FALSE, FALSE)
  /\ UNCHANGED <<readyToRun, requests, caches, failedRead>>

Compile ==
  \/ skipMethod \/ lookupTarget
  \/ \E unmanaged \in BOOLEAN : readMethod(unmanaged)
  \/ \E c \in Classes, GetAggregateFields \in BOOLEAN : getClassType(c, GetAggregateFields)
  \/ readerPostPass \/ notYetImplemented
  \/ \E ok \in BOOLEAN : verifyModule(ok)
  \/ importOnly
  \/ \E doInsertStatepoints \in BOOLEAN : generate(doInsertStatepoints)
Next ==
  \/ \E import, loadedBitCode, garbage \in BOOLEAN :
       compileMethod(import, loadedBitCode, garbage)
  \/ malformedRequest
  \/ Compile

\* The jit itself never waits for anything.
Spec == Init /\ [][Next]_vars /\ WF_vars(Compile)

-----------------------------------------------------------------------------

\* Exceptions: the two early returns of compileMethod delete nothing.
HeapObjects == {"ABIInfo", "GcInfo", "TM"}
EarlyReturnLeaves(exit) ==
  IF exit = "no_target" THEN {"ABIInfo", "GcInfo"}
  ELSE IF exit = "import_only" THEN HeapObjects ELSE {}

(* A request under way has exactly the objects it has made, whatever nested requests
   delete, and one that was answered has left none behind, unless it was answered
   by one of the two early returns. *)
Answered(id) == \E r \in returned : r.id = id
ObjectsOf(id) == {x \in HeapObjects : <<id, x>> \in owned}
ObjectsOwned ==
  /\ \A i \in 1 .. Len(contexts) :
       ObjectsOf(contexts[i].id) = IF contexts[i].pc = "options" THEN {"ABIInfo", "GcInfo"}
                                   ELSE HeapObjects
  /\ \A r \in returned : ObjectsOf(r.id) \subseteq EarlyReturnLeaves(r.exit)

(* A ReadyToRun method whose layout dependences were not all recorded was read on
   a thread where the reading of some method had been given up before. *)
UnrecordedOnlyAfterFailure ==
  \A r \in returned : readyToRun /\ r.unrecorded # {} => failedRead

(* Every request is answered, however deep the runtime nests them. *)
AllAnswered == \A id \in 1 .. MaxRequests : requests >= id ~> Answered(id)

(* A method whose IL contains a call to unmanaged code is generated with gc
   transitions lowered: whatever the uninitialised flag ContainsUnmanagedCall held
   is overwritten before it is used, also when requests nest.  A module that came
   from a bitcode file is the exception: readMethod returns before it assigns the
   flag, and what is done depends on the garbage. *)
TransitionsLowered ==
  \A r \in returned : r.entry /\ r.unmanaged /\ ~r.loadedBitCode => r.rewritten
=============================================================================
