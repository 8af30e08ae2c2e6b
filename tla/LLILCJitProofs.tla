--------------------------- MODULE LLILCJitProofs ---------------------------
(***************************************************************************)
(* Proofs about LLILCJit, for every set of classes, every number of        *)
(* requests and however deep they nest.                                    *)
(***************************************************************************)
EXTENDS LLILCJit, TLAPS

-----------------------------------------------------------------------------
(* The inductive invariant. *)

PCs == {"options", "read", "reading", "read_done", "import"}
ContextRecords ==
  [id : Nat, pc : PCs, importOnly : BOOLEAN, HasLoadedBitCode : BOOLEAN,
   HasMethod : BOOLEAN, ContainsUnmanagedCall : BOOLEAN, unmanaged : BOOLEAN,
   used : SUBSET Classes, recorded : SUBSET Classes]
Exits == {"malformed", "no_target", "import_only", "end"}
Answers ==
  [id : Nat, exit : Exits, result : {"CORJIT_OK", "CORJIT_INTERNALERROR"}, entry : BOOLEAN,
   rewritten : BOOLEAN, unmanaged : BOOLEAN,
   loadedBitCode : BOOLEAN, unrecorded : SUBSET Classes]

TypeOK ==
  /\ readyToRun \in BOOLEAN
  /\ contexts \in Seq(ContextRecords)
  /\ requests \in Nat
  /\ ClassTypeMap \in SUBSET Classes
  /\ laidOut \in SUBSET Classes
  /\ owned \in SUBSET (Nat \X HeapObjects)
  /\ returned \in SUBSET Answers
  /\ failedRead \in BOOLEAN

\* Requests are numbered from the outermost in, and one under way is not answered.
Numbered ==
  /\ \A i \in 1 .. Len(contexts) :
       contexts[i].id \in 1 .. requests /\ ~Answered(contexts[i].id)
  /\ \A i, j \in 1 .. Len(contexts) : i < j => contexts[j].id < contexts[i].id
  /\ \A r \in returned : r.id \in 1 .. requests
  /\ \A o \in owned : o[1] \in 1 .. requests

\* crossgen nests no request, and what its requests have cached is what the one
\* that is reading has asked for.
CachedIsUsed ==
  readyToRun =>
    /\ Len(contexts) <= 1
    /\ ~failedRead =>
         /\ \A i \in 1 .. Len(contexts) : contexts[i].used \subseteq contexts[i].recorded
         /\ laidOut \subseteq UNION {contexts[i].used :
              i \in {j \in 1 .. Len(contexts) : contexts[j].pc = "reading"}}

\* There is a method only after it was read, and then the flag is the method's.
FlagIsSet ==
  \A i \in 1 .. Len(contexts) :
    /\ contexts[i].pc # "import" => ~contexts[i].HasMethod
    /\ contexts[i].HasMethod /\ ~contexts[i].HasLoadedBitCode =>
         contexts[i].ContainsUnmanagedCall = contexts[i].unmanaged

IInv ==
  /\ TypeOK /\ Numbered /\ CachedIsUsed /\ FlagIsSet
  /\ ObjectsOwned /\ UnrecordedOnlyAfterFailure /\ TransitionsLowered

-----------------------------------------------------------------------------
(* The stack of contexts. *)

(* What an action that works on the innermost request does to the stack. *)
LEMMA ReplaceInnermost ==
  ASSUME contexts \in Seq(ContextRecords), contexts # <<>>,
         NEW c \in ContextRecords, SetContext(c)
  PROVE  /\ contexts' \in Seq(ContextRecords)
         /\ Len(contexts') = Len(contexts) /\ Len(contexts) >= 1
         /\ contexts'[1] = c /\ contexts[1] = Context
         /\ \A i \in 2 .. Len(contexts) : contexts'[i] = contexts[i]
  BY DEF SetContext, Context

(* What the return of the innermost request does to the stack. *)
LEMMA PopInnermost ==
  ASSUME contexts \in Seq(ContextRecords), contexts # <<>>, contexts' = Tail(contexts)
  PROVE  /\ contexts' \in Seq(ContextRecords)
         /\ Len(contexts') = Len(contexts) - 1 /\ Len(contexts) >= 1
         /\ contexts[1] = Context /\ Context \in ContextRecords
         /\ \A i \in 1 .. Len(contexts') : contexts'[i] = contexts[i + 1]
  BY DEF Context

(* What a new request does to the stack. *)
LEMMA PushInnermost ==
  ASSUME contexts \in Seq(ContextRecords), NEW c \in ContextRecords, push(c)
  PROVE  /\ contexts' \in Seq(ContextRecords)
         /\ Len(contexts') = Len(contexts) + 1
         /\ contexts'[1] = c
         /\ \A i \in 2 .. Len(contexts') : contexts'[i] = contexts[i - 1]
  BY DEF push

(* An action guarded by At works on a context. *)
LEMMA AtContext ==
  ASSUME TypeOK, NEW pc, At(pc)
  PROVE  /\ contexts \in Seq(ContextRecords) /\ contexts # <<>>
         /\ Len(contexts) >= 1 /\ contexts[1] = Context
         /\ Context \in ContextRecords /\ Context.pc = pc
  BY DEF TypeOK, At, Context

(* The initial state: no request, no object, nothing cached. *)
LEMMA IInvInit == Init => IInv
<1> SUFFICES ASSUME Init PROVE IInv
  OBVIOUS
<1> USE DEF Init
<1>1. TypeOK
  <2>1. readyToRun \in BOOLEAN /\ failedRead \in BOOLEAN
    BY Zenon
  <2>2. QED
    BY <2>1 DEF TypeOK
<1>2. Numbered /\ CachedIsUsed /\ FlagIsSet
  BY DEF Numbered, CachedIsUsed, FlagIsSet
<1>3. ObjectsOwned /\ UnrecordedOnlyAfterFailure /\ TransitionsLowered
  BY DEF ObjectsOwned, UnrecordedOnlyAfterFailure, TransitionsLowered
<1>4. QED
  BY <1>1, <1>2, <1>3 DEF IInv

-----------------------------------------------------------------------------
(* Ownership. *)

(* A step within a request keeps the numbering and the ownership: the request
   stays the one it was, and the only object it may add is a target machine, when
   it has read its options. *)
LEMMA OwnershipAdvance ==
  ASSUME IInv, contexts # <<>>, NEW c \in ContextRecords, SetContext(c),
         c.id = Context.id, c.pc # "options",
         UNCHANGED <<requests, returned>>,
         owned' = IF Context.pc = "options" THEN owned \union {<<Context.id, "TM">>} ELSE owned
  PROVE  Numbered' /\ ObjectsOwned'
<1>0. contexts \in Seq(ContextRecords) /\ owned \in SUBSET (Nat \X HeapObjects) /\ requests \in Nat
  BY DEF IInv, TypeOK
<1> DEFINE n == Len(contexts)
<1>1. /\ Len(contexts') = n /\ n \in Nat /\ n >= 1
      /\ contexts'[1] = c /\ contexts[1] = Context
      /\ \A i \in 2 .. n : contexts'[i] = contexts[i]
  BY <1>0, ReplaceInnermost
<1>2. \A i \in 1 .. n : contexts'[i].id = contexts[i].id
  BY <1>1
<1>3. \A id : Answered(id)' <=> Answered(id)
  BY DEF Answered
<1>4. Numbered'
  BY <1>0, <1>1, <1>2, <1>3 DEF IInv, Numbered
<1>5. \A id \in Nat \ {Context.id} : ObjectsOf(id)' = ObjectsOf(id)
  BY DEF ObjectsOf
<1>6. {x \in HeapObjects : <<Context.id, x>> \in owned'} = HeapObjects
  <2>1. ObjectsOf(Context.id) = IF Context.pc = "options" THEN {"ABIInfo", "GcInfo"} ELSE HeapObjects
    BY <1>1 DEF IInv, ObjectsOwned
  <2>2. QED
    BY <2>1 DEF ObjectsOf, HeapObjects
<1>7. \A i \in 2 .. n : contexts[i].id \in Nat \ {Context.id}
  <2>1. ASSUME NEW i \in 2 .. n PROVE contexts[i].id < Context.id /\ contexts[i].id \in 1 .. requests
                                      /\ Context.id \in 1 .. requests
    BY <1>1 DEF IInv, Numbered
  <2>2. QED
    BY <1>0, <2>1
<1>8. ObjectsOwned'
  <2>1. ASSUME NEW i \in 1 .. n
        PROVE  {x \in HeapObjects : <<contexts'[i].id, x>> \in owned'} =
                 IF contexts'[i].pc = "options" THEN {"ABIInfo", "GcInfo"} ELSE HeapObjects
    <3>1. CASE i = 1
      BY <1>1, <1>6, <3>1
    <3>2. CASE i # 1
      <4>1. contexts'[i] = contexts[i] /\ contexts[i].id \in Nat \ {Context.id}
        BY <1>1, <1>7, <3>2
      <4>2. ObjectsOf(contexts[i].id) =
              IF contexts[i].pc = "options" THEN {"ABIInfo", "GcInfo"} ELSE HeapObjects
        BY DEF IInv, ObjectsOwned
      <4>3. QED
        BY <1>5, <4>1, <4>2 DEF ObjectsOf
    <3>3. QED
      BY <3>1, <3>2
  <2>2. ASSUME NEW r \in returned
        PROVE  {x \in HeapObjects : <<r.id, x>> \in owned'} \subseteq EarlyReturnLeaves(r.exit)
    <3>1. r.id # Context.id /\ r.id \in Nat
      BY <1>0, <1>1 DEF IInv, Numbered, Answered
    <3>2. ObjectsOf(r.id) \subseteq EarlyReturnLeaves(r.exit)
      BY DEF IInv, ObjectsOwned
    <3>3. QED
      BY <1>5, <3>1, <3>2 DEF ObjectsOf
  <2>3. QED
    BY <1>1, <2>1, <2>2 DEF ObjectsOwned, ObjectsOf
<1>9. QED
  BY <1>4, <1>8

(* The return of a request keeps the numbering and the ownership: what it does not
   delete is what its exit leaves. *)
LEMMA OwnershipReturn ==
  ASSUME IInv, contexts # <<>>, NEW exit, NEW result, NEW entry \in BOOLEAN, NEW rewritten,
         Return(exit, result, entry, rewritten), UNCHANGED requests,
         \/ owned' = cleanUp
         \/ owned' = owned /\ ObjectsOf(Context.id) \subseteq EarlyReturnLeaves(exit)
  PROVE  Numbered' /\ ObjectsOwned'
<1>0. contexts \in Seq(ContextRecords) /\ owned \in SUBSET (Nat \X HeapObjects) /\ requests \in Nat
  BY DEF IInv, TypeOK
<1> DEFINE n == Len(contexts)
           last == answer(Context.id, exit, result, entry, rewritten, Context)
<1>1. /\ Len(contexts') = n - 1 /\ n \in Nat /\ n >= 1
      /\ contexts[1] = Context
      /\ \A i \in 1 .. n - 1 : contexts'[i] = contexts[i + 1]
  BY <1>0, PopInnermost DEF Return
<1>2. returned' = returned \union {last}
  BY DEF Return
<1>3. last.id = Context.id /\ last.exit = exit
  BY DEF answer
<1> HIDE DEF last
<1>4. \A id : Answered(id)' <=> Answered(id) \/ id = Context.id
  BY <1>2, <1>3 DEF Answered
<1>5. owned' \subseteq owned
  BY DEF cleanUp
<1>6. \A i \in 1 .. n - 1 : contexts'[i].id < Context.id /\ contexts'[i].id \in 1 .. requests
  BY <1>0, <1>1 DEF IInv, Numbered
<1>7. Numbered'
  <2>1. ASSUME NEW i \in 1 .. Len(contexts')
        PROVE  contexts'[i].id \in 1 .. requests /\ ~Answered(contexts[i].id)'
    <3>1. i + 1 \in 1 .. n /\ contexts'[i] = contexts[i + 1]
      BY <1>1
    <3>2. ~Answered(contexts[i + 1].id)
      BY <3>1 DEF IInv, Numbered
    <3>3. contexts'[i].id < Context.id /\ Context.id \in 1 .. requests
      BY <1>0, <1>1, <1>6 DEF IInv, Numbered
    <3>4. QED
      BY <1>0, <1>1, <1>2, <1>3, <1>6, <3>1, <3>2, <3>3 DEF Answered
  <2>2. ASSUME NEW i \in 1 .. Len(contexts'), NEW j \in 1 .. Len(contexts'), i < j
        PROVE  contexts'[j].id < contexts'[i].id
    <3>1. i + 1 \in 1 .. n /\ j + 1 \in 1 .. n /\ i + 1 < j + 1
      BY <1>1, <2>2
    <3>2. QED
      BY <1>1, <3>1 DEF IInv, Numbered
  <2>3. \A r \in returned' : r.id \in 1 .. requests
    BY <1>0, <1>1, <1>2, <1>3 DEF IInv, Numbered
  <2>4. \A o \in owned' : o[1] \in 1 .. requests
    BY <1>0, <1>5 DEF IInv, Numbered
  <2>5. QED
    BY <2>1, <2>2, <2>3, <2>4 DEF Numbered
<1>8. \A id \in Nat \ {Context.id} : ObjectsOf(id)' = ObjectsOf(id)
  BY DEF ObjectsOf, cleanUp
<1>9. ObjectsOwned'
  <2>1. ASSUME NEW i \in 1 .. Len(contexts')
        PROVE  {x \in HeapObjects : <<contexts'[i].id, x>> \in owned'} =
                 IF contexts'[i].pc = "options" THEN {"ABIInfo", "GcInfo"} ELSE HeapObjects
    <3>1. i + 1 \in 1 .. n /\ contexts'[i] = contexts[i + 1]
      BY <1>1
    <3>2. ObjectsOf(contexts[i + 1].id) =
            IF contexts[i + 1].pc = "options" THEN {"ABIInfo", "GcInfo"} ELSE HeapObjects
      BY <3>1 DEF IInv, ObjectsOwned
    <3>3. contexts[i + 1].id \in Nat \ {Context.id}
      <4>1. contexts'[i].id < Context.id /\ contexts'[i].id \in Nat /\ Context.id \in Nat
        BY <1>0, <1>1, <1>6 DEF IInv, Numbered
      <4>2. QED
        BY <3>1, <4>1
    <3>4. QED
      BY <1>8, <3>1, <3>2, <3>3 DEF ObjectsOf
  <2>2. ASSUME NEW r \in returned
        PROVE  {x \in HeapObjects : <<r.id, x>> \in owned'} \subseteq EarlyReturnLeaves(r.exit)
    <3>1. ObjectsOf(r.id) \subseteq EarlyReturnLeaves(r.exit)
      BY DEF IInv, ObjectsOwned
    <3>2. QED
      BY <1>5, <3>1 DEF ObjectsOf
  <2>3. {x \in HeapObjects : <<last.id, x>> \in owned'} \subseteq EarlyReturnLeaves(last.exit)
    BY <1>3 DEF cleanUp, ObjectsOf
  <2>4. QED
    BY <1>2, <2>1, <2>2, <2>3 DEF ObjectsOwned, ObjectsOf
<1>10. QED
  BY <1>7, <1>9

(* What an answer says, typed. *)
LEMMA AnswerTyped ==
  ASSUME NEW id \in Nat, NEW exit \in Exits, NEW result \in {"CORJIT_OK", "CORJIT_INTERNALERROR"},
         NEW entry \in BOOLEAN, NEW rewritten \in BOOLEAN, NEW method,
         method.unmanaged \in BOOLEAN, method.HasLoadedBitCode \in BOOLEAN,
         method.used \in SUBSET Classes
  PROVE  answer(id, exit, result, entry, rewritten, method) \in Answers
  BY DEF answer, Answers

(* A return keeps the types. *)
LEMMA ReturnTyped ==
  ASSUME TypeOK, contexts # <<>>, NEW exit \in Exits,
         NEW result \in {"CORJIT_OK", "CORJIT_INTERNALERROR"},
         NEW entry \in BOOLEAN, NEW rewritten \in BOOLEAN,
         Return(exit, result, entry, rewritten),
         UNCHANGED <<readyToRun, requests, caches, failedRead>>, owned' \subseteq owned
  PROVE  TypeOK'
<1>1. /\ contexts' \in Seq(ContextRecords) /\ Context \in ContextRecords
  BY PopInnermost DEF TypeOK, Return
<1>2. answer(Context.id, exit, result, entry, rewritten, Context) \in Answers
  BY <1>1, AnswerTyped DEF ContextRecords
<1>3. returned' \in SUBSET Answers
  BY <1>2 DEF Return, TypeOK
<1>4. readyToRun' \in BOOLEAN /\ failedRead' \in BOOLEAN
  BY Zenon DEF TypeOK
<1>5. QED
  BY <1>1, <1>3, <1>4 DEF TypeOK, caches

(* The other parts of the invariant speak of the contexts that remain, and of the
   answer: a return keeps them when the answer is right. *)
LEMMA AnswerRight ==
  ASSUME IInv, contexts # <<>>, NEW exit, NEW result, NEW entry \in BOOLEAN, NEW rewritten \in BOOLEAN,
         Return(exit, result, entry, rewritten), Context.pc # "reading",
         entry /\ Context.unmanaged /\ ~Context.HasLoadedBitCode => rewritten,
         UNCHANGED <<readyToRun, requests, caches, failedRead>>
  PROVE  CachedIsUsed' /\ FlagIsSet' /\ UnrecordedOnlyAfterFailure' /\ TransitionsLowered'
<1> DEFINE n == Len(contexts)
           last == answer(Context.id, exit, result, entry, rewritten, Context)
<1>0. laidOut' = laidOut
  BY DEF caches
<1>1. /\ Len(contexts') = n - 1 /\ n \in Nat /\ n >= 1
      /\ contexts[1] = Context
      /\ \A i \in 1 .. n - 1 : contexts'[i] = contexts[i + 1]
  BY PopInnermost DEF Return, IInv, TypeOK
<1>2. returned' = returned \union {last}
  BY DEF Return
<1>3. CachedIsUsed'
  <2>1. SUFFICES ASSUME readyToRun, ~failedRead
        PROVE  Len(contexts') <= 1 /\ (~failedRead => Len(contexts') = 0 /\ laidOut = {})
    BY <1>0, <1>1 DEF CachedIsUsed, IInv
  <2>2. n = 1
    BY <1>1, <2>1 DEF CachedIsUsed, IInv
  <2>3. laidOut = {}
    BY <1>1, <2>1, <2>2 DEF CachedIsUsed, IInv
  <2>4. QED
    BY <1>1, <2>2, <2>3
<1>4. FlagIsSet'
  BY <1>1 DEF FlagIsSet, IInv
<1>5. UnrecordedOnlyAfterFailure'
  <2>1. readyToRun /\ ~failedRead => last.unrecorded = {}
    BY <1>1 DEF IInv, CachedIsUsed, answer
  <2>2. QED
    BY <1>2, <2>1 DEF IInv, UnrecordedOnlyAfterFailure
<1>6. TransitionsLowered'
  <2>1. last.entry = entry /\ last.unmanaged = Context.unmanaged
        /\ last.loadedBitCode = Context.HasLoadedBitCode /\ last.rewritten = rewritten
    BY DEF answer
  <2>2. QED
    BY <1>2, <2>1 DEF IInv, TransitionsLowered
<1>7. QED
  BY <1>3, <1>4, <1>5, <1>6

-----------------------------------------------------------------------------
(* The steps. *)

(* A step within a request, apart from ownership: the types, and the caches and the
   flag as the step leaves them. *)
LEMMA AdvanceTyped ==
  ASSUME TypeOK, contexts # <<>>, NEW c \in ContextRecords, SetContext(c),
         UNCHANGED <<readyToRun, requests, returned>>,
         failedRead' \in BOOLEAN, ClassTypeMap' \in SUBSET Classes, laidOut' \in SUBSET Classes,
         owned' = IF Context.pc = "options" THEN owned \union {<<Context.id, "TM">>} ELSE owned
  PROVE  TypeOK'
<1>1. contexts' \in Seq(ContextRecords)
  BY ReplaceInnermost DEF TypeOK
<1>2. Context.id \in Nat
  <2>1. Context \in ContextRecords
    BY DEF TypeOK, Context
  <2>2. QED
    BY <2>1 DEF ContextRecords
<1>3. owned' \in SUBSET (Nat \X HeapObjects)
  BY <1>2 DEF TypeOK, HeapObjects
<1>4. readyToRun' \in BOOLEAN
  BY Zenon DEF TypeOK
<1>5. QED
  BY <1>1, <1>3, <1>4 DEF TypeOK

(* The steps after which the innermost request has cached what it had, and is not
   reading unless it was, or nothing is cached. *)
LEMMA AdvanceKeeps ==
  ASSUME IInv, contexts # <<>>, NEW c \in ContextRecords, SetContext(c),
         UNCHANGED <<readyToRun, requests, returned>>,
         failedRead => failedRead',
         readyToRun /\ ~failedRead' =>
           /\ c.used \subseteq c.recorded
           /\ laidOut' \subseteq IF c.pc = "reading" THEN c.used ELSE {},
         c.pc # "import" => ~c.HasMethod,
         c.HasMethod /\ ~c.HasLoadedBitCode => c.ContainsUnmanagedCall = c.unmanaged
  PROVE  CachedIsUsed' /\ FlagIsSet' /\ UnrecordedOnlyAfterFailure' /\ TransitionsLowered'
<1> DEFINE n == Len(contexts)
<1>1. /\ Len(contexts') = n /\ n \in Nat /\ n >= 1
      /\ contexts'[1] = c /\ contexts[1] = Context
      /\ \A i \in 2 .. n : contexts'[i] = contexts[i]
  BY ReplaceInnermost DEF IInv, TypeOK
<1>2. CachedIsUsed'
  <2>1. SUFFICES ASSUME readyToRun, n = 1
        PROVE  ~failedRead' =>
                 /\ c.used \subseteq c.recorded
                 /\ laidOut' \subseteq IF c.pc = "reading" THEN c.used ELSE {}
    <3>1. readyToRun => n = 1
      BY <1>1 DEF IInv, CachedIsUsed
    <3>2. QED
      BY <1>1, <3>1 DEF CachedIsUsed
  <2>2. QED
    BY <2>1
<1>3. FlagIsSet'
  BY <1>1 DEF IInv, FlagIsSet
<1>4. UnrecordedOnlyAfterFailure' /\ TransitionsLowered'
  BY DEF IInv, UnrecordedOnlyAfterFailure, TransitionsLowered
<1>5. QED
  BY <1>2, <1>3, <1>4

(* A new request is numbered higher than all before it and owns its own objects. *)
LEMMA StartStep ==
  ASSUME IInv, NEW import \in BOOLEAN, NEW loadedBitCode \in BOOLEAN, NEW garbage \in BOOLEAN,
         compileMethod(import, loadedBitCode, garbage)
  PROVE  IInv'
<1> DEFINE n == Len(contexts)
           c == newContext(import, loadedBitCode, garbage)
<1>0. TypeOK
  BY DEF IInv
<1>1. c \in ContextRecords
  BY <1>0 DEF newContext, ContextRecords, PCs, TypeOK
<1>2. /\ c.id = requests + 1 /\ c.pc = "options" /\ c.HasMethod = FALSE
      /\ c.used = {} /\ c.recorded = {}
  BY DEF newContext
<1>3. push(c) /\ UNCHANGED <<readyToRun, ClassTypeMap, laidOut, returned, failedRead>>
      /\ requests' = requests + 1
      /\ owned' = owned \union {<<requests + 1, "ABIInfo">>, <<requests + 1, "GcInfo">>}
  BY DEF compileMethod, caches
<1> HIDE DEF c
<1>4. /\ contexts' \in Seq(ContextRecords) /\ Len(contexts') = n + 1 /\ n \in Nat
      /\ contexts'[1] = c
      /\ \A i \in 2 .. n + 1 : contexts'[i] = contexts[i - 1]
  BY <1>0, <1>1, <1>3, PushInnermost DEF TypeOK
<1>5. requests \in Nat /\ requests' \in Nat /\ requests' = requests + 1
  BY <1>0, <1>3 DEF TypeOK
<1>6. TypeOK'
  <2>1. readyToRun' \in BOOLEAN /\ failedRead' \in BOOLEAN
    BY <1>0, <1>3, Zenon DEF TypeOK
  <2>2. owned' \in SUBSET (Nat \X HeapObjects)
    BY <1>0, <1>3, <1>5 DEF TypeOK, HeapObjects
  <2>3. QED
    BY <1>0, <1>3, <1>4, <1>5, <2>1, <2>2 DEF TypeOK
<1>7. \A id : Answered(id)' <=> Answered(id)
  BY <1>3 DEF Answered
<1>8. ~Answered(requests + 1) /\ \A o \in owned : o[1] # requests + 1
  BY <1>5 DEF IInv, Numbered, Answered
<1>9. Numbered'
  <2>1. ASSUME NEW i \in 1 .. Len(contexts')
        PROVE  contexts'[i].id \in 1 .. requests' /\ ~Answered(contexts[i].id)'
    <3>1. CASE i = 1
      BY <1>2, <1>3, <1>4, <1>5, <1>8, <3>1 DEF Answered
    <3>2. CASE i # 1
      <4>1. i - 1 \in 1 .. n /\ contexts'[i] = contexts[i - 1]
        BY <1>4, <3>2
      <4>2. QED
        BY <1>3, <1>5, <4>1 DEF IInv, Numbered, Answered
    <3>3. QED
      BY <3>1, <3>2
  <2>2. ASSUME NEW i \in 1 .. Len(contexts'), NEW j \in 1 .. Len(contexts'), i < j
        PROVE  contexts'[j].id < contexts'[i].id
    <3>0. j - 1 \in 1 .. n /\ contexts'[j] = contexts[j - 1]
      BY <1>4, <2>2
    <3>1. j - 1 \in 1 .. n /\ contexts'[j] = contexts[j - 1]
          /\ contexts[j - 1].id \in 1 .. requests
      BY <3>0 DEF IInv, Numbered
    <3>2. CASE i = 1
      BY <1>2, <1>4, <1>5, <3>1, <3>2
    <3>3. CASE i # 1
      <4>1. i - 1 \in 1 .. n /\ contexts'[i] = contexts[i - 1] /\ i - 1 < j - 1
        BY <1>4, <2>2, <3>3
      <4>2. QED
        BY <3>1, <4>1 DEF IInv, Numbered
    <3>4. QED
      BY <3>2, <3>3
  <2>3. \A r \in returned' : r.id \in 1 .. requests'
    BY <1>3, <1>5 DEF IInv, Numbered
  <2>4. \A o \in owned' : o[1] \in 1 .. requests'
    BY <1>3, <1>5 DEF IInv, Numbered
  <2>5. QED
    BY <2>1, <2>2, <2>3, <2>4 DEF Numbered
<1>10. \A id \in 1 .. requests : ObjectsOf(id)' = ObjectsOf(id)
  BY <1>3, <1>5 DEF ObjectsOf
<1>11. ObjectsOwned'
  <2>1. ASSUME NEW i \in 1 .. Len(contexts')
        PROVE  {x \in HeapObjects : <<contexts'[i].id, x>> \in owned'} =
                 IF contexts'[i].pc = "options" THEN {"ABIInfo", "GcInfo"} ELSE HeapObjects
    <3>1. CASE i = 1
      BY <1>2, <1>3, <1>4, <1>8, <3>1 DEF HeapObjects
    <3>2. CASE i # 1
      <4>1. i - 1 \in 1 .. n /\ contexts'[i] = contexts[i - 1]
        BY <1>4, <3>2
      <4>2. /\ contexts[i - 1].id \in 1 .. requests
            /\ ObjectsOf(contexts[i - 1].id) =
                 IF contexts[i - 1].pc = "options" THEN {"ABIInfo", "GcInfo"} ELSE HeapObjects
        BY <4>1 DEF IInv, Numbered, ObjectsOwned
      <4>3. QED
        BY <1>10, <4>1, <4>2 DEF ObjectsOf
    <3>3. QED
      BY <3>1, <3>2
  <2>2. ASSUME NEW r \in returned
        PROVE  {x \in HeapObjects : <<r.id, x>> \in owned'} \subseteq EarlyReturnLeaves(r.exit)
    <3>1. r.id \in 1 .. requests /\ ObjectsOf(r.id) \subseteq EarlyReturnLeaves(r.exit)
      BY DEF IInv, Numbered, ObjectsOwned
    <3>2. QED
      BY <1>10, <3>1 DEF ObjectsOf
  <2>3. QED
    BY <1>3, <2>1, <2>2 DEF ObjectsOwned, ObjectsOf
<1>12. CachedIsUsed'
  <2> SUFFICES ASSUME readyToRun PROVE CachedIsUsed'
    BY <1>3 DEF CachedIsUsed
  <2>1. n = 0
    BY <1>4 DEF compileMethod, MayStart
  <2>2. ~failedRead => laidOut = {}
    BY <2>1 DEF IInv, CachedIsUsed
  <2>3. QED
    BY <1>2, <1>3, <1>4, <2>1, <2>2 DEF CachedIsUsed
<1>13. FlagIsSet'
  <2> SUFFICES ASSUME NEW i \in 1 .. Len(contexts')
               PROVE  /\ contexts'[i].pc # "import" => ~contexts'[i].HasMethod
                      /\ contexts'[i].HasMethod /\ ~contexts'[i].HasLoadedBitCode =>
                           contexts'[i].ContainsUnmanagedCall = contexts'[i].unmanaged
    BY DEF FlagIsSet
  <2>1. CASE i = 1
    BY <1>2, <1>4, <2>1
  <2>2. CASE i # 1
    <3>1. i - 1 \in 1 .. n /\ contexts'[i] = contexts[i - 1]
      BY <1>4, <2>2
    <3>2. QED
      BY <3>1 DEF IInv, FlagIsSet
  <2>3. QED
    BY <2>1, <2>2
<1>14. UnrecordedOnlyAfterFailure' /\ TransitionsLowered'
  BY <1>3 DEF IInv, UnrecordedOnlyAfterFailure, TransitionsLowered
<1>15. QED
  BY <1>6, <1>9, <1>11, <1>12, <1>13, <1>14 DEF IInv

(* A malformed request is answered at once and owns nothing. *)
LEMMA MalformedStep ==
  ASSUME IInv, malformedRequest
  PROVE  IInv'
<1> DEFINE last == answer(requests', "malformed", "CORJIT_INTERNALERROR", FALSE, FALSE, NoMethod)
<1>1. /\ UNCHANGED <<readyToRun, contexts, ClassTypeMap, laidOut, owned, failedRead>>
      /\ requests' = requests + 1 /\ requests \in Nat /\ returned' = returned \union {last}
  BY DEF malformedRequest, caches, IInv, TypeOK
<1>2. /\ last.id = requests + 1 /\ ~last.entry /\ last.unrecorded = {} /\ last \in Answers
  <2>0. /\ NoMethod.unmanaged \in BOOLEAN /\ NoMethod.HasLoadedBitCode \in BOOLEAN
        /\ NoMethod.used \in SUBSET Classes /\ requests' \in Nat
    BY <1>1 DEF NoMethod
  <2>1. last \in Answers
    BY <2>0 DEF answer, Answers, Exits
  <2>2. QED
    BY <1>1, <2>1 DEF answer, NoMethod
<1> HIDE DEF last
<1>3. TypeOK'
  <2>1. readyToRun' \in BOOLEAN /\ failedRead' \in BOOLEAN
    BY <1>1, Zenon DEF IInv, TypeOK
  <2>2. QED
    BY <1>1, <1>2, <2>1 DEF IInv, TypeOK
<1>4. Numbered'
  <2>1. \A i \in 1 .. Len(contexts) : contexts[i].id \in 1 .. requests /\ contexts[i].id # requests + 1
    BY <1>1 DEF IInv, Numbered
  <2>2. QED
    BY <1>1, <1>2, <2>1 DEF IInv, Numbered, Answered
<1>5. ObjectsOwned'
  <2>1. \A o \in owned : o[1] # requests + 1
    BY <1>1 DEF IInv, Numbered
  <2>2. {x \in HeapObjects : <<last.id, x>> \in owned} = {}
    BY <1>2, <2>1
  <2>3. QED
    BY <1>1, <2>2 DEF IInv, ObjectsOwned, ObjectsOf
<1>6. CachedIsUsed' /\ FlagIsSet' /\ UnrecordedOnlyAfterFailure' /\ TransitionsLowered'
  BY <1>1, <1>2 DEF IInv, CachedIsUsed, FlagIsSet, UnrecordedOnlyAfterFailure, TransitionsLowered
<1>7. QED
  BY <1>3, <1>4, <1>5, <1>6 DEF IInv

(* A step within a request preserves the invariant. *)
LEMMA AdvanceStep ==
  ASSUME IInv, NEW pc, At(pc), NEW c \in ContextRecords, SetContext(c),
         c.id = Context.id, c.pc # "options",
         UNCHANGED <<readyToRun, requests, returned>>,
         owned' = IF Context.pc = "options" THEN owned \union {<<Context.id, "TM">>} ELSE owned,
         failedRead' \in BOOLEAN, failedRead => failedRead',
         ClassTypeMap' \in SUBSET Classes, laidOut' \in SUBSET Classes,
         readyToRun /\ ~failedRead' =>
           /\ c.used \subseteq c.recorded
           /\ laidOut' \subseteq IF c.pc = "reading" THEN c.used ELSE {},
         c.pc # "import" => ~c.HasMethod,
         c.HasMethod /\ ~c.HasLoadedBitCode => c.ContainsUnmanagedCall = c.unmanaged
  PROVE  IInv'
<1>1. TypeOK /\ contexts # <<>>
  BY AtContext DEF IInv
<1>2. TypeOK'
  BY <1>1, AdvanceTyped
<1>3. Numbered' /\ ObjectsOwned'
  BY <1>1, OwnershipAdvance
<1>4. CachedIsUsed' /\ FlagIsSet' /\ UnrecordedOnlyAfterFailure' /\ TransitionsLowered'
  BY <1>1, AdvanceKeeps
<1>5. QED
  BY <1>2, <1>3, <1>4 DEF IInv

(* The return of a request preserves the invariant. *)
LEMMA ReturnStep ==
  ASSUME IInv, NEW pc, At(pc), pc # "reading",
         NEW result \in {"CORJIT_OK", "CORJIT_INTERNALERROR"},
         NEW exit \in Exits, NEW entry \in BOOLEAN, NEW rewritten \in BOOLEAN,
         Return(exit, result, entry, rewritten),
         UNCHANGED <<readyToRun, requests, caches, failedRead>>,
         \/ owned' = cleanUp
         \/ owned' = owned /\ ObjectsOf(Context.id) \subseteq EarlyReturnLeaves(exit),
         entry /\ Context.unmanaged /\ ~Context.HasLoadedBitCode => rewritten
  PROVE  IInv'
<1>1. TypeOK /\ contexts # <<>> /\ Context.pc # "reading"
  BY AtContext DEF IInv
<1>2. owned' \subseteq owned
  BY DEF cleanUp
<1>3. TypeOK'
  BY <1>1, <1>2, ReturnTyped
<1>4. Numbered' /\ ObjectsOwned'
  BY <1>1, OwnershipReturn
<1>5. CachedIsUsed' /\ FlagIsSet' /\ UnrecordedOnlyAfterFailure' /\ TransitionsLowered'
  BY <1>1, AnswerRight
<1>6. QED
  BY <1>3, <1>4, <1>5 DEF IInv

(* What the invariant says of the innermost request. *)
LEMMA InnermostInv ==
  ASSUME IInv, NEW pc, At(pc)
  PROVE  /\ Context \in ContextRecords /\ Context.pc = pc
         /\ ClassTypeMap \in SUBSET Classes /\ laidOut \in SUBSET Classes
         /\ failedRead \in BOOLEAN
         /\ pc # "import" => ~Context.HasMethod
         /\ Context.HasMethod /\ ~Context.HasLoadedBitCode =>
              Context.ContainsUnmanagedCall = Context.unmanaged
         /\ pc = "options" => ObjectsOf(Context.id) = {"ABIInfo", "GcInfo"}
         /\ readyToRun /\ ~failedRead =>
              /\ Context.used \subseteq Context.recorded
              /\ laidOut \subseteq IF pc = "reading" THEN Context.used ELSE {}
<1>0. TypeOK
  BY DEF IInv
<1>1. /\ contexts \in Seq(ContextRecords) /\ 1 \in 1 .. Len(contexts) /\ contexts[1] = Context
      /\ Context \in ContextRecords /\ Context.pc = pc
  BY <1>0, AtContext
<1>2. ClassTypeMap \in SUBSET Classes /\ laidOut \in SUBSET Classes
  BY <1>0 DEF TypeOK
<1>3. failedRead \in BOOLEAN
  BY <1>0, Zenon DEF TypeOK
<1>4. /\ pc # "import" => ~Context.HasMethod
      /\ Context.HasMethod /\ ~Context.HasLoadedBitCode =>
           Context.ContainsUnmanagedCall = Context.unmanaged
  BY <1>1 DEF IInv, FlagIsSet
<1>5. pc = "options" => ObjectsOf(Context.id) = {"ABIInfo", "GcInfo"}
  BY <1>1 DEF IInv, ObjectsOwned
<1>6. readyToRun /\ ~failedRead =>
              /\ Context.used \subseteq Context.recorded
              /\ laidOut \subseteq IF pc = "reading" THEN Context.used ELSE {}
  <2>1. Len(contexts) \in Nat /\ Len(contexts) >= 1
    BY <1>0, AtContext
  <2>2. readyToRun => Len(contexts) <= 1
    BY DEF IInv, CachedIsUsed
  <2>3. Len(contexts) <= 1 => Len(contexts) = 1
    <3>1. \A n \in Nat : n >= 1 /\ n <= 1 => n = 1
      OBVIOUS
    <3>2. QED
      BY <2>1, <3>1, Zenon
  <2>4. readyToRun /\ ~failedRead => Context.used \subseteq Context.recorded
    BY <1>1, Zenon DEF IInv, CachedIsUsed
  <2>5. Len(contexts) = 1 =>
          UNION {contexts[i].used : i \in {j \in 1 .. Len(contexts) : contexts[j].pc = "reading"}}
            \subseteq IF pc = "reading" THEN Context.used ELSE {}
    BY <1>1
  <2>6. readyToRun /\ ~failedRead =>
          laidOut \subseteq IF pc = "reading" THEN Context.used ELSE {}
    BY <2>2, <2>3, <2>5, Zenon DEF IInv, CachedIsUsed
  <2>7. QED
    BY <2>4, <2>6
<1>7. QED
  BY <1>1, <1>2, <1>3, <1>4, <1>5, <1>6

(* Every step of compileMethod preserves the invariant: one case per action. *)
LEMMA CompileStep == IInv /\ Compile => IInv'
<1> SUFFICES ASSUME IInv, Compile PROVE IInv'
  OBVIOUS
<1>1. CASE skipMethod
  <2>1. At("options") /\ Return("end", "CORJIT_INTERNALERROR", FALSE, FALSE) /\ owned' = cleanUp
        /\ UNCHANGED <<readyToRun, requests, caches, failedRead>>
    BY <1>1 DEF skipMethod, cleanUp
  <2>2. QED
    BY <2>1, ReturnStep DEF Exits
<1>2. CASE lookupTarget
  <2>1. At("options") /\ UNCHANGED <<readyToRun, requests, caches, failedRead>>
    BY <1>2 DEF lookupTarget
  <2>2. CASE Return("no_target", "CORJIT_INTERNALERROR", FALSE, FALSE) /\ UNCHANGED owned
    <3>1. ObjectsOf(Context.id) \subseteq EarlyReturnLeaves("no_target")
      BY <2>1, InnermostInv DEF EarlyReturnLeaves
    <3>2. QED
      BY <2>1, <2>2, <3>1, ReturnStep DEF Exits
  <2>3. CASE owned' = owned \union {<<Context.id, "TM">>} /\ Goto("read") /\ UNCHANGED returned
    <3> DEFINE c == [Context EXCEPT !.pc = "read"]
    <3>1. Context \in ContextRecords
      BY <2>1, InnermostInv DEF caches
    <3>2. /\ c \in ContextRecords /\ c.id = Context.id /\ c.pc = "read"
          /\ c.HasMethod = Context.HasMethod
          /\ c.used = Context.used /\ c.recorded = Context.recorded
      BY <3>1 DEF ContextRecords, PCs
    <3>3. SetContext(c)
      BY <2>3 DEF Goto
    <3> HIDE DEF c
    <3>4. /\ ~Context.HasMethod /\ Context.pc = "options"
          /\ ClassTypeMap' \in SUBSET Classes /\ laidOut' \in SUBSET Classes /\ failedRead' \in BOOLEAN
          /\ readyToRun /\ ~failedRead => Context.used \subseteq Context.recorded /\ laidOut = {}
      BY <2>1, InnermostInv DEF caches
    <3>5. QED
      BY <2>1, <2>3, <3>2, <3>3, <3>4, AdvanceStep DEF caches
  <2>4. QED
    BY <1>2, <2>2, <2>3 DEF lookupTarget
<1>3. ASSUME NEW unmanaged \in BOOLEAN, readMethod(unmanaged)
      PROVE  IInv'
  <2> DEFINE next == IF Context.HasLoadedBitCode THEN "import"
                     ELSE IF Context.importOnly THEN "read_done" ELSE "reading"
             c == [Context EXCEPT !.pc = next, !.HasMethod = Context.HasLoadedBitCode,
                                  !.unmanaged = unmanaged]
  <2>1. At("read") /\ UNCHANGED <<readyToRun, requests, caches, owned, returned, failedRead>>
        /\ SetContext(c)
    BY <1>3 DEF readMethod
  <2>2. /\ Context.pc = "read" /\ Context \in ContextRecords /\ ClassTypeMap' \in SUBSET Classes /\ laidOut' \in SUBSET Classes /\ failedRead' \in BOOLEAN
        /\ readyToRun /\ ~failedRead => Context.used \subseteq Context.recorded /\ laidOut = {}
    BY <2>1, InnermostInv DEF caches
  <2>3. /\ c \in ContextRecords /\ c.id = Context.id /\ c.pc = next
        /\ c.HasMethod = Context.HasLoadedBitCode
        /\ c.HasLoadedBitCode = Context.HasLoadedBitCode
        /\ c.used = Context.used /\ c.recorded = Context.recorded
    BY <2>2 DEF ContextRecords, PCs
  <2>4. c.pc # "options" /\ (c.pc # "import" => ~c.HasMethod)
        /\ ~(c.HasMethod /\ ~c.HasLoadedBitCode)
    BY <2>3
  <2> HIDE DEF c, next
  <2>5. QED
    BY <2>1, <2>2, <2>3, <2>4, AdvanceStep DEF caches
<1>4. ASSUME NEW k \in Classes, NEW GetAggregateFields \in BOOLEAN,
             getClassType(k, GetAggregateFields)
      PROVE  IInv'
  <2>1. /\ At("reading") /\ ClassTypeMap' = ClassTypeMap \union {k}
        /\ UNCHANGED <<readyToRun, requests, owned, returned, failedRead>>
    BY <1>4 DEF getClassType
  <2>2. /\ Context \in ContextRecords /\ ClassTypeMap \in SUBSET Classes /\ laidOut \in SUBSET Classes
        /\ failedRead' \in BOOLEAN
        /\ Context.pc = "reading" /\ ~Context.HasMethod
        /\ readyToRun /\ ~failedRead =>
             Context.used \subseteq Context.recorded /\ laidOut \subseteq Context.used
    BY <2>1, InnermostInv
  <2>3. CASE GetAggregateFields
    <3> DEFINE c == [Context EXCEPT !.used = @ \union {k},
                                    !.recorded = @ \union ({k} \ laidOut)]
    <3>1. k \notin Context.used /\ laidOut' = laidOut \union {k} /\ SetContext(c)
      BY <1>4, <2>3 DEF getClassType
    <3>2. /\ c \in ContextRecords /\ c.id = Context.id /\ c.pc = "reading"
          /\ c.HasMethod = Context.HasMethod
          /\ c.used = Context.used \union {k}
          /\ c.recorded = Context.recorded \union ({k} \ laidOut)
      BY <2>2 DEF ContextRecords, PCs
    <3> HIDE DEF c
    <3>3. readyToRun /\ ~failedRead' => c.used \subseteq c.recorded /\ laidOut' \subseteq c.used
      BY <2>1, <2>2, <3>1, <3>2
    <3>4. QED
      BY <2>1, <2>2, <3>1, <3>2, <3>3, AdvanceStep DEF caches
  <2>4. CASE ~GetAggregateFields
    <3>1. UNCHANGED <<readyToRun, requests, contexts, laidOut, owned, returned, failedRead>>
      BY <1>4, <2>1, <2>4 DEF getClassType
    <3>2. ClassTypeMap' \in SUBSET Classes
      BY <2>1, <2>2
    <3>3. TypeOK'
      BY <3>1, <3>2 DEF IInv, TypeOK
    <3>4. QED
      BY <3>1, <3>3 DEF IInv, Numbered, CachedIsUsed, FlagIsSet, ObjectsOwned, ObjectsOf,
                        Answered, UnrecordedOnlyAfterFailure, TransitionsLowered
  <2>5. QED
    BY <2>3, <2>4
<1>5. CASE readerPostPass
  <2> DEFINE c == [Context EXCEPT !.pc = "read_done"]
  <2>1. At("reading") /\ laidOut' = (IF readyToRun THEN {} ELSE laidOut)
        /\ ClassTypeMap' = (IF readyToRun THEN {} ELSE ClassTypeMap)
        /\ UNCHANGED <<readyToRun, requests, owned, returned, failedRead>> /\ SetContext(c)
    BY <1>5 DEF readerPostPass, Goto
  <2>2. /\ Context.pc = "reading" /\ Context \in ContextRecords /\ ClassTypeMap \in SUBSET Classes /\ laidOut \in SUBSET Classes /\ failedRead' \in BOOLEAN
        /\ ~Context.HasMethod
        /\ readyToRun /\ ~failedRead =>
             Context.used \subseteq Context.recorded /\ laidOut \subseteq Context.used
    BY <2>1, InnermostInv DEF caches
  <2>3. /\ c \in ContextRecords /\ c.id = Context.id /\ c.pc = "read_done"
        /\ c.HasMethod = Context.HasMethod
        /\ c.used = Context.used /\ c.recorded = Context.recorded
    BY <2>2 DEF ContextRecords, PCs
  <2> HIDE DEF c
  <2>4. QED
    BY <2>1, <2>2, <2>3, AdvanceStep DEF caches
<1>6. CASE notYetImplemented
  <2> DEFINE c == [Context EXCEPT !.pc = "import"]
  <2>1. At("reading") /\ failedRead' = TRUE
        /\ UNCHANGED <<readyToRun, requests, caches, owned, returned>> /\ SetContext(c)
    BY <1>6 DEF notYetImplemented, Goto
  <2>2. /\ Context.pc = "reading" /\ Context \in ContextRecords /\ ClassTypeMap' \in SUBSET Classes /\ laidOut' \in SUBSET Classes /\ ~Context.HasMethod
    BY <2>1, InnermostInv DEF caches
  <2>3. /\ c \in ContextRecords /\ c.id = Context.id /\ c.pc = "import"
        /\ c.HasMethod = Context.HasMethod
    BY <2>2 DEF ContextRecords, PCs
  <2> HIDE DEF c
  <2>4. QED
    BY <2>1, <2>2, <2>3, AdvanceStep DEF caches
<1>7. ASSUME NEW ok \in BOOLEAN, verifyModule(ok)
      PROVE  IInv'
  <2> DEFINE c == [Context EXCEPT !.pc = "import", !.HasMethod = ok,
                                  !.ContainsUnmanagedCall = Context.unmanaged]
  <2>1. At("read_done") /\ UNCHANGED <<readyToRun, requests, caches, owned, returned, failedRead>>
        /\ SetContext(c)
    BY <1>7 DEF verifyModule
  <2>2. /\ Context.pc = "read_done" /\ Context \in ContextRecords /\ ClassTypeMap' \in SUBSET Classes /\ laidOut' \in SUBSET Classes /\ failedRead' \in BOOLEAN
        /\ readyToRun /\ ~failedRead => Context.used \subseteq Context.recorded /\ laidOut = {}
    BY <2>1, InnermostInv DEF caches
  <2>3. /\ c \in ContextRecords /\ c.id = Context.id /\ c.pc = "import"
        /\ c.ContainsUnmanagedCall = c.unmanaged
        /\ c.used = Context.used /\ c.recorded = Context.recorded
    BY <2>2 DEF ContextRecords, PCs
  <2> HIDE DEF c
  <2>4. QED
    BY <2>1, <2>2, <2>3, AdvanceStep DEF caches
<1>8. CASE importOnly
  <2>1. At("import") /\ Context.importOnly /\ Return("import_only", "CORJIT_OK", FALSE, FALSE)
        /\ UNCHANGED <<readyToRun, requests, caches, owned, failedRead>>
    BY <1>8 DEF importOnly
  <2>2. ObjectsOf(Context.id) \subseteq EarlyReturnLeaves("import_only")
    BY DEF EarlyReturnLeaves, ObjectsOf
  <2>3. QED
    BY <2>1, <2>2, ReturnStep DEF Exits
<1>9. ASSUME NEW doInsertStatepoints \in BOOLEAN, generate(doInsertStatepoints)
      PROVE  IInv'
  <2>1. At("import") /\ owned' = cleanUp
        /\ UNCHANGED <<readyToRun, requests, caches, failedRead>>
    BY <1>9 DEF generate
  <2>2. /\ Context \in ContextRecords
        /\ Context.HasMethod /\ ~Context.HasLoadedBitCode =>
              Context.ContainsUnmanagedCall = Context.unmanaged
    BY <2>1, InnermostInv DEF caches
  <2>3. CASE Context.HasMethod
    <3> DEFINE rewritten == Context.ContainsUnmanagedCall \/ doInsertStatepoints
    <3>1. rewritten \in BOOLEAN
      OBVIOUS
    <3>2. Return("end", "CORJIT_OK", TRUE, rewritten)
      BY <1>9, <2>3 DEF generate
    <3>3. Context.unmanaged /\ ~Context.HasLoadedBitCode => rewritten
      BY <2>2, <2>3
    <3> HIDE DEF rewritten
    <3>4. QED
      BY <2>1, <3>1, <3>2, <3>3, ReturnStep DEF Exits
  <2>4. CASE ~Context.HasMethod
    <3>1. Return("end", "CORJIT_INTERNALERROR", FALSE, FALSE)
      BY <1>9, <2>4 DEF generate
    <3>2. QED
      BY <2>1, <3>1, ReturnStep DEF Exits
  <2>5. QED
    BY <2>3, <2>4
<1>10. QED
  BY <1>1, <1>2, <1>3, <1>4, <1>5, <1>6, <1>7, <1>8, <1>9 DEF Compile

-----------------------------------------------------------------------------
(* The inductive invariant holds in every state. *)
LEMMA SpecIInv == Spec => []IInv
<1>1. IInv /\ [Next]_vars => IInv'
  <2> SUFFICES ASSUME IInv, [Next]_vars PROVE IInv'
    OBVIOUS
  <2>1. CASE UNCHANGED vars
    BY <2>1 DEF vars, IInv, TypeOK, Numbered, CachedIsUsed, FlagIsSet,
                ObjectsOwned, ObjectsOf, Answered, UnrecordedOnlyAfterFailure, TransitionsLowered
  <2>2. CASE Next
    BY <2>2, StartStep, MalformedStep, CompileStep DEF Next
  <2>3. QED
    BY <2>1, <2>2
<1>2. QED
  BY <1>1, IInvInit, PTL DEF Spec

(* A request under way has exactly the objects it has made: nested requests delete none
   of them.  A request that was answered has left none behind, unless it was answered by
   one of the two early returns of compileMethod, for an unknown target (which leaves
   the ABI and GC information) and for import only (which leaves the target machine
   too). *)
THEOREM ObjectsOwnedHolds == Spec => []ObjectsOwned
<1>1. IInv => ObjectsOwned
  BY DEF IInv
<1>2. QED
  BY <1>1, SpecIInv, PTL

(* In crossgen, a method with a layout dependence that was not recorded is answered
   only after the reading of some method was given up: clearing the caches at the end
   of each reading is enough otherwise. *)
THEOREM UnrecordedOnlyAfterFailureHolds == Spec => []UnrecordedOnlyAfterFailure
<1>1. IInv => UnrecordedOnlyAfterFailure
  BY DEF IInv
<1>2. QED
  BY <1>1, SpecIInv, PTL

(* A method read from IL that contains an unmanaged call is generated with its gc
   transitions lowered, whatever the uninitialised flag held. *)
THEOREM TransitionsLoweredHolds == Spec => []TransitionsLowered
<1>1. IInv => TransitionsLowered
  BY DEF IInv
<1>2. QED
  BY <1>1, SpecIInv, PTL
=============================================================================
