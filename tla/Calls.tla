-------------------------------- MODULE Calls --------------------------------
(***************************************************************************)
(* Calls: what the code emitted for a method does at its entry, at each    *)
(* call, calli, callvirt, newobj and jmp, and at its return.  One method   *)
(* (self) is compiled; its IL is made up of the instructions around calls  *)
(* to one other method (callee).  The EE answers getCallInfo in every way  *)
(* its contract allows.  An operand is the sequence of its bytes (module   *)
(* ABI); the name of its first byte says what object, function or context  *)
(* it is.                                                                  *)
(*                                                                         *)
(* A method is [name, this |-> "none" | "ref" | "byref", secret, typeArg   *)
(* |-> "none" | "method" | "class", conv, params, result, class, virtual,  *)
(* shared, constraint, synch, security, localloc, addressTaken, unsafeArg].*)
(***************************************************************************)
EXTENDS ABI

CONSTANTS Envs,          \* [windows, r2r, optimize, tailOpt] of the compilation
          Pairs,         \* the pairs <<self, callee>> that are explored
          ArgNames,      \* the names of the operands of a call, by position
          MaxSteps       \* bound on the instructions of self

VARIABLES env, self, callee,     \* chosen once
          phase,         \* where self is: entry, body, unmanaged, done or failed
          homes,         \* self's arguments as its code finds them
          stack,         \* ReaderOperandStack
          ftn,           \* LoadFtnToken
          prefix,        \* the prefixes that wait for a call
          next,          \* what IL follows: anything, or a ret (behind a pop)
          monitor,       \* whether self holds its monitor
          thread,        \* the thread's chain of explicit frames
          frame,         \* self's InlinedCallFrame
          secret,        \* what secretParam() gives in self
          last,          \* the call just made
          steps          \* the instructions so far

vars == <<env, self, callee, phase, homes, stack, ftn, prefix, next, monitor, thread,
          frame, secret, last, steps>>
fixed == <<env, self, callee, homes, secret, monitor>>

NameOf(value) == value[1][1]
Pointer(name) == Value(name, "ref")
Handle(name)  == Value(name, "i8")
Null          == Pointer("null")
IsNull(value) == NameOf(value) = "null"

NoPrefix == [tail |-> FALSE, constrained |-> FALSE, readonly |-> FALSE]
NoCall   == [op |-> "none", threw |-> "none", target |-> <<"none", "">>, wanted |-> <<"none", "">>,
             wantedThrow |-> "none", got |-> <<>>, want |-> <<>>, wide |-> TRUE,
             tail |-> FALSE, unmarked |-> FALSE, temps |-> FALSE, binds |-> <<>>, bind |-> <<>>]

----------------------------------------------------------------------------
(* Signatures *)

HasThis(m)  == m.this # "none"
Hidden(b)   == IF b THEN <<"i8">> ELSE <<>>
ThisType(m) == IF HasThis(m) THEN <<m.this>> ELSE <<>>

\* Where a method's runtime signature has its hidden parameters.
getSecretParameterIndex(m) == 1
getThisIndex(m)        == One(m.secret) + 1
getTypeArgIndex(m)     == One(m.secret) + One(HasThis(m)) + 1
getNormalParamStart(m) == One(m.secret) + One(HasThis(m)) + One(m.typeArg # "none") + 1

\* The runtime signature of the method being compiled.
initMethodInfo(m) ==
    [this |-> HasThis(m), secret |-> m.secret, conv |-> m.conv, result |-> m.result,
     args |-> Hidden(m.secret) \o ThisType(m) \o Hidden(m.typeArg # "none") \o m.params]

\* The signature rdrCall calls with.  A helper that looks up a virtual function
\* gives an instantiating stub, which takes no instantiation.
CallTargetSignature(m, kind, result) ==
    [this |-> HasThis(m), secret |-> FALSE, conv |-> m.conv, result |-> result,
     args |-> ThisType(m) \o Hidden(m.typeArg # "none" /\ kind # "LDVIRTFTN") \o m.params]

\* The stack's view of a type, and back.
StackBytes(t) == IF Bytes(t) < 4 /\ TypeInfo[t].form = "int" THEN 4 ELSE Bytes(t)
StackValue(name, t) == [b \in 1 .. StackBytes(t) |-> <<name, b>>]
FromStack(value, t) == SubSeq(value, 1, Bytes(t))

----------------------------------------------------------------------------
(* Entry *)

\* What the EE passes to self, and what self makes of it.
EEArguments(m) ==
    LET sig == initMethodInfo(m)
    IN  [i \in DOMAIN sig.args |->
            CASE m.secret /\ i = getSecretParameterIndex(m)       -> Handle("secret")
              [] HasThis(m) /\ i = getThisIndex(m)                -> Pointer("this")
              [] m.typeArg # "none" /\ i = getTypeArgIndex(m)     -> Handle(m.typeArg)
              [] OTHER -> Value(ArgNames[i + 1 - getNormalParamStart(m)], sig.args[i])]

\* A stub's secret parameter is passed as a special argument, in front of the rest.
EEMachine(m) ==
    LET sig  == initMethodInfo(m)
        n    == One(m.secret)
        rest == [sig EXCEPT !.args = SubSeq(@, n + 1, Len(@)), !.secret = FALSE]
    IN  Machine(env.windows,
                CallLayout(ABISignature(env.windows, rest), rest, SubSeq(EEArguments(m), n + 1, Len(sig.args)),
                           SubSeq(EEArguments(m), 1, n), FALSE),
                m.secret)

\* The first argument of the LLVM function.
secretParam(received) == received.first

thisObj == homes[getThisIndex(self)]
instParam == homes[getTypeArgIndex(self)]

\* The helpers that give the class of a method's instantiation and a class's lock.
ClassFromMethod(handle)   == IF handle = "method" THEN "class" ELSE "data"
SyncFromClass(handle) == IF handle = "class" THEN "classLock" ELSE "data"

\* The object a synchronized method locks.
rdrGetCritSect ==
    CASE HasThis(self) -> NameOf(thisObj)
      [] ~HasThis(self) /\ self.typeArg = "none"   -> "classLock"
      [] ~HasThis(self) /\ self.typeArg = "class"  -> SyncFromClass(NameOf(instParam))
      [] ~HasThis(self) /\ self.typeArg = "method" ->
           SyncFromClass(ClassFromMethod(NameOf(instParam)))

\* The frame is linked to the thread's chain in the prolog.
insertIRForUnmanagedCallFrame(datum) ==
    [link |-> thread, datum |-> datum, ret |-> FALSE]

Init ==
    /\ env \in Envs
    /\ \E p \in Pairs : self = p[1] /\ callee = p[2]
    /\ phase = "entry" /\ homes = <<>> /\ stack = <<>> /\ ftn = "none"
    /\ prefix = NoPrefix /\ next = "any" /\ monitor = "none" /\ thread = <<"outer">>
    /\ frame = [link |-> <<>>, datum |-> <<>>, ret |-> FALSE] /\ secret = <<>>
    /\ last = NoCall /\ steps = 0

\* The arguments are homed, the monitor of a synchronized method is entered, and a
\* method with an unmanaged call sets up its frame.
readerPrePass ==
    /\ phase = "entry"
    /\ \E received \in {Enter(env.windows, initMethodInfo(self), EEMachine(self))} :
        /\ homes' = received.homes
        /\ secret' = IF self.secret THEN secretParam(received) ELSE Handle("null")
        /\ frame' = IF callee.conv = "DEFAULT" THEN frame
                    ELSE insertIRForUnmanagedCallFrame(secret')
    /\ phase' = "prolog"
    /\ UNCHANGED <<env, self, callee, stack, ftn, prefix, next, monitor, thread, last, steps>>

callMonitorHelper(isEnter) == IF isEnter THEN rdrGetCritSect ELSE "none"

\* A synchronized method enters its monitor before its own code.
EnterMonitor ==
    /\ phase = "prolog"
    /\ monitor' = IF self.synch THEN callMonitorHelper(TRUE) ELSE "none"
    /\ phase' = "body"
    /\ UNCHANGED <<env, self, callee, homes, secret, stack, ftn, prefix, next, thread, frame,
                   last, steps>>

----------------------------------------------------------------------------
(* Instructions around calls *)

\* An ldftn's token is good for the next instruction only, and only for a newobj.
KeepFtn(op) == IF op = "newobj" THEN ftn ELSE "none"

\* Any instruction but a call.
Instruction(op, s) ==
    /\ phase = "body" /\ next = "any" /\ steps < MaxSteps
    /\ steps' = steps + 1 /\ stack' = s /\ last' = NoCall
    /\ UNCHANGED <<fixed, phase, next, thread, frame>>

\* The this operands IL may have there: an object or null, the address of a variable
\* for a constrained call, of a struct for a method of a value class, a delegate.
Contents == [locObj |-> "obj", locNull |-> "null"]
ThisOperands ==
    CASE callee.constraint = "ref"                 -> {Pointer("locObj"), Pointer("locNull")}
      [] callee.constraint \in {"value", "boxed"}  -> {Pointer("struct")}
      [] callee.constraint = "none" /\ callee.class = "invoke" -> {Pointer("delegate"), Null}
      [] OTHER -> IF callee.this = "ref" THEN {Pointer("obj"), Null} ELSE {Pointer("struct")}

ILArguments == [i \in DOMAIN callee.params |-> StackValue(ArgNames[i], callee.params[i])]

\* The operands of one call; a delegate's constructor takes a pointer that an ldftn
\* or a load of a variable pushes.
LoadOperands ==
    /\ stack = <<>> /\ prefix = NoPrefix
    /\ \E this \in ThisOperands :
        Instruction("ldarg",
            CASE callee.class = "delegate" -> <<Pointer("obj")>>
              [] callee.class # "delegate" /\ HasThis(callee) /\ ~callee.ctor -> <<this>> \o ILArguments
              [] OTHER -> ILArguments)
    /\ ftn' = KeepFtn("ldarg") /\ UNCHANGED prefix

LoadPointer ==
    /\ callee.class = "delegate" /\ Len(stack) = 1
    /\ Instruction("ldloc", Append(stack, Handle("g")))
    /\ ftn' = KeepFtn("ldloc") /\ UNCHANGED prefix

\* Of interest where something waits for the next instruction.
Nop == /\ ftn # "none" \/ prefix # NoPrefix
       /\ Instruction("nop", stack) /\ ftn' = KeepFtn("nop") /\ UNCHANGED prefix
Pop == /\ stack # <<>>
       /\ (callee.class = "delegate" /\ Len(stack) = 2) \/ NameOf(Last(stack)) = "result"
       /\ Instruction("pop", Front(stack)) /\ ftn' = KeepFtn("pop") /\ UNCHANGED prefix

\* A block ends: the prefixes and the token are local to the reading of a block.
NewBlock == /\ ftn # "none" \/ prefix # NoPrefix
            /\ Instruction("block", stack) /\ ftn' = "none" /\ prefix' = NoPrefix

Prefix ==
    /\ stack # <<>> \/ callee.params = <<>>
    /\ callee.class \notin {"delegate", "invoke"} /\ ~callee.ctor
    /\ \/ ~prefix.tail /\ prefix' = [prefix EXCEPT !.tail = TRUE]
       \/ /\ callee.constraint # "none" /\ ~prefix.constrained
          /\ prefix' = [prefix EXCEPT !.constrained = TRUE]
       \/ /\ callee.class = "array" /\ ~prefix.readonly
          /\ prefix' = [prefix EXCEPT !.readonly = TRUE]
    /\ Instruction("prefix", stack) /\ ftn' = KeepFtn("prefix")

\* An entry point as the EE gives it: code behind a number of loads.
Entry(code, level) == [code |-> code, level |-> level]
Load(a)            == [a EXCEPT !.level = @ - 1]
Called(a)          == IF a.level = 0 THEN a.code ELSE <<"data", "">>

rdrGetDirectCallTarget(a) ==
    CASE a.level = 0 -> a
      [] a.level = 1 -> Load(a)
      [] a.level = 2 -> Load(Load(a))

\* A runtime lookup finds the code itself.
rdrGetCodePointerLookupCallTarget(code) == Entry(code, 0)

rdrMakeLdFtnTargetNode(kind, f, level) ==
    IF kind = "CALL" THEN rdrGetDirectCallTarget(Entry(<<f, "">>, level))
                     ELSE rdrGetCodePointerLookupCallTarget(<<f, "">>)

\* Delegates are made of f or g; a calli calls what it is given.
Functions == IF callee.class = "delegate" THEN {"f", "g"} ELSE {callee.name}
CanLoadFunction ==
    \/ callee.class = "delegate" /\ Len(stack) = 1
    \/ callee.indirect /\ stack = (IF HasThis(callee) THEN <<Pointer("obj")>> ELSE <<>>) \o ILArguments

\* ReadyToRun takes the shortcut only for a function known at compile time.
LdFtn ==
    /\ CanLoadFunction /\ prefix = NoPrefix
    /\ \E f \in Functions, kind \in {"CALL", "CODE_POINTER"}, level \in 0 .. 2 :
        /\ Instruction("ldftn",
               Append(stack, Handle(Called(rdrMakeLdFtnTargetNode(kind, f, level))[1])))
        /\ ftn' = IF env.r2r /\ kind # "CALL" THEN "none" ELSE f
    /\ UNCHANGED prefix

\* The function helper for the object finds: f is final, v is overridden.
VirtualFunction(m) == Entry(<<IF m = "v" THEN "override" ELSE m, "">>, 0)
getReadyToRunVirtFuncPtr(m, level) ==
    IF m = "f" THEN rdrMakeLdFtnTargetNode("CALL", m, level) ELSE VirtualFunction(m)
loadVirtFunc(m, level) ==
    IF env.r2r THEN getReadyToRunVirtFuncPtr(m, level) ELSE VirtualFunction(m)

\* ldvirtftn, of a copy of the object.
LdVirtFtn ==
    /\ callee.class = "delegate" /\ Len(stack) = 1 /\ prefix = NoPrefix
    /\ \E m \in {"f", "v"}, level \in 0 .. 2 :
        /\ Instruction("ldvirtftn", Append(stack, Handle(Called(loadVirtFunc(m, level))[1])))
        /\ ftn' = IF env.r2r /\ m = "v" THEN "none" ELSE m
    /\ UNCHANGED prefix

----------------------------------------------------------------------------
(* The target of a call and its this argument *)

\* The EE's answer to getCallInfo.  A virtual method is found through a dispatch
\* stub, the vtable or a helper; another directly, or by a runtime lookup when its
\* code is shared without an instantiation argument.
CallInfos(op) ==
    LET kinds == CASE op = "callvirt" /\ callee.virtual /\ callee.constraint # "value" ->
                        {"STUB", "VTABLE", "LDVIRTFTN"}
                   [] OTHER -> IF callee.shared /\ callee.typeArg = "none"
                               THEN {"CODE_POINTER"} ELSE {"CALL"}
    IN  {[kind |-> k, level |-> l,
          nullCheck |-> op = "callvirt" /\ callee.constraint # "value",
          xform |-> IF op # "callvirt" \/ ~prefix.constrained THEN "none"
                    ELSE CASE callee.constraint = "ref"   -> "deref"
                           [] callee.constraint = "boxed" -> "box"
                           [] OTHER                       -> "none"] :
          k \in kinds, l \in IF kinds = {"CALL"} THEN 0 .. 2 ELSE {0}}

applyThisTransform(info, this) ==
    CASE info.xform = "none"  -> this
      [] info.xform = "deref" -> Pointer(Contents[NameOf(this)])
      [] info.xform = "box"   -> Pointer("box")

\* What a target is found with: an exception, code, the this argument to pass, the
\* indirection cell, and whether the call checks this for null.
TargetOf(code, this, cell, check) ==
    [threw |-> "none", code |-> code, this |-> this, cell |-> cell, check |-> check]
NullReference == [TargetOf(<<"none", "">>, Null, <<>>, FALSE) EXCEPT !.threw = "NullReference"]

\* The code an object of this class runs for the method.
Override(this) == <<callee.name, NameOf(this)>>

\* The stub finds the method by the cell that comes with the call.
rdrGetVirtualStubCallTarget(this) ==
    TargetOf(Called(Load(Entry(<<"resolver", "">>, 1))), this, <<Handle("cell")>>, TRUE)

rdrGetIndirectVirtualCallTarget(this) ==
    IF IsNull(this) THEN NullReference ELSE TargetOf(Override(this), this, <<>>, FALSE)

\* Mistake: the code is called from the chunk, one load early.
rdrGetVirtualTableCallTarget_Chunk(this) ==
    IF IsNull(this) THEN NullReference
    ELSE TargetOf(Called(Load(Load(Entry(Override(this), 3)))), this, <<>>, FALSE)

\* From the object to its vtable, to a chunk, to the code.
rdrGetVirtualTableCallTarget(this) ==
    IF IsNull(this) THEN NullReference
    ELSE TargetOf(Called(Load(Load(Load(Entry(Override(this), 3))))), this, <<>>, FALSE)

\* The delegate's own object and code are called instead.  Both are loaded through a
\* sum of the delegate and an offset; the check for null is of the sum, which a null
\* delegate passes: whatever lies at the offset is called.
rdrGetDelegateInvokeTarget(this) ==
    IF IsNull(this) THEN TargetOf(<<"data", "">>, Pointer("data"), <<>>, FALSE)
    ELSE TargetOf(<<"bound", "">>, Pointer("instance"), <<>>, FALSE)

rdrCallIsDelegateInvoke == callee.class = "invoke"

\* The method the EE resolved, a value class's own for a constrained call.
ResolvedMethod ==
    <<callee.name, IF prefix.constrained /\ callee.constraint = "value" THEN "struct" ELSE "">>

rdrMakeCallTargetNode(info, this) ==
    CASE rdrCallIsDelegateInvoke -> rdrGetDelegateInvokeTarget(this)
      [] ~rdrCallIsDelegateInvoke /\ info.kind = "CALL" ->
           TargetOf(Called(rdrGetDirectCallTarget(Entry(ResolvedMethod, info.level))),
                    this, <<>>, info.nullCheck)
      [] ~rdrCallIsDelegateInvoke /\ info.kind = "CODE_POINTER" ->
           TargetOf(Called(rdrGetCodePointerLookupCallTarget(ResolvedMethod)),
                    this, <<>>, info.nullCheck)
      [] ~rdrCallIsDelegateInvoke /\ info.kind = "STUB" -> rdrGetVirtualStubCallTarget(this)
      [] ~rdrCallIsDelegateInvoke /\ info.kind = "LDVIRTFTN" ->
           rdrGetIndirectVirtualCallTarget(this)
      [] OTHER -> rdrGetVirtualTableCallTarget(this)

\* A readonly Address of an array is told so by a null instantiation.
getTypeContextNode ==
    CASE callee.typeArg = "method" -> Handle("methodContext")
      [] callee.typeArg # "method" /\ callee.class = "array" /\ prefix.readonly -> Handle("null")
      [] OTHER -> Handle("classContext")

----------------------------------------------------------------------------
(* Tail calls *)

\* A call directly before a ret, both of the same type and not of a value class.  The
\* branches for a pop in between need TAMD64, which no build defines.
isUnmarkedTailCallHelper(follow) ==
    follow = "ret" /\ callee.result = self.result /\ ~IsAggregate(callee.result)

\* A tail. prefix anywhere else is an error of the IL, before the pop of a result too.
checkExplicitTailCall(follow) == follow = "ret"

\* An argument with a home is of an unsafe struct.  (HasLocAlloc is not known yet when
\* the pre-pass copies it, so a localloc does not count.)
NeedsStackSecurityCheck == self.unsafeArg
\* The method called, when the EE names it.
IsRecursive(op, kind) == op # "calli" /\ kind = "CALL" /\ callee.name = self.name

\* Mistake: an unmarked tail call may leave the address of a local behind.
tailCallChecks_AddressTaken(op, kind, unmarked, indirect, canTailCall, canInline) ==
    /\ ~self.synch /\ ~self.security
    /\ unmarked => env.optimize /\ env.tailOpt /\ ~self.localloc
    /\ ~NeedsStackSecurityCheck
    /\ canTailCall
    /\ IF IsRecursive(op, kind) THEN canInline ELSE ~indirect

tailCallChecks(op, kind, unmarked, indirect, canTailCall, canInline) ==
    /\ ~self.synch /\ ~self.security
    /\ unmarked => env.optimize /\ env.tailOpt /\ ~self.localloc /\ ~self.addressTaken
    /\ ~NeedsStackSecurityCheck
    /\ canTailCall
    /\ IF IsRecursive(op, kind) THEN canInline ELSE ~indirect

----------------------------------------------------------------------------
(* Making a call *)

\* The values rdrCall passes: this, the instantiation and the operands, narrowed.
Arguments(this, kind, operands) ==
    (IF HasThis(callee) THEN <<this>> ELSE <<>>)
      \o (IF callee.typeArg # "none" /\ kind # "LDVIRTFTN" THEN <<getTypeContextNode>> ELSE <<>>)
      \o [i \in DOMAIN callee.params |-> FromStack(operands[i], callee.params[i])]

\* The same as IL has it: what the callee's parameters are to be.
WantedArguments(this, kind, operands) ==
    (IF HasThis(callee) THEN <<this>> ELSE <<>>)
      \o (IF callee.typeArg # "none" /\ kind # "LDVIRTFTN"
          THEN << Handle(IF callee.typeArg = "method" THEN "methodContext"
                         ELSE IF callee.class = "array" /\ prefix.readonly THEN "null"
                         ELSE "classContext") >> ELSE <<>>)
      \o [i \in DOMAIN callee.params |-> SubSeq(operands[i], 1, Bytes(callee.params[i]))]

\* The signature of the code that is entered.  An instantiating stub adds the
\* instantiation itself.
EnteredSignature(kind, result) ==
    [this |-> HasThis(callee), secret |-> FALSE, conv |-> callee.conv, result |-> result,
     args |-> ThisType(callee)
                \o Hidden(callee.typeArg # "none" /\ kind # "LDVIRTFTN") \o callee.params]

\* The code that runs: a dispatch stub goes by the cell in the special register.
Dispatched(code, this, machine) ==
    IF code # <<"resolver", "">> THEN code
    ELSE IF <<"special", 0>> \in DOMAIN machine
            /\ machine[<<"special", 0>>].bytes = Handle("cell")
         THEN Override(this) ELSE <<"data", "">>

\* What reaches the callee (got, and in full registers if wide) and what should.
Reached(received, entered, managed, want) ==
    [NoCall EXCEPT
        !.got  = received.homes,
        !.want = want,
        !.wide = managed => \A i \in DOMAIN received.registers :
                               received.registers[i] = Extended(want[i], entered.args[i])]
\* The callee is entered with what is in the registers and on the stack.
Jump(machine, entered, managed, want, code, this) ==
    [Reached(Enter(env.windows, entered, machine), entered, managed, want)
     EXCEPT !.target = Dispatched(code, this, machine)]
\* The slots of the call are put there.
PassSlots(slots, hasSpecial, entered, managed, want, code, this) ==
    [Jump(Machine(env.windows, slots, hasSpecial), entered, managed, want, code, this)
     EXCEPT !.temps = \E i \in DOMAIN slots : slots[i].at = "temp"]
\* A call with signature sig of code with signature entered.
Pass(sig, entered, values, special, isJmp, want, code, this) ==
    PassSlots(CallLayout(ABISignature(env.windows, sig), sig, values, special, isJmp),
              special # <<>>, entered, IsManagedCallingConv(sig.conv), want, code, this)

\* The result, of type t, as the caller has it on the stack.
ResultOperand(sig, entered, t) ==
    IF t = "void" THEN <<>>
    ELSE << Extended(CallResult(ABISignature(env.windows, sig),
                                Returned(ABISignature(env.windows, entered), Value("result", t), t),
                                t), t) >>
WantedResult(t) == IF t = "void" THEN <<>> ELSE << Extended(Value("result", t), t) >>

\* What IL asks for: the object, and the code for it.
WantedThis(operand) ==
    CASE callee.class = "invoke"      -> Pointer("instance")
      [] callee.constraint = "ref"    -> Pointer(Contents[NameOf(operand)])
      [] callee.constraint = "boxed"  -> Pointer("box")
      [] OTHER                        -> operand
WantedCode(op, this) ==
    CASE callee.class = "invoke"             -> <<"bound", "">>
      [] callee.constraint = "value"         -> <<callee.name, "struct">>
      [] /\ op = "callvirt" /\ callee.virtual
         /\ callee.class # "invoke" /\ callee.constraint # "value" -> Override(this)
      [] OTHER                               -> <<callee.name, "">>
WantedThrow(op, operand) ==
    IF /\ HasThis(callee)
       /\ \/ callee.class = "invoke" /\ IsNull(operand)
          \/ callee.class # "invoke" /\ op = "callvirt" /\ IsNull(WantedThis(operand))
    THEN "NullReference" ELSE "none"

\* The operands of a call, without the pointer of a calli.
Operands(op) == IF op = "calli" THEN Front(stack) ELSE stack
\* The operands are on the stack, in the form the instruction needs.
Ready(op) ==
    /\ phase = "body" /\ next = "any" /\ ~callee.ctor
    /\ \A i \in DOMAIN stack : NameOf(stack[i]) # "result"
    /\ Len(stack) = Len(callee.params) + One(HasThis(callee)) + One(op = "calli")
    /\ op = "calli"    => callee.indirect /\ ~prefix.constrained
    /\ op = "call"     => callee.constraint = "none" /\ callee.class # "invoke"
    /\ op = "callvirt" => HasThis(callee) /\ callee.this = "ref"
                            /\ (prefix.constrained <=> callee.constraint # "none")

\* The IL that may follow: the ret of this method needs its result.
Follows ==
    {"any"} \cup (IF callee.result = self.result THEN {"ret"} ELSE {})
            \cup (IF self.result = "void" /\ callee.result # "void" THEN {"popret"} ELSE {})

IsCandidate(op, follow) ==
    prefix.tail \/ (op # "calli" /\ env.tailOpt /\ isUnmarkedTailCallHelper(follow))

\* The target of a call: the this argument is transformed, then the code is found.
CallTarget(op, info) ==
    LET this == IF HasThis(callee) THEN applyThisTransform(info, Operands(op)[1]) ELSE Null
    IN  IF op = "calli" THEN TargetOf(<<NameOf(Last(stack)), "">>, this, <<>>, FALSE)
        ELSE rdrMakeCallTargetNode(info, this)

\* One call: the this argument checked, the arguments passed.
CallRecord(op, info, target) ==
    LET ops     == Operands(op)
        n       == One(HasThis(callee))
        wanted  == IF n = 1 THEN WantedThis(ops[1]) ELSE Null
        rest    == SubSeq(ops, n + 1, Len(ops))
        threw   == IF target.check /\ IsNull(target.this) THEN "NullReference" ELSE target.threw
    IN  [IF threw # "none" THEN [NoCall EXCEPT !.threw = threw]
         ELSE Pass(CallTargetSignature(callee, info.kind, callee.result),
                   EnteredSignature(info.kind, callee.result),
                   Arguments(target.this, info.kind, rest), target.cell, FALSE,
                   WantedArguments(wanted, info.kind, rest), target.code, target.this)
         EXCEPT
            !.op = op, !.unmarked = ~prefix.tail,
            !.wanted = WantedCode(op, wanted),
            !.wantedThrow = IF n = 1 THEN WantedThrow(op, ops[1]) ELSE "none"]

\* Whether the call may run in the caller's frame, given the EE's answers.  An invoke,
\* the call of a protected region, is never marked.
IsTailCall(op, info, follow, invoke, canTail, canInline) ==
    /\ IsCandidate(op, follow) /\ ~invoke
    /\ tailCallChecks(op, info.kind, ~prefix.tail,
                      hasIndirectResultOrArg(ABISignature(env.windows,
                          CallTargetSignature(callee, info.kind, callee.result))),
                      canTail, canInline)

\* After a call the prefixes are used up and the result is on the stack.
AfterCall(follow, result) ==
    /\ prefix' = NoPrefix /\ next' = follow /\ stack' = result
    /\ UNCHANGED <<fixed, thread, frame>>

Fail(op) == /\ phase' = "failed" /\ last' = [NoCall EXCEPT !.op = op, !.threw = "failed"]
            /\ UNCHANGED <<fixed, stack, prefix, next, thread, frame>>

\* What rdrCall takes for the EE's answer at a calli, which has no token to ask about.
CalliInfo == [kind |-> "CALL", level |-> 0, nullCheck |-> FALSE, xform |-> "none"]

\* call, callvirt and managed calli, and what IL follows.
rdrCall(op) ==
    /\ Ready(op) /\ steps < MaxSteps /\ callee.conv = "DEFAULT"
    /\ ftn' = KeepFtn(op) /\ steps' = steps + 1
    /\ \E info \in IF op = "calli" THEN {CalliInfo} ELSE CallInfos(op) :
       \E target \in {CallTarget(op, info)} :
       \E c \in {CallRecord(op, info, target)}, follow \in Follows :
          \/ prefix.tail /\ ~checkExplicitTailCall(follow) /\ Fail("badcode")
          \/ /\ prefix.tail => checkExplicitTailCall(follow)
             /\ c.threw # "none" /\ phase' = "threw" /\ last' = c
             /\ UNCHANGED <<fixed, stack, prefix, next, thread, frame>>
          \/ /\ prefix.tail => checkExplicitTailCall(follow)
             /\ c.threw = "none" /\ phase' = "body"
             /\ \E invoke, canTail, canInline \in IF IsCandidate(op, follow) THEN BOOLEAN ELSE {FALSE} :
                  last' = [c EXCEPT !.tail = IsTailCall(op, info, follow, invoke, canTail, canInline)]
             /\ AfterCall(follow,
                   ResultOperand(CallTargetSignature(callee, info.kind, callee.result),
                                 EnteredSignature(info.kind, callee.result), callee.result))

\* Only a calli may call unmanaged code.
DirectUnmanagedCall ==
    /\ callee.conv # "DEFAULT" /\ Ready("call") /\ steps < MaxSteps
    /\ Fail("nyi") /\ ftn' = "none" /\ steps' = steps + 1

\* Mistake: the frame is not taken off the thread's chain again.
PopFrame_Never == thread

\* The frame goes onto the thread's chain for the call, with the stub's secret as
\* its datum, and comes off again after it.
PushFrame == <<"frame">> \o thread
PopFrame  == frame.link

\* A calli of unmanaged code, which has no prefix: the thread is in preemptive mode
\* until it returns.
emitUnmanagedCall(follow) ==
    /\ callee.conv # "DEFAULT" /\ Ready("calli") /\ steps < MaxSteps
    /\ ~prefix.tail /\ ftn' = "none" /\ steps' = steps + 1
    /\ \E info \in {CalliInfo} : \E target \in {CallTarget("calli", info)} :
          last' = [CallRecord("calli", info, target) EXCEPT
                      !.tail = IsTailCall("calli", info, follow, FALSE, FALSE, FALSE)]
    /\ thread' = PushFrame
    /\ frame' = [frame EXCEPT !.ret = TRUE,
                              !.datum = IF self.secret THEN secret ELSE @]
    /\ phase' = "unmanaged" /\ next' = follow /\ stack' = <<>>
    /\ UNCHANGED <<fixed, prefix>>

UnmanagedReturn ==
    /\ phase = "unmanaged"
    /\ thread' = PopFrame /\ frame' = [frame EXCEPT !.ret = FALSE]
    /\ stack' = LET sig == CallTargetSignature(callee, "CALL", callee.result)
                IN  ResultOperand(sig, EnteredSignature("CALL", callee.result), callee.result)
    /\ phase' = "body" /\ last' = NoCall
    /\ UNCHANGED <<fixed, ftn, prefix, next, steps>>

----------------------------------------------------------------------------
(* newobj *)

\* A variable-sized object is allocated by its constructor, a struct in the frame,
\* any other object by a helper.
genNewObjThisArg ==
    CASE callee.class = "varsize" -> Null
      [] callee.class = "value"   -> Pointer("temporary")
      [] OTHER                    -> Pointer("new")

\* The struct the constructor filled in, or the object.
genNewObjReturnNode(this) ==
    IF callee.class = "value" THEN Value("constructed", callee.structType) ELSE this

rdrMakeNewObjReturnNode(this, result) ==
    IF callee.class = "varsize" THEN result ELSE genNewObjReturnNode(this)

\* The type of a newobj call's result: a string's constructor returns it.
NewObjResult == IF callee.class = "varsize" THEN "ref" ELSE "void"

rdrMakeNewObjThisArg == IF callee.class = "array" THEN Null ELSE genNewObjThisArg

\* newobj of anything but a delegate or an array.
NewObj ==
    /\ phase = "body" /\ next = "any" /\ steps < MaxSteps /\ prefix = NoPrefix
    /\ callee.ctor /\ callee.class \notin {"delegate", "array"}
    /\ Len(stack) = Len(callee.params)
    /\ \E this \in {rdrMakeNewObjThisArg} :
        /\ last' = [Pass(CallTargetSignature(callee, "CALL", NewObjResult),
                         EnteredSignature("CALL", NewObjResult),
                         Arguments(this, "CALL", stack), <<>>, FALSE,
                         WantedArguments(IF callee.class = "varsize" THEN Null ELSE this, "CALL", stack),
                         <<callee.name, "">>, this)
                    EXCEPT !.op = "newobj", !.wanted = <<callee.name, "">>]
        /\ stack' = << rdrMakeNewObjReturnNode(this,
                          CallResult(ABISignature(env.windows,
                                                  CallTargetSignature(callee, "CALL", "ref")),
                                     <<Value("result", "ref")>>, "ref")) >>
    /\ steps' = steps + 1 /\ ftn' = "none"
    /\ UNCHANGED <<fixed, phase, prefix, next, thread, frame>>

\* The argument that tells a variadic helper how many follow.
NumArgs(n) == << <<"numArgs", n>> >>

\* An array's constructor is a helper that is given the class, the number of
\* arguments and the arguments.
genNewMDArrayCall ==
    /\ phase = "body" /\ next = "any" /\ steps < MaxSteps /\ prefix = NoPrefix
    /\ callee.ctor /\ callee.class = "array" /\ Len(stack) = Len(callee.params)
    /\ last' = [NoCall EXCEPT
                   !.op = "newobj", !.target = <<"NEW_MDARR", "">>, !.wanted = <<"NEW_MDARR", "">>,
                   !.got  = <<Handle("class"), NumArgs(Len(callee.params))>>
                               \o [i \in DOMAIN stack |-> FromStack(stack[i], callee.params[i])],
                   !.want = <<Handle("class"), NumArgs(Len(stack))>>
                               \o [i \in DOMAIN stack |-> Value(ArgNames[i], callee.params[i])]]
    /\ stack' = <<Pointer("result")>>
    /\ steps' = steps + 1 /\ ftn' = "none"
    /\ UNCHANGED <<fixed, phase, prefix, next, thread, frame>>

\* How the EE binds a delegate, by the method a constructor is made for.
Binding(method) == CASE method = "f" -> "open" [] method = "g" -> "closed" [] OTHER -> "virtual"

rdrCallIsDelegateConstruct == callee.class = "delegate"
setOptimizedDelegateCtor(extra) ==
    [callee EXCEPT !.params = @ \o [i \in 1 .. extra |-> "i8"]]

\* The check of a delegate the EE does not simply allow: with the token of the
\* function, before anything is made, a helper throws for the one it refuses.
rdrInsertCalloutForDelegate(refused) == ftn # "none" /\ ftn = refused

\* The check fails; last.wantedThrow goes by the function on the stack.
DelegateRefused(function, refused) ==
    /\ last' = [NoCall EXCEPT !.op = "delegate", !.threw = "Security",
                   !.wantedThrow = IF function = refused THEN "Security" ELSE "none"]
    /\ phase' = "threw" /\ ftn' = "none" /\ steps' = steps + 1
    /\ UNCHANGED <<fixed, stack, prefix, next, thread, frame>>

\* A delegate's constructor.  With the token of the function ReadyToRun takes a
\* helper that goes by the token; otherwise the EE may name another constructor,
\* made for the token's method, and up to three more arguments.  last.binds says what
\* the delegate was made of, last.bind what IL asked for.
DelegateMade(function, refused, extra) ==
    LET args   == stack \o [i \in 1 .. extra |-> Handle("extra")]
        sig    == CallTargetSignature(setOptimizedDelegateCtor(extra), "CALL", "void")
        values == <<Pointer("new")>> \o args
        made   == IF ftn # "none" /\ env.r2r
                  THEN [NoCall EXCEPT
                           !.binds = <<NameOf(stack[1]), ftn>>, !.bind = <<NameOf(stack[1]), function>>]
                  ELSE [Pass(sig, sig, values, <<>>, FALSE, values, <<callee.name, "">>, Pointer("new"))
                        EXCEPT !.wanted = <<callee.name, "">>,
                           !.binds = <<NameOf(stack[1]), function>>
                                       \o (IF extra = 0 THEN <<>> ELSE <<Binding(ftn)>>),
                           !.bind  = <<NameOf(stack[1]), function>>
                                       \o (IF extra = 0 THEN <<>> ELSE <<Binding(function)>>)]
    IN  /\ last' = [made EXCEPT !.op = "delegate",
                       !.wantedThrow = IF ftn # "none" /\ function = refused
                                       THEN "Security" ELSE "none"]
        /\ stack' = <<Pointer("new")>> /\ ftn' = "none" /\ steps' = steps + 1
        /\ UNCHANGED <<fixed, phase, prefix, next, thread, frame>>

DelegateConstruct ==
    /\ phase = "body" /\ next = "any" /\ steps < MaxSteps /\ prefix = NoPrefix
    /\ rdrCallIsDelegateConstruct /\ Len(stack) = 2
    /\ \E function \in {NameOf(stack[2])}, refused \in {"none", "f", "g"} :
        \/ rdrInsertCalloutForDelegate(refused) /\ DelegateRefused(function, refused)
        \/ /\ ~rdrInsertCalloutForDelegate(refused)
           /\ \E extra \in IF ftn = "none" \/ env.r2r THEN {0} ELSE 0 .. 3 :
                DelegateMade(function, refused, extra)

----------------------------------------------------------------------------
(* Leaving the method *)

\* jmp: the callee is entered in place of self, with self's arguments and, if self
\* is a stub, its secret parameter.  IL has none in a synchronized method.
jmp ==
    /\ phase = "body" /\ next = "any" /\ steps < MaxSteps /\ stack = <<>> /\ prefix = NoPrefix
    /\ callee.jmp /\ ~self.synch /\ steps' = steps + 1 /\ ftn' = "none"
    /\ IF \/ Len(callee.params) # Len(self.params)
          \/ (callee.typeArg # "none") # (self.typeArg # "none")
          \/ HasThis(callee) # HasThis(self)
       THEN Fail("badcode")
       ELSE LET params(values) == SubSeq(values, getNormalParamStart(self), Len(values))
                this(values)   == IF HasThis(self) THEN values[getThisIndex(self)] ELSE Null
                entered        == [EnteredSignature("CALL", callee.result) EXCEPT
                                      !.secret = self.secret,
                                      !.args = Hidden(self.secret) \o @]
                hidden(value)  == IF self.secret THEN <<value>> ELSE <<>>
            IN  /\ last' = [Pass(CallTargetSignature(callee, "CALL", callee.result), entered,
                                 Arguments(this(homes), "CALL", params(homes)),
                                 hidden(secret), TRUE,
                                 hidden(Handle("secret")) \o
                                    WantedArguments(this(EEArguments(self)), "CALL",
                                                    params(EEArguments(self))),
                                 <<callee.name, "">>, this(homes))
                            EXCEPT !.op = "jmp", !.wanted = <<callee.name, "">>, !.tail = TRUE]
                /\ phase' = "done"
                /\ UNCHANGED <<fixed, stack, prefix, next, thread, frame>>

\* The value a call left is dropped before the ret of a void method.
PopResult == /\ phase = "body" /\ next = "popret" /\ steps < MaxSteps
             /\ stack' = <<>> /\ next' = "ret" /\ steps' = steps + 1 /\ last' = NoCall
             /\ ftn' = KeepFtn("pop")
             /\ UNCHANGED <<fixed, phase, prefix, thread, frame>>

\* What a value on the stack is for self's caller after it went through the registers.
ReturnedValue(value) ==
    LET abi == ABISignature(env.windows, initMethodInfo(self))
    IN  CallResult(abi, Returned(abi, FromStack(value, self.result), self.result), self.result)

\* The result is computed, then the monitor of a synchronized method is left.
returnOpcode ==
    /\ last' = IF self.result = "void" THEN NoCall
               ELSE [NoCall EXCEPT !.op = "ret", !.got = <<ReturnedValue(stack[1])>>,
                                   !.want = <<Value("result", self.result)>>]
    /\ monitor' = IF self.synch THEN callMonitorHelper(FALSE) ELSE monitor
    /\ phase' = "done"

\* ret, of nothing or of what a call gave.
Ret ==
    /\ phase = "body" /\ next \in {"any", "ret"} /\ prefix = NoPrefix
    /\ IF self.result = "void" THEN stack = <<>>
       ELSE /\ Len(stack) = 1 /\ callee.result = self.result
            /\ NameOf(stack[1]) = "result"
    /\ returnOpcode
    /\ stack' = <<>> /\ ftn' = "none"
    /\ UNCHANGED <<env, self, callee, homes, secret, prefix, next, thread, frame, steps>>

----------------------------------------------------------------------------

Next ==
    \/ readerPrePass \/ EnterMonitor
    \/ LoadOperands \/ LoadPointer \/ Nop \/ Pop \/ NewBlock \/ Prefix \/ LdFtn \/ LdVirtFtn
    \/ \E op \in {"call", "callvirt", "calli"} : rdrCall(op)
    \/ DirectUnmanagedCall \/ UnmanagedReturn
    \/ \E follow \in Follows : emitUnmanagedCall(follow)
    \/ NewObj \/ genNewMDArrayCall \/ DelegateConstruct
    \/ jmp \/ PopResult \/ Ret

Spec == Init /\ [][Next]_vars

----------------------------------------------------------------------------
(* Properties *)

\* Exception: createFunction classifies the secret parameter as an argument like any
\* other, which takes one of the six integer registers of System V, while whoever
\* calls self, or is self and jumps, passes it apart: a struct for which a register is
\* left on one side only goes in registers here and on the stack there.
SecretCounted ==
    LET sig == initMethodInfo(self)
    IN  /\ self.secret
        /\ Tail(ABISignature(env.windows, sig).args)
              # ABISignature(env.windows, [sig EXCEPT !.args = Tail(@)]).args

\* Exception: createFunction has the result's buffer in front of the secret parameter
\* (behind this, counted without the secret), emitCall and the runtime behind it.
BufferBeforeSecret ==
    self.secret /\ HasIndirectResult(ABISignature(env.windows, initMethodInfo(self)))

\* Exception: a vector that System V has on the stack is the address of a copy to
\* emitCall and a value to createFunction.
VectorOnStack(sig) ==
    LET infos == ABISignature(env.windows, sig).args
    IN  \E i \in DOMAIN infos : infos[i].kind = "Direct" /\ infos[i].type.form = "vector"

\* Exception: the invocation of a null delegate, which no check stops
\* (rdrGetDelegateInvokeTarget).
UncheckedDelegate ==
    last.op = "callvirt" /\ callee.class = "invoke" /\ last.wantedThrow = "NullReference"

\* Every argument reaches its parameter byte by byte, small integers extended for a
\* managed callee, and every result its caller: whatever the convention, the hidden
\* arguments and the registers left, although caller and callee lay the call out
\* each on its own (emitCall, createFunction, the prolog's homing, returnOpcode).
\* newobj leaves the object its constructor worked on, or the one a string's
\* constructor made (rdrMakeNewObjReturnNode).  The four exceptions above are named;
\* the README says of each what the code does.
ArgumentsDelivered ==
    /\ \/ last.got = last.want /\ last.wide
       \/ last.op = "jmp" /\ (SecretCounted \/ BufferBeforeSecret)
       \/ UncheckedDelegate
       \/ VectorOnStack(EnteredSignature("CALL", callee.result))
    /\ phase # "entry" =>
         \/ homes = EEArguments(self)
         \/ SecretCounted \/ BufferBeforeSecret \/ VectorOnStack(initMethodInfo(self))
    /\ last.op \in {"call", "callvirt", "calli"} /\ phase = "body" =>
         stack = WantedResult(callee.result)
    /\ last.op = "newobj" =>
         stack = << CASE callee.class = "value" -> Value("constructed", callee.structType)
                      [] callee.class \in {"varsize", "array"} -> Pointer("result")
                      [] OTHER -> Pointer("new") >>

\* A call enters the code IL names, with the check for null that the instruction
\* asks for and no other: through entry points behind one or two loads, vtable
\* chunks, dispatch cells and delegates, and after a constrained prefix; but for a
\* null delegate, whose invocation goes on (UncheckedDelegate).  A delegate is made,
\* or refused by the security check, for the object and the function on the stack: a
\* function token left behind by an earlier ldftn (LoadFtnToken) never decides about
\* a newobj.
CallsAsInIL ==
    /\ last.binds = last.bind
    /\ IF last.wantedThrow # "none" THEN last.threw = last.wantedThrow \/ UncheckedDelegate
       ELSE last.threw \in {"none", "failed"} /\ (last.threw = "none" => last.target = last.wanted)

\* The frame of an unmanaged call is on the thread's chain during the call and only
\* then, with the stub's secret as its datum; a synchronized method holds its lock
\* from its prolog to its return.
FramesUnwound ==
    /\ IF phase = "unmanaged"
       THEN /\ thread = <<"frame", "outer">> /\ frame.ret
            /\ self.secret => frame.datum = Handle("secret")
       ELSE thread = <<"outer">> /\ ~frame.ret
    /\ phase \in {"body", "unmanaged"} /\ self.synch =>
         monitor = IF HasThis(self) THEN "this" ELSE "classLock"
    /\ phase = "done" => monitor = "none"

\* A call that may run in the caller's frame is passed nothing that lives there, and
\* no lock outlives the frame (tailCallChecks).  A recursive call is the exception:
\* tailCallChecks does not look at its temporaries (see the README).
SafeTailCalls ==
    last.tail =>
        /\ monitor = "none"
        /\ last.op # "jmp" /\ callee.name # self.name => ~last.temps
        /\ last.unmarked /\ last.op # "jmp" => ~self.addressTaken /\ ~self.localloc
=============================================================================
