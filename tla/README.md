# A TLA+ verification project for LLILC

LLILC is an LLVM-based compiler of MSIL for CoreCLR: a JIT library the runtime
loads, the same library used ahead of time by crossgen, an object writer for
CoreRT and a small disassembler library. This directory holds TLA+ modules
translated from the C++ sources, the TLC configurations that check them on small
instances, and TLAPS proofs that the most important properties hold for every value
of the constants.

`PROJECT.json` is the index: it maps every definition that models code to its
source lines, lists the runs with their properties, the mutants that show that
each property can fail, the hazards the properties are aimed at, the findings
and the theorems.

## 1. The system

### Components

| Component | State it keeps | Operations | Module |
|---|---|---|---|
| GC function info (`lib/GcInfo/GcInfo.cpp`, class `GcFuncInfo`) | map from stack allocation to offset and flags | record, annotate, escape, place | `GcFuncInfo` |
| GC info emitter (same file) | slot map, two live bit sets, the encoder's slots and transitions | header, tracked slots, untracked slots, finalise | `GcInfoEmitter` |
| Method sets (`lib/Jit/utility.cpp`) | process-wide lists of method patterns | parse, lazy initialisation, match | `MethodID`, `MethodSet` |
| Jit options (`lib/Jit/jitoptions.cpp`) | none after construction | query the method sets | `MethodSet` |
| Jit entry (`lib/Jit/LLILCJit.cpp`) | per-thread stack of contexts, per-thread type caches | compileMethod, readMethod | `LLILCJit` |
| EE memory manager (`lib/Jit/EEMemoryManager.cpp`) | blocks of memory and what is left in them | reserve, allocate, register | `EEMemoryManager` |
| Object linking layer (`include/Jit/EEObjectLinkingLayer.h`) | objects added, objects finalized | add, finalize | `EEMemoryManager` |
| EH region tree (`lib/Reader/reader.cpp`) | tree of regions, current region of the walk | sort clauses, insert, walk, make pads | `RegionTree` |
| Finally dispatch (`lib/Reader/readerir.cpp`) | a switch and a selector per finally | leave, endfinally, clone | `FinallyDispatch` |
| First pass of the reader (`reader.cpp`, `readerir.cpp`) | blocks, temporary blocks by target offset | make, split, link, replace targets | `FlowGraph` |
| Second pass of the reader (same files) | worklist, list of blocks, operand stacks, PHI nodes | discover, read, split, propagate, merge | `OperandStacks` |
| Translation of instructions (`readerir.cpp`, `readerenum.h`) | the operand stack, prefixes, tokens kept between instructions | one function per opcode | `StackTypes`, `Arithmetic`, `Objects`, `Calls` |
| ABI lowering (`abi.cpp`, `abisignature.cpp`) | none | classify, expand, coerce, lay out | `ABI`, `Calls` |
| Object load listener (`LLILCJit.cpp`) | what it has told the runtime | debug mappings, locals, relocations | `ObjectLoadListener` |
| Object writer (`lib/ObjWriter`) | LLVM streamers, current section and frame | emit calls of CoreRT | not modelled |
| Disassembler (`lib/CoreDisTools`) | none | compare code blocks | not modelled |
| Bytecode verifier (`gverify.h`, `newvstate.h`) | | | not built, not modelled |

### How they interact

The runtime calls `compileMethod` on any of its threads. The constructor of
`JitOptions` asks the static method sets whether the method is for this jit.
`compileMethod` pushes a context on the thread's stack, has the reader produce
LLVM IR for the method, and runs LLVM over the module. The reader first builds
the region tree from the EH clauses, then the blocks (first pass, which follows
the tree and makes EH pads, leaves and finally switches), then reads the blocks
(second pass), and clones the finally bodies. While it does, it records stack
allocations that hold GC pointers in the GC function info; a machine-function
pass adds their offsets. LLVM writes an object file; the linking layer drives
the memory manager, which asks the runtime for memory and reports unwind
information. The listener of the linking layer records relocations and debug
information and has the GC info emitter turn LLVM's stack map into the table
CoreCLR reads. While a method is read the runtime may call `compileMethod`
again on the same thread, for another method.

### What is hard here

* *Concurrency.* Little is shared: only the method sets. They are initialised
  lazily by an atomic swap and a plain store.
* *Reentrancy and failure.* Contexts nest on a thread; a method can be given up
  by an exception in the middle of the read; caches survive the method.
* *Several passes that must agree.* Unwind entries are walked twice, regions are
  entered in one pass and used in another, stack allocations pass through three
  components, blocks are created while the list of blocks is read.
* *Order.* Clauses come in the runtime's order, handlers may precede their try,
  leaves precede or follow the endfinally they run, PHI operands arrive in the
  order of the blocks.
* *Encodings by difference.* The GC table lists births and deaths: an error at
  one safepoint is visible at a later one only, and at run time as a corrupted
  heap.
* *Off-by-one at edges.* Regions that touch, names that end the string, entries
  padded to four bytes, bit sets at their capacity, branches to the first and the
  last instruction of a block, the smallest and largest number of a type.
* *Two descriptions of one thing.* Caller and callee lay out a call each on its
  own; an overflow is tested in one type and the conversion made in another; a
  struct is copied as bytes between its references and through a barrier at them.
* *Flags that wait.* Prefixes and the token of an `ldftn` are kept for the
  instruction that follows and must not outlive it.

## 2. The modules

Steps are turns of the code's loops or calls of a recursive function; what the
code does in one go without reading anything another actor could change is one
action. Variables and actions have the names of the source where it has one.
Definitions whose name has the form `of_Mistake`, marked "Mistake" in a comment, are
the mutants: the plausible error of a mapped definition `of`. `PROJECT.json` says which property each one
breaks. Histories are marked as such in the declaration.

### GcFuncInfo, GcInfoEmitter, GcTable (core)

`GcFuncInfo` is the record of a function's stack allocations, through the four
components that write it: `createSym`, `recordGenericsContext` and
`recordSecurityObject` (reader), `readerPostPass` (escape), and
`runOnMachineFunction` (GcInfoRecorder, with every layout of the frame).
`GcInfoEmitter` extends it with the consumer: `encodeHeader`, then for each
record of the stack map its locations one at a time (`readLocation`) and
`endRecord`, which writes births and deaths and exchanges the live sets, then
`visitAlloca` and `getUntrackedSlot` in any order of the allocations (the code
iterates over a hash map), then `finalizeEncoding` and `emitEncoding`.
`GcInfoEncoder` belongs to CoreCLR and is modelled by the calls made of it:
slots are numbered from 0, and a slot has the state last set.

`GcTable` is the abstract specification: every safepoint is described once, by
exactly the live locations the stack map gives, and in the end as many call
sites are defined as there are safepoints. `GcInfoEmitter` implements it
under the mapping that decodes births and deaths (`Decoded`).

Properties: `LivenessPreserved` (the decoded table is the stack map),
`SlotIdsDense` (no offset gets two slots), `LiveSetsInBounds` (bit sets grow in
time, and the interval test for tracked ids is exact), `AllocasReported` (each
recorded allocation is reported at each of its pointers, with its pinning),
`ImplementsTable` (refinement). Proofs: `GcInfoEmitterProofs`.

### MethodID, MethodSet

`MethodID` is the parser of method patterns over sequences of characters;
`MethodSet` runs it on the threads that initialise a set, then matches.
`SelectsWhatIsWritten`: whatever thread wins, the list kept selects exactly the
methods that the comment on the patterns describes, and the parser throws on no
string but one that ends in a blank (`TrailingBlank`, see the observations), and there
not before it has found every pattern. A token may be empty, and blanks and tabs
separate patterns. `OneListSurvives`: one list is
kept for good and the others are deleted. `QueriesEnd` (liveness): a thread that
asks gets its answer, unless the parser has thrown, which ends the process. Proofs:
`MethodSetProofs`.

### LLILCJit

`compileMethod` with its early returns: malformed requests, methods not for this jit, side-loaded
bitcode, import only, reads given up, verification failures, code generation;
requests nest at the points where the runtime is called. A class type is cached first
as an opaque placeholder, if no fields are asked for, and with its fields later; only
the latter asks for the class size. `ObjectsOwned` says that a request under way has
exactly the objects it has made (ABI info, GC info, target machine) and that an answered
one has left none behind, unless it was answered by one of the two early returns
(`EarlyReturnLeaves`, see the observations),
`UnrecordedOnlyAfterFailure` that a class size is missing from the record of a
method only after an earlier method was given up, `TransitionsLowered` that an
uninitialised flag never decides about a method read from IL, `AllAnswered` that
every request is answered. Proofs: `LLILCJitProofs`.

### EEMemoryManager, ObjectLoadListener

`EEMemoryManager` asks two questions. The read-only sections: the total announced
by the loader is computed before any section is placed, and the sections are
padded one by one (`SectionsFit`). The unwind information: the walk of
`reserveUnwindSpace` and the one of `registerEHFrames` must agree, the
funclets divide the code, and every EH clause is reported once (`UnwindAsReserved`). The layout of the unwind entries
and what the loader computes are external and modelled from what the code relies
on.

`ObjectLoadListener` extends it with what is reported between the placing of the
sections and the registration of the frames. `getDebugInfoForObject` counts the
rows of the line table in one loop and fills the array in another (`mappings`);
`extractLocalLocations` walks the DWARF tree (`foundLocals` are the entries it stops
at); `recordRelocations` reports each
relocation with its addend, read from words of the width its type has. The range of
lines asked for, which is the sum of the sizes of the function symbols, is taken to
cover the line table.
`DebugInfoAgrees`: the two loops agree, an address looked up in the mappings has
the IL offset of the last row for it, and the k-th local reported is the k-th
variable or parameter of the tree, so that one without a location does not shift the
others. `RelocationsReach`: every relocation of a section the runtime keeps is
recorded at its place, and applied it gives symbol plus addend as the object asked for.
Excepted is `NegativeNarrowAddend`, a negative addend in 32 bits, which is read
unsigned; of it only the low 32 bits come out right. Proofs about both modules:
`ObjectLoadProofs`.

### RegionTree, FinallyDispatch

`RegionTree` enumerates every legal table of up to `MaxClauses` clauses (`Nest` is
ECMA-335's rule of nesting) in every order that the runtime may give, and models the
sorting, the insertion and the walk. Checked: the tree says what the ranges say, and the
handlers of a try are in clause order (`TreeFollowsRanges`), the walk is in the
innermost region at each offset and agrees with the search from the root
(`RegionsAgree`), pads unwind to the innermost enclosing try
(`UnwindsInnermost`), the walk ends (`ScanEnds`). There is at least one clause: for a
method with none `rgnCreateRegionTree` makes no tree, and there is nothing to walk.
Proofs, of the first three: `FirstPassProofs`.

`FinallyDispatch` extends it: leaves and endfinallies are translated while the
walk goes on, and afterwards the result is executed, with an exception at any
instruction. A finally has an endfinally at its end, and others that a branch may go
around: the first one read places the switch, the others go to it. `LeavesRunFinallies` compares the execution with what IL
prescribes, `ClonesAgree` says that cloning a finally for its exceptional entry
does not change its meaning, `LeaveClosesCatches` that the branch a leave makes
returns from each catch between it and the block it goes to.

### FlowGraph

The first pass over the instructions, composed with the walk of `RegionTree`:
`instruction` reads one, ends the block at a branch and lets it go to temporary
blocks, one per target offset (`fgAddNodeMSILOffset`); `switchRegion` ends a block
at the edge of a region; afterwards `fgReplaceBranchTarget` takes the targets in
order, splits the block each lies in and replaces the temporary block in all its
uses. The operations on blocks take a graph (`Graph`: blocks, their layout, the labels) and
give one, as the code passes the function along. Instructions are one byte long; switches have two cases; a leave that
passes no finally is a branch. Branches are to offsets of the method (the code reports
others by `verGlobalError`), and there is no `endfilter`, which is a branch to the next
instruction. `FlowAsInIL`: the blocks cover the code in its
order, branches end them, and each goes where the IL says. `BlocksInOneRegion`:
no block crosses the edge of a region, and the region a block is given is the one
of its instructions, except that a block made after a `ret` or `jmp` may have
none.

### OperandStacks

The second pass: `Discover` and `OrderBlocks`, then for each block `Begin`,
`ReadInstruction`, splits by `insertConditionalPointBlock` and `makeCall`,
`EndBlock`, the three cases of `maintainOperandStack` (`SkipSuccessor`,
`CopyStack`, `MergeStack`), `ClearStack`, and `InsertSuccessors` for the blocks
made by splits. MSIL is reduced to pops and pushes: the map gives `Execute` and `NewValue` one
instruction each of the opcode switch, as examples of a pop and of a push. The flow graphs enumerated
are all those of valid IL within the bounds, backward branches with an empty
stack as ECMA-335 III.1.7.5 has it: the comment in `msilToIR` relies on that.
An instruction may split the block several times. A value is known by the
instruction that pushed it, a cast by what it casts and where.

Checked: each reachable block is read exactly once, and the assertions made before
a new block is put out of order hold (`ReadsReachableOnce`); it is read with the
stack IL has there (`EntryStackAsInIL`); nothing is added to the stack or
the PHI nodes of a block once it is read (`EntrySettled`, an action property:
this is what reading in MSIL order is for); PHI nodes end with the right value
for each edge, the same for edges from one block unless a cast is made for each
(`PhisComplete`, exception `CastForEachEdge`), and, whatever the order of arrival, of the closest
common type, with every operand cast to it (`PhisClosestSuperclass`). Proofs, of the
first three: `OperandStacksProofs`.

The merge of types is that of `getStackMergeType`, families of numbers, structs of one
layout and function pointers included; `Types` has one family at a time, and the run
has two classes (the other families, for which `PhisClosestSuperclass` means nothing,
were tried in turn with `Pads = FALSE`). Left out: invokes inside a point block, and the
casts LLVM folds (casts of constants).

### LLVMOps, StackTypes, Arithmetic

`LLVMOps` is external: integers as bit patterns, their operations, casts and
overflow intrinsics, floating-point numbers with rounding, infinities and NaN. What
LLVM leaves undefined has every outcome. Widths are a constant: two to five bits
stand for 8 to 64, so that every value of every type is tried. `StackTypes` is the
widening of loads and the narrowing of stores. `Arithmetic` translates the
unary, binary, shift, conversion, comparison and branch opcodes with every mixture
of operand types, the overflow and zero checks before the operation included.

The reference is what the comments of the enumerations in `readerenum.h` say of
each opcode, stated in terms of numbers (`ILBinary`, `ILConvert`, ...), and the
properties compare: `ArithmeticAsDocumented`, `ConversionsAsDocumented`,
`ComparisonsAsDocumented`. Three results differ and are excepted by name,
`NegatedOffset`, `WidenedSigned` and `SignExtendedOperand`; see the observations. Proofs:
`ArithmeticProofs`.

### Objects

Memory as a row of cells, in nine layouts (an object with fields, a vector of
structs with references, bytes and a string, covariant vectors, grids, boxes). Fields
are reached by offset, behind a base that ReadyToRun code loads, by a helper, or are
statics, among them the constants `IntPtr.Zero` and `String.Empty`; `Nullable` is
unboxed into a temporary, and boxing a reference does nothing. An
operator named after a method of the reader gives the outcome of the code it emits:
checks in their order, loads, writes with their barrier. `AccessesAsInIL` (an
action property) says that the exception, the value and the memory afterwards are
those of IL, that nothing was written when an exception is raised, and that a
`volatile.` prefix reaches the next instruction and no later one. `BarriersKept`
says that every reference in the heap was reported to the collector (a barrier
that does not look is used on the heap only). Exceptions by name: `UncheckedIndex`
(the character of a string) and `DimensionFirst` (see the observations). Vector
(SIMD) fields and by-value vector arguments are left out.

### ABI, Calls

`ABI` has the classification of Windows and System V (struct by eightbytes, registers
that run out), `ABISignature` with coercion, expansion and extension, the layout
of a call and of a function, and the homes of arguments. A value is the sequence of
its named bytes, so one that lands in the wrong place is seen. Which register or
stack place a slot gets is LLVM's affair and external.

`Calls` is one method that is entered by a caller of the runtime and calls another:
prologue with homing, secret and hidden parameters, monitor and frame for unmanaged
calls; `ldftn`, `ldvirtftn`, the prefixes; `call`, `callvirt` and `calli` in every form
`getCallInfo` may ask for; `newobj` for classes, values, strings, arrays and
delegates; `jmp`; unmanaged calls; `ret`. `ArgumentsDelivered`: every argument and
result arrives byte by byte, although caller and callee lay out the call each on
its own; excepted are `SecretCounted`, `BufferBeforeSecret` and `VectorOnStack`.
`CallsAsInIL`: the code entered is the one IL names, with its null check (but for
`UncheckedDelegate`); a delegate is bound to the object and function on the stack, or
refused by the security check for exactly that function. The exceptions are among the
observations. `FramesUnwound`: the
explicit frame is on the thread's chain exactly during an unmanaged call, the
lock held from prologue to return. `SafeTailCalls`: a call that may reuse the frame
is passed nothing that lives in it; recursive calls are excepted, see the
observations. Not modelled: `varargs` and the SIMD intrinsics, and that `jmp` out of a
stub indexes the method's own signature one too low (`lib/Reader/readerir.cpp:6322`),
which changes no byte that is passed.

## 3. The runs

| Run | Bounds | States | Shows |
|---|---|---|---|
| `gc_info` | 2 allocas (a pointer, a struct with two), frame of 3 words, 3 records | 501 454 | decoding, growth, reporting, refinement |
| `method_sets` | 2 threads, 2 patterns, 2 names and the empty one, blanks and tabs before, between and after | 204 402 | parsing and selection, one list, queries end |
| `jit_requests` | 3 requests, nested | 218 828 | ownership, dependences, lowering, answers |
| `object_loading` | 3 sections, 2 alignments, 2 funclets, 1 code, 1 clause; 3 rows, 2 DWARF entries, 1 relocation | 2 317 628 | placement, the two walks, debug info, relocations |
| `region_tree` | 5 offsets, 2 clauses of 4 kinds or 3 catches | 453 494 | sort, tree, walk, and that it ends |
| `finally_dispatch` | 5 offsets, 3 catches or finallies, leaves anywhere | 264 334 | leaves, exceptions, clones |
| `flow_graph` | 5 instructions, 1 catch, 2 branches or switches | 5 130 794 | blocks, targets and regions |
| `operand_stacks` | 3 blocks, stacks of 2, loops, shared targets, pads, 1 split | 394 340 | entry stacks, PHI nodes, types, order |
| `arithmetic` | stacks of 2, integers of 2 to 5 bits, all of them; 17 floating-point constants | 1 163 137 | every opcode on every pair of operands |
| `objects` | 9 memories of up to 16 cells, 3 numbers | 60 423 | accesses, exceptions, barriers |
| `calls` | 16 types, a vector among them, signatures at the edges of the registers, both systems, 5 instructions | 28 996 | arguments, targets, frames, tail calls |

A run takes between twenty seconds and two minutes. One more run,
`method_set_race`, expects a violation; see "Findings".

Why the bounds are enough to be of use: three stack-map records are a birth, a
death and a rebirth with a live set that has grown, and three words are the least
in which a struct with a gap between its pointers meets a pointer of its own or a
spill; three regions on five offsets nest, touch, start together and end
together; two branches can go into one block and into each other's blocks, before
and after they were made; two threads are all that a lost swap needs; three
sections are the least in which the padding of one changes that of another after
it; with a shared target and two predecessors a PHI node gets three operands;
depth two is the least at which the order of PHI nodes shows. In `arithmetic` the
widths are in the order of the real ones and every value occurs, so that every
bound, sign bit and carry of a pair of types does; the floating-point numbers are
the bounds of the integer types and their neighbours. In `calls` the signatures are
chosen so that the registers of each convention run out before, in and after a
struct. Larger methods, deeper stacks and more threads are not checked, and no
claim is made for them outside the theorems.

Deadlock is checked for `OperandStacks`, `Arithmetic` and `Objects`, where some
step is always possible, and not elsewhere: the other models stop when the work is
done.

### Fairness

`MethodSet` assumes weak fairness of each thread's steps after it has entered
(threads of the runtime are scheduled, and none waits for another); nothing
makes a thread begin a compilation. `LLILCJit` and `RegionTree` assume weak
fairness of the one thread that runs: the code is sequential and does not wait.
The other modules have safety properties only.

### Findings

`method_set_race` expects a violation: the loser of the swap calls `contains` before
the winner has stored the list, and the assertion there (`ContainsInitialized`)
fails. `PROJECT.json` quotes the line.

Further observations made while modelling. The models do what the code does in each
of these cases; where a property would otherwise speak of it, the exception is named.

Requests and objects:

* A method that is given up by `NotYetImplementedException` leaves `readMethod`
  (`lib/Jit/LLILCJit.cpp:531`) without the post-pass, so class types it cached are not
  recorded as dependences of the next ReadyToRun method
  (`UnrecordedOnlyAfterFailure` says that nothing else has this effect).
* For a module loaded from a bitcode file `readMethod` returns before it assigns
  `ContainsUnmanagedCall`, which has no initial value (`TransitionsLowered`
  excepts such modules).
* A configuration string that ends in a blank, as the example on
  `MethodID::parse` does (`include/Jit/utility.h:109`), makes `scan` use `npos` as an
  index and throw, after all patterns were parsed (`TrailingBlank`).
* `compileMethod` deletes nothing when the target is not found
  (`lib/Jit/LLILCJit.cpp:321`: ABI info and GC info stay) and when it only imports
  (`:373`: the target machine too) (`EarlyReturnLeaves`).
* An addend in 32 bits is read unsigned (`lib/Jit/LLILCJit.cpp:781`), so that a negative
  one is recorded with a target 4 GB too high (`NegativeNarrowAddend`).
* The comment on `SlotMap` (`include/GcInfo/GcInfo.h:215`) asks for all slots of
  one type to be contiguous. Pinned and unpinned untracked slots are mixed, in
  the order of a hash map; only the tracked group, the one `isTrackedSlot`
  depends on, is contiguous.
* The assertion against chained unwind information
  (`lib/Jit/EEMemoryManager.cpp:171`) compares bit 5 with bit 4 and always holds.
* Of the DWARF location of a local only the last byte is used, unsigned
  (`lib/Jit/LLILCJit.cpp:880`), and relocation types of ELF are looked up by the
  numbers of COFF.

Control flow:

* A leave out of a catch through a finally inside it does not return from the
  catch (`lib/Reader/readerir.cpp:7299`, `:7357`); `LeaveClosesCatches` is about the
  first branch, to the finally.
* A finally that ends in a throw has no `cleanupret`, which `cloneFinallyBody`
  asserts to find (`lib/Reader/readerir.cpp:618`).
* A switch that names a target twice may pass two different casts of a value to one
  PHI node, against the assertion at `lib/Reader/readerir.cpp:8731`
  (`CastForEachEdge`); LLVM's verifier wants one value as well.
* When the type of a PHI node changes, entries that are still undefined keep the old
  type until their block is read (`lib/Reader/readerir.cpp:8709`).
* The merge of `nativeint` and `int32` takes the type that arrived first
  (`lib/Reader/readerir.cpp:8767`).
* The block made after a `ret` or `jmp` has no region, which the code treats as
  the root.

Instructions:

* `conv.ovf.i8.un` and `conv.ovf.i.un` of an `int32` extend its sign before the
  unsigned check (`lib/Reader/readerir.cpp:6689`, `WidenedSigned`).
* An `int32` compared with a native integer is extended by its sign
  (`lib/Reader/readerir.cpp:8077-8088`) for the `.un` forms too, which
  `include/Reader/readerenum.h:149-151`, `:156-158` and `:179-181` document as "treating
  both arguments as unsigned integers": a negative one becomes a large number of 64 bits
  (`SignExtendedOperand`).
* A pointer minus an `int32` negates the offset in 32 bits
  (`lib/Reader/readerir.cpp:4430`, `NegatedOffset`).
* `GenIR::size` has `CHAR` among the types of 8 bits and `UBYTE` among those of 16;
  its callers only ask for "less than 32".
* The character of a string is read without a check of the index
  (`lib/Reader/readerir.cpp:3957`, `UncheckedIndex`), and `GetLength` of a null vector
  with a bad dimension reports the dimension (`DimensionFirst`).
* `convertToBoxHelperArgumentType` (`lib/Reader/readerir.cpp:6406`) casts a
  floating-point number to the type it has, where its comment speaks of the
  target's.

Calls:

* A recursive tail call is allowed without a look at its temporaries for indirect
  arguments and results (`lib/Reader/readerir.cpp:6770`); `SafeTailCalls` excepts it.
* The index of the result buffer does not count the secret parameter
  (`lib/Reader/abisignature.cpp:679`; the comment at `:402` has the order), so that in a
  stub with both they change places (`BufferBeforeSecret`).
* A stub counts its secret parameter among the six integer registers of System V
  (`lib/Reader/reader.cpp:5243`, `lib/Reader/abi.cpp:297-313`); whoever calls it, and a
  `jmp` out of it, passes the secret apart and does not count it
  (`lib/Reader/abisignature.cpp:388-415`). Where the registers run out, a struct goes in
  registers on one side and on the stack on the other (`SecretCounted`).
* A vector that System V has in memory is a `byval` pointer to `emitCall`
  (`lib/Reader/abisignature.cpp:519-528`) and a plain value to `createFunction`
  (`:727-730`) (`VectorOnStack`).
* The explicit null check of a delegate's invocation is made on the address of a field
  of it (`lib/Reader/reader.cpp:5106-5112`, `lib/Reader/readerir.cpp:7646`), which a null
  delegate passes (`UncheckedDelegate`); the load that follows is from a small address.
* A synchronized method leaves its monitor at a `ret` only
  (`lib/Reader/readerir.cpp:445`): an exception leaves it locked.
* `NeedsStackSecurityCheck` is computed from `HasLocAlloc` before the method is
  read (`lib/Reader/readerir.cpp:340`).
* `tail. call` followed by `pop` and `ret` is accepted only where `TAMD64` is
  defined, which no build does (`lib/Reader/reader.cpp:5855`).

## 4. The proofs

TLC checks small instances; the theorems hold for every value of the constants that
satisfies the assumptions named. Those are stated in the component modules, and TLC
evaluates them in the runs. A theorem named after a property `P`, as `PHolds`, is
`Spec => []P` for the very definition that the run checks.

| Module | Theorems | For every |
|---|---|---|
| `GcInfoEmitterProofs` | `TypeCorrect`, `LivenessPreservation`, `SlotDensity`, `LiveSetsBounded`, `AllocasReportedHolds`, `TableImplementation` | set of allocations, frame size, initial capacity, number of records |
| `MethodSetProofs` | `OneListSurvivesHolds`, `PublishedIsFinalHolds`, `ListsAgreeHolds`, `SelectsIfParserRight` | set of threads, number of sets and queries, configuration string |
| `LLILCJitProofs` | `ObjectsOwnedHolds`, `UnrecordedOnlyAfterFailureHolds`, `TransitionsLoweredHolds` | number of requests and depth of nesting |
| `ObjectLoadProofs` | `SectionsFitHolds`, `UnwindAsReservedHolds`, `DebugInfoAgreesHolds` | number, size and alignment of sections; number of funclets, codes and clauses; line table and DWARF tree |
| `ArithmeticProofs` | `ArithmeticHolds`, `ConversionsHold`, `ComparisonsHold` | four increasing widths, the real 8, 16, 32 and 64 among them; finite sets of floating-point numbers; stack depth |
| `OperandStacksProofs` | `Invariance`, `EntryStackAsInILHolds`, `EntrySettledHolds`, `ReadsReachableOnceHolds` | flow graph of valid IL whose blocks have up to two successors, any number of blocks and instructions, stack depth, any splits |
| `FirstPassProofs` | `Invariance`, `TreeFollowsRangesHolds`, `RegionsAgreeHolds`, `UnwindsInnermostHolds` | number of clauses, set of clause kinds, length of the code |
| `FirstPassProofs` | `FlowInvariance`, `FlowAsInILHolds`, `BlocksInOneRegionHolds` | the same, and every program with any number of branches and switches |

`NatLemmas` is what the proofs share: induction over the naturals, the least element
of a set, sums, and the existence of the functions that recursive definitions define.
The induction theorems of the library take an operator as a parameter, which the
provers cannot instantiate. `SetInduction` says the same of a *set* of numbers, and
`Recursion` and `RecursionTo` take the step as a function; with them induction over
data is within reach, as long as the model writes its loops as recursive functions.

### The GC table

The assumptions are `FrameAssumption` (types and sizes of allocations; a GC
pointer is one word) and `EmitterAssumption` (capacity and bound are positive).

`LivenessPreserved` is not inductive: that the table is right at a
safepoint depends on the live sets with which its record was begun. The
inductive invariant `IInv` adds: the old live set is what the table decodes to
at the last safepoint, the new one is what has been read of the current record
(`LiveSets`); the slot map is one-to-one onto the ids requested so far
(`SlotMapExact`), so that the births and deaths of a slot are those of one
location; no slot exists before the header is written (`NoSlotsBefore`); placed
allocations lie apart in the frame (`AllocasPlaced`), recorded ones are escaped
(`RecordedEscape`), and those not yet visited have no slot (`UnvisitedFree`), so
that no untracked slot collides with another. `Invariance` proves
`Spec => []IInv` with one lemma per action; the lemmas about decoding say that
births and deaths written at a safepoint change the decoded state there and
leave the earlier safepoints alone. The refinement (`TableImplementation`) follows
from it and from `TableOpen` (no call site is defined before `finalizeEncoding`,
which comes after a record): `endRecord` is a `Describe` step, `finalizeEncoding` a
`DefineCallSites` step, every other step stutters.

`LiveSetsBounded` needs that the tracked slots are exactly the first ones and never
more than the bit sets hold (`TrackedInv`). `AllocasReportedHolds` needs that GC
allocations are recorded with their kind when they are made (`GcRecorded`), that each
pointer of one that was visited has its slot or is still to get it
(`VisitedHaveSlots`), and that nothing is left over when the table is emitted
(`AllVisited`).

### Method sets

`IInv` says which lists exist: those being made and the published one (`LiveLists`),
and that one thread at most is between the swap and the store of a set (`OneFirst`).
`OneListSurvives` and the action property `PublishedIsFinal` follow: from the moment
`isInitialized` finds a list, neither the pointer nor the list changes, so `contains`
needs no lock. `ListInv` adds that what a thread has parsed is what the parser makes of
the string, step by step, whatever the others do; hence `ListsAgree`, and
`SelectsIfParserRight`, which reduces `SelectsWhatIsWritten` to the parser run by one
thread alone. That hypothesis is about the characters of each string and is what TLC
checks in `method_sets`. `ThreadsAssumption` (the null pointer is no thread),
`AltJitAssumption` and `QueriesAssumption` are used.

### Requests

`IInv` is the conjunction of the three properties with: open requests are numbered in
the order of the stack and none is answered (`Numbered`); unless a read was given up,
the classes crossgen has laid out are among those the request under way has used, and
what that used is recorded (`CachedIsUsed`); the flag for unmanaged calls is the method's own once there is a
method (`FlagIsSet`). One lemma per action.

### Loaded objects

From `LoadAssumption` (sizes are numbers, alignments powers of two up to 16) and
`ListenerAssumption`. *Sections*: the loader announces the sum of the sizes, each
rounded to the largest alignment, before it knows the order. `FitInv` says that what is
used is at most the sum over the sections placed so far (`WithinSpace`), whatever those
are, and that they lie below, apart and aligned (`PlacedBelow`); the sum over a set of
sections (`Space`) is shown to grow with the set. *Unwind entries*: both walks step
over the bytes of an entry by different arithmetic; `WalkOn` shows that each steps
exactly to the start of the next. `UnwindInv` says that after n steps each walk has seen
the first n entries, in the form `ReservedOf`, `BlockOf` or `ReportOf`, and `WalkOK`
where it stands. *Debug information*: by induction over the rows, looking any address
up in the mappings made so far gives what looking it up in the rows so far does
(`Finds`), where the last mapping stands for the last row (`AtEnd`); this needs the
rows to be in the order of their addresses, as the table is. By induction over the
entries, the locals found are numbered as in the tree (`Numbered`). `DebugInv` carries
both from the call to the end.

### Arithmetic

From `WidthAssumption` (the four widths increase), `RepAssumption` (floating-point
numbers are finite sets of integers, zero among them, floats among doubles) and
`ConstantsAssumption`. The invariant needs only that the stack holds values of the
types it may (`StackOK`): the work is in the lemmas that compare the code of an opcode
with its documentation for all operands. They rest on what reading and wrapping of bit
patterns do (`ReadBack`, `CastKeeps`), on the bounds of types as multiples of each other
(`Wider`), and on rounding to the nearest number (the infinities beyond the largest).
The three named exceptions are the ones the properties except; in
`ComparisonsHold` both numbers are read as unsigned for the `.un` forms, whatever their
widths, and only a negative `int32` that meets a native integer is excepted.

### Second pass

From `BoundsAssumption`. The three properties are about the moment a block is taken up or
a later one is read, and none of them is inductive: what a block starts with was decided
by the blocks that were read before it, and splits change the graph in between. `IInv`
says:

* what the blocks made by splits look like: a stack arrives over one edge at most
  (`NewOnce`), point blocks are empty and go where their predecessor goes
  (`PointBlocks`), those not yet in the list hang on the block being read in a chain
  (`Chain`), and nothing is left to read in a block whose continuation is to come
  (`Emptied`, `InsertsOK`);
* what the list is: it has no block twice and, with the blocks just made, nothing leads
  out of it (`Closed`, and `Discovery` before there is a list);
* the order: a stack that is not empty is only ever handed to blocks later in the list
  (`Forward`). This is where backward branches with an empty stack are needed, and what
  `EntrySettledHolds` rests on;
* the depths: the graph remains one of valid IL when it is split (`Depths`), the stacks
  kept and the active one are as deep as IL's (`Stacks`, `Tracks`), and a block that is
  to start with a stack has one or is still going to get it in time (`Pending`), which
  with the former is `EntryStackAsInIL`;
* that each PHI node has the shape and the edges its block has (`Phis`).

`ReadsReachableOnceHolds` adds that what is listed lies in every set of blocks that holds
the first one and that nothing leads out of (`Reached`): such sets survive a split with
the new blocks added. That the reachable blocks are found in as many steps as there are
blocks, as the property has it, is a count: the sets of blocks reached in n steps grow
with n until they are closed.

The proof showed one flaw of the model, none of the code: two guards of a CASE in `Split`
held at once for the continuation. TLC takes the first; TLA+ leaves the value open. Guards
of CASE are disjoint now in all modules where the order mattered (`OperandStacks`,
`Objects`, `Calls`).

### Region tree

From `SizeAssumption` (there is room for a clause) and `KindsAssumption` (the kinds are
the four that the runtime has). With `ThreeKinds` equal to `ClauseKinds` the tables are all
that ECMA-335 allows. None of the three properties is inductive: they speak of the finished
tree and of an instruction at rest, and what makes them true is decided while the tree is
built and while the walk is between two regions. `IInv` has three parts:

* `TreeInv`, about the building: the part of the list that has been sorted has inner clauses
  before outer ones and clauses of one try in the order of the table (`Sorted`); the regions
  are those of the clauses taken from the end of the list so far (`Made`), with the handlers of a
  try in the order of the list (`Ordered`); ranges are nested or apart and all different
  (`Laminar`); the parent of a try is the innermost region around it (`TriesUnder`), a handler
  lies in the same regions as its try but not in it (`HandlersBeside`); a try is entered with
  the first of its own range and its handlers' (`Entries`); filters and their handlers know each
  other (`Filters`). While a clause is looked for, the search is at a region that encloses it, and
  when it ends, at the innermost one (`BuildOK`).
* `WalkOK`, about the walk: all regions around the current one have their pads; a
  region that started before the offset and has not ended is around the current one; a try has been entered if
  its entry region started before the offset, and only then or if the walk is in that
  region. That no try is entered twice follows from the last. At an instruction, no
  region near the current one starts or ends before the next stop.
* `PadsOK`, about the pads: those of a region that has them lead to the innermost try around it,
  and under the innermost handler around that.

The heart of the first part is that the clause inserted next is inside or apart from every
clause inserted before (`NewRange`, from `Sorted` and `Nest`), so that its regions are leaves of the tree
(`TryFits`, `HandlerFits`); the insertion is then a sequence of pushes, each of which keeps a
tree well formed (`PushTree`). Searches in the tree go one level at a time, and all of them rest on one
fact, that what encloses something in a region has an element one level below it (`Nearest`).
The climb to the enclosing pad and the walk down from the root are recursive functions;
they come to rest because each step changes the number of the region in one direction.

`Tables` was given the form it has for this proof: the tables for any number of clauses are
one definition, and lists are searched by least index and not by a recursive operator.

### Flow graph

`FInv` is `IInv` with `FlowInv`. The properties speak of the finished graph. Until the last
label is replaced there are temporary blocks in the function, a block whose end is not
known, and branches into the middle of blocks; so `FlowInv` says what holds on the way:

* `GraphOK(g, m)`: the first `m` blocks of the layout follow one another in the code
  (`Tiled`); behind them are the temporary blocks, one for each label, which start at its offset
  (`LabelsOK`). That they are behind is what lets `fgReplaceBranchTarget` remove one without a gap.
* `Done`: every block of the code but the one being read has its range, in which only the
  last instruction may be a branch and which lies in one region, and goes to blocks, temporary
  or not, that start where the IL says (`NodeOK`). As the promise is about where a successor
  *starts*, it survives both a split of the successor, whose first half keeps the start,
  and the replacement of a temporary block by one that starts at the same offset.
* `Reading`: the last block of the code has no terminator yet, has been read up to the
  current offset, and contains no branch (`Open`); before an instruction, its region is the
  current one, or none where the current one is the root.
* `Linking`: the blocks cover the code, and no label left is before the block from
  which the next search starts. From this the search finds a block (`BlockFound`), so the
  assertion at its end cannot fail, although the search never goes back to the first block.

Each step adds a block behind another (`GrownOK`, `DoneGrown`), a temporary block
(`LabelAdded`), changes the last one (`ChangedOK`), or removes a temporary one
(`ReplacedShape`, `UsesReplaced`); the lemmas say what that does to an arbitrary graph. That
a block lies in one region comes from `IInv`: at an instruction the current region
is the innermost one around it. The programs are all those of `Programs`, of which only
what `InstrOK` says is needed, for example that the last instruction does not fall off the end.

### Left to TLC

* Liveness (`QueriesEnd`, `AllAnswered`, `ScanEnds`): the prover does neither fairness
  nor ENABLED.
* The parser on the characters of a string (`SelectsWhatIsWritten`, see above).
* `RelocationsReach`: whether a distance fits 32 bits depends on where the runtime puts
  code and data, of which the code assumes nothing that could be stated for all of them.
* `PhisComplete` and `PhisClosestSuperclass`: the first needs the values in the entries of
  each PHI node to be followed from the edge they came over through renamings by later
  splits; the second that merging classes gives the same result in whatever order they
  arrive, which is a property of the hierarchy the runtime has.
* The finally dispatch, the accesses to memory and the calls. Their models use folds and selections with operators as
  arguments, which are opaque to the provers until they are written as recursive
  functions; see the plan.

## 5. Not modelled

* LLVM itself: passes, code generation, the loader beyond what the memory
  manager sees. `LLVMOps` and the register assignment of `ABI` are what the code
  relies on.
* The decoding of opcodes and operands from bytes, and the resolution of tokens
  and signatures, which the runtime answers.
* The creation of LLVM types for classes, generic dictionary lookups, debug
  metadata and SIMD intrinsics in `readerir.cpp`: tables over the runtime's
  description of a class; loads and stores of vector fields; `varargs`.
* Filters as code: their regions are in the tree, their blocks are not executed, and
  `endfilter` is not among the instructions. Branches out of the method, which are errors.
* The bytecode verifier: it is not compiled in any configuration of the build.
* The object writer: each entry is one call of an LLVM streamer for CoreRT, and the
  state that could go wrong is LLVM's. `cvconst.h` is a table of constants.
* The disassembler library: one loop over two code blocks around LLVM's decoder and
  its user's callbacks.
* Logging, dumping, statistics; the scripts under `test` and `utils`; the
  platform headers.
* `recordGsCookie`, which asserts that it is untested, and the walk over struct
  types that finds GC pointers.

## 6. Plan

1. Proofs, in this order: `PhisComplete`, on top of the invariant of the second pass; the layout of calls, with the folds of `ABI` written as recursive functions, and from
   it `ArgumentsDelivered`, `FramesUnwound` and `SafeTailCalls`; `BarriersKept`, with what
   a well-formed memory is as an assumption.
2. `ClassTypes`: the creation of struct types with recursive classes, the
   deferred details and the reverse map; the GC pointers of a struct.
3. The composition of `FlowGraph` with `OperandStacks`: the graphs the first pass
   makes as the initial states of the second.

The suite is kept to a dozen runs and forty properties, so that all of it can be
run in a few minutes. A new component therefore joins an existing run where it
interacts with what that checks, and a deeper property replaces the plainer ones it
implies.
