--------------------------- MODULE OperandStacks ---------------------------
(***************************************************************************)
(* The second pass of the reader (ReaderBase::msilToIR): the depth-first   *)
(* discovery of the reachable blocks, the reading of the blocks in MSIL    *)
(* order, the splitting of the block being read, and the propagation of    *)
(* its operand stack to its successors (GenIR::maintainOperandStack), by   *)
(* copying it or by merging it into PHI nodes.                             *)
(*                                                                         *)
(* A block is a number: 1 .. N are the blocks the first pass has made, in  *)
(* MSIL order, and the others are made by splits.  A block's MSIL is       *)
(* reduced to what it pops and pushes, a value to its type and identity.   *)
(* An edge to an EH pad is nominal: it makes the pad reachable and carries *)
(* no operand stack.                                                       *)
(***************************************************************************)
EXTENDS Integers, SequencesExt, FiniteSetsExt, TLC

CONSTANTS
    N,              \* the number of blocks made by the first pass
    Types,          \* the types of the values that are pushed
    MaxBody,        \* bound: pops and pushes in one block
    MaxDepth,       \* bound: depth of the operand stack at the end of a block
    MaxSplits,      \* bound: splits of the block being read, over the method
    BackEdges,      \* whether methods have edges to earlier blocks
    SharedTargets,  \* whether a switch or branch may name one target twice
    Pads            \* whether methods have a catch handler

Superclass == [Object |-> "Object", Base |-> "Object", Derived |-> "Base",
               Other |-> "Object", Array |-> "Object"]
Classes == DOMAIN Superclass

\* The merge of two types is defined within each of these families only: IL
\* that joins values of two families is not valid.
ASSUME TypesAssumption ==
    \/ Types \subseteq {"Int32", "NativeInt"}
    \/ Types \subseteq {"NativeInt", "UnmanagedPointer"}
    \/ Types \subseteq {"Float", "Double"}
    \/ Types \subseteq {"SharedStruct", "ExactStruct"}
    \/ Types \subseteq {"Placeholder", "Function"}
    \/ Types \subseteq Classes
ASSUME BoundsAssumption ==
    /\ {N, MaxDepth} \subseteq Nat \ {0}
    /\ {MaxBody, MaxSplits} \subseteq Nat
    /\ {BackEdges, SharedTargets, Pads} \subseteq BOOLEAN
    /\ Pads => Types \subseteq Classes

VARIABLES
    succ,        \* block -> its successors, in the terminator's order
    nominal,     \* block -> its nominal successor (the EH pad), if any
    propagates,  \* block -> PropagatesOperandStack
    stack,       \* block -> TheReaderStack, the stack it starts with
    phis,        \* block -> its PHI nodes
    body,        \* block -> the pops and pushes of its MSIL
    depth,       \* block -> depth of the IL evaluation stack at its start
    visited,     \* the blocks with IsVisited
    worklist,    \* Worklist of the discovery
    order,       \* FlowGraphMSILOffsetOrder
    it,          \* It: index in order of the block being read
    at,          \* the phase of msilToIR
    k,           \* the next instruction of the block being read
    ins,         \* the block LLVMBuilder inserts into
    edge,        \* SuccessorIterator of maintainOperandStack
    rstack,      \* ReaderOperandStack
    left,        \* history: block -> ReaderOperandStack at its end
    fresh        \* number of the next value

graph == <<succ, nominal, propagates, body, depth>>
vars == <<graph, stack, phis, visited, worklist, order, it, at, k, ins, edge,
          rstack, left, fresh>>

\* The undefined value of a type
Undef(type) == [src |-> 0, id |-> <<0>>, type |-> type]
IsUndef(v) == v.src = 0
NoStack == <<Undef("none")>>  \* nullptr: no stack was left for the block
Blocks == DOMAIN succ
Fg == order[it]

\* An instruction pops one value or none and pushes one or none.
Instructions == [pop : BOOLEAN, push : Types \cup {"none"}]
                  \ {[pop |-> FALSE, push |-> "none"]}
Net(instr) == (IF instr.push = "none" THEN 0 ELSE 1) - (IF instr.pop THEN 1 ELSE 0)
NetOf(code) ==
    LET upTo[n \in 0 .. Len(code)] == IF n = 0 THEN 0 ELSE upTo[n - 1] + Net(code[n])
    IN  upTo[Len(code)]
Successors(b) == nominal[b] \o succ[b]

-----------------------------------------------------------------------------
(* The flow graph the first pass leaves                                    *)

Bodies == BoundedSeq(Instructions, MaxBody)
Targets == {<<>>} \cup {<<s>> : s \in 1 .. N}
              \cup {<<s, t>> : s, t \in 1 .. N}

\* Valid IL: no instruction pops an empty stack, the depth at the start of a
\* block is the one at the end of each predecessor, and it is zero where a
\* backward branch arrives (ECMA-335 III.1.7.5).
ValidTargets(s, d, pad) ==
    /\ d[1] = 0
    /\ \A b \in 1 .. N : \A t \in Range(s[b]) :
            t # pad /\ (t <= b => BackEdges /\ d[t] = 0)
    /\ pad # 0 => d[pad] = 1 /\ Len(s[pad]) = 1

ValidBodies(s, d, pad, b) ==
    {code \in Bodies :
        /\ \A n \in 1 .. Len(code) :
                code[n].pop => d[b] + NetOf(SubSeq(code, 1, n - 1)) > 0
        /\ d[b] + NetOf(code) \in 0 .. MaxDepth
        /\ \A t \in Range(s[b]) : d[t] = d[b] + NetOf(code)
        /\ b = pad => code = <<>>}

\* One valid body for each block.
Extended(methods, bodies) == {Append(m, code) : m \in methods, code \in bodies}
ValidMethods(s, d, pad) ==
    LET upTo[n \in 0 .. N] ==
            IF n = 0 THEN {<<>>} ELSE Extended(upTo[n - 1], ValidBodies(s, d, pad, n))
    IN  upTo[N]

Exception == [src |-> 1, id |-> <<1>>, type |-> "Base"]

\* pad is the block of the catch pad that protects the first block, or 0.  It
\* has the stack createEHPad gives it, the exception.
Init ==
    \E pad \in {0} \cup (IF Pads THEN 2 .. N ELSE {}) :
    \E s \in [1 .. N -> Targets], d \in [1 .. N -> 0 .. MaxDepth] :
        /\ ~SharedTargets => \A b \in 1 .. N : IsInjective(s[b])
        /\ ValidTargets(s, d, pad)
        /\ succ = s /\ depth = d
        /\ body \in ValidMethods(s, d, pad)
        /\ nominal = [b \in 1 .. N |->
                        IF b = 1 /\ pad # 0 THEN <<pad>> ELSE <<>>]
        /\ stack = [b \in 1 .. N |-> CASE b = 1   -> <<>>
                                       [] b = pad -> <<Exception>>
                                       [] OTHER   -> NoStack]
        /\ propagates = [b \in 1 .. N |-> TRUE]
        /\ phis = [b \in 1 .. N |-> <<>>]
        /\ left = [b \in 1 .. N |-> <<>>]
        /\ visited = {1} /\ worklist = <<1>>
        /\ order = <<>> /\ it = 1 /\ at = "discover"
        /\ k = 1 /\ ins = 1 /\ edge = 1 /\ rstack = <<>> /\ fresh = 2

-----------------------------------------------------------------------------
(* Discovery of the reachable blocks                                       *)

\* The blocks of a list that are not visited, each once, in order.
NotVisited(list) ==
    LET upTo[n \in 0 .. Len(list)] ==
            IF n = 0 THEN <<>>
            ELSE IF list[n] \in visited \cup Range(upTo[n - 1]) THEN upTo[n - 1]
            ELSE Append(upTo[n - 1], list[n])
    IN  upTo[Len(list)]
Unvisited_Actual(b) == NotVisited(succ[b])  \* mistake: without the nominal successor
Unvisited(b) == NotVisited(Successors(b))

\* fgPrependUnvisitedSuccToWorklist: each is marked and put at the head.
fgPrependUnvisitedSuccToWorklist(next, b) == Reverse(Unvisited(b)) \o next

Discover ==
    /\ at = "discover" /\ worklist # <<>>
    /\ worklist' =
            fgPrependUnvisitedSuccToWorklist(Tail(worklist), Head(worklist))
    /\ visited' = visited \cup Range(Unvisited(Head(worklist)))
    /\ UNCHANGED <<graph, stack, phis, order, it, at, k, ins, edge, rstack,
                   left, fresh>>

\* The blocks of the function are in MSIL order: the visited ones are read in
\* the order of the layout.
MSILOffsetOrder ==
    LET upTo[n \in 0 .. N] ==
            IF n = 0 THEN <<>>
            ELSE IF n \in visited THEN Append(upTo[n - 1], n) ELSE upTo[n - 1]
    IN  upTo[N]

OrderBlocks ==
    /\ at = "discover" /\ worklist = <<>>
    /\ order' = MSILOffsetOrder
    /\ at' = "begin"
    /\ UNCHANGED <<graph, stack, phis, visited, worklist, it, k, ins, edge,
                   rstack, left, fresh>>

-----------------------------------------------------------------------------
(* Reading one block                                                       *)

\* The stack the block starts with replaces the active one; a block without a
\* stack goes on with the active one, which has to be empty.
Begin ==
    /\ at = "begin"
    /\ rstack' = IF stack[Fg] = NoStack THEN rstack ELSE stack[Fg]
    /\ ins' = Fg /\ k' = 1 /\ at' = "read"
    /\ UNCHANGED <<graph, stack, phis, visited, worklist, order, it, edge,
                   left, fresh>>

NewValue(type) == [src |-> fresh, id |-> <<fresh>>, type |-> type]

\* What the instruction leaves on the stack.
Execute(instr) ==
    LET below == IF instr.pop THEN Front(rstack) ELSE rstack
    IN IF instr.push = "none" THEN below ELSE Append(below, NewValue(instr.push))

\* One instruction; the loop ends at the block's end offset, which a split of
\* the block moves.
ReadInstruction_NoCopy ==  \* mistake: the block's own stack is worked on
    /\ at = "read" /\ k <= Len(body[Fg])
    /\ rstack' = Execute(body[Fg][k])
    /\ stack' = IF stack[Fg] = NoStack THEN stack
                ELSE [stack EXCEPT ![Fg] = rstack']
    /\ fresh' = fresh + 1
    /\ k' = k + 1
    /\ UNCHANGED <<graph, phis, visited, worklist, order, it, at, ins, edge,
                   left>>
ReadInstruction ==
    /\ at = "read" /\ k <= Len(body[Fg])
    /\ rstack' = Execute(body[Fg][k])
    /\ fresh' = fresh + 1
    /\ k' = k + 1
    /\ UNCHANGED <<graph, stack, phis, visited, worklist, order, it, at, ins,
                   edge, left>>

\* A PHI node, and what it takes from an edge.
PHI(src, type, entries) == [src |-> src, type |-> type, entries |-> entries]
Entry(b, v) == [block |-> b, value |-> v]

\* A PHI node of a successor follows the terminator to the block it moves to.
Renamed(phi, b, c) ==
    PHI(phi.src, phi.type,
        [i \in 1 .. Len(phi.entries) |->
            Entry(IF phi.entries[i].block = b THEN c ELSE phi.entries[i].block,
                  phi.entries[i].value)])

\* splitCurrentBlock and fgSplitBlock, for the instruction being translated:
\* the block inserted into keeps what has been read, and the continuation c has
\* the rest of the MSIL, the terminator, the region and PropagatesOperandStack
\* of the old one, and no stack.  An instruction that splits again splits the
\* continuation, at the same offset.  terminators maps the blocks made beside
\* the continuation, and the old one, to their successors: point blocks have
\* no MSIL and do not propagate (createPointBlock).
Split(c, terminators) ==
    LET all == Blocks \cup {c} \cup DOMAIN terminators
        new == all \ Blocks
        points == new \ {c}
        mine == SubSeq(body[Fg], 1, k - 1)
        rest == SubSeq(body[Fg], k, Len(body[Fg]))
    IN /\ succ' = [b \in all |-> CASE b \in DOMAIN terminators -> terminators[b]
                                   [] b = c                     -> succ[ins]
                                   [] OTHER                     -> succ[b]]
       /\ body' = [b \in all |-> CASE b = c    -> IF ins = Fg THEN rest ELSE body[ins]
                                   [] b = Fg   -> mine
                                   [] b \in points \cup ({ins} \ {Fg}) -> <<>>
                                   [] OTHER    -> body[b]]
       /\ depth' = [b \in all |-> CASE b = c        -> depth[Fg] + NetOf(mine)
                                    [] b \in points -> 0
                                    [] OTHER        -> depth[b]]
       /\ propagates' = [b \in all |-> CASE b = c        -> propagates[ins]
                                         [] b \in points -> FALSE
                                         [] OTHER        -> propagates[b]]
       /\ nominal' = [b \in all |-> nominal[IF b \in new THEN ins ELSE b]]
       /\ stack' = [b \in all |-> IF b \in new THEN NoStack ELSE stack[b]]
       /\ left' = [b \in all |-> IF b \in new THEN <<>> ELSE left[b]]
       /\ phis' = [b \in all |->
                    IF b \in new THEN <<>>
                    ELSE [i \in 1 .. Len(phis[b]) |-> Renamed(phis[b][i], ins, c)]]
       /\ ins' = c
       /\ UNCHANGED <<visited, worklist, order, it, at, k, edge, rstack, fresh>>

NewBlock == Cardinality(Blocks) + 1
MaySplit(blocks) ==
    at = "read" /\ k > 1 /\ NewBlock + blocks - 1 <= N + 2 * MaxSplits

\* A conditional branch to a point block, which rejoins the continuation or
\* leaves by a throw.
insertConditionalPointBlock ==
    /\ MaySplit(2)
    /\ \E rejoin \in BOOLEAN :
        Split(NewBlock, [b \in {ins, NewBlock + 1} |->
                            IF b = ins THEN <<NewBlock + 1, NewBlock>>
                            ELSE IF rejoin THEN <<NewBlock>> ELSE <<>>])

\* A call in a protected region is an invoke: it ends the block, and its edge
\* to the EH pad is nominal.
makeCall ==
    /\ MaySplit(1)
    /\ nominal[ins] # <<>>
    /\ Split(NewBlock, [b \in {ins} |-> <<NewBlock>>])

\* The end of the block: an empty stack has nothing to propagate, and the stack
\* of a block without successors is dropped.
EndBlock ==
    /\ at = "read" /\ k > Len(body[Fg])
    /\ left' = [left EXCEPT ![Fg] = rstack]
    /\ edge' = 1
    /\ at' = IF rstack = <<>> THEN "insert" ELSE "propagate"
    /\ UNCHANGED <<graph, stack, phis, visited, worklist, order, it, k, ins,
                   rstack, fresh>>

-----------------------------------------------------------------------------
(* maintainOperandStack                                                    *)

PredEdges(b) == {e \in Blocks \X (1 .. 2) :
                    e[2] <= Len(succ[e[1]]) /\ succ[e[1]][e[2]] = b}
PropagatingEdges(b) == {e \in PredEdges(b) : propagates[e[1]]}
fgNodeHasMultiplePredsPropagatingStack(b) ==
    Cardinality(PropagatingEdges(b)) > 1

Successor == succ[Fg][edge]
Propagating == at = "propagate" /\ edge <= Len(succ[Fg])

\* Throw blocks and helper calls need no stack.
SkipSuccessor ==
    /\ Propagating
    /\ ~fgNodeHasMultiplePredsPropagatingStack(Successor)
    /\ ~propagates[Successor]
    /\ edge' = edge + 1
    /\ UNCHANGED <<graph, stack, phis, visited, worklist, order, it, at, k,
                   ins, rstack, left, fresh>>

\* The only relevant predecessor hands its stack on.
StackHandedOn == IF propagates[Fg] THEN rstack ELSE <<>>

CopyStack ==
    /\ Propagating
    /\ ~fgNodeHasMultiplePredsPropagatingStack(Successor)
    /\ propagates[Successor]
    /\ stack' = [stack EXCEPT ![Successor] = StackHandedOn]
    /\ edge' = edge + 1
    /\ UNCHANGED <<graph, phis, visited, worklist, order, it, at, k, ins,
                   rstack, left, fresh>>

\* External: JitInfo->mergeClasses, the closest common superclass.
Ancestors(c) == {c, Superclass[c], Superclass[Superclass[c]]}
mergeClasses(c1, c2) ==
    CHOOSE c \in Ancestors(c1) \cap Ancestors(c2) :
        \A d \in Ancestors(c1) \cap Ancestors(c2) : d \in Ancestors(c)

\* An array cannot be mapped back to its handle and merges to System.Object.
\* Two instantiations of a struct have the same layout; a function pointer whose
\* type is not known has the placeholder void().
getStackMergeType_First(t1, t2) == t1  \* mistake: no merge
getStackMergeType(t1, t2) ==
    CASE t1 = t2                                     -> t1
      [] {t1, t2} = {"NativeInt", "Int32"}           -> t1
      [] {t1, t2} = {"Float", "Double"}              -> "Double"
      [] {t1, t2} = {"UnmanagedPointer", "NativeInt"} -> "NativeInt"
      [] {t1, t2} = {"SharedStruct", "ExactStruct"}  -> t1
      [] {t1, t2} = {"Placeholder", "Function"}      -> "Function"
      [] OTHER -> IF "Array" \in {t1, t2} THEN "Object"
                  ELSE mergeClasses(t1, t2)

\* changePHIOperandType: a cast is a new value, made at the end of the block
\* that passes the operand.  It is known by what it casts, and for which use.
changePHIOperandType(v, type, use) ==
    [v EXCEPT !.id = @ \o <<type, use>>, !.type = type]

\* createPHINode, with an undefined entry of its type for every predecessor edge.
NewPHI(b, type, src) ==
    LET edges == SetToSeq(PredEdges(b))
    IN PHI(src, type, [i \in 1 .. Len(edges) |-> Entry(edges[i][1], Undef(type))])

\* The first undefined entry of the block takes the operand; the assertion that the
\* ones before it have the same value is a part of PhisComplete.
SetIncoming(entries, b, v) ==
    LET mine == {i \in 1 .. Len(entries) :
                    entries[i].block = b /\ IsUndef(entries[i].value)}
    IN IF mine = {} THEN entries
       ELSE [entries EXCEPT ![Min(mine)] = Entry(b, v)]

\* A PHI of a new type casts the operands it has, and leaves the undefined ones
\* as they are.
Retyped(phi, type) ==
    LET Cast(v, i) == IF IsUndef(v) THEN v ELSE changePHIOperandType(v, type, i)
    IN IF type = phi.type THEN phi
       ELSE PHI(phi.src, type,
                [i \in 1 .. Len(phi.entries) |->
                    Entry(phi.entries[i].block, Cast(phi.entries[i].value, i))])

\* The PHI takes the merged type, and the operand is cast to it if need be.
addPHIOperand(phi, v, b) ==
    LET type == getStackMergeType(phi.type, v.type)
        operand == IF type = v.type THEN v
                   ELSE changePHIOperandType(v, type, -edge)
    IN PHI(phi.src, type, SetIncoming(Retyped(phi, type).entries, b, operand))

\* The first arrival makes the PHI nodes of the successor, one for each value
\* on the stack, in order; a later one adds its values to them.
MergedPhis_Reversed(b) ==  \* mistake: the PHI nodes from the top of the stack
    [i \in 1 .. Len(rstack) |->
        addPHIOperand(IF stack[b] = NoStack
                      THEN NewPHI(b, rstack[i].type, fresh + i)
                      ELSE phis[b][Len(rstack) + 1 - i],
                      rstack[i], Fg)]
MergedPhis(b) ==
    [i \in 1 .. Len(rstack) |->
        addPHIOperand(IF stack[b] = NoStack
                      THEN NewPHI(b, rstack[i].type, fresh + i)
                      ELSE phis[b][i],
                      rstack[i], Fg)]

ValueOf(phi) == [src |-> phi.src, id |-> <<phi.src>>, type |-> phi.type]

MergeStack ==
    /\ Propagating
    /\ fgNodeHasMultiplePredsPropagatingStack(Successor)
    /\ phis' = [phis EXCEPT ![Successor] = MergedPhis(Successor)]
    /\ stack' = [stack EXCEPT ![Successor] =
                    [i \in 1 .. Len(rstack) |-> ValueOf(phis'[Successor][i])]]
    /\ fresh' = fresh + Len(rstack) + 1
    /\ edge' = edge + 1
    /\ UNCHANGED <<graph, visited, worklist, order, it, at, k, ins, rstack,
                   left>>

ClearStack_Kept ==  \* mistake: the stack is not cleared
    /\ at = "propagate" /\ edge > Len(succ[Fg])
    /\ at' = "insert"
    /\ UNCHANGED <<graph, stack, phis, visited, worklist, order, it, k, ins,
                   edge, rstack, left, fresh>>
ClearStack ==
    /\ at = "propagate" /\ edge > Len(succ[Fg])
    /\ rstack' = <<>> /\ at' = "insert"
    /\ UNCHANGED <<graph, stack, phis, visited, worklist, order, it, k, ins,
                   edge, left, fresh>>

-----------------------------------------------------------------------------
(* The blocks made while the block was read                                *)

\* Each is inserted right after the block, so the last one comes first.
InsertNew(list, b) ==
    SubSeq(list, 1, it) \o Reverse(Unvisited(b)) \o SubSeq(list, it + 1, Len(list))

AfterBlock(list) == IF it < Len(list) THEN "begin" ELSE "done"

InsertSuccessors ==
    /\ at = "insert"
    /\ order' = InsertNew(order, Fg)
    /\ visited' = visited \cup Range(Unvisited(Fg))
    /\ it' = it + 1
    /\ at' = AfterBlock(order')
    /\ UNCHANGED <<graph, stack, phis, worklist, k, ins, edge, rstack, left,
                   fresh>>

Finished == at = "done" /\ UNCHANGED vars

Next ==
    \/ Discover \/ OrderBlocks
    \/ Begin \/ ReadInstruction \/ insertConditionalPointBlock
    \/ makeCall \/ EndBlock
    \/ SkipSuccessor \/ CopyStack \/ MergeStack \/ ClearStack
    \/ InsertSuccessors
    \/ Finished

Spec == Init /\ [][Next]_vars
-----------------------------------------------------------------------------
(* Correctness                                                             *)

Discovered == at # "discover"
Read == Range(SubSeq(order, 1, it - 1))

\* The blocks that can be reached from the first in n steps or fewer.
ReachableIn[n \in Nat] ==
    IF n = 0 THEN {1}
    ELSE ReachableIn[n - 1] \cup
            UNION {Range(Successors(b)) : b \in ReachableIn[n - 1]}

\* msilToIR reads every block that can be reached, those made while it reads
\* included, each exactly once, and no other.  The assertions it makes of a new
\* block hold: it gets its stack from the block just read alone, or needs none.
ReadsReachableOnce ==
    /\ IsInjective(order)
    /\ Discovered => Range(order) \subseteq ReachableIn[Cardinality(Blocks)]
    /\ at = "done" => Range(order) = ReachableIn[Cardinality(Blocks)]
    /\ at = "insert" =>
        \A b \in Range(Unvisited(Fg)) :
            /\ ~fgNodeHasMultiplePredsPropagatingStack(b)
            /\ propagates[Fg] \/ PropagatingEdges(b) = {}

\* When readBytesForFlowGraphNode takes up a block, the operand stack it starts
\* with is as deep as the IL evaluation stack there; a block for which no stack
\* was left starts with an active stack that is empty (assertEmpty).
EntryStackAsInIL ==
    at = "begin" =>
        IF stack[Fg] = NoStack THEN rstack = <<>> /\ depth[Fg] = 0
        ELSE Len(stack[Fg]) = depth[Fg]

\* The stack and the PHI nodes of a block are settled when it is read: no block
\* read later adds an operand, a PHI or a type to them.
EntrySettled ==
    [][\A b \in Read \cup (IF at \in {"read", "propagate", "insert"}
                           THEN {Fg} ELSE {}) :
            stack'[b] = stack[b] /\ phis'[b] = phis[b]]_vars

Incoming(phi, b) == SelectSeq(phi.entries, LAMBDA e : e.block = b)

\* A known exception: when a switch or a branch of p names b twice and the value
\* of p has to be cast, each entry gets a cast of its own, against the assertion
\* CurrentOperand == NewOperand (readerir.cpp:8731).
CastForEachEdge(p, b, i) ==
    Cardinality({e \in PredEdges(b) : e[1] = p}) > 1 /\ left[p][i].type # phis[b][i].type

\* In the end a PHI node has one entry for each edge into its block.  The entry
\* of an edge from a block that was read is the value that block left in the
\* PHI's place on the stack, or a cast of it where the types differ; two entries
\* for one block are the same value, save for CastForEachEdge.
PhisComplete ==
    at = "done" =>
        \A b \in Range(order) : \A i \in 1 .. Len(phis[b]) : \A p \in Blocks :
            LET entries == Incoming(phis[b][i], p)
            IN /\ Len(entries) = Cardinality({e \in PredEdges(b) : e[1] = p})
               /\ p \in Range(order) =>
                    \A j \in 1 .. Len(entries) :
                        /\ Len(left[p]) = Len(phis[b])
                        /\ entries[j].value.src = left[p][i].src
                        /\ entries[j].value = left[p][i]
                             <=> left[p][i].type = phis[b][i].type
                        /\ \/ entries[j].value = entries[1].value
                           \/ CastForEachEdge(p, b, i)

\* Whatever the order in which the operands of class types arrive, the PHI
\* node ends with the closest common superclass of all of them, and on the way
\* every operand it has follows its type.  The entries that are still undefined,
\* in the end those of predecessors that cannot be reached, are excepted: they
\* keep the type the PHI node had first (readerir.cpp:8705-8713).
PhisClosestSuperclass ==
    /\ \A b \in Blocks : \A i \in 1 .. Len(phis[b]) :
        \A e \in Range(phis[b][i].entries) :
            IsUndef(e.value) \/ e.value.type = phis[b][i].type
    /\ at = "done" =>
        \A b \in Range(order) : \A i \in 1 .. Len(phis[b]) :
            LET passed == {left[p][i].type :
                            p \in {q \in Range(order) : b \in Range(succ[q])}}
                common == {c \in Classes : \A t \in passed : c \in Ancestors(t)}
            IN /\ phis[b][i].type \in common
               /\ \A c \in common : c \in Ancestors(phis[b][i].type)
=============================================================================
