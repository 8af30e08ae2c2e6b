----------------------------- MODULE FlowGraph ------------------------------
(***************************************************************************)
(* The making of basic blocks from the bytes (fgBuildBasicBlocksFromBytes, *)
(* lib/Reader/reader.cpp, with the block operations of GenIR,              *)
(* lib/Reader/readerir.cpp).  Phase 1 reads the instructions in order, as  *)
(* RegionTree follows the regions, ends a block at every branch and at     *)
(* every edge of a region, and lets branches go to temporary blocks, one   *)
(* per target.  Phase 2 takes the targets in the order of their offsets,   *)
(* splits the block each of them lies in, and replaces the temporary one.  *)
(*                                                                         *)
(* Programs are chosen at the start.  A leave that passes no finally is a  *)
(* branch (see FinallyDispatch for the others).  An instruction has length *)
(* one.                                                                    *)
(***************************************************************************)
EXTENDS RegionTree

Seqs == INSTANCE SequencesExt

CONSTANT MaxBranches   \* bound on the branches of a program

VARIABLES
  code,     \* offset -> instruction: Op, and the targets as in the IL
  nodes,    \* the blocks: Start and End offset, Region, and terminator
  layout,   \* the blocks of the function in their order
  Block,    \* the current block, in phase 2 the one the search starts from
  labels    \* NodeOffsetListArray: target offset -> temporary block

blockVars == <<nodes, layout, Block, labels>>
vars == <<treeVars, code, blockVars>>

-----------------------------------------------------------------------------
(* The programs. *)
Offsets == 0 .. CodeSize - 1
Stays(o, t) ==
  \A x \in AllRanges :
    /\ In(o, x) => In(t, x)
    /\ In(t, x) /\ ~In(o, x) => x \notin CatchRanges /\ t = x[1]
FallsTo(o) == o + 1 < CodeSize /\ Stays(o, o + 1)

\* A switch has two cases; the order of its targets does not matter.
Instructions(o) ==
  LET Local == {t \in Offsets : Stays(o, t)}
      Falling == {x \in {<<>>} : FallsTo(o)}
      Outside == \A x \in AllRanges : ~In(o, x)
  IN  [Op : {"other"}, targets : Falling]
      \union [Op : {"br"}, targets : {<<t>> : t \in Local}]
      \union [Op : {"leave"}, targets : {<<t>> : t \in {u \in Offsets \ Local : LegalTarget(o, u)}}]
      \union [Op : {"brtrue"}, targets : {<<t>> : t \in {u \in Local : FallsTo(o)}}]
      \union [Op : {"switch"}, targets : {t \in Local \X Local : t[1] <= t[2] /\ FallsTo(o)}]
      \union [Op : {"throw"} \union (IF Outside THEN {"ret", "jmp"} ELSE {}), targets : {<<>>}]

Branching(i) == i.targets # <<>>

\* The program, one instruction after the other.
Programs ==
  LET upTo[n \in 0 .. CodeSize] ==
        IF n = 0 THEN {<<>>}
        ELSE {p \in {Append(q, i) : q \in upTo[n - 1], i \in Instructions(n - 1)} :
                Cardinality({k \in 1 .. n : Branching(p[k])}) <= MaxBranches}
  IN  upTo[CodeSize]

NoTerminator == [kind |-> "none", succ |-> <<>>]
node(start, end, region, term) == [Start |-> start, End |-> end, Region |-> region, term |-> term]

\* FirstMSILBlock, which readerPrePass split from the prolog
Init ==
  /\ TreeInit
  /\ code \in Programs
  /\ nodes = <<node(0, 0, 0, NoTerminator)>> /\ layout = <<1>> /\ Block = 1
  /\ labels = <<>>

-----------------------------------------------------------------------------
(* The graph g has nodes, layout and labels. *)
Graph(ns, l, lab) == [nodes |-> ns, layout |-> l, labels |-> lab]
graph == Graph(nodes, layout, labels)
Fresh(g) == Len(g.nodes) + 1
withNode(g, b, n) == Graph([g.nodes EXCEPT ![b] = n], g.layout, g.labels)
Position(g, b) == CHOOSE k \in 1 .. Len(g.layout) : g.layout[k] = b

(* makeFlowGraphNode: a block without a region after b, or last *)
makeFlowGraphNode(g, offset, b) ==
  Graph(Append(g.nodes, node(offset, 0, 0, NoTerminator)),
        IF b = 0 THEN Append(g.layout, Fresh(g)) ELSE Seqs!InsertAt(g.layout, Position(g, b) + 1, Fresh(g)),
        g.labels)

(* GenIR::fgSplitBlock at the end of a block: the new block follows it, and is the
   second successor of a conditional branch and the default of a switch. *)
fallThrough(term, new) ==
  IF term.kind = "none" THEN [kind |-> "br", succ |-> <<new>>]
  ELSE IF term.kind = "brtrue" THEN [term EXCEPT !.succ = <<@[1], new>>]
  ELSE IF term.kind = "switch" THEN [term EXCEPT !.succ = <<new, @[2], @[3]>>]
  ELSE term

(* fgSplitBlock at offset, but not at the end of the code.  atTerminator is the Node
   argument: split before the terminator, which goes to the new block. *)
fgSplitBlock(g, b, offset, atTerminator) ==
  LET old == g.nodes[b]
      ended(term) == node(old.Start, offset, old.Region, term)
      rest(term) == node(offset, old.End, old.Region, term)
      new == makeFlowGraphNode(g, offset, b)
  IN  IF ~atTerminator /\ offset = CodeSize THEN withNode(g, b, ended(old.term))
      ELSE IF atTerminator
      THEN withNode(withNode(new, b, ended([kind |-> "br", succ |-> <<Fresh(g)>>])), Fresh(g), rest(old.term))
      ELSE withNode(withNode(new, b, ended(fallThrough(old.term, Fresh(g)))), Fresh(g), rest(NoTerminator))

\* The block a split leaves as the current one
Newest(g, before, b) == IF Len(g.nodes) = Len(before.nodes) THEN b ELSE Len(g.nodes)

(* fgAddNodeMSILOffset: one temporary block per offset *)
fgAddNodeMSILOffset(g, offset) ==
  IF offset \in DOMAIN g.labels THEN g
  ELSE LET new == makeFlowGraphNode(g, offset, 0)
       IN  Graph(new.nodes, new.layout, [o \in DOMAIN g.labels \union {offset} |->
                                           IF o = offset THEN Fresh(g) ELSE g.labels[o]])

-----------------------------------------------------------------------------
(* Phase 1.  At the edge of a region the block is split, unless one starts there, and
   gets the region.  Mistake: it is not split. *)
switchRegion_NoSplit ==
  /\ stayInRegion
  /\ nodes' = [nodes EXCEPT ![Block].Region = CurrentRegion]
  /\ UNCHANGED <<layout, Block, code, labels>>
switchRegion ==
  /\ stayInRegion
  /\ LET split == IF nodes[Block].Start # CurrentOffset
                  THEN fgSplitBlock(graph, Block, CurrentOffset, FALSE) ELSE graph
         b == Newest(split, graph, Block)
     IN  /\ nodes' = [split.nodes EXCEPT ![b].Region = CurrentRegion]
         /\ layout' = split.layout /\ Block' = b
  /\ UNCHANGED <<code, labels>>

(* fgMakeBranch, fgMakeSwitch, fgMakeThrow and fgMakeReturn: the terminator of an
   instruction.  The block after a conditional branch is not known yet. *)
terminator(g, i) ==
  CASE i.Op \in {"br", "leave"} -> [kind |-> "br", succ |-> <<g.labels[i.targets[1]]>>]
    [] i.Op = "brtrue" -> [kind |-> "brtrue", succ |-> <<g.labels[i.targets[1]], 0>>]
    [] i.Op = "switch" -> [kind |-> "switch", succ |-> <<g.labels[CurrentOffset + 1],
                             g.labels[i.targets[1]], g.labels[i.targets[2]]>>]
    [] OTHER -> [kind |-> "unreachable", succ |-> <<>>]

\* The blocks it goes to; the default of a switch comes first.
fgAddTargets(g, i) ==
  IF i.Op = "switch"
  THEN LET default == fgAddNodeMSILOffset(g, CurrentOffset + 1)
       IN  fgAddNodeMSILOffset(fgAddNodeMSILOffset(default, i.targets[1]), i.targets[2])
  ELSE IF Branching(i) THEN fgAddNodeMSILOffset(g, i.targets[1]) ELSE g

(* fgBuildPhase1, one instruction *)
instruction ==
  LET i == code[CurrentOffset + 1]
      next == CurrentOffset + 1
      ended(term) == node(nodes[Block].Start, next, nodes[Block].Region, term)
      labelled == fgAddTargets(graph, i)
      branched == withNode(labelled, Block, ended(terminator(labelled, i)))
      last == withNode(graph, Block, ended(IF i.Op = "ret" THEN terminator(graph, i) ELSE nodes[Block].term))
  IN  /\ nextInstruction
      /\ \E g \in {CASE i.Op = "other" -> IF next = CodeSize THEN last ELSE graph
                     [] i.Op \in {"ret", "jmp"} ->
                          IF next < CodeSize THEN makeFlowGraphNode(last, next, Block) ELSE last
                     [] OTHER -> fgSplitBlock(branched, Block, next, FALSE)} :
           /\ nodes' = g.nodes /\ layout' = g.layout /\ labels' = g.labels
           /\ Block' = IF next = CodeSize THEN 1
                       ELSE IF i.Op = "other" THEN Block ELSE Len(g.nodes)
      /\ UNCHANGED code

-----------------------------------------------------------------------------
(* Phase 2.  fgReplaceBranchTarget: the block that has the offset, from Block on *)
Holds(g, b, offset) == g.nodes[b].Start <= offset /\ offset < g.nodes[b].End

(* Mistake: a block is not split when the offset is not where it starts. *)
splitAt_Never(g, b, offset) == g
splitAt(g, b, offset) ==
  IF g.nodes[b].Start = offset THEN g
  ELSE fgSplitBlock(g, b, offset, g.nodes[b].term # NoTerminator)

(* replaceFlowGraphNodeUses *)
replaceFlowGraphNodeUses(g, old, new) ==
  LET renamed(succ) == [k \in 1 .. Len(succ) |-> IF succ[k] = old THEN new ELSE succ[k]]
      used(n) == node(n.Start, n.End, n.Region, [kind |-> n.term.kind, succ |-> renamed(n.term.succ)])
  IN  Graph([b \in 1 .. Len(g.nodes) |-> used(g.nodes[b])],
            Seqs!RemoveAt(g.layout, Position(g, old)), g.labels)

fgReplaceBranchTarget ==
  /\ phase = "done" /\ DOMAIN labels # {}
  /\ LET offset == CHOOSE o \in DOMAIN labels : \A p \in DOMAIN labels : o <= p
         found == {k \in Position(graph, Block) .. Len(layout) : Holds(graph, layout[k], offset)}
     IN  IF found = {} THEN phase' = "assert" /\ UNCHANGED blockVars
         ELSE \E b \in {layout[CHOOSE k \in found : \A l \in found : k <= l]} :
              \E split \in {splitAt(graph, b, offset)} :
                /\ Block' = Newest(split, graph, b)
                /\ \E g \in {replaceFlowGraphNodeUses(split, labels[offset], Block')} :
                     nodes' = g.nodes /\ layout' = g.layout
                /\ labels' = [o \in DOMAIN labels \ {offset} |-> labels[o]]
                /\ UNCHANGED phase
  /\ UNCHANGED <<EIT, ClauseList, J, I, regions, search, CurrentOffset, CurrentRegion,
                 NextRegionTransitionOffset, entered, code>>

Next ==
  \/ (buildTree \/ exitRegion \/ enterRegion) /\ UNCHANGED <<code, blockVars>>
  \/ switchRegion \/ instruction \/ fgReplaceBranchTarget
Spec == Init /\ [][Next]_vars

-----------------------------------------------------------------------------
Built == phase = "done" /\ DOMAIN labels = {}
Starts(succ) == [k \in 1 .. Len(succ) |-> nodes[succ[k]].Start]

(* What the flow graph says is what the IL says.  The blocks follow one another in
   the order of the code and leave nothing out; a branch is the last instruction of
   its block, and the blocks it goes to start at its targets and, where it may fall
   through, at the next instruction; a block that ends for another reason goes on to
   the next.  No temporary block is left. *)
FlowAsInIL ==
  /\ phase # "assert"
  /\ Built =>
    /\ nodes[layout[1]].Start = 0 /\ nodes[layout[Len(layout)]].End = CodeSize
    /\ \A k \in 1 .. Len(layout) - 1 : nodes[layout[k]].End = nodes[layout[k + 1]].Start
    /\ \A k \in 1 .. Len(layout) :
         LET b == nodes[layout[k]]
             last == code[b.End]
         IN  /\ b.Start < b.End
             /\ \A o \in b.Start .. b.End - 2 : code[o + 1].Op = "other"
             /\ \A n \in 1 .. Len(b.term.succ) : b.term.succ[n] \in {layout[l] : l \in 1 .. Len(layout)}
             /\ Starts(b.term.succ) =
                  CASE last.Op = "other" -> <<b.End>>
                    [] last.Op = "brtrue" -> last.targets \o <<b.End>>
                    [] last.Op = "switch" -> <<b.End>> \o last.targets
                    [] OTHER -> last.targets

(* The instructions of a block lie in one EH region, the one the block is given;
   after a ret or jmp, which lie in none, the block may have none instead. *)
BlocksInOneRegion ==
  Built =>
    \A k \in 1 .. Len(layout) :
      LET b == nodes[layout[k]]
      IN  \A o \in b.Start .. b.End - 1 :
            \/ b.Region = Innermost(Around(o))
            \/ b.Region = 0 /\ Innermost(Around(o)) = 1
=============================================================================
