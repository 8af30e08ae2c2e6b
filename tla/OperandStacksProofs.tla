------------------------ MODULE OperandStacksProofs -------------------------
(***************************************************************************)
(* Proofs about OperandStacks, for any flow graph of valid IL: any number  *)
(* of blocks, any operand stacks and any splits.                           *)
(***************************************************************************)
EXTENDS OperandStacks, NatLemmas, FiniteSetTheorems, SequenceTheorems, TLAPS

-----------------------------------------------------------------------------
(* The invariant: types. *)

Instr == [pop : BOOLEAN, push : Types \cup {"none"}]
Reading == {"begin", "read", "propagate", "insert"}
Phases == Reading \cup {"discover", "done"}

\* The blocks are numbered, those of the first pass first.
BlocksOK ==
  \E n \in Nat :
    /\ n >= N /\ Blocks = 1 .. n
    /\ DOMAIN nominal = 1 .. n /\ DOMAIN propagates = 1 .. n /\ DOMAIN stack = 1 .. n
    /\ DOMAIN phis = 1 .. n /\ DOMAIN body = 1 .. n /\ DOMAIN depth = 1 .. n /\ DOMAIN left = 1 .. n

GraphOK ==
  \A b \in Blocks :
    /\ succ[b] \in Seq(Blocks) /\ Len(succ[b]) <= 2
    /\ nominal[b] \in Seq(1 .. N)
    /\ propagates[b] \in BOOLEAN
    /\ body[b] \in Seq(Instr)
    /\ depth[b] \in Nat
    /\ b <= N => propagates[b]

WalkOK ==
  /\ at \in Phases
  /\ visited \subseteq Blocks /\ 1 \in visited
  /\ worklist \in Seq(visited) /\ order \in Seq(visited)
  /\ it \in Nat \ {0}
  /\ at \in Reading => it <= Len(order)
  /\ k \in Nat \ {0} /\ edge \in Nat \ {0} /\ fresh \in Nat \ {0}
  /\ ins \in Blocks

-----------------------------------------------------------------------------
(* The invariant: the blocks that splits make. *)

\* Where a block goes, nominally or not.
To(b) == Range(nominal[b]) \cup Range(succ[b])

\* Made by a split of the block being read, and not yet in the list.
Made == {b \in Blocks : b > N /\ b \notin visited}

\* Two edges bring a stack to the block.
Brings(p, i, b) ==
  p \in Blocks /\ i \in 1 .. Len(succ[p]) /\ succ[p][i] = b /\ propagates[p]
Multi(b) ==
  \E p, q \in Blocks, i, j \in 1 .. 2 :
    Brings(p, i, b) /\ Brings(q, j, b) /\ (p # q \/ i # j)

\* A block a split has made gets a stack over one edge at most, and one that hands
\* its stack on is the last successor of its predecessor.
NewOnce ==
  /\ \A b \in Blocks : b > N => ~Multi(b)
  /\ \A p \in Blocks : \A i \in 1 .. Len(succ[p]) :
       succ[p][i] > N /\ propagates[succ[p][i]] => i = Len(succ[p])

\* Point blocks are empty, need no stack, and rejoin where their predecessor goes.
PointBlocks ==
  \A b \in Blocks : ~propagates[b] =>
    /\ depth[b] = 0 /\ body[b] = <<>>
    /\ \A p \in Blocks : b \in Range(succ[p]) => Range(succ[b]) \subseteq Range(succ[p])
    /\ b \in visited => To(b) \subseteq visited

\* The blocks made hang on the block being read, in a chain.
Chain ==
  /\ Made # {} => at \in Reading
  /\ \A b \in Made : \E p \in Made \cup {Fg} :
       propagates[p] /\ b \in Range(succ[p]) /\ (p = Fg \/ p < b)

\* What can be reached from the list is in it, or made by a split of the block being
\* read; only that block goes to blocks made.
Closed ==
  at # "discover" =>
    /\ visited = Range(order)
    /\ \A i, j \in 1 .. Len(order) : order[i] = order[j] => i = j
    /\ \A b \in visited \cup Made : To(b) \subseteq visited \cup Made
    /\ \A i \in 1 .. Len(order) : i # it => To(order[i]) \subseteq visited

\* A block with a continuation still to come has no instruction left to read.
Emptied ==
  \A b \in Made \cup (IF at = "begin" \/ (at = "read" /\ k = 1) THEN {Fg} ELSE {}) :
    Range(succ[b]) \cap Made # {} => body[b] = <<>>

\* The block inserted into
InsertsOK ==
  at = "read" =>
    /\ k = 1 => ins = Fg
    /\ ins # Fg => /\ ins \in Made /\ k = Len(body[Fg]) + 1 /\ k > 1
                   /\ depth[ins] = depth[Fg] + NetOf(body[Fg])
    /\ k > 1 => propagates[Fg] /\ propagates[ins] /\ Range(succ[ins]) \cap Made = {}

-----------------------------------------------------------------------------
(* The invariant: the order of reading. *)

\* Block t does not come before position i + 1 of the list.
After(t, i) == t \notin visited \/ \A j \in 1 .. Len(order) : order[j] = t => j > i

\* A stack that is not empty is handed to later blocks only.
Forward ==
  at # "discover" =>
    /\ \A i \in 1 .. Len(order) : propagates[order[i]] =>
         \A t \in Range(succ[order[i]]) : depth[t] > 0 => After(t, i)
    /\ \A b \in Made : propagates[b] => \A t \in Range(succ[b]) : depth[t] > 0 => After(t, it)

\* While the blocks are discovered the graph is that of the first pass.
Discovery ==
  at = "discover" =>
    /\ Blocks = 1 .. N /\ order = <<>> /\ it = 1 /\ rstack = <<>>
    /\ depth[1] = 0
    /\ \A b \in Blocks : \A t \in Range(succ[b]) : t <= b => depth[t] = 0
    /\ \A b \in Blocks : \A t \in Range(nominal[b]) : stack[t] # NoStack
    /\ \A b \in visited \ {1} : \E p \in visited : b \in To(p)
    /\ \A b \in visited : b \in Range(worklist) \/ To(b) \subseteq visited

-----------------------------------------------------------------------------
(* The invariant: depths. *)

\* Valid IL, also after splits: the depth is the same on every edge, and no instruction
\* pops an empty stack.
Depths ==
  \A b \in Blocks : propagates[b] =>
    /\ \A t \in Range(succ[b]) : propagates[t] => depth[t] = depth[b] + NetOf(body[b])
    /\ \A n \in 1 .. Len(body[b]) : body[b][n].pop => depth[b] + NetOf(SubSeq(body[b], 1, n - 1)) > 0

\* A stack of real values: not NoStack.
IsSeq(s) == \E S : s \in Seq(S)
Sourced(s) == IsSeq(s) /\ \A i \in 1 .. Len(s) : s[i].src \in Nat \ {0}

Stacks ==
  \A b \in Blocks : stack[b] # NoStack => Sourced(stack[b]) /\ Len(stack[b]) = depth[b]

\* The active stack is as deep as IL's.
Tracks ==
  /\ Sourced(rstack)
  /\ at \in {"begin", "insert"} => rstack = <<>>
  /\ at = "read" => /\ k <= Len(body[Fg]) + 1
                    /\ Len(rstack) = depth[Fg] + NetOf(SubSeq(body[Fg], 1, k - 1))
  /\ at = "propagate" => propagates[Fg] /\ rstack # <<>> /\ Len(rstack) = depth[Fg] + NetOf(body[Fg])

\* The block being read has yet to hand its stack to t.
Fed(t) ==
  \/ at \in {"begin", "read"} /\ t \in Range(succ[Fg]) /\ propagates[Fg]
  \/ at = "propagate" /\ \E n \in edge .. Len(succ[Fg]) : succ[Fg][n] = t

\* The blocks still to be read.
Awaits(t) ==
  \/ t \in Made
  \/ \E j \in 1 .. Len(order) : t = order[j] /\ (j > it \/ (j = it /\ at = "begin"))

\* A block that is to have a stack, and has none yet, gets one in time.
Served(t) ==
  \/ Fed(t)
  \/ \E p \in Made : propagates[p] /\ t \in Range(succ[p])
  \/ \E i, j \in 1 .. Len(order) :
       it < i /\ i < j /\ order[j] = t /\ propagates[order[i]] /\ t \in Range(succ[order[i]])
Pending ==
  at # "discover" =>
    \A t \in Blocks : Awaits(t) /\ depth[t] > 0 /\ stack[t] = NoStack => Served(t)

-----------------------------------------------------------------------------
(* The invariant: PHI nodes. *)

Rows(e) ==
  /\ IsSeq(e)
  /\ \A n \in 1 .. Len(e) : e[n] = Entry(e[n].block, e[n].value)
Shaped(phi) ==
  /\ phi = PHI(phi.src, phi.type, phi.entries)
  /\ phi.src \in Nat \ {0}
  /\ Rows(phi.entries)

\* Every entry is for an edge into the block.
Enters(phi, b) ==
  \A n \in 1 .. Len(phi.entries) :
    phi.entries[n].block \in Blocks /\ b \in Range(succ[phi.entries[n].block])

Phis ==
  \A b \in Blocks :
    /\ IsSeq(phis[b])
    /\ \A i \in 1 .. Len(phis[b]) : Shaped(phis[b][i]) /\ Enters(phis[b][i], b)
    /\ phis[b] # <<>> => depth[b] > 0
    /\ stack[b] # NoStack /\ Multi(b) => Len(phis[b]) = depth[b]

IInv ==
  /\ BlocksOK /\ GraphOK /\ WalkOK
  /\ NewOnce /\ PointBlocks /\ Chain /\ Closed /\ Emptied /\ InsertsOK
  /\ Forward /\ Discovery
  /\ Depths /\ Stacks /\ Tracks /\ Pending
  /\ Phis

-----------------------------------------------------------------------------
(* The operators of the model. *)

\* f is what the instructions up to each one leave on the stack.
Sums(f, code) ==
  /\ f \in [0 .. Len(code) -> Int] /\ f[0] = 0
  /\ \A m \in 1 .. Len(code) : f[m] = f[m - 1] + Net(code[m])

(* The net effect of an instruction is an integer. *)
LEMMA NetType == ASSUME NEW instr \in Instr PROVE Net(instr) \in Int
<1>1. instr.pop \in BOOLEAN
  BY DEF Instr
<1>2. QED
  BY DEF Net

(* NetOf is the last of the running sums. *)
LEMMA NetSums ==
  ASSUME NEW code \in Seq(Instr)
  PROVE  \E f : Sums(f, code) /\ NetOf(code) = f[Len(code)]
<1> DEFINE L == Len(code)
           Rec(f) == f = [n \in 0 .. Len(code) |-> IF n = 0 THEN 0 ELSE f[n - 1] + Net(code[n])]
           u == CHOOSE f : Rec(f)
           c == [n \in 1 .. L |-> Net(code[n])]
<1>1. L \in Nat /\ \A n \in 1 .. L : code[n] \in Instr
  OBVIOUS
<1>2. NetOf(code) = u[L]
  BY Zenon DEF NetOf
<1>3. \A n \in 1 .. L : c[n] = Net(code[n]) /\ Net(code[n]) \in Int
  BY <1>1, NetType
<1>4. PICK f : SumTo(f, c, L)
  <2> HIDE DEF c, L
  <2> QED
    BY <1>1, SumExists
<1>5. Rec(f)
  <2>1. f = [n \in 0 .. L |-> IF n = 0 THEN 0 ELSE f[n - 1] + c[n]]
    BY <1>4, Zenon DEF SumTo
  <2>2. \A n \in 0 .. L : (IF n = 0 THEN 0 ELSE f[n - 1] + c[n]) = IF n = 0 THEN 0 ELSE f[n - 1] + Net(code[n])
    BY <1>1, <1>3
  <2> HIDE DEF c
  <2>3. QED
    BY <2>1, <2>2
<1>6. Rec(u)
  BY <1>5, Zenon
<1>7. u[0] = 0 /\ \A n \in 1 .. L : u[n] = u[n - 1] + Net(code[n])
  <2> HIDE DEF u
  <2>1. u = [n \in 0 .. L |-> IF n = 0 THEN 0 ELSE u[n - 1] + Net(code[n])]
    BY <1>6, Zenon
  <2> HIDE DEF L
  <2>2. QED
    BY <1>1, <2>1
<1>8. DOMAIN u = 0 .. L /\ u = [n \in 0 .. L |-> u[n]]
  <2> HIDE DEF u
  <2>1. u = [n \in 0 .. L |-> IF n = 0 THEN 0 ELSE u[n - 1] + Net(code[n])]
    BY <1>6, Zenon
  <2> HIDE DEF L
  <2>2. QED
    BY <2>1
<1> HIDE DEF u, L
<1>9. \A n \in Nat : n <= L => u[n] \in Int
  <2> DEFINE T == {n \in Nat : n <= L => u[n] \in Int}
  <2>1. 0 \in T
    BY <1>7
  <2>2. ASSUME NEW n \in Nat, n \in T PROVE n + 1 \in T
    <3> SUFFICES ASSUME n + 1 <= L PROVE u[n + 1] \in Int
      OBVIOUS
    <3>1. u[n] \in Int /\ n + 1 \in 1 .. L /\ (n + 1) - 1 = n
      BY <1>1, <2>2
    <3>2. QED
      BY <1>3, <1>7, <3>1
  <2> HIDE DEF T
  <2>3. \A n \in Nat : n \in T
    BY <2>1, <2>2, SetInduction
  <2>4. QED
    BY <2>3 DEF T
<1>10. Sums(u, code)
  <2>1. u \in [0 .. L -> Int]
    BY <1>1, <1>8, <1>9
  <2>2. QED
    BY <1>7, <2>1 DEF Sums, L
<1>11. QED
  BY <1>2, <1>10 DEF L

(* What is left by a part of the code. *)
LEMMA NetOfPart ==
  ASSUME NEW code \in Seq(Instr), NEW f, Sums(f, code), NEW m \in Nat, NEW n \in Nat,
         m <= n, n <= Len(code)
  PROVE  /\ SubSeq(code, m + 1, n) \in Seq(Instr)
         /\ Len(SubSeq(code, m + 1, n)) = n - m
         /\ \A i \in 1 .. n - m : SubSeq(code, m + 1, n)[i] = code[m + i]
         /\ NetOf(SubSeq(code, m + 1, n)) = f[n] - f[m]
<1> DEFINE s == SubSeq(code, m + 1, n)
<1>1. Len(code) \in Nat /\ \A i \in 1 .. Len(code) : code[i] \in Instr
  OBVIOUS
<1>2. s \in Seq(Instr) /\ Len(s) = n - m /\ \A i \in 1 .. n - m : s[i] = code[m + i]
  BY <1>1
<1> HIDE DEF s
<1>3. PICK g : Sums(g, s) /\ NetOf(s) = g[Len(s)]
  BY <1>2, NetSums
<1>4. \A i \in Nat : i <= n - m => g[i] = f[m + i] - f[m]
  <2> DEFINE T == {i \in Nat : i <= n - m => g[i] = f[m + i] - f[m]}
  <2>0. \A i \in 0 .. Len(code) : f[i] \in Int
    BY DEF Sums
  <2>1. 0 \in T
    BY <1>3, <2>0, <1>1 DEF Sums
  <2>2. ASSUME NEW i \in Nat, i \in T PROVE i + 1 \in T
    <3> SUFFICES ASSUME i + 1 <= n - m PROVE g[i + 1] = f[m + (i + 1)] - f[m]
      OBVIOUS
    <3>1. i + 1 \in 1 .. n - m /\ (i + 1) - 1 = i /\ m + (i + 1) \in 1 .. Len(code) /\ (m + (i + 1)) - 1 = m + i
          /\ m + i \in 0 .. Len(code) /\ m \in 0 .. Len(code)
      BY <1>1
    <3>2. g[i] = f[m + i] - f[m]
      BY <2>2
    <3>3. g[i + 1] = g[i] + Net(s[i + 1]) /\ f[m + (i + 1)] = f[m + i] + Net(code[m + (i + 1)])
      BY <1>2, <1>3, <3>1 DEF Sums
    <3>4. s[i + 1] = code[m + (i + 1)] /\ Net(code[m + (i + 1)]) \in Int
      BY <1>1, <1>2, <3>1, NetType
    <3>5. f[m] \in Int /\ f[m + i] \in Int
      BY <2>0, <3>1
    <3>6. QED
      BY <3>2, <3>3, <3>4, <3>5
  <2> HIDE DEF T
  <2>3. \A i \in Nat : i \in T
    BY <2>1, <2>2, SetInduction
  <2>4. QED
    BY <2>3 DEF T
<1>5. g[n - m] = f[m + (n - m)] - f[m]
  BY <1>4
<1>6. QED
  BY <1>2, <1>3, <1>5 DEF s

(* What the code leaves, instruction by instruction. *)
LEMMA NetFacts ==
  ASSUME NEW code \in Seq(Instr)
  PROVE  /\ NetOf(code) \in Int
         /\ \A n \in 0 .. Len(code) : NetOf(SubSeq(code, 1, n)) \in Int
         /\ NetOf(SubSeq(code, 1, 0)) = 0
         /\ code = <<>> => NetOf(code) = 0
         /\ \A n \in 1 .. Len(code) :
              NetOf(SubSeq(code, 1, n)) = NetOf(SubSeq(code, 1, n - 1)) + Net(code[n])
         /\ SubSeq(code, 1, Len(code)) = code
<1>1. PICK f : Sums(f, code) /\ NetOf(code) = f[Len(code)]
  BY NetSums
<1>2. Len(code) \in Nat
  OBVIOUS
<1>3. f[0] = 0 /\ \A n \in 0 .. Len(code) : f[n] \in Int
  BY <1>1, <1>2 DEF Sums
<1>4. ASSUME NEW n \in 0 .. Len(code) PROVE NetOf(SubSeq(code, 1, n)) = f[n]
  <2>1. n \in Nat /\ 0 \in Nat /\ 0 <= n /\ n <= Len(code) /\ 0 + 1 = 1
    BY <1>2
  <2>2. NetOf(SubSeq(code, 0 + 1, n)) = f[n] - f[0]
    BY <1>1, <2>1, NetOfPart
  <2>3. QED
    BY <1>3, <2>1, <2>2
<1>5. ASSUME NEW n \in 1 .. Len(code)
      PROVE  NetOf(SubSeq(code, 1, n)) = NetOf(SubSeq(code, 1, n - 1)) + Net(code[n])
  <2>1. n \in 0 .. Len(code) /\ n - 1 \in 0 .. Len(code)
    BY <1>2
  <2>2. f[n] = f[n - 1] + Net(code[n])
    BY <1>1 DEF Sums
  <2>3. QED
    BY <1>4, <2>1, <2>2
<1>6. SubSeq(code, 1, Len(code)) = code
  BY SubSeqFull
<1>7. code = <<>> => NetOf(code) = 0
  BY <1>1, <1>3
<1>8. 0 \in 0 .. Len(code) /\ Len(code) \in 0 .. Len(code)
  BY <1>2
<1>9. QED
  BY <1>1, <1>3, <1>4, <1>5, <1>6, <1>7, <1>8

\* The two parts of a code, split after instruction j.
Parted(code, j, mine, rest) ==
  /\ mine \in Seq(Instr) /\ Len(mine) = j
  /\ rest \in Seq(Instr) /\ Len(rest) = Len(code) - j
  /\ NetOf(code) = NetOf(mine) + NetOf(rest)
  /\ NetOf(mine) \in Int /\ NetOf(rest) \in Int
  /\ \A n \in 1 .. j : mine[n] = code[n] /\ SubSeq(mine, 1, n - 1) = SubSeq(code, 1, n - 1)
  /\ \A n \in 1 .. Len(rest) :
       /\ j + n \in 1 .. Len(code) /\ rest[n] = code[j + n]
       /\ NetOf(SubSeq(code, 1, (j + n) - 1)) = NetOf(mine) + NetOf(SubSeq(rest, 1, n - 1))
       /\ NetOf(SubSeq(rest, 1, n - 1)) \in Int

(* The code before and after a split. *)
LEMMA NetSplit ==
  ASSUME NEW code \in Seq(Instr), NEW j \in 0 .. Len(code), NEW mine, NEW rest,
         mine = SubSeq(code, 1, j), rest = SubSeq(code, j + 1, Len(code))
  PROVE  Parted(code, j, mine, rest)
<1>1. PICK f : Sums(f, code) /\ NetOf(code) = f[Len(code)]
  BY NetSums
<1>2. Len(code) \in Nat /\ j \in Nat /\ j <= Len(code) /\ \A i \in 1 .. Len(code) : code[i] \in Instr
  OBVIOUS
<1>3. f[0] = 0 /\ \A n \in 0 .. Len(code) : f[n] \in Int
  BY <1>1, <1>2 DEF Sums
<1>4. ASSUME NEW n \in 0 .. Len(code) PROVE NetOf(SubSeq(code, 1, n)) = f[n]
  <2>1. n \in Nat /\ 0 \in Nat /\ 0 <= n /\ n <= Len(code) /\ 0 + 1 = 1
    BY <1>2
  <2>2. NetOf(SubSeq(code, 0 + 1, n)) = f[n] - f[0]
    BY <1>1, <2>1, NetOfPart
  <2>3. QED
    BY <1>3, <2>1, <2>2
<1>5. mine \in Seq(Instr) /\ Len(mine) = j /\ \A n \in 1 .. j : mine[n] = code[n]
  BY <1>2
<1>6. /\ rest \in Seq(Instr) /\ Len(rest) = Len(code) - j
      /\ \A i \in 1 .. Len(code) - j : rest[i] = code[j + i]
      /\ NetOf(rest) = f[Len(code)] - f[j]
  BY <1>1, <1>2, NetOfPart
<1>7. NetOf(mine) = f[j]
  BY <1>4
<1>8. NetOf(code) = NetOf(mine) + NetOf(rest) /\ NetOf(mine) \in Int /\ NetOf(rest) \in Int
  BY <1>1, <1>2, <1>3, <1>6, <1>7
<1>9. ASSUME NEW n \in 1 .. j PROVE SubSeq(mine, 1, n - 1) = SubSeq(code, 1, n - 1)
  BY <1>2, <1>5
<1>10. ASSUME NEW n \in 1 .. Len(rest)
       PROVE  /\ j + n \in 1 .. Len(code) /\ rest[n] = code[j + n]
              /\ NetOf(SubSeq(code, 1, (j + n) - 1)) = NetOf(mine) + NetOf(SubSeq(rest, 1, n - 1))
              /\ NetOf(SubSeq(rest, 1, n - 1)) \in Int
  <2>1. n \in Nat /\ j + n \in 1 .. Len(code) /\ (j + n) - 1 \in 0 .. Len(code) /\ (j + n) - 1 \in Nat
        /\ j <= (j + n) - 1 /\ (j + n) - 1 <= Len(code) /\ n - 1 \in 0 .. Len(rest)
    BY <1>2, <1>6
  <2> DEFINE p == SubSeq(code, j + 1, (j + n) - 1)
             r == SubSeq(rest, 1, n - 1)
  <2>2. /\ p \in Seq(Instr) /\ Len(p) = ((j + n) - 1) - j
        /\ \A i \in 1 .. ((j + n) - 1) - j : p[i] = code[j + i]
        /\ NetOf(p) = f[(j + n) - 1] - f[j]
    <3> HIDE DEF p
    <3> QED
      BY <1>1, <1>2, <2>1, NetOfPart DEF p
  <2>3. r \in Seq(Instr) /\ Len(r) = n - 1 /\ \A i \in 1 .. n - 1 : r[i] = rest[i]
    <3>1. \A i \in 1 .. Len(rest) : rest[i] \in Instr
      BY <1>6
    <3>2. QED
      BY <1>6, <2>1, <3>1
  <2> HIDE DEF p, r
  <2>4. p = r
    <3>1. Len(p) = Len(r) /\ \A i \in 1 .. Len(p) : p[i] = r[i]
      BY <1>2, <1>6, <2>1, <2>2, <2>3
    <3>2. QED
      BY <2>2, <2>3, <3>1, SeqEqual
  <2>5. NetOf(SubSeq(code, 1, (j + n) - 1)) = f[(j + n) - 1]
    BY <1>4, <2>1
  <2>6. NetOf(SubSeq(rest, 1, n - 1)) = f[(j + n) - 1] - f[j]
    BY <2>2, <2>4 DEF r
  <2>7. f[(j + n) - 1] \in Int /\ f[j] \in Int
    BY <1>2, <1>3, <2>1
  <2>8. rest[n] = code[j + n]
    BY <1>6
  <2>9. QED
    BY <1>7, <2>1, <2>5, <2>6, <2>7, <2>8
<1>11. QED
  BY <1>5, <1>6, <1>8, <1>9, <1>10 DEF Parted

\* f is b at 0 and, up to L, F gives what it is at the next number.
Scans(f, S, b, F, L) ==
  /\ f \in [0 .. L -> S]
  /\ f = [n \in 0 .. L |-> IF n = 0 THEN b ELSE F[<<n, f[n - 1]>>]]
  /\ f[0] = b /\ \A n \in 1 .. L : f[n] = F[<<n, f[n - 1]>>]

(* A definition by recursion over a list has a solution. *)
LEMMA ScanExists ==
  ASSUME NEW S, NEW b \in S, NEW L \in Nat, NEW F \in [(1 .. L) \X S -> S]
  PROVE  \E f : Scans(f, S, b, F, L)
<1> DEFINE G == [p \in Nat \X S |-> IF p[1] + 1 <= L THEN F[<<p[1] + 1, p[2]>>] ELSE p[2]]
<1>1. G \in [Nat \X S -> S]
  <2>1. ASSUME NEW p \in Nat \X S PROVE (IF p[1] + 1 <= L THEN F[<<p[1] + 1, p[2]>>] ELSE p[2]) \in S
    <3>1. p[1] \in Nat /\ p[2] \in S
      OBVIOUS
    <3>2. CASE p[1] + 1 <= L
      <4>1. <<p[1] + 1, p[2]>> \in (1 .. L) \X S
        BY <3>1, <3>2
      <4>2. QED
        BY <3>2, <4>1
    <3>3. CASE ~(p[1] + 1 <= L)
      BY <3>1, <3>3
    <3>4. QED
      BY <3>2, <3>3
  <2>2. QED
    BY <2>1
<1>2. \A n \in Nat, a \in S : n + 1 <= L => G[<<n, a>>] = F[<<n + 1, a>>]
  OBVIOUS
<1> HIDE DEF G
<1>3. PICK f : RecursiveTo(f, S, b, G, L)
  BY <1>1, RecursionTo
<1>4. f \in [0 .. L -> S] /\ f = [n \in 0 .. L |-> IF n = 0 THEN b ELSE G[<<n - 1, f[n - 1]>>]]
  BY <1>3, Zenon DEF RecursiveTo
<1>5. f[0] = b
  BY <1>4, 0 \in 0 .. L
<1>6. ASSUME NEW n \in 1 .. L PROVE f[n] = F[<<n, f[n - 1]>>]
  <2>1. n \in 0 .. L /\ n # 0 /\ n - 1 \in 0 .. L /\ n - 1 \in Nat /\ (n - 1) + 1 = n /\ (n - 1) + 1 <= L
    OBVIOUS
  <2>2. f[n] = G[<<n - 1, f[n - 1]>>]
    BY <1>4, <2>1
  <2>3. f[n - 1] \in S
    BY <1>4, <2>1
  <2>4. G[<<n - 1, f[n - 1]>>] = F[<<(n - 1) + 1, f[n - 1]>>]
    BY <1>2, <2>1, <2>3
  <2>5. QED
    BY <2>1, <2>2, <2>4
<1>7. ASSUME NEW n \in 0 .. L PROVE f[n] = IF n = 0 THEN b ELSE F[<<n, f[n - 1]>>]
  <2>1. CASE n = 0
    BY <1>5, <2>1
  <2>2. CASE n # 0
    BY <1>6, <2>2, n \in 1 .. L
  <2>3. QED
    BY <2>1, <2>2
<1>8. f = [n \in 0 .. L |-> IF n = 0 THEN b ELSE F[<<n, f[n - 1]>>]]
  BY <1>4, <1>7
<1>9. QED
  BY <1>4, <1>5, <1>6, <1>8, Zenon DEF Scans

\* One block of the list is added, if it is new.
Listed(v, x, seen) == IF x \in seen \cup Range(v) THEN v ELSE Append(v, x)

\* What one step of NotVisited preserves: v holds the unseen blocks of the list up to n.
ListedTo(v, list, n, seen) ==
  /\ \A i \in 1 .. Len(v) : v[i] \notin seen /\ \E m \in 1 .. n : list[m] = v[i]
  /\ \A m \in 1 .. n : list[m] \in seen \/ \E i \in 1 .. Len(v) : v[i] = list[m]
  /\ \A i, j \in 1 .. Len(v) : v[i] = v[j] => i = j
  /\ n > 0 /\ list[n] \notin seen /\ (\A m \in 1 .. n - 1 : list[m] # list[n]) =>
       Len(v) > 0 /\ v[Len(v)] = list[n]

(* One step of NotVisited. *)
LEMMA ListedStep ==
  ASSUME NEW S, NEW list \in Seq(S), NEW v \in Seq(S), NEW seen, NEW n \in Nat,
         n + 1 <= Len(list), ListedTo(v, list, n, seen)
  PROVE  /\ Listed(v, list[n + 1], seen) \in Seq(S)
         /\ ListedTo(Listed(v, list[n + 1], seen), list, n + 1, seen)
<1> DEFINE x == list[n + 1]
           w == Listed(v, x, seen)
<1>1. x \in S /\ Len(v) \in Nat /\ n + 1 \in 1 .. Len(list)
  OBVIOUS
<1>2. Range(v) = {v[i] : i \in 1 .. Len(v)}
  BY DEF Range
<1>3. CASE x \in seen \cup Range(v)
  <2>1. w = v
    BY <1>3 DEF Listed
  <2>2. x \in seen \/ \E i \in 1 .. Len(v) : v[i] = x
    BY <1>2, <1>3
  <2>3. \A m \in 1 .. n + 1 : m = n + 1 \/ m \in 1 .. n
    OBVIOUS
  <2>4. \A m \in 1 .. n : m \in 1 .. n + 1 /\ m \in 1 .. (n + 1) - 1
    OBVIOUS
  <2>5. x \notin seen => ~ \A m \in 1 .. (n + 1) - 1 : list[m] # x
    BY <2>2, <2>4 DEF ListedTo
  <2> HIDE DEF w
  <2>6. ListedTo(v, list, n + 1, seen)
    BY <2>2, <2>3, <2>4, <2>5 DEF ListedTo
  <2>7. QED
    BY <2>1, <2>6 DEF w
<1>4. CASE x \notin seen \cup Range(v)
  <2>1. w = Append(v, x)
    BY <1>4 DEF Listed
  <2> HIDE DEF w
  <2>2. w \in Seq(S) /\ Len(w) = Len(v) + 1 /\ w[Len(v) + 1] = x /\ \A i \in 1 .. Len(v) : w[i] = v[i]
    BY <1>1, <2>1
  <2>3. \A i \in 1 .. Len(w) : i = Len(v) + 1 \/ i \in 1 .. Len(v)
    BY <1>1, <2>2
  <2>4. \A m \in 1 .. n + 1 : m = n + 1 \/ m \in 1 .. n
    OBVIOUS
  <2>5. \A m \in 1 .. n : m \in 1 .. n + 1
    OBVIOUS
  <2>6. x \notin seen /\ \A i \in 1 .. Len(v) : v[i] # x
    BY <1>2, <1>4
  <2>7. n + 1 \in 1 .. n + 1 /\ Len(v) + 1 \in 1 .. Len(w) /\ \A i \in 1 .. Len(v) : i \in 1 .. Len(w)
    BY <1>1, <2>2
  <2>8. \A i \in 1 .. Len(w) : w[i] \notin seen /\ \E m \in 1 .. n + 1 : list[m] = w[i]
    BY <2>2, <2>3, <2>5, <2>6, <2>7 DEF ListedTo
  <2>9. ASSUME NEW m \in 1 .. n + 1, list[m] \notin seen PROVE \E i \in 1 .. Len(w) : w[i] = list[m]
    <3>1. CASE m = n + 1
      BY <2>2, <2>7, <3>1
    <3>2. CASE m \in 1 .. n
      <4>1. PICK i \in 1 .. Len(v) : v[i] = list[m]
        BY <2>9, <3>2 DEF ListedTo
      <4>2. w[i] = list[m] /\ i \in 1 .. Len(w)
        BY <2>2, <2>7, <4>1
      <4>3. QED
        BY <4>2
    <3>3. QED
      BY <2>4, <3>1, <3>2
  <2>10. ASSUME NEW i \in 1 .. Len(w), NEW j \in 1 .. Len(w), w[i] = w[j] PROVE i = j
    <3>1. i = Len(v) + 1 \/ (i \in 1 .. Len(v) /\ w[i] = v[i] /\ v[i] # x)
      BY <2>2, <2>3, <2>6
    <3>2. j = Len(v) + 1 \/ (j \in 1 .. Len(v) /\ w[j] = v[j] /\ v[j] # x)
      BY <2>2, <2>3, <2>6
    <3>3. w[Len(v) + 1] = x
      BY <2>2
    <3>4. \A a, c \in 1 .. Len(v) : v[a] = v[c] => a = c
      BY Zenon DEF ListedTo
    <3>5. CASE i = Len(v) + 1
      BY <2>10, <3>2, <3>3, <3>5
    <3>6. CASE j = Len(v) + 1
      BY <2>10, <3>1, <3>3, <3>6
    <3>7. CASE i \in 1 .. Len(v) /\ j \in 1 .. Len(v) /\ w[i] = v[i] /\ w[j] = v[j]
      BY <2>10, <3>4, <3>7
    <3>8. QED
      BY <3>1, <3>2, <3>5, <3>6, <3>7
  <2>11. Len(w) > 0 /\ w[Len(w)] = x
    BY <1>1, <2>2
  <2>12. ListedTo(w, list, n + 1, seen)
    BY <2>8, <2>9, <2>10, <2>11 DEF ListedTo
  <2>13. QED
    BY <2>2, <2>12 DEF w
<1>5. QED
  BY <1>3, <1>4

(* NotVisited is the blocks of the list that are not visited, each once. *)
LEMMA NotVisitedIs ==
  ASSUME NEW S, NEW list \in Seq(S)
  PROVE  NotVisited(list) \in Seq(S) /\ ListedTo(NotVisited(list), list, Len(list), visited)
<1> DEFINE L == Len(list)
           Rec(f) == f = [n \in 0 .. Len(list) |->
                            IF n = 0 THEN <<>>
                            ELSE IF list[n] \in visited \cup Range(f[n - 1]) THEN f[n - 1]
                            ELSE Append(f[n - 1], list[n])]
           u == CHOOSE f : Rec(f)
           F == [p \in (1 .. L) \X Seq(S) |-> Listed(p[2], list[p[1]], visited)]
<1>1. L \in Nat /\ \A n \in 1 .. L : list[n] \in S
  OBVIOUS
<1>2. NotVisited(list) = u[L]
  BY Zenon DEF NotVisited
<1>3. \A v \in Seq(S), x \in S : Listed(v, x, visited) \in Seq(S)
  BY DEF Listed
<1>4. F \in [(1 .. L) \X Seq(S) -> Seq(S)]
  BY <1>1, <1>3
<1>5. \A n \in 1 .. L, v \in Seq(S) : F[<<n, v>>] = Listed(v, list[n], visited)
  OBVIOUS
<1>6. <<>> \in Seq(S)
  OBVIOUS
<1> HIDE DEF F
<1>7. PICK f : Scans(f, Seq(S), <<>>, F, L)
  <2> HIDE DEF L
  <2> QED
    BY <1>1, <1>4, <1>6, ScanExists
<1>8. \A n \in 1 .. L : f[n - 1] \in Seq(S) /\ f[n] = Listed(f[n - 1], list[n], visited)
  <2>1. ASSUME NEW n \in 1 .. L PROVE f[n - 1] \in Seq(S) /\ f[n] = Listed(f[n - 1], list[n], visited)
    <3>1. n - 1 \in 0 .. L
      BY <1>1
    <3>2. f[n - 1] \in Seq(S) /\ f[n] = F[<<n, f[n - 1]>>]
      BY <1>7, <3>1 DEF Scans
    <3>3. QED
      BY <1>5, <3>2
  <2>2. QED
    BY <2>1
<1>9. Rec(f)
  <2>1. f = [n \in 0 .. L |-> IF n = 0 THEN <<>> ELSE F[<<n, f[n - 1]>>]]
    BY <1>7, Zenon DEF Scans
  <2>2. ASSUME NEW n \in 0 .. L
        PROVE  (IF n = 0 THEN <<>> ELSE F[<<n, f[n - 1]>>])
                 = IF n = 0 THEN <<>> ELSE Listed(f[n - 1], list[n], visited)
    <3>1. CASE n = 0
      BY <3>1
    <3>2. CASE n # 0
      <4>1. n \in 1 .. L
        BY <1>1, <3>2
      <4>2. F[<<n, f[n - 1]>>] = Listed(f[n - 1], list[n], visited)
        BY <1>5, <1>8, <4>1
      <4>3. QED
        BY <3>2, <4>2
    <3>3. QED
      BY <3>1, <3>2
  <2>3. f = [n \in 0 .. L |-> IF n = 0 THEN <<>> ELSE Listed(f[n - 1], list[n], visited)]
    <3> HIDE DEF L
    <3> QED
      BY <2>1, <2>2
  <2>4. QED
    BY <2>3, Zenon DEF Listed
<1>10. Rec(u)
  BY <1>9, Zenon
<1> HIDE DEF u
<1>11. u = [n \in 0 .. L |-> IF n = 0 THEN <<>> ELSE Listed(u[n - 1], list[n], visited)]
  BY <1>10, Zenon DEF Listed
<1> HIDE DEF L
<1>12. u[0] = <<>> /\ \A n \in 1 .. L : u[n] = Listed(u[n - 1], list[n], visited)
  BY <1>1, <1>11
<1>13. \A n \in Nat : n <= L => u[n] \in Seq(S) /\ ListedTo(u[n], list, n, visited)
  <2> DEFINE T == {n \in Nat : n <= L => u[n] \in Seq(S) /\ ListedTo(u[n], list, n, visited)}
  <2>1. 0 \in T
    <3>1. ListedTo(<<>>, list, 0, visited)
      BY DEF ListedTo
    <3>2. QED
      BY <1>6, <1>12, <3>1
  <2>2. ASSUME NEW n \in Nat, n \in T PROVE n + 1 \in T
    <3> SUFFICES ASSUME n + 1 <= L PROVE u[n + 1] \in Seq(S) /\ ListedTo(u[n + 1], list, n + 1, visited)
      OBVIOUS
    <3>1. u[n] \in Seq(S) /\ ListedTo(u[n], list, n, visited) /\ n + 1 \in 1 .. L /\ (n + 1) - 1 = n
      BY <1>1, <2>2
    <3>2. u[n + 1] = Listed(u[n], list[n + 1], visited)
      BY <1>12, <3>1
    <3>3. n + 1 <= Len(list)
      BY DEF L
    <3>4. QED
      BY <3>1, <3>2, <3>3, ListedStep
  <2> HIDE DEF T
  <2>3. \A n \in Nat : n \in T
    BY <2>1, <2>2, SetInduction
  <2>4. QED
    BY <2>3 DEF T
<1>14. L <= L
  BY <1>1
<1>15. QED
  BY <1>1, <1>2, <1>13, <1>14, Zenon DEF L

(* The blocks are a range of numbers that holds those of the first pass. *)
LEMMA BlocksFacts ==
  ASSUME BlocksOK
  PROVE  /\ Blocks \subseteq Nat \ {0} /\ 1 .. N \subseteq Blocks /\ IsFiniteSet(Blocks)
         /\ N \in Nat \ {0}
         /\ NewBlock \in Nat /\ NewBlock > N
         /\ \A b \in Blocks : b < NewBlock
         /\ Blocks = 1 .. NewBlock - 1
<1>1. PICK n \in Nat : n >= N /\ Blocks = 1 .. n
  BY DEF BlocksOK
<1>2. N \in Nat \ {0}
  BY BoundsAssumption
<1>3. IsFiniteSet(1 .. n) /\ Cardinality(1 .. n) = IF 1 > n THEN 0 ELSE (n - 1) + 1
  BY FS_Interval
<1>4. NewBlock = n + 1
  BY <1>1, <1>2, <1>3 DEF NewBlock
<1>5. QED
  BY <1>1, <1>2, <1>3, <1>4

(* Range, for sequences. *)
LEMMA RangeSeq ==
  ASSUME NEW S, NEW s \in Seq(S)
  PROVE  /\ \A x : x \in Range(s) <=> \E i \in 1 .. Len(s) : s[i] = x
         /\ \A i \in 1 .. Len(s) : s[i] \in Range(s)
         /\ Range(s) \subseteq S
         /\ Len(s) \in Nat
  BY DEF Range

(* The blocks that a block makes known. *)
LEMMA UnvisitedIs ==
  ASSUME BlocksOK, GraphOK, NEW b \in Blocks
  PROVE  /\ Unvisited(b) \in Seq(Blocks)
         /\ Range(Unvisited(b)) = To(b) \ visited
         /\ \A i, j \in 1 .. Len(Unvisited(b)) : Unvisited(b)[i] = Unvisited(b)[j] => i = j
         /\ \A x \in Range(succ[b]) \ visited :
              x > N /\ (\A i \in 1 .. Len(succ[b]) : succ[b][i] = x => i = Len(succ[b])) =>
                Len(Unvisited(b)) > 0 /\ Unvisited(b)[Len(Unvisited(b))] = x
<1> DEFINE no == nominal[b]
           su == succ[b]
           list == no \o su
           v == NotVisited(list)
<1>1. 1 .. N \subseteq Blocks /\ Blocks \subseteq Nat /\ N \in Nat
  BY BlocksFacts
<1>2. su \in Seq(Blocks) /\ no \in Seq(1 .. N)
  BY DEF GraphOK
<1>3. no \in Seq(Blocks)
  BY <1>1, <1>2, SeqMonotonic
<1> HIDE DEF no, su
<1>4. /\ list \in Seq(Blocks) /\ Len(list) = Len(no) + Len(su)
      /\ \A i \in 1 .. Len(list) : list[i] = IF i <= Len(no) THEN no[i] ELSE su[i - Len(no)]
  BY <1>2, <1>3
<1>5. Unvisited(b) = v
  BY DEF Unvisited, Successors, no, su
<1> HIDE DEF list
<1>6. v \in Seq(Blocks) /\ ListedTo(v, list, Len(list), visited)
  BY <1>4, NotVisitedIs
<1> HIDE DEF v
<1>7. Len(no) \in Nat /\ Len(su) \in Nat /\ Len(list) \in Nat /\ Len(v) \in Nat
  BY <1>2, <1>4, <1>6
<1>8. \A x : x \in Range(list) <=> x \in Range(no) \/ x \in Range(su)
  <2>1. Range(list) = Range(no) \cup Range(su)
    BY <1>2, <1>3, RangeConcatenation DEF list
  <2>2. QED
    BY <2>1
<1>9. Range(v) = (Range(no) \cup Range(su)) \ visited
  <2>1. \A x : x \in Range(v) <=> \E i \in 1 .. Len(v) : v[i] = x
    BY <1>6, RangeSeq
  <2>2. \A x : x \in Range(list) <=> \E i \in 1 .. Len(list) : list[i] = x
    BY <1>4, RangeSeq
  <2>3. ASSUME NEW x \in Range(v) PROVE x \in Range(list) /\ x \notin visited
    <3>1. \A i \in 1 .. Len(v) : v[i] \notin visited /\ \E m \in 1 .. Len(list) : list[m] = v[i]
      BY <1>6, Zenon DEF ListedTo
    <3>2. PICK i \in 1 .. Len(v) : v[i] = x
      BY <2>1, <2>3
    <3>3. x \notin visited /\ \E m \in 1 .. Len(list) : list[m] = x
      BY <3>1, <3>2
    <3>4. QED
      BY <2>2, <3>3
  <2>4. ASSUME NEW x \in Range(list), x \notin visited PROVE x \in Range(v)
    <3>1. \A m \in 1 .. Len(list) : list[m] \in visited \/ \E i \in 1 .. Len(v) : v[i] = list[m]
      BY <1>6, Zenon DEF ListedTo
    <3>2. PICK m \in 1 .. Len(list) : list[m] = x
      BY <2>2, <2>4
    <3>3. \E i \in 1 .. Len(v) : v[i] = x
      BY <2>4, <3>1, <3>2
    <3>4. QED
      BY <2>1, <3>3
  <2>5. QED
    BY <1>8, <2>3, <2>4
<1>10. ASSUME NEW x \in Range(su) \ visited, x > N,
              \A i \in 1 .. Len(su) : su[i] = x => i = Len(su)
       PROVE  Len(v) > 0 /\ v[Len(v)] = x
  <2>1. PICK i \in 1 .. Len(su) : su[i] = x
    BY <1>2, RangeSeq
  <2>2. Len(su) > 0 /\ su[Len(su)] = x
    BY <1>7, <1>10, <2>1
  <2>3. list[Len(list)] = x /\ Len(list) > 0
    <3>1. Len(list) \in 1 .. Len(list) /\ ~(Len(list) <= Len(no)) /\ Len(list) - Len(no) = Len(su)
      BY <1>4, <1>7, <2>2
    <3>2. QED
      BY <1>4, <2>2, <3>1
  <2>4. ASSUME NEW m \in 1 .. Len(list) - 1, list[m] = x PROVE FALSE
    <3>1. m \in 1 .. Len(list) /\ m # Len(list)
      BY <1>7
    <3>2. CASE m <= Len(no)
      <4>1. no[m] = x /\ m \in 1 .. Len(no)
        BY <1>4, <2>4, <3>1, <3>2
      <4>2. no[m] \in 1 .. N
        BY <1>2, <4>1, ElementOfSeq
      <4>3. QED
        BY <1>1, <1>10, <4>1, <4>2
    <3>3. CASE ~(m <= Len(no))
      <4>1. m - Len(no) \in 1 .. Len(su) /\ su[m - Len(no)] = x /\ m - Len(no) # Len(su)
        BY <1>4, <1>7, <2>4, <3>1, <3>3
      <4>2. QED
        BY <1>10, <4>1
    <3>4. QED
      BY <3>2, <3>3
  <2>5. QED
    BY <1>6, <2>3, <2>4 DEF ListedTo
<1>11. \A i, j \in 1 .. Len(v) : v[i] = v[j] => i = j
  BY <1>6 DEF ListedTo
<1>12. QED
  BY <1>5, <1>6, <1>9, <1>10, <1>11 DEF To, no, su

\* The list o is the blocks of the set up to n, in order.
OrderedTo(o, n, set) ==
  /\ \A i \in 1 .. Len(o) : o[i] \in set /\ o[i] \in 1 .. n
  /\ \A m \in 1 .. n : m \in set => \E i \in 1 .. Len(o) : o[i] = m
  /\ \A i, j \in 1 .. Len(o) : i < j => o[i] < o[j]

(* One step of MSILOffsetOrder. *)
LEMMA OrderedStep ==
  ASSUME NEW o \in Seq(Nat), NEW n \in Nat, NEW set, OrderedTo(o, n, set), NEW w,
         w = IF n + 1 \in set THEN Append(o, n + 1) ELSE o
  PROVE  w \in Seq(Nat) /\ OrderedTo(w, n + 1, set)
<1>1. Len(o) \in Nat /\ \A m \in 1 .. n + 1 : m = n + 1 \/ m \in 1 .. n
  OBVIOUS
<1>2. CASE n + 1 \notin set
  <2>1. w = o
    BY <1>2
  <2>2. OrderedTo(o, n + 1, set)
    BY <1>1, <1>2 DEF OrderedTo
  <2>3. QED
    BY <2>1, <2>2
<1>3. CASE n + 1 \in set
  <2>1. w \in Seq(Nat) /\ Len(w) = Len(o) + 1 /\ w[Len(o) + 1] = n + 1 /\ \A i \in 1 .. Len(o) : w[i] = o[i]
    BY <1>3
  <2>2. \A i \in 1 .. Len(w) : i = Len(o) + 1 \/ i \in 1 .. Len(o)
    BY <1>1, <2>1
  <2>3. \A i \in 1 .. Len(o) : i \in 1 .. Len(w)
    BY <1>1, <2>1
  <2>4. Len(o) + 1 \in 1 .. Len(w)
    BY <1>1, <2>1
  <2>5. \A i \in 1 .. Len(w) : w[i] \in set /\ w[i] \in 1 .. n + 1
    BY <1>3, <2>1, <2>2 DEF OrderedTo
  <2>6. ASSUME NEW m \in 1 .. n + 1, m \in set PROVE \E i \in 1 .. Len(w) : w[i] = m
    <3>1. CASE m = n + 1
      BY <2>1, <2>4, <3>1
    <3>2. CASE m \in 1 .. n
      <4>1. PICK i \in 1 .. Len(o) : o[i] = m
        BY <2>6, <3>2 DEF OrderedTo
      <4>2. QED
        BY <2>1, <2>3, <4>1
    <3>3. QED
      BY <1>1, <3>1, <3>2
  <2>7. ASSUME NEW i \in 1 .. Len(w), NEW j \in 1 .. Len(w), i < j PROVE w[i] < w[j]
    <3>1. i \in 1 .. Len(o)
      BY <1>1, <2>1, <2>7
    <3>2. CASE j = Len(o) + 1
      BY <2>1, <3>1, <3>2 DEF OrderedTo
    <3>3. CASE j \in 1 .. Len(o)
      BY <2>1, <2>7, <3>1, <3>3 DEF OrderedTo
    <3>4. QED
      BY <2>2, <3>2, <3>3
  <2>8. QED
    BY <2>1, <2>5, <2>6, <2>7 DEF OrderedTo
<1>4. QED
  BY <1>2, <1>3

(* MSILOffsetOrder is the visited blocks of the first pass, in order. *)
LEMMA MSILOffsetOrderIs == MSILOffsetOrder \in Seq(Nat) /\ OrderedTo(MSILOffsetOrder, N, visited)
<1> DEFINE Rec(f) == f = [n \in 0 .. N |->
                            IF n = 0 THEN <<>>
                            ELSE IF n \in visited THEN Append(f[n - 1], n) ELSE f[n - 1]]
           u == CHOOSE f : Rec(f)
           F == [p \in (1 .. N) \X Seq(Nat) |-> IF p[1] \in visited THEN Append(p[2], p[1]) ELSE p[2]]
<1>1. N \in Nat
  BY BoundsAssumption
<1>2. MSILOffsetOrder = u[N]
  BY Zenon DEF MSILOffsetOrder
<1>3. F \in [(1 .. N) \X Seq(Nat) -> Seq(Nat)]
  <2>1. ASSUME NEW p \in (1 .. N) \X Seq(Nat)
        PROVE  (IF p[1] \in visited THEN Append(p[2], p[1]) ELSE p[2]) \in Seq(Nat)
    <3>1. p[1] \in Nat /\ p[2] \in Seq(Nat)
      OBVIOUS
    <3>2. QED
      BY <3>1
  <2>2. QED
    BY <2>1
<1>4. \A n \in 1 .. N, v \in Seq(Nat) : F[<<n, v>>] = IF n \in visited THEN Append(v, n) ELSE v
  OBVIOUS
<1>5. <<>> \in Seq(Nat)
  OBVIOUS
<1> HIDE DEF F
<1>6. PICK f : Scans(f, Seq(Nat), <<>>, F, N)
  BY <1>1, <1>3, <1>5, ScanExists
<1>7. Rec(f)
  <2>1. f = [n \in 0 .. N |-> IF n = 0 THEN <<>> ELSE F[<<n, f[n - 1]>>]]
    BY <1>6, Zenon DEF Scans
  <2>2. ASSUME NEW n \in 0 .. N
        PROVE  (IF n = 0 THEN <<>> ELSE F[<<n, f[n - 1]>>])
                 = IF n = 0 THEN <<>> ELSE IF n \in visited THEN Append(f[n - 1], n) ELSE f[n - 1]
    <3>1. CASE n = 0
      BY <3>1
    <3>2. CASE n # 0
      <4>1. n \in 1 .. N /\ n - 1 \in 0 .. N
        BY <1>1, <3>2
      <4>2. f[n - 1] \in Seq(Nat)
        BY <1>6, <4>1 DEF Scans
      <4>3. QED
        BY <1>4, <3>2, <4>1, <4>2
    <3>3. QED
      BY <3>1, <3>2
  <2>3. QED
    BY <2>1, <2>2
<1>8. Rec(u)
  BY <1>7, Zenon
<1> HIDE DEF u
<1>9. u[0] = <<>> /\ \A n \in 1 .. N : u[n] = IF n \in visited THEN Append(u[n - 1], n) ELSE u[n - 1]
  <2> DEFINE V(n) == IF n = 0 THEN <<>> ELSE IF n \in visited THEN Append(u[n - 1], n) ELSE u[n - 1]
  <2>1. u = [n \in 0 .. N |-> V(n)]
    BY <1>8, Zenon
  <2> HIDE DEF V
  <2>2. \A n \in 0 .. N : u[n] = V(n)
    BY <2>1
  <2>3. u[0] = V(0) /\ \A n \in 1 .. N : u[n] = V(n) /\ n # 0
    BY <1>1, <2>2
  <2>4. QED
    BY <2>3, Zenon DEF V
<1>10. \A n \in Nat : n <= N => u[n] \in Seq(Nat) /\ OrderedTo(u[n], n, visited)
  <2> DEFINE T == {n \in Nat : n <= N => u[n] \in Seq(Nat) /\ OrderedTo(u[n], n, visited)}
  <2>1. 0 \in T
    <3>1. OrderedTo(<<>>, 0, visited)
      BY DEF OrderedTo
    <3>2. QED
      BY <1>5, <1>9, <3>1
  <2>2. ASSUME NEW n \in Nat, n \in T PROVE n + 1 \in T
    <3> SUFFICES ASSUME n + 1 <= N PROVE u[n + 1] \in Seq(Nat) /\ OrderedTo(u[n + 1], n + 1, visited)
      OBVIOUS
    <3>1. u[n] \in Seq(Nat) /\ OrderedTo(u[n], n, visited) /\ n + 1 \in 1 .. N /\ (n + 1) - 1 = n
      BY <1>1, <2>2
    <3>2. u[n + 1] = IF n + 1 \in visited THEN Append(u[n], n + 1) ELSE u[n]
      BY <1>9, <3>1
    <3>3. QED
      BY <3>1, <3>2, OrderedStep
  <2> HIDE DEF T
  <2>3. \A n \in Nat : n \in T
    BY <2>1, <2>2, SetInduction
  <2>4. QED
    BY <2>3 DEF T
<1>11. N <= N
  BY <1>1
<1>12. QED
  BY <1>1, <1>2, <1>10, <1>11

(* A valid method has a valid body for each block. *)
LEMMA ValidMethodsIs ==
  ASSUME NEW s, NEW d, NEW pad, NEW method \in ValidMethods(s, d, pad)
  PROVE  method \in Seq(Bodies) /\ Len(method) = N /\ \A b \in 1 .. N : method[b] \in ValidBodies(s, d, pad, b)
<1> DEFINE V(n) == ValidBodies(s, d, pad, n)
           More(M, n) == Extended(M, V(n))
           Rec(f) == f = [n \in 0 .. N |->
                            IF n = 0 THEN {<<>>} ELSE Extended(f[n - 1], ValidBodies(s, d, pad, n))]
           u == CHOOSE f : Rec(f)
           S == SUBSET Seq(Bodies)
           F == [p \in (1 .. N) \X S |-> More(p[2], p[1])]
<1>1. N \in Nat
  BY BoundsAssumption
<1>2. ValidMethods(s, d, pad) = u[N]
  BY Zenon DEF ValidMethods
<1>3. \A n : V(n) \subseteq Bodies
  BY DEF ValidBodies
<1> HIDE DEF V
<1>4. \A M \in S, n \in 1 .. N : More(M, n) \in S
  BY <1>3 DEF Extended
<1>5. F \in [(1 .. N) \X S -> S]
  <2> HIDE DEF S, More
  <2>1. ASSUME NEW p \in (1 .. N) \X S PROVE More(p[2], p[1]) \in S
    <3>1. p[1] \in 1 .. N /\ p[2] \in S
      OBVIOUS
    <3>2. QED
      BY <1>4, <3>1
  <2>2. QED
    BY <2>1
<1>6. \A n \in 1 .. N, M \in S : F[<<n, M>>] = More(M, n)
  <2> HIDE DEF S, More
  <2> QED
    OBVIOUS
<1>7. {<<>>} \in S
  OBVIOUS
<1> HIDE DEF F, S
<1>8. PICK f : Scans(f, S, {<<>>}, F, N)
  BY <1>1, <1>5, <1>7, ScanExists
<1>9. Rec(f)
  <2> HIDE DEF More
  <2>1. f = [n \in 0 .. N |-> IF n = 0 THEN {<<>>} ELSE F[<<n, f[n - 1]>>]]
    BY <1>8, Zenon DEF Scans
  <2>2. ASSUME NEW n \in 0 .. N
        PROVE  (IF n = 0 THEN {<<>>} ELSE F[<<n, f[n - 1]>>])
                 = IF n = 0 THEN {<<>>} ELSE More(f[n - 1], n)
    <3>1. CASE n = 0
      BY <3>1
    <3>2. CASE n # 0
      <4>1. n \in 1 .. N /\ n - 1 \in 0 .. N
        BY <1>1, <3>2
      <4>2. f[n - 1] \in S
        BY <1>8, <4>1 DEF Scans
      <4>3. QED
        BY <1>6, <3>2, <4>1, <4>2
    <3>3. QED
      BY <3>1, <3>2
  <2>3. f = [n \in 0 .. N |-> IF n = 0 THEN {<<>>} ELSE More(f[n - 1], n)]
    BY <2>1, <2>2
  <2>4. QED
    BY <2>3, Zenon DEF More, V
<1>10. Rec(u)
  BY <1>9, Zenon
<1> HIDE DEF u
<1>11. u[0] = {<<>>} /\ \A n \in 1 .. N : u[n] = More(u[n - 1], n)
  <2> HIDE DEF More
  <2>1. u = [n \in 0 .. N |-> IF n = 0 THEN {<<>>} ELSE More(u[n - 1], n)]
    BY <1>10, Zenon DEF More, V
  <2> DEFINE W(n) == IF n = 0 THEN {<<>>} ELSE More(u[n - 1], n)
  <2>2. u = [n \in 0 .. N |-> W(n)]
    BY <2>1, Zenon
  <2> HIDE DEF W
  <2>3. \A n \in 0 .. N : u[n] = W(n)
    BY <2>2
  <2>4. u[0] = W(0) /\ \A n \in 1 .. N : u[n] = W(n) /\ n # 0
    BY <1>1, <2>3
  <2>5. QED
    BY <2>4, Zenon DEF W
<1> DEFINE Valid(c, n) == c \in Seq(Bodies) /\ Len(c) = n /\ \A i \in 1 .. n : c[i] \in V(i)
<1>12. \A n \in Nat : n <= N => \A c \in u[n] : Valid(c, n)
  <2> DEFINE T == {n \in Nat : n <= N => \A c \in u[n] : Valid(c, n)}
  <2>1. 0 \in T
    <3>1. Valid(<<>>, 0)
      OBVIOUS
    <3> HIDE DEF Valid
    <3>2. QED
      BY <1>11, <3>1
  <2>2. ASSUME NEW n \in Nat, n \in T PROVE n + 1 \in T
    <3> SUFFICES ASSUME n + 1 <= N, NEW c \in u[n + 1] PROVE Valid(c, n + 1)
      <4> HIDE DEF Valid
      <4> QED
        OBVIOUS
    <3>1. n + 1 \in 1 .. N /\ (n + 1) - 1 = n
      BY <1>1
    <3>2. PICK q \in u[n], code \in V(n + 1) : c = Append(q, code)
      BY <1>11, <3>1 DEF Extended
    <3>3. q \in Seq(Bodies) /\ Len(q) = n /\ \A i \in 1 .. n : q[i] \in V(i)
      BY <2>2, <1>1
    <3>4. code \in Bodies
      BY <1>3, <3>2
    <3>5. c \in Seq(Bodies) /\ Len(c) = n + 1 /\ c[n + 1] = code /\ \A i \in 1 .. n : c[i] = q[i]
      BY <3>2, <3>3, <3>4
    <3>6. \A i \in 1 .. n + 1 : i = n + 1 \/ i \in 1 .. n
      OBVIOUS
    <3>7. QED
      BY <3>2, <3>3, <3>5, <3>6
  <2> HIDE DEF T
  <2>3. \A n \in Nat : n \in T
    BY <2>1, <2>2, SetInduction
  <2>4. QED
    <3> HIDE DEF Valid
    <3> QED
      BY <2>3 DEF T
<1>13. Valid(method, N)
  <2> HIDE DEF Valid
  <2>1. N <= N
    BY <1>1
  <2>2. QED
    BY <1>1, <1>2, <1>12, <2>1
<1>14. QED
  BY <1>13 DEF V

(* The count of the edges that bring a stack says whether there are two. *)
LEMMA MultiIs ==
  ASSUME BlocksOK, GraphOK, NEW b
  PROVE  fgNodeHasMultiplePredsPropagatingStack(b) <=> Multi(b)
<1> DEFINE E == PropagatingEdges(b)
<1>1. \A e : e \in E <=> e \in Blocks \X (1 .. 2) /\ Brings(e[1], e[2], b)
  <2>1. \A p \in Blocks : succ[p] \in Seq(Blocks) /\ Len(succ[p]) \in Nat
    BY DEF GraphOK
  <2>2. \A e \in Blocks \X (1 .. 2) : e[1] \in Blocks /\ e[2] \in 1 .. 2
    OBVIOUS
  <2>3. QED
    BY <2>1, <2>2 DEF PropagatingEdges, PredEdges, Brings
<1>2. IsFiniteSet(E)
  <2>1. IsFiniteSet(Blocks) /\ IsFiniteSet(1 .. 2)
    BY BlocksFacts, FS_Interval, 1 \in Int, 2 \in Int
  <2>2. IsFiniteSet(Blocks \X (1 .. 2))
    BY <2>1, FS_Product
  <2>3. E \in SUBSET (Blocks \X (1 .. 2))
    BY <1>1
  <2> HIDE DEF E
  <2>4. QED
    BY <2>2, <2>3, FS_Subset
<1> HIDE DEF E
<1>3. Cardinality(E) \in Nat
  BY <1>2, FS_CardinalityType
<1>4. ASSUME Cardinality(E) > 1 PROVE \E e, f \in E : e # f
  <2>1. E # {}
    BY <1>4, FS_EmptySet
  <2>2. PICK e \in E : TRUE
    BY <2>1
  <2>3. E # {e}
    <3>1. Cardinality({e}) = 1
      BY FS_Singleton
    <3>2. QED
      BY <1>3, <1>4, <3>1
  <2>4. QED
    BY <2>2, <2>3
<1>5. ASSUME NEW e \in E, NEW f \in E, e # f PROVE Cardinality(E) > 1
  <2>1. Cardinality(E) # 0
    BY <1>2, FS_EmptySet
  <2>2. Cardinality(E) # 1
    <3>1. Cardinality(E) = 1 => \E x : E = {x}
      BY <1>2, FS_Singleton
    <3>2. QED
      BY <1>5, <3>1
  <2>3. QED
    BY <1>3, <2>1, <2>2
<1>6. (\E e, f \in E : e # f) <=> Multi(b)
  <2>1. ASSUME NEW e \in E, NEW f \in E, e # f PROVE Multi(b)
    <3>1. /\ e[1] \in Blocks /\ e[2] \in 1 .. 2 /\ f[1] \in Blocks /\ f[2] \in 1 .. 2
          /\ Brings(e[1], e[2], b) /\ Brings(f[1], f[2], b)
          /\ e = <<e[1], e[2]>> /\ f = <<f[1], f[2]>>
      BY <1>1
    <3>2. e[1] # f[1] \/ e[2] # f[2]
      BY <2>1, <3>1
    <3>3. QED
      BY <3>1, <3>2 DEF Multi
  <2>2. ASSUME NEW p \in Blocks, NEW q \in Blocks, NEW i \in 1 .. 2, NEW j \in 1 .. 2,
               Brings(p, i, b), Brings(q, j, b), p # q \/ i # j
        PROVE  \E e, f \in E : e # f
    <3>1. <<p, i>> \in E /\ <<q, j>> \in E
      BY <1>1, <2>2
    <3>2. <<p, i>> # <<q, j>>
      BY <2>2
    <3>3. QED
      BY <3>1, <3>2
  <2>3. QED
    BY <2>1, <2>2 DEF Multi
<1>7. QED
  BY <1>4, <1>5, <1>6 DEF fgNodeHasMultiplePredsPropagatingStack, E

-----------------------------------------------------------------------------
(* PHI nodes. *)

(* A function on 1 .. n is a sequence. *)
LEMMA IsSeqFcn ==
  ASSUME NEW n \in Nat, NEW f, f = [i \in 1 .. n |-> f[i]]
  PROVE  IsSeq(f) /\ Len(f) = n
<1>1. f \in [1 .. n -> {f[i] : i \in 1 .. n}]
  OBVIOUS
<1>2. f \in Seq({f[i] : i \in 1 .. n}) /\ Len(f) = n
  BY <1>1
<1>3. QED
  BY <1>2 DEF IsSeq

(* A sequence has a length and is the function of its elements. *)
LEMMA IsSeqIs ==
  ASSUME NEW s, IsSeq(s)
  PROVE  /\ Len(s) \in Nat /\ DOMAIN s = 1 .. Len(s) /\ s = [i \in 1 .. Len(s) |-> s[i]]
         /\ \A x : x \in Range(s) <=> \E i \in 1 .. Len(s) : s[i] = x
         /\ s # <<>> => Len(s) > 0
         /\ Len(s) > 0 => s # <<>>
<1>1. PICK S : s \in Seq(S)
  BY DEF IsSeq
<1>2. QED
  BY <1>1 DEF Range

(* The fields of PHI nodes and entries. *)
LEMMA Fields ==
  /\ \A b, v : Entry(b, v).block = b /\ Entry(b, v).value = v
  /\ \A s, t, e : PHI(s, t, e).src = s /\ PHI(s, t, e).type = t /\ PHI(s, t, e).entries = e
  BY DEF Entry, PHI

\* Two lists of entries are for the same edges.
SameBlocks(e, f) == Len(f) = Len(e) /\ \A n \in 1 .. Len(e) : f[n].block = e[n].block

(* The operand changes the value of one entry at most. *)
LEMMA SetIncomingIs ==
  ASSUME NEW e, Rows(e), NEW b, NEW v
  PROVE  Rows(SetIncoming(e, b, v)) /\ SameBlocks(e, SetIncoming(e, b, v))
<1> DEFINE mine == {i \in 1 .. Len(e) : e[i].block = b /\ IsUndef(e[i].value)}
           f == [e EXCEPT ![Min(mine)] = Entry(b, v)]
<1>1. Len(e) \in Nat /\ DOMAIN e = 1 .. Len(e) /\ e = [i \in 1 .. Len(e) |-> e[i]]
      /\ \A n \in 1 .. Len(e) : e[n] = Entry(e[n].block, e[n].value)
  BY IsSeqIs DEF Rows
<1>2. CASE mine = {}
  <2>1. SetIncoming(e, b, v) = e
    BY <1>2 DEF SetIncoming
  <2>2. QED
    BY <2>1 DEF SameBlocks
<1>3. CASE mine # {}
  <2>1. SetIncoming(e, b, v) = f
    BY <1>3 DEF SetIncoming
  <2>2. Min(mine) \in mine
    <3>1. \E x \in mine : \A y \in mine : x <= y
      <4>1. mine \in SUBSET Nat
        BY <1>1
      <4> HIDE DEF mine
      <4>2. QED
        BY <1>3, <4>1, Least
    <3> HIDE DEF mine
    <3>2. QED
      BY <3>1 DEF Min
  <2> DEFINE q == Min(mine)
  <2>3. q \in 1 .. Len(e) /\ e[q].block = b
    BY <2>2
  <2> HIDE DEF q
  <2>4. f = [e EXCEPT ![q] = Entry(b, v)]
    BY DEF q
  <2> HIDE DEF f
  <2>5. \A n \in 1 .. Len(e) : f[n] = IF n = q THEN Entry(b, v) ELSE e[n]
    BY <1>1, <2>3, <2>4
  <2>6. f = [n \in 1 .. Len(e) |-> f[n]]
    BY <1>1, <2>4
  <2>7. IsSeq(f) /\ Len(f) = Len(e)
    BY <1>1, <2>6, IsSeqFcn
  <2>8. ASSUME NEW n \in 1 .. Len(e) PROVE f[n] = Entry(f[n].block, f[n].value) /\ f[n].block = e[n].block
    <3>1. CASE n = q
      BY <2>3, <2>5, <3>1, Fields
    <3>2. CASE n # q
      BY <1>1, <2>5, <3>2
    <3>3. QED
      BY <3>1, <3>2
  <2>9. QED
    BY <2>1, <2>7, <2>8 DEF Rows, SameBlocks
<1>4. QED
  BY <1>2, <1>3

(* A PHI of a new type keeps its entries for the same edges. *)
LEMMA RetypedIs ==
  ASSUME NEW phi, Shaped(phi), NEW type
  PROVE  Rows(Retyped(phi, type).entries) /\ SameBlocks(phi.entries, Retyped(phi, type).entries)
<1> DEFINE e == phi.entries
           Cast(v, i) == IF IsUndef(v) THEN v ELSE changePHIOperandType(v, type, i)
           f == [i \in 1 .. Len(e) |-> Entry(e[i].block, Cast(e[i].value, i))]
           r == Retyped(phi, type)
<1>1. Rows(e) /\ Len(e) \in Nat
  BY IsSeqIs DEF Rows, Shaped
<1>2. CASE type = phi.type
  <2>1. r = phi
    BY <1>2 DEF Retyped
  <2>2. QED
    BY <1>1, <2>1 DEF SameBlocks
<1>3. CASE type # phi.type
  <2>1. r = PHI(phi.src, type, f)
    BY <1>3 DEF Retyped
  <2> HIDE DEF Cast
  <2>2. \A n \in 1 .. Len(e) : f[n] = Entry(e[n].block, Cast(e[n].value, n))
    OBVIOUS
  <2>3. f = [n \in 1 .. Len(e) |-> f[n]]
    OBVIOUS
  <2> HIDE DEF f, e
  <2>4. \A n \in 1 .. Len(e) : f[n] = Entry(f[n].block, f[n].value) /\ f[n].block = e[n].block
    BY <2>2, Fields
  <2>5. IsSeq(f) /\ Len(f) = Len(e)
    BY <1>1, <2>3, IsSeqFcn
  <2>6. Rows(f) /\ SameBlocks(e, f)
    BY <2>4, <2>5 DEF Rows, SameBlocks
  <2>7. r.entries = f
    BY <2>1, Fields
  <2>8. QED
    BY <2>6, <2>7 DEF e
<1>4. QED
  BY <1>2, <1>3

(* The PHI an operand is added to keeps its entries for the same edges. *)
LEMMA AddIs ==
  ASSUME NEW phi, Shaped(phi), NEW v, NEW b
  PROVE  /\ Shaped(addPHIOperand(phi, v, b)) /\ addPHIOperand(phi, v, b).src = phi.src
         /\ SameBlocks(phi.entries, addPHIOperand(phi, v, b).entries)
<1> DEFINE type == getStackMergeType(phi.type, v.type)
           operand == IF type = v.type THEN v ELSE changePHIOperandType(v, type, -edge)
           e == Retyped(phi, type).entries
           f == SetIncoming(e, b, operand)
           r == addPHIOperand(phi, v, b)
<1>1. r = PHI(phi.src, type, f)
  BY DEF addPHIOperand
<1> HIDE DEF type, operand
<1>2. Rows(e) /\ SameBlocks(phi.entries, e)
  BY RetypedIs
<1> HIDE DEF e
<1>3. Rows(f) /\ SameBlocks(e, f)
  BY <1>2, SetIncomingIs
<1> HIDE DEF f, r
<1>4. r.src = phi.src /\ r.type = type /\ r.entries = f /\ phi.src \in Nat \ {0}
  BY <1>1, Fields DEF Shaped
<1>5. SameBlocks(phi.entries, f)
  BY <1>2, <1>3 DEF SameBlocks
<1>6. Shaped(r)
  BY <1>1, <1>3, <1>4 DEF Shaped
<1>7. QED
  BY <1>4, <1>5, <1>6 DEF r

(* A new PHI has an entry for every edge into the block. *)
LEMMA NewPHIIs ==
  ASSUME BlocksOK, GraphOK, NEW b, NEW type, NEW src \in Nat \ {0}
  PROVE  Shaped(NewPHI(b, type, src)) /\ Enters(NewPHI(b, type, src), b)
<1> DEFINE E == PredEdges(b)
           s == SetToSeq(E)
           f == [i \in 1 .. Len(s) |-> Entry(s[i][1], Undef(type))]
           r == NewPHI(b, type, src)
<1>1. \A e \in E : e[1] \in Blocks /\ b \in Range(succ[e[1]])
  <2>1. \A p \in Blocks : succ[p] \in Seq(Blocks)
    BY DEF GraphOK
  <2>2. ASSUME NEW e \in E PROVE e[1] \in Blocks /\ b \in Range(succ[e[1]])
    <3>1. e[1] \in Blocks /\ e[2] \in 1 .. 2 /\ e[2] <= Len(succ[e[1]]) /\ succ[e[1]][e[2]] = b
      BY DEF PredEdges
    <3>2. Len(succ[e[1]]) \in Nat
      BY <2>1, <3>1
    <3>3. e[2] \in 1 .. Len(succ[e[1]])
      BY <3>1, <3>2
    <3>4. QED
      BY <2>1, <3>1, <3>3, RangeSeq
  <2>3. QED
    BY <2>2
<1>2. IsFiniteSet(E)
  <2>1. IsFiniteSet(Blocks) /\ IsFiniteSet(1 .. 2)
    BY BlocksFacts, FS_Interval, 1 \in Int, 2 \in Int
  <2>2. IsFiniteSet(Blocks \X (1 .. 2))
    BY <2>1, FS_Product
  <2>3. E \in SUBSET (Blocks \X (1 .. 2))
    BY DEF PredEdges
  <2> HIDE DEF E
  <2>4. QED
    BY <2>2, <2>3, FS_Subset
<1> HIDE DEF E
<1>3. s \in [1 .. Cardinality(E) -> E] /\ Cardinality(E) \in Nat
  <2>1. Cardinality(E) \in Nat /\ ExistsBijection(1 .. Cardinality(E), E)
    BY <1>2, FS_CardinalityType
  <2>2. \E g \in [1 .. Cardinality(E) -> E] : IsInjective(g)
    BY <2>1 DEF ExistsBijection, Bijection, Injection
  <2>3. QED
    BY <2>1, <2>2 DEF SetToSeq
<1>4. r = PHI(src, type, f)
  BY DEF NewPHI, E
<1> HIDE DEF s
<1>5. Len(s) \in Nat /\ \A i \in 1 .. Len(s) : s[i] \in E
  BY <1>3
<1>6. f = [i \in 1 .. Len(s) |-> f[i]]
  OBVIOUS
<1>7. \A i \in 1 .. Len(s) : f[i] = Entry(s[i][1], Undef(type))
  OBVIOUS
<1> HIDE DEF f, r
<1>8. IsSeq(f) /\ Len(f) = Len(s)
  BY <1>5, <1>6, IsSeqFcn
<1>9. r.src = src /\ r.entries = f /\ r = PHI(r.src, r.type, r.entries)
  BY <1>4, Fields
<1>10. ASSUME NEW i \in 1 .. Len(f)
       PROVE  /\ f[i] = Entry(f[i].block, f[i].value) /\ f[i].block \in Blocks
              /\ b \in Range(succ[f[i].block])
  <2>1. f[i] = Entry(s[i][1], Undef(type)) /\ s[i] \in E
    BY <1>5, <1>7, <1>8
  <2>2. f[i].block = s[i][1] /\ f[i].value = Undef(type)
    BY <2>1, Fields
  <2>3. QED
    BY <1>1, <2>1, <2>2
<1>11. Rows(f)
  BY <1>8, <1>10 DEF Rows
<1>12. QED
  BY <1>9, <1>10, <1>11 DEF Shaped, Enters, r

-----------------------------------------------------------------------------
(* The initial states. *)

(* The bodies of valid IL are sequences of instructions. *)
LEMMA BodiesType == \A code \in Bodies : code \in Seq(Instr)
<1> SUFFICES ASSUME NEW code \in Bodies PROVE code \in Seq(Instr)
  OBVIOUS
<1>1. Instructions \subseteq Instr
  BY DEF Instructions, Instr
<1>2. MaxBody \in Nat
  BY BoundsAssumption
<1>3. PICK m \in 0 .. MaxBody : code \in [1 .. m -> Instructions]
  BY DEF Bodies, BoundedSeq, SeqOf
<1>4. code \in Seq(Instructions)
  BY <1>2, <1>3
<1>5. QED
  BY <1>1, <1>4, SeqMonotonic

(* The lists of successors of the first pass. *)
LEMMA TargetsType == \A t \in Targets : t \in Seq(1 .. N) /\ Len(t) <= 2
<1>1. <<>> \in Seq(1 .. N) /\ Len(<<>>) <= 2
  OBVIOUS
<1>2. ASSUME NEW s \in 1 .. N PROVE <<s>> \in Seq(1 .. N) /\ Len(<<s>>) <= 2
  OBVIOUS
<1>3. ASSUME NEW s \in 1 .. N, NEW t \in 1 .. N PROVE <<s, t>> \in Seq(1 .. N) /\ Len(<<s, t>>) <= 2
  OBVIOUS
<1>4. ASSUME NEW x \in Targets PROVE x \in Seq(1 .. N) /\ Len(x) <= 2
  <2>1. \/ x = <<>>
        \/ \E s \in 1 .. N : x = <<s>>
        \/ \E s, t \in 1 .. N : x = <<s, t>>
    BY DEF Targets
  <2>2. QED
    BY <1>1, <1>2, <1>3, <2>1, Zenon
<1>5. QED
  BY <1>4

(* The stacks of the first pass. *)
LEMMA FirstStacks ==
  /\ <<>> # NoStack /\ Sourced(<<>>) /\ Len(<<>>) = 0
  /\ <<Exception>> # NoStack /\ Sourced(<<Exception>>) /\ Len(<<Exception>>) = 1
<1>1. Exception.src = 1 /\ Undef("none").src = 0
  BY DEF Exception, Undef
<1>2. <<>> \in Seq({1}) /\ <<Exception>> \in Seq({Exception})
  OBVIOUS
<1>3. IsSeq(<<>>) /\ IsSeq(<<Exception>>)
  BY <1>2 DEF IsSeq
<1>4. <<Exception>> # NoStack
  <2>1. Exception # Undef("none")
    BY <1>1
  <2>2. QED
    BY <2>1 DEF NoStack
<1>5. QED
  BY <1>1, <1>3, <1>4 DEF Sourced, NoStack

(* The first pass establishes the invariant. *)
LEMMA IInvInit == Init => IInv
<1> SUFFICES ASSUME Init PROVE IInv
  OBVIOUS
<1>1. N \in Nat \ {0}
  BY BoundsAssumption
<1>2. PICK pad \in {0} \cup (IF Pads THEN 2 .. N ELSE {}) :
        /\ succ \in [1 .. N -> Targets] /\ depth \in [1 .. N -> 0 .. MaxDepth]
        /\ ValidTargets(succ, depth, pad)
        /\ body \in ValidMethods(succ, depth, pad)
        /\ nominal = [b \in 1 .. N |-> IF b = 1 /\ pad # 0 THEN <<pad>> ELSE <<>>]
        /\ stack = [b \in 1 .. N |-> CASE b = 1   -> <<>>
                                       [] b = pad -> <<Exception>>
                                       [] OTHER   -> NoStack]
        /\ propagates = [b \in 1 .. N |-> TRUE]
        /\ phis = [b \in 1 .. N |-> <<>>]
        /\ left = [b \in 1 .. N |-> <<>>]
        /\ visited = {1} /\ worklist = <<1>>
        /\ order = <<>> /\ it = 1 /\ at = "discover"
        /\ k = 1 /\ ins = 1 /\ edge = 1 /\ rstack = <<>> /\ fresh = 2
  BY DEF Init
<1>3. pad = 0 \/ pad \in 2 .. N
  OBVIOUS
<1>4. Blocks = 1 .. N /\ 1 \in Blocks /\ \A b \in Blocks : b \in Nat /\ ~(b > N)
  BY <1>1, <1>2 DEF Blocks
<1>5. body \in Seq(Bodies) /\ Len(body) = N /\ \A b \in Blocks : body[b] \in ValidBodies(succ, depth, pad, b)
  <2>1. /\ body \in Seq(Bodies) /\ Len(body) = N
        /\ \A b \in 1 .. N : body[b] \in ValidBodies(succ, depth, pad, b)
    BY <1>2, ValidMethodsIs
  <2>2. QED
    BY <1>4, <2>1
<1>6. \A b \in Blocks : /\ body[b] \in Seq(Instr)
                        /\ \A n \in 1 .. Len(body[b]) :
                             body[b][n].pop => depth[b] + NetOf(SubSeq(body[b], 1, n - 1)) > 0
                        /\ \A t \in Range(succ[b]) : depth[t] = depth[b] + NetOf(body[b])
  BY <1>5, BodiesType DEF ValidBodies
<1>7. \A b \in Blocks : succ[b] \in Seq(Blocks) /\ Len(succ[b]) <= 2 /\ depth[b] \in Nat
  <2>1. MaxDepth \in Nat
    BY BoundsAssumption
  <2>2. QED
    BY <1>2, <1>4, <2>1, TargetsType
<1>8. \A b \in Blocks : nominal[b] \in Seq(1 .. N) /\ Range(nominal[b]) \subseteq 2 .. N
                        /\ \A t \in Range(nominal[b]) : t = pad /\ pad # 0
  <2>1. ASSUME NEW b \in Blocks, b = 1 /\ pad # 0
        PROVE  nominal[b] = <<pad>> /\ <<pad>> \in Seq(1 .. N) /\ Range(<<pad>>) = {pad} /\ pad \in 2 .. N
    <3>1. pad \in 2 .. N /\ nominal[b] = <<pad>>
      BY <1>2, <1>3, <1>4, <2>1
    <3>2. <<pad>> \in Seq(1 .. N) /\ Range(<<pad>>) = {pad}
      BY <1>1, <3>1 DEF Range
    <3>3. QED
      BY <3>1, <3>2
  <2>2. ASSUME NEW b \in Blocks, ~(b = 1 /\ pad # 0)
        PROVE  nominal[b] = <<>> /\ <<>> \in Seq(1 .. N) /\ Range(<<>>) = {}
    BY <1>2, <1>4, <2>2 DEF Range
  <2>3. QED
    BY <2>1, <2>2
<1>9. BlocksOK
  BY <1>1, <1>2, <1>4, <1>5 DEF BlocksOK
<1>10. GraphOK
  BY <1>2, <1>4, <1>6, <1>7, <1>8 DEF GraphOK
<1>11. WalkOK
  <2>1. worklist \in Seq(visited) /\ order \in Seq(visited)
    BY <1>2
  <2>2. QED
    BY <1>2, <1>4, <2>1 DEF WalkOK, Phases, Reading
<1>12. Made = {}
  BY <1>4 DEF Made
<1>13. NewOnce
  <2>1. \A p \in Blocks : \A i \in 1 .. Len(succ[p]) : succ[p][i] \in Blocks
    BY <1>7
  <2>2. QED
    BY <1>4, <2>1 DEF NewOnce
<1>14. PointBlocks
  BY <1>2, <1>4 DEF PointBlocks
<1>15. Chain /\ Closed /\ Emptied /\ InsertsOK /\ Forward /\ Pending
  BY <1>2, <1>12 DEF Chain, Closed, Emptied, InsertsOK, Forward, Pending
<1>16. Depths
  BY <1>6 DEF Depths
<1>17. \A b \in Blocks : stack[b] = CASE b = 1 -> <<>> [] b = pad -> <<Exception>> [] OTHER -> NoStack
  BY <1>2, <1>4
<1>18. ASSUME NEW b \in Blocks
       PROVE  b = pad => stack[b] = <<Exception>>
  BY <1>3, <1>17
<1>19. depth[1] = 0 /\ (pad # 0 => depth[pad] = 1)
  BY <1>2 DEF ValidTargets
<1>20. Stacks
  <2>1. ASSUME NEW b \in Blocks, stack[b] # NoStack PROVE Sourced(stack[b]) /\ Len(stack[b]) = depth[b]
    <3>1. CASE b = 1
      <4>1. stack[b] = <<>>
        BY <1>17, <3>1
      <4>2. QED
        BY <1>19, <3>1, <4>1, FirstStacks
    <3>2. CASE b # 1
      <4>1. b = pad /\ pad # 0
        BY <1>4, <1>17, <2>1, <3>2
      <4>2. QED
        BY <1>18, <1>19, <4>1, FirstStacks
    <3>3. QED
      BY <3>1, <3>2
  <2>2. QED
    BY <2>1 DEF Stacks
<1>21. Tracks
  BY <1>2, FirstStacks DEF Tracks
<1>22. Discovery
  <2>1. \A b \in Blocks : \A t \in Range(succ[b]) : t <= b => depth[t] = 0
    BY <1>2, <1>4 DEF ValidTargets
  <2>2. ASSUME NEW b \in Blocks, NEW t \in Range(nominal[b]) PROVE stack[t] # NoStack
    <3>1. t = pad /\ t \in 2 .. N
      BY <1>8
    <3>2. t \in Blocks
      BY <1>1, <1>4, <3>1
    <3>3. QED
      BY <1>18, <3>1, <3>2, FirstStacks
  <2>3. Range(worklist) = {1}
    BY <1>2 DEF Range
  <2>4. QED
    BY <1>2, <1>4, <1>19, <2>1, <2>2, <2>3 DEF Discovery
<1>23. Phis
  <2>1. IsSeq(<<>>) /\ Len(<<>>) = 0
    BY FirstStacks DEF Sourced
  <2>2. \A b \in Blocks : ~Multi(b) \/ stack[b] = NoStack \/ Len(phis[b]) = depth[b]
    <3> SUFFICES ASSUME NEW b \in Blocks, stack[b] # NoStack, Multi(b) PROVE Len(phis[b]) = depth[b]
      OBVIOUS
    <3>1. Len(phis[b]) = 0
      BY <1>2, <1>4, <2>1
    <3>2. b = 1 \/ b = pad
      <4> SUFFICES ASSUME b # 1, b # pad PROVE FALSE
        OBVIOUS
      <4>1. stack[b] = NoStack
        BY <1>17
      <4>2. QED
        BY <4>1
    <3>3. CASE b = 1
      BY <1>19, <3>1, <3>3
    <3>4. CASE b = pad
      <4>1. PICK p \in Blocks, i \in 1 .. 2 : Brings(p, i, b)
        BY DEF Multi
      <4>2. b \in Range(succ[p])
        BY <1>7, <4>1, RangeSeq DEF Brings
      <4>3. QED
        BY <1>2, <1>4, <3>4, <4>2 DEF ValidTargets
    <3>5. QED
      BY <3>2, <3>3, <3>4
  <2>3. QED
    BY <1>2, <1>4, <2>1, <2>2 DEF Phis
<1>24. QED
  BY <1>9, <1>10, <1>11, <1>13, <1>14, <1>15, <1>16, <1>20, <1>21, <1>22, <1>23 DEF IInv

-----------------------------------------------------------------------------
(* The steps that leave the graph and the list alone. *)

Static ==
  /\ BlocksOK /\ GraphOK /\ NewOnce /\ PointBlocks /\ Chain /\ Closed /\ Forward
  /\ Depths /\ Discovery

(* The block being read is one of the list. *)
LEMMA FgFacts ==
  ASSUME IInv, at \in Reading
  PROVE  /\ it \in 1 .. Len(order) /\ order \in Seq(visited) /\ Fg \in visited /\ Fg \in Blocks
         /\ Fg \notin Made /\ at # "discover" /\ visited \subseteq Blocks
         /\ succ[Fg] \in Seq(Blocks) /\ Len(succ[Fg]) \in Nat
         /\ body[Fg] \in Seq(Instr) /\ Len(body[Fg]) \in Nat /\ depth[Fg] \in Nat
         /\ propagates[Fg] \in BOOLEAN
<1>1. order \in Seq(visited) /\ it \in 1 .. Len(order) /\ visited \subseteq Blocks
  BY DEF IInv, WalkOK
<1>2. Fg \in visited
  BY <1>1, ElementOfSeq DEF Fg
<1>3. Fg \in Blocks /\ Fg \notin Made /\ at # "discover"
  BY <1>1, <1>2 DEF Made, Reading
<1>4. QED
  BY <1>1, <1>2, <1>3 DEF IInv, GraphOK

(* What does not depend on the stacks is preserved. *)
LEMMA Frame ==
  ASSUME IInv, UNCHANGED <<graph, visited, worklist, order, it>>, at \in Reading, at' \in Reading,
         DOMAIN stack' = DOMAIN stack, DOMAIN phis' = DOMAIN phis, DOMAIN left' = DOMAIN left
  PROVE  Static' /\ Made' = Made /\ Blocks' = Blocks /\ Fg' = Fg
<1>1. /\ succ' = succ /\ nominal' = nominal /\ propagates' = propagates /\ body' = body /\ depth' = depth
      /\ visited' = visited /\ order' = order /\ it' = it
  BY DEF graph
<1>2. Blocks' = Blocks /\ Fg' = Fg
  BY <1>1 DEF Blocks, Fg
<1>3. Made' = Made
  BY <1>1, <1>2 DEF Made
<1>4. BlocksOK'
  BY <1>1, <1>2 DEF IInv, BlocksOK
<1>5. GraphOK'
  BY <1>1, <1>2 DEF IInv, GraphOK
<1>6. NewOnce'
  BY <1>1, <1>2 DEF IInv, NewOnce, Multi, Brings
<1>7. PointBlocks'
  BY <1>1, <1>2 DEF IInv, PointBlocks, To
<1>8. Chain'
  BY <1>1, <1>2, <1>3 DEF IInv, Chain
<1>9. at # "discover" /\ at' # "discover"
  BY DEF Reading
<1>10. Closed'
  BY <1>1, <1>2, <1>3, <1>9 DEF IInv, Closed, To
<1>11. Forward'
  BY <1>1, <1>2, <1>3, <1>9 DEF IInv, Forward, After
<1>12. Depths'
  BY <1>1, <1>2 DEF IInv, Depths
<1>13. Discovery'
  BY <1>9 DEF Discovery
<1>14. QED
  BY <1>2, <1>3, <1>4, <1>5, <1>6, <1>7, <1>8, <1>10, <1>11, <1>12, <1>13 DEF Static

(* The PHI nodes are as they were. *)
LEMMA PhisSame ==
  ASSUME Phis, succ' = succ, propagates' = propagates, depth' = depth, stack' = stack, phis' = phis
  PROVE  Phis'
<1>1. Blocks' = Blocks
  BY DEF Blocks
<1>2. \A b : Multi(b)' <=> Multi(b)
  BY <1>1 DEF Multi, Brings
<1>3. \A phi, b : Enters(phi, b)' <=> Enters(phi, b)
  BY <1>1 DEF Enters
<1>4. QED
  BY <1>1, <1>2, <1>3 DEF Phis

(* A real stack is not NoStack. *)
LEMMA SourcedIs ==
  ASSUME NEW s, Sourced(s)
  PROVE  s # NoStack /\ Len(s) \in Nat /\ (s = <<>> <=> Len(s) = 0)
<1>1. Len(s) \in Nat /\ (s # <<>> => Len(s) > 0) /\ (Len(s) > 0 => s # <<>>)
  BY IsSeqIs DEF Sourced
<1>2. s # NoStack
  <2> SUFFICES ASSUME s = NoStack PROVE FALSE
    OBVIOUS
  <2>1. Len(NoStack) = 1 /\ NoStack[1] = Undef("none")
    BY DEF NoStack
  <2>2. Undef("none").src = 0
    BY DEF Undef
  <2>3. s[1].src \in Nat \ {0}
    BY <2>1 DEF Sourced
  <2>4. QED
    BY <2>1, <2>2, <2>3
<1>3. QED
  BY <1>1, <1>2

(* A block that is taken up has the stack IL says it has. *)
LEMMA EntryStack ==
  ASSUME IInv
  PROVE  EntryStackAsInIL
<1> SUFFICES ASSUME at = "begin"
             PROVE  IF stack[Fg] = NoStack THEN rstack = <<>> /\ depth[Fg] = 0
                    ELSE Len(stack[Fg]) = depth[Fg]
  BY DEF EntryStackAsInIL
<1>1. at \in Reading
  BY DEF Reading
<1>2. /\ it \in 1 .. Len(order) /\ order \in Seq(visited) /\ Fg \in visited /\ Fg \in Blocks
      /\ at # "discover" /\ depth[Fg] \in Nat
  BY <1>1, FgFacts
<1>3. CASE stack[Fg] # NoStack
  BY <1>2, <1>3 DEF IInv, Stacks
<1>4. CASE stack[Fg] = NoStack
  <2>1. rstack = <<>>
    BY DEF IInv, Tracks
  <2> SUFFICES ASSUME depth[Fg] # 0 PROVE FALSE
    BY <1>4, <2>1
  <2>2. depth[Fg] > 0
    BY <1>2
  <2>3. Awaits(Fg)
    BY <1>2 DEF Awaits, Fg
  <2>4. Served(Fg)
    BY <1>2, <1>4, <2>2, <2>3 DEF IInv, Pending
  <2>5. ~After(Fg, it)
    <3>1. order[it] = Fg /\ ~(it > it)
      BY <1>2 DEF Fg
    <3>2. QED
      BY <1>2, <3>1 DEF After
  <2>6. CASE Fed(Fg)
    <3>1. Fg \in Range(succ[Fg]) /\ propagates[Fg]
      BY <2>6 DEF Fed
    <3>2. QED
      BY <1>2, <2>2, <2>5, <3>1 DEF IInv, Forward, Fg
  <2>7. CASE \E p \in Made : propagates[p] /\ Fg \in Range(succ[p])
    BY <1>2, <2>2, <2>5, <2>7 DEF IInv, Forward
  <2>8. CASE \E i, j \in 1 .. Len(order) : it < i /\ i < j /\ order[j] = Fg
    <3>1. PICK i, j \in 1 .. Len(order) : it < i /\ i < j /\ order[j] = Fg
      BY <2>8
    <3>2. j = it
      BY <1>2, <3>1 DEF IInv, Closed, Fg
    <3>3. QED
      BY <1>2, <3>1, <3>2
  <2>9. QED
    BY <2>4, <2>6, <2>7, <2>8 DEF Served
<1>5. QED
  BY <1>3, <1>4

(* The block is taken up. *)
LEMMA BeginStep ==
  ASSUME IInv, Begin
  PROVE  IInv'
<1>1. /\ at = "begin" /\ at' = "read" /\ ins' = Fg /\ k' = 1
      /\ rstack' = IF stack[Fg] = NoStack THEN rstack ELSE stack[Fg]
      /\ UNCHANGED <<graph, stack, phis, visited, worklist, order, it, edge, left, fresh>>
  BY DEF Begin
<1>2. at \in Reading /\ at' \in Reading /\ at # "discover" /\ at' # "discover"
  BY <1>1 DEF Reading
<1>3. Static' /\ Made' = Made /\ Blocks' = Blocks /\ Fg' = Fg
  BY <1>1, <1>2, Frame
<1>4. /\ it \in 1 .. Len(order) /\ Fg \in Blocks /\ body[Fg] \in Seq(Instr) /\ Len(body[Fg]) \in Nat
      /\ depth[Fg] \in Nat
  BY <1>2, FgFacts
<1>5. /\ succ' = succ /\ propagates' = propagates /\ body' = body /\ depth' = depth
      /\ visited' = visited /\ order' = order /\ it' = it /\ stack' = stack /\ phis' = phis
  BY <1>1 DEF graph
<1>6. WalkOK'
  BY <1>1, <1>2, <1>3, <1>4, <1>5 DEF IInv, WalkOK, Phases
<1>7. Emptied' /\ InsertsOK'
  BY <1>1, <1>3, <1>5 DEF IInv, Emptied, InsertsOK
<1>8. Stacks'
  BY <1>3, <1>5 DEF IInv, Stacks
<1>9. Phis'
  BY <1>5, PhisSame DEF IInv
<1>10. Pending'
  BY <1>1, <1>2, <1>3, <1>5 DEF IInv, Pending, Awaits, Served, Fed
<1>11. Tracks'
  <2>1. IF stack[Fg] = NoStack THEN rstack = <<>> /\ depth[Fg] = 0 ELSE Len(stack[Fg]) = depth[Fg]
    BY <1>1, EntryStack DEF EntryStackAsInIL
  <2>2. Sourced(rstack')
    <3>1. CASE stack[Fg] = NoStack
      BY <1>1, <3>1 DEF IInv, Tracks
    <3>2. CASE stack[Fg] # NoStack
      BY <1>1, <1>4, <3>2 DEF IInv, Stacks
    <3>3. QED
      BY <3>1, <3>2
  <2>3. Len(rstack') = depth[Fg]
    <3>1. CASE stack[Fg] = NoStack
      BY <1>1, <2>1, <3>1
    <3>2. CASE stack[Fg] # NoStack
      BY <1>1, <2>1, <3>2
    <3>3. QED
      BY <3>1, <3>2
  <2>4. NetOf(SubSeq(body[Fg], 1, 0)) = 0
    BY <1>4, NetFacts
  <2>5. k' - 1 = 0 /\ k' <= Len(body[Fg]) + 1
    BY <1>1, <1>4
  <2>6. QED
    BY <1>1, <1>3, <1>4, <1>5, <2>2, <2>3, <2>4, <2>5 DEF Tracks
<1>12. QED
  BY <1>3, <1>6, <1>7, <1>8, <1>9, <1>10, <1>11 DEF IInv, Static

(* What an instruction does to the stack. *)
LEMMA ExecuteIs ==
  ASSUME Sourced(rstack), fresh \in Nat \ {0}, NEW instr \in Instr, instr.pop => Len(rstack) > 0
  PROVE  Sourced(Execute(instr)) /\ Len(Execute(instr)) = Len(rstack) + Net(instr)
<1> DEFINE below == IF instr.pop THEN Front(rstack) ELSE rstack
           v == NewValue(instr.push)
<1>1. PICK S : rstack \in Seq(S)
  BY DEF Sourced, IsSeq
<1>2. Len(rstack) \in Nat /\ \A i \in 1 .. Len(rstack) : rstack[i] \in S /\ rstack[i].src \in Nat \ {0}
  BY <1>1 DEF Sourced
<1>3. instr.pop \in BOOLEAN
  BY DEF Instr
<1>4. /\ below \in Seq(S) /\ Len(below) = Len(rstack) - (IF instr.pop THEN 1 ELSE 0)
      /\ \A i \in 1 .. Len(below) : below[i].src \in Nat \ {0}
  <2>1. CASE instr.pop
    <3> DEFINE n == Len(rstack) - 1
    <3>1. below = SubSeq(rstack, 1, n)
      BY <2>1 DEF Front
    <3>2. n \in Nat /\ \A i \in 1 .. n : rstack[i] \in S /\ i \in 1 .. Len(rstack)
      BY <1>2, <2>1
    <3> HIDE DEF n
    <3>3. SubSeq(rstack, 1, n) \in Seq(S) /\ Len(SubSeq(rstack, 1, n)) = n /\ \A i \in 1 .. n : SubSeq(rstack, 1, n)[i] = rstack[i]
      BY <3>2
    <3> HIDE DEF below
    <3>4. QED
      BY <1>2, <2>1, <3>1, <3>2, <3>3 DEF n
  <2>2. CASE ~instr.pop
    BY <1>1, <1>2, <2>2
  <2>3. QED
    BY <2>1, <2>2
<1>5. Execute(instr) = IF instr.push = "none" THEN below ELSE Append(below, v)
  BY DEF Execute
<1>6. v.src = fresh
  BY DEF NewValue
<1>7. Net(instr) = (IF instr.push = "none" THEN 0 ELSE 1) - (IF instr.pop THEN 1 ELSE 0)
  BY DEF Net
<1> HIDE DEF below, v
<1> DEFINE d == IF instr.pop THEN 1 ELSE 0
<1>8. d \in {0, 1} /\ Len(below) = Len(rstack) - d
  BY <1>4
<1> HIDE DEF d
<1>9. CASE instr.push = "none"
  <2>1. Net(instr) = 0 - d
    BY <1>7, <1>9 DEF d
  <2>2. Execute(instr) = below
    BY <1>5, <1>9
  <2>3. Sourced(below)
    BY <1>4 DEF Sourced, IsSeq
  <2>4. QED
    BY <1>2, <1>8, <2>1, <2>2, <2>3
<1>10. CASE instr.push # "none"
  <2>1. Net(instr) = 1 - d
    BY <1>7, <1>10 DEF d
  <2>2. Execute(instr) = Append(below, v)
    BY <1>5, <1>10
  <2>3. below \in Seq(S \cup {v}) /\ Len(below) \in Nat
    BY <1>4
  <2> DEFINE w == Append(below, v)
  <2>4. w \in Seq(S \cup {v}) /\ Len(w) = Len(below) + 1 /\ w[Len(below) + 1] = v
        /\ \A i \in 1 .. Len(below) : w[i] = below[i]
    BY <2>3
  <2> HIDE DEF w
  <2>5. \A i \in 1 .. Len(w) : i = Len(below) + 1 \/ i \in 1 .. Len(below)
    BY <2>3, <2>4
  <2>6. \A i \in 1 .. Len(w) : w[i].src \in Nat \ {0}
    BY <1>4, <1>6, <2>4, <2>5
  <2>7. Sourced(w)
    BY <2>4, <2>6 DEF Sourced, IsSeq
  <2>8. QED
    BY <1>2, <1>8, <2>1, <2>2, <2>4, <2>7 DEF w
<1>11. QED
  BY <1>9, <1>10

(* An instruction keeps the stack as deep as IL's. *)
LEMMA ReadStep ==
  ASSUME IInv, ReadInstruction
  PROVE  IInv'
<1> DEFINE code == body[Fg]
<1>1. /\ at = "read" /\ at' = at /\ ins' = ins /\ k' = k + 1 /\ k <= Len(code) /\ fresh' = fresh + 1
      /\ rstack' = Execute(code[k])
      /\ UNCHANGED <<graph, stack, phis, visited, worklist, order, it, edge, left>>
  BY DEF ReadInstruction
<1>2. at \in Reading /\ at' \in Reading /\ at # "discover" /\ at' # "discover"
  BY <1>1 DEF Reading
<1>3. Static' /\ Made' = Made /\ Blocks' = Blocks /\ Fg' = Fg
  BY <1>1, <1>2, Frame
<1>4. /\ it \in 1 .. Len(order) /\ Fg \in Blocks /\ code \in Seq(Instr) /\ Len(code) \in Nat
      /\ depth[Fg] \in Nat /\ propagates[Fg] \in BOOLEAN
  BY <1>2, FgFacts
<1>5. /\ succ' = succ /\ propagates' = propagates /\ body' = body /\ depth' = depth
      /\ visited' = visited /\ order' = order /\ it' = it /\ stack' = stack /\ phis' = phis
  BY <1>1 DEF graph
<1>6. k \in Nat \ {0} /\ k \in 1 .. Len(code) /\ fresh \in Nat \ {0} /\ code # <<>>
  BY <1>1, <1>4 DEF IInv, WalkOK
<1>7. WalkOK'
  BY <1>1, <1>2, <1>3, <1>5, <1>6 DEF IInv, WalkOK, Phases
<1>8. propagates[Fg]
  BY <1>4, <1>6 DEF IInv, PointBlocks
<1>9. ins = Fg
  BY <1>1, <1>4, <1>6 DEF IInv, InsertsOK
<1>10. Range(succ[Fg]) \cap Made = {}
  <2>1. CASE k = 1
    BY <1>1, <1>6, <2>1 DEF IInv, Emptied
  <2>2. CASE k # 1
    BY <1>1, <1>6, <1>9, <2>2 DEF IInv, InsertsOK
  <2>3. QED
    BY <2>1, <2>2
<1>11. InsertsOK'
  BY <1>1, <1>3, <1>5, <1>6, <1>8, <1>9, <1>10 DEF InsertsOK
<1>12. Emptied'
  <2>1. k' # 1 /\ at' # "begin"
    BY <1>1, <1>6
  <2>2. QED
    BY <1>3, <1>5, <2>1 DEF IInv, Emptied
<1>13. Stacks' /\ Phis'
  BY <1>3, <1>5, PhisSame DEF IInv, Stacks
<1>14. Pending'
  BY <1>1, <1>2, <1>3, <1>5 DEF IInv, Pending, Awaits, Served, Fed
<1>15. Tracks'
  <2>1. Sourced(rstack) /\ Len(rstack) = depth[Fg] + NetOf(SubSeq(code, 1, k - 1))
    BY <1>1 DEF IInv, Tracks
  <2>2. code[k].pop => Len(rstack) > 0
    BY <1>4, <1>6, <1>8, <2>1 DEF IInv, Depths
  <2>3. code[k] \in Instr
    BY <1>4, <1>6
  <2>4. Sourced(rstack') /\ Len(rstack') = Len(rstack) + Net(code[k])
    BY <1>1, <1>6, <2>1, <2>2, <2>3, ExecuteIs
  <2>5. /\ NetOf(SubSeq(code, 1, k)) = NetOf(SubSeq(code, 1, k - 1)) + Net(code[k])
        /\ NetOf(SubSeq(code, 1, k - 1)) \in Int /\ Net(code[k]) \in Int
    <3>1. k - 1 \in 0 .. Len(code)
      BY <1>6
    <3> HIDE DEF code
    <3>2. QED
      BY <1>4, <1>6, <2>3, <3>1, NetFacts, NetType
  <2>6. k' - 1 = k /\ k' <= Len(code) + 1
    BY <1>1, <1>4, <1>6
  <2>7. Len(rstack') = depth[Fg] + NetOf(SubSeq(code, 1, k' - 1))
    BY <1>4, <2>1, <2>4, <2>5, <2>6
  <2>8. QED
    BY <1>1, <1>3, <1>5, <2>4, <2>6, <2>7 DEF Tracks
<1>16. QED
  BY <1>3, <1>7, <1>11, <1>12, <1>13, <1>14, <1>15 DEF IInv, Static

(* At the end of the block an empty stack feeds no block, and another one all successors. *)
LEMMA EndStep ==
  ASSUME IInv, EndBlock
  PROVE  IInv'
<1> DEFINE code == body[Fg]
<1>1. /\ at = "read" /\ ins' = ins /\ k' = k /\ k > Len(code) /\ fresh' = fresh /\ edge' = 1
      /\ rstack' = rstack /\ left' = [left EXCEPT ![Fg] = rstack]
      /\ at' = IF rstack = <<>> THEN "insert" ELSE "propagate"
      /\ UNCHANGED <<graph, stack, phis, visited, worklist, order, it>>
  BY DEF EndBlock
<1>2. at \in Reading /\ at' \in Reading /\ at # "discover" /\ at' # "discover" /\ at' \notin {"begin", "read"}
  BY <1>1 DEF Reading
<1>3. Static' /\ Made' = Made /\ Blocks' = Blocks /\ Fg' = Fg
  BY <1>1, <1>2, Frame
<1>4. /\ it \in 1 .. Len(order) /\ Fg \in Blocks /\ code \in Seq(Instr) /\ Len(code) \in Nat
      /\ depth[Fg] \in Nat /\ propagates[Fg] \in BOOLEAN /\ succ[Fg] \in Seq(Blocks) /\ Len(succ[Fg]) \in Nat
  BY <1>2, FgFacts
<1>5. /\ succ' = succ /\ propagates' = propagates /\ body' = body /\ depth' = depth
      /\ visited' = visited /\ order' = order /\ it' = it /\ stack' = stack /\ phis' = phis
  BY <1>1 DEF graph
<1>6. WalkOK'
  BY <1>1, <1>2, <1>3, <1>5 DEF IInv, WalkOK, Phases
<1>7. InsertsOK' /\ Emptied'
  BY <1>1, <1>2, <1>3, <1>5 DEF IInv, InsertsOK, Emptied
<1>8. Stacks' /\ Phis'
  BY <1>3, <1>5, PhisSame DEF IInv, Stacks
<1>9. Sourced(rstack) /\ Len(rstack) = depth[Fg] + NetOf(code)
  <2>1. Sourced(rstack) /\ k <= Len(code) + 1 /\ Len(rstack) = depth[Fg] + NetOf(SubSeq(code, 1, k - 1))
    BY <1>1 DEF IInv, Tracks
  <2>2. k \in Nat
    BY DEF IInv, WalkOK
  <2>3. k - 1 = Len(code)
    BY <1>1, <1>4, <2>1, <2>2
  <2>4. SubSeq(code, 1, Len(code)) = code
    BY <1>4, NetFacts
  <2>5. QED
    BY <2>1, <2>3, <2>4
<1>10. rstack = <<>> <=> Len(rstack) = 0
  BY <1>9, SourcedIs
<1>11. rstack # <<>> => propagates[Fg]
  <2> SUFFICES ASSUME ~propagates[Fg] PROVE Len(rstack) = 0
    BY <1>10
  <2>1. depth[Fg] = 0 /\ code = <<>>
    BY <1>4 DEF IInv, PointBlocks
  <2>2. NetOf(code) = 0
    BY <1>4, <2>1, NetFacts
  <2>3. QED
    BY <1>9, <2>1, <2>2
<1>12. Tracks'
  BY <1>1, <1>2, <1>3, <1>5, <1>9, <1>11 DEF Tracks
<1>13. Pending'
  <2> SUFFICES ASSUME NEW t \in Blocks, Awaits(t)', depth[t] > 0, stack[t] = NoStack
               PROVE  Served(t)'
    BY <1>3, <1>5 DEF Pending
  <2>1. Awaits(t)
    BY <1>1, <1>2, <1>3, <1>5 DEF Awaits
  <2>2. Served(t)
    BY <1>2, <2>1 DEF IInv, Pending
  <2>3. CASE Fed(t)
    <3>1. t \in Range(succ[Fg]) /\ propagates[Fg]
      BY <1>1, <2>3 DEF Fed
    <3>2. depth[t] = Len(rstack)
      <4>1. propagates[t] \in BOOLEAN
        BY DEF IInv, GraphOK
      <4>2. propagates[t]
        BY <4>1 DEF IInv, PointBlocks
      <4>3. QED
        BY <1>4, <1>9, <3>1, <4>2 DEF IInv, Depths
    <3>3. at' = "propagate"
      BY <1>1, <1>10, <3>2
    <3>4. PICK n \in 1 .. Len(succ[Fg]) : succ[Fg][n] = t
      BY <1>4, <3>1, RangeSeq
    <3>5. Fed(t)'
      BY <1>1, <1>3, <1>5, <3>3, <3>4 DEF Fed
    <3>6. QED
      BY <3>5 DEF Served
  <2>4. CASE ~Fed(t)
    BY <1>3, <1>5, <2>2, <2>4 DEF Served
  <2>5. QED
    BY <2>3, <2>4
<1>14. QED
  BY <1>3, <1>6, <1>7, <1>8, <1>12, <1>13 DEF IInv, Static

-----------------------------------------------------------------------------
(* The stack is handed to the successors. *)

(* A stack that is not empty goes to a block that comes later and is as deep. *)
LEMMA Handing ==
  ASSUME IInv, Propagating
  PROVE  /\ at = "propagate" /\ Successor \in Blocks /\ edge \in 1 .. Len(succ[Fg])
         /\ Successor \in Range(succ[Fg]) /\ propagates[Fg] /\ propagates[Successor] \in BOOLEAN
         /\ Sourced(rstack) /\ Len(rstack) \in Nat \ {0} /\ depth[Successor] \in Nat
         /\ propagates[Successor] =>
              depth[Successor] = Len(rstack) /\ depth[Successor] > 0 /\ After(Successor, it)
         /\ ~propagates[Successor] => depth[Successor] = 0
         /\ Multi(Successor) => propagates[Successor]
<1>1. at = "propagate" /\ edge <= Len(succ[Fg]) /\ edge \in Nat \ {0}
  BY DEF Propagating, IInv, WalkOK
<1>2. at \in Reading
  BY <1>1 DEF Reading
<1>3. /\ Fg \in Blocks /\ succ[Fg] \in Seq(Blocks) /\ Len(succ[Fg]) \in Nat /\ at # "discover"
      /\ it \in 1 .. Len(order)
  BY <1>2, FgFacts
<1>4. edge \in 1 .. Len(succ[Fg])
  BY <1>1, <1>3
<1>5. Successor \in Blocks /\ Successor \in Range(succ[Fg])
  BY <1>3, <1>4, RangeSeq DEF Successor
<1>6. propagates[Fg] /\ Sourced(rstack) /\ rstack # <<>> /\ Len(rstack) = depth[Fg] + NetOf(body[Fg])
  BY <1>1 DEF IInv, Tracks
<1>7. Len(rstack) \in Nat \ {0}
  BY <1>6, SourcedIs
<1>8. propagates[Successor] \in BOOLEAN /\ depth[Successor] \in Nat
  BY <1>5 DEF IInv, GraphOK
<1>9. ASSUME propagates[Successor]
      PROVE  depth[Successor] = Len(rstack) /\ depth[Successor] > 0 /\ After(Successor, it)
  <2>1. depth[Successor] = Len(rstack)
    BY <1>3, <1>5, <1>6, <1>9 DEF IInv, Depths
  <2>2. depth[Successor] > 0
    BY <1>7, <2>1
  <2>3. After(Successor, it)
    BY <1>3, <1>5, <1>6, <2>2 DEF IInv, Forward, Fg
  <2>4. QED
    BY <2>1, <2>2, <2>3
<1>10. ~propagates[Successor] => depth[Successor] = 0
  BY <1>5 DEF IInv, PointBlocks
<1>11. Multi(Successor) => propagates[Successor]
  <2>1. Multi(Successor) => ~(Successor > N)
    BY <1>5 DEF IInv, NewOnce
  <2>2. N \in Nat /\ Successor \in Nat
    BY <1>5, BlocksFacts DEF IInv
  <2>3. QED
    BY <1>5, <2>1, <2>2 DEF IInv, GraphOK
<1>12. QED
  BY <1>1, <1>4, <1>5, <1>6, <1>7, <1>8, <1>9, <1>10, <1>11

(* The steps of maintainOperandStack, which move on to the next successor. *)
LEMMA HandingStep ==
  ASSUME IInv, Propagating, edge' = edge + 1, at' = at,
         UNCHANGED <<graph, visited, worklist, order, it, k, ins, rstack, left>>,
         fresh' \in Nat \ {0}, DOMAIN stack' = DOMAIN stack, DOMAIN phis' = DOMAIN phis,
         \A b \in Blocks \ {Successor} : stack'[b] = stack[b],
         depth[Successor] = 0 \/ stack'[Successor] # NoStack,
         stack'[Successor] # NoStack => Sourced(stack'[Successor]) /\ Len(stack'[Successor]) = depth[Successor],
         Phis'
  PROVE  IInv'
<1>1. at = "propagate" /\ Successor \in Blocks /\ edge \in 1 .. Len(succ[Fg])
  BY Handing
<1>2. at \in Reading /\ at' \in Reading /\ at # "discover" /\ at' # "discover" /\ at' = "propagate"
  BY <1>1 DEF Reading
<1>3. Static' /\ Made' = Made /\ Blocks' = Blocks /\ Fg' = Fg
  BY <1>2, Frame
<1>4. /\ succ' = succ /\ propagates' = propagates /\ body' = body /\ depth' = depth
      /\ visited' = visited /\ order' = order /\ it' = it
  BY DEF graph
<1>5. edge \in Nat \ {0} /\ edge + 1 \in Nat \ {0} /\ Len(succ[Fg]) \in Nat
  BY <1>2, FgFacts DEF IInv, WalkOK
<1>6. WalkOK'
  BY <1>2, <1>3, <1>4, <1>5 DEF IInv, WalkOK, Phases
<1>7. InsertsOK' /\ Emptied'
  BY <1>2, <1>3, <1>4 DEF IInv, InsertsOK, Emptied
<1>8. Tracks'
  BY <1>1, <1>2, <1>3, <1>4 DEF IInv, Tracks
<1>9. Stacks'
  <2>1. ASSUME NEW b \in Blocks, stack'[b] # NoStack PROVE Sourced(stack'[b]) /\ Len(stack'[b]) = depth[b]
    <3>1. CASE b = Successor
      BY <2>1, <3>1
    <3>2. CASE b # Successor
      BY <2>1, <3>2 DEF IInv, Stacks
    <3>3. QED
      BY <3>1, <3>2
  <2>2. QED
    BY <1>3, <1>4, <2>1 DEF Stacks
<1>10. Pending'
  <2> SUFFICES ASSUME NEW t \in Blocks, Awaits(t)', depth[t] > 0, stack'[t] = NoStack
               PROVE  Served(t)'
    BY <1>3, <1>4 DEF Pending
  <2>1. t # Successor
    <3>1. 0 \in Nat /\ ~(0 > 0)
      OBVIOUS
    <3>2. QED
      BY <3>1
  <2>2. Awaits(t) /\ stack[t] = NoStack
    BY <1>2, <1>3, <1>4, <2>1 DEF Awaits
  <2>3. Served(t)
    BY <1>2, <2>2 DEF IInv, Pending
  <2>4. CASE Fed(t)
    <3>1. PICK n \in edge .. Len(succ[Fg]) : succ[Fg][n] = t
      BY <1>1, <2>4 DEF Fed
    <3>2. n # edge
      BY <2>1, <3>1 DEF Successor
    <3>3. n \in edge + 1 .. Len(succ[Fg])
      BY <1>5, <3>1, <3>2
    <3>4. Fed(t)'
      BY <1>2, <1>3, <1>4, <3>1, <3>3 DEF Fed
    <3>5. QED
      BY <3>4 DEF Served
  <2>5. CASE ~Fed(t)
    BY <1>3, <1>4, <2>3, <2>5 DEF Served
  <2>6. QED
    BY <2>4, <2>5
<1>11. QED
  BY <1>3, <1>6, <1>7, <1>8, <1>9, <1>10 DEF IInv, Static

(* Point blocks get no stack. *)
LEMMA SkipStep ==
  ASSUME IInv, SkipSuccessor
  PROVE  IInv'
<1>1. /\ Propagating /\ ~propagates[Successor] /\ edge' = edge + 1
      /\ UNCHANGED <<graph, stack, phis, visited, worklist, order, it, at, k, ins, rstack, left, fresh>>
  BY DEF SkipSuccessor
<1>2. depth[Successor] = 0 /\ Successor \in Blocks
  BY <1>1, Handing
<1>3. Phis'
  BY <1>1, PhisSame DEF IInv, graph
<1>4. fresh' \in Nat \ {0}
  BY <1>1 DEF IInv, WalkOK
<1>5. stack[Successor] # NoStack => Sourced(stack[Successor]) /\ Len(stack[Successor]) = depth[Successor]
  BY <1>2 DEF IInv, Stacks
<1>6. QED
  BY <1>1, <1>2, <1>3, <1>4, <1>5, HandingStep

(* The stack is copied to a block with one edge that brings a stack. *)
LEMMA CopyStep ==
  ASSUME IInv, CopyStack
  PROVE  IInv'
<1>1. /\ Propagating /\ propagates[Successor] /\ edge' = edge + 1
      /\ ~fgNodeHasMultiplePredsPropagatingStack(Successor)
      /\ stack' = [stack EXCEPT ![Successor] = StackHandedOn]
      /\ UNCHANGED <<graph, phis, visited, worklist, order, it, at, k, ins, rstack, left, fresh>>
  BY DEF CopyStack
<1>2. /\ Successor \in Blocks /\ propagates[Fg] /\ Sourced(rstack)
      /\ depth[Successor] = Len(rstack)
  BY <1>1, Handing
<1>3. StackHandedOn = rstack
  BY <1>2 DEF StackHandedOn
<1>4. DOMAIN stack = Blocks
  BY DEF IInv, BlocksOK
<1>5. DOMAIN stack' = DOMAIN stack /\ stack'[Successor] = rstack /\ \A b \in Blocks \ {Successor} : stack'[b] = stack[b]
  BY <1>1, <1>2, <1>3, <1>4
<1>6. rstack # NoStack
  BY <1>2, SourcedIs
<1>7. ~Multi(Successor)
  BY <1>1, MultiIs DEF IInv
<1>8. Phis'
  <2>1. succ' = succ /\ propagates' = propagates /\ depth' = depth /\ phis' = phis /\ Blocks' = Blocks
    BY <1>1 DEF graph, Blocks
  <2>2. \A b : Multi(b)' <=> Multi(b)
    BY <2>1 DEF Multi, Brings
  <2>3. \A phi, b : Enters(phi, b)' <=> Enters(phi, b)
    BY <2>1 DEF Enters
  <2>4. \A b \in Blocks : stack'[b] # NoStack /\ Multi(b) => stack[b] # NoStack
    BY <1>5, <1>7
  <2>5. QED
    BY <2>1, <2>2, <2>3, <2>4 DEF IInv, Phis
<1>9. fresh' \in Nat \ {0}
  BY <1>1 DEF IInv, WalkOK
<1>10. QED
  BY <1>1, <1>2, <1>5, <1>6, <1>8, <1>9, HandingStep

(* The PHI nodes after a merge: one for each value on the stack. *)
LEMMA MergedIs ==
  ASSUME IInv, Propagating, Multi(Successor), NEW i \in 1 .. Len(rstack)
  PROVE  Shaped(MergedPhis(Successor)[i]) /\ Enters(MergedPhis(Successor)[i], Successor)
<1> DEFINE b == Successor
           old == IF stack[b] = NoStack THEN NewPHI(b, rstack[i].type, fresh + i) ELSE phis[b][i]
           new == addPHIOperand(old, rstack[i], Fg)
<1>1. b \in Blocks /\ depth[b] = Len(rstack) /\ Len(rstack) \in Nat
  BY Handing
<1>2. Shaped(old) /\ Enters(old, b)
  <2>1. CASE stack[b] = NoStack
    <3>1. fresh + i \in Nat \ {0}
      BY <1>1 DEF IInv, WalkOK
    <3>2. old = NewPHI(b, rstack[i].type, fresh + i)
      BY <2>1
    <3> HIDE DEF old, b
    <3>3. QED
      BY <3>1, <3>2, NewPHIIs DEF IInv
  <2>2. CASE stack[b] # NoStack
    <3>1. i \in 1 .. Len(phis[b])
      BY <1>1, <2>2 DEF IInv, Phis
    <3>2. QED
      BY <1>1, <2>2, <3>1 DEF IInv, Phis
  <2>3. QED
    BY <2>1, <2>2
<1>3. MergedPhis(b)[i] = new
  BY DEF MergedPhis
<1> HIDE DEF old
<1>4. Shaped(new) /\ SameBlocks(old.entries, new.entries)
  BY <1>2, AddIs
<1> HIDE DEF new
<1>5. Enters(new, b)
  BY <1>2, <1>4 DEF Enters, SameBlocks
<1>6. QED
  BY <1>3, <1>4, <1>5

(* The stack is merged into the PHI nodes of a block with several such edges. *)
LEMMA MergeStep ==
  ASSUME IInv, MergeStack
  PROVE  IInv'
<1> DEFINE b == Successor
           L == Len(rstack)
           new == [i \in 1 .. L |-> ValueOf(phis'[b][i])]
<1>1. /\ Propagating /\ edge' = edge + 1
      /\ fgNodeHasMultiplePredsPropagatingStack(b)
      /\ phis' = [phis EXCEPT ![b] = MergedPhis(b)]
      /\ stack' = [stack EXCEPT ![b] = new]
      /\ fresh' = fresh + L + 1
      /\ UNCHANGED <<graph, visited, worklist, order, it, at, k, ins, rstack, left>>
  BY DEF MergeStack
<1>2. Multi(b)
  BY <1>1, MultiIs DEF IInv
<1>3. b \in Blocks /\ depth[b] = L /\ L \in Nat \ {0} /\ propagates[b]
  BY <1>1, <1>2, Handing
<1>4. DOMAIN stack = Blocks /\ DOMAIN phis = Blocks
  BY DEF IInv, BlocksOK
<1>5. /\ DOMAIN phis' = DOMAIN phis /\ phis'[b] = MergedPhis(b)
      /\ \A c \in Blocks \ {b} : phis'[c] = phis[c]
  BY <1>1, <1>3, <1>4
<1>6. \A i \in 1 .. L : Shaped(phis'[b][i]) /\ Enters(phis'[b][i], b)
  BY <1>1, <1>2, <1>5, MergedIs
<1>7. phis'[b] = [i \in 1 .. L |-> phis'[b][i]]
  BY <1>5 DEF MergedPhis
<1>8. IsSeq(phis'[b]) /\ Len(phis'[b]) = L
  BY <1>3, <1>7, IsSeqFcn
<1>9. new = [i \in 1 .. L |-> new[i]] /\ \A i \in 1 .. L : new[i].src = phis'[b][i].src
  BY DEF ValueOf
<1>10. DOMAIN stack' = DOMAIN stack /\ stack'[b] = new /\ \A c \in Blocks \ {b} : stack'[c] = stack[c]
  <2> HIDE DEF new
  <2> QED
    BY <1>1, <1>3, <1>4
<1> HIDE DEF new, L
<1>11. Sourced(new) /\ Len(new) = L
  <2>1. IsSeq(new) /\ Len(new) = L
    BY <1>3, <1>9, IsSeqFcn
  <2>2. QED
    BY <1>6, <1>9, <2>1 DEF Sourced, Shaped
<1>12. new # NoStack
  BY <1>11, SourcedIs
<1>13. Phis'
  <2>1. succ' = succ /\ propagates' = propagates /\ depth' = depth /\ Blocks' = Blocks
    BY <1>1 DEF graph, Blocks
  <2>2. \A c : Multi(c)' <=> Multi(c)
    BY <2>1 DEF Multi, Brings
  <2>3. \A phi, c : Enters(phi, c)' <=> Enters(phi, c)
    BY <2>1 DEF Enters
  <2>4. ASSUME NEW c \in Blocks
        PROVE  /\ IsSeq(phis'[c])
               /\ \A i \in 1 .. Len(phis'[c]) : Shaped(phis'[c][i]) /\ Enters(phis'[c][i], c)
               /\ phis'[c] # <<>> => depth[c] > 0
               /\ stack'[c] # NoStack /\ Multi(c) => Len(phis'[c]) = depth[c]
    <3>1. CASE c = b
      BY <1>3, <1>6, <1>8, <3>1
    <3>2. CASE c # b
      BY <1>5, <1>10, <3>2 DEF IInv, Phis
    <3>3. QED
      BY <3>1, <3>2
  <2>5. QED
    BY <2>1, <2>2, <2>3, <2>4 DEF Phis
<1>14. fresh' \in Nat \ {0}
  BY <1>1, <1>3 DEF IInv, WalkOK
<1>15. QED
  BY <1>1, <1>3, <1>5, <1>10, <1>11, <1>12, <1>13, <1>14, HandingStep

(* The stack is cleared once all successors have theirs. *)
LEMMA ClearStep ==
  ASSUME IInv, ClearStack
  PROVE  IInv'
<1>1. /\ at = "propagate" /\ at' = "insert" /\ rstack' = <<>> /\ edge > Len(succ[Fg])
      /\ UNCHANGED <<graph, stack, phis, visited, worklist, order, it, k, ins, edge, left, fresh>>
  BY DEF ClearStack
<1>2. at \in Reading /\ at' \in Reading /\ at # "discover" /\ at' # "discover"
  BY <1>1 DEF Reading
<1>3. Static' /\ Made' = Made /\ Blocks' = Blocks /\ Fg' = Fg
  BY <1>1, <1>2, Frame
<1>4. /\ succ' = succ /\ propagates' = propagates /\ body' = body /\ depth' = depth
      /\ visited' = visited /\ order' = order /\ it' = it /\ stack' = stack /\ phis' = phis
  BY <1>1 DEF graph
<1>5. WalkOK'
  BY <1>1, <1>2, <1>3, <1>4 DEF IInv, WalkOK, Phases
<1>6. InsertsOK' /\ Emptied' /\ Tracks'
  BY <1>1, <1>3, <1>4, FirstStacks DEF IInv, InsertsOK, Emptied, Tracks
<1>7. Stacks' /\ Phis'
  BY <1>3, <1>4, PhisSame DEF IInv, Stacks
<1>8. \A t : ~Fed(t)
  <2>1. edge \in Nat /\ Len(succ[Fg]) \in Nat
    BY <1>2, FgFacts DEF IInv, WalkOK
  <2>2. QED
    BY <1>1, <2>1 DEF Fed
<1>9. Pending'
  BY <1>1, <1>2, <1>3, <1>4, <1>8 DEF IInv, Pending, Awaits, Served
<1>10. QED
  BY <1>3, <1>5, <1>6, <1>7, <1>9 DEF IInv, Static

-----------------------------------------------------------------------------
(* The discovery of the blocks. *)

(* Reverse has the same elements. *)
LEMMA ReverseIs ==
  ASSUME NEW S, NEW s \in Seq(S)
  PROVE  /\ Reverse(s) \in Seq(S) /\ Len(Reverse(s)) = Len(s)
         /\ \A i \in 1 .. Len(s) : Reverse(s)[i] = s[(Len(s) - i) + 1]
         /\ Range(Reverse(s)) = Range(s)
<1> DEFINE r == Reverse(s)
<1>1. Len(s) \in Nat /\ \A i \in 1 .. Len(s) : s[i] \in S /\ (Len(s) - i) + 1 \in 1 .. Len(s)
  OBVIOUS
<1>2. r = [i \in 1 .. Len(s) |-> s[(Len(s) - i) + 1]]
  BY DEF Reverse
<1>3. r \in Seq(S) /\ Len(r) = Len(s) /\ \A i \in 1 .. Len(s) : r[i] = s[(Len(s) - i) + 1]
  BY <1>1, <1>2
<1> HIDE DEF r
<1>4. \A x : x \in Range(r) <=> \E i \in 1 .. Len(s) : r[i] = x
  BY <1>3, RangeSeq
<1>5. \A x : x \in Range(s) <=> \E i \in 1 .. Len(s) : s[i] = x
  BY RangeSeq
<1>6. \A x \in Range(r) : x \in Range(s)
  BY <1>1, <1>3, <1>4, <1>5
<1>7. ASSUME NEW x \in Range(s) PROVE x \in Range(r)
  <2>1. PICK i \in 1 .. Len(s) : s[i] = x
    BY <1>5
  <2>2. (Len(s) - i) + 1 \in 1 .. Len(s) /\ (Len(s) - ((Len(s) - i) + 1)) + 1 = i
    BY <1>1
  <2>3. r[(Len(s) - i) + 1] = x
    BY <1>3, <2>1, <2>2
  <2>4. QED
    BY <1>4, <2>2, <2>3
<1>8. QED
  BY <1>3, <1>6, <1>7 DEF r

(* While the blocks are discovered no split has been made. *)
LEMMA NoneMade ==
  ASSUME IInv, at = "discover"
  PROVE  Blocks = 1 .. N /\ Made = {} /\ \A b \in Blocks : propagates[b] /\ b \in Nat
<1>1. Blocks = 1 .. N
  BY DEF IInv, Discovery
<1>2. N \in Nat
  BY BoundsAssumption
<1>3. \A b \in Blocks : b \in Nat /\ b <= N /\ ~(b > N)
  BY <1>1, <1>2
<1>4. Made = {}
  BY <1>3 DEF Made
<1>5. \A b \in Blocks : propagates[b]
  BY <1>3 DEF IInv, GraphOK
<1>6. QED
  BY <1>1, <1>3, <1>4, <1>5

(* The block at the head of the work list gives way to its unvisited successors. *)
LEMMA DiscoverStep ==
  ASSUME IInv, Discover
  PROVE  IInv'
<1> DEFINE h == Head(worklist)
           u == Unvisited(h)
<1>1. /\ at = "discover" /\ worklist # <<>> /\ worklist' = Reverse(u) \o Tail(worklist)
      /\ visited' = visited \cup Range(u)
      /\ UNCHANGED <<graph, stack, phis, order, it, at, k, ins, edge, rstack, left, fresh>>
  BY DEF Discover, fgPrependUnvisitedSuccToWorklist
<1>2. /\ succ' = succ /\ nominal' = nominal /\ propagates' = propagates /\ body' = body /\ depth' = depth
      /\ order' = order /\ it' = it /\ stack' = stack /\ phis' = phis /\ at' = "discover"
      /\ Blocks' = Blocks
  BY <1>1 DEF graph, Blocks
<1>3. Blocks = 1 .. N /\ Made = {} /\ \A b \in Blocks : propagates[b] /\ b \in Nat
  BY <1>1, NoneMade
<1>4. /\ worklist \in Seq(visited) /\ h \in visited /\ visited \subseteq Blocks /\ 1 \in visited
      /\ Tail(worklist) \in Seq(visited)
      /\ \A b \in Range(worklist) : b = h \/ b \in Range(Tail(worklist))
  <2>1. worklist \in Seq(visited) /\ visited \subseteq Blocks /\ 1 \in visited
    BY DEF IInv, WalkOK
  <2>2. h \in visited /\ Tail(worklist) \in Seq(visited) /\ Len(Tail(worklist)) = Len(worklist) - 1
        /\ h = worklist[1] /\ \A i \in 1 .. Len(Tail(worklist)) : Tail(worklist)[i] = worklist[i + 1]
    BY <1>1, <2>1
  <2>3. ASSUME NEW b \in Range(worklist), b # h PROVE b \in Range(Tail(worklist))
    <3>1. PICK i \in 1 .. Len(worklist) : worklist[i] = b
      BY <2>1, RangeSeq
    <3>2. i # 1 /\ Len(worklist) \in Nat
      BY <2>1, <2>2, <2>3, <3>1
    <3>3. i - 1 \in 1 .. Len(Tail(worklist)) /\ (i - 1) + 1 = i
      BY <2>2, <3>1, <3>2
    <3>4. Tail(worklist)[i - 1] = b
      BY <2>2, <3>1, <3>3
    <3>5. QED
      BY <2>2, <3>3, <3>4, RangeSeq
  <2>4. QED
    BY <2>1, <2>2, <2>3
<1>5. u \in Seq(Blocks) /\ Range(u) = To(h) \ visited
  BY <1>4, UnvisitedIs DEF IInv
<1> HIDE DEF u, h
<1>6. visited' \subseteq Blocks /\ visited \subseteq visited' /\ Range(u) \subseteq visited'
  BY <1>1, <1>4, <1>5, RangeSeq
<1>7. /\ worklist' \in Seq(visited')
      /\ \A x : x \in Range(worklist') <=> x \in Range(u) \/ x \in Range(Tail(worklist))
  <2>1. u \in Seq(Range(u))
    BY <1>5, SeqOfRange
  <2>2. u \in Seq(visited') /\ Tail(worklist) \in Seq(visited')
    BY <1>4, <1>6, <2>1, SeqMonotonic
  <2>3. Reverse(u) \in Seq(visited') /\ Range(Reverse(u)) = Range(u)
    BY <2>2, ReverseIs
  <2> DEFINE r == Reverse(u)
             tl == Tail(worklist)
             V == visited'
  <2>4. r \in Seq(V) /\ tl \in Seq(V) /\ worklist' = r \o tl /\ Range(r) = Range(u)
    BY <1>1, <2>2, <2>3
  <2> HIDE DEF r, tl, V
  <2>5. Range(r \o tl) = Range(r) \cup Range(tl)
    BY <2>4, RangeConcatenation
  <2>6. r \o tl \in Seq(V)
    BY <2>4
  <2>7. QED
    BY <2>4, <2>5, <2>6 DEF tl, V
<1>8. Made' = {}
  <2>1. N \in Nat
    BY BoundsAssumption
  <2>2. QED
    BY <1>2, <1>3, <2>1 DEF Made
<1>9. BlocksOK'
  BY <1>1, <1>2 DEF IInv, BlocksOK
<1>10. GraphOK'
  BY <1>2 DEF IInv, GraphOK
<1>11. WalkOK'
  <2>1. order' \in Seq(visited')
    BY <1>1, <1>2 DEF IInv, Discovery
  <2>2. at' \notin Reading
    BY <1>2 DEF Reading
  <2>3. QED
    BY <1>1, <1>2, <1>4, <1>6, <1>7, <2>1, <2>2 DEF IInv, WalkOK
<1>12. NewOnce'
  BY <1>2 DEF IInv, NewOnce, Multi, Brings
<1>13. PointBlocks'
  BY <1>2, <1>3 DEF PointBlocks
<1>14. Chain' /\ Closed' /\ Emptied' /\ InsertsOK' /\ Forward' /\ Pending'
  BY <1>2, <1>8 DEF Chain, Closed, Emptied, InsertsOK, Forward, Pending
<1>15. Depths'
  BY <1>2 DEF IInv, Depths
<1>16. Stacks' /\ Phis'
  BY <1>2, PhisSame DEF IInv, Stacks
<1>17. Tracks'
  BY <1>1 DEF IInv, Tracks
<1>18. Discovery'
  <2>1. \A b : To(b)' = To(b)
    BY <1>2 DEF To
  <2>2. ASSUME NEW b \in visited' \ {1} PROVE \E p \in visited' : b \in To(p)
    <3>1. CASE b \in visited
      BY <1>1, <1>6, <3>1 DEF IInv, Discovery
    <3>2. CASE b \notin visited
      BY <1>1, <1>4, <1>5, <1>6, <3>2
    <3>3. QED
      BY <3>1, <3>2
  <2>3. ASSUME NEW b \in visited' PROVE b \in Range(worklist') \/ To(b) \subseteq visited'
    <3>1. CASE b \in Range(u)
      BY <1>7, <3>1
    <3>2. CASE b \in visited /\ b \in Range(worklist)
      <4>1. CASE b = h
        BY <1>1, <1>5, <4>1
      <4>2. CASE b # h
        BY <1>4, <1>7, <3>2, <4>2
      <4>3. QED
        BY <4>1, <4>2
    <3>3. CASE b \in visited /\ b \notin Range(worklist)
      BY <1>1, <1>6, <3>3 DEF IInv, Discovery
    <3>4. QED
      BY <1>1, <3>1, <3>2, <3>3
  <2>4. /\ Blocks = 1 .. N /\ order = <<>> /\ it = 1 /\ rstack = <<>> /\ depth[1] = 0
        /\ \A b \in Blocks : \A t \in Range(succ[b]) : t <= b => depth[t] = 0
        /\ \A b \in Blocks : \A t \in Range(nominal[b]) : stack[t] # NoStack
    BY <1>1 DEF IInv, Discovery
  <2>5. rstack' = rstack
    BY <1>1
  <2>6. QED
    BY <1>2, <2>1, <2>2, <2>3, <2>4, <2>5 DEF Discovery
<1>19. QED
  BY <1>9, <1>10, <1>11, <1>12, <1>13, <1>14, <1>15, <1>16, <1>17, <1>18 DEF IInv

(* The blocks discovered are put in MSIL order. *)
LEMMA OrderStep ==
  ASSUME IInv, OrderBlocks
  PROVE  IInv'
<1> DEFINE o == MSILOffsetOrder
<1>1. /\ at = "discover" /\ worklist = <<>> /\ order' = o /\ at' = "begin"
      /\ UNCHANGED <<graph, stack, phis, visited, worklist, it, k, ins, edge, rstack, left, fresh>>
  BY DEF OrderBlocks
<1>2. /\ succ' = succ /\ nominal' = nominal /\ propagates' = propagates /\ body' = body /\ depth' = depth
      /\ visited' = visited /\ it' = it /\ stack' = stack /\ phis' = phis
      /\ Blocks' = Blocks /\ Made' = Made
  BY <1>1 DEF graph, Blocks, Made
<1>3. Blocks = 1 .. N /\ Made = {} /\ \A b \in Blocks : propagates[b] /\ b \in Nat
  BY <1>1, NoneMade
<1>4. visited \subseteq Blocks /\ 1 \in visited
  BY DEF IInv, WalkOK
<1>5. /\ it = 1 /\ rstack = <<>> /\ depth[1] = 0
      /\ \A b \in Blocks : \A t \in Range(succ[b]) : t <= b => depth[t] = 0
      /\ \A b \in Blocks : \A t \in Range(nominal[b]) : stack[t] # NoStack
      /\ \A b \in visited \ {1} : \E p \in visited : b \in To(p)
  BY <1>1 DEF IInv, Discovery
<1>6. \A b \in visited : To(b) \subseteq visited
  <2>1. Range(worklist) = {}
    BY <1>1 DEF Range
  <2>2. QED
    BY <1>1, <2>1 DEF IInv, Discovery
<1>7. o \in Seq(Nat) /\ OrderedTo(o, N, visited)
  BY MSILOffsetOrderIs
<1> HIDE DEF o
<1>8. /\ Len(o) \in Nat /\ \A i \in 1 .. Len(o) : o[i] \in visited /\ o[i] \in Nat
      /\ \A i, j \in 1 .. Len(o) : i < j => o[i] < o[j]
      /\ \A b \in visited : \E i \in 1 .. Len(o) : o[i] = b
  BY <1>3, <1>4, <1>7 DEF OrderedTo
<1>9. o \in Seq(visited) /\ Range(o) = visited
  <2>1. o \in Seq(visited)
    BY <1>7, <1>8
  <2>2. \A x : x \in Range(o) <=> \E i \in 1 .. Len(o) : o[i] = x
    BY <2>1, RangeSeq
  <2>3. \A x : x \in Range(o) <=> x \in visited
    BY <1>8, <2>2
  <2>4. QED
    BY <2>1, <2>3
<1>10. 1 \in 1 .. Len(o)
  BY <1>4, <1>8
<1>11. \A i, j \in 1 .. Len(o) : o[i] = o[j] => i = j
  <2>1. ASSUME NEW i \in 1 .. Len(o), NEW j \in 1 .. Len(o), o[i] = o[j] PROVE i = j
    <3>1. ~(i < j) /\ ~(j < i)
      BY <1>8, <2>1
    <3>2. QED
      BY <3>1
  <2>2. QED
    BY <2>1
<1>12. \A i, j \in 1 .. Len(o) : o[i] < o[j] => i < j
  <2>1. ASSUME NEW i \in 1 .. Len(o), NEW j \in 1 .. Len(o), o[i] < o[j] PROVE i < j
    <3>1. ~(j < i) /\ i # j
      BY <1>8, <2>1
    <3>2. QED
      BY <3>1
  <2>2. QED
    BY <2>1
<1>13. BlocksOK'
  BY <1>1, <1>2 DEF IInv, BlocksOK
<1>14. GraphOK'
  BY <1>2 DEF IInv, GraphOK
<1>15. WalkOK'
  BY <1>1, <1>2, <1>5, <1>9, <1>10 DEF IInv, WalkOK, Phases, Reading
<1>16. NewOnce'
  BY <1>2 DEF IInv, NewOnce, Multi, Brings
<1>17. PointBlocks'
  BY <1>2, <1>3 DEF PointBlocks
<1>18. Fg' = o[1] /\ Fg' \in visited
  BY <1>1, <1>2, <1>5, <1>8, <1>10 DEF Fg
<1>19. Chain' /\ Emptied' /\ InsertsOK' /\ Discovery'
  BY <1>1, <1>2, <1>3 DEF Chain, Emptied, InsertsOK, Discovery
<1>20. \A b : To(b)' = To(b)
  BY <1>2 DEF To
<1>21. Closed'
  BY <1>1, <1>2, <1>3, <1>6, <1>8, <1>9, <1>11, <1>20 DEF Closed
<1>22. Forward'
  <2>1. ASSUME NEW i \in 1 .. Len(o), NEW t \in Range(succ[o[i]]), depth[t] > 0,
               NEW j \in 1 .. Len(o), o[j] = t
        PROVE  j > i
    <3>1. o[i] \in Blocks /\ o[i] \in Nat /\ t \in Nat
      BY <1>4, <1>8, <2>1
    <3>2. ~(t <= o[i])
      BY <1>5, <2>1, <3>1
    <3>3. o[i] < o[j]
      BY <2>1, <3>1, <3>2
    <3>4. QED
      BY <1>12, <3>3
  <2>2. QED
    BY <1>1, <1>2, <1>3, <2>1 DEF Forward, After
<1>23. Depths'
  BY <1>2 DEF IInv, Depths
<1>24. Stacks' /\ Phis'
  BY <1>2, PhisSame DEF IInv, Stacks
<1>25. Tracks'
  BY <1>1, <1>5, FirstStacks DEF Tracks
<1>26. Pending'
  <2> SUFFICES ASSUME NEW t \in Blocks, Awaits(t)', depth[t] > 0, stack[t] = NoStack
               PROVE  Served(t)'
    BY <1>2 DEF Pending
  <2>1. t \in visited
    BY <1>1, <1>2, <1>3, <1>8 DEF Awaits
  <2>2. t # 1
    <3>1. ~(0 > 0)
      OBVIOUS
    <3>2. QED
      BY <1>5, <3>1
  <2>3. PICK p \in visited : t \in To(p)
    BY <1>5, <2>1, <2>2
  <2>4. t \in Range(succ[p]) /\ propagates[p] /\ p \in Blocks /\ p \in Nat /\ t \in Nat
    BY <1>3, <1>4, <1>5, <2>3 DEF To
  <2>5. p < t
    <3>1. t <= p => depth[t] = 0
      BY <1>5, <2>4
    <3>2. ~(0 > 0)
      OBVIOUS
    <3>3. QED
      BY <2>4, <3>1, <3>2
  <2>6. PICK i \in 1 .. Len(o), j \in 1 .. Len(o) : o[i] = p /\ o[j] = t
    BY <1>8, <2>1
  <2>7. i < j
    BY <1>12, <2>5, <2>6
  <2>8. CASE i = 1
    <3>1. Fed(t)'
      BY <1>1, <1>2, <1>18, <2>4, <2>6, <2>8 DEF Fed
    <3>2. QED
      BY <3>1 DEF Served
  <2>9. CASE i # 1
    BY <1>1, <1>2, <1>5, <2>4, <2>6, <2>7, <2>9 DEF Served
  <2>10. QED
    BY <2>8, <2>9
<1>27. QED
  BY <1>13, <1>14, <1>15, <1>16, <1>17, <1>19, <1>21, <1>22, <1>23, <1>24, <1>25, <1>26 DEF IInv

-----------------------------------------------------------------------------
(* The blocks made enter the list. *)

\* w is a followed by b.
Joins(w, a, b) ==
  /\ Len(w) = Len(a) + Len(b)
  /\ \A j \in 1 .. Len(a) : w[j] = a[j]
  /\ \A j \in 1 .. Len(b) : w[Len(a) + j] = b[j]

(* Concatenation joins two lists. *)
LEMMA Joined ==
  ASSUME NEW S, NEW a \in Seq(S), NEW b \in Seq(S)
  PROVE  a \o b \in Seq(S) /\ Joins(a \o b, a, b)
<1> DEFINE w == a \o b
<1>1. Len(a) \in Nat /\ Len(b) \in Nat
  OBVIOUS
<1>2. w \in Seq(S) /\ Len(w) = Len(a) + Len(b)
  BY ConcatProperties
<1>3. \A j \in 1 .. Len(a) + Len(b) : w[j] = IF j <= Len(a) THEN a[j] ELSE b[j - Len(a)]
  BY ConcatProperties
<1> HIDE DEF w
<1>4. ASSUME NEW j \in 1 .. Len(b) PROVE w[Len(a) + j] = b[j]
  <2>1. Len(a) + j \in 1 .. Len(a) + Len(b) /\ ~(Len(a) + j <= Len(a)) /\ (Len(a) + j) - Len(a) = j
    BY <1>1
  <2>2. QED
    BY <1>3, <2>1
<1>5. \A j \in 1 .. Len(a) : w[j] = a[j]
  BY <1>1, <1>3
<1>6. w \in Seq(S) /\ Joins(w, a, b)
  BY <1>2, <1>4, <1>5 DEF Joins
<1>7. QED
  BY <1>6 DEF w

\* w is o with r inserted after position i.
Inserts(w, o, r, i) ==
  /\ Len(w) = Len(o) + Len(r)
  /\ \A j \in 1 .. i : w[j] = o[j]
  /\ \A j \in 1 .. Len(r) : w[i + j] = r[j]
  /\ \A j \in i + 1 .. Len(o) : w[Len(r) + j] = o[j]
  /\ \A j \in 1 .. Len(w) : \/ j \in 1 .. i
                            \/ j - i \in 1 .. Len(r) /\ i + (j - i) = j
                            \/ j - Len(r) \in i + 1 .. Len(o) /\ Len(r) + (j - Len(r)) = j

(* What the three parts of the list come to. *)
LEMMA InsertsParts ==
  ASSUME NEW S, NEW o \in Seq(S), NEW r \in Seq(S), NEW i \in 1 .. Len(o),
         NEW a, NEW c, NEW ar, NEW w,
         Len(a) = i, \A j \in 1 .. i : a[j] = o[j],
         Len(c) = Len(o) - i, \A j \in 1 .. Len(o) - i : c[j] = o[i + j],
         Joins(ar, a, r), Joins(w, ar, c)
  PROVE  Inserts(w, o, r, i)
<1>1. Len(o) \in Nat /\ Len(r) \in Nat /\ i \in Nat
  OBVIOUS
<1>2. /\ Len(ar) = i + Len(r)
      /\ \A j \in 1 .. i : ar[j] = o[j]
      /\ \A j \in 1 .. Len(r) : ar[i + j] = r[j]
  BY DEF Joins
<1>3. /\ Len(w) = Len(ar) + Len(c)
      /\ \A j \in 1 .. Len(ar) : w[j] = ar[j]
      /\ \A j \in 1 .. Len(c) : w[Len(ar) + j] = c[j]
  BY DEF Joins
<1>4. Len(w) = Len(o) + Len(r)
  BY <1>1, <1>2, <1>3
<1>5. \A j \in 1 .. i : w[j] = o[j]
  BY <1>1, <1>2, <1>3
<1>6. ASSUME NEW j \in 1 .. Len(r) PROVE w[i + j] = r[j]
  <2>1. i + j \in 1 .. Len(ar)
    BY <1>1, <1>2
  <2>2. QED
    BY <1>2, <1>3, <2>1
<1>7. ASSUME NEW j \in i + 1 .. Len(o) PROVE w[Len(r) + j] = o[j]
  <2>1. j - i \in 1 .. Len(c) /\ j - i \in 1 .. Len(o) - i /\ i + (j - i) = j /\ Len(ar) + (j - i) = Len(r) + j
    BY <1>1, <1>2
  <2>2. w[Len(ar) + (j - i)] = c[j - i] /\ c[j - i] = o[i + (j - i)]
    BY <1>3, <2>1
  <2>3. QED
    BY <2>1, <2>2
<1>8. \A j \in 1 .. Len(w) : \/ j \in 1 .. i
                             \/ j - i \in 1 .. Len(r) /\ i + (j - i) = j
                             \/ j - Len(r) \in i + 1 .. Len(o) /\ Len(r) + (j - Len(r)) = j
  BY <1>1, <1>4
<1>9. QED
  BY <1>4, <1>5, <1>6, <1>7, <1>8 DEF Inserts

(* A list with r inserted after position i. *)
LEMMA Inserted ==
  ASSUME NEW S, NEW o \in Seq(S), NEW r \in Seq(S), NEW i \in 1 .. Len(o)
  PROVE  LET w == SubSeq(o, 1, i) \o r \o SubSeq(o, i + 1, Len(o))
         IN  w \in Seq(S) /\ Inserts(w, o, r, i)
<1> DEFINE a == SubSeq(o, 1, i)
           c == SubSeq(o, i + 1, Len(o))
           ar == a \o r
           w == ar \o c
<1>1. Len(o) \in Nat /\ i \in Nat
  OBVIOUS
<1>2. a \in Seq(S) /\ Len(a) = i /\ \A j \in 1 .. i : a[j] = o[j]
  BY <1>1
<1>3. c \in Seq(S) /\ Len(c) = Len(o) - i /\ \A j \in 1 .. Len(o) - i : c[j] = o[i + j]
  BY <1>1
<1> HIDE DEF a, c
<1>4. ar \in Seq(S) /\ Joins(ar, a, r)
  BY <1>2, Joined
<1> HIDE DEF ar
<1>5. w \in Seq(S) /\ Joins(w, ar, c)
  BY <1>3, <1>4, Joined
<1> HIDE DEF w
<1>6. Inserts(w, o, r, i)
  BY <1>2, <1>3, <1>4, <1>5, InsertsParts
<1>7. QED
  BY <1>5, <1>6 DEF w, ar, a, c

(* What the block that was read goes to, and is not in the list: blocks made, of *)
(* which one at most hands a stack on; it is the last. *)
LEMMA Entering ==
  ASSUME IInv, at = "insert", NEW u, u = Unvisited(Fg)
  PROVE  /\ u \in Seq(Blocks) /\ Range(u) = To(Fg) \ visited /\ Range(u) \subseteq Made
         /\ \A i, j \in 1 .. Len(u) : u[i] = u[j] => i = j
         /\ \A x \in Range(u) : x \in Range(succ[Fg])
         /\ \A x \in Range(u) : propagates[x] => Len(u) > 0 /\ u[Len(u)] = x
         /\ \A x \in Range(u) : ~propagates[x] => To(x) \subseteq visited \cup Range(u)
         /\ Made # {} => Len(u) > 0
         /\ \A x \in Range(u) : \A p \in Made : propagates[p] => x \notin Range(succ[p])
<1>1. at \in Reading
  BY DEF Reading
<1>2. /\ it \in 1 .. Len(order) /\ order \in Seq(visited) /\ Fg \in visited /\ Fg \in Blocks
      /\ Fg \notin Made /\ at # "discover" /\ visited \subseteq Blocks /\ succ[Fg] \in Seq(Blocks)
      /\ propagates[Fg] \in BOOLEAN
  BY <1>1, FgFacts
<1>3. /\ u \in Seq(Blocks) /\ Range(u) = To(Fg) \ visited
      /\ \A i, j \in 1 .. Len(u) : u[i] = u[j] => i = j
      /\ \A x \in Range(succ[Fg]) \ visited :
           x > N /\ (\A i \in 1 .. Len(succ[Fg]) : succ[Fg][i] = x => i = Len(succ[Fg])) =>
             Len(u) > 0 /\ u[Len(u)] = x
  BY <1>2, UnvisitedIs DEF IInv
<1>4. \A b \in visited \cup Made : To(b) \subseteq visited \cup Made
  BY <1>2 DEF IInv, Closed
<1>5. Range(u) \subseteq Made
  BY <1>2, <1>3, <1>4
<1>6. \A x \in Made : x \in Blocks /\ x > N /\ x \in Nat /\ x \notin visited /\ x \notin 1 .. N
  <2>1. Blocks \subseteq Nat /\ N \in Nat
    BY BlocksFacts DEF IInv
  <2>2. QED
    BY <2>1 DEF Made
<1>7. \A b \in Blocks : Range(nominal[b]) \subseteq 1 .. N
  BY RangeSeq DEF IInv, GraphOK
<1>8. \A x \in Range(u) : x \in Range(succ[Fg])
  BY <1>2, <1>3, <1>5, <1>6, <1>7 DEF To
<1>9. ASSUME NEW x \in Range(u) PROVE propagates[Fg]
  BY <1>2, <1>3 DEF IInv, PointBlocks
<1>10. ASSUME NEW x \in Range(u), propagates[x] PROVE Len(u) > 0 /\ u[Len(u)] = x
  <2>1. x \in Range(succ[Fg]) \ visited /\ x > N
    BY <1>5, <1>6, <1>8
  <2>2. \A i \in 1 .. Len(succ[Fg]) : succ[Fg][i] = x => i = Len(succ[Fg])
    BY <1>2, <1>10, <2>1 DEF IInv, NewOnce
  <2>3. QED
    BY <1>3, <2>1, <2>2
<1>11. ASSUME NEW x \in Range(u), ~propagates[x] PROVE To(x) \subseteq visited \cup Range(u)
  <2>1. x \in Made /\ x \in Blocks /\ x \in Range(succ[Fg])
    BY <1>5, <1>6, <1>8
  <2>2. Range(succ[x]) \subseteq Range(succ[Fg])
    BY <1>2, <1>11, <2>1 DEF IInv, PointBlocks
  <2>3. Range(succ[Fg]) \subseteq visited \cup Range(u)
    BY <1>3 DEF To
  <2>4. Range(nominal[x]) \subseteq visited
    BY <1>4, <1>6, <1>7, <2>1 DEF To
  <2>5. QED
    BY <2>2, <2>3, <2>4 DEF To
<1>12. ASSUME Made # {} PROVE Len(u) > 0
  <2>1. Made \in SUBSET Nat
    BY <1>6
  <2>2. PICK b \in Made : \A y \in Made : b <= y
    BY <1>12, <2>1, Least
  <2>3. PICK p \in Made \cup {Fg} : propagates[p] /\ b \in Range(succ[p]) /\ (p = Fg \/ p < b)
    BY DEF IInv, Chain
  <2>4. p = Fg
    <3>1. p \in Made => b <= p /\ p \in Nat /\ b \in Nat
      BY <1>6, <2>2
    <3>2. QED
      BY <2>3, <3>1
  <2>5. b \in Range(u)
    BY <1>3, <1>6, <2>3, <2>4 DEF To
  <2>6. QED
    BY <1>3, <2>5, RangeSeq
<1>13. ASSUME NEW x \in Range(u), NEW p \in Made, propagates[p] PROVE x \notin Range(succ[p])
  <2> SUFFICES ASSUME x \in Range(succ[p]) PROVE FALSE
    OBVIOUS
  <2>1. x \in Range(succ[Fg]) /\ propagates[Fg] /\ p # Fg /\ p \in Blocks /\ x > N /\ x \in Blocks
    BY <1>2, <1>5, <1>6, <1>8, <1>9
  <2>2. succ[p] \in Seq(Blocks) /\ succ[Fg] \in Seq(Blocks) /\ Len(succ[p]) <= 2 /\ Len(succ[Fg]) <= 2
    BY <1>2, <2>1 DEF IInv, GraphOK
  <2>3. PICK i \in 1 .. Len(succ[p]) : succ[p][i] = x
    BY <2>2, RangeSeq
  <2>4. PICK j \in 1 .. Len(succ[Fg]) : succ[Fg][j] = x
    BY <2>1, <2>2, RangeSeq
  <2>5. i \in 1 .. 2 /\ j \in 1 .. 2
    BY <2>2
  <2>6. Brings(p, i, x) /\ Brings(Fg, j, x)
    BY <1>2, <1>13, <2>1, <2>3, <2>4 DEF Brings
  <2>7. Multi(x)
    BY <1>2, <2>1, <2>5, <2>6 DEF Multi
  <2>8. QED
    BY <2>1, <2>7 DEF IInv, NewOnce
<1>14. QED
  BY <1>3, <1>5, <1>8, <1>10, <1>11, <1>12, <1>13

(* The block is done with; what it goes to comes next. *)
LEMMA InsertStep ==
  ASSUME IInv, InsertSuccessors
  PROVE  IInv'
<1> DEFINE u == Unvisited(Fg)
           r == Reverse(u)
           L == Len(u)
           w == SubSeq(order, 1, it) \o r \o SubSeq(order, it + 1, Len(order))
<1>1. /\ at = "insert" /\ order' = w /\ visited' = visited \cup Range(u) /\ it' = it + 1
      /\ at' = IF it < Len(w) THEN "begin" ELSE "done"
      /\ UNCHANGED <<graph, stack, phis, worklist, k, ins, edge, rstack, left, fresh>>
  BY DEF InsertSuccessors, InsertNew, AfterBlock
<1>2. /\ succ' = succ /\ nominal' = nominal /\ propagates' = propagates /\ body' = body /\ depth' = depth
      /\ stack' = stack /\ phis' = phis /\ Blocks' = Blocks /\ \A b : To(b)' = To(b)
  BY <1>1 DEF graph, Blocks, To
<1>3. at \in Reading
  BY <1>1 DEF Reading
<1>4. /\ it \in 1 .. Len(order) /\ order \in Seq(visited) /\ Fg \in visited /\ Fg \in Blocks /\ Fg = order[it]
      /\ at # "discover" /\ visited \subseteq Blocks /\ propagates[Fg] \in BOOLEAN /\ Len(order) \in Nat
  BY <1>3, FgFacts DEF Fg
<1>5. /\ u \in Seq(Blocks) /\ Range(u) = To(Fg) \ visited /\ Range(u) \subseteq Made
      /\ \A i, j \in 1 .. L : u[i] = u[j] => i = j
      /\ \A x \in Range(u) : x \in Range(succ[Fg])
      /\ \A x \in Range(u) : propagates[x] => L > 0 /\ u[L] = x
      /\ \A x \in Range(u) : ~propagates[x] => To(x) \subseteq visited \cup Range(u)
      /\ Made # {} => L > 0
      /\ \A x \in Range(u) : \A p \in Made : propagates[p] => x \notin Range(succ[p])
  BY <1>1, Entering
<1>6. r \in Seq(Blocks) /\ Len(r) = L /\ L \in Nat /\ \A i \in 1 .. L : r[i] = u[(L - i) + 1]
  BY <1>5, ReverseIs
<1>7. /\ \A i \in 1 .. L : r[i] \in Range(u)
      /\ \A x \in Range(u) : \E i \in 1 .. L : r[i] = x
  <2>1. Range(r) = Range(u)
    BY <1>5, ReverseIs
  <2>2. QED
    BY <1>6, <2>1, RangeSeq
<1>8. \A i, j \in 1 .. L : r[i] = r[j] => i = j
  <2>1. ASSUME NEW i \in 1 .. L, NEW j \in 1 .. L, r[i] = r[j] PROVE i = j
    <3>1. (L - i) + 1 \in 1 .. L /\ (L - j) + 1 \in 1 .. L
      BY <1>6
    <3>2. (L - i) + 1 = (L - j) + 1
      BY <1>5, <1>6, <2>1, <3>1
    <3>3. QED
      BY <1>6, <3>2
  <2>2. QED
    BY <2>1
<1>9. \A x \in Range(u) : propagates[x] => 1 \in 1 .. L /\ r[1] = x
  <2>1. ASSUME NEW x \in Range(u), propagates[x] PROVE 1 \in 1 .. L /\ r[1] = x
    <3>1. L > 0 /\ u[L] = x
      BY <1>5, <2>1
    <3>2. 1 \in 1 .. L /\ (L - 1) + 1 = L
      BY <1>6, <3>1
    <3>3. QED
      BY <1>6, <3>1, <3>2
  <2>2. QED
    BY <2>1
<1>10. w \in Seq(Blocks) /\ Inserts(w, order, r, it)
  <2>1. order \in Seq(Blocks)
    BY <1>4, SeqMonotonic
  <2> HIDE DEF r
  <2>2. QED
    BY <1>4, <1>6, <2>1, Inserted
<1> HIDE DEF u, r, L, w
<1>11. /\ Len(w) = Len(order) + L
       /\ \A j \in 1 .. it : w[j] = order[j]
       /\ \A j \in 1 .. L : w[it + j] = r[j]
       /\ \A j \in it + 1 .. Len(order) : w[L + j] = order[j]
       /\ \A j \in 1 .. Len(w) : \/ j \in 1 .. it
                                 \/ j - it \in 1 .. L /\ it + (j - it) = j
                                 \/ j - L \in it + 1 .. Len(order) /\ L + (j - L) = j
  BY <1>6, <1>10 DEF Inserts
<1>12. Len(w) \in Nat /\ it \in Nat /\ it <= Len(order)
  BY <1>4, <1>6, <1>11
<1>13. /\ visited = Range(order)
       /\ \A i, j \in 1 .. Len(order) : order[i] = order[j] => i = j
       /\ \A b \in visited \cup Made : To(b) \subseteq visited \cup Made
       /\ \A i \in 1 .. Len(order) : i # it => To(order[i]) \subseteq visited
  BY <1>4 DEF IInv, Closed
<1>14. \A i \in 1 .. Len(order) : order[i] \in visited
  BY <1>4
<1>15. \A b \in visited : \E i \in 1 .. Len(order) : order[i] = b
  BY <1>4, <1>13, RangeSeq
<1>16. Made' = Made \ Range(u) /\ \A b \in Made : b \notin visited
  BY <1>1, <1>2 DEF Made
<1>17. at' \in {"begin", "done"} /\ (it < Len(w) => at' = "begin") /\ (at' = "begin" => it < Len(w))
  BY <1>1
<1>18. at' \notin {"read", "propagate", "insert", "discover"}
  BY <1>17
<1>19. Fg' = w[it + 1]
  BY <1>1 DEF Fg
<1>20. ASSUME NEW x \in Range(u), propagates[x] PROVE x = Fg' /\ at' = "begin"
  <2>1. 1 \in 1 .. L /\ r[1] = x
    BY <1>9, <1>20
  <2>2. w[it + 1] = x /\ it < Len(w)
    BY <1>6, <1>11, <1>12, <2>1
  <2>3. QED
    BY <1>17, <1>19, <2>2
<1>21. ASSUME NEW t \in Range(u), NEW j \in 1 .. Len(w), w[j] = t
       PROVE  j - it \in 1 .. L /\ it + (j - it) = j
  <2>1. t \notin visited
    BY <1>5
  <2>2. ~(j \in 1 .. it)
    <3>1. j \in 1 .. it => w[j] = order[j] /\ j \in 1 .. Len(order)
      BY <1>11, <1>12
    <3>2. QED
      BY <1>14, <1>21, <2>1, <3>1
  <2>3. ~(j - L \in it + 1 .. Len(order) /\ L + (j - L) = j)
    <3> SUFFICES ASSUME j - L \in it + 1 .. Len(order), L + (j - L) = j PROVE FALSE
      OBVIOUS
    <3>1. w[j] = order[j - L] /\ j - L \in 1 .. Len(order)
      BY <1>6, <1>11, <1>12
    <3>2. QED
      BY <1>14, <1>21, <2>1, <3>1
  <2>4. QED
    BY <1>11, <2>2, <2>3
<1>22. ASSUME NEW t \in visited, NEW j \in 1 .. Len(w), w[j] = t
       PROVE  \E n \in 1 .. Len(order) :
                order[n] = t /\ \/ n <= it /\ j = n
                                \/ n > it /\ j = L + n
  <2>1. CASE j \in 1 .. it
    BY <1>11, <1>12, <1>22, <2>1
  <2>2. CASE j - it \in 1 .. L /\ it + (j - it) = j
    BY <1>5, <1>7, <1>11, <1>22, <2>2
  <2>3. CASE j - L \in it + 1 .. Len(order) /\ L + (j - L) = j
    <3>1. w[j] = order[j - L] /\ j - L \in 1 .. Len(order) /\ j - L > it /\ j = L + (j - L)
      BY <1>6, <1>11, <1>12, <2>3
    <3>2. QED
      BY <1>22, <3>1
  <2>4. QED
    BY <1>11, <2>1, <2>2, <2>3
<1>23. \A j \in 1 .. Len(w) : w[j] \in visited \cup Range(u)
  <2>1. ASSUME NEW j \in 1 .. Len(w) PROVE w[j] \in visited \cup Range(u)
    <3>1. CASE j \in 1 .. it
      BY <1>11, <1>12, <1>14, <3>1
    <3>2. CASE j - it \in 1 .. L /\ it + (j - it) = j
      BY <1>7, <1>11, <3>2
    <3>3. CASE j - L \in it + 1 .. Len(order) /\ L + (j - L) = j
      <4>1. w[j] = order[j - L] /\ j - L \in 1 .. Len(order)
        BY <1>6, <1>11, <1>12, <3>3
      <4>2. QED
        BY <1>14, <4>1
    <3>4. QED
      BY <1>11, <3>1, <3>2, <3>3
  <2>2. QED
    BY <2>1
<1>24. BlocksOK'
  BY <1>1, <1>2 DEF IInv, BlocksOK
<1>25. GraphOK'
  BY <1>2 DEF IInv, GraphOK
<1>26. visited' = visited \cup Range(u) /\ visited' \subseteq Blocks /\ w \in Seq(visited')
  <2>1. visited' \subseteq Blocks
    BY <1>1, <1>4, <1>5 DEF Made
  <2>2. \A j \in 1 .. Len(w) : w[j] \in visited'
    BY <1>1, <1>23
  <2> DEFINE V == visited'
  <2> HIDE DEF V
  <2>3. w \in Seq(V)
    BY <1>10, <2>2 DEF V
  <2>4. QED
    BY <1>1, <2>1, <2>3 DEF V
<1>27. WalkOK'
  <2>1. worklist' \in Seq(visited')
    <3>1. worklist \in Seq(visited) /\ visited \subseteq visited'
      BY <1>26 DEF IInv, WalkOK
    <3>2. worklist \in Seq(visited')
      BY <3>1, SeqMonotonic
    <3>3. QED
      BY <1>1, <3>2
  <2>2. it' \in Nat \ {0} /\ (at' \in Reading => it' <= Len(order'))
    BY <1>1, <1>12, <1>17 DEF Reading
  <2>3. at' \in Phases /\ 1 \in visited'
    BY <1>17, <1>26 DEF Phases, Reading, IInv, WalkOK
  <2>4. QED
    BY <1>1, <1>2, <1>26, <2>1, <2>2, <2>3 DEF IInv, WalkOK
<1>28. NewOnce'
  BY <1>2 DEF IInv, NewOnce, Multi, Brings
<1>29. PointBlocks'
  <2>1. ASSUME NEW b \in Blocks, ~propagates[b], b \in visited' PROVE To(b) \subseteq visited'
    <3>1. CASE b \in visited
      BY <1>26, <2>1, <3>1 DEF IInv, PointBlocks
    <3>2. CASE b \in Range(u)
      BY <1>5, <1>26, <2>1, <3>2
    <3>3. QED
      BY <1>26, <2>1, <3>1, <3>2
  <2>2. \A b \in Blocks : ~propagates[b] =>
          /\ depth[b] = 0 /\ body[b] = <<>>
          /\ \A p \in Blocks : b \in Range(succ[p]) => Range(succ[b]) \subseteq Range(succ[p])
    BY DEF IInv, PointBlocks
  <2>3. QED
    BY <1>2, <2>1, <2>2 DEF PointBlocks
<1>30. Chain'
  <2>1. ASSUME NEW b \in Made' PROVE at' = "begin" /\ \E p \in Made' \cup {Fg'} :
                 propagates[p] /\ b \in Range(succ[p]) /\ (p = Fg' \/ p < b)
    <3>1. b \in Made /\ b \notin Range(u)
      BY <1>16
    <3>2. L > 0
      BY <1>5, <3>1
    <3>3. it < Len(w)
      BY <1>6, <1>11, <1>12, <3>2
    <3>4. PICK p \in Made \cup {Fg} : propagates[p] /\ b \in Range(succ[p]) /\ (p = Fg \/ p < b)
      BY <3>1 DEF IInv, Chain
    <3>5. p # Fg
      BY <1>5, <1>16, <3>1, <3>4 DEF To
    <3>6. p \in Range(u) => p = Fg'
      BY <1>20, <3>4
    <3>7. QED
      BY <1>16, <1>17, <3>3, <3>4, <3>5, <3>6
  <2>2. QED
    BY <1>2, <2>1 DEF Chain, Reading
<1>31. Closed'
  <2>1. visited' = Range(order')
    <3>1. ASSUME NEW x \in visited' PROVE \E i \in 1 .. Len(w) : w[i] = x
      <4>1. CASE x \in visited
        <5>1. PICK i \in 1 .. Len(order) : order[i] = x
          BY <1>15, <4>1
        <5>2. CASE i <= it
          BY <1>6, <1>11, <1>12, <5>1, <5>2
        <5>3. CASE i > it
          <6>1. i \in it + 1 .. Len(order) /\ L + i \in 1 .. Len(w)
            BY <1>6, <1>11, <1>12, <5>3
          <6>2. w[L + i] = x
            BY <1>11, <5>1, <6>1
          <6>3. QED
            BY <6>1, <6>2
        <5>4. QED
          BY <1>12, <5>2, <5>3
      <4>2. CASE x \in Range(u)
        <5>1. PICK i \in 1 .. L : r[i] = x
          BY <1>7, <4>2
        <5>2. it + i \in 1 .. Len(w)
          BY <1>6, <1>11, <1>12
        <5>3. QED
          BY <1>11, <5>1, <5>2
      <4>3. QED
        BY <1>26, <4>1, <4>2
    <3>2. \A x : x \in Range(w) <=> \E i \in 1 .. Len(w) : w[i] = x
      BY <1>10, RangeSeq
    <3>3. \A x : x \in Range(w) <=> x \in visited'
      BY <1>23, <1>26, <3>1, <3>2
    <3>4. QED
      BY <1>1, <3>3
  <2>2. ASSUME NEW i \in 1 .. Len(w), NEW j \in 1 .. Len(w), w[i] = w[j] PROVE i = j
    <3>1. CASE w[i] \in visited
      <4>1. PICK n \in 1 .. Len(order) : order[n] = w[i] /\ \/ n <= it /\ i = n
                                                            \/ n > it /\ i = L + n
        BY <1>22, <3>1
      <4>2. PICK m \in 1 .. Len(order) : order[m] = w[i] /\ \/ m <= it /\ j = m
                                                            \/ m > it /\ j = L + m
        BY <1>22, <2>2, <3>1
      <4>3. n = m
        BY <1>13, <4>1, <4>2
      <4>4. QED
        BY <1>12, <4>1, <4>2, <4>3
    <3>2. CASE w[i] \in Range(u)
      <4>1. j - it \in 1 .. L /\ it + (j - it) = j /\ i - it \in 1 .. L /\ it + (i - it) = i
        BY <1>21, <2>2, <3>2
      <4>2. r[i - it] = r[j - it]
        BY <1>11, <2>2, <4>1
      <4>3. i - it = j - it
        BY <1>8, <4>1, <4>2
      <4>4. QED
        BY <1>12, <4>3
    <3>3. QED
      BY <1>23, <3>1, <3>2
  <2>3. ASSUME NEW b \in visited' \cup Made' PROVE To(b) \subseteq visited' \cup Made'
    <3>1. b \in visited \cup Made
      BY <1>5, <1>16, <1>26
    <3>2. QED
      BY <1>13, <1>16, <1>26, <3>1
  <2>4. ASSUME NEW i \in 1 .. Len(w), i # it + 1 PROVE To(w[i]) \subseteq visited'
    <3>1. CASE w[i] \in visited
      <4>1. PICK n \in 1 .. Len(order) : order[n] = w[i]
        BY <1>22, <3>1
      <4>2. CASE n = it
        BY <1>4, <1>5, <1>26, <4>1, <4>2
      <4>3. CASE n # it
        BY <1>13, <1>26, <4>1, <4>3
      <4>4. QED
        BY <4>2, <4>3
    <3>2. CASE w[i] \in Range(u)
      <4>1. i - it \in 1 .. L /\ it + (i - it) = i
        BY <1>21, <3>2
      <4>2. ~propagates[w[i]]
        <5> SUFFICES ASSUME propagates[w[i]] PROVE FALSE
          OBVIOUS
        <5>1. 1 \in 1 .. L /\ r[1] = w[i]
          BY <1>9, <3>2
        <5>2. r[i - it] = w[i]
          BY <1>11, <4>1
        <5>3. i - it = 1
          BY <1>8, <4>1, <5>1, <5>2
        <5>4. QED
          BY <1>12, <2>4, <5>3
      <4>3. QED
        BY <1>5, <1>26, <3>2, <4>2
    <3>3. QED
      BY <1>23, <3>1, <3>2
  <2>5. QED
    BY <1>1, <1>2, <2>1, <2>2, <2>3, <2>4 DEF Closed
<1>32. Emptied' /\ InsertsOK' /\ Discovery'
  <2>1. ASSUME NEW b \in Made' \cup (IF at' = "begin" THEN {Fg'} ELSE {}), Range(succ[b]) \cap Made' # {}
        PROVE  body[b] = <<>>
    <3>1. Made # {} /\ Range(succ[b]) \cap Made # {}
      BY <1>16, <2>1
    <3>2. L > 0
      BY <1>5, <3>1
    <3>3. Fg' \in Made
      <4>1. 1 \in 1 .. L
        BY <1>6, <3>2
      <4>2. QED
        BY <1>5, <1>7, <1>11, <1>19, <4>1
    <3>4. b \in Made
      BY <1>16, <2>1, <3>3
    <3>5. QED
      BY <3>1, <3>4 DEF IInv, Emptied
  <2>2. Emptied'
    BY <1>2, <1>18, <2>1 DEF Emptied
  <2>3. QED
    BY <1>18, <2>2 DEF InsertsOK, Discovery
<1>33. Forward'
  <2>1. /\ \A i \in 1 .. Len(order) : propagates[order[i]] =>
             \A t \in Range(succ[order[i]]) : depth[t] > 0 => After(t, i)
        /\ \A b \in Made : propagates[b] => \A t \in Range(succ[b]) : depth[t] > 0 => After(t, it)
    BY <1>4 DEF IInv, Forward
  <2>2. ASSUME NEW i \in 1 .. Len(w), propagates[w[i]], NEW t \in Range(succ[w[i]]), depth[t] > 0,
               NEW j \in 1 .. Len(w), w[j] = t
        PROVE  j > i
    <3>1. CASE w[i] \in visited
      <4>1. PICK n \in 1 .. Len(order) : order[n] = w[i] /\ \/ n <= it /\ i = n
                                                            \/ n > it /\ i = L + n
        BY <1>22, <3>1
      <4>2. After(t, n)
        BY <2>1, <2>2, <4>1
      <4>3. CASE t \in visited
        <5>1. PICK m \in 1 .. Len(order) : order[m] = t /\ \/ m <= it /\ j = m
                                                           \/ m > it /\ j = L + m
          BY <1>22, <2>2, <4>3
        <5>2. m > n
          BY <4>2, <4>3, <5>1 DEF After
        <5>3. QED
          BY <1>6, <1>12, <4>1, <5>1, <5>2
      <4>4. CASE t \in Range(u)
        <5>1. j - it \in 1 .. L
          BY <1>21, <2>2, <4>4
        <5>2. n = it
          <6>1. t \in To(order[n]) /\ t \notin visited
            BY <1>5, <2>2, <4>1, <4>4 DEF To
          <6>2. QED
            BY <1>13, <6>1
        <5>3. QED
          BY <1>12, <4>1, <5>1, <5>2
      <4>5. QED
        BY <1>23, <2>2, <4>3, <4>4
    <3>2. CASE w[i] \in Range(u)
      <4>1. w[i] \in Made /\ After(t, it)
        BY <1>5, <2>1, <2>2, <3>2
      <4>2. w[i] = r[1] /\ 1 \in 1 .. L
        BY <1>9, <2>2, <3>2
      <4>3. i - it \in 1 .. L /\ it + (i - it) = i /\ r[i - it] = w[i]
        BY <1>11, <1>21, <3>2
      <4>4. i - it = 1
        BY <1>8, <4>2, <4>3
      <4>5. t \notin Range(u)
        BY <1>5, <2>2, <4>1
      <4>6. t \in visited
        BY <1>23, <2>2, <4>5
      <4>7. PICK m \in 1 .. Len(order) : order[m] = t /\ \/ m <= it /\ j = m
                                                         \/ m > it /\ j = L + m
        BY <1>22, <2>2, <4>6
      <4>8. m > it
        BY <4>1, <4>6, <4>7 DEF After
      <4>9. L >= 1
        BY <1>6, <4>2
      <4>10. QED
        BY <1>6, <1>12, <4>4, <4>7, <4>8, <4>9
    <3>3. QED
      BY <1>23, <3>1, <3>2
  <2>3. ASSUME NEW b \in Made', propagates[b], NEW t \in Range(succ[b]), depth[t] > 0,
               NEW j \in 1 .. Len(w), w[j] = t
        PROVE  j > it + 1
    <3>1. b \in Made /\ After(t, it) /\ L > 0
      BY <1>5, <1>16, <2>1, <2>3
    <3>2. t \in visited
      BY <1>5, <1>23, <2>3, <3>1
    <3>3. PICK m \in 1 .. Len(order) : order[m] = t /\ \/ m <= it /\ j = m
                                                       \/ m > it /\ j = L + m
      BY <1>22, <2>3, <3>2
    <3>4. m > it
      BY <3>1, <3>2, <3>3 DEF After
    <3>5. QED
      BY <1>6, <1>12, <3>1, <3>3, <3>4
  <2>4. QED
    BY <1>1, <1>2, <2>2, <2>3 DEF Forward, After
<1>34. Depths' /\ Stacks' /\ Phis'
  BY <1>2, PhisSame DEF IInv, Depths, Stacks
<1>35. Tracks'
  <2>1. rstack' = <<>>
    BY <1>1 DEF IInv, Tracks
  <2>2. QED
    BY <1>18, <2>1, FirstStacks DEF Tracks
<1>36. Pending'
  <2> SUFFICES ASSUME NEW t \in Blocks, Awaits(t)', depth[t] > 0, stack[t] = NoStack
               PROVE  Served(t)'
    BY <1>2 DEF Pending
  <2>1. Awaits(t)
    <3>1. CASE t \in Made'
      BY <1>16, <3>1 DEF Awaits
    <3>2. CASE t \notin Made'
      <4>1. PICK j \in 1 .. Len(w) : t = w[j] /\ j > it
        BY <1>1, <1>12, <3>2 DEF Awaits
      <4>2. CASE t \in Range(u)
        BY <1>5, <4>2 DEF Awaits
      <4>3. CASE t \in visited
        <5>1. PICK n \in 1 .. Len(order) : order[n] = t /\ \/ n <= it /\ j = n
                                                           \/ n > it /\ j = L + n
          BY <1>22, <4>1, <4>3
        <5>2. n > it
          BY <1>12, <4>1, <5>1
        <5>3. QED
          BY <5>1, <5>2 DEF Awaits
      <4>4. QED
        BY <1>23, <4>1, <4>2, <4>3
    <3>3. QED
      BY <3>1, <3>2
  <2>2. Served(t)
    BY <1>4, <2>1 DEF IInv, Pending
  <2>3. ~Fed(t)
    BY <1>1 DEF Fed
  <2>4. ASSUME NEW p, p = Fg', at' = "begin", propagates[p], t \in Range(succ[p]) PROVE Served(t)'
    <3>1. Fed(t)'
      BY <1>2, <2>4 DEF Fed
    <3>2. QED
      BY <3>1 DEF Served
  <2>5. CASE \E p \in Made : propagates[p] /\ t \in Range(succ[p])
    <3>1. PICK p \in Made : propagates[p] /\ t \in Range(succ[p])
      BY <2>5
    <3>2. CASE p \in Range(u)
      BY <1>20, <2>4, <3>1, <3>2
    <3>3. CASE p \notin Range(u)
      BY <1>2, <1>16, <3>1, <3>3 DEF Served
    <3>4. QED
      BY <3>2, <3>3
  <2>6. CASE \E i, j \in 1 .. Len(order) :
               it < i /\ i < j /\ order[j] = t /\ propagates[order[i]] /\ t \in Range(succ[order[i]])
    <3>1. PICK i \in 1 .. Len(order), j \in 1 .. Len(order) :
               it < i /\ i < j /\ order[j] = t /\ propagates[order[i]] /\ t \in Range(succ[order[i]])
      BY <2>6
    <3>2. i \in it + 1 .. Len(order) /\ j \in it + 1 .. Len(order) /\ L + i \in 1 .. Len(w) /\ L + j \in 1 .. Len(w)
          /\ L + i < L + j
      BY <1>6, <1>11, <1>12, <3>1
    <3>3. w[L + i] = order[i] /\ w[L + j] = order[j]
      BY <1>11, <3>2
    <3>4. CASE L + i = it + 1
      <4>1. it < Len(w) /\ order[i] = Fg'
        BY <1>12, <1>19, <3>2, <3>3, <3>4
      <4>2. QED
        BY <1>17, <2>4, <3>1, <4>1
    <3>5. CASE L + i # it + 1
      <4>1. it + 1 < L + i
        BY <1>6, <1>12, <3>1, <3>5
      <4>2. QED
        BY <1>1, <1>2, <3>1, <3>2, <3>3, <4>1 DEF Served
    <3>6. QED
      BY <3>4, <3>5
  <2>7. QED
    BY <2>2, <2>3, <2>5, <2>6 DEF Served
<1>37. QED
  BY <1>24, <1>25, <1>27, <1>28, <1>29, <1>30, <1>31, <1>32, <1>33, <1>34, <1>35, <1>36 DEF IInv

-----------------------------------------------------------------------------
(* Splits of the block being read. *)

\* The list s is c, last, and the point blocks P, each once.
ToNew(s, c, P) ==
  /\ s \in Seq({c} \cup P) /\ Len(s) \in 1 .. 2 /\ Range(s) = {c} \cup P
  /\ \A i, j \in 1 .. Len(s) : s[i] = s[j] => i = j
  /\ \A i \in 1 .. Len(s) : s[i] = c => i = Len(s)

\* What a split does: c continues the block inserted into, which goes to c, last, and to
\* the point blocks P.
SplitOff(c, P) ==
  /\ at = "read" /\ k > 1 /\ c = NewBlock /\ (P = {} \/ P = {c + 1})
  /\ DOMAIN succ' = Blocks \cup {c} \cup P /\ DOMAIN nominal' = Blocks \cup {c} \cup P
  /\ DOMAIN propagates' = Blocks \cup {c} \cup P /\ DOMAIN stack' = Blocks \cup {c} \cup P
  /\ DOMAIN phis' = Blocks \cup {c} \cup P /\ DOMAIN body' = Blocks \cup {c} \cup P
  /\ DOMAIN depth' = Blocks \cup {c} \cup P /\ DOMAIN left' = Blocks \cup {c} \cup P
  /\ \A b \in Blocks \ {ins} : succ'[b] = succ[b]
  /\ succ'[c] = succ[ins]
  /\ ToNew(succ'[ins], c, P)
  /\ \A q \in P : succ'[q] \in Seq({c}) /\ Len(succ'[q]) <= 1
  /\ \A b \in Blocks : b # Fg /\ b # ins => body'[b] = body[b]
  /\ body'[Fg] = SubSeq(body[Fg], 1, k - 1)
  /\ body'[c] = IF ins = Fg THEN SubSeq(body[Fg], k, Len(body[Fg])) ELSE body[ins]
  /\ ins # Fg => body'[ins] = <<>>
  /\ \A q \in P : body'[q] = <<>>
  /\ \A b \in Blocks : /\ depth'[b] = depth[b] /\ propagates'[b] = propagates[b] /\ nominal'[b] = nominal[b]
                       /\ stack'[b] = stack[b]
                       /\ phis'[b] = [i \in 1 .. Len(phis[b]) |-> Renamed(phis[b][i], ins, c)]
  /\ depth'[c] = depth[Fg] + NetOf(SubSeq(body[Fg], 1, k - 1))
  /\ \A q \in P : depth'[q] = 0 /\ propagates'[q] = FALSE
  /\ propagates'[c] = propagates[ins]
  /\ \A b \in {c} \cup P : nominal'[b] = nominal[ins] /\ stack'[b] = NoStack /\ phis'[b] = <<>>
  /\ ins' = c
  /\ UNCHANGED <<visited, worklist, order, it, at, k, edge, rstack, fresh>>

(* Split, for the successors it is called with. *)
LEMMA SplitIs ==
  ASSUME IInv, at = "read", k > 1, NEW c, NEW P, NEW T, c = NewBlock, P = {} \/ P = {c + 1}, Split(c, T),
         DOMAIN T = {ins} \cup P, ToNew(T[ins], c, P),
         \A q \in P : T[q] \in Seq({c}) /\ Len(T[q]) <= 1
  PROVE  SplitOff(c, P)
<1> DEFINE all == Blocks \cup {c} \cup DOMAIN T
           new == all \ Blocks
           points == new \ {c}
           B1 == SubSeq(body[Fg], k, Len(body[Fg]))
           B2 == SubSeq(body[Fg], 1, k - 1)
           D == depth[Fg] + NetOf(B2)
           R(b) == [i \in 1 .. Len(phis[b]) |-> Renamed(phis[b][i], ins, c)]
           V1(b) == CASE b \in DOMAIN T -> T[b] [] b = c -> succ[ins] [] OTHER -> succ[b]
           V2(b) == CASE b = c    -> IF ins = Fg THEN B1 ELSE body[ins]
                      [] b = Fg   -> B2
                      [] b \in points \cup ({ins} \ {Fg}) -> <<>>
                      [] OTHER    -> body[b]
           V3(b) == CASE b = c -> D [] b \in points -> 0 [] OTHER -> depth[b]
           V4(b) == CASE b = c -> propagates[ins] [] b \in points -> FALSE [] OTHER -> propagates[b]
           V5(b) == nominal[IF b \in new THEN ins ELSE b]
           V6(b) == IF b \in new THEN NoStack ELSE stack[b]
           V7(b) == IF b \in new THEN <<>> ELSE left[b]
           V8(b) == IF b \in new THEN <<>> ELSE R(b)
<1>1. at \in Reading
  BY DEF Reading
<1>2. Fg \in Blocks /\ ins \in Blocks
  BY <1>1, FgFacts DEF IInv, WalkOK
<1>3. /\ \A b \in Blocks : b \in Nat /\ b < c /\ b # c /\ b \notin P
      /\ c \in Nat /\ c \notin P
  <2>1. NewBlock \in Nat /\ \A b \in Blocks : b \in Nat /\ b < NewBlock
    BY BlocksFacts DEF IInv
  <2>2. QED
    BY <2>1
<1>4. all = Blocks \cup {c} \cup P /\ new = {c} \cup P
  BY <1>2, <1>3
<1>5. /\ succ' = [b \in all |-> V1(b)] /\ body' = [b \in all |-> V2(b)]
      /\ depth' = [b \in all |-> V3(b)] /\ propagates' = [b \in all |-> V4(b)]
      /\ nominal' = [b \in all |-> V5(b)] /\ stack' = [b \in all |-> V6(b)]
      /\ left' = [b \in all |-> V7(b)] /\ phis' = [b \in all |-> V8(b)]
      /\ ins' = c
      /\ UNCHANGED <<visited, worklist, order, it, at, k, edge, rstack, fresh>>
  BY Zenon DEF Split
<1> HIDE DEF all, new, points, B1, B2, D, R, V1, V2, V3, V4, V5, V6, V7, V8
<1>6. /\ DOMAIN succ' = all /\ DOMAIN nominal' = all /\ DOMAIN propagates' = all /\ DOMAIN stack' = all
      /\ DOMAIN phis' = all /\ DOMAIN body' = all /\ DOMAIN depth' = all /\ DOMAIN left' = all
  BY <1>5
<1>7. /\ ins \in all /\ c \in all /\ P \subseteq all /\ Blocks \subseteq all /\ c \in new /\ P \subseteq new
      /\ \A b \in Blocks : b \notin new
      /\ c \notin DOMAIN T /\ points = P /\ c \notin points /\ c # Fg /\ c # ins /\ Fg \notin points
  BY <1>2, <1>3, <1>4 DEF points
<1>8. \A b \in all : /\ b \in DOMAIN T => succ'[b] = T[b]
                     /\ b \notin DOMAIN T /\ b = c => succ'[b] = succ[ins]
                     /\ b \notin DOMAIN T /\ b # c => succ'[b] = succ[b]
  <2>1. \A b \in all : succ'[b] = V1(b)
    BY <1>5
  <2>2. QED
    BY <1>7, <2>1 DEF V1
<1>9. \A b \in all : /\ b = c /\ ins = Fg => body'[b] = B1
                     /\ b = c /\ ins # Fg => body'[b] = body[ins]
                     /\ b # c /\ b = Fg => body'[b] = B2
                     /\ b # c /\ b # Fg /\ b \in points \cup ({ins} \ {Fg}) => body'[b] = <<>>
                     /\ b # c /\ b # Fg /\ b \notin points \cup ({ins} \ {Fg}) => body'[b] = body[b]
  <2>1. \A b \in all : body'[b] = V2(b)
    BY <1>5
  <2>2. QED
    BY <1>7, <2>1 DEF V2
<1>10. \A b \in all : /\ b = c => depth'[b] = D
                      /\ b # c /\ b \in points => depth'[b] = 0
                      /\ b # c /\ b \notin points => depth'[b] = depth[b]
  <2>1. \A b \in all : depth'[b] = V3(b)
    BY <1>5
  <2>2. QED
    BY <1>7, <2>1 DEF V3
<1>11. \A b \in all : /\ b = c => propagates'[b] = propagates[ins]
                      /\ b # c /\ b \in points => propagates'[b] = FALSE
                      /\ b # c /\ b \notin points => propagates'[b] = propagates[b]
  <2>1. \A b \in all : propagates'[b] = V4(b)
    BY <1>5
  <2>2. QED
    BY <1>7, <2>1 DEF V4
<1>12. \A b \in all : /\ b \in new => nominal'[b] = nominal[ins] /\ stack'[b] = NoStack /\ phis'[b] = <<>>
                      /\ b \notin new => nominal'[b] = nominal[b] /\ stack'[b] = stack[b]
  <2>1. \A b \in all : nominal'[b] = V5(b) /\ stack'[b] = V6(b) /\ phis'[b] = V8(b)
    BY <1>5
  <2>2. QED
    BY <2>1 DEF V5, V6, V8
<1>13. \A b \in all : b \notin new => phis'[b] = R(b)
  <2>1. \A b \in all : phis'[b] = V8(b)
    BY <1>5
  <2>2. QED
    BY <2>1 DEF V8
<1>14. /\ \A b \in Blocks \ {ins} : succ'[b] = succ[b]
       /\ succ'[c] = succ[ins] /\ succ'[ins] = T[ins]
       /\ \A q \in P : succ'[q] = T[q]
  <2> QED
    BY <1>2, <1>3, <1>7, <1>8
<1>15. /\ \A b \in Blocks : b # Fg /\ b # ins => body'[b] = body[b]
       /\ body'[Fg] = SubSeq(body[Fg], 1, k - 1)
       /\ body'[c] = IF ins = Fg THEN SubSeq(body[Fg], k, Len(body[Fg])) ELSE body[ins]
       /\ ins # Fg => body'[ins] = <<>>
       /\ \A q \in P : body'[q] = <<>>
  <2>1. \A b \in Blocks : b # Fg /\ b # ins => b \in all /\ b # c /\ b \notin points \cup ({ins} \ {Fg})
    BY <1>3, <1>7
  <2>2. Fg \in all /\ Fg # c /\ ins # c
    BY <1>2, <1>3, <1>7
  <2>3. \A q \in P : q \in all /\ q # c /\ q # Fg /\ q \in points \cup ({ins} \ {Fg})
    BY <1>2, <1>3, <1>7
  <2>4. QED
    BY <1>7, <1>9, <2>1, <2>2, <2>3 DEF B1, B2
<1>16. /\ \A b \in Blocks : /\ depth'[b] = depth[b] /\ propagates'[b] = propagates[b] /\ nominal'[b] = nominal[b]
                            /\ stack'[b] = stack[b]
                            /\ phis'[b] = [i \in 1 .. Len(phis[b]) |-> Renamed(phis[b][i], ins, c)]
       /\ depth'[c] = depth[Fg] + NetOf(SubSeq(body[Fg], 1, k - 1))
       /\ \A q \in P : depth'[q] = 0 /\ propagates'[q] = FALSE
       /\ propagates'[c] = propagates[ins]
       /\ \A b \in {c} \cup P : nominal'[b] = nominal[ins] /\ stack'[b] = NoStack /\ phis'[b] = <<>>
  <2>1. \A b \in Blocks : b \in all /\ b # c /\ b \notin new /\ b \notin points
    BY <1>3, <1>7
  <2>2. \A q \in P : q \in all /\ q # c /\ q \in new /\ q \in points
    BY <1>3, <1>7
  <2>3. \A b \in {c} \cup P : b \in all /\ b \in new
    BY <1>7
  <2>4. QED
    BY <1>7, <1>10, <1>11, <1>12, <1>13, <2>1, <2>2, <2>3, Zenon DEF D, B2, R
<1>17. /\ ToNew(succ'[ins], c, P)
       /\ \A q \in P : succ'[q] \in Seq({c}) /\ Len(succ'[q]) <= 1
  BY <1>14, Zenon
<1>18. QED
  BY <1>4, <1>5, <1>6, <1>14, <1>15, <1>16, <1>17, Zenon DEF SplitOff

(* A PHI node whose entries follow the terminator keeps its shape. *)
LEMMA RenamedIs ==
  ASSUME NEW phi, Shaped(phi), NEW b, NEW c
  PROVE  /\ Shaped(Renamed(phi, b, c))
         /\ Len(Renamed(phi, b, c).entries) = Len(phi.entries)
         /\ \A n \in 1 .. Len(phi.entries) :
              Renamed(phi, b, c).entries[n].block =
                IF phi.entries[n].block = b THEN c ELSE phi.entries[n].block
         /\ (\A n \in 1 .. Len(phi.entries) : phi.entries[n].block # b) => Renamed(phi, b, c) = phi
<1> DEFINE e == phi.entries
           B(n) == IF e[n].block = b THEN c ELSE e[n].block
           f == [n \in 1 .. Len(e) |-> Entry(B(n), e[n].value)]
           r == PHI(phi.src, phi.type, f)
<1>1. Renamed(phi, b, c) = r
  BY DEF Renamed
<1>2. Rows(e) /\ phi.src \in Nat \ {0} /\ phi = PHI(phi.src, phi.type, e)
  BY DEF Shaped
<1>3. Len(e) \in Nat /\ e = [n \in 1 .. Len(e) |-> e[n]] /\ \A n \in 1 .. Len(e) : e[n] = Entry(e[n].block, e[n].value)
  BY <1>2, IsSeqIs DEF Rows
<1>4. \A n \in 1 .. Len(e) : f[n] = Entry(B(n), e[n].value)
  <2> HIDE DEF e, B
  <2> QED
    OBVIOUS
<1>5. f = [n \in 1 .. Len(e) |-> f[n]]
  <2> HIDE DEF e, B
  <2> QED
    OBVIOUS
<1> HIDE DEF f
<1>6. IsSeq(f) /\ Len(f) = Len(e)
  <2> HIDE DEF e
  <2> QED
    BY <1>3, <1>5, IsSeqFcn
<1>7. \A n \in 1 .. Len(e) : f[n].block = B(n) /\ f[n].value = e[n].value
  <2> HIDE DEF e, B
  <2> QED
    BY <1>4, Fields
<1>8. Rows(f)
  <2> HIDE DEF e, B
  <2> QED
    BY <1>4, <1>6, <1>7 DEF Rows
<1>9. r.src = phi.src /\ r.type = phi.type /\ r.entries = f
  BY Fields
<1>10. Shaped(r)
  <2>1. r = PHI(r.src, r.type, r.entries)
    BY <1>9, Zenon
  <2> HIDE DEF r
  <2>2. QED
    BY <1>2, <1>8, <1>9, <2>1 DEF Shaped
<1>11. ASSUME \A n \in 1 .. Len(e) : e[n].block # b PROVE r = phi
  <2>1. \A n \in 1 .. Len(e) : f[n] = e[n]
    <3>1. \A n \in 1 .. Len(e) : B(n) = e[n].block
      BY <1>11
    <3> HIDE DEF e, B
    <3>2. QED
      BY <1>3, <1>4, <3>1
  <2>2. f = e
    <3> HIDE DEF e
    <3> QED
      BY <1>3, <1>5, <2>1
  <2>3. QED
    BY <1>2, <2>2, Zenon
<1> HIDE DEF r
<1>12. QED
  BY <1>1, <1>6, <1>7, <1>9, <1>10, <1>11

(* A split keeps the invariant. *)
LEMMA SplitStep ==
  ASSUME IInv, NEW c, NEW P, SplitOff(c, P)
  PROVE  IInv'
<1> DEFINE S == succ'
           new == {c} \cup P
           code == body[Fg]
           mine == SubSeq(code, 1, k - 1)
           rest == SubSeq(code, k, Len(code))
<1>1. at \in Reading /\ at # "discover" /\ at' = at /\ at = "read" /\ k' = k /\ k > 1 /\ visited' = visited
      /\ order' = order /\ it' = it /\ worklist' = worklist /\ edge' = edge /\ rstack' = rstack /\ fresh' = fresh
      /\ ins' = c /\ Fg' = Fg
  BY DEF SplitOff, Reading, Fg
<1>2. /\ it \in 1 .. Len(order) /\ order \in Seq(visited) /\ Fg \in visited /\ Fg \in Blocks /\ Fg = order[it]
      /\ Fg \notin Made /\ visited \subseteq Blocks
      /\ code \in Seq(Instr) /\ Len(code) \in Nat /\ depth[Fg] \in Nat
  BY <1>1, FgFacts DEF Fg
<1>3. /\ ins \in Blocks
      /\ ins # Fg => ins \in Made /\ k = Len(code) + 1 /\ depth[ins] = depth[Fg] + NetOf(code)
      /\ propagates[Fg] /\ propagates[ins] /\ Range(succ[ins]) \cap Made = {}
  BY <1>1 DEF IInv, InsertsOK, WalkOK
<1>4. /\ \A b \in Blocks : b \in Nat /\ b < c /\ b \notin new
      /\ c \in Nat /\ c > N /\ c \notin P /\ N \in Nat /\ Blocks = 1 .. c - 1
      /\ \A b \in new : b \in Nat /\ b >= c /\ b > N
      /\ P = {} \/ P = {c + 1}
  <2>1. /\ NewBlock \in Nat /\ NewBlock > N /\ N \in Nat /\ Blocks = 1 .. NewBlock - 1
        /\ \A b \in Blocks : b \in Nat /\ b < NewBlock
    BY BlocksFacts DEF IInv
  <2>2. c = NewBlock /\ (P = {} \/ P = {c + 1})
    BY DEF SplitOff
  <2>3. QED
    BY <2>1, <2>2
<1>5. Blocks' = Blocks \cup new
  BY DEF SplitOff, Blocks
<1>6. /\ \A b \in Blocks \ {ins} : S[b] = succ[b]
      /\ S[c] = succ[ins]
      /\ S[ins] \in Seq(new) /\ Len(S[ins]) \in 1 .. 2 /\ Range(S[ins]) = new
      /\ \A i, j \in 1 .. Len(S[ins]) : S[ins][i] = S[ins][j] => i = j
      /\ \A i \in 1 .. Len(S[ins]) : S[ins][i] = c => i = Len(S[ins])
      /\ \A q \in P : S[q] \in Seq({c}) /\ Len(S[q]) <= 1
  BY DEF SplitOff, ToNew
<1>7. /\ \A b \in Blocks : b # Fg /\ b # ins => body'[b] = body[b]
      /\ body'[Fg] = mine
      /\ ins = Fg => body'[c] = rest
      /\ ins # Fg => body'[c] = body[ins] /\ body'[ins] = <<>>
      /\ \A q \in P : body'[q] = <<>>
  BY DEF SplitOff
<1>8. /\ \A b \in Blocks : /\ depth'[b] = depth[b] /\ propagates'[b] = propagates[b] /\ nominal'[b] = nominal[b]
                           /\ stack'[b] = stack[b]
                           /\ phis'[b] = [i \in 1 .. Len(phis[b]) |-> Renamed(phis[b][i], ins, c)]
      /\ depth'[c] = depth[Fg] + NetOf(mine)
      /\ \A q \in P : depth'[q] = 0 /\ propagates'[q] = FALSE
      /\ propagates'[c] = propagates[ins]
      /\ \A b \in new : nominal'[b] = nominal[ins] /\ stack'[b] = NoStack /\ phis'[b] = <<>>
  BY Zenon DEF SplitOff
<1>9. /\ \A b \in Blocks : /\ succ[b] \in Seq(Blocks) /\ Len(succ[b]) <= 2 /\ nominal[b] \in Seq(1 .. N)
                           /\ propagates[b] \in BOOLEAN /\ body[b] \in Seq(Instr) /\ depth[b] \in Nat
                           /\ Range(succ[b]) \subseteq Blocks /\ Len(succ[b]) \in Nat
      /\ \A q \in P : Range(S[q]) \subseteq {c} /\ Len(S[q]) \in Nat
  BY <1>6, RangeSeq DEF IInv, GraphOK
<1>10. /\ mine \in Seq(Instr) /\ Len(mine) = k - 1 /\ NetOf(mine) \in Int
       /\ rest \in Seq(Instr) /\ NetOf(code) = NetOf(mine) + NetOf(rest) /\ NetOf(rest) \in Int
       /\ \A n \in 1 .. k - 1 : mine[n] = code[n] /\ SubSeq(mine, 1, n - 1) = SubSeq(code, 1, n - 1)
       /\ \A n \in 1 .. Len(rest) :
              /\ (k - 1) + n \in 1 .. Len(code) /\ rest[n] = code[(k - 1) + n]
              /\ NetOf(SubSeq(code, 1, ((k - 1) + n) - 1)) = NetOf(mine) + NetOf(SubSeq(rest, 1, n - 1))
              /\ NetOf(SubSeq(rest, 1, n - 1)) \in Int
  <2>1. k \in Nat /\ k <= Len(code) + 1
    BY <1>1 DEF IInv, Tracks, WalkOK
  <2> DEFINE j == k - 1
  <2>2. j \in 0 .. Len(code) /\ j + 1 = k
    BY <1>1, <1>2, <2>1
  <2>3. mine = SubSeq(code, 1, j) /\ rest = SubSeq(code, j + 1, Len(code))
    BY <2>2
  <2> HIDE DEF j, mine, rest, code
  <2>4. Parted(code, j, mine, rest)
    BY <1>2, <2>2, <2>3, NetSplit
  <2>5. QED
    BY <2>4 DEF j, Parted
<1>11. depth'[c] = Len(rstack) /\ depth'[c] \in Nat
  <2>1. Len(rstack) = depth[Fg] + NetOf(mine) /\ Sourced(rstack)
    BY <1>1 DEF IInv, Tracks
  <2>2. QED
    BY <1>8, <2>1, SourcedIs
<1>12. ins # Fg => mine = code /\ depth'[c] = depth[ins]
  <2> SUFFICES ASSUME ins # Fg PROVE mine = code /\ depth'[c] = depth[ins]
    OBVIOUS
  <2>1. k - 1 = Len(code)
    BY <1>2, <1>3
  <2>2. SubSeq(code, 1, Len(code)) = code
    BY <1>2, SubSeqFull
  <2>3. mine = code
    BY <2>1, <2>2
  <2>4. QED
    BY <1>3, <1>8, <2>3
<1>13. Made' = Made \cup new /\ \A b \in Made : b \in Blocks /\ b \notin visited
  <2>1. \A b \in new : b \notin visited /\ b > N
    BY <1>2, <1>4
  <2>2. QED
    BY <1>1, <1>5, <2>1 DEF Made
<1>14. ins \in Made \cup {Fg} /\ ins \in visited \cup Made
  BY <1>2, <1>3
<1> HIDE DEF mine, rest, code
<1>15. BlocksOK'
  <2>1. \E n \in Nat : n >= N /\ Blocks \cup new = 1 .. n
    <3>1. CASE P = {}
      <4>1. Blocks \cup new = 1 .. c
        BY <1>4, <3>1
      <4>2. QED
        BY <1>4, <4>1
    <3>2. CASE P = {c + 1}
      <4>1. Blocks \cup new = 1 .. c + 1
        BY <1>4, <3>2
      <4>2. QED
        BY <1>4, <4>1
    <3>3. QED
      BY <1>4, <3>1, <3>2
  <2>2. /\ DOMAIN nominal' = Blocks \cup new /\ DOMAIN propagates' = Blocks \cup new
        /\ DOMAIN stack' = Blocks \cup new /\ DOMAIN phis' = Blocks \cup new /\ DOMAIN body' = Blocks \cup new
        /\ DOMAIN depth' = Blocks \cup new /\ DOMAIN left' = Blocks \cup new
    BY DEF SplitOff
  <2> HIDE DEF new
  <2>3. QED
    BY <1>5, <2>1, <2>2 DEF BlocksOK
<1>16. GraphOK'
  <2>0. <<>> \in Seq(Instr)
    OBVIOUS
  <2>1. ASSUME NEW b \in Blocks \cup new
        PROVE  /\ S[b] \in Seq(Blocks \cup new) /\ Len(S[b]) <= 2
               /\ nominal'[b] \in Seq(1 .. N) /\ propagates'[b] \in BOOLEAN
               /\ body'[b] \in Seq(Instr) /\ depth'[b] \in Nat
               /\ b <= N => propagates'[b]
    <3>1. CASE b = c
      <4>1. S[b] \in Seq(Blocks \cup new) /\ Len(S[b]) <= 2
        BY <1>3, <1>6, <1>9, <3>1, SeqMonotonic
      <4>2. body'[b] \in Seq(Instr)
        BY <1>3, <1>7, <1>9, <1>10, <3>1
      <4>3. nominal'[b] \in Seq(1 .. N) /\ propagates'[b] \in BOOLEAN /\ propagates'[b]
        BY <1>3, <1>8, <1>9, <3>1
      <4>4. QED
        BY <1>11, <3>1, <4>1, <4>2, <4>3
    <3>2. CASE b \in P
      <4>1. S[b] \in Seq(Blocks \cup new) /\ Len(S[b]) <= 2
        <5>1. S[b] \in Seq({c}) /\ Len(S[b]) <= 1 /\ Len(S[b]) \in Nat
          BY <1>6, <1>9, <3>2
        <5>2. S[b] \in Seq(Blocks \cup new)
          BY <5>1, SeqMonotonic
        <5>3. QED
          BY <5>1, <5>2
      <4>2. body'[b] \in Seq(Instr)
        BY <1>7, <2>0, <3>2, Zenon
      <4>3. nominal'[b] \in Seq(1 .. N) /\ propagates'[b] \in BOOLEAN /\ depth'[b] \in Nat
        <5>1. nominal'[b] = nominal[ins] /\ propagates'[b] = FALSE /\ depth'[b] = 0
          BY <1>8, <3>2
        <5>2. nominal[ins] \in Seq(1 .. N) /\ 0 \in Nat /\ FALSE \in BOOLEAN
          BY <1>3, <1>9
        <5>3. QED
          BY <5>1, <5>2, Zenon
      <4>4. ~(b <= N)
        BY <1>4, <3>2
      <4>5. QED
        BY <4>1, <4>2, <4>3, <4>4
    <3>3. CASE b \in Blocks
      <4>1. S[b] \in Seq(Blocks \cup new) /\ Len(S[b]) <= 2
        <5>1. CASE b = ins
          <6>1. S[b] \in Seq(Blocks \cup new)
            BY <1>6, <5>1, SeqMonotonic
          <6>2. QED
            BY <1>6, <5>1, <6>1
        <5>2. CASE b # ins
          BY <1>6, <1>9, <3>3, <5>2, SeqMonotonic
        <5>3. QED
          BY <5>1, <5>2
      <4>2. body'[b] \in Seq(Instr)
        <5>1. CASE b = Fg
          BY <1>7, <1>10, <5>1
        <5>2. CASE b # Fg /\ b = ins
          BY <1>7, <2>0, <5>2, Zenon
        <5>3. CASE b # Fg /\ b # ins
          BY <1>7, <1>9, <3>3, <5>3
        <5>4. QED
          BY <5>1, <5>2, <5>3
      <4>3. /\ nominal'[b] \in Seq(1 .. N) /\ propagates'[b] \in BOOLEAN /\ depth'[b] \in Nat
            /\ b <= N => propagates'[b]
        BY <1>8, <1>9, <3>3 DEF IInv, GraphOK
      <4>4. QED
        BY <4>1, <4>2, <4>3
    <3>4. QED
      BY <3>1, <3>2, <3>3
  <2> HIDE DEF new
  <2>2. QED
    BY <1>5, <2>1 DEF GraphOK
<1>17. WalkOK'
  <2>1. visited \subseteq Blocks' /\ c \in Blocks'
    BY <1>2, <1>5
  <2>2. QED
    BY <1>1, <2>1 DEF IInv, WalkOK
<1>18. ASSUME NEW p \in Blocks', NEW i \in 1 .. Len(S[p]), NEW b \in Blocks, S[p][i] = b
       PROVE  \/ p = c /\ i \in 1 .. Len(succ[ins]) /\ succ[ins][i] = b
              \/ p \in Blocks \ {ins} /\ S[p] = succ[p]
  <2>1. CASE p = ins
    <3>1. b \in new
      BY <1>6, <1>18, <2>1
    <3>2. QED
      BY <1>4, <3>1
  <2>2. CASE p \in P
    <3>1. b \in {c}
      BY <1>6, <1>18, <2>2
    <3>2. QED
      BY <1>4, <3>1
  <2>3. CASE p = c
    BY <1>6, <1>18, <2>3
  <2>4. CASE p \in Blocks \ {ins}
    BY <1>6, <2>4
  <2>5. QED
    BY <1>5, <2>1, <2>2, <2>3, <2>4
<1>19. ASSUME NEW b \in Blocks, NEW p \in Blocks', NEW i, Brings(p, i, b)'
       PROVE  Brings(IF p = c THEN ins ELSE p, i, b) /\ p # ins
  <2>1. i \in 1 .. Len(S[p]) /\ S[p][i] = b /\ propagates'[p]
    BY <1>19 DEF Brings
  <2>2. CASE p = c /\ i \in 1 .. Len(succ[ins]) /\ succ[ins][i] = b
    BY <1>3, <1>4, <2>2 DEF Brings
  <2>3. CASE p \in Blocks \ {ins} /\ S[p] = succ[p]
    <3>1. p # c /\ propagates[p]
      BY <1>4, <1>8, <2>1, <2>3
    <3>2. QED
      BY <2>1, <2>3, <3>1 DEF Brings
  <2>4. QED
    BY <1>18, <2>1, <2>2, <2>3
<1>20. ASSUME NEW b \in Blocks, Multi(b)' PROVE Multi(b)
  <2>1. PICK p \in Blocks', q \in Blocks', i \in 1 .. 2, j \in 1 .. 2 :
          Brings(p, i, b)' /\ Brings(q, j, b)' /\ (p # q \/ i # j)
    BY <1>20 DEF Multi
  <2> DEFINE m(x) == IF x = c THEN ins ELSE x
  <2>2. Brings(m(p), i, b) /\ Brings(m(q), j, b) /\ p # ins /\ q # ins
    BY <1>19, <2>1
  <2>3. m(p) # m(q) \/ i # j
    BY <2>1, <2>2
  <2>4. m(p) \in Blocks /\ m(q) \in Blocks
    BY <2>2 DEF Brings
  <2> HIDE DEF m
  <2>5. QED
    BY <2>2, <2>3, <2>4 DEF Multi
<1>21. ASSUME NEW b \in new, NEW p \in Blocks', NEW i \in 1 .. Len(S[p]), S[p][i] = b
       PROVE  p = ins \/ (p \in P /\ b = c)
  <2>1. CASE p \in Blocks \ {ins}
    <3>1. succ[p] \in Seq(Blocks) /\ i \in 1 .. Len(succ[p]) /\ succ[p][i] = b
      BY <1>6, <1>9, <1>21, <2>1
    <3>2. b \in Blocks
      BY <3>1
    <3>3. QED
      BY <1>4, <3>2
  <2>2. CASE p = c
    <3>1. succ[ins] \in Seq(Blocks) /\ i \in 1 .. Len(succ[ins]) /\ succ[ins][i] = b
      BY <1>3, <1>6, <1>9, <1>21, <2>2
    <3>2. b \in Blocks
      BY <3>1
    <3>3. QED
      BY <1>4, <3>2
  <2>3. CASE p \in P
    BY <1>6, <1>21, <2>3
  <2>4. p \in Blocks \ {ins} \/ p = ins \/ p = c \/ p \in P
    BY <1>5
  <2>5. QED
    BY <2>1, <2>2, <2>3, <2>4
<1>22. ASSUME NEW b \in new PROVE ~Multi(b)'
  <2> SUFFICES ASSUME Multi(b)' PROVE FALSE
    OBVIOUS
  <2>1. PICK p \in Blocks', q \in Blocks', i \in 1 .. 2, j \in 1 .. 2 :
          Brings(p, i, b)' /\ Brings(q, j, b)' /\ (p # q \/ i # j)
    BY DEF Multi
  <2>2. i \in 1 .. Len(S[p]) /\ S[p][i] = b /\ propagates'[p] /\ j \in 1 .. Len(S[q]) /\ S[q][j] = b /\ propagates'[q]
    BY <2>1 DEF Brings
  <2>3. p = ins
    BY <1>8, <1>21, <2>2
  <2>4. q = ins
    BY <1>8, <1>21, <2>2
  <2>5. i = j
    BY <1>6, <2>2, <2>3, <2>4
  <2>6. QED
    BY <2>1, <2>3, <2>4, <2>5
<1>23. ASSUME NEW t, NEW p \in Blocks', t \in Range(S[p])
       PROVE  \/ p = c /\ t \in Range(succ[ins]) /\ t \in Blocks
              \/ p \in Blocks \ {ins} /\ S[p] = succ[p] /\ t \in Range(succ[p]) /\ t \in Blocks
              \/ p = ins /\ t \in new
              \/ p \in P /\ t = c
  <2>1. CASE p = ins
    BY <1>6, <1>23, <2>1
  <2>2. CASE p \in P
    BY <1>9, <1>23, <2>2
  <2>3. CASE p = c
    BY <1>3, <1>6, <1>9, <1>23, <2>3
  <2>4. CASE p \in Blocks \ {ins}
    BY <1>6, <1>9, <1>23, <2>4
  <2>5. p = ins \/ p \in P \/ p = c \/ p \in Blocks \ {ins}
    BY <1>5
  <2>6. QED
    BY <2>1, <2>2, <2>3, <2>4, <2>5
<1>24. NewOnce'
  <2>1. ASSUME NEW b \in Blocks', b > N PROVE ~Multi(b)'
    <3>1. CASE b \in Blocks
      BY <1>20, <2>1, <3>1 DEF IInv, NewOnce
    <3>2. CASE b \in new
      BY <1>22, <3>2
    <3>3. QED
      BY <1>5, <3>1, <3>2
  <2>2. ASSUME NEW p \in Blocks', NEW i \in 1 .. Len(S[p]), S[p][i] > N, propagates'[S[p][i]]
        PROVE  i = Len(S[p])
    <3>1. CASE p = ins
      <4>1. S[p][i] \in new
        BY <1>6, <3>1
      <4>2. S[p][i] = c
        <5>1. ASSUME S[p][i] \in P PROVE FALSE
          <6>1. propagates'[S[p][i]] = FALSE
            BY <1>8, <5>1
          <6>2. QED
            BY <2>2, <6>1
        <5>2. QED
          BY <4>1, <5>1
      <4>3. QED
        BY <1>6, <3>1, <4>2
    <3>2. CASE p \in P
      <4>1. Len(S[p]) <= 1 /\ Len(S[p]) \in Nat
        BY <1>6, <1>9, <3>2
      <4>2. QED
        BY <4>1
    <3>3. CASE p = c
      <4>1. S[p] = succ[ins] /\ succ[ins] \in Seq(Blocks)
        BY <1>3, <1>6, <1>9, <3>3
      <4>2. S[p][i] \in Blocks /\ S[p][i] = succ[ins][i] /\ i \in 1 .. Len(succ[ins])
        BY <4>1
      <4>3. propagates[succ[ins][i]] /\ succ[ins][i] > N
        BY <1>8, <2>2, <4>2
      <4>4. QED
        BY <1>3, <4>1, <4>2, <4>3 DEF IInv, NewOnce
    <3>4. CASE p \in Blocks \ {ins}
      <4>1. S[p] = succ[p] /\ succ[p] \in Seq(Blocks) /\ p \in Blocks
        BY <1>6, <1>9, <3>4
      <4>2. S[p][i] \in Blocks /\ S[p][i] = succ[p][i] /\ i \in 1 .. Len(succ[p])
        BY <4>1
      <4>3. propagates[succ[p][i]] /\ succ[p][i] > N
        BY <1>8, <2>2, <4>2
      <4>4. QED
        BY <4>1, <4>2, <4>3 DEF IInv, NewOnce
    <3>5. p = ins \/ p \in P \/ p = c \/ p \in Blocks \ {ins}
      BY <1>5
    <3>6. QED
      BY <3>1, <3>2, <3>3, <3>4, <3>5
  <2>3. QED
    BY <2>1, <2>2 DEF NewOnce
<1>25. PointBlocks'
  <2>1. ASSUME NEW b \in Blocks', ~propagates'[b]
        PROVE  /\ depth'[b] = 0 /\ body'[b] = <<>>
               /\ \A p \in Blocks' : b \in Range(S[p]) => Range(S[b]) \subseteq Range(S[p])
               /\ b \in visited => To(b)' \subseteq visited
    <3>1. CASE b \in P
      <4>1. b \notin visited /\ b \notin Blocks /\ b # c
        BY <1>2, <1>4, <3>1
      <4>2. ASSUME NEW p \in Blocks', b \in Range(S[p]) PROVE Range(S[b]) \subseteq Range(S[p])
        <5>1. p = ins
          BY <1>23, <4>1, <4>2
        <5>2. QED
          BY <1>6, <1>9, <3>1, <5>1
      <4>3. QED
        BY <1>7, <1>8, <3>1, <4>1, <4>2
    <3>2. CASE b = c
      BY <1>3, <1>8, <2>1, <3>2
    <3>3. CASE b \in Blocks
      <4>1. ~propagates[b]
        BY <1>8, <2>1, <3>3
      <4>2. b # Fg /\ b # ins /\ b \notin new
        BY <1>3, <1>4, <3>3, <4>1
      <4>3. /\ depth[b] = 0 /\ body[b] = <<>>
            /\ \A p \in Blocks : b \in Range(succ[p]) => Range(succ[b]) \subseteq Range(succ[p])
            /\ b \in visited => To(b) \subseteq visited
        BY <3>3, <4>1 DEF IInv, PointBlocks
      <4>4. S[b] = succ[b] /\ nominal'[b] = nominal[b] /\ depth'[b] = depth[b] /\ body'[b] = body[b]
        BY <1>6, <1>7, <1>8, <3>3, <4>2
      <4>5. To(b)' = To(b)
        BY <4>4 DEF To
      <4>6. ASSUME NEW p \in Blocks', b \in Range(S[p]) PROVE Range(S[b]) \subseteq Range(S[p])
        <5>1. CASE p = c /\ b \in Range(succ[ins])
          BY <1>3, <1>6, <4>3, <4>4, <5>1
        <5>2. CASE p \in Blocks \ {ins} /\ S[p] = succ[p] /\ b \in Range(succ[p])
          BY <4>3, <4>4, <5>2
        <5>3. ~(p = ins /\ b \in new) /\ ~(p \in P /\ b = c)
          BY <4>2
        <5>4. QED
          BY <1>23, <4>6, <5>1, <5>2, <5>3
      <4>7. QED
        BY <4>3, <4>4, <4>5, <4>6
    <3>4. QED
      BY <1>5, <3>1, <3>2, <3>3
  <2>2. QED
    BY <1>1, <2>1 DEF PointBlocks
<1>26. Chain'
  <2>1. ASSUME NEW b \in Made' PROVE \E p \in Made' \cup {Fg} :
                 propagates'[p] /\ b \in Range(S[p]) /\ (p = Fg \/ p < b)
    <3>1. CASE b \in new
      <4>1. b \in Nat /\ b >= c /\ ins \in Nat /\ ins < c /\ c \in Nat
        BY <1>3, <1>4, <3>1
      <4>2. ins < b
        BY <4>1
      <4>3. propagates'[ins] /\ b \in Range(S[ins])
        BY <1>3, <1>6, <1>8, <3>1
      <4>4. QED
        BY <1>13, <1>14, <4>2, <4>3
    <3>2. CASE b \in Made
      <4>1. PICK p \in Made \cup {Fg} : propagates[p] /\ b \in Range(succ[p]) /\ (p = Fg \/ p < b)
        BY <3>2 DEF IInv, Chain
      <4>2. p # ins /\ p \in Blocks
        BY <1>2, <1>3, <1>13, <3>2, <4>1
      <4>3. S[p] = succ[p] /\ propagates'[p]
        BY <1>6, <1>8, <4>1, <4>2
      <4>4. QED
        BY <1>13, <4>1, <4>3
    <3>3. QED
      BY <1>13, <3>1, <3>2
  <2>2. at' \in Reading
    BY <1>1
  <2>3. QED
    BY <1>1, <2>1, <2>2 DEF Chain
<1>27. \A b \in Blocks \ {ins} : To(b)' = To(b)
  BY <1>6, <1>8 DEF To
<1>28. \A i \in 1 .. Len(order) : order[i] \in visited /\ order[i] \in Blocks /\ (i # it => order[i] # ins)
  <2>1. ASSUME NEW i \in 1 .. Len(order), i # it PROVE order[i] # ins
    <3>1. order[i] \in visited /\ order[i] # Fg
      BY <1>1, <1>2, <2>1 DEF IInv, Closed
    <3>2. QED
      BY <1>3, <1>13, <3>1
  <2>2. QED
    BY <1>2, <2>1
<1>29. Closed'
  <2>1. /\ visited = Range(order)
        /\ \A i, j \in 1 .. Len(order) : order[i] = order[j] => i = j
        /\ \A b \in visited \cup Made : To(b) \subseteq visited \cup Made
        /\ \A i \in 1 .. Len(order) : i # it => To(order[i]) \subseteq visited
    BY <1>1 DEF IInv, Closed
  <2>2. ASSUME NEW b \in visited \cup Made' PROVE To(b)' \subseteq visited \cup Made'
    <3>1. nominal'[ins] = nominal[ins] /\ To(ins) \subseteq visited \cup Made
      BY <1>3, <1>8, <1>14, <2>1
    <3>2. CASE b \in P
      <4>1. To(b)' = Range(nominal[ins]) \cup Range(S[b]) /\ Range(S[b]) \subseteq {c}
        BY <1>8, <1>9, <3>2 DEF To
      <4>2. QED
        BY <1>13, <3>1, <4>1 DEF To
    <3>3. CASE b = c
      <4>1. To(b)' = Range(nominal[ins]) \cup Range(succ[ins])
        BY <1>6, <1>8, <3>3 DEF To
      <4>2. QED
        BY <1>13, <3>1, <4>1 DEF To
    <3>4. CASE b = ins
      <4>1. To(b)' = Range(nominal[ins]) \cup new
        BY <1>6, <3>1, <3>4 DEF To
      <4>2. QED
        BY <1>13, <3>1, <4>1 DEF To
    <3>5. CASE b \in Blocks \ {ins} /\ b \in visited \cup Made
      BY <1>13, <1>27, <2>1, <3>5
    <3>6. QED
      BY <1>2, <1>13, <3>2, <3>3, <3>4, <3>5
  <2>3. ASSUME NEW i \in 1 .. Len(order), i # it
        PROVE  Range(nominal'[order[i]]) \cup Range(S[order[i]]) \subseteq visited
    <3>1. order[i] \in Blocks \ {ins} /\ To(order[i]) \subseteq visited
      BY <1>28, <2>1, <2>3
    <3>2. nominal'[order[i]] = nominal[order[i]] /\ S[order[i]] = succ[order[i]]
      BY <1>6, <1>8, <3>1
    <3>3. QED
      BY <3>1, <3>2 DEF To
  <2>4. \A b \in visited \cup Made' : Range(nominal'[b]) \cup Range(S[b]) \subseteq visited \cup Made'
    BY <2>2 DEF To
  <2>5. QED
    BY <1>1, <2>1, <2>3, <2>4 DEF Closed, To
<1>30. Emptied'
  <2>1. ASSUME NEW b \in Made', Range(S[b]) \cap Made' # {} PROVE body'[b] = <<>>
    <3>1. CASE b \in P
      BY <1>7, <3>1
    <3>2. CASE b = c
      <4>1. Range(S[b]) \subseteq Blocks /\ Range(S[b]) \cap Made = {}
        BY <1>3, <1>6, <1>9, <3>2
      <4>2. QED
        BY <1>4, <1>13, <2>1, <4>1
    <3>3. CASE b \in Made /\ b = ins
      BY <1>2, <1>7, <3>3
    <3>4. CASE b \in Made /\ b # ins
      <4>1. b \in Blocks /\ S[b] = succ[b] /\ Range(succ[b]) \subseteq Blocks /\ b # Fg
        BY <1>2, <1>6, <1>9, <1>13, <3>4
      <4>2. Range(succ[b]) \cap Made # {}
        BY <1>4, <1>13, <2>1, <4>1
      <4>3. body[b] = <<>>
        BY <3>4, <4>2 DEF IInv, Emptied
      <4>4. QED
        BY <1>7, <3>4, <4>1, <4>3
    <3>5. QED
      BY <1>13, <3>1, <3>2, <3>3, <3>4
  <2>2. ~(at' = "begin" \/ (at' = "read" /\ k' = 1))
    BY <1>1
  <2>3. QED
    BY <2>1, <2>2 DEF Emptied
<1>31. InsertsOK'
  <2>1. c \in Made' /\ c # Fg
    BY <1>2, <1>4, <1>13
  <2>2. k = Len(body'[Fg]) + 1 /\ depth'[c] = depth'[Fg] + NetOf(body'[Fg])
    <3>1. k \in Nat
      BY DEF IInv, WalkOK
    <3>2. Len(body'[Fg]) = k - 1 /\ NetOf(body'[Fg]) = NetOf(mine)
      BY <1>7, <1>10
    <3>3. depth'[Fg] = depth[Fg] /\ depth'[c] = depth[Fg] + NetOf(mine)
      BY <1>2, <1>8
    <3>4. QED
      BY <3>1, <3>2, <3>3
  <2>3. propagates'[Fg] /\ propagates'[c]
    BY <1>2, <1>3, <1>8
  <2>4. Range(S[c]) \cap Made' = {}
    BY <1>3, <1>4, <1>6, <1>9, <1>13
  <2>5. k # 1
    BY <1>1
  <2>6. QED
    BY <1>1, <2>1, <2>2, <2>3, <2>4, <2>5 DEF InsertsOK
<1>32. Forward'
  <2>1. /\ \A i \in 1 .. Len(order) : propagates[order[i]] =>
             \A t \in Range(succ[order[i]]) : depth[t] > 0 => After(t, i)
        /\ \A b \in Made : propagates[b] => \A t \in Range(succ[b]) : depth[t] > 0 => After(t, it)
    BY <1>1 DEF IInv, Forward
  <2>2. \A t, i : After(t, i)' <=> After(t, i)
    BY <1>1 DEF After
  <2>3. \A t \in new : \A i : After(t, i)
    BY <1>2, <1>4 DEF After
  <2>4. ASSUME NEW i \in 1 .. Len(order), propagates'[order[i]], NEW t \in Range(S[order[i]]), depth'[t] > 0
        PROVE  After(t, i)
    <3>1. CASE order[i] = ins
      BY <1>6, <2>3, <3>1
    <3>2. CASE order[i] # ins
      <4>1. order[i] \in Blocks /\ S[order[i]] = succ[order[i]] /\ t \in Blocks /\ propagates[order[i]]
        BY <1>6, <1>8, <1>9, <1>28, <2>4, <3>2
      <4>2. depth[t] > 0
        BY <1>8, <2>4, <4>1
      <4>3. QED
        BY <2>1, <4>1, <4>2
    <3>3. QED
      BY <3>1, <3>2
  <2>5. ASSUME NEW b \in Made', propagates'[b], NEW t \in Range(S[b]), depth'[t] > 0
        PROVE  After(t, it)
    <3>1. CASE b = ins
      BY <1>6, <2>3, <3>1
    <3>2. CASE b \in P
      <4>1. propagates'[b] = FALSE
        BY <1>8, <3>2
      <4>2. QED
        BY <2>5, <4>1
    <3>3. CASE b = c
      <4>1. t \in Range(succ[ins]) /\ t \in Blocks
        BY <1>3, <1>6, <1>9, <3>3
      <4>2. depth[t] > 0
        BY <1>8, <2>5, <4>1
      <4>3. CASE ins = Fg
        BY <1>2, <1>3, <2>1, <4>1, <4>2, <4>3
      <4>4. CASE ins \in Made
        BY <1>3, <2>1, <4>1, <4>2, <4>4
      <4>5. QED
        BY <1>14, <4>3, <4>4
    <3>4. CASE b \in Made /\ b # ins
      <4>1. b \in Blocks /\ S[b] = succ[b] /\ t \in Blocks /\ propagates[b]
        BY <1>6, <1>8, <1>9, <1>13, <2>5, <3>4
      <4>2. depth[t] > 0
        BY <1>8, <2>5, <4>1
      <4>3. QED
        BY <2>1, <3>4, <4>1, <4>2
    <3>5. QED
      BY <1>13, <3>1, <3>2, <3>3, <3>4
  <2>6. QED
    BY <1>1, <2>2, <2>4, <2>5 DEF Forward
<1>33. Discovery'
  BY <1>1 DEF Discovery
<1>34. Depths'
  <2>1. \A b \in Blocks : propagates[b] =>
          /\ \A t \in Range(succ[b]) : propagates[t] => depth[t] = depth[b] + NetOf(body[b])
          /\ \A n \in 1 .. Len(body[b]) : body[b][n].pop => depth[b] + NetOf(SubSeq(body[b], 1, n - 1)) > 0
    BY DEF IInv, Depths
  <2>2. /\ \A t \in Range(succ[Fg]) : propagates[t] => depth[t] = depth[Fg] + NetOf(code)
        /\ \A n \in 1 .. Len(code) : code[n].pop => depth[Fg] + NetOf(SubSeq(code, 1, n - 1)) > 0
        /\ \A t \in Range(succ[ins]) : propagates[t] => depth[t] = depth[ins] + NetOf(body[ins])
        /\ \A n \in 1 .. Len(body[ins]) : body[ins][n].pop => depth[ins] + NetOf(SubSeq(body[ins], 1, n - 1)) > 0
    BY <1>2, <1>3, <2>1 DEF code
  <2>3. \A t \in Blocks : depth'[t] = depth[t] /\ (propagates'[t] <=> propagates[t])
    BY <1>8
  <2>4. ASSUME NEW t \in Range(S[c]), propagates'[t] PROVE depth'[t] = depth'[c] + NetOf(body'[c])
    <3>1. t \in Range(succ[ins]) /\ t \in Blocks /\ propagates[t] /\ depth'[t] = depth[t]
      BY <1>3, <1>6, <1>9, <2>3, <2>4
    <3>2. CASE ins = Fg
      <4>1. depth[t] = depth[Fg] + NetOf(code)
        BY <2>2, <3>1, <3>2
      <4>2. body'[c] = rest /\ depth'[c] = depth[Fg] + NetOf(mine)
        BY <1>7, <1>8, <3>2
      <4>3. NetOf(code) = NetOf(mine) + NetOf(rest) /\ NetOf(mine) \in Int /\ NetOf(rest) \in Int
        BY <1>10
      <4>4. depth[Fg] \in Nat
        BY <1>2
      <4>5. QED
        BY <3>1, <4>1, <4>2, <4>3, <4>4
    <3>3. CASE ins # Fg
      BY <1>7, <1>12, <2>2, <3>1, <3>3
    <3>4. QED
      BY <3>2, <3>3
  <2>5. ASSUME NEW n \in 1 .. Len(body'[c]), body'[c][n].pop
        PROVE  depth'[c] + NetOf(SubSeq(body'[c], 1, n - 1)) > 0
    <3>1. CASE ins = Fg
      <4>1. body'[c] = rest /\ depth'[c] = depth[Fg] + NetOf(mine)
        BY <1>7, <1>8, <3>1
      <4>2. n \in 1 .. Len(rest)
        BY <4>1
      <4>3. /\ (k - 1) + n \in 1 .. Len(code) /\ rest[n] = code[(k - 1) + n]
            /\ NetOf(SubSeq(code, 1, ((k - 1) + n) - 1)) = NetOf(mine) + NetOf(SubSeq(rest, 1, n - 1))
            /\ NetOf(SubSeq(rest, 1, n - 1)) \in Int /\ NetOf(mine) \in Int
        BY <1>10, <4>2
      <4>4. code[(k - 1) + n].pop
        BY <2>5, <4>1, <4>3
      <4>5. depth[Fg] + NetOf(SubSeq(code, 1, ((k - 1) + n) - 1)) > 0
        BY <2>2, <4>3, <4>4
      <4>6. depth[Fg] + (NetOf(mine) + NetOf(SubSeq(rest, 1, n - 1))) > 0
        BY <4>3, <4>5
      <4>7. (depth[Fg] + NetOf(mine)) + NetOf(SubSeq(rest, 1, n - 1)) > 0
        <5> DEFINE x == NetOf(SubSeq(rest, 1, n - 1))
                   y == NetOf(mine)
                   z == depth[Fg]
        <5>1. x \in Int /\ y \in Int /\ z \in Int /\ z + (y + x) > 0
          BY <1>2, <4>3, <4>6
        <5> HIDE DEF x, y, z
        <5>2. (z + y) + x > 0
          BY <5>1
        <5>3. QED
          BY <5>2 DEF x, y, z
      <4>8. QED
        BY <4>1, <4>7
    <3>2. CASE ins # Fg
      BY <1>7, <1>12, <2>2, <2>5, <3>2
    <3>3. QED
      BY <3>1, <3>2
  <2>6. ASSUME NEW t \in Range(S[ins]), propagates'[t] PROVE depth'[t] = depth'[ins] + NetOf(body'[ins])
    <3>1. t = c
      <4>1. t \in new
        BY <1>6
      <4>2. ASSUME t \in P PROVE FALSE
        <5>1. propagates'[t] = FALSE
          BY <1>8, <4>2
        <5>2. QED
          BY <2>6, <5>1
      <4>3. QED
        BY <4>1, <4>2
    <3>2. depth'[ins] = depth[ins] /\ depth[ins] \in Nat
      BY <1>3, <1>9, <2>3
    <3>3. CASE ins = Fg
      BY <1>7, <1>8, <3>1, <3>2, <3>3
    <3>4. CASE ins # Fg
      <4>1. NetOf(body'[ins]) = 0
        <5>1. <<>> \in Seq(Instr)
          OBVIOUS
        <5>2. NetOf(<<>>) = 0
          BY <5>1, NetFacts
        <5>3. QED
          BY <1>7, <3>4, <5>2
      <4>2. QED
        BY <1>12, <3>1, <3>2, <3>4, <4>1
    <3>5. QED
      BY <3>3, <3>4
  <2>7. ASSUME NEW n \in 1 .. Len(body'[Fg]), body'[Fg][n].pop
        PROVE  depth'[Fg] + NetOf(SubSeq(body'[Fg], 1, n - 1)) > 0
    <3>1. body'[Fg] = mine /\ depth'[Fg] = depth[Fg]
      BY <1>2, <1>7, <2>3
    <3>2. n \in 1 .. k - 1 /\ Len(mine) = k - 1
      BY <1>10, <3>1
    <3>3. mine[n] = code[n] /\ SubSeq(mine, 1, n - 1) = SubSeq(code, 1, n - 1)
      BY <1>10, <3>2
    <3>4. n \in 1 .. Len(code)
      <4>1. k \in Nat /\ k <= Len(code) + 1
        BY <1>1 DEF IInv, Tracks, WalkOK, code
      <4>2. QED
        BY <1>2, <3>2, <4>1
    <3>5. code[n].pop
      BY <2>7, <3>1, <3>3
    <3>6. depth[Fg] + NetOf(SubSeq(code, 1, n - 1)) > 0
      BY <2>2, <3>4, <3>5
    <3>7. QED
      BY <3>1, <3>3, <3>6
  <2>8. ASSUME NEW b \in Blocks', propagates'[b]
        PROVE  /\ \A t \in Range(S[b]) : propagates'[t] => depth'[t] = depth'[b] + NetOf(body'[b])
               /\ \A n \in 1 .. Len(body'[b]) : body'[b][n].pop => depth'[b] + NetOf(SubSeq(body'[b], 1, n - 1)) > 0
    <3>1. CASE b = c
      BY <2>4, <2>5, <3>1
    <3>2. CASE b \in P
      <4>1. propagates'[b] = FALSE
        BY <1>8, <3>2
      <4>2. QED
        BY <2>8, <4>1
    <3>3. CASE b = ins /\ ins = Fg
      BY <2>6, <2>7, <3>3
    <3>4. CASE b = ins /\ ins # Fg
      <4>1. Len(body'[b]) = 0
        BY <1>7, <3>4
      <4>2. ~(\E n \in 1 .. Len(body'[b]) : TRUE)
        BY <4>1
      <4>3. QED
        BY <2>6, <3>4, <4>2
    <3>5. CASE b \in Blocks /\ b # ins
      <4>1. body'[b] = body[b] /\ depth'[b] = depth[b] /\ propagates[b] /\ S[b] = succ[b]
        BY <1>6, <1>7, <1>12, <2>3, <2>8, <3>5 DEF code
      <4>2. ASSUME NEW t \in Range(S[b]), propagates'[t] PROVE depth'[t] = depth'[b] + NetOf(body'[b])
        <5>1. t \in Blocks /\ t \in Range(succ[b]) /\ propagates[t]
          BY <1>9, <2>3, <3>5, <4>1, <4>2
        <5>2. depth[t] = depth[b] + NetOf(body[b])
          BY <2>1, <3>5, <4>1, <5>1
        <5>3. QED
          BY <2>3, <4>1, <5>1, <5>2
      <4>3. QED
        BY <2>1, <3>5, <4>1, <4>2
    <3>6. QED
      BY <1>5, <3>1, <3>2, <3>3, <3>4, <3>5
  <2>9. QED
    BY <2>8 DEF Depths
<1>35. Stacks'
  <2>1. ASSUME NEW b \in Blocks', stack'[b] # NoStack PROVE Sourced(stack'[b]) /\ Len(stack'[b]) = depth'[b]
    BY <1>5, <1>8, <2>1 DEF IInv, Stacks
  <2>2. QED
    BY <2>1 DEF Stacks
<1>36. Tracks'
  <2>1. body'[Fg] = mine /\ depth'[Fg] = depth[Fg] /\ Len(mine) = k - 1 /\ k \in Nat
    BY <1>2, <1>7, <1>8, <1>10 DEF IInv, WalkOK
  <2>2. SubSeq(mine, 1, k - 1) = mine
    <3>1. SubSeq(mine, 1, Len(mine)) = mine
      BY <1>10, SubSeqFull
    <3>2. QED
      BY <2>1, <3>1
  <2>3. Sourced(rstack) /\ Len(rstack) = depth[Fg] + NetOf(mine)
    BY <1>1, <1>8, <1>11 DEF IInv, Tracks
  <2>4. k <= Len(body'[Fg]) + 1
    BY <2>1
  <2>5. Len(rstack) = depth'[Fg] + NetOf(SubSeq(body'[Fg], 1, k - 1))
    BY <2>1, <2>2, <2>3
  <2>6. at' = "read"
    BY <1>1
  <2>7. QED
    BY <1>1, <2>3, <2>4, <2>5, <2>6 DEF Tracks
<1>37. Pending'
  <2> SUFFICES ASSUME NEW t \in Blocks', Awaits(t)', depth'[t] > 0, stack'[t] = NoStack
               PROVE  Served(t)'
    BY DEF Pending
  <2>1. CASE t = c
    <3>1. c \in Range(S[ins]) /\ propagates'[ins]
      BY <1>3, <1>6, <1>8
    <3>2. CASE ins = Fg
      BY <1>1, <2>1, <3>1, <3>2 DEF Served, Fed
    <3>3. CASE ins \in Made
      BY <1>13, <2>1, <3>1, <3>3 DEF Served
    <3>4. QED
      BY <1>14, <3>2, <3>3
  <2>2. CASE t \in P
    <3>1. depth'[t] = 0
      BY <1>8, <2>2
    <3>2. ~(0 > 0)
      OBVIOUS
    <3>3. QED
      BY <3>1, <3>2
  <2>3. CASE t \in Blocks
    <3>1. Awaits(t)
      <4>1. t \notin new
        BY <1>4, <2>3
      <4>2. QED
        BY <1>1, <1>13, <4>1 DEF Awaits
    <3>2. depth[t] > 0 /\ stack[t] = NoStack
      BY <1>8, <2>3
    <3>3. Served(t)
      BY <1>1, <2>3, <3>1, <3>2 DEF IInv, Pending
    <3>4. ASSUME t \in Range(succ[ins]) PROVE Served(t)'
      <4>1. c \in Made' /\ propagates'[c] /\ t \in Range(S[c])
        BY <1>3, <1>6, <1>8, <1>13, <3>4
      <4>2. QED
        BY <4>1 DEF Served
    <3>5. CASE Fed(t)
      <4>1. t \in Range(succ[Fg]) /\ propagates[Fg]
        BY <1>1, <3>5 DEF Fed
      <4>2. CASE ins = Fg
        BY <3>4, <4>1, <4>2
      <4>3. CASE ins # Fg
        <5>1. S[Fg] = succ[Fg] /\ propagates'[Fg]
          BY <1>2, <1>6, <1>8, <4>1, <4>3
        <5>2. Fed(t)'
          BY <1>1, <4>1, <5>1 DEF Fed
        <5>3. QED
          BY <5>2 DEF Served
      <4>4. QED
        BY <4>2, <4>3
    <3>6. CASE \E p \in Made : propagates[p] /\ t \in Range(succ[p])
      <4>1. PICK p \in Made : propagates[p] /\ t \in Range(succ[p])
        BY <3>6
      <4>2. CASE p = ins
        BY <3>4, <4>1, <4>2
      <4>3. CASE p # ins
        <5>1. S[p] = succ[p] /\ propagates'[p] /\ p \in Made'
          BY <1>6, <1>8, <1>13, <4>1, <4>3
        <5>2. QED
          BY <4>1, <5>1 DEF Served
      <4>4. QED
        BY <4>2, <4>3
    <3>7. CASE \E i, j \in 1 .. Len(order) :
                 it < i /\ i < j /\ order[j] = t /\ propagates[order[i]] /\ t \in Range(succ[order[i]])
      <4>1. PICK i \in 1 .. Len(order), j \in 1 .. Len(order) :
                 it < i /\ i < j /\ order[j] = t /\ propagates[order[i]] /\ t \in Range(succ[order[i]])
        BY <3>7
      <4>2. i # it
        BY <1>2, <4>1
      <4>3. order[i] \in Blocks \ {ins}
        BY <1>28, <4>2
      <4>4. S[order[i]] = succ[order[i]] /\ propagates'[order[i]]
        BY <1>6, <1>8, <4>1, <4>3
      <4>5. QED
        BY <1>1, <4>1, <4>4 DEF Served
    <3>8. QED
      BY <3>3, <3>5, <3>6, <3>7 DEF Served
  <2>4. QED
    BY <1>5, <2>1, <2>2, <2>3
<1>38. Phis'
  <2> DEFINE Ent(phi, b) ==
               \A n \in 1 .. Len(phi.entries) :
                 phi.entries[n].block \in Blocks' /\ b \in Range(S[phi.entries[n].block])
  <2>1. ASSUME NEW b \in new
        PROVE  /\ IsSeq(phis'[b]) /\ Len(phis'[b]) = 0 /\ phis'[b] = <<>> /\ stack'[b] = NoStack
    <3>1. phis'[b] = <<>> /\ stack'[b] = NoStack
      BY <1>8
    <3>2. IsSeq(<<>>) /\ Len(<<>>) = 0
      BY FirstStacks DEF Sourced
    <3>3. QED
      BY <3>1, <3>2
  <2>2. ASSUME NEW b \in Blocks
        PROVE  /\ IsSeq(phis'[b]) /\ Len(phis'[b]) = Len(phis[b])
               /\ \A i \in 1 .. Len(phis[b]) : phis'[b][i] = Renamed(phis[b][i], ins, c)
    <3>1. IsSeq(phis[b])
      BY DEF IInv, Phis
    <3>2. Len(phis[b]) \in Nat
      BY <3>1, IsSeqIs
    <3> DEFINE R(i) == Renamed(phis[b][i], ins, c)
               f == [i \in 1 .. Len(phis[b]) |-> R(i)]
    <3>3. phis'[b] = f
      BY <1>8
    <3> HIDE DEF R
    <3>4. f = [i \in 1 .. Len(phis[b]) |-> f[i]] /\ \A i \in 1 .. Len(phis[b]) : f[i] = R(i)
      OBVIOUS
    <3> HIDE DEF f
    <3>5. IsSeq(f) /\ Len(f) = Len(phis[b])
      BY <3>2, <3>4, IsSeqFcn
    <3>6. QED
      BY <3>3, <3>4, <3>5 DEF R
  <2>3. ASSUME NEW b \in Blocks, NEW i \in 1 .. Len(phis[b])
        PROVE  Shaped(Renamed(phis[b][i], ins, c)) /\ Ent(Renamed(phis[b][i], ins, c), b)
    <3> DEFINE phi == phis[b][i]
               r == Renamed(phi, ins, c)
    <3>1. Shaped(phi) /\ Enters(phi, b)
      BY DEF IInv, Phis
    <3> HIDE DEF phi
    <3>2. /\ Shaped(r) /\ Len(r.entries) = Len(phi.entries)
          /\ \A n \in 1 .. Len(phi.entries) :
               r.entries[n].block = IF phi.entries[n].block = ins THEN c ELSE phi.entries[n].block
      BY <3>1, RenamedIs
    <3> HIDE DEF r
    <3>3. ASSUME NEW n \in 1 .. Len(r.entries)
          PROVE  r.entries[n].block \in Blocks' /\ b \in Range(S[r.entries[n].block])
      <4>1. n \in 1 .. Len(phi.entries)
        BY <3>2
      <4> DEFINE x == phi.entries[n].block
                 y == r.entries[n].block
      <4>2. x \in Blocks /\ b \in Range(succ[x]) /\ y = IF x = ins THEN c ELSE x
        BY <3>1, <3>2, <4>1 DEF Enters
      <4> HIDE DEF x, y
      <4>3. y \in Blocks' /\ b \in Range(S[y])
        BY <1>5, <1>6, <4>2
      <4>4. QED
        BY <4>3 DEF y
    <3>4. Shaped(r) /\ \A n \in 1 .. Len(r.entries) : r.entries[n].block \in Blocks' /\ b \in Range(S[r.entries[n].block])
      BY <3>2, <3>3
    <3>5. QED
      BY <3>4 DEF r, phi
  <2> HIDE DEF Ent
  <2>4. ASSUME NEW b \in Blocks'
        PROVE  /\ IsSeq(phis'[b])
               /\ \A i \in 1 .. Len(phis'[b]) : Shaped(phis'[b][i]) /\ Ent(phis'[b][i], b)
               /\ phis'[b] # <<>> => depth'[b] > 0
               /\ stack'[b] # NoStack /\ Multi(b)' => Len(phis'[b]) = depth'[b]
    <3>1. CASE b \in new
      <4>1. IsSeq(phis'[b]) /\ Len(phis'[b]) = 0 /\ phis'[b] = <<>> /\ stack'[b] = NoStack
        BY <2>1, <3>1
      <4>2. ~(\E i \in 1 .. Len(phis'[b]) : TRUE)
        BY <4>1
      <4>3. QED
        BY <4>1, <4>2
    <3>2. CASE b \in Blocks
      <4>1. depth'[b] = depth[b] /\ stack'[b] = stack[b]
        BY <1>8, <3>2
      <4>2. /\ IsSeq(phis'[b]) /\ Len(phis'[b]) = Len(phis[b])
            /\ \A i \in 1 .. Len(phis[b]) : phis'[b][i] = Renamed(phis[b][i], ins, c)
        BY <2>2, <3>2
      <4>3. /\ phis[b] # <<>> => depth[b] > 0
            /\ stack[b] # NoStack /\ Multi(b) => Len(phis[b]) = depth[b]
            /\ IsSeq(phis[b])
        BY <3>2 DEF IInv, Phis
      <4>4. ASSUME NEW i \in 1 .. Len(phis'[b]) PROVE Shaped(phis'[b][i]) /\ Ent(phis'[b][i], b)
        <5>1. i \in 1 .. Len(phis[b]) /\ phis'[b][i] = Renamed(phis[b][i], ins, c)
          BY <4>2
        <5>2. Shaped(Renamed(phis[b][i], ins, c)) /\ Ent(Renamed(phis[b][i], ins, c), b)
          BY <2>3, <3>2, <5>1
        <5>3. QED
          BY <5>1, <5>2, Zenon
      <4>5. phis'[b] # <<>> => depth'[b] > 0
        <5>1. phis'[b] # <<>> => phis[b] # <<>>
          BY <4>2, <4>3, IsSeqIs
        <5>2. QED
          BY <4>1, <4>3, <5>1
      <4>6. stack'[b] # NoStack /\ Multi(b)' => Len(phis'[b]) = depth'[b]
        BY <1>20, <3>2, <4>1, <4>2, <4>3
      <4>7. QED
        BY <4>2, <4>4, <4>5, <4>6
    <3>3. QED
      BY <1>5, <3>1, <3>2
  <2>5. QED
    BY <2>4 DEF Phis, Enters, Ent
<1>39. QED
  BY <1>15, <1>16, <1>17, <1>24, <1>25, <1>26, <1>29, <1>30, <1>31, <1>32, <1>33, <1>34, <1>35, <1>36,
     <1>37, <1>38 DEF IInv

(* A conditional branch to a point block. *)
LEMMA PointIs ==
  ASSUME IInv, insertConditionalPointBlock
  PROVE  \E c, P : SplitOff(c, P)
<1> DEFINE c == NewBlock
           q == NewBlock + 1
<1>1. at = "read" /\ k > 1
  BY DEF insertConditionalPointBlock, MaySplit
<1>2. PICK rejoin \in BOOLEAN :
        Split(c, [b \in {ins, q} |-> IF b = ins THEN <<q, c>> ELSE IF rejoin THEN <<c>> ELSE <<>>])
  BY Zenon DEF insertConditionalPointBlock
<1> DEFINE T == [b \in {ins, q} |-> IF b = ins THEN <<q, c>> ELSE IF rejoin THEN <<c>> ELSE <<>>]
           P == {q}
<1>3. c \in Nat /\ q = c + 1 /\ ins \in Blocks /\ \A b \in Blocks : b < c /\ b \in Nat
  BY BlocksFacts DEF IInv, WalkOK
<1>4. q # c /\ q # ins /\ ins # c
  BY <1>3
<1>5. Split(c, T)
  BY <1>2
<1> HIDE DEF c, q
<1>6. DOMAIN T = {ins} \cup P /\ T[ins] = <<q, c>> /\ T[q] = IF rejoin THEN <<c>> ELSE <<>>
  BY <1>4
<1>7. ToNew(<<q, c>>, c, P)
  <2> DEFINE s == <<q, c>>
  <2>1. s \in Seq({c} \cup P) /\ Len(s) = 2 /\ s[1] = q /\ s[2] = c
    OBVIOUS
  <2> HIDE DEF s
  <2>2. \A x : x \in Range(s) <=> \E i \in 1 .. Len(s) : s[i] = x
    BY <2>1, RangeSeq
  <2>3. \A i \in 1 .. 2 : i = 1 \/ i = 2
    OBVIOUS
  <2>4. \A x : x \in Range(s) <=> x \in {c} \cup P
    <3>1. 1 \in 1 .. 2 /\ 2 \in 1 .. 2
      OBVIOUS
    <3>2. QED
      BY <2>1, <2>2, <2>3, <3>1
  <2>5. Range(s) = {c} \cup P
    BY <2>4
  <2>6. \A i, j \in 1 .. Len(s) : s[i] = s[j] => i = j
    BY <1>4, <2>1, <2>3
  <2>7. \A i \in 1 .. Len(s) : s[i] = c => i = Len(s)
    BY <1>4, <2>1, <2>3
  <2>8. QED
    BY <2>1, <2>5, <2>6, <2>7 DEF s, ToNew
<1>8. \A x \in P : T[x] \in Seq({c}) /\ Len(T[x]) <= 1
  <2>1. <<c>> \in Seq({c}) /\ Len(<<c>>) = 1 /\ <<>> \in Seq({c}) /\ Len(<<>>) = 0
    OBVIOUS
  <2>2. QED
    BY <1>6, <2>1
<1>9. c = NewBlock /\ P = {c + 1}
  BY <1>3 DEF c
<1> HIDE DEF T, P
<1>10. ToNew(T[ins], c, P)
  BY <1>6, <1>7, Zenon
<1>11. SplitOff(c, P)
  BY <1>1, <1>5, <1>6, <1>8, <1>9, <1>10, SplitIs, Zenon
<1>12. QED
  BY <1>11

(* A call in a protected region. *)
LEMMA CallIs ==
  ASSUME IInv, makeCall
  PROVE  \E c, P : SplitOff(c, P)
<1> DEFINE c == NewBlock
           T == [b \in {ins} |-> <<c>>]
           P == {}
<1>1. at = "read" /\ k > 1 /\ Split(c, T)
  BY DEF makeCall, MaySplit
<1>2. c = NewBlock
  OBVIOUS
<1> HIDE DEF c
<1>3. DOMAIN T = {ins} \cup P /\ T[ins] = <<c>>
  OBVIOUS
<1>4. ToNew(<<c>>, c, P)
  <2> DEFINE s == <<c>>
  <2>1. s \in Seq({c} \cup P) /\ Len(s) = 1 /\ s[1] = c
    OBVIOUS
  <2> HIDE DEF s
  <2>2. \A x : x \in Range(s) <=> \E i \in 1 .. Len(s) : s[i] = x
    BY <2>1, RangeSeq
  <2>3. \A i \in 1 .. 1 : i = 1
    OBVIOUS
  <2>4. \A x : x \in Range(s) <=> x \in {c} \cup P
    <3>1. 1 \in 1 .. 1
      OBVIOUS
    <3>2. QED
      BY <2>1, <2>2, <2>3, <3>1
  <2>5. Range(s) = {c} \cup P
    BY <2>4
  <2>6. QED
    BY <2>1, <2>3, <2>5 DEF s, ToNew
<1>5. \A x \in P : T[x] \in Seq({c}) /\ Len(T[x]) <= 1
  OBVIOUS
<1>6. P = {} \/ P = {c + 1}
  OBVIOUS
<1> HIDE DEF T, P
<1>7. ToNew(T[ins], c, P)
  BY <1>3, <1>4, Zenon
<1>8. SplitOff(c, P)
  BY <1>1, <1>2, <1>3, <1>5, <1>6, <1>7, SplitIs, Zenon
<1>9. QED
  BY <1>8

-----------------------------------------------------------------------------
(* The theorems. *)

(* Nothing changes. *)
LEMMA StutterStep ==
  ASSUME IInv, UNCHANGED vars
  PROVE  IInv'
<1>1. /\ succ' = succ /\ nominal' = nominal /\ propagates' = propagates /\ body' = body /\ depth' = depth
      /\ stack' = stack /\ phis' = phis /\ visited' = visited /\ worklist' = worklist /\ order' = order
      /\ it' = it /\ at' = at /\ k' = k /\ ins' = ins /\ edge' = edge /\ rstack' = rstack /\ left' = left
      /\ fresh' = fresh
  BY DEF vars, graph
<1>2. Blocks' = Blocks /\ Made' = Made /\ Fg' = Fg /\ \A b : To(b)' = To(b)
  BY <1>1 DEF Blocks, Made, Fg, To
<1>3. BlocksOK' /\ GraphOK' /\ WalkOK'
  BY <1>1 DEF IInv, BlocksOK, GraphOK, WalkOK, Blocks
<1>4. NewOnce' /\ Depths' /\ Stacks' /\ Phis'
  BY <1>1, <1>2, PhisSame DEF IInv, NewOnce, Multi, Brings, Depths, Stacks
<1>5. PointBlocks' /\ Chain' /\ Emptied' /\ InsertsOK' /\ Discovery' /\ Tracks'
  BY <1>1, <1>2 DEF IInv, PointBlocks, Chain, Emptied, InsertsOK, Discovery, Tracks
<1>6. Closed'
  BY <1>1, <1>2 DEF IInv, Closed, To
<1>7. Forward' /\ Pending'
  BY <1>1, <1>2 DEF IInv, Forward, After, Pending, Awaits, Served, Fed
<1>8. QED
  BY <1>3, <1>4, <1>5, <1>6, <1>7 DEF IInv

(* Every step keeps the invariant. *)
LEMMA IInvNext ==
  ASSUME IInv, [Next]_vars
  PROVE  IInv'
<1>1. CASE Discover
  BY <1>1, DiscoverStep
<1>2. CASE OrderBlocks
  BY <1>2, OrderStep
<1>3. CASE Begin
  BY <1>3, BeginStep
<1>4. CASE ReadInstruction
  BY <1>4, ReadStep
<1>5. CASE insertConditionalPointBlock
  <2>1. PICK c, P : SplitOff(c, P)
    BY <1>5, PointIs
  <2>2. QED
    BY <2>1, SplitStep
<1>6. CASE makeCall
  <2>1. PICK c, P : SplitOff(c, P)
    BY <1>6, CallIs
  <2>2. QED
    BY <2>1, SplitStep
<1>7. CASE EndBlock
  BY <1>7, EndStep
<1>8. CASE SkipSuccessor
  BY <1>8, SkipStep
<1>9. CASE CopyStack
  BY <1>9, CopyStep
<1>10. CASE MergeStack
  BY <1>10, MergeStep
<1>11. CASE ClearStack
  BY <1>11, ClearStep
<1>12. CASE InsertSuccessors
  BY <1>12, InsertStep
<1>13. CASE Finished
  BY <1>13, StutterStep DEF Finished
<1>14. CASE UNCHANGED vars
  BY <1>14, StutterStep
<1>15. QED
  BY <1>1, <1>2, <1>3, <1>4, <1>5, <1>6, <1>7, <1>8, <1>9, <1>10, <1>11, <1>12, <1>13, <1>14 DEF Next

(* The invariant of the second pass of the reader (msilToIR), for any flow graph of *)
(* valid IL: depths, the order of reading, the blocks that splits make, PHI nodes. *)
THEOREM Invariance == Spec => []IInv
<1>1. Init => IInv
  BY IInvInit
<1>2. IInv /\ [Next]_vars => IInv'
  BY IInvNext
<1>3. QED
  BY <1>1, <1>2, PTL DEF Spec

(* A block that readBytesForFlowGraphNode takes up starts with a stack as deep as the *)
(* IL evaluation stack there, or with an active stack that is empty if it was left none. *)
THEOREM EntryStackAsInILHolds == Spec => []EntryStackAsInIL
<1>1. IInv => EntryStackAsInIL
  BY EntryStack
<1>2. QED
  BY <1>1, Invariance, PTL

(* A block that was read comes before the one being read. *)
LEMMA ReadIs ==
  ASSUME IInv, at \in Reading, NEW b \in Read \cup {Fg}
  PROVE  \E j \in 1 .. it : j \in 1 .. Len(order) /\ order[j] = b /\ b \in Blocks /\ b \in visited
<1>1. it \in 1 .. Len(order) /\ order \in Seq(visited) /\ Fg = order[it] /\ Fg \in Blocks /\ visited \subseteq Blocks
  BY FgFacts DEF Fg
<1>2. it \in Nat /\ Len(order) \in Nat /\ it - 1 \in Nat /\ it - 1 <= Len(order) /\ it \in 1 .. it
  BY <1>1
<1>3. CASE b = Fg
  BY <1>1, <1>2, <1>3
<1>4. CASE b \in Read
  <2> DEFINE s == SubSeq(order, 1, it - 1)
  <2>1. s \in Seq(visited) /\ Len(s) = it - 1 /\ \A j \in 1 .. it - 1 : s[j] = order[j]
    BY <1>1, <1>2
  <2>2. b \in Range(s)
    BY <1>4 DEF Read
  <2> HIDE DEF s
  <2>3. PICK j \in 1 .. it - 1 : s[j] = b
    BY <2>1, <2>2, RangeSeq
  <2>4. j \in 1 .. it /\ j \in 1 .. Len(order) /\ order[j] = b
    BY <1>2, <2>1, <2>3
  <2>5. order[j] \in visited
    BY <1>1, <2>4
  <2>6. QED
    BY <1>1, <2>4, <2>5
<1>5. QED
  BY <1>3, <1>4

(* Such a block is none that a stack is handed to. *)
LEMMA ReadSettled ==
  ASSUME IInv, at \in Reading, NEW b \in Read \cup {Fg}, NEW t, After(t, it)
  PROVE  b # t
<1>1. PICK j \in 1 .. it : j \in 1 .. Len(order) /\ order[j] = b /\ b \in visited
  BY ReadIs
<1>2. ~(j > it)
  <2>1. it \in Nat
    BY DEF IInv, WalkOK
  <2>2. QED
    BY <1>1, <2>1
<1>3. QED
  BY <1>1, <1>2 DEF After

(* A split leaves the PHI nodes of such a block alone. *)
LEMMA SplitSettles ==
  ASSUME IInv, NEW c, NEW P, SplitOff(c, P), NEW b \in Read \cup {Fg}
  PROVE  stack'[b] = stack[b] /\ phis'[b] = phis[b]
<1>1. at \in Reading /\ at # "discover" /\ at = "read" /\ k > 1
  BY DEF SplitOff, Reading
<1>2. b \in Blocks /\ ins \in Blocks /\ Fg = order[it] /\ it \in 1 .. Len(order)
  <2>1. b \in Blocks
    BY <1>1, ReadIs
  <2>2. QED
    BY <1>1, <2>1, FgFacts DEF IInv, WalkOK, Fg
<1>3. stack'[b] = stack[b] /\ phis'[b] = [i \in 1 .. Len(phis[b]) |-> Renamed(phis[b][i], ins, c)]
  BY <1>2, Zenon DEF SplitOff
<1>4. /\ IsSeq(phis[b]) /\ \A i \in 1 .. Len(phis[b]) : Shaped(phis[b][i]) /\ Enters(phis[b][i], b)
      /\ phis[b] # <<>> => depth[b] > 0
  BY <1>2 DEF IInv, Phis
<1>5. ASSUME NEW i \in 1 .. Len(phis[b]), NEW n \in 1 .. Len(phis[b][i].entries)
      PROVE  phis[b][i].entries[n].block # ins
  <2> SUFFICES ASSUME phis[b][i].entries[n].block = ins PROVE FALSE
    OBVIOUS
  <2>1. b \in Range(succ[ins])
    BY <1>4 DEF Enters
  <2>2. Len(phis[b]) > 0
    <3>1. Len(phis[b]) \in Nat
      BY <1>4, IsSeqIs
    <3>2. QED
      BY <3>1
  <2>3. depth[b] > 0
    BY <1>4, <2>2, IsSeqIs
  <2>4. ins = Fg \/ ins \in Made
    BY <1>1 DEF IInv, InsertsOK
  <2>5. propagates[ins] /\ propagates[Fg]
    BY <1>1 DEF IInv, InsertsOK
  <2>6. After(b, it)
    BY <1>1, <1>2, <2>1, <2>3, <2>4, <2>5 DEF IInv, Forward
  <2>7. QED
    BY <1>1, <2>6, ReadSettled
<1>6. \A i \in 1 .. Len(phis[b]) : Renamed(phis[b][i], ins, c) = phis[b][i]
  BY <1>4, <1>5, RenamedIs
<1>7. phis'[b] = phis[b]
  <2> DEFINE R(i) == Renamed(phis[b][i], ins, c)
             s == phis[b]
             L == Len(s)
  <2>1. phis'[b] = [i \in 1 .. L |-> R(i)] /\ \A i \in 1 .. L : R(i) = s[i]
    BY <1>3, <1>6
  <2>2. s = [i \in 1 .. L |-> s[i]]
    <3> HIDE DEF s
    <3>1. IsSeq(s)
      BY <1>4 DEF s
    <3>2. QED
      BY <3>1, IsSeqIs
  <2> HIDE DEF R, s, L
  <2>3. phis'[b] = s
    BY <2>1, <2>2
  <2>4. QED
    BY <2>3 DEF s
<1>8. QED
  BY <1>3, <1>7

(* No step touches the stack or the PHI nodes of a block that is or was read. *)
LEMMA SettledNext ==
  ASSUME IInv, Next, NEW b \in Read \cup (IF at \in {"read", "propagate", "insert"} THEN {Fg} ELSE {})
  PROVE  stack'[b] = stack[b] /\ phis'[b] = phis[b]
<1>1. at \in Reading => b \in Read \cup {Fg}
  OBVIOUS
<1>2. CASE Discover \/ OrderBlocks \/ Begin \/ ReadInstruction \/ EndBlock \/ SkipSuccessor \/ ClearStack
            \/ InsertSuccessors
  BY <1>2 DEF Discover, OrderBlocks, Begin, ReadInstruction, EndBlock, SkipSuccessor, ClearStack, InsertSuccessors
<1>3. CASE Finished
  BY <1>3 DEF Finished, vars
<1>4. CASE insertConditionalPointBlock
  <2>1. PICK c, P : SplitOff(c, P)
    BY <1>4, PointIs
  <2>2. at \in Reading
    BY <2>1 DEF SplitOff, Reading
  <2>3. QED
    BY <1>1, <2>1, <2>2, SplitSettles
<1>5. CASE makeCall
  <2>1. PICK c, P : SplitOff(c, P)
    BY <1>5, CallIs
  <2>2. at \in Reading
    BY <2>1 DEF SplitOff, Reading
  <2>3. QED
    BY <1>1, <2>1, <2>2, SplitSettles
<1>6. CASE CopyStack
  <2>1. Propagating /\ propagates[Successor] /\ stack' = [stack EXCEPT ![Successor] = StackHandedOn] /\ phis' = phis
    BY <1>6 DEF CopyStack
  <2>2. at \in Reading
    BY <2>1 DEF Propagating, Reading
  <2>3. After(Successor, it)
    BY <2>1, Handing
  <2>4. b # Successor
    BY <1>1, <2>2, <2>3, ReadSettled
  <2>5. b \in DOMAIN stack
    <3>1. b \in Blocks
      BY <1>1, <2>2, ReadIs
    <3>2. QED
      BY <3>1 DEF IInv, BlocksOK
  <2>6. QED
    BY <2>1, <2>4, <2>5
<1>7. CASE MergeStack
  <2> DEFINE X == [i \in 1 .. Len(rstack) |-> ValueOf(phis'[Successor][i])]
  <2>1. /\ Propagating /\ fgNodeHasMultiplePredsPropagatingStack(Successor)
        /\ phis' = [phis EXCEPT ![Successor] = MergedPhis(Successor)]
        /\ stack' = [stack EXCEPT ![Successor] = X]
    BY <1>7 DEF MergeStack
  <2> HIDE DEF X
  <2>2. at \in Reading
    BY <2>1 DEF Propagating, Reading
  <2>3. Multi(Successor)
    BY <2>1, MultiIs DEF IInv
  <2>4. After(Successor, it)
    BY <2>1, <2>3, Handing
  <2>5. b # Successor
    BY <1>1, <2>2, <2>4, ReadSettled
  <2>6. b \in DOMAIN stack /\ b \in DOMAIN phis
    <3>1. b \in Blocks
      BY <1>1, <2>2, ReadIs
    <3>2. QED
      BY <3>1 DEF IInv, BlocksOK
  <2>7. QED
    BY <2>1, <2>5, <2>6
<1>8. QED
  BY <1>2, <1>3, <1>4, <1>5, <1>6, <1>7 DEF Next

(* maintainOperandStack settles what a block starts with before it is read: no block *)
(* read later adds an operand, a PHI or a type to its stack or its PHI nodes. *)
THEOREM EntrySettledHolds == Spec => EntrySettled
<1>1. IInv /\ [Next]_vars => [\A b \in Read \cup (IF at \in {"read", "propagate", "insert"} THEN {Fg} ELSE {}) :
                                 stack'[b] = stack[b] /\ phis'[b] = phis[b]]_vars
  BY SettledNext
<1>2. QED
  BY <1>1, Invariance, PTL DEF Spec, EntrySettled

-----------------------------------------------------------------------------
(* Reachable blocks. *)

\* A set that nothing leads out of.
Cl(S) == \A b \in S : To(b) \subseteq S

\* What is in the list, or will be, is in every such set with the first block.
Reached == \A S \in SUBSET Blocks : 1 \in S /\ Cl(S) => visited \cup Made \subseteq S

(* The successors of a block, nominal or not. *)
LEMMA SuccessorsIs ==
  ASSUME BlocksOK, GraphOK, NEW b \in Blocks
  PROVE  Range(Successors(b)) = To(b) /\ To(b) \subseteq Blocks
<1> DEFINE no == nominal[b]
           su == succ[b]
<1>1. su \in Seq(Blocks) /\ no \in Seq(Blocks)
  <2>1. 1 .. N \subseteq Blocks
    BY BlocksFacts
  <2>2. no \in Seq(1 .. N) /\ su \in Seq(Blocks)
    BY DEF GraphOK
  <2> HIDE DEF no, su
  <2>3. QED
    BY <2>1, <2>2, SeqMonotonic
<1>2. Successors(b) = no \o su /\ To(b) = Range(no) \cup Range(su)
  BY DEF Successors, To
<1> HIDE DEF no, su
<1>3. Range(no \o su) = Range(no) \cup Range(su)
  BY <1>1, RangeConcatenation
<1>4. Range(no) \subseteq Blocks /\ Range(su) \subseteq Blocks
  BY <1>1, RangeSeq
<1>5. QED
  BY <1>2, <1>3, <1>4

\* f is the sets of the blocks reached in n steps.
Walks(f) ==
  /\ f[0] = {1}
  /\ \A n \in Nat : f[n] \in SUBSET Blocks /\ f[n + 1] = f[n] \cup UNION {Range(Successors(b)) : b \in f[n]}

(* ReachableIn is what its equation says. *)
LEMMA ReachableIs ==
  ASSUME BlocksOK, GraphOK
  PROVE  Walks(ReachableIn)
<1> DEFINE More(X) == X \cup UNION {Range(Successors(b)) : b \in X}
           Rec(f) == f = [n \in Nat |-> IF n = 0 THEN {1} ELSE f[n - 1] \cup UNION {Range(Successors(b)) : b \in f[n - 1]}]
           u == CHOOSE f : Rec(f)
           D == SUBSET Blocks
           G == [x \in Nat \X D |-> More(x[2])]
<1>1. ReachableIn = u
  BY Zenon DEF ReachableIn
<1>2. ASSUME NEW X \in D PROVE More(X) \in D
  <2>1. \A b \in X : Range(Successors(b)) \subseteq Blocks
    BY SuccessorsIs
  <2>2. QED
    BY <2>1
<1>3. {1} \in D
  <2>1. 1 .. N \subseteq Blocks /\ N \in Nat \ {0}
    BY BlocksFacts
  <2>2. QED
    BY <2>1
<1> HIDE DEF More, D
<1>4. G \in [Nat \X D -> D] /\ \A n \in Nat, X \in D : G[<<n, X>>] = More(X)
  BY <1>2
<1> HIDE DEF G
<1>5. PICK f : Recursive(f, D, {1}, G)
  BY <1>3, <1>4, Recursion
<1>6. f \in [Nat -> D] /\ f[0] = {1} /\ \A n \in Nat : f[n + 1] = More(f[n])
  BY <1>4, <1>5 DEF Recursive
<1>7. \A n \in Nat : f[n] = IF n = 0 THEN {1} ELSE More(f[n - 1])
  <2>1. \A n \in Nat : n # 0 => n - 1 \in Nat /\ (n - 1) + 1 = n
    OBVIOUS
  <2>2. QED
    BY <1>6, <2>1
<1>8. f = [n \in Nat |-> IF n = 0 THEN {1} ELSE More(f[n - 1])]
  BY <1>6, <1>7
<1>9. Rec(f)
  BY <1>8, Zenon DEF More
<1>10. Rec(u)
  BY <1>9, Zenon
<1> HIDE DEF u
<1>11. u = [n \in Nat |-> IF n = 0 THEN {1} ELSE More(u[n - 1])]
  BY <1>10, Zenon DEF More
<1>12. u[0] = {1} /\ \A n \in Nat : u[n + 1] = More(u[n])
  BY <1>11
<1>13. \A n \in Nat : u[n] \in D
  <2> DEFINE T == {n \in Nat : u[n] \in D}
  <2>1. 0 \in T
    BY <1>3, <1>12
  <2>2. \A n \in Nat : n \in T => n + 1 \in T
    BY <1>2, <1>12
  <2> HIDE DEF T
  <2>3. \A n \in Nat : n \in T
    BY <2>1, <2>2, SetInduction
  <2>4. QED
    BY <2>3 DEF T
<1>14. QED
  BY <1>1, <1>12, <1>13, Zenon DEF Walks, More, D

(* As many steps as there are blocks reach all that can be reached. *)
LEMMA ReachableClosed ==
  ASSUME BlocksOK, GraphOK, NEW R, R = ReachableIn[Cardinality(Blocks)]
  PROVE  /\ R \in SUBSET Blocks /\ 1 \in R /\ Cl(R)
         /\ \A S : 1 \in S /\ Cl(S) => R \subseteq S
<1> DEFINE f == ReachableIn
<1>1. Walks(f)
  BY ReachableIs
<1> HIDE DEF f
<1>2. \A n \in Nat : f[n] \in SUBSET Blocks /\ f[n] \subseteq f[n + 1]
  BY <1>1 DEF Walks
<1>3. ASSUME NEW n \in Nat, NEW x PROVE x \in f[n + 1] <=> x \in f[n] \/ \E b \in f[n] : x \in To(b)
  <2>1. \A b \in f[n] : Range(Successors(b)) = To(b)
    BY <1>2, SuccessorsIs
  <2>2. f[n + 1] = f[n] \cup UNION {Range(Successors(b)) : b \in f[n]}
    BY <1>1 DEF Walks
  <2>3. QED
    BY <2>1, <2>2
<1>4. IsFiniteSet(Blocks) /\ Cardinality(Blocks) \in Nat
  <2>1. IsFiniteSet(Blocks)
    BY BlocksFacts
  <2>2. QED
    BY <2>1, FS_CardinalityType
<1>5. \A n \in Nat : IsFiniteSet(f[n]) /\ Cardinality(f[n]) \in Nat /\ Cardinality(f[n]) <= Cardinality(Blocks)
  <2>1. ASSUME NEW n \in Nat
        PROVE  IsFiniteSet(f[n]) /\ Cardinality(f[n]) \in Nat /\ Cardinality(f[n]) <= Cardinality(Blocks)
    <3>1. f[n] \in SUBSET Blocks
      BY <1>2
    <3>2. IsFiniteSet(f[n]) /\ Cardinality(f[n]) <= Cardinality(Blocks)
      BY <1>4, <3>1, FS_Subset
    <3>3. QED
      BY <3>2, FS_CardinalityType
  <2>2. QED
    BY <2>1
<1>6. \A n \in Nat : Cl(f[n]) \/ Cardinality(f[n]) >= n + 1
  <2> DEFINE T == {n \in Nat : Cl(f[n]) \/ Cardinality(f[n]) >= n + 1}
  <2>1. 0 \in T
    <3>1. Cardinality(f[0]) = 1
      BY <1>1, FS_Singleton DEF Walks
    <3>2. QED
      BY <3>1
  <2>2. ASSUME NEW n \in Nat, n \in T PROVE n + 1 \in T
    <3>1. CASE Cl(f[n])
      <4>1. f[n + 1] = f[n]
        BY <1>3, <3>1 DEF Cl
      <4>2. QED
        BY <3>1, <4>1
    <3>2. CASE ~Cl(f[n])
      <4>1. f[n] # f[n + 1]
        BY <1>3, <3>2 DEF Cl
      <4>2. n + 1 \in Nat
        OBVIOUS
      <4>3. IsFiniteSet(f[n + 1]) /\ f[n] \in SUBSET f[n + 1]
        BY <1>2, <1>5, <4>2
      <4>4. Cardinality(f[n]) <= Cardinality(f[n + 1]) /\ Cardinality(f[n + 1]) # Cardinality(f[n])
        BY <4>1, <4>3, FS_Subset
      <4>5. Cardinality(f[n]) >= n + 1 /\ Cardinality(f[n]) \in Nat /\ Cardinality(f[n + 1]) \in Nat
        BY <1>5, <2>2, <3>2, <4>2
      <4>6. Cardinality(f[n + 1]) >= (n + 1) + 1
        BY <4>4, <4>5
      <4>7. QED
        BY <4>2, <4>6
    <3>3. QED
      BY <3>1, <3>2
  <2> HIDE DEF T
  <2>3. \A n \in Nat : n \in T
    BY <2>1, <2>2, SetInduction
  <2>4. QED
    BY <2>3 DEF T
<1>7. R = f[Cardinality(Blocks)]
  BY DEF f
<1>8. Cl(R)
  <2> DEFINE m == Cardinality(Blocks)
  <2>1. m \in Nat /\ Cardinality(f[m]) <= m /\ Cardinality(f[m]) \in Nat
    BY <1>4, <1>5
  <2> HIDE DEF m
  <2>2. ~(Cardinality(f[m]) >= m + 1)
    BY <2>1
  <2>3. QED
    BY <1>6, <1>7, <2>1, <2>2 DEF m
<1>9. \A n \in Nat : 1 \in f[n]
  <2> DEFINE T == {n \in Nat : 1 \in f[n]}
  <2>1. 0 \in T
    BY <1>1 DEF Walks
  <2>2. \A n \in Nat : n \in T => n + 1 \in T
    BY <1>2
  <2> HIDE DEF T
  <2>3. \A n \in Nat : n \in T
    BY <2>1, <2>2, SetInduction
  <2>4. QED
    BY <2>3 DEF T
<1>10. ASSUME NEW S, 1 \in S, Cl(S) PROVE R \subseteq S
  <2> DEFINE T == {n \in Nat : f[n] \subseteq S}
  <2>1. 0 \in T
    BY <1>1, <1>10 DEF Walks
  <2>2. \A n \in Nat : n \in T => n + 1 \in T
    BY <1>3, <1>10 DEF Cl
  <2> HIDE DEF T
  <2>3. \A n \in Nat : n \in T
    BY <2>1, <2>2, SetInduction
  <2>4. QED
    BY <1>4, <1>7, <2>3 DEF T
<1>11. QED
  BY <1>2, <1>4, <1>7, <1>8, <1>9, <1>10

(* Every step keeps what is in the list reachable. *)
LEMMA ReachedNext ==
  ASSUME IInv, Reached, [Next]_vars
  PROVE  Reached'
<1>1. ASSUME succ' = succ, nominal' = nominal, visited' \cup Made' \subseteq visited \cup Made PROVE Reached'
  <2>1. Blocks' = Blocks /\ \A S : Cl(S)' <=> Cl(S)
    BY <1>1 DEF Blocks, Cl, To
  <2>2. QED
    BY <1>1, <2>1 DEF Reached
<1>2. ASSUME succ' = succ, nominal' = nominal, visited' = visited PROVE Reached'
  <2>1. Made' = Made
    BY <1>2 DEF Made, Blocks
  <2>2. QED
    BY <1>1, <1>2, <2>1
<1>3. CASE Discover
  <2> DEFINE h == Head(worklist)
             u == Unvisited(h)
  <2>1. succ' = succ /\ nominal' = nominal /\ visited' = visited \cup Range(u) /\ worklist # <<>>
    BY <1>3 DEF Discover, graph
  <2>2. h \in visited /\ h \in Blocks
    <3>1. worklist \in Seq(visited) /\ visited \subseteq Blocks
      BY DEF IInv, WalkOK
    <3>2. QED
      BY <2>1, <3>1
  <2>3. Range(u) = To(h) \ visited
    BY <2>2, UnvisitedIs DEF IInv
  <2> HIDE DEF h, u
  <2>4. Blocks' = Blocks /\ \A S : Cl(S)' <=> Cl(S)
    BY <2>1 DEF Blocks, Cl, To
  <2>5. Made' \subseteq Made
    BY <2>1, <2>4 DEF Made
  <2>6. ASSUME NEW S \in SUBSET Blocks, 1 \in S, Cl(S) PROVE visited' \cup Made' \subseteq S
    <3>1. visited \cup Made \subseteq S
      BY <2>6 DEF Reached
    <3>2. To(h) \subseteq S
      BY <2>2, <2>6, <3>1 DEF Cl
    <3>3. QED
      BY <2>1, <2>3, <2>5, <3>1, <3>2
  <2>7. QED
    BY <2>4, <2>6 DEF Reached
<1>4. CASE InsertSuccessors
  <2> DEFINE u == Unvisited(Fg)
  <2>1. succ' = succ /\ nominal' = nominal /\ visited' = visited \cup Range(u) /\ at = "insert"
    BY <1>4 DEF InsertSuccessors, graph
  <2>2. Range(u) \subseteq Made
    BY <2>1, Entering
  <2> HIDE DEF u
  <2>3. Made' \subseteq Made
    BY <2>1 DEF Made, Blocks
  <2>4. QED
    BY <1>1, <2>1, <2>2, <2>3
<1>5. ASSUME NEW c, NEW P, SplitOff(c, P) PROVE Reached'
  <2> DEFINE new == {c} \cup P
             S == succ'
  <2>1. at \in Reading /\ at = "read" /\ k > 1 /\ visited' = visited
    BY <1>5 DEF SplitOff, Reading
  <2>2. /\ Blocks' = Blocks \cup new
        /\ \A b \in Blocks \ {ins} : S[b] = succ[b]
        /\ S[c] = succ[ins] /\ Range(S[ins]) = new
        /\ \A b \in Blocks : nominal'[b] = nominal[b]
    BY <1>5 DEF SplitOff, ToNew, Blocks
  <2>3. /\ ins \in Blocks /\ ins \in visited \cup Made
        /\ visited \subseteq Blocks
    BY <2>1, FgFacts DEF IInv, InsertsOK, WalkOK
  <2>4. Made' \subseteq Made \cup new
    BY <2>1, <2>2 DEF Made
  <2>5. ASSUME NEW V \in SUBSET Blocks', 1 \in V, \A b \in V : Range(nominal'[b]) \cup Range(S[b]) \subseteq V
        PROVE  visited \cup Made' \subseteq V
    <3> DEFINE Q == V \cap Blocks
    <3>1. ASSUME NEW b \in Q PROVE To(b) \subseteq Q
      <4>1. To(b) \subseteq Blocks
        BY SuccessorsIs DEF IInv
      <4>2. CASE b = ins
        <5>1. Range(nominal[b]) \subseteq V /\ new \subseteq V
          BY <2>2, <2>5, <4>2
        <5>2. Range(succ[b]) \subseteq V
          BY <2>2, <2>5, <4>2, <5>1
        <5>3. QED
          BY <4>1, <5>1, <5>2 DEF To
      <4>3. CASE b # ins
        BY <2>2, <2>5, <4>1, <4>3 DEF To
      <4>4. QED
        BY <4>2, <4>3
    <3>2. Q \in SUBSET Blocks /\ 1 \in Q
      <4>1. 1 \in Blocks
        BY DEF IInv, WalkOK
      <4>2. QED
        BY <2>5, <4>1
    <3>3. Cl(Q)
      BY <3>1 DEF Cl
    <3>4. visited \cup Made \subseteq Q
      BY <3>2, <3>3 DEF Reached
    <3>5. new \subseteq V
      BY <2>2, <2>3, <2>5, <3>4
    <3>6. QED
      BY <2>4, <3>4, <3>5
  <2>6. QED
    BY <2>1, <2>5 DEF Reached, Cl, To
<1>6. CASE insertConditionalPointBlock
  BY <1>5, <1>6, PointIs
<1>7. CASE makeCall
  BY <1>5, <1>7, CallIs
<1>8. CASE OrderBlocks \/ Begin \/ ReadInstruction \/ EndBlock \/ SkipSuccessor \/ CopyStack \/ MergeStack \/ ClearStack
  <2>1. succ' = succ /\ nominal' = nominal /\ visited' = visited
    BY <1>8 DEF OrderBlocks, Begin, ReadInstruction, EndBlock, SkipSuccessor, CopyStack, MergeStack, ClearStack, graph
  <2>2. QED
    BY <1>2, <2>1
<1>9. CASE UNCHANGED vars
  BY <1>2, <1>9 DEF vars, graph
<1>10. QED
  BY <1>3, <1>4, <1>6, <1>7, <1>8, <1>9 DEF Next, Finished

(* Before the discovery only the first block is known. *)
LEMMA ReachedInit == Init => Reached
<1> SUFFICES ASSUME Init PROVE Reached
  OBVIOUS
<1>1. visited = {1} /\ at = "discover"
  BY DEF Init
<1>2. IInv
  BY IInvInit
<1>3. Made = {}
  BY <1>1, <1>2, NoneMade
<1>4. QED
  BY <1>1, <1>3 DEF Reached

(* From the invariant. *)
LEMMA ReadsOnce ==
  ASSUME IInv, Reached
  PROVE  ReadsReachableOnce
<1> DEFINE R == ReachableIn[Cardinality(Blocks)]
<1>1. R \in SUBSET Blocks /\ 1 \in R /\ Cl(R) /\ \A S : 1 \in S /\ Cl(S) => R \subseteq S
  BY ReachableClosed DEF IInv
<1> HIDE DEF R
<1>2. visited \cup Made \subseteq R
  BY <1>1 DEF Reached
<1>3. IsInjective(order)
  <2>1. CASE at = "discover"
    <3>1. order = <<>>
      BY <2>1 DEF IInv, Discovery
    <3>2. QED
      BY <3>1 DEF IsInjective
  <2>2. CASE at # "discover"
    <3>1. DOMAIN order = 1 .. Len(order)
      <4>1. order \in Seq(visited)
        BY DEF IInv, WalkOK
      <4>2. QED
        BY <4>1
    <3>2. QED
      BY <2>2, <3>1 DEF IInv, Closed, IsInjective
  <2>3. QED
    BY <2>1, <2>2
<1>4. at # "discover" => Range(order) \subseteq R
  BY <1>2 DEF IInv, Closed
<1>5. at = "done" => Range(order) = R
  <2> SUFFICES ASSUME at = "done" PROVE Range(order) = R
    OBVIOUS
  <2>1. at \notin Reading /\ at # "discover"
    BY DEF Reading
  <2>2. Made = {}
    BY <2>1 DEF IInv, Chain
  <2>3. visited = Range(order) /\ \A b \in visited \cup Made : To(b) \subseteq visited \cup Made
    BY <2>1 DEF IInv, Closed
  <2>4. Cl(visited) /\ 1 \in visited
    BY <2>2, <2>3 DEF IInv, WalkOK, Cl
  <2>5. QED
    BY <1>1, <1>2, <2>3, <2>4
<1>6. ASSUME at = "insert", NEW b \in Range(Unvisited(Fg))
      PROVE  /\ ~fgNodeHasMultiplePredsPropagatingStack(b)
             /\ propagates[Fg] \/ PropagatingEdges(b) = {}
  <2> DEFINE u == Unvisited(Fg)
  <2>1. Range(u) \subseteq Made /\ Range(u) = To(Fg) \ visited
    BY <1>6, Entering
  <2>2. Fg \in Blocks /\ Fg \in visited /\ propagates[Fg] \in BOOLEAN
    BY <1>6, FgFacts DEF Reading
  <2>3. propagates[Fg]
    BY <1>6, <2>1, <2>2 DEF IInv, PointBlocks
  <2>4. ~Multi(b)
    BY <1>6, <2>1 DEF IInv, NewOnce, Made
  <2>5. QED
    BY <2>3, <2>4, MultiIs DEF IInv
<1>7. QED
  BY <1>3, <1>4, <1>5, <1>6 DEF ReadsReachableOnce, Discovered, R

(* msilToIR reads every block that can be reached, those made by splits while it reads *)
(* included, each once, and no other; and a new block takes its stack from the block *)
(* just read alone, or needs none. *)
THEOREM ReadsReachableOnceHolds == Spec => []ReadsReachableOnce
<1>1. Init => Reached
  BY ReachedInit
<1>2. IInv /\ Reached /\ [Next]_vars => Reached'
  BY ReachedNext
<1>3. IInv /\ Reached => ReadsReachableOnce
  BY ReadsOnce
<1>4. QED
  BY <1>1, <1>2, <1>3, Invariance, PTL DEF Spec
=============================================================================
