--------------------------- MODULE EEMemoryManager ---------------------------
(***************************************************************************)
(* Loading the object file of one method (lib/Jit/EEMemoryManager.cpp) in  *)
(* the order EEObjectLinkingLayer drives it: unwind space is reserved when *)
(* the object is added; asking for the method's address finalizes it:      *)
(* memory is reserved, its sections are placed in it, the symbols get      *)
(* their addresses, the listener is told, the EH frames are registered.    *)
(*                                                                         *)
(* The object is chosen at the start.  Its .xdata section has one unwind   *)
(* entry for the method and one per funclet, and after them, if there are  *)
(* funclets, a sequence of 32-bit words.  Of the bytes of an entry the     *)
(* model has the two that are read: flags and number of unwind codes.      *)
(* Loops run one iteration per step.                                       *)
(***************************************************************************)
EXTENDS Integers, Sequences, FiniteSets

CONSTANTS
  MaxSections,   \* bound on the read-only sections
  Sizes,         \* sizes of sections
  Alignments,    \* their alignments: powers of two up to 16
  MaxFunclets,   \* bound on the funclets
  MaxCodes,      \* bound on the unwind codes of an entry
  MaxClauses,    \* bound on the EH clauses
  EntryKinds     \* of unwind entries: subset of {"plain", "handler"}

ASSUME LoadAssumption ==
  /\ {MaxSections, MaxFunclets, MaxCodes, MaxClauses} \subseteq Nat
  /\ Sizes \subseteq Nat /\ Alignments \subseteq {1, 2, 4, 8, 16}
  /\ EntryKinds \subseteq {"plain", "handler"}

VARIABLES
  entries,        \* of .xdata: the kind and the number of codes of each
  words,          \* of .xdata: what follows the entries
  sections,       \* the other read-only sections
  PREJIT,         \* CORJIT_FLG_PREJIT: the code goes to an image
  phase,          \* which function runs
  XdataPtr,       \* offset in .xdata of the walk over the entries
  reserved,       \* the calls of reserveUnwindInfo
  ReadOnlyDataBlock, ReadOnlyDataUnallocated, ReadOnlyDataSize,
  placed,         \* section -> its address, for those allocated
  StackMap,       \* StackMapBlock and Context->StackMapSize
  UnwindBlocks,   \* position and reported size of the entries walked
  I, StartOffset, \* the loop over the funclets
  reported,       \* the calls of allocUnwindInfo
  EHcount,        \* the number of clauses reported, -1 before
  EHinfo          \* the clauses reported, by their index

object == <<entries, words, sections, PREJIT>>
memory == <<ReadOnlyDataBlock, ReadOnlyDataUnallocated, ReadOnlyDataSize, placed, StackMap>>
frames == <<UnwindBlocks, I, StartOffset, reported, EHcount, EHinfo>>
loadVars == <<object, phase, XdataPtr, reserved, memory, frames>>

-----------------------------------------------------------------------------
(* External: the bytes LLVM writes for an unwind entry. *)
emittedSize(e) ==
  4 + 2 * (e.codes + (e.codes % 2))
    + (IF e.kind = "handler" \/ e.codes = 0 THEN 4 ELSE 0)
entryStart(k) ==
  LET at[n \in 1 .. Len(entries) + 1] == IF n = 1 THEN 0 ELSE at[n - 1] + emittedSize(entries[n - 1])
  IN  at[k]
WordsStart == entryStart(Len(entries) + 1)
XdataEnd == WordsStart + 4 * Len(words)
Starts == {entryStart(k) : k \in 1 .. Len(entries)}
EntryAt(ptr) == entries[CHOOSE k \in 1 .. Len(entries) : entryStart(k) = ptr]

FlagBits == [plain |-> 0, handler |-> 1]
Sentinel == -1   \* 0xffffffff
byte0(ptr) == IF ptr \in Starts THEN 1 + 8 * FlagBits[EntryAt(ptr).kind]
              ELSE IF ptr = WordsStart /\ ptr < XdataEnd THEN 255 ELSE 0
NumCodes(ptr) == IF ptr \in Starts THEN EntryAt(ptr).codes ELSE 0

\* The words: sentinel, number of funclets, the end of the method and of each
\* funclet, number of clauses, clauses (one word each here).
Words(n, ends, clauses) ==
  <<Sentinel, n>> \o [k \in 1 .. n + 1 |-> ends[k]] \o <<Len(clauses)>> \o clauses

LoadInit ==
  /\ \E n \in 0 .. MaxFunclets :
       /\ entries \in [1 .. n + 1 -> [kind : EntryKinds, codes : 0 .. MaxCodes]]
       /\ \/ n = 0 /\ words = <<>>
          \/ /\ n > 0
             /\ \E c \in 0 .. MaxClauses :
                  words = Words(n, [k \in 1 .. n + 1 |-> 10 * k], [k \in 1 .. c |-> k])
  /\ \E n \in 0 .. MaxSections :
       sections \in [1 .. n -> [size : Sizes, align : Alignments, stackmap : BOOLEAN]]
  /\ \A k, l \in DOMAIN sections : sections[k].stackmap /\ sections[l].stackmap => k = l
  /\ PREJIT \in BOOLEAN
  /\ phase = "reserveUnwindSpace"
  /\ XdataPtr = 0
  /\ reserved = <<>>
  /\ ReadOnlyDataBlock = 0 /\ ReadOnlyDataUnallocated = 0 /\ ReadOnlyDataSize = 0
  /\ placed = <<>>
  /\ StackMap = [block |-> 0, size |-> 0]
  /\ UnwindBlocks = <<>> /\ I = 0 /\ StartOffset = 0 /\ reported = <<>> /\ EHcount = -1 /\ EHinfo = <<>>

-----------------------------------------------------------------------------
(* getXdataSize.  Mistake: the padding of the codes is forgotten. *)
getXdataSize_Unpadded(ptr) ==
  LET bytes == 4 + 2 * NumCodes(ptr)
      total == bytes + (IF byte0(ptr) # 1 THEN 4 ELSE 0)
  IN  [Reported |-> bytes, Total |-> IF total < 8 THEN 8 ELSE total]
getXdataSize(ptr) ==
  LET bytes == 4 + 2 * NumCodes(ptr)
      total == bytes + (IF (bytes \div 2) % 2 = 1 THEN 2 ELSE 0)
                     + (IF byte0(ptr) # 1 THEN 4 ELSE 0)
  IN  [Reported |-> bytes, Total |-> IF total < 8 THEN 8 ELSE total]

\* Does the walk go on at ptr?
moreEntries(ptr) == ptr # XdataEnd /\ byte0(ptr) % 8 = 1

(* reserveUnwindSpace, one entry *)
reserveUnwindSpace ==
  LET size == getXdataSize(XdataPtr)
      next == XdataPtr + size.Total
  IN  /\ phase = "reserveUnwindSpace"
      /\ reserved' = Append(reserved, [IsHandler |-> reserved # <<>>, size |-> size.Reported])
      /\ XdataPtr' = IF moreEntries(next) THEN next ELSE 0
      /\ phase' = IF moreEntries(next) THEN phase
                  ELSE IF next = XdataEnd \/ byte0(next) = 255 THEN "reserveAllocationSpace"
                  ELSE "malformed"
      /\ UNCHANGED <<object, memory, frames>>

(* External: RuntimeDyld asks for each section rounded up to the largest alignment,
   and for at least one byte. *)
AllocSize(s) == IF sections[s].size = 0 THEN 1 ELSE sections[s].size
RODataAlign == CHOOSE a \in {1} \union {sections[s].align : s \in DOMAIN sections} :
                 \A s \in DOMAIN sections : sections[s].align <= a
RODataSize ==
  LET sum[n \in 0 .. Len(sections)] ==
        IF n = 0 THEN 0
        ELSE sum[n - 1] + ((AllocSize(n) + RODataAlign - 1) \div RODataAlign) * RODataAlign
  IN  sum[Len(sections)]

(* External: the address allocMem gives for the data.  It is a multiple of 8, and of 16 when
   that is asked for, except that memory for an image need not be. *)
allocMem(address, flag16) == address % 8 = 0 /\ (flag16 /\ ~PREJIT => address % 16 = 0)

AlignmentFlag == RODataAlign = 16

(* reserveAllocationSpace, called when finalize loads the object *)
reserveAllocationSpace(address) ==
  /\ phase = "reserveAllocationSpace"
  /\ allocMem(address, AlignmentFlag)
  /\ ReadOnlyDataBlock' = address
  /\ ReadOnlyDataUnallocated' = address
  /\ ReadOnlyDataSize' = RODataSize
  /\ phase' = "allocateDataSection"
  /\ UNCHANGED <<object, XdataPtr, reserved, placed, StackMap, frames>>

(* The padding before a section.  Mistake: by the address, for an image too. *)
padding_Address(align) ==
  LET offset == ReadOnlyDataUnallocated % align IN IF offset > 0 THEN align - offset ELSE 0
padding(align) ==
  LET from == IF PREJIT THEN ReadOnlyDataUnallocated - ReadOnlyDataBlock ELSE ReadOnlyDataUnallocated
      offset == from % align
  IN  IF offset > 0 THEN align - offset ELSE 0

(* allocateDataSection, in whatever order RuntimeDyld comes to the sections *)
allocateDataSection(s) ==
  LET result == ReadOnlyDataUnallocated + padding(sections[s].align)
  IN  /\ phase = "allocateDataSection"
      /\ s \notin DOMAIN placed
      /\ placed' = [x \in DOMAIN placed \union {s} |-> IF x = s THEN result ELSE placed[x]]
      /\ ReadOnlyDataUnallocated' = result + AllocSize(s)
      /\ StackMap' = IF sections[s].stackmap THEN [block |-> result, size |-> AllocSize(s)] ELSE StackMap
      /\ UNCHANGED <<object, phase, XdataPtr, reserved, ReadOnlyDataBlock, ReadOnlyDataSize,
                     frames>>

(* The Finalizer of addObjectSet: when all sections are loaded the symbol table is
   updated, and then the listener (ObjectLoadListener) and the EH frames have their
   turn. *)
LOSHandleLoad ==
  /\ phase = "allocateDataSection"
  /\ DOMAIN placed = DOMAIN sections
  /\ phase' = "notifyLoaded"
  /\ UNCHANGED <<object, XdataPtr, reserved, memory, frames>>

(* registerEHFrames: the walk over the entries *)
collectUnwindBlock ==
  LET size == getXdataSize(XdataPtr)
      next == XdataPtr + size.Total
  IN  /\ phase = "registerEHFrames"
      /\ UnwindBlocks' = Append(UnwindBlocks, [block |-> XdataPtr, size |-> size.Reported])
      /\ XdataPtr' = next
      /\ phase' = IF moreEntries(next) THEN phase
                  ELSE IF next = XdataEnd /\ UnwindBlocks = <<>> THEN "wholeFunction"
                  ELSE IF next # XdataEnd /\ byte0(next) = 255 /\ words[1] = Sentinel THEN "funclets"
                  ELSE "malformed"
      /\ UNCHANGED <<object, reserved, memory, I, StartOffset, reported, EHcount, EHinfo>>

\* allocUnwindInfo for the code from start to end; -1 is the end of the code
allocUnwindInfo(start, end, block, kind) ==
  reported' = Append(reported, [start |-> start, end |-> end, block |-> block.block,
                                size |-> block.size, kind |-> kind])

(* No funclets: the one entry is for the whole code. *)
wholeFunction ==
  /\ phase = "wholeFunction"
  /\ allocUnwindInfo(0, -1, UnwindBlocks[Len(UnwindBlocks)], "ROOT")
  /\ phase' = "done"
  /\ UNCHANGED <<object, XdataPtr, reserved, memory, UnwindBlocks, I, StartOffset, EHcount, EHinfo>>

(* The loop over the funclets, and the clauses that follow it *)
reportFunclet ==
  /\ phase = "funclets" /\ I <= words[2]
  /\ allocUnwindInfo(StartOffset, words[3 + I], UnwindBlocks[I + 1], IF I = 0 THEN "ROOT" ELSE "HANDLER")
  /\ StartOffset' = words[3 + I]
  /\ I' = I + 1
  /\ UNCHANGED <<object, phase, XdataPtr, reserved, memory, UnwindBlocks, EHcount, EHinfo>>

reportClauses ==
  /\ phase = "funclets" /\ I > words[2]
  /\ EHcount' = words[3 + I]
  /\ EHinfo' = [c \in 1 .. words[3 + I] |-> words[3 + I + c]]
  /\ phase' = "done"
  /\ UNCHANGED <<object, XdataPtr, reserved, memory, UnwindBlocks, I, StartOffset, reported>>

LoadNext ==
  \/ reserveUnwindSpace
  \/ \E address \in {8, 16} : reserveAllocationSpace(address)
  \/ \E s \in DOMAIN sections : allocateDataSection(s)
  \/ LOSHandleLoad
  \/ collectUnwindBlock \/ wholeFunction \/ reportFunclet \/ reportClauses

-----------------------------------------------------------------------------
(* The sections lie apart in the block that was reserved before their placing was
   known, each aligned in the place the code will run at, in whatever order they
   are loaded: allocateDataSection's assertion "Make sure we are not allocating
   more than we expected to" holds. *)
End(s) == placed[s] + AllocSize(s)
SectionsFit ==
  \A s \in DOMAIN placed :
    /\ ReadOnlyDataBlock <= placed[s] /\ End(s) <= ReadOnlyDataBlock + ReadOnlyDataSize
    /\ (placed[s] - (IF PREJIT THEN ReadOnlyDataBlock ELSE 0)) % sections[s].align = 0
    /\ \A t \in DOMAIN placed \ {s} : End(s) <= placed[t] \/ End(t) <= placed[s]
    /\ sections[s].stackmap => StackMap = [block |-> placed[s], size |-> AllocSize(s)]

(* What registerEHFrames hands to the runtime is what was reserved for it before
   the memory was laid out: as many entries, of the same sizes, in the same order,
   the method's own first; each is the entry LLVM wrote for that code, and no
   assertion about the form of .xdata fails.  The code is divided among the method
   and its funclets without a gap, to the end of the last, and the clauses and
   their count are read where they were written. *)
UnwindAsReserved ==
  /\ phase # "malformed"
  /\ phase = "done" =>
    /\ Len(reported) = Len(reserved)
    /\ \A k \in 1 .. Len(reported) :
         /\ reported[k].size = reserved[k].size
         /\ (reported[k].kind = "HANDLER") <=> reserved[k].IsHandler
         /\ reported[k].block = entryStart(k)
    /\ reported[1].start = 0
    /\ \A k \in 1 .. Len(reported) - 1 : reported[k].end = reported[k + 1].start
    /\ words # <<>> => /\ reported[Len(reported)].end = 10 * Len(entries)
                       /\ EHcount = Len(words) - Len(entries) - 3
                       /\ \A c \in 1 .. EHcount : EHinfo[c] = words[Len(entries) + 3 + c]
=============================================================================
