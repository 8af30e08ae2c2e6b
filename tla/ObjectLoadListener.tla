------------------------- MODULE ObjectLoadListener -------------------------
(***************************************************************************)
(* What the listener of the linking layer tells the runtime about a loaded *)
(* object (class ObjectLoadListener, lib/Jit/LLILCJit.cpp): the mapping of *)
(* native to IL offsets, the places of locals, and the relocations, which  *)
(* the runtime and not LLVM's dynamic linker applies.  It is called after  *)
(* the sections were placed and before the EH frames are registered, see   *)
(* EEMemoryManager.                                                        *)
(*                                                                         *)
(* The object also has, chosen at the start: one relocation; the rows of   *)
(* its line table; the entries of its DWARF tree below the compile unit,   *)
(* in preorder.  Words are narrower than in the code: Word32 and Word64    *)
(* are the numbers of values of its 32-bit and 64-bit words.               *)
(***************************************************************************)
EXTENDS EEMemoryManager

CONSTANTS
  Word32, Word64,  \* 2^32 and 2^64
  CodeAddress,     \* external: where allocMem puts the code
  Handle,          \* the address NameToHandleMap has for an external symbol
  MaxRows,         \* bound on the rows of the line table
  Addresses,       \* the native offsets of rows
  ILOffsets,       \* the IL offsets they have as line numbers
  MaxEntries       \* bound on the entries of the DWARF tree

ASSUME ListenerAssumption ==
  /\ {Word32, Word64, CodeAddress, Handle, MaxRows, MaxEntries} \subseteq Nat
  /\ Word32 < Word64
  /\ Addresses \subseteq Nat /\ ILOffsets \subseteq Nat

VARIABLES
  isELF,       \* the format of the object: ELF, or else COFF
  relocs,      \* its relocations
  lines,       \* the rows of its line table for the function and its funclets, found from
               \* the sizes of their symbols: address, Line (the IL offset), Column (1 for a call)
  dwarf,       \* its tree: tag, and the last byte of the location or NoLocation
  sameAddr,    \* is DW_AT_low_pc the address of the function?
  recorded,    \* the calls of recordRelocation
  boundaries,  \* the arrays of the calls of setBoundaries
  locals       \* the arrays of the calls of setVars

debug == <<isELF, relocs, lines, dwarf, sameAddr>>
reports == <<recorded, boundaries, locals>>
vars == <<loadVars, debug, reports>>

NoLocation == -1
NoLine == -1     \* (uint32_t)-1

\* Offset is in the section to be fixed up, Value that of the symbol in its section.
Relocations ==
  {r \in [Section : {"code", "data", "xdata", "debug"}, Offset : {0, 8},
          RelType : {"ABSOLUTE", "ADDR64", "REL32"},
          Symbol : {"extern", "section", "personality"}, Value : {0, 3}, Addend : {-4, 0, 4}] :
     /\ r.Symbol = "personality" <=> r.Section = "xdata"
     /\ r.Value # 0 => r.Symbol = "section"
     /\ r.Section = "data" \/ r.Symbol = "section" => Len(sections) > 0
     /\ isELF => r.RelType = "ADDR64"}

LineTables ==
  {t \in UNION {[1 .. n -> [address : Addresses, Line : ILOffsets, Column : 0 .. 1]] : n \in 1 .. MaxRows} :
     \A k \in 1 .. Len(t) - 1 : t[k].address <= t[k + 1].address}
OneRow == <<[address |-> 0, Line |-> 0, Column |-> 0]>>

\* An object that has one of these is small otherwise.
Init ==
  /\ LoadInit
  /\ isELF \in BOOLEAN /\ sameAddr \in BOOLEAN
  /\ \/ relocs = <<>> /\ lines = <<>> /\ dwarf = <<>>
     \/ /\ entries = <<[kind |-> "plain", codes |-> 0]>> /\ Len(sections) <= 1
        /\ \/ (\E r \in Relocations : relocs = <<r>>) /\ lines = <<>> /\ dwarf = <<>>
           \/ relocs = <<>> /\ lines \in LineTables /\ dwarf = <<>>
           \/ /\ relocs = <<>> /\ lines = OneRow
              /\ dwarf \in UNION {[1 .. n -> [tag : {"formal_parameter", "variable", "lexical_block"},
                                               location : {NoLocation, 8, 16}]] : n \in 1 .. MaxEntries}
  /\ (isELF => relocs # <<>>) /\ (~sameAddr => dwarf # <<>>)
  /\ recorded = <<>> /\ boundaries = <<>> /\ locals = <<>>

-----------------------------------------------------------------------------
(* getDebugInfoForObject: one mapping per run of rows with the same IL offset, when
   the offset before the first row is `last'. *)
mappings(last) ==
  LET upTo[n \in 0 .. Len(lines)] ==
        IF n = 0 THEN [last |-> last, OM |-> <<>>]
        ELSE IF lines[n].Line = upTo[n - 1].last THEN upTo[n - 1]
        ELSE [last |-> lines[n].Line,
              OM |-> Append(upTo[n - 1].OM,
                            [nativeOffset |-> lines[n].address, ilOffset |-> lines[n].Line,
                             source |-> IF lines[n].Column = 1 THEN "CALL_INSTRUCTION"
                                        ELSE "STACK_EMPTY"])]
  IN  upTo[Len(lines)]

NumDebugRanges == Len(mappings(NoLine).OM)

(* The offset the second loop starts with.  Mistake: it is not reset. *)
resetOffset_Kept == mappings(NoLine).last
resetOffset == NoLine

\* What the variable may hold
Garbage == {0, 8}

\* The entry is of a parameter or a variable.
IsLocal(d) == d.tag \in {"formal_parameter", "variable"}

(* extractLocalLocations, over the whole tree: one offset per local, in preorder.  That of
   an entry without a location is an uninitialized variable. *)
foundLocals ==
  LET upTo[n \in 0 .. Len(dwarf)] ==
        IF n = 0 THEN <<>>
        ELSE IF IsLocal(dwarf[n]) THEN Append(upTo[n - 1], dwarf[n]) ELSE upTo[n - 1]
  IN  upTo[Len(dwarf)]
extractLocalLocations ==
  LET found == foundLocals
  IN  {offsets \in [1 .. Len(found) -> Garbage \union {found[k].location : k \in 1 .. Len(found)}] :
         \A k \in 1 .. Len(found) :
           IF found[k].location = NoLocation THEN offsets[k] \in Garbage ELSE offsets[k] = found[k].location}

(* getDebugInfoForLocals: all locals are on the stack, numbered as they come *)
getDebugInfoForLocals ==
  \E Offsets \in extractLocalLocations :
    locals' = IF ~sameAddr \/ Offsets = <<>> THEN locals
              ELSE Append(locals, [k \in 1 .. Len(Offsets) |-> [varNumber |-> k - 1, vlsOffset |-> Offsets[k]]])

getDebugInfoForObject ==
  /\ phase = "notifyLoaded"
  /\ phase' = "recordRelocations"
  /\ IF NumDebugRanges > 0
     THEN /\ boundaries' = Append(boundaries, [cMap |-> NumDebugRanges, pMap |-> mappings(resetOffset).OM])
          /\ getDebugInfoForLocals
     ELSE UNCHANGED <<boundaries, locals>>
  /\ UNCHANGED <<object, XdataPtr, reserved, memory, frames, debug, recorded>>

-----------------------------------------------------------------------------
(* recordRelocations *)
getSectionLoadAddress(section) == IF section = "code" THEN CodeAddress ELSE placed[1]

FixupAddress(r) == getSectionLoadAddress(r.Section) + r.Offset
RelocationTarget(r) == IF r.Symbol = "extern" THEN Handle ELSE getSectionLoadAddress("data") + r.Value

(* getRelocationAddend: the word at the fixup, read unsigned.  Mistake: 32 bits of
   it, whatever the type. *)
getRelocationAddend_Narrow(r) == r.Addend % Word32
getRelocationAddend(r) == r.Addend % (IF r.RelType = "ADDR64" THEN Word64 ELSE Word32)

(* getRelocationType *)
getRelocationType(r) == [ABSOLUTE |-> "ABSOLUTE", ADDR64 |-> "DIR64", REL32 |-> "REL32"][r.RelType]

\* Sections the runtime does not keep, and the personality routine, are skipped.
Skipped(r) == r.Section = "debug" \/ r.Symbol = "personality"

recordRelocation(r) ==
  [FixupAddress |-> FixupAddress(r),
   Target |-> (RelocationTarget(r) + (IF isELF THEN r.Addend % Word64 ELSE getRelocationAddend(r))) % Word64,
   EERelType |-> getRelocationType(r)]

recordRelocations ==
  /\ phase = "recordRelocations"
  /\ recorded' = LET kept == SelectSeq(relocs, LAMBDA r : ~Skipped(r))
                 IN  [k \in 1 .. Len(kept) |-> recordRelocation(kept[k])]
  /\ phase' = "registerEHFrames"
  /\ UNCHANGED <<object, XdataPtr, reserved, memory, frames, debug, boundaries, locals>>

Next ==
  \/ LoadNext /\ UNCHANGED <<debug, reports>>
  \/ getDebugInfoForObject
  \/ recordRelocations
Spec == Init /\ [][Next]_vars

-----------------------------------------------------------------------------
\* External: what the runtime writes at the fixup.  A 64-bit word gets the target, a
\* 32-bit one its distance from the end of the word; an absolute relocation asks for
\* nothing.
Applied(c) ==
  CASE c.EERelType = "DIR64" -> c.Target
    [] c.EERelType = "REL32" -> c.Target - (c.FixupAddress + 4)
    [] c.EERelType = "ABSOLUTE" -> 0

\* What the object asks for: symbol plus addend, from the end of the fixup where it is relative
AskedFor(r) ==
  CASE r.RelType = "ADDR64" -> RelocationTarget(r) + r.Addend
    [] r.RelType = "REL32" -> RelocationTarget(r) + r.Addend - (FixupAddress(r) + 4)
    [] r.RelType = "ABSOLUTE" -> 0

\* A known exception: getRelocationAddend reads the 32 bits at the fixup unsigned, so that
\* a negative addend counts as 2^32 more (LLILCJit.cpp:780-782).
NegativeNarrowAddend(r) == ~isELF /\ r.RelType = "REL32" /\ r.Addend < 0

(* Every relocation of a section the runtime keeps is recorded once, at its place, and
   applied it gives what the object asked for; with a NegativeNarrowAddend only the low
   32 bits of it. *)
RelocationsReach ==
  phase = "registerEHFrames" =>
    LET kept == SelectSeq(relocs, LAMBDA r : ~Skipped(r))
    IN  /\ Len(recorded) = Len(kept)
        /\ \A k \in 1 .. Len(recorded) :
             LET r == kept[k]
                 c == recorded[k]
             IN  /\ c.FixupAddress = FixupAddress(r)
                 /\ (Applied(c) - AskedFor(r)) % Word32 = 0
                 /\ ~NegativeNarrowAddend(r) => Applied(c) = AskedFor(r)

\* The last of the elements of s that satisfies P
LastWhere(s, P(_)) == s[CHOOSE k \in 1 .. Len(s) : P(s[k]) /\ \A l \in k + 1 .. Len(s) : ~P(s[l])]

\* The entries of locals among the first n
LocalsTo(n) == {d \in 1 .. n : IsLocal(dwarf[d])}

(* The array of mappings has as many entries as the loop before counted, and a
   debugger that looks up an address of the line table in it finds the IL offset of
   the last row at that address.  The k-th local reported is the k-th variable or
   parameter of the method: one without a location does not shift the others. *)
DebugInfoAgrees ==
  /\ \A b \in 1 .. Len(boundaries) :
       /\ boundaries[b].cMap = Len(boundaries[b].pMap)
       /\ \A k \in 1 .. Len(lines) :
            LastWhere(boundaries[b].pMap, LAMBDA m : m.nativeOffset <= lines[k].address).ilOffset
              = LastWhere(lines, LAMBDA row : row.address <= lines[k].address).Line
  /\ \A v \in 1 .. Len(locals) :
       /\ Len(locals[v]) = Cardinality(LocalsTo(Len(dwarf)))
       /\ \A d \in LocalsTo(Len(dwarf)) :
            LET k == Cardinality(LocalsTo(d))
            IN  /\ locals[v][k].varNumber = k - 1
                /\ dwarf[d].location # NoLocation => locals[v][k].vlsOffset = dwarf[d].location
=============================================================================
