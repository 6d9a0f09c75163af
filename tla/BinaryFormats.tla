--------------------------- MODULE BinaryFormats ----------------------------
(* The files of the toolchain: programs (.cres), objects (.cobj), archives    *)
(* (.car) and the debug section within the first two.  A file is its bytes,   *)
(* and may be cut short by whoever copies it.                                 *)
EXTENDS Integers, Sequences, SequencesExt, FiniteSets

CONSTANTS
  Documents  \* what there is to write: [kind, holds]

ASSUME FormatsAssumption == \A d \in Documents : d.kind \in {"program", "object", "archive", "debug"}

VARIABLES
  document,  \* what was written
  bytes      \* what is left of the file

formatVars == <<document, bytes>>

-----------------------------------------------------------------------------
(* Fields: numbers in little-endian order, and bytes behind their count.     *)

Widths == [u8 |-> 1, bool |-> 1, section |-> 1, patched |-> 1, field |-> 1, u16 |-> 2, u32 |-> 4, i32 |-> 4]
LastValid == [section |-> 3, patched |-> 2, field |-> 6]   \* of the enumerations
LittleEndian(n, width) == [i \in 1..width |-> (n \div 256 ^ (i - 1)) % 256]
ValueOf(digits) == FoldRight(LAMBDA d, n : d + 256 * n, digits, 0)
Complement(digits) == [i \in DOMAIN digits |-> 255 - digits[i]]

StoredField(kind, v) ==
  IF kind = "bytes" THEN LittleEndian(Len(v), 4) \o v
  ELSE IF kind = "bool" THEN <<IF v THEN 1 ELSE 0>>
  ELSE IF kind = "i32" /\ v < 0 THEN Complement(LittleEndian(-1 - v, 4))
  ELSE LittleEndian(v, Widths[kind])
Stored(layout, values) == FlattenSeq([i \in DOMAIN layout |-> StoredField(layout[i], values[i])])
StoredAll(layout, rows) == FlattenSeq([i \in DOMAIN rows |-> Stored(layout, rows[i])])
Counted(layout, rows) == LittleEndian(Len(rows), 4) \o StoredAll(layout, rows)

\* A reader of the bytes: the first failure lasts.  `got` is what was read.
ReaderOf(b) == [bytes |-> b, at |-> 0, failed |-> FALSE, invalid |-> FALSE, got |-> << >>]
Has(r, n) == ~r.failed /\ r.at + n <= Len(r.bytes)
TakeBytes(r, n) ==
  IF Has(r, n) THEN [r EXCEPT !.at = @ + n, !.got = Append(@, SubSeq(r.bytes, r.at + 1, r.at + n))]
  ELSE [r EXCEPT !.failed = TRUE, !.got = Append(@, << >>)]
NumberIn(digits, kind) ==
  IF digits = << >> THEN 0
  ELSE IF kind = "i32" /\ Last(digits) >= 128 THEN -1 - ValueOf(Complement(digits)) ELSE ValueOf(digits)
\* The reader past a number, past the bytes behind their count, and past rows, with what it got.
Past(taken, got, kind, v) ==
  [taken EXCEPT !.invalid = @ \/ (kind \in DOMAIN LastValid /\ v > LastValid[kind]),
                !.got = Append(got, IF kind = "bool" THEN v # 0 ELSE v)]
NumberOf(taken, got, kind) == Past(taken, got, kind, NumberIn(Last(taken.got), kind))
TakeNumber(r, kind) == NumberOf(TakeBytes(r, Widths[kind]), r.got, kind)
BytesOf(counted, got) == [TakeBytes(counted, Last(counted.got)) EXCEPT !.got = Append(got, Last(@))]
TakeField(r, kind) == IF kind # "bytes" THEN TakeNumber(r, kind) ELSE BytesOf(TakeNumber(r, "u32"), r.got)
Together(end, got) == [end EXCEPT !.got = Append(got, end.got)]
TakeRow(r, layout) == Together(FoldLeft(TakeField, [r EXCEPT !.got = << >>], layout), r.got)
TakeRows(r, layout, n) ==
  Together(FoldLeft(LAMBDA a, i : IF a.failed THEN a ELSE TakeRow(a, layout), [r EXCEPT !.got = << >>], [i \in 1..n |-> i]), r.got)
RowsOf(counted, got, layout) ==
  [TakeRows([counted EXCEPT !.got = got], layout, Last(counted.got)) EXCEPT !.failed = @ \/ counted.failed]
TakeCounted(r, layout) == RowsOf(TakeNumber(r, "u32"), r.got, layout)

Unreadable == [refused |-> TRUE]
MagicOf == [program |-> 83, object |-> 79, archive |-> 67, debug |-> 71]

-----------------------------------------------------------------------------
(* A program: the header, the sections as they are, and two tables that are  *)
(* there when the header says so.                                            *)

HeaderLayout == <<"u32", "u16", "u16", "u32", "u32", "u32", "u32", "u32", "u32">>
VectorLayout == <<"u8", "u32">>
ProgramVersion == 4
HasDebugInfo(flags) == flags % 2 = 1
HasInterruptVectors(flags) == (flags \div 2) % 2 = 1

WrittenProgram(p) ==
  Stored(HeaderLayout,
    <<MagicOf.program, ProgramVersion, (IF p.debug = << >> THEN 0 ELSE 1) + (IF p.vectors = << >> THEN 0 ELSE 2),
      p.entryPoint, Len(p.text), Len(p.rodata), Len(p.data), p.bss, p.minimumStack>>)
  \o p.text \o p.rodata \o p.data
  \o (IF p.vectors = << >> THEN << >> ELSE Counted(VectorLayout, p.vectors))
  \o (IF p.debug = << >> THEN << >> ELSE StoredField("bytes", p.debug))

(* Mutant: the entries that were whole are kept. *)
InterruptVectorsPartly(r, flags) ==
  IF ~HasInterruptVectors(flags) THEN [r EXCEPT !.got = << >>]
  ELSE LET read == TakeCounted([r EXCEPT !.got = << >>], VectorLayout) IN [read EXCEPT !.got = read.got[1]]
\* A table that is cut short is dropped.
InterruptVectors(r, flags) ==
  IF ~HasInterruptVectors(flags) THEN [r EXCEPT !.got = << >>]
  ELSE LET read == TakeCounted([r EXCEPT !.got = << >>], VectorLayout) IN [read EXCEPT !.got = IF read.failed THEN << >> ELSE read.got[1]]
DebugSection(r, flags) ==
  IF ~HasDebugInfo(flags) THEN << >>
  ELSE LET read == TakeField([r EXCEPT !.got = << >>], "bytes") IN IF read.failed THEN << >> ELSE read.got[1]

\* From a stream what follows a table that is cut short is not read either; from memory the
\* debug section is looked for where that table began.
ProgramOf(h, data, vectors, fromMemory) ==
  IF data.failed \/ h[1] # MagicOf.program \/ h[2] # ProgramVersion THEN Unreadable
  ELSE [entryPoint |-> h[4], text |-> data.got[2], rodata |-> data.got[3], data |-> data.got[4], bss |-> h[8], minimumStack |-> h[9],
        vectors |-> vectors.got, debug |-> DebugSection(IF fromMemory /\ vectors.failed THEN data ELSE vectors, h[3])]
TablesBehind(h, data, fromMemory) == ProgramOf(h, data, InterruptVectors(data, h[3]), fromMemory)
SectionsBehind(header, h, fromMemory) ==
  TablesBehind(h, FoldLeft(TakeBytes, header, <<h[5], h[6], h[7]>>), fromMemory)
BehindHeader(header, fromMemory) == IF header.failed THEN Unreadable ELSE SectionsBehind(header, header.got[1], fromMemory)
LoadedProgram(b, fromMemory) == BehindHeader(TakeRow(ReaderOf(b), HeaderLayout), fromMemory)

-----------------------------------------------------------------------------
(* An object, and an archive of objects.                                     *)

SymbolLayout     == <<"bytes", "section", "u32">>
RelocationLayout == <<"u32", "patched", "field", "u8", "bool", "bool", "section", "i32", "bytes">>
BindingLayout    == <<"u8", "bool", "section", "u32", "bytes">>
ObjectHeader     == <<"u32", "u16", "u16", "bytes", "bytes", "bytes", "bytes", "u32">>
ObjectVersion == 3

Fields(rows, F(_)) == [i \in DOMAIN rows |-> F(rows[i])]
SymbolFields(s)     == <<s.name, s.section, s.offset>>
SymbolFrom(f)       == [name |-> f[1], section |-> f[2], offset |-> f[3]]
RelocationFields(r) == <<r.offset, r.patched, r.field, r.shift, r.pcRelative, r.external, r.section, r.addend, r.symbol>>
RelocationFrom(f) ==
  [offset |-> f[1], patched |-> f[2], field |-> f[3], shift |-> f[4], pcRelative |-> f[5], external |-> f[6], section |-> f[7], addend |-> f[8], symbol |-> f[9]]
BindingFields(b) == <<b.number, b.external, b.section, b.offset, b.symbol>>
BindingFrom(f)   == [number |-> f[1], external |-> f[2], section |-> f[3], offset |-> f[4], symbol |-> f[5]]

WrittenObject(o) ==
  Stored(ObjectHeader, <<MagicOf.object, ObjectVersion, o.flags, o.sourceFile, o.text, o.rodata, o.data, o.bss>>)
  \o Counted(SymbolLayout, Fields(o.symbols, SymbolFields))
  \o Counted(RelocationLayout, Fields(o.relocations, RelocationFields))
  \o Counted(BindingLayout, Fields(o.bindings, BindingFields))
  \o StoredField("bytes", o.debug)
ObjectOf(end) ==
  LET fields == end.got[1]
  IN  IF fields[1] # MagicOf.object \/ fields[2] # ObjectVersion \/ end.failed \/ end.invalid THEN Unreadable
      ELSE [flags |-> fields[3], sourceFile |-> fields[4], text |-> fields[5], rodata |-> fields[6], data |-> fields[7], bss |-> fields[8],
            symbols |-> Fields(end.got[2], SymbolFrom), relocations |-> Fields(end.got[3], RelocationFrom),
            bindings |-> Fields(end.got[4], BindingFrom), debug |-> end.got[5]]
LoadedObject(b) ==
  LET tables == FoldLeft(TakeCounted, TakeRow(ReaderOf(b), ObjectHeader), <<SymbolLayout, RelocationLayout, BindingLayout>>)
  IN  ObjectOf(TakeField(tables, "bytes"))

MemberLayout == <<"bytes", "bytes">>
WrittenArchive(a) ==
  Stored(<<"u32", "u16", "u16">>, <<MagicOf.archive, 1, 0>>)
  \o Counted(MemberLayout, Fields(a.members, LAMBDA m : <<m.name, WrittenObject(m.object)>>))
ArchiveOf(end, loaded) ==
  IF end.got[1][1] # MagicOf.archive \/ end.got[1][2] # 1 \/ end.failed \/ \E i \in DOMAIN loaded : loaded[i].object = Unreadable THEN Unreadable
  ELSE [members |-> loaded]
MembersOf(end) == ArchiveOf(end, Fields(end.got[2], LAMBDA m : [name |-> m[1], object |-> LoadedObject(m[2])]))
LoadedArchive(b) == MembersOf(TakeCounted(TakeRow(ReaderOf(b), <<"u32", "u16", "u16">>), MemberLayout))
OneMember(o) == [members |-> <<[name |-> << >>, object |-> o]>>]
IfReadable(o) == IF o = Unreadable THEN Unreadable ELSE OneMember(o)
\* A file named on a command line says itself which of the two it is.
LoadedMembers(b) ==
  LET magic == IF Len(b) < 4 THEN 0 ELSE ValueOf(SubSeq(b, 1, 4))
  IN  IF magic = MagicOf.object THEN IfReadable(LoadedObject(b))
      ELSE IF magic = MagicOf.archive THEN LoadedArchive(b) ELSE Unreadable

-----------------------------------------------------------------------------
(* The debug section: a header with the size of every table.                 *)

LineLayout    == <<"u32", "u32", "u32", "u32", "u32", "u32", "u16", "u16">>
EntryLayout   == <<"u32", "u32", "u32", "u32", "u32", "u8", "u8", "u8", "u8">>
FrameLayout   == <<"u32", "u32", "u16", "u16">>
DebugHeader   == <<"u32", "u16", "u16", "u32", "u32", "u32", "u32", "u32", "u32">>
LineFields(l)  == <<l.address, l.fileId, l.line, 0, l.expansionFileId, l.expansionLine, l.flags, l.macroDepth>>
LineFrom(f)    == [address |-> f[1], fileId |-> f[2], line |-> f[3], expansionFileId |-> f[5], expansionLine |-> f[6], flags |-> f[7], macroDepth |-> f[8]]
EntryFields(s) == <<s.nameOffset, s.address, s.size, s.elementCount, s.value, s.kind, s.section, s.scalarType, s.flags>>
EntryFrom(f)   == [nameOffset |-> f[1], address |-> f[2], size |-> f[3], elementCount |-> f[4], value |-> f[5], kind |-> f[6], section |-> f[7], scalarType |-> f[8], flags |-> f[9]]
FrameFields(f) == <<f.address, f.endAddress, f.frameSize, f.flags>>
FrameFrom(f)   == [address |-> f[1], endAddress |-> f[2], frameSize |-> f[3], flags |-> f[4]]
DeclaredSize(files, lines, entries, frames, strings) == 32 + files * 4 + lines * 28 + entries * 24 + frames * 12 + strings

WrittenDebug(d) ==
  Stored(DebugHeader, <<MagicOf.debug, 2, 0, DeclaredSize(Len(d.files), Len(d.lines), Len(d.symbols), Len(d.frames), Len(d.strings)),
                        Len(d.files), Len(d.lines), Len(d.symbols), Len(d.strings), Len(d.frames)>>)
  \o StoredAll(<<"u32">>, Fields(d.files, LAMBDA f : <<f>>)) \o StoredAll(LineLayout, Fields(d.lines, LineFields))
  \o StoredAll(EntryLayout, Fields(d.symbols, EntryFields)) \o StoredAll(FrameLayout, Fields(d.frames, FrameFields)) \o d.strings
DebugOf(h, end, length) ==
  IF end.failed \/ h[1] # MagicOf.debug \/ h[2] \notin {1, 2} \/ h[4] > length \/ DeclaredSize(h[5], h[6], h[7], h[9], h[8]) # h[4]
     \/ \E f \in ToSet(end.got[2]) : f[1] > h[8]
  THEN Unreadable
  ELSE [files |-> Fields(end.got[2], LAMBDA f : f[1]), lines |-> Fields(end.got[3], LineFrom), symbols |-> Fields(end.got[4], EntryFrom),
        frames |-> Fields(end.got[5], FrameFrom), strings |-> end.got[6]]
TableRows(r, table) == TakeRows(r, table.layout, table.rows)
DebugTablesBehind(header, h, length) ==
  LET frames == FoldLeft(TableRows, header, <<[layout |-> <<"u32">>, rows |-> h[5]], [layout |-> LineLayout, rows |-> h[6]],
                                              [layout |-> EntryLayout, rows |-> h[7]], [layout |-> FrameLayout, rows |-> h[9]]>>)
  IN  DebugOf(h, TakeBytes(frames, h[8]), length)
BehindDebugHeader(header, length) == IF header.failed THEN Unreadable ELSE DebugTablesBehind(header, header.got[1], length)
LoadedDebug(b) == BehindDebugHeader(TakeRow(ReaderOf(b), DebugHeader), Len(b))

-----------------------------------------------------------------------------

Written(d) ==
  CASE d.kind = "program" -> WrittenProgram(d.holds) [] d.kind = "object" -> WrittenObject(d.holds)
    [] d.kind = "archive" -> WrittenArchive(d.holds) [] d.kind = "debug" -> WrittenDebug(d.holds)
FormatsIdle == document = [kind |-> "none"] /\ bytes = << >>
FormatsInit == document \in Documents /\ bytes = Written(document)
CutShort == bytes # << >> /\ bytes' = Front(bytes) /\ UNCHANGED document

(***************************************************************************)
(* Properties.                                                             *)
(***************************************************************************)

Intact == bytes = Written(document)
Answer(outcome, holds) == outcome = IF Intact THEN holds ELSE Unreadable
\* The sections of a program are the ones written or it is refused, and a table that is cut
\* short is no table, never a part of one nor the bytes of another: but for a program loaded
\* from memory whose vectors are cut short, where the length of the debug section is looked
\* for in the count of the vectors, so that of n vectors the first n bytes may be taken for
\* the debug section.  What nobody cut is loaded as it was written, either way.
MistakenForDebug(p, loaded) ==
  /\ p.vectors # << >> /\ p.debug # << >> /\ loaded.vectors = << >>
  /\ loaded.debug = SubSeq(StoredAll(VectorLayout, p.vectors), 1, Len(p.vectors))
Sound(p, loaded, fromMemory) ==
  \/ loaded = p
  \/ ~Intact /\ loaded = Unreadable
  \/ /\ ~Intact /\ loaded # Unreadable
     /\ [loaded EXCEPT !.vectors = p.vectors, !.debug = p.debug] = p
     /\ loaded.vectors \in {p.vectors, << >>}
     /\ loaded.debug \in {p.debug, << >>} \/ (fromMemory /\ MistakenForDebug(p, loaded))
\* What is loaded of a file, whole or cut short, is what was written or nothing: objects,
\* archives and debug sections are whole or refused, a program runs without its tables.
FilesAreWhole ==
  CASE document.kind = "program" -> \A fromMemory \in BOOLEAN : Sound(document.holds, LoadedProgram(bytes, fromMemory), fromMemory)
    [] document.kind = "object"  -> Answer(LoadedObject(bytes), document.holds) /\ Answer(LoadedMembers(bytes), OneMember(document.holds))
    [] document.kind = "archive" -> Answer(LoadedMembers(bytes), document.holds)
    [] document.kind = "debug"   -> Answer(LoadedDebug(bytes), document.holds)
    [] OTHER -> TRUE
=============================================================================
