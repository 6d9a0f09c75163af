----------------------------- MODULE DebugTables ----------------------------
(* The debug tables: built as a unit is emitted, folded into the program's   *)
(* by the link, and asked where a line is and what an address is.  A word of *)
(* the string blob is a tuple, <<>> is its NUL; a path is <<directory,       *)
(* file>>.                                                                   *)
EXTENDS Integers, Sequences, SequencesExt, FiniteSets

CONSTANTS
  Links,             \* the programs: sequences of units, [lines, symbols, frames, sizes]
  AddressTolerance,  \* of a word
  TextBase           \* where the text of a program starts

ASSUME TablesAssumption == AddressTolerance \in Nat \ {0} /\ TextBase \in Nat

VARIABLES
  parts,   \* the units of the program
  info,    \* the tables so far
  merged   \* units that are in it

tableVars == <<parts, info, merged>>

Empty == [files |-> << >>, lines |-> << >>, symbols |-> << >>, frames |-> << >>, strings |-> << >>]
ByAddress(rows) == SortSeq(rows, LAMBDA a, b : a.address < b.address)

-----------------------------------------------------------------------------
(* The builder.                                                              *)

Nul == << >>
WordStarts(blob) == {i \in DOMAIN blob : i = 1 \/ blob[i - 1] = Nul}
InternedAt(blob, word) == {i \in WordStarts(blob) : blob[i] = word}
Smallest(s) == CHOOSE x \in s : \A y \in s : x <= y
InternString(d, word) ==
  IF InternedAt(d.strings, word) # {} THEN [d |-> d, offset |-> Smallest(InternedAt(d.strings, word)) - 1]
  ELSE [d |-> [d EXCEPT !.strings = @ \o <<word, Nul>>], offset |-> Len(d.strings)]
InternFile(d, path) ==
  LET s == InternString(d, path)
      same == {i \in DOMAIN s.d.files : s.d.files[i] = s.offset}
  IN  IF same # {} THEN [d |-> s.d, id |-> Smallest(same) - 1]
      ELSE [d |-> [s.d EXCEPT !.files = Append(@, s.offset)], id |-> Len(s.d.files)]

RecordLine(d, l) ==
  LET written == InternFile(d, l.file)
      expanded == InternFile(written.d, l.expansionFile)
  IN  [expanded.d EXCEPT !.lines = Append(@, [address |-> l.address, fileId |-> written.id, line |-> l.line,
                                              expansionFileId |-> expanded.id, expansionLine |-> l.expansionLine, first |-> FALSE])]
RecordSymbol(d, s) ==
  LET named == InternString(d, s.name)
  IN  [named.d EXCEPT !.symbols = Append(@, [nameOffset |-> named.offset, address |-> s.address, size |-> s.size, section |-> s.section])]
\* A function is a label of the text that is not local, and ends where the next begins.
RecordFrames(d, starts, end) ==
  [d EXCEPT !.frames = [i \in DOMAIN starts |-> [address |-> starts[i].address, enter |-> starts[i].enter,
                                                 endAddress |-> IF i < Len(starts) THEN starts[i + 1].address ELSE end]]]

SameLine2(a, b) == a.expansionFileId = b.expansionFileId /\ a.expansionLine = b.expansionLine
MarkedFirst(rows) == [i \in DOMAIN rows |-> [rows[i] EXCEPT !.first = i = 1 \/ ~SameLine2(rows[i], rows[i - 1])]]
Release(d) == [d EXCEPT !.lines = MarkedFirst(ByAddress(@)), !.symbols = ByAddress(@)]

\* The tables of a unit, with addresses within its own sections.
Built(u) ==
  LET lined == FoldLeft(RecordLine, Empty, u.lines)
      named == FoldLeft(RecordSymbol, lined, u.symbols)
  IN  Release(RecordFrames(named, ByAddress(u.frames), u.sizes.text))

-----------------------------------------------------------------------------
(* The lookups.                                                              *)

None == [none |-> TRUE]
WordAt(d, offset) == IF offset >= Len(d.strings) THEN Nul ELSE d.strings[offset + 1]
FileName(d, id) == IF id >= Len(d.files) THEN Nul ELSE WordAt(d, d.files[id + 1])
AtOrBefore(d, address) == {i \in DOMAIN d.lines : d.lines[i].address <= address}
Describe(d, l) == [file |-> FileName(d, l.fileId), line |-> l.line, expansionFile |-> FileName(d, l.expansionFileId),
                   expansionLine |-> l.expansionLine, first |-> l.first]
LocationOf(d, address) ==
  LET before == AtOrBefore(d, address)
      exact == {i \in before : d.lines[i].address = address}
      last == CHOOSE i \in before : \A j \in before : j <= i
  IN  IF exact # {} THEN Describe(d, d.lines[Smallest(exact)])
      ELSE IF before = {} \/ address - d.lines[last].address >= AddressTolerance THEN None
      ELSE Describe(d, d.lines[last])
FrameAt(d, address) ==
  LET in == {i \in DOMAIN d.frames : d.frames[i].address <= address /\ address < d.frames[i].endAddress}
  IN  IF in = {} THEN None ELSE d.frames[Smallest(in)]
SymbolContaining(d, address) ==
  LET in == {i \in DOMAIN d.symbols : d.symbols[i].address <= address /\ address < d.symbols[i].address + d.symbols[i].size}
      nearest == {i \in in : \A j \in in : d.symbols[j].address <= d.symbols[i].address}
  IN  IF in = {} THEN None ELSE d.symbols[Smallest(nearest)]

Normal(path) == IF Len(path) = 2 /\ path[1] = "./" THEN <<"", path[2]>> ELSE path
Ids(d) == 0..(Len(d.files) - 1)
\* As it is, then normalised, then by the file's name alone if one path recorded bears it.
ResolveFileId(d, path) ==
  LET exact == {f \in Ids(d) : FileName(d, f) = path}
      alike == {f \in Ids(d) : Normal(FileName(d, f)) = Normal(path)}
      named == {f \in Ids(d) : FileName(d, f) # Nul /\ Last(FileName(d, f)) = Last(path)}
  IN  IF exact # {} THEN Smallest(exact)
      ELSE IF alike # {} THEN Smallest(alike)
      ELSE IF Cardinality(named) = 1 THEN Smallest(named) ELSE -1
AddressesOf(d, path, line) ==
  LET id == ResolveFileId(d, path)
  IN  {d.lines[i].address : i \in {k \in DOMAIN d.lines : d.lines[k].expansionFileId = id /\ d.lines[k].expansionLine = line}}
\* Where a breakpoint on the line goes.
FirstAddressOfLine(d, path, line) ==
  LET id == ResolveFileId(d, path)
      firsts == {i \in DOMAIN d.lines : d.lines[i].expansionFileId = id /\ d.lines[i].expansionLine = line /\ d.lines[i].first}
  IN  IF firsts = {} THEN -1 ELSE d.lines[Smallest(firsts)].address

-----------------------------------------------------------------------------
(* The link.                                                                 *)

(* Mutant: the files of the other are not moved behind these. *)
MergeSameIds(d, o, base) ==
  IF o.lines = << >> /\ o.symbols = << >> /\ o.frames = << >> THEN d
  ELSE [files   |-> d.files \o [i \in DOMAIN o.files |-> o.files[i] + Len(d.strings)],
        strings |-> d.strings \o o.strings,
        lines   |-> ByAddress(d.lines \o [i \in DOMAIN o.lines |-> [o.lines[i] EXCEPT !.address = @ + base.text]]),
        frames  |-> ByAddress(d.frames \o [i \in DOMAIN o.frames |-> [o.frames[i] EXCEPT !.address = @ + base.text, !.endAddress = @ + base.text]]),
        symbols |-> ByAddress(d.symbols \o [i \in DOMAIN o.symbols |->
          [o.symbols[i] EXCEPT !.nameOffset = @ + Len(d.strings), !.address = IF o.symbols[i].section = "none" THEN @ ELSE @ + base[o.symbols[i].section]]])]
Merge(d, o, base) ==
  IF o.lines = << >> /\ o.symbols = << >> /\ o.frames = << >> THEN d
  ELSE [files   |-> d.files \o [i \in DOMAIN o.files |-> o.files[i] + Len(d.strings)],
        strings |-> d.strings \o o.strings,
        lines   |-> ByAddress(d.lines \o [i \in DOMAIN o.lines |->
          [o.lines[i] EXCEPT !.address = @ + base.text, !.fileId = @ + Len(d.files), !.expansionFileId = @ + Len(d.files)]]),
        frames  |-> ByAddress(d.frames \o [i \in DOMAIN o.frames |-> [o.frames[i] EXCEPT !.address = @ + base.text, !.endAddress = @ + base.text]]),
        symbols |-> ByAddress(d.symbols \o [i \in DOMAIN o.symbols |->
          [o.symbols[i] EXCEPT !.nameOffset = @ + Len(d.strings), !.address = IF o.symbols[i].section = "none" THEN @ ELSE @ + base[o.symbols[i].section]]])]

Sum2(us, s) == FoldLeft(LAMBDA n, u : n + u.sizes[s], 0, us)
\* All the text, then all the read-only data, the data and the space.
Bases(us, n) ==
  LET own(s) == Sum2(SubSeq(us, 1, n), s)
      rodata == TextBase + Sum2(us, "text")   data == rodata + Sum2(us, "rodata")   bss == data + Sum2(us, "data")
  IN  [text |-> TextBase + own("text"), rodata |-> rodata + own("rodata"), data |-> data + own("data"), bss |-> bss + own("bss")]

TablesIdle == parts = << >> /\ info = Empty /\ merged = 0
TablesInit == parts \in Links /\ info = Empty /\ merged = 0
MergeNext ==
  /\ merged < Len(parts) /\ merged' = merged + 1
  /\ info' = Merge(info, Built(parts[merged + 1]), Bases(parts, merged))
  /\ UNCHANGED parts

(***************************************************************************)
(* Properties.                                                             *)
(***************************************************************************)

Named(d, s) == IF s = None THEN Nul ELSE WordAt(d, s.nameOffset)
\* Every address of a unit is, in the tables of the program, on the line, in the function and
\* in the variable that the unit's own tables say, whatever was linked before and after it.
PlacesAgree ==
  \A n \in 1..merged :
    LET u == parts[n]   own == Built(u)   base == Bases(parts, n - 1)
    IN  /\ \A a \in 0..(u.sizes.text - 1) :
             /\ LocationOf(info, base.text + a) = LocationOf(own, a)
             /\ LET f == FrameAt(own, a)
                IN  FrameAt(info, base.text + a) =
                      IF f = None THEN None ELSE [f EXCEPT !.address = @ + base.text, !.endAddress = @ + base.text]
        /\ \A s \in ToSet(own.symbols) : (s.section # "none" /\ s.size > 0) =>
             \A a \in 0..(s.size - 1) : Named(info, SymbolContaining(info, base[s.section] + s.address + a)) = WordAt(own, s.nameOffset)

AskedFor(paths) == paths \cup {<<"/abs/", Last(p)>> : p \in paths}
\* A breakpoint on a line of a unit goes where the line is entered: at the lowest of the addresses
\* it has in the program, by the path recorded or one an editor makes of it.
LinesAreReached ==
  \A n \in 1..merged : \A l \in ToSet(parts[n].lines) : \A path \in AskedFor({l.expansionFile}) :
    Cardinality({f \in Ids(info) : Last(FileName(info, f)) = Last(path)}) = 1 =>
      LET all == {Bases(parts, m - 1).text + k.address : <<m, k>> \in
                    {p \in (1..merged) \X UNION {ToSet(parts[q].lines) : q \in 1..merged} :
                       p[2] \in ToSet(parts[p[1]].lines) /\ p[2].expansionFile = l.expansionFile /\ p[2].expansionLine = l.expansionLine}}
      IN  AddressesOf(info, path, l.expansionLine) = all /\ FirstAddressOfLine(info, path, l.expansionLine) = Smallest(all)

\* The merged tables answer both ways as each unit's own: from an address to its place in the
\* source, and from a line to where it is entered.
TablesAgree == PlacesAgree /\ LinesAreReached
=============================================================================
