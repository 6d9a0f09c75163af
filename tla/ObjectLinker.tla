---------------------------- MODULE ObjectLinker ----------------------------
(* From object files to a program: which members of an archive are in, what  *)
(* code nothing reaches and is left out, where every section goes, what      *)
(* every name means, and the fields the assembler left blank.                *)
(*                                                                           *)
(* A text is a sequence of instructions of four bytes, each with the object  *)
(* and the place it comes from; the other sections are sizes in bytes.       *)
(* Relocations fill whole instructions and words here: what fits which field *)
(* is Encoding's.                                                            *)
EXTENDS Integers, Sequences, FiniteSets, Functions, SequencesExt

CONSTANTS
  Inputs,     \* sequences of objects given to one link
  Options,    \* [gc, symtab, debug, library]
  SegmentStart   \* where a program's text goes

ASSUME ObjectAssumption == SegmentStart \in Nat /\ SegmentStart % 4 = 0

VARIABLES
  inputs,    \* what was given, objects and archive members
  option,    \* what was asked for
  selected,  \* the inputs that are in, by number
  chosen,    \* the members, in order: [from, obj], obj without its unused code
  live,      \* pieces of code something reaches: <<member, start>>
  work,      \* those whose own references are still to be followed
  failures,  \* what has been reported
  program,   \* [text, words, names, vectors, entry]
  linking    \* "select", "mark", "sweep", "place", "linked", "failed" or "idle"

objectVars == <<inputs, option, selected, chosen, live, work, failures, program, linking>>

-----------------------------------------------------------------------------
(* Which members are in.                                                     *)

External(r) == r.symbol # ""
NamesOf(obj) == {s.name : s \in obj.symbols}
DefinedBy(some) == UNION {NamesOf(inputs[i].obj) : i \in some}
Wants(obj) == {r.symbol : r \in {q \in obj.relocations : External(q)}} \cup {b.symbol : b \in {q \in obj.bindings : External(q)}}
Answering == LET wanted == UNION {Wants(inputs[i].obj) : i \in selected} \ DefinedBy(selected)
             IN  {i \in DOMAIN inputs \ selected : NamesOf(inputs[i].obj) \cap wanted # {}}

\* One pass takes the first member that answers an open name: it may open others.
SelectMember ==
  /\ linking = "select" /\ Answering # {}
  /\ selected' = selected \cup {CHOOSE i \in Answering : \A j \in Answering : i <= j}
  /\ UNCHANGED <<inputs, option, chosen, live, work, failures, program, linking>>

-----------------------------------------------------------------------------
(* Unused code.  A text is cut into pieces at its global names.              *)

TextSize(obj) == 4 * Len(obj.text)
Starts(obj) == {0} \cup (IF obj.movable THEN {s.offset : s \in {q \in obj.symbols : q.section = "text" /\ q.offset < TextSize(obj)}} ELSE {})
PieceOf(obj, offset) == CHOOSE s \in Starts(obj) : s <= offset /\ \A q \in Starts(obj) : q <= offset => q <= s
PieceEnd(obj, start) == LET later == {s \in Starts(obj) : s > start} \cup {TextSize(obj)} IN CHOOSE s \in later : \A q \in later : s <= q

\* Every member's definition of a name: more than one is an error, reported later.
Definers(members, n) == {m \in DOMAIN members : n \in NamesOf(members[m].obj)}
AllNames(members) == UNION {NamesOf(members[m].obj) : m \in DOMAIN members}
NameTwice(members) == \E n \in AllNames(members) : Cardinality(Definers(members, n)) > 1
SymbolOf(obj, n) == CHOOSE s \in obj.symbols : s.name = n

\* The piece a reference is to, if it is to code.
Marked(members, m, section, offset) == IF section = "text" THEN {<<m, PieceOf(members[m].obj, offset)>>} ELSE {}
MarkedName(members, n) ==
  UNION {LET s == SymbolOf(members[m].obj, n) IN Marked(members, m, s.section, s.offset) : m \in Definers(members, n)}
MarkedTarget(members, m, r) ==
  IF External(r) THEN MarkedName(members, r.symbol) ELSE Marked(members, m, r.section, r.addend)

\* Zero words at the end are taken for padding: the instruction before them decides.
EndsControl(obj, start, end) ==
  LET solid == {i \in ((start \div 4) + 1)..(end \div 4) : obj.text[i].op # "NOP"}
  IN  solid # {} /\ obj.text[CHOOSE i \in solid : \A j \in solid : j <= i].op \in {"JP", "JPR", "RET", "IRET"}

EntryName == "main"
Roots(members) ==
  LET Of(m) == members[m].obj
  IN  (IF EntryName \in AllNames(members) THEN MarkedName(members, EntryName)
       ELSE UNION {MarkedName(members, n) : n \in AllNames(members)})
      \cup UNION {UNION {MarkedTarget(members, m, b) : b \in Of(m).bindings} : m \in DOMAIN members}
      \cup UNION {UNION {MarkedTarget(members, m, r) : r \in {q \in Of(m).relocations : q.patched # "text"}} : m \in DOMAIN members}
      \cup UNION {{<<m, s>> : s \in Starts(Of(m))} : m \in {n \in DOMAIN members : ~Of(n).movable}}

(* Mutant: the last piece of an object never runs on into the next object. *)
RunsOnWithin(members, m, start) ==
  LET obj == members[m].obj  end == PieceEnd(obj, start)
  IN  IF EndsControl(obj, start, end) \/ end = TextSize(obj) THEN {} ELSE {<<m, end>>}

\* What a piece keeps: what it refers to, and what runs on from it, in its own object or at
\* the start of the next one that has any text.
RunsOn(members, m, start) ==
  LET obj == members[m].obj  end == PieceEnd(obj, start)
      after == {n \in DOMAIN members : n > m /\ members[n].obj.text # <<>>}
  IN  IF EndsControl(obj, start, end) THEN {}
      ELSE IF end < TextSize(obj) THEN {<<m, end>>}
      ELSE {<<n, 0>> : n \in {q \in after : \A o \in after : q <= o}}
Keeps(members, m, start) ==
  LET obj == members[m].obj
      inside == {r \in obj.relocations : r.patched = "text" /\ r.offset \in start..(PieceEnd(obj, start) - 1)}
  IN  UNION {MarkedTarget(members, m, r) : r \in inside} \cup RunsOn(members, m, start)

Members == LET order == SetToSortSeq(selected, <) IN [k \in DOMAIN order |-> [from |-> order[k], obj |-> inputs[order[k]].obj]]
MarkRoots ==
  /\ linking = "select" /\ Answering = {}
  /\ chosen' = Members
  /\ LET collects == option.gc /\ ~option.debug /\ ~NameTwice(Members)
     IN  /\ live' = IF collects THEN Roots(Members) ELSE {}
         /\ linking' = IF collects THEN "mark" ELSE "place"
  /\ work' = live'
  /\ UNCHANGED <<inputs, option, selected, failures, program>>

MarkPiece ==
  /\ linking = "mark" /\ work # {}
  /\ LET piece == CHOOSE p \in work : TRUE
         found == Keeps(chosen, piece[1], piece[2]) \ live
     IN  live' = live \cup found /\ work' = (work \ {piece}) \cup found
  /\ UNCHANGED <<inputs, option, selected, chosen, failures, program, linking>>

\* A member keeps its live pieces, closed up, and what pointed into them moves too.
Swept(m, obj) ==
  LET kept == {s \in Starts(obj) : <<m, s>> \in live}
      Gone(s) == LET dead == {q \in Starts(obj) \ kept : q < s} IN FoldSet(LAMBDA q, n : n + PieceEnd(obj, q) - q, 0, dead)
      Kept(offset) == offset >= TextSize(obj) \/ PieceOf(obj, offset) \in kept
      MovedTo(offset) == offset - Gone(IF offset >= TextSize(obj) THEN TextSize(obj) ELSE PieceOf(obj, offset))
      In(section, offset) == IF section = "text" THEN MovedTo(offset) ELSE offset
      Own(r) == IF External(r) THEN r.addend ELSE In(r.section, r.addend)
  IN  IF ~obj.movable \/ kept = Starts(obj) THEN obj
      ELSE [obj EXCEPT
        !.text = FlattenSeq([k \in 1..Len(SetToSortSeq(kept, <)) |->
                   LET s == SetToSortSeq(kept, <)[k] IN SubSeq(obj.text, (s \div 4) + 1, PieceEnd(obj, s) \div 4)]),
        !.symbols = {[s EXCEPT !.offset = In(s.section, s.offset)] : s \in {q \in obj.symbols : q.section = "text" => Kept(q.offset)}},
        !.relocations = {[r EXCEPT !.offset = In(r.patched, r.offset), !.addend = Own(r)] :
                           r \in {q \in obj.relocations : q.patched = "text" => Kept(q.offset)}},
        !.bindings = {[b EXCEPT !.addend = Own(b)] : b \in obj.bindings}]

Sweep ==
  /\ linking = "mark" /\ work = {}
  /\ chosen' = [m \in DOMAIN chosen |-> [chosen[m] EXCEPT !.obj = Swept(m, chosen[m].obj)]]
  /\ linking' = "place"
  /\ UNCHANGED <<inputs, option, selected, live, work, failures, program>>

-----------------------------------------------------------------------------
(* Where everything goes and what every name means.                          *)

Aligned(n) == ((n + 3) \div 4) * 4
SizeOf(obj, section) == CASE section = "text" -> TextSize(obj) [] section = "rodata" -> obj.rodata
                          [] section = "data" -> obj.data [] OTHER -> obj.bss
SumUpTo(members, n, section) == FoldFunction(LAMBDA a, b : a + b, 0, [m \in 1..n |-> Aligned(SizeOf(members[m].obj, section))])
\* --symtab: the names of the code, behind the members' own read-only data.
TextNames == UNION {{[name |-> s.name, m |-> m, offset |-> s.offset] : s \in {q \in chosen[m].obj.symbols : q.section = "text"}} : m \in DOMAIN chosen}
NameLength == 3
SymtabSize == IF option.symtab THEN Aligned(4 + 8 * Cardinality(TextNames) + (NameLength + 1) * Cardinality(TextNames)) ELSE 0
WholeOf(section) == SumUpTo(chosen, Len(chosen), section) + (IF section = "rodata" THEN SymtabSize ELSE 0)
StartOf == [text |-> SegmentStart, rodata |-> SegmentStart + WholeOf("text"), data |-> SegmentStart + WholeOf("text") + WholeOf("rodata"),
            bss |-> SegmentStart + WholeOf("text") + WholeOf("rodata") + WholeOf("data")]
Base(m, section) == StartOf[section] + SumUpTo(chosen, m - 1, section)

LinkerDefined ==
  [__text_start |-> StartOf.text, __text_end |-> StartOf.rodata, __rodata_start |-> StartOf.rodata, __rodata_end |-> StartOf.data,
   __data_start |-> StartOf.data, __data_end |-> StartOf.bss, __bss_start |-> StartOf.bss, __bss_end |-> StartOf.bss + WholeOf("bss"),
   __heap_start |-> StartOf.bss + WholeOf("bss"), __symtab_start |-> StartOf.data - SymtabSize, __symtab_end |-> StartOf.data]

\* The first of two definitions stands, and the link fails.
Known(n) == Definers(chosen, n) # {} \/ n \in DOMAIN LinkerDefined
Address(n) ==
  IF Definers(chosen, n) = {} THEN LinkerDefined[n]
  ELSE LET m == CHOOSE q \in Definers(chosen, n) : \A o \in Definers(chosen, n) : q <= o
           s == SymbolOf(chosen[m].obj, n)
       IN  Base(m, s.section) + s.offset
NameFailures ==
  {<<"twice", n>> : n \in {q \in AllNames(chosen) : Cardinality(Definers(chosen, q)) > 1}}
  \cup {<<"linker's", n>> : n \in AllNames(chosen) \cap DOMAIN LinkerDefined}

TargetAt(m, r) == IF External(r) THEN Address(r.symbol) + r.addend ELSE Base(m, r.section) + r.addend
Resolves(r) == External(r) => Known(r.symbol)
RelocationsOf(m, sections) == {r \in chosen[m].obj.relocations : r.patched \in sections}
InBounds(m, r) ==
  IF r.patched = "text" THEN (Base(m, "text") - StartOf.text) + r.offset + 4 <= WholeOf("text")
  ELSE r.offset + 4 <= SizeOf(chosen[m].obj, r.patched)
RelocationFailures ==
  UNION {{<<"undefined", r.symbol>> : r \in {q \in chosen[m].obj.relocations : ~Resolves(q)}} : m \in DOMAIN chosen}
  \cup UNION {{<<"bounds", m>> : r \in {q \in chosen[m].obj.relocations : Resolves(q) /\ q.patched # "bss" /\ ~InBounds(m, q)}} : m \in DOMAIN chosen}
  \cup UNION {{<<"no bytes", m>> : r \in RelocationsOf(m, {"bss"})} : m \in DOMAIN chosen}

\* The instructions with the addresses in them, and the words of the data that hold one.
PatchedText ==
  FlattenSeq([m \in DOMAIN chosen |-> [i \in DOMAIN chosen[m].obj.text |->
    LET here == {r \in RelocationsOf(m, {"text"}) : r.offset = 4 * (i - 1)}
    IN  [ins |-> chosen[m].obj.text[i], to |-> IF here = {} THEN -1 ELSE TargetAt(m, CHOOSE r \in here : TRUE)]]])
PatchedWords ==
  UNION {{[at |-> Base(m, r.patched) + r.offset, to |-> TargetAt(m, r)] : r \in RelocationsOf(m, {"rodata", "data"})} : m \in DOMAIN chosen}
NameTable ==
  LET at == {[name |-> e.name, a |-> Base(e.m, "text") + e.offset] : e \in TextNames}
  IN  IF option.symtab THEN SetToSortSeq(at, LAMBDA x, y : x.a < y.a) ELSE <<>>

\* Vectors: what no object could check alone is a second binding of one number.
AllBindings == UNION {{[m |-> m, b |-> b] : b \in chosen[m].obj.bindings} : m \in DOMAIN chosen}
Binds63(e) == e.b.number \in 1..63
Vectors == {[number |-> e.b.number, to |-> TargetAt(e.m, e.b)] : e \in {q \in AllBindings : Binds63(q) /\ Resolves(q.b)}}
VectorFailures ==
  {<<"number", e.m>> : e \in {q \in AllBindings : ~Binds63(q)}}
  \cup {<<"undefined", e.b.symbol>> : e \in {q \in AllBindings : Binds63(q) /\ ~Resolves(q.b)}}
  \cup {<<"bound twice", e.b.number>> : e \in {q \in AllBindings : Binds63(q) /\ Resolves(q.b) /\ \E o \in AllBindings : o # q /\ o.b.number = q.b.number /\ Resolves(o.b)}}
EntryFailures == IF ~option.library /\ ~Known(EntryName) THEN {<<"no entry">>} ELSE {}

\* Placing, naming, patching and binding report what they find; only then does the link fail.
PlaceAndPatch ==
  /\ linking = "place"
  /\ failures' = NameFailures \cup RelocationFailures \cup VectorFailures \cup EntryFailures
  /\ linking' = IF failures' = {} THEN "linked" ELSE "failed"
  /\ program' = IF failures' = {}
                THEN [text |-> PatchedText, words |-> PatchedWords, names |-> NameTable, vectors |-> Vectors,
                      entry |-> IF Known(EntryName) THEN Address(EntryName) ELSE 0]
                ELSE program
  /\ UNCHANGED <<inputs, option, selected, chosen, live, work>>

NoProgram == [text |-> <<>>, words |-> {}, names |-> <<>>, vectors |-> {}, entry |-> 0]
ObjectInit ==
  /\ inputs \in Inputs /\ option \in Options
  /\ selected = {i \in DOMAIN inputs : ~inputs[i].archive}
  /\ chosen = <<>> /\ live = {} /\ work = {} /\ failures = {} /\ program = NoProgram /\ linking = "select"
ObjectIdle ==
  /\ inputs = <<>> /\ option = [gc |-> FALSE, symtab |-> FALSE, debug |-> FALSE, library |-> FALSE] /\ selected = {}
  /\ chosen = <<>> /\ live = {} /\ work = {} /\ failures = {} /\ program = NoProgram /\ linking = "idle"

ObjectNext == SelectMember \/ MarkRoots \/ MarkPiece \/ Sweep \/ PlaceAndPatch
ObjectSpec == ObjectInit /\ [][ObjectNext]_objectVars

(***************************************************************************)
(* Properties.                                                             *)
(***************************************************************************)

\* What a reference in an input is to, whatever the link makes of it: <<input, section, offset>>.
MeantBy(i, r) ==
  IF ~External(r) THEN <<i, r.section, r.addend>>
  ELSE LET j == CHOOSE j \in selected : r.symbol \in NamesOf(inputs[j].obj)
           s == SymbolOf(inputs[j].obj, r.symbol)
       IN  <<j, s.section, s.offset + r.addend>>
Meant(r) == External(r) => r.symbol \in DefinedBy(selected)
CodeAt(place) == IF place[2] = "text" /\ place[3] < TextSize(inputs[place[1]].obj) THEN {<<place[1], (place[3] \div 4) + 1>>} ELSE {}
After(w) ==
  LET more == {i \in selected : i > w[1] /\ inputs[i].obj.text # <<>>}
  IN  IF inputs[w[1]].obj.text[w[2]].op \in {"JP", "JPR", "RET", "IRET"} THEN {}
      ELSE IF w[2] < Len(inputs[w[1]].obj.text) THEN {<<w[1], w[2] + 1>>}
      ELSE {<<i, 1>> : i \in {q \in more : \A o \in more : q <= o}}
RefersTo(i, some) == UNION {CodeAt(MeantBy(i, r)) : r \in {q \in some : Meant(q)}}
At(w) == {r \in inputs[w[1]].obj.relocations : r.patched = "text" /\ r.offset = 4 * (w[2] - 1)}

\* The instructions the machine, or the program's data, can reach.
RECURSIVE Closed(_)
Closed(some) == LET more == UNION {After(w) \cup RefersTo(w[1], At(w)) : w \in some}
                IN  IF more \subseteq some THEN some ELSE Closed(some \cup more)
Reached ==
  LET first == IF EntryName \in DefinedBy(selected) THEN {EntryName} ELSE DefinedBy(selected)
  IN  Closed(UNION {CodeAt(MeantBy(1, [symbol |-> n, addend |-> 0])) : n \in first}
             \cup UNION {RefersTo(i, inputs[i].obj.bindings \cup {r \in inputs[i].obj.relocations : r.patched # "text"}) : i \in selected})

\* A label inside a function on a NOP that ends it, behind a jump.
EntersPadding == \E i \in selected : \E r \in inputs[i].obj.relocations \cup inputs[i].obj.bindings :
  ~External(r) /\ \E w \in CodeAt(<<i, r.section, r.addend>>) : inputs[i].obj.text[w[2]].op = "NOP"

\* The address of a place of an input in the program that was linked.
MemberOf(i) == CHOOSE m \in DOMAIN chosen : chosen[m].from = i
AddressOf(place) ==
  IF CodeAt(place) # {} THEN LET w == CHOOSE w \in CodeAt(place) : TRUE
                             IN  {SegmentStart + 4 * (k - 1) : k \in {q \in DOMAIN program.text : program.text[q].ins.id = w}}
  ELSE {Base(MemberOf(place[1]), place[2]) + (IF place[2] = "text" THEN TextSize(chosen[MemberOf(place[1])].obj) ELSE place[3])}
RunsAsWritten ==
  \A w \in Reached : \E k \in DOMAIN program.text :
    /\ program.text[k].ins.id = w
    /\ \A r \in At(w) : Meant(r) => AddressOf(MeantBy(w[1], r)) = {program.text[k].to}
    /\ \A n \in After(w) : k < Len(program.text) /\ program.text[k + 1].ins.id = n

\* Whatever members were pulled in and code left out, every instruction the program can
\* reach is in it, is followed by the one that followed it in its source, and refers to
\* what it referred to there, wherever that has moved; so do the vectors, the words of the
\* data, and the table of names, which is in order.
SameProgram ==
  /\ RunsAsWritten
  /\ EntryName \in DefinedBy(selected) => {program.entry} = AddressOf(MeantBy(1, [symbol |-> EntryName, addend |-> 0]))
  /\ \A i \in selected : \A r \in {q \in inputs[i].obj.relocations : q.patched # "text" /\ Meant(q)} :
       [at |-> Base(MemberOf(i), r.patched) + r.offset, to |-> CHOOSE a \in AddressOf(MeantBy(i, r)) : TRUE] \in program.words
  /\ program.vectors = UNION {{[number |-> b.number, to |-> CHOOSE a \in AddressOf(MeantBy(i, b)) : TRUE] : b \in inputs[i].obj.bindings} : i \in selected}
  /\ \A e \in Range(program.names) : {e.a} = AddressOf(MeantBy(1, [symbol |-> e.name, addend |-> 0]))
  /\ \A k \in 1..(Len(program.names) - 1) : program.names[k].a <= program.names[k + 1].a
LinkedAsWritten == linking = "linked" /\ ~EntersPadding => SameProgram

\* "A piece is kept when ... the piece before it is kept and does not end in a jump or a
\* return, since it could run on into it" (object_linker.h): so what is kept runs as it
\* would have, a label on a NOP included.
CollectionIsSafe == linking = "linked" => RunsAsWritten

\* A name is undefined only when no object and no archive defines it, and a link asked to
\* leave code out never fails for a name only the whole link would have needed.
UndefinedIsNowhere == linking = "failed" =>
  \A n \in {f[2] : f \in {q \in failures : q[1] = "undefined"}} :
    /\ n \notin DefinedBy(DOMAIN inputs)
    /\ \E i \in selected : n \in Wants(inputs[i].obj)

\* A link gives the program its sources mean, or fails for a name that nothing defines.
LinkIsSound == LinkedAsWritten /\ UndefinedIsNowhere
=============================================================================
