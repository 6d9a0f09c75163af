---------------------------- MODULE MCToolchain ----------------------------
(* Small programs for the assembler: a main file and two it may import; and  *)
(* every row of the instruction table with operands at the ends of what its  *)
(* fields hold.                                                              *)
EXTENDS Assembler, Encoding, ObjectLinker, BinaryFormats, DebugTables

Sec(s)        == [k |-> "section", sec |-> s]
Label(n, l)   == [k |-> "label", n |-> <<n>>, level |-> l]
Name(n)       == [t |-> "name", n |-> n, local |-> FALSE, deref |-> FALSE]
Contents(n)   == [Name(n) EXCEPT !.deref = TRUE]
Local(n)      == [Name(<<n>>) EXCEPT !.local = TRUE]
Number(v)     == [t |-> "imm", v |-> v]
Insn(m, op)   == [k |-> "insn", m |-> m, op |-> op]
Nop           == Insn("nop", [t |-> "none"])
Var(n, g, a)  == [k |-> "var", n |-> <<n>>, glob |-> g, size |-> a, align |-> a, init |-> TRUE,
                  ref |-> <<>>]
Space(n, a)   == [Var(n, FALSE, a) EXCEPT !.init = FALSE]
Pointer(n, r) == [Var(n, FALSE, 4) EXCEPT !.ref = r]
Const(n, g, v) == [k |-> "const", n |-> <<n>>, glob |-> g, value |-> Number(v)]
ImportOf(f, a) == [k |-> "import", file |-> f, alias |-> a]
Directive(k, v) == [k |-> k, value |-> v]

\* Layout: loads that may be shortened, padding in every section, a library between the
\* main file's code and its data.
LayoutSource ==
    "m" :> << {ImportOf("l", "")}, {Sec("text")}, {Label("main", "global")},
              {Insn("ldv", Name(<<"v">>)), Insn("mov", Contents(<<"g">>)), Insn("jp", Local("e"))},
              {Insn("mov", Name(<<"f">>)), Insn("ldvp", Name(<<"v">>)), Directive("align", Number(8)),
               Insn("mov", Name(<<"__heap_start">>))},
              {Label("e", "local")},
              {Insn("ldv", Name(<<"g">>)), Insn("jp", Local("e")), Nop},
              {Sec("data"), Sec("rodata")},
              {Var("b", FALSE, 1), Directive("org", Number(6)), Sec("bss")},
              {Var("v", FALSE, 4), Space("v", 2)}, {Pointer("p", <<"main">>), Space("z", 4)} >>
 @@ "l" :> << {Sec("text")}, {Label("f", "global")},
              {Insn("mov", Contents(<<"g">>)), Insn("jp", Name(<<"main">>))},
              {Sec("data"), Sec("rodata")}, {Var("g", TRUE, 4), Pointer("g", <<"f">>)},
              {Var("c", FALSE, 1), Directive("align", Number(8))} >>


\* Names: two libraries that may export the same name, a private one, an alias, constants
\* before and after, an interrupt binding, a struct.
Interrupt(v, n) == [k |-> "interrupt", number |-> v, op |-> n]
Struct(n, g, fs) == [k |-> "struct", n |-> <<n>>, glob |-> g, fields |-> fs]
NamesSource ==
    "m" :> << {ImportOf("l", ""), ImportOf("l", "q")}, {ImportOf("k", ""), Const("c", FALSE, 3)},
              {Sec("text")}, {Label("main", "global")},
              {Insn("mov", Name(<<"x">>)), Insn("mov", Name(<<"q", "x">>)),
               Insn("jp", Name(<<"h">>)), Insn("mov", Name(<<"s", "b">>))},
              {Interrupt(Number(3), Name(<<"h">>)), Interrupt(Name(<<"c">>), Name(<<"x">>)),
               [k |-> "assert", value |-> Name(<<"c">>)]},
              {Sec("bss")}, {Space("x", 4), Space("y", 2)} >>
 @@ "l" :> << {Const("c", TRUE, 2), Struct("s", TRUE, << [n |-> <<"a">>, size |-> 1, align |-> 1],
                                                         [n |-> <<"b">>, size |-> 4, align |-> 4] >>)},
              {Sec("text")}, {Label("h", "global"), Label("h", "file")},
              {Interrupt(Number(3), Name(<<"h">>)), Insn("jp", Name(<<"main">>))},
              {Sec("data")}, {Var("x", TRUE, 4), Var("x", FALSE, 4)} >>
 @@ "k" :> << {ImportOf("l", ""), Const("c", TRUE, 1), ImportOf("m", "")}, {Sec("rodata"), Sec("data")},
              {Var("x", TRUE, 1), Var("w", TRUE, 1)} >>

\* Macros: one that has a label of its own, is called twice, from the library and from
\* the main file, around a local label; one that calls another; one that calls itself.
Call(n, op)     == [k |-> "call", n |-> <<n>>, op |-> op]
MacroOf(n, g, b) == [k |-> "macro", n |-> <<n>>, glob |-> g, body |-> b]
OwnLabel        == [t |-> "mlabel", n |-> <<"%s">>]
Skip(g)  == MacroOf("skip", g, << Insn("jp", OwnLabel), Insn("ldv", [t |-> "param"]),
                                  [k |-> "mlabel", n |-> <<"%s">>] >>)
Twice    == MacroOf("twice", FALSE, << Call("skip", [t |-> "param"]), Call("skip", Name(<<"v">>)) >>)
Again    == MacroOf("again", FALSE, << Call("again", [t |-> "param"]) >>)
MacroSource ==
    "m" :> << {ImportOf("l", ""), Skip(FALSE)}, {Twice, Again}, {Sec("text")}, {Label("main", "global")},
              {Label("e", "local")},
              {Call("skip", Name(<<"v">>)), Call("twice", Name(<<"v">>)), Call("again", Name(<<"v">>))},
              {Insn("jp", Local("e")), Insn("jp", Name(<<"main">>)), Call("skip", Name(<<"b">>)),
               [k |-> "mlabel", n |-> <<"%s">>]},
              {Sec("data")}, {Var("b", FALSE, 1), Space("b", 2)}, {Var("v", FALSE, 4)} >>
 @@ "l" :> << {Skip(TRUE), Skip(FALSE)}, {Sec("text")}, {Label("f", "global")},
              {Call("skip", Name(<<"u">>)), Nop}, {Sec("data")}, {Var("u", FALSE, 4)} >>

MCSources == {LayoutSource, NamesSource, MacroSource}
MCRoot == <<"m">>

MCNumbers == {5, -3, 63, 64, 40000, 70000}
MCDisplacements == {8, -8, 32767, 32768}
MCPlaces == {-8388612, -8388608, -524292, -524288, -32769, -32768, 20, 32767, 32768, 524287, 524288,
             8388604, 8388608, 16777212, 16777216}

-----------------------------------------------------------------------------
(* Objects: one with the entry point and a function, one with two functions, *)
(* a third that an archive holds.  Two words of each are chosen.             *)

Plainly(op) == [op |-> op, to |-> "", section |-> "", at |-> 0]
To(op, n)   == [Plainly(op) EXCEPT !.to = n]
Here4(op, at) == [Plainly(op) EXCEPT !.section = "text", !.at = at]
Ref(patched, offset, w) == [patched |-> patched, offset |-> offset, symbol |-> w.to, section |-> w.section, addend |-> w.at]
\* An object from its words, the names of its code, and what its data and vectors refer to.
Object(o, ws, names, words, bindings) ==
  [movable |-> TRUE, text |-> [n \in DOMAIN ws |-> [op |-> ws[n].op, id |-> <<o, n>>]], rodata |-> 5, data |-> 4, bss |-> 2,
   symbols |-> names,
   relocations |-> {Ref("text", 4 * (n - 1), ws[n]) : n \in {k \in DOMAIN ws : ws[k].to # "" \/ ws[k].section # ""}} \cup words,
   bindings |-> bindings]
Fn(n, offset) == [name |-> n, section |-> "text", offset |-> offset]
Bound(number, w) == [number |-> number, symbol |-> w.to, section |-> w.section, addend |-> w.at]
Op1  == Plainly("OP")
Ret  == Plainly("RET")
Skip1 == Plainly("NOP")

First(b, d, words, bindings) ==
  Object(1, <<Op1, b, Here4("JZ", 12), d>>, {Fn("main", 0), Fn("fun", 8)}, words, bindings)
FirstWords == {Op1, Ret, To("CALL", "two"), Here4("JP", 12)}
Second(b, d) == Object(2, <<Op1, b, Op1, d>>, {Fn("one", 0), Fn("two", 8), [name |-> "var", section |-> "data", offset |-> 0]}, {}, {})
Third(b, names) == Object(3, <<b, Ret>>, names, {}, {})
Given(a, archive) == [obj |-> a, archive |-> archive]
Lists(firsts, seconds, thirds) == {<<Given(a, FALSE), Given(b, x), Given(c, TRUE)>> : a \in firsts, b \in seconds, x \in BOOLEAN, c \in thirds}

Reaching == Lists({First(b, d, {}, {}) : b \in FirstWords, d \in FirstWords},
                  {Second(b, d) : b \in {Op1, Ret, To("CALL", "fun"), Here4("JP", 8)}, d \in {Skip1, Ret, Here4("JP", 4), To("CALL", "ext")}},
                  {Third(Op1, {Fn("ext", 0)})})
\* Data, vectors, names defined twice or by the linker, and none at all.
Others == Lists({First(To("LEA", n), Ret, {Ref("rodata", 0, Here4("", 12)), Ref("data", 0, To("", "one"))}, v) :
                   n \in {"var", "none", "__heap_start", "ext"},
                   v \in {{}, {Bound(3, To("", "ext"))}, {Bound(3, To("", "none"))}, {Bound(3, Here4("", 8))}}},
                {Second(Ret, Ret), [Second(Ret, To("CALL", "ext")) EXCEPT !.movable = FALSE, !.bindings = {Bound(3, Here4("", 8))}]},
                {Third(Op1, {Fn("ext", 0)}), Third(Op1, {Fn("ext", 0), Fn("two", 4)}), Third(Op1, {Fn("ext", 4), Fn("__data_end", 4)})})
Library == {<<Given(Object(1, <<Ret, Op1, Ret>>, {Fn("ext", 4)}, {}, {}), FALSE)>>}
MCInputs == Reaching \cup Others \cup Library
MCOptions == {[gc |-> TRUE, symtab |-> FALSE, debug |-> FALSE, library |-> FALSE], [gc |-> TRUE, symtab |-> TRUE, debug |-> FALSE, library |-> TRUE],
              [gc |-> TRUE, symtab |-> TRUE, debug |-> TRUE, library |-> FALSE]}
\* A label on the NOP that ends a function, behind a jump.
PaddedInputs == {<<Given(Object(1, <<Op1, Here4("JZ", 12), To("JP", "two"), Skip1, Op1, Ret>>, {Fn("main", 0), Fn("fun", 16)}, {}, {}), FALSE),
                   Given(Second(b, Ret), FALSE)>> : b \in {Op1, Ret}}

-----------------------------------------------------------------------------
(* Files: programs with and without their tables, objects, archives and debug *)
(* sections.  A name is a few bytes.                                          *)

Document(k, holds) == [kind |-> k, holds |-> holds]
ProgramFile(t, v, d) ==
  Document("program", [entryPoint |-> 8, text |-> t, rodata |-> <<5>>, data |-> <<6, 6>>, bss |-> 3, minimumStack |-> 0, vectors |-> v, debug |-> d])
ProgramFiles == {ProgramFile(t, v, d) : t \in {<< >>, <<1, 2>>}, v \in {<< >>, << <<3, 8>>, <<4, 300>> >>, << <<3, 8>>, <<4, 1>>, <<5, 2>> >>},
                                        d \in {<< >>, <<7, 7, 7, 7>>}}
PublishedBy(n, s) == [name |-> n, section |-> s, offset |-> 4]
Blank4(p, s, relative, addend, n) ==
  [offset |-> 8, patched |-> p, field |-> 1, shift |-> 2, pcRelative |-> relative, external |-> ~relative, section |-> s, addend |-> addend, symbol |-> n]
Unit(ss, rs, bs, d) == [flags |-> 1, sourceFile |-> <<9>>, text |-> <<1, 2>>, rodata |-> << >>, data |-> <<3>>, bss |-> 2,
                        symbols |-> ss, relocations |-> rs, bindings |-> bs, debug |-> d]
Unit1 == Unit(<<PublishedBy(<<9>>, 0), PublishedBy(<<8, 8>>, 2)>>, <<Blank4(0, 3, TRUE, -8, <<9>>), Blank4(2, 0, FALSE, 300, << >>)>>, << >>, << >>)
Unit2 == Unit(<< >>, << >>, << [number |-> 3, external |-> TRUE, section |-> 0, offset |-> 0, symbol |-> <<7>>] >>, <<1>>)
DebugFile(lines, names, frames) == Document("debug", [files |-> <<0, 2>>, lines |-> lines, symbols |-> names, frames |-> frames, strings |-> <<9, 0, 8, 0>>])
LineRow(a)  == [address |-> a, fileId |-> 0, line |-> 4, expansionFileId |-> 1, expansionLine |-> 2, flags |-> 1, macroDepth |-> 1]
EntryRow    == [nameOffset |-> 4, address |-> 4, size |-> 8, elementCount |-> 2, value |-> 0, kind |-> 2, section |-> 2, scalarType |-> 3, flags |-> 1]
FrameRow    == [address |-> 0, endAddress |-> 8, frameSize |-> 16, flags |-> 1]
MCDocuments == ProgramFiles \cup {Document("object", Unit1), Document("object", Unit2)}
          \cup {Document("archive", [members |-> << >>]), Document("archive", [members |-> <<[name |-> <<9>>, object |-> Unit1], [name |-> <<8>>, object |-> Unit2]>>])}
          \cup {DebugFile(ls, ns, fs) : ls \in {<< >>, <<LineRow(0), LineRow(4)>>}, ns \in {<< >>, <<EntryRow>>}, fs \in {<< >>, <<FrameRow>>}}

-----------------------------------------------------------------------------
(* Debug tables: units that use each other's macros, one whose text begins    *)
(* with padding, one without tables.                                          *)

Expanded(a, f, l, ef, el) == [address |-> a, file |-> f, line |-> l, expansionFile |-> ef, expansionLine |-> el]
PlainLine(a, f, l) == Expanded(a, f, l, f, l)
MainFile  == <<"", "main">>
LibFile   == <<"./", "lib">>
OtherFile == <<"", "other">>
Tables(ls, ss, fs, t, d) == [lines |-> ls, symbols |-> ss, frames |-> fs, sizes |-> [text |-> t, rodata |-> 0, data |-> d, bss |-> 4]]
SymbolRow(n, a, z, s) == [name |-> <<n>>, address |-> a, size |-> z, section |-> s]
FunctionRow(a, e) == [address |-> a, enter |-> e]
MainTables == Tables(<<PlainLine(0, MainFile, 3), PlainLine(4, MainFile, 3), Expanded(8, OtherFile, 1, MainFile, 5), Expanded(12, OtherFile, 1, MainFile, 6), PlainLine(16, MainFile, 3)>>,
                     <<SymbolRow("main", 0, 0, "text"), SymbolRow("v", 0, 4, "data"), SymbolRow("k", 0, 4, "none")>>, <<FunctionRow(8, TRUE), FunctionRow(0, FALSE)>>, 24, 4)
UserTables == Tables(<<Expanded(4, LibFile, 2, OtherFile, 3), PlainLine(0, OtherFile, 2)>>,
                     <<SymbolRow("w", 2, 2, "bss"), SymbolRow("user", 0, 0, "text")>>, <<FunctionRow(0, TRUE)>>, 8, 0)
LibTables  == Tables(<<PlainLine(4, LibFile, 7), PlainLine(8, LibFile, 7)>>,
                     <<SymbolRow("f", 4, 0, "text"), SymbolRow("v", 0, 2, "data"), SymbolRow("w", 2, 2, "data")>>, <<FunctionRow(4, FALSE)>>, 12, 4)
NoTables   == Tables(<< >>, << >>, << >>, 4, 4)
MCLinks == {f \in UNION {[1..n -> {MainTables, UserTables, LibTables, NoTables}] : n \in 1..4} : \A i, j \in DOMAIN f : f[i] = f[j] => i = j}

-----------------------------------------------------------------------------
(* A program is assembled, or one statement is encoded, or objects linked, or *)
(* a file written and cut short, or debug tables put together.                *)

ToolVars == <<avars, encodingVars, objectVars, formatVars, tableVars>>
ToolInit ==
  \/ Init /\ EncodingIdle /\ ObjectIdle /\ FormatsIdle /\ TablesIdle
  \/ AssemblerIdle /\ EncodingInit /\ ObjectIdle /\ FormatsIdle /\ TablesIdle
  \/ AssemblerIdle /\ EncodingIdle /\ ObjectInit /\ FormatsIdle /\ TablesIdle
  \/ AssemblerIdle /\ EncodingIdle /\ ObjectIdle /\ FormatsInit /\ TablesIdle
  \/ AssemblerIdle /\ EncodingIdle /\ ObjectIdle /\ FormatsIdle /\ TablesInit
ToolNext ==
  \/ Next /\ UNCHANGED <<encodingVars, objectVars, formatVars, tableVars>>
  \/ EncodingNext /\ UNCHANGED <<avars, objectVars, formatVars, tableVars>>
  \/ ObjectNext /\ UNCHANGED <<avars, encodingVars, formatVars, tableVars>>
  \/ CutShort /\ UNCHANGED <<avars, encodingVars, objectVars, tableVars>>
  \/ MergeNext /\ UNCHANGED <<avars, encodingVars, objectVars, formatVars>>
(* Objects are linked, and nothing else. *)
LinkSpec == AssemblerIdle /\ EncodingIdle /\ ObjectInit /\ FormatsIdle /\ TablesIdle /\ [][ToolNext]_ToolVars
=============================================================================
