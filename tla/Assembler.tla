------------------------------ MODULE Assembler ------------------------------
(***************************************************************************)
(* The assembler from parsed statements to a placed image: translation      *)
(* units are built statement by statement (an import builds another unit    *)
(* in the middle of one), the linker lays them out, resolves every operand, *)
(* relaxes what turned out to be near, puts the units back and lays them    *)
(* out again, and the emitter writes the bytes.                             *)
(*                                                                          *)
(* A name is a sequence of strings: <<"x">>, or <<"p", "x">> for what the   *)
(* source spells p.x, which is a local label, a field of a struct or a name *)
(* of a named import.  Bytes are counted, not written: what the emitter     *)
(* appends is a record of where it went, how long it is and which address   *)
(* it encodes.  Every diagnostic ends the assembly without a program, so    *)
(* the first one is the stage "failed"; the code goes on only to report     *)
(* more of them.                                                            *)
(***************************************************************************)
EXTENDS Integers, Sequences, FiniteSets, SequencesExt, TLC

CONSTANTS Sources,    \* the programs: for each file, which statements each line may be
          Root,       \* the files named on the command line, in order
          MaxDepth,   \* MaxMacroExpansionDepth
          TextStart,  \* MemoryMap::UnrestrictedSegmentStart
          Reach       \* 2^15: a one-word access reaches -Reach .. Reach - 1

ASSUME SourceAssumption ==
    /\ Root # <<>> /\ \A s \in Sources : Range(Root) \subseteq DOMAIN s
    /\ {MaxDepth, TextStart, Reach} \subseteq Nat

VARIABLES source,    \* the program being assembled
          units,     \* the units begun, by file
          order,     \* the files whose unit is built, in the order of the layout
          loading,   \* the imports being loaded: the last one is being built
          stage,     \* "build", "link", "relax", "relink", "emit", "done", "failed"
          globals,   \* the linker's table of global labels and variables
          snapshot,  \* what Linker::capture kept
          vectors,   \* the interrupt vectors: number -> the symbol bound
          image      \* what the emitter wrote, in order
avars == <<source, units, order, loading, stage, globals, snapshot, vectors, image>>

Sections == <<"text", "rodata", "data", "bss">>
Word == 4
AlignUp(n) == ((n + Word - 1) \div Word) * Word
Pad(n, a) == (a - (n % a)) % a

Nothing == [text |-> 0, rodata |-> 0, data |-> 0, bss |-> 0]
EmptyUnit == [ast |-> <<>>, syms |-> <<>>, size |-> Nothing,
              sec |-> "none", parent |-> "", imports |-> <<>>, macros |-> <<>>,
              expansions |-> 0, binds |-> <<>>, pending |-> <<>>, read |-> 0, ok |-> TRUE]
Bad(u) == [u EXCEPT !.ok = FALSE]
-----------------------------------------------------------------------------
(* Names: the unit's own table, what its imports export, the linker's      *)
(* table.                                                                  *)

\* (mutant) What a unit keeps to itself is found too.
IsDeclared(sym) == sym.kind \in {"const", "var"}

IsExported(sym) == sym.glob /\ sym.kind \in {"const", "var"}

\* The units an import can be answered from: the walk of the import graph
\* below f, each unit once, in the order it is reached.
RECURSIVE Walk(_, _, _)
Walk(us, seen, todo) ==
    CASE todo = <<>> -> seen
      [] Head(todo) \in Range(seen) -> Walk(us, seen, Tail(todo))
      [] OTHER -> Walk(us, Append(seen, Head(todo)),
                       [i \in DOMAIN us[Head(todo)].imports |->
                            us[Head(todo)].imports[i].file] \o Tail(todo))
Beyond(us, f) == Tail(Walk(us, <<f>>, [i \in DOMAIN us[f].imports |-> us[f].imports[i].file]))

Exporters(us, f, n) ==
    SelectSeq(Beyond(us, f), LAMBDA g : n \in DOMAIN us[g].syms /\ IsExported(us[g].syms[n]))

Unknown == [kind |-> "unknown"]
Refused == [kind |-> "refused"]

ModuleNamed(us, f, alias) ==
    SelectSeq(us[f].imports, LAMBDA i : i.alias = alias)

\* A qualified name is answered by exactly one module, or refused.
Qualified(us, f, n) ==
    LET named == ModuleNamed(us, f, n[1])
        there == us[named[1].file].syms
    IN  IF named # <<>> /\ <<n[2]>> \in DOMAIN there /\ IsExported(there[<<n[2]>>])
        THEN there[<<n[2]>>] ELSE Refused

\* SymbolTable::lookupBeyond: two exporters of one name are an error at the use.
LookupBeyond(us, gl, f, n) ==
    LET found == Exporters(us, f, n) IN
    CASE Len(n) = 2 -> Qualified(us, f, n)
      [] Len(found) > 1 -> Refused
      [] Len(found) = 1 -> us[found[1]].syms[n]
      [] OTHER -> IF n \in DOMAIN gl THEN gl[n] ELSE Unknown

Lookup(us, gl, f, n) ==
    IF n \in DOMAIN us[f].syms THEN us[f].syms[n] ELSE LookupBeyond(us, gl, f, n)

\* TranslationUnit::resolveSymbol, for what is looked up by name alone (a value the build
\* folds, the address in an initial value): it takes the first exporter it reaches and
\* does not ask whether there is another.
ResolveSymbol(us, f, n) ==
    LET found == Exporters(us, f, n) IN
    CASE Len(n) = 2 /\ ModuleNamed(us, f, n[1]) # <<>> -> Qualified(us, f, n)
      [] n \in DOMAIN us[f].syms -> us[f].syms[n]
      [] found # <<>> -> us[found[1]].syms[n]
      [] OTHER -> Unknown

Folded(us, f, e) ==
    CASE e.t = "imm" -> [ok |-> TRUE, v |-> e.v]
      [] e.t = "name" ->
            LET sym == ResolveSymbol(us, f, e.n) IN
            IF sym.kind = "const" THEN [ok |-> TRUE, v |-> sym.val] ELSE [ok |-> FALSE, v |-> 0]

\* SymbolTable::resolveOperand.  While the unit is built ("early") only constants are
\* taken, and a name not found yet is left; at the link nothing is left to wait for.
OperandFor(sym, op, foreign, early) ==
    CASE sym.kind = "refused" -> [t |-> "bad"]
      [] sym.kind = "unknown" -> IF early THEN op ELSE [t |-> "bad"]
      [] sym.kind = "const" -> [t |-> "imm", v |-> sym.val]
      [] OTHER -> IF early THEN op
                  ELSE [t |-> IF sym.kind = "var" /\ op.deref THEN "at" ELSE sym.kind,
                        to |-> sym.addr, sec |-> sym.sec, sym |-> sym.id, ext |-> foreign]
ResolveOperand(us, gl, f, op, parent, early) ==
    LET key == IF op.local /\ parent # "" THEN <<parent>> \o op.n ELSE op.n
        own == key \in DOMAIN us[f].syms
    IN  CASE op.t # "name" -> op
          [] op.local -> OperandFor(IF own THEN us[f].syms[key] ELSE Unknown, op, FALSE, early)
          [] OTHER -> OperandFor(Lookup(us, gl, f, key), op, ~own, early)
-----------------------------------------------------------------------------
(* Building a unit: one statement at a time, in the unit on top of loading. *)

File == Last(loading).file

\* defineLabel, defineConstant, defineVariable: a name is defined once in a unit.
Define(u, n, sym) ==
    IF n \in DOMAIN u.syms THEN Bad(u)
    ELSE [u EXCEPT !.syms = (n :> (sym @@ [id |-> <<File, n>>])) @@ u.syms]

NameOf(n) == [t |-> "name", n |-> n, local |-> FALSE, deref |-> FALSE]

AddressSymbol(kind, u, glob) ==
    [kind |-> kind, sec |-> u.sec, addr |-> u.size[u.sec], glob |-> glob, val |-> 0]
ConstantSymbol(v, glob) ==
    [kind |-> "const", sec |-> "none", addr |-> 0, glob |-> glob, val |-> v]

SectionStatement(u, st) ==
    [u EXCEPT !.sec = st.sec, !.ast = Append(u.ast, [k |-> "section", sec |-> st.sec])]

\* A label stands at the offset its section has reached.  A local one is kept as
\* parent.name, where the parent is the last label that was not local.
LabelStatement(u, st) ==
    LET key == IF st.level = "local" THEN <<u.parent>> \o st.n ELSE st.n
        defined == Define(u, key, AddressSymbol("label", u, st.level = "global"))
    IN  IF u.sec = "none" \/ (st.level = "local" /\ u.parent = "") THEN Bad(u)
        ELSE [defined EXCEPT !.ast = Append(u.ast, [k |-> "label", n |-> key,
                                         level |-> st.level,
                                         at |-> u.size[u.sec]]),
                             !.parent = IF st.level = "local" THEN u.parent ELSE st.n[1]]

ConstantStatement(us, u, st) ==
    LET folded == Folded(us, File, st.value)
    IN  IF ~folded.ok THEN Bad(u) ELSE Define(u, st.n, ConstantSymbol(folded.v, st.glob))

\* A variable is padded up to its element's alignment before its address is recorded.
\* st.init says that it has an initial value, st.ref which name's address that value is
\* (<<>> for none).
VariableStatement(u, st) ==
    LET s == u.sec
        v == [u EXCEPT !.size[s] = @ + Pad(@, st.align)]
    IN  IF \/ s \in {"none", "text"} \/ st.size = 0
           \/ (s = "rodata" /\ ~st.init) \/ (s = "bss" /\ st.init)
        THEN Bad(u)
        ELSE [Define(v, st.n, AddressSymbol("var", v, st.glob)) EXCEPT
                 !.size[s] = @ + st.size,
                 !.ast = Append(u.ast, [k |-> "data", n |-> st.n, align |-> st.align,
                                        size |-> st.size, at |-> v.size[s],
                                        ref |-> st.ref, op |-> [t |-> "none"]])]

\* A struct declares no storage: one constant for each field's offset, and one for the
\* total, rounded up to the widest alignment so that an array of them stays aligned.
StructStatement(u, st) ==
    LET AddField(acc, field) ==
            LET off == acc.off + Pad(acc.off, field.align) IN
            [u |-> IF field.size = 0 THEN Bad(acc.u)
                   ELSE Define(acc.u, st.n \o field.n, ConstantSymbol(off, st.glob)),
             off |-> off + field.size, widest |-> IF field.align > acc.widest
                                                  THEN field.align ELSE acc.widest]
        laid == FoldLeft(AddField, [u |-> u, off |-> 0, widest |-> 1], st.fields)
    IN  Define(laid.u, st.n, ConstantSymbol(laid.off + Pad(laid.off, laid.widest), st.glob))

MacroStatement(u, st) ==
    IF st.n \in DOMAIN u.macros THEN Bad(u)
    ELSE [u EXCEPT !.macros = (st.n :> [glob |-> st.glob, body |-> st.body]) @@ u.macros]

\* How many words a mnemonic takes for the kind of its operand; 0 when there is no such
\* instruction.  "var" is a variable's name, "at" the same in brackets.  A name not
\* resolved yet could be any of them: the longest form is reserved.
Words(m, t) ==
    CASE m = "nop"  -> IF t = "none" THEN 1 ELSE 0
      [] m = "jp"   -> IF t \in {"label", "imm"} THEN 1 ELSE 0
      [] m = "mov"  -> IF t = "imm" THEN 1
                       ELSE IF t \in {"label", "var"} THEN 2 ELSE IF t = "at" THEN 3 ELSE 0
      [] m = "ldv"  -> IF t = "var" THEN 3 ELSE 0
      [] m = "ldvp" -> IF t \in {"var", "at"} THEN 1 ELSE 0
LongestOf(m) == IF m \in {"mov", "ldv"} THEN 3 ELSE 1
ReservedSize(m, t) == Word * (IF Words(m, t) > 0 THEN Words(m, t) ELSE LongestOf(m))

InstructionStatement(us, u, st) ==
    LET op == ResolveOperand(us, <<>>, File, st.op, u.parent, TRUE)
        n  == ReservedSize(st.m, op.t)
    IN  IF u.sec # "text" \/ op.t = "bad" THEN Bad(u)
        ELSE [u EXCEPT !.size["text"] = @ + n,
                       !.ast = Append(u.ast, [k |-> "insn", m |-> st.m, op |-> op, size |-> n,
                                              at |-> u.size["text"], parent |-> u.parent])]

\* align, org and assert: padding, or nothing.
DirectiveStatement(us, u, st) ==
    LET value  == Folded(us, File, st.value)
        off    == u.size[u.sec]
        gap    == IF st.k = "align" THEN Pad(off, value.v) ELSE value.v - off
        wrong  == IF st.k = "align" THEN value.v \notin {2^i : i \in 0 .. 8} ELSE value.v < off
    IN  IF ~value.ok THEN Bad(u)
        ELSE IF st.k = "assert" THEN IF value.v # 0 THEN u ELSE Bad(u)
        ELSE IF u.sec = "none" \/ wrong THEN Bad(u)
        ELSE [u EXCEPT !.size[u.sec] = @ + gap,
                       !.ast = IF gap = 0 \/ u.sec = "bss" THEN @
                               ELSE Append(@, [k |-> "pad", sec |-> u.sec, size |-> gap])]

InterruptStatement(us, u, st) ==
    LET Early(op) == ResolveOperand(us, <<>>, File, op, u.parent, TRUE)
    IN  IF "bad" \in {Early(st.number).t, Early(st.op).t} THEN Bad(u)
        ELSE [u EXCEPT !.binds = Append(@, [number |-> Early(st.number), op |-> Early(st.op),
                                            parent |-> u.parent])]

\* expandMacroCall: the body with its labels renamed for this expansion and $ replaced by
\* the call's operand, to be processed before whatever follows the call.
MacroExporters(us, f, n) ==
    SelectSeq(Beyond(us, f), LAMBDA g : n \in DOMAIN us[g].macros /\ us[g].macros[n].glob)
ResolveMacro(us, f, n) ==
    LET found == MacroExporters(us, f, n) IN
    IF n \in DOMAIN us[f].macros THEN <<us[f].macros[n]>>
    ELSE IF found # <<>> THEN <<us[found[1]].macros[n]>> ELSE <<>>

Hygienic(n, instance) == <<n[1] \o "#" \o ToString(instance)>>
SubstituteOperand(op, arg, instance) ==
    CASE op.t = "param"   -> arg
      [] op.t = "mlabel"  -> NameOf(Hygienic(op.n, instance))
      [] OTHER            -> op
Substitute(st, arg, instance) ==
    CASE st.k = "mlabel" -> [k |-> "label", n |-> Hygienic(st.n, instance), level |-> "file"]
      [] st.k \in {"insn", "call"} -> [st EXCEPT !.op = SubstituteOperand(@, arg, instance)]
      [] OTHER -> st

CallStatement(us, u, st, depth) ==
    LET macro == ResolveMacro(us, File, st.n)
        id    == u.expansions + 1
    IN  IF depth >= MaxDepth \/ macro = <<>> THEN Bad(u)
        ELSE [u EXCEPT !.expansions = id,
                       !.pending = [i \in DOMAIN macro[1].body |->
                                       [st |-> Substitute(macro[1].body[i], st.op, id),
                                        depth |-> depth + 1]] \o @]

\* processStatement, all but import.
Process(us, u, st, depth) ==
    CASE st.k = "section"   -> SectionStatement(u, st)
      [] st.k = "label"     -> LabelStatement(u, st)
      [] st.k = "const"     -> ConstantStatement(us, u, st)
      [] st.k = "var"       -> VariableStatement(u, st)
      [] st.k = "struct"    -> StructStatement(u, st)
      [] st.k = "macro"     -> MacroStatement(u, st)
      [] st.k = "insn"      -> InstructionStatement(us, u, st)
      [] st.k = "interrupt" -> InterruptStatement(us, u, st)
      [] st.k = "call"      -> CallStatement(us, u, st, depth)
      [] st.k \in {"align", "org", "assert"} -> DirectiveStatement(us, u, st)
      [] st.k = "mlabel"    -> Bad(u)

\* The next statement of the unit: what is left of an expansion, or one more line of the
\* file; with the unit as it is when that statement has been taken.
NextStatements ==
    LET u == units[File] IN
    IF u.pending # <<>>
    THEN {[st |-> Head(u.pending).st, depth |-> Head(u.pending).depth,
           u |-> [u EXCEPT !.pending = Tail(@)]]}
    ELSE IF u.read = Len(source[File]) THEN {}
    ELSE {[st |-> st, depth |-> 0, u |-> [u EXCEPT !.read = @ + 1]] :
             st \in source[File][u.read + 1]}

Becomes(built) ==
    /\ units' = [units EXCEPT ![File] = built]
    /\ stage' = IF built.ok THEN stage ELSE "failed"
Build(kinds) ==
    /\ stage = "build" /\ loading # <<>>
    /\ \E next \in NextStatements :
          next.st.k \in kinds /\ Becomes(Process(units, next.u, next.st, next.depth))
    /\ UNCHANGED <<source, order, loading, globals, snapshot, vectors, image>>

Layout    == Build({"section", "align", "org", "assert"})
Declare   == Build({"label", "const", "var", "struct", "macro"})
Code      == Build({"insn", "interrupt"})
Expansion == Build({"call", "mlabel"})

\* addDirectImport: a place to look, once.
AddImport(u, i) == IF i \in Range(u.imports) THEN u ELSE [u EXCEPT !.imports = Append(@, i)]

\* import: a unit already built is only recorded, one being built is a cycle, any other
\* is built now, before the next statement of this one.
Import ==
    /\ stage = "build" /\ loading # <<>>
    /\ \E next \in NextStatements :
          /\ next.st.k = "import"
          /\ LET g     == next.st.file
                 entry == [file |-> g, alias |-> next.st.alias]
             IN CASE \E i \in DOMAIN loading : loading[i].file = g ->
                        /\ stage' = "failed" /\ UNCHANGED <<units, loading>>
                  [] g \in Range(order) ->
                        /\ units' = [units EXCEPT ![File] = AddImport(next.u, entry)]
                        /\ UNCHANGED <<stage, loading>>
                  [] OTHER ->
                        /\ units' = (g :> EmptyUnit) @@ [units EXCEPT ![File] = next.u]
                        /\ loading' = Append(loading, entry)
                        /\ UNCHANGED stage
    /\ UNCHANGED <<source, order, globals, snapshot, vectors, image>>

\* The end of a file: its unit is cached, and the import that asked for it, or the next
\* file of the command line, goes on.
EndFile ==
    /\ stage = "build" /\ loading # <<>>
    /\ units[File].pending = <<>> /\ units[File].read = Len(source[File])
    /\ order' = Append(order, File)
    /\ loading' = Front(loading)
    /\ units' = IF Len(loading) = 1 THEN units
                ELSE [units EXCEPT ![loading[Len(loading) - 1].file] =
                                       AddImport(@, Last(loading))]
    /\ UNCHANGED <<source, stage, globals, snapshot, vectors, image>>

NextFile ==
    /\ stage = "build" /\ loading = <<>>
    /\ LET left == SelectSeq(Root, LAMBDA f : f \notin Range(order)) IN
       IF left = <<>> THEN /\ stage' = "link"
                           /\ snapshot' = units
                           /\ UNCHANGED <<units, loading>>
       ELSE /\ loading' = <<[file |-> Head(left), alias |-> ""]>>
            /\ units' = (Head(left) :> EmptyUnit) @@ units
            /\ UNCHANGED <<stage, snapshot>>
    /\ UNCHANGED <<source, order, globals, vectors, image>>
-----------------------------------------------------------------------------
(* The linker. *)

\* How many bytes of each section a unit takes: a whole number of words.
Taken(u) == [text |-> AlignUp(u.size["text"]), rodata |-> AlignUp(u.size["rodata"]),
             data |-> AlignUp(u.size["data"]), bss  |-> AlignUp(u.size["bss"])]
Plus(a, b) == [text |-> a.text + b.text, rodata |-> a.rodata + b.rodata,
               data |-> a.data + b.data, bss |-> a.bss + b.bss]
Total(us) == FoldLeft(LAMBDA acc, f : Plus(acc, Taken(us[f])), Nothing, order)

\* calculateMemoryMap: the sections one after the other, each with all of its units.
MemoryMap(us) ==
    LET total == Total(us)
        ro    == TextStart + total.text
        da    == ro + total.rodata
    IN  [text |-> TextStart, rodata |-> ro, data |-> da, bss |-> da + total.data]
\* Where each unit's part of each section starts.
Offsets(us) ==
    FoldLeft(LAMBDA acc, f : [at |-> (f :> acc.next) @@ acc.at,
                              next |-> Plus(acc.next, Taken(us[f]))],
             [at |-> <<>>, next |-> MemoryMap(us)], order).at

\* relocateSymbols: where the unit's section starts is added to every recorded address.
Relocate(us) ==
    LET offsets == Offsets(us) IN
    [f \in DOMAIN us |->
        [us[f] EXCEPT !.syms = [n \in DOMAIN @ |->
            IF @[n].kind = "const" THEN @[n]
            ELSE [@[n] EXCEPT !.addr = @ + offsets[f][us[f].syms[n].sec]]]]]

\* What linkOnce publishes from a unit, and the names it defines itself.
Published(u) == {n \in DOMAIN u.syms : u.syms[n].glob /\ u.syms[n].kind # "const"}
LinkerSymbols(us) ==
    LET map  == MemoryMap(us)
        ends == Plus(map, Total(us))
        At(n, s, a) == <<n>> :> [kind |-> "label", sec |-> s, addr |-> a, glob |-> TRUE,
                                 val |-> 0, id |-> <<"linker", <<n>> >>]
    IN  FoldLeft(LAMBDA acc, s : acc @@ At("__" \o s \o "_start", s, map[s])
                                     @@ At("__" \o s \o "_end", s, ends[s]),
                 At("__heap_start", "bss", ends.bss) @@ At("__symtab_start", "rodata", ends.rodata)
                     @@ At("__symtab_end", "rodata", ends.rodata), Sections)
GlobalTable(us) ==
    FoldLeft(LAMBDA acc, f : acc @@ [n \in Published(us[f]) |-> us[f].syms[n]],
             LinkerSymbols(us), order)
DefinedTwice(us) ==
    \/ \E i, j \in DOMAIN order : i < j /\ Published(us[order[i]]) \cap Published(us[order[j]]) # {}
    \/ \E f \in DOMAIN us : Published(us[f]) \cap DOMAIN LinkerSymbols(us) # {}

\* resolveEverything: every operand of every unit, the addresses in initial values (a
\* constant has none), and the interrupt bindings.  The list of names left over from the
\* build is read again for its messages only: what it reports, this refuses too.
ResolveAddress(us, gl, f, n) ==
    LET near == ResolveSymbol(us, f, n)
        sym  == IF near.kind \in {"unknown", "refused"} /\ n \in DOMAIN gl THEN gl[n] ELSE near
    IN  IF sym.kind \notin {"label", "var"} THEN [t |-> "bad"]
        ELSE [t |-> sym.kind, to |-> sym.addr, sec |-> sym.sec, sym |-> sym.id,
              ext |-> n \notin DOMAIN us[f].syms]
ResolveStatement(us, gl, f, st) ==
    CASE st.k = "insn" -> [st EXCEPT !.op = ResolveOperand(us, gl, f, @, st.parent, FALSE)]
      [] st.k = "data" /\ st.ref # <<>> -> [st EXCEPT !.op = ResolveAddress(us, gl, f, st.ref)]
      [] OTHER -> st
StatementStands(st) ==
    /\ st.k = "insn" => st.op.t # "bad" /\ Words(st.m, st.op.t) > 0
    /\ st.k = "data" => st.op.t # "bad"
Resolve(us, gl) ==
    [f \in DOMAIN us |->
        [us[f] EXCEPT !.ast = [i \in DOMAIN @ |-> ResolveStatement(us, gl, f, @[i])],
                      !.binds = [i \in DOMAIN @ |->
                          [@[i] EXCEPT
                             !.number = ResolveOperand(us, gl, f, @, us[f].binds[i].parent, FALSE),
                             !.op = ResolveOperand(us, gl, f, @, us[f].binds[i].parent, FALSE)]]]]

Binds(us) == FlattenSeq([i \in DOMAIN order |-> us[order[i]].binds])
BindsStand(us) ==
    LET b == Binds(us) IN
    /\ \A i \in DOMAIN b : /\ b[i].number.t = "imm" /\ b[i].number.v \in 1 .. 63
                           /\ b[i].op.t = "label"
    /\ \A i, j \in DOMAIN b : b[i].number = b[j].number => i = j
VectorsOf(us) ==
    LET b == Binds(us) IN
    [v \in {b[i].number.v : i \in DOMAIN b} |-> b[CHOOSE i \in DOMAIN b : b[i].number.v = v].op]

\* linkOnce: the units with their addresses moved, what they publish, and what is resolved.
Resolved(moved, gl, resolved) ==
    [units |-> resolved, globals |-> gl,
     ok |-> /\ ~DefinedTwice(moved)
            /\ \A f \in DOMAIN moved : \A i \in DOMAIN moved[f].ast : StatementStands(resolved[f].ast[i])
            /\ BindsStand(resolved)]
LinkMoved(moved) ==
    LET gl == GlobalTable(moved) IN Resolved(moved, gl, Resolve(moved, gl))
Link(us) == LinkMoved(Relocate(us))

Linked(linked, to) ==
    /\ units' = linked.units
    /\ globals' = linked.globals
    /\ vectors' = IF linked.ok THEN VectorsOf(linked.units) ELSE vectors
    /\ stage' = IF linked.ok THEN to ELSE "failed"
LinkStep(from, to) ==
    /\ stage = from
    /\ Linked(Link(units), to)
    /\ UNCHANGED <<source, order, loading, snapshot, image>>
LinkOnce  == LinkStep("link", "relax")
LinkAgain == LinkStep("relink", "emit")

\* shortFormOf: only what has a one-word form is shortened.
ShortFormOf(m, t) == IF m = "ldv" \/ (m = "mov" /\ t = "at") THEN "ldvp" ELSE m

\* (mutant) The distance is measured from the end of the instruction.
RelaxedFromEnd(us) ==
    [f \in DOMAIN us |->
        LET Form(st) == IF /\ st.op.t \in {"var", "at"}
                           /\ st.op.to - (Offsets(us)[f].text + st.at + st.size) \in -Reach .. Reach - 1
                        THEN ShortFormOf(st.m, st.op.t) ELSE st.m
        IN  [us[f] EXCEPT !.ast = [i \in DOMAIN @ |->
                IF @[i].k = "insn"
                THEN [@[i] EXCEPT !.m = Form(us[f].ast[i]),
                                  !.size = ReservedSize(Form(us[f].ast[i]), us[f].ast[i].op.t)]
                ELSE @[i]]]]

\* relaxInstructions: where the variable is near enough for the one-word form, that form;
\* and every statement gets the size its operand turned out to need.
Relaxed(us) ==
    [f \in DOMAIN us |->
        LET base == Offsets(us)[f].text
            Short(st) == /\ st.op.t \in {"var", "at"}
                         /\ st.op.to - (base + st.at) \in -Reach .. Reach - 1
            Form(st) == IF Short(st) THEN ShortFormOf(st.m, st.op.t) ELSE st.m
        IN  [us[f] EXCEPT !.ast = [i \in DOMAIN @ |->
                IF @[i].k = "insn"
                THEN [@[i] EXCEPT !.m = Form(us[f].ast[i]),
                                  !.size = ReservedSize(Form(us[f].ast[i]), us[f].ast[i].op.t)]
                ELSE @[i]]]]

\* Linker::restore: addresses and operands as capture found them; the mnemonics and the
\* sizes stay.
Restored(us) ==
    [f \in DOMAIN us |->
        [us[f] EXCEPT !.syms  = snapshot[f].syms,
                      !.binds = snapshot[f].binds,
                      !.ast   = [i \in DOMAIN @ |->
                                    IF @[i].k = "insn"
                                    THEN [@[i] EXCEPT !.op = snapshot[f].ast[i].op] ELSE @[i]]]]

\* relayoutText: the labels and instructions of the text section, one after the other.
RelayoutText(u) ==
    LET Place(acc, i) ==
            LET st == u.ast[i] IN
            CASE st.k = "section" -> [acc EXCEPT !.in = st.sec = "text"]
              [] acc.in /\ st.k = "label" ->
                    [acc EXCEPT !.u.ast[i].at = acc.off, !.u.syms[st.n].addr = acc.off]
              [] acc.in /\ st.k = "insn" ->
                    [acc EXCEPT !.u.ast[i].at = acc.off, !.off = @ + st.size]
              [] OTHER -> acc
        laid == FoldLeft(Place, [u |-> u, off |-> 0, in |-> FALSE], [i \in DOMAIN u.ast |-> i])
    IN  [laid.u EXCEPT !.size["text"] = laid.off]

Relax ==
    /\ stage = "relax"
    /\ IF Relaxed(units) = units
       THEN stage' = "emit" /\ UNCHANGED <<units, globals>>
       ELSE /\ LET back == Restored(Relaxed(units)) IN
               units' = [f \in DOMAIN back |-> RelayoutText(back[f])]
            /\ globals' = <<>>
            /\ stage' = "relink"
    /\ UNCHANGED <<source, order, loading, snapshot, vectors, image>>
-----------------------------------------------------------------------------
(* The emitter: a record for every label and statement, with the address    *)
(* its bytes are written at.  "to" is the address an instruction or a word   *)
(* of data encodes, absolute or from a displacement.                        *)

EmitStatement(map, f, acc, st) ==
    LET s       == IF st.k = "section" THEN st.sec ELSE acc.sec
        padding == IF st.k = "data" /\ s # "bss" THEN Pad(acc.buf[s], st.align) ELSE 0
        at      == map[s] + acc.buf[s] + padding
        length  == IF st.k \in {"section", "label"} \/ s = "bss" THEN 0 ELSE st.size
        names   == st.k \in {"insn", "data"} /\ st.op.t \in {"label", "var", "at"}
        far     == st.k = "insn" /\ st.m = "ldvp" /\ st.op.to - at \notin -Reach .. Reach - 1
        long    == st.k = "insn" /\ Word * Words(st.m, st.op.t) > st.size
        written == [f |-> f, k |-> st.k, n |-> IF st.k \in {"label", "data"} THEN st.n ELSE <<>>,
                    sec |-> s, at |-> at, size |-> length,
                    to |-> IF names THEN st.op.to ELSE 0,
                    sym |-> IF names THEN st.op.sym ELSE <<>>]
    IN  CASE ~acc.ok -> acc
          [] far \/ long -> [acc EXCEPT !.ok = FALSE]
          [] st.k = "section" -> [acc EXCEPT !.sec = s]
          [] OTHER -> [acc EXCEPT !.buf[s] = @ + padding + length,
                                  !.out = IF s = "bss" THEN @ ELSE Append(@, written)]

\* Each unit, then what fills its sections up to whole words.
EmitUnit(us, map, acc, f) ==
    LET done == FoldLeft(LAMBDA a, st : EmitStatement(map, f, a, st),
                         [acc EXCEPT !.sec = "none"], us[f].ast)
        Filled(s) == acc.buf[s] + AlignUp(done.buf[s] - acc.buf[s])
    IN  [done EXCEPT !.buf = [text |-> Filled("text"), rodata |-> Filled("rodata"),
                              data |-> Filled("data"), bss |-> 0]]
Emitted(us) ==
    LET map == MemoryMap(us) IN
    FoldLeft(LAMBDA acc, f : EmitUnit(us, map, acc, f),
             [buf |-> Nothing, out |-> <<>>, sec |-> "none", ok |-> TRUE], order)

HasEntryPoint == /\ <<"main">> \in DOMAIN globals
                 /\ globals[<<"main">>].kind = "label"

Emit ==
    /\ stage = "emit"
    /\ LET emitted == Emitted(units) IN
       /\ image' = emitted.out
       /\ stage' = IF HasEntryPoint /\ emitted.ok THEN "done" ELSE "failed"
    /\ UNCHANGED <<source, units, order, loading, globals, snapshot, vectors>>
-----------------------------------------------------------------------------
Init ==
    /\ source \in Sources
    /\ units = <<>> /\ order = <<>> /\ loading = <<>> /\ stage = "build"
    /\ globals = <<>> /\ snapshot = <<>> /\ vectors = <<>> /\ image = <<>>

\* Nothing is being assembled.
AssemblerIdle ==
    /\ source = CHOOSE s \in Sources : TRUE
    /\ units = <<>> /\ order = <<>> /\ loading = <<>> /\ stage = "idle"
    /\ globals = <<>> /\ snapshot = <<>> /\ vectors = <<>> /\ image = <<>>

Next == \/ Layout \/ Declare \/ Code \/ Expansion \/ Import \/ EndFile \/ NextFile
        \/ LinkOnce \/ Relax \/ LinkAgain \/ Emit

Spec == Init /\ [][Next]_avars
-----------------------------------------------------------------------------
(* Properties. *)

Variables(u) == {i \in DOMAIN u.ast : u.ast[i].k = "data"}
Moved        == \E f \in DOMAIN units : \E i \in DOMAIN units[f].ast :
                    units[f].ast[i].k = "insn" /\ units[f].ast[i].size # snapshot[f].ast[i].size
TextPadded   == \E f \in DOMAIN units : \E i \in DOMAIN units[f].ast :
                    units[f].ast[i].k = "pad" /\ units[f].ast[i].sec = "text"

AtItsBytes == \A i \in DOMAIN image :
                 image[i].n # <<>> => units[image[i].f].syms[image[i].n].addr = image[i].at

\* The address every label and variable was given is the address the emitter wrote it
\* at: two passes over the same statements, in two components, insert the same padding.
\* (Relaxation loses the padding of a text section, and what follows it in a unit moves.)
AddressesAreBytes == stage = "done" /\ ~(Moved /\ TextPadded) => AtItsBytes

\* Where the thing a name stands for really is: at its bytes, or, for what has none,
\* where the layout put it.
PlaceOf(sym) ==
    LET written == {i \in DOMAIN image : image[i].n = sym[2] /\ image[i].f = sym[1]} IN
    IF written # {} THEN image[CHOOSE i \in written : TRUE].at
    ELSE IF sym[1] = "linker" THEN globals[sym[2]].addr ELSE units[sym[1]].syms[sym[2]].addr

\* Every address in the image, absolute or as a displacement, and every interrupt vector
\* is the address of the bytes of the symbol it was resolved to.
ReferencesLand ==
    stage = "done" /\ ~(Moved /\ TextPadded) =>
        /\ \A i \in DOMAIN image : image[i].sym # <<>> => image[i].to = PlaceOf(image[i].sym)
        /\ \A v \in DOMAIN vectors : vectors[v].to = PlaceOf(vectors[v].sym)

\* What relaxation shortened is still in reach when everything has moved, and fits the
\* space the second layout left for it: only a one-word access the source itself asked
\* for can be refused by the emitter.
ShortFormsReach ==
    stage = "emit" /\ ~(Moved /\ TextPadded) /\ ~Emitted(units).ok =>
        \E f \in DOMAIN snapshot : \E i \in DOMAIN snapshot[f].ast :
            snapshot[f].ast[i].k = "insn" /\ snapshot[f].ast[i].m = "ldvp"

\* The bytes a variable of .bss takes are no other variable's and no emitted byte's, and
\* the heap starts above them all.
Storage ==
    {<<image[i].at, image[i].size>> : i \in {j \in DOMAIN image : image[j].size > 0}} \cup
    UNION {{<<units[f].syms[units[f].ast[i].n].addr, units[f].ast[i].size>> :
              i \in {j \in Variables(units[f]) :
                        units[f].syms[units[f].ast[j].n].sec = "bss"}} : f \in DOMAIN units}
StorageCount ==
    Cardinality({i \in DOMAIN image : image[i].size > 0})
    + FoldLeft(LAMBDA acc, f : acc + Cardinality({j \in Variables(units[f]) :
                                 units[f].syms[units[f].ast[j].n].sec = "bss"}), 0, order)
NothingOverlaps ==
    stage = "done" /\ ~(Moved /\ TextPadded) =>
        /\ Cardinality(Storage) = StorageCount
        /\ \A a, b \in Storage : a # b => a[1] + a[2] <= b[1] \/ b[1] + b[2] <= a[1]
        /\ \A a \in Storage : a[1] + a[2] <= globals[<<"__heap_start">>].addr

\* The two layouts and the emitter, which never see each other's addresses, agree on
\* where everything is, before and after relaxation.
LayoutIsSound == AddressesAreBytes /\ ReferencesLand /\ ShortFormsReach /\ NothingOverlaps

\* What an instruction's name means, read off the finished tables: the unit's own symbol;
\* else, for p.x, the x of a module imported as p; else the one export of that name below
\* the unit's imports; else what some unit published.  Never one of two exports, and never
\* what another unit keeps to itself.
Meanings(f, n) ==
    CASE n \in DOMAIN units[f].syms -> {<<f, n>>}
      [] Len(n) = 2 -> {<<i.file, Tail(n)>> : i \in {j \in Range(units[f].imports) : j.alias = n[1]}}
      [] Exporters(units, f, n) # <<>> -> {<<g, n>> : g \in Range(Exporters(units, f, n))}
      [] OTHER -> {<<g, n>> : g \in {h \in DOMAIN units : n \in Published(units[h])} \cup {"linker"}}
OneMeaning ==
    stage = "done" =>
        \A f \in DOMAIN units : \A i \in DOMAIN units[f].ast :
            LET st   == units[f].ast[i]
                used == snapshot[f].ast[i].op
            IN  (st.k = "insn" /\ st.op.t \in {"label", "var", "at"} /\ ~used.local) =>
                    /\ \E m \in Meanings(f, used.n) : st.op.sym = m
                    /\ Cardinality(Meanings(f, used.n) \ {<<"linker", used.n>>}) <= 1
                    /\ st.op.sym[1] \in {f, "linker"} \/ units[st.op.sym[1]].syms[st.op.sym[2]].glob
=============================================================================
