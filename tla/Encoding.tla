----------------------------- MODULE Encoding ------------------------------
(* From a statement to the words that are its code: the emitter takes the    *)
(* row of InstructionTable for it and fills the fields of one word after the *)
(* other, either with addresses (a program linked as a whole) or with holes  *)
(* and relocations the object linker patches.  The disassembler reads the    *)
(* words back, and a small machine runs those a pseudo instruction expands   *)
(* to.                                                                       *)
(*                                                                           *)
(* A word is an opcode and 24 more bits, a number.  Numbers of 32 bits are   *)
(* written with their sign.                                                  *)
EXTENDS InstructionTable, Bitwise

CONSTANTS
  Numbers,   \* immediates written in the source
  Displacements,   \* displacements of memory operands
  Places,    \* how far away labels and variables are
  Origin,    \* where the statement starts
  Ways    \* ways to number the registers of a statement; in way 0 they are all the same

ASSUME EncodingAssumption ==
  /\ Numbers \cup Displacements \cup Places \subseteq Int
  /\ Origin \in Nat /\ Origin % 4 = 0 /\ Ways \subseteq 0..2

VARIABLES
  job,      \* [row, x, object, words]: the statement, its operands, what is made of it, its size
  emitted,  \* the words so far: [op, low, rel]
  phase,    \* "emit", "refused", "emitted", "linked" or "done"
  cpu       \* [pc, r, f, mem, cmp]: the machine that runs them

encodingVars == <<job, emitted, phase, cpu>>

-----------------------------------------------------------------------------
(* Fields of a word.                                                         *)

Place(f) ==
  CASE f \in {"RD", "FD", "XD", "DD"} -> [lo |-> 20, width |-> 4]
    [] f \in {"RS", "FS", "XS", "DS"} -> [lo |-> 16, width |-> 4]
    [] f \in {"RT", "FT", "XT", "DT"} -> [lo |-> 12, width |-> 4]
    [] f = "IMM8"  -> [lo |-> 0, width |-> 8]
    [] f = "IMM6"  -> [lo |-> 0, width |-> 6]
    [] f \in {"REL_ADDR20", "SIMM20"} -> [lo |-> 0, width |-> 20]
    [] f \in {"REL_ADDR", "SIMM24", "IMM24"} -> [lo |-> 0, width |-> 24]
    [] OTHER -> [lo |-> 0, width |-> 16]
Get(low, f)    == (low \div (2^Place(f).lo)) % (2^Place(f).width)
Put(low, f, v) == (low - (Get(low, f) * 2^Place(f).lo)) + ((v % (2^Place(f).width)) * 2^Place(f).lo)
Signed(v, bits) == LET u == v % (2^bits) IN IF u >= 2^(bits - 1) THEN u - 2^bits ELSE u

\* Truncating loses nothing, read as signed or as unsigned.
FitsInBits(v, bits) == v \in {v % (2^bits), Signed(v, bits)}
ShiftRight(v, sh)   == IF sh = 0 THEN v ELSE (v \div (2^sh)) % (2^(32 - sh))

-----------------------------------------------------------------------------
(* One parameter of one word.  c is the word so far with what has been       *)
(* recorded for the linker; "bad" says the statement is refused.             *)

Pairs == {"XD", "XS", "XT", "DD", "DS", "DT"}
Registers == {"RD", "RS", "RT", "FD", "FS", "FT"} \cup Pairs
Symbolic(x) == x.k \in {"label", "var"}
Refuse(c) == [c EXCEPT !.bad = TRUE]
Filled(c, f, v) == [c EXCEPT !.low = Put(c.low, f, v)]
Recorded(c, f, sh, relative) == [c EXCEPT !.rel = << [f |-> f, sh |-> sh, relative |-> relative] >>]

EncodeFixed(c, p) ==
  IF p.f = "SUBFIELD" THEN [c EXCEPT !.low = (c.low | p.fix)] ELSE Filled(c, p.f, p.fix)

EncodeImmediate(c, p, x, object) ==
  LET shifted == ShiftRight(x.v, p.sh)
  IN  IF object /\ Symbolic(x) THEN Recorded(c, p.f, p.sh, FALSE)
      ELSE IF ~FitsInBits(shifted, Place(p.f).width) \/ (c.op = "INT" /\ shifted \notin 0..63) THEN Refuse(c)
      ELSE Filled(c, p.f, shifted)

EncodeMemory(c, p, x) ==
  LET base == Filled(c, IF p.f = "RD_SIMM16" THEN "RD" ELSE "RS", x.n)
  IN  IF x.v \notin -32768..32767 THEN Refuse(c) ELSE Filled(base, "SIMM16", x.v)
(* Mutant: the base of a store is put in the field of a load's. *)
EncodeIndexedAsLoad(c, p, x) == Filled(Filled(c, "RS", x.n), "RT", x.v)
EncodeIndexed(c, p, x) == Filled(Filled(c, IF p.f = "RD_RT" THEN "RD" ELSE "RS", x.n), "RT", x.v)

EncodeRelative(c, p, x, here, object) ==
  LET away == x.v - here
      field == CASE p.f = "REL_SIMM16" -> "SIMM16" [] p.f = "REL_ADDR20" -> "SIMM20" [] OTHER -> "SIMM24"
      reached == CASE p.f = "REL_SIMM16" -> away \in -32768..32767
                   [] p.f = "REL_ADDR20" -> away \in -524288..524287
                   [] OTHER -> FitsInBits(away, 24)
  IN  IF object THEN Recorded(c, field, 0, TRUE)
      ELSE IF reached THEN Filled(c, field, away) ELSE Refuse(c)

EncodeOperand(c, p, x, here, object) ==
  CASE p.f \in Registers -> Filled(c, p.f, IF p.f \in Pairs THEN 2 * x.n ELSE x.n)
    [] p.f = "IMM6" -> IF x.v \in 0..63 THEN Filled(c, "IMM6", x.v) ELSE Refuse(c)
    [] p.f = "IMM16_LOW" -> IF object /\ Symbolic(x) THEN Recorded(c, "IMM16_LOW", 0, FALSE) ELSE Filled(c, "IMM16", x.v)
    [] p.f \in {"IMM8", "IMM16", "SIMM16", "IMM24", "SIMM24"} -> EncodeImmediate(c, p, x, object)
    [] p.f \in {"RD_SIMM16", "RS_SIMM16"} -> EncodeMemory(c, p, x)
    [] p.f \in {"RS_RT", "RD_RT"} -> EncodeIndexed(c, p, x)
    [] OTHER -> EncodeRelative(c, p, x, here, object)

RECURSIVE EncodeFrom(_, _, _, _, _, _)
EncodeFrom(c, ps, i, xs, here, object) ==
  IF i > Len(ps) \/ c.bad THEN c
  ELSE EncodeFrom(IF ps[i].i = 0 THEN EncodeFixed(c, ps[i]) ELSE EncodeOperand(c, ps[i], xs[ps[i].i], here, object),
                  ps, i + 1, xs, here, object)
EncodeWord(o, xs, here, object) ==
  EncodeFrom([op |-> o.op, low |-> 0, rel |-> <<>>, bad |-> FALSE], o.ps, 1, xs, here, object)

\* The object linker, on one word it has a relocation for.
Patch(c, target, here) ==
  LET rel == c.rel[1]
      value == IF rel.relative THEN target - here ELSE ShiftRight(target, rel.sh)
      fits == CASE rel.f = "IMM16_LOW" -> TRUE
                [] rel.f = "SIMM16" -> value \in -32768..32767
                [] rel.f = "SIMM20" -> value \in -524288..524287
                [] OTHER -> FitsInBits(value, Place(rel.f).width)
  IN  IF fits THEN Filled([c EXCEPT !.rel = <<>>], rel.f, value) ELSE Refuse(c)

-----------------------------------------------------------------------------
(* The disassembler: what the fields of a word are, for each opcode.         *)

NarrowShapes ==
  {<<{"INT"}, <<"IMM8">>>>, <<{"MFP", "MFPF", "POP"}, <<"RD">>>>, <<{"FPUSH"}, <<"FS">>>>, <<{"FPOP"}, <<"FD">>>>,
   <<{"NOP", "HALT", "TRAP", "RESET", "IRET", "CLI", "STI", "PGON", "PGOFF", "FLPG", "RET", "PUSHF", "POPF", "LEAVE"}, <<>>>>,
   <<{"MTP", "INVLPG", "PUSH", "JPR", "JZR", "JNZR", "JCR", "JNCR", "JSR", "JNSR", "CALLR", "JOR", "JNOR", "JGRR", "JGER",
      "JLSR", "JLER", "JABR", "JAER", "JBLR", "JBER"}, <<"RS">>>>,
   <<{"NOT", "MOV", "ABS", "CLZ", "CTZ", "POPCNT", "BSWAP", "SXTB", "SXTH", "BLR"}, <<"RD", "RS">>>>,
   <<{"CMP"}, <<"RS", "RT">>>>, <<{"FCMP"}, <<"FS", "FT">>>>, <<{"CMPI"}, <<"RS", "SIMM16">>>>,
   <<{"FNEG", "FMOV", "FSQRT", "FABS", "FROUND", "FFLOOR", "FCEIL", "FTRUNC", "FRECIPE", "FRSQRTE"}, <<"FD", "FS">>>>,
   <<{"ITOF", "IITOF", "MTF"}, <<"FD", "RS">>>>, <<{"FTOI", "FTOII", "MFF", "FCLASS"}, <<"RD", "FS">>>>,
   <<{"ADD", "ADDC", "SUB", "SUBC", "MUL", "IMUL", "DIV", "IDIV", "MOD", "IMOD", "AND", "OR", "XOR", "SHL", "SHR", "SAR", "MULH",
      "IMULH", "MIN", "IMIN", "MAX", "IMAX", "ROL", "ROR", "MCPY", "MSET", "MCMP", "MSCAN"}, <<"RD", "RS", "RT">>>>,
   <<{"FADD", "FSUB", "FMUL", "FDIV", "FMOD", "FMIN", "FMAX", "FCOPYSIGN", "FMA"}, <<"FD", "FS", "FT">>>>,
   <<{"ADDI", "ADDCI", "SUBI", "SUBCI", "MULI", "IMULI", "DIVI", "IDIVI", "MODI", "IMODI", "ANDI", "ORI", "XORI", "SHLI", "SHRI",
      "SARI", "MINI", "IMINI", "MAXI", "IMAXI", "ROLI", "RORI"}, <<"RD", "RS", "IMM16">>>>,
   <<{"LI", "LUI"}, <<"RD", "IMM16">>>>, <<{"ENTER", "PUSHM", "POPM", "FPUSHM", "FPOPM"}, <<"IMM16">>>>,
   <<{"LDR", "LDRB", "LDRH", "LDRSB", "LDRSH", "LEA"}, <<"RD", "RS_SIMM16">>>>, <<{"FLDR"}, <<"FD", "RS_SIMM16">>>>,
   <<{"STR", "STRB", "STRH"}, <<"RD_SIMM16", "RS">>>>, <<{"FSTR"}, <<"RD_SIMM16", "FS">>>>,
   <<{"LDRX", "LDRBX", "LDRHX", "LDRSBX", "LDRSHX"}, <<"RD", "RS_RT">>>>, <<{"FLDRX"}, <<"FD", "RS_RT">>>>,
   <<{"STRX", "STRBX", "STRHX"}, <<"RD_RT", "RS">>>>, <<{"FSTRX"}, <<"RD_RT", "FS">>>>,
   <<{"LDRP", "LDRBP", "LDRHP", "LDRSBP", "LDRSHP"}, <<"RD", "SIMM16">>>>, <<{"FLDRP"}, <<"FD", "SIMM16">>>>,
   <<{"STRP", "STRBP", "STRHP"}, <<"SIMM16", "RS">>>>, <<{"FSTRP"}, <<"SIMM16", "FS">>>>,
   <<{"JP", "JZ", "JNZ", "JC", "JNC", "JS", "JNS", "CALL", "JO", "JNO", "JGR", "JGE", "JLS", "JLE", "JAB", "JAE", "JBL", "JBE"},
     <<"SIMM24">>>>, <<{"BL"}, <<"RD", "SIMM20">>>>}

WideShapes ==
  {<<{"ADD64", "SUB64", "MUL64", "DIV64", "IDIV64", "MOD64", "IMOD64"}, <<"XD", "XS", "XT">>>>,
   <<{"NEG64", "MOV64"}, <<"XD", "XS">>>>, <<{"CMP64"}, <<"XS", "XT">>>>, <<{"MULL", "IMULL"}, <<"XD", "RS", "RT">>>>,
   <<{"SHL64", "SHR64", "SAR64"}, <<"XD", "XS", "RT">>>>, <<{"SHI64"}, <<"XD", "XS", "IMM6">>>>, <<{"SXT64"}, <<"XD", "RS">>>>,
   <<{"BITS64"}, <<"RD", "XS">>>>, <<{"LDRD"}, <<"XD", "RS_SIMM16">>>>, <<{"STRD"}, <<"RD_SIMM16", "XS">>>>,
   <<{"LDRDX"}, <<"XD", "RS_RT">>>>, <<{"STRDX"}, <<"RD_RT", "XS">>>>, <<{"LDRDP"}, <<"XD", "SIMM16">>>>,
   <<{"FADDD", "FSUBD", "FMULD", "FDIVD", "FMAD", "FMINMAXD", "FMODD", "FCOPYSIGND"}, <<"DD", "DS", "DT">>>>,
   <<{"FSQRTD", "FUNARYD", "FMOVD"}, <<"DD", "DS">>>>, <<{"FCMPD"}, <<"DS", "DT">>>>, <<{"FCLASSD"}, <<"RD", "DS">>>>,
   <<{"FLDRD"}, <<"DD", "RS_SIMM16">>>>, <<{"FSTRD"}, <<"RD_SIMM16", "DS">>>>, <<{"FLDRDX"}, <<"DD", "RS_RT">>>>,
   <<{"FSTRDX"}, <<"RD_RT", "DS">>>>, <<{"FLDRDP"}, <<"DD", "SIMM16">>>>, <<{"MTFD"}, <<"DD", "XS">>>>, <<{"MFFD"}, <<"XD", "DS">>>>}

\* An opcode of several instructions: the bits that tell them apart, and their names with
\* the banks of those that differ in them.
Subfield == [SHI64 |-> [lo |-> 6, width |-> 2], BITS64 |-> [lo |-> 0, width |-> 2], FMINMAXD |-> [lo |-> 0, width |-> 1],
             FUNARYD |-> [lo |-> 0, width |-> 3], FCVT |-> [lo |-> 0, width |-> 4]]
SubNames == [SHI64 |-> <<"SHL64", "SHR64", "SAR64">>, BITS64 |-> <<"CLZ64", "CTZ64", "POPCNT64">>, FMINMAXD |-> <<"FMIN_D", "FMAX_D">>,
             FUNARYD |-> <<"FNEG_D", "FABS_D", "FROUND_D", "FFLOOR_D", "FCEIL_D", "FTRUNC_D">>,
             FCVT |-> <<"FCVT_D_S", "FCVT_S_D", "FCVT_D_W", "FCVT_D_WU", "FCVT_W_D", "FCVT_WU_D", "FCVT_D_L", "FCVT_D_LU",
                        "FCVT_L_D", "FCVT_LU_D", "FCVT_S_L", "FCVT_S_LU", "FCVT_L_S", "FCVT_LU_S">>]
Conversions == << <<"DD", "FS">>, <<"FD", "DS">>, <<"DD", "RS">>, <<"DD", "RS">>, <<"RD", "DS">>, <<"RD", "DS">>, <<"DD", "XS">>,
                  <<"DD", "XS">>, <<"XD", "DS">>, <<"XD", "DS">>, <<"FD", "XS">>, <<"FD", "XS">>, <<"XD", "FS">>, <<"XD", "FS">> >>
SubOf(c) == (c.low \div (2^Subfield[c.op].lo)) % (2^Subfield[c.op].width)
ValidSubfield(c) == c.op \in DOMAIN Subfield => SubOf(c) < Len(SubNames[c.op])
WordName(c) == IF c.op \in DOMAIN Subfield THEN SubNames[c.op][SubOf(c) + 1] ELSE c.op
Shape(c) == IF c.op = "FCVT" THEN Conversions[SubOf(c) + 1]
            ELSE (CHOOSE s \in NarrowShapes \cup WideShapes : c.op \in s[1])[2]

\* x7 would be fp and sp, so a pair of integers has seven values and a pair of doubles eight.
ValidField(f, v) == f \in Pairs => v % 2 = 0 /\ (f \in {"XD", "XS", "XT"} => v # 14)
Legal(c) ==
  /\ ValidSubfield(c)
  /\ \E s \in NarrowShapes \cup WideShapes : c.op \in s[1] \cup {"FCVT"}
  /\ \A i \in DOMAIN Shape(c) : ValidField(Shape(c)[i], Get(c.low, Shape(c)[i]))

ReadField(c, f) ==
  CASE f \in Registers -> [k |-> TypeOfField(f), n |-> IF f \in Pairs THEN Get(c.low, f) \div 2 ELSE Get(c.low, f), v |-> 0]
    [] f = "RS_SIMM16" -> [k |-> "[+]", n |-> Get(c.low, "RS"), v |-> Signed(c.low, 16)]
    [] f = "RD_SIMM16" -> [k |-> "[+]", n |-> Get(c.low, "RD"), v |-> Signed(c.low, 16)]
    [] f = "RS_RT" -> [k |-> "[r]", n |-> Get(c.low, "RS"), v |-> Get(c.low, "RT")]
    [] f = "RD_RT" -> [k |-> "[r]", n |-> Get(c.low, "RD"), v |-> Get(c.low, "RT")]
    [] f \in {"SIMM16", "SIMM20", "SIMM24"} -> [k |-> "imm", n |-> 0, v |-> Signed(c.low, Place(f).width)]
    [] OTHER -> [k |-> "imm", n |-> 0, v |-> Get(c.low, f)]
Reading(c) == [i \in DOMAIN Shape(c) |-> ReadField(c, Shape(c)[i])]

-----------------------------------------------------------------------------
(* The machine, for the words that pseudo instructions are made of.          *)

RunsHere == {"LUI", "ORI", "LI", "ADDI", "SUBI", "IMULI", "XOR", "CMP", "CMPI", "FCMP", "JP", "JZ", "JNZ", "JGR", "JGE", "JLS", "JLE",
             "JAB", "JAE", "JBL", "JBE", "BL", "NOP", "LDR", "LDRB", "LDRH", "LDRSB", "LDRSH", "FLDR", "LDRD", "FLDRD", "STR", "STRB",
             "STRH", "FSTR", "STRD", "FSTRD", "LDRP", "LDRBP", "LDRHP", "LDRSBP", "LDRSHP", "FLDRP", "LDRDP", "FLDRDP", "STRP", "STRBP",
             "STRHP", "FSTRP"}

\* What memory holds, as a load of a kind sees it: its own number for each address and kind.
Kind(op) == CASE op \in {"LDRB", "LDRBP", "STRB", "STRBP"} -> 1 [] op \in {"LDRSB", "LDRSBP"} -> 2
              [] op \in {"LDRH", "LDRHP", "STRH", "STRHP"} -> 3 [] op \in {"LDRSH", "LDRSHP"} -> 4
              [] op \in {"LDRD", "LDRDP", "FLDRD", "FLDRDP", "STRD", "FSTRD"} -> 6 [] OTHER -> 5
Held(a, kind) == 8 * a + kind
FloatBank == {"FLDR", "FLDRD", "FLDRP", "FLDRDP", "FSTR", "FSTRD", "FSTRP"}
Near(op) == op \in {"LDRP", "LDRBP", "LDRHP", "LDRSBP", "LDRSHP", "FLDRP", "LDRDP", "FLDRDP", "STRP", "STRBP", "STRHP", "FSTRP"}
Below(a, b) == IF (a < 0) = (b < 0) THEN a < b ELSE b < 0   \* as unsigned numbers
Under(a, b, float) == IF float THEN a < b ELSE Below(a, b)
JumpTaken(op, c) ==
  CASE op = "JZ" -> c.l = c.r [] op = "JNZ" -> c.l # c.r
    [] op = "JGR" -> c.l > c.r [] op = "JGE" -> c.l >= c.r [] op = "JLS" -> c.l < c.r [] op = "JLE" -> c.l <= c.r
    [] op = "JAB" -> Under(c.r, c.l, c.float) [] op = "JAE" -> ~Under(c.l, c.r, c.float)
    [] op = "JBL" -> Under(c.l, c.r, c.float) [] op = "JBE" -> ~Under(c.r, c.l, c.float)
    [] OTHER -> TRUE

Exclusive(a, b) == Signed(((a \div 2^16) % 2^16) ^^ ((b \div 2^16) % 2^16), 16) * 2^16 + ((a % 2^16) ^^ (b % 2^16))
Or16(a, imm) == (a - (a % 2^16)) + ((a % 2^16) | imm)

\* One word: fields of every form are read and the ones of the opcode's form used.
Executed(m, c) ==
  LET d == Get(c.low, "RD")  s == Get(c.low, "RS")  t == Get(c.low, "RT")
      imm == Get(c.low, "IMM16")  simm == Signed(c.low, 16)
      Past == [m EXCEPT !.pc = m.pc + 4]
      Set(v) == [Past EXCEPT !.r[d] = v]
      At == IF Near(c.op) THEN m.pc + simm ELSE simm + (IF c.op \in {"STR", "STRB", "STRH", "FSTR", "STRD", "FSTRD"} THEN m.r[d] ELSE m.r[s])
      Loaded(bank) == IF Kind(c.op) = 6 THEN [bank EXCEPT ![d] = Held(At, 6), ![d + 1] = Held(At, 6) + 1]
                      ELSE [bank EXCEPT ![d] = Held(At, Kind(c.op))]
      Stored(bank) == [Past EXCEPT !.mem = << [a |-> At, kind |-> Kind(c.op), v |-> bank[s]] >>]
      Jumped(bits) == [m EXCEPT !.pc = m.pc + Signed(c.low, bits)]
  IN  CASE c.op = "NOP" -> Past
        [] c.op = "LUI" -> Set(Signed(imm, 16) * 2^16)
        [] c.op = "ORI" -> Set(Or16(m.r[s], imm))
        [] c.op = "LI"  -> Set(imm)
        [] c.op = "ADDI" -> Set(m.r[s] + imm)
        [] c.op = "SUBI" -> Set(m.r[s] - imm)
        [] c.op = "IMULI" -> Set(m.r[s] * simm)
        [] c.op = "XOR" -> Set(Exclusive(m.r[s], m.r[t]))
        [] c.op = "CMP" -> [Past EXCEPT !.cmp = [l |-> m.r[s], r |-> m.r[t], float |-> FALSE]]
        [] c.op = "CMPI" -> [Past EXCEPT !.cmp = [l |-> m.r[s], r |-> simm, float |-> FALSE]]
        [] c.op = "FCMP" -> [Past EXCEPT !.cmp = [l |-> m.f[s], r |-> m.f[t], float |-> TRUE]]
        [] c.op = "BL" -> [Jumped(20) EXCEPT !.r[d] = m.pc + 4]
        [] c.op \in {"JP", "JZ", "JNZ", "JGR", "JGE", "JLS", "JLE", "JAB", "JAE", "JBL", "JBE"} ->
             IF JumpTaken(c.op, m.cmp) THEN Jumped(24) ELSE Past
        [] c.op \in {"STR", "STRB", "STRH", "STRD", "STRP", "STRBP", "STRHP"} -> Stored(m.r)
        [] c.op \in {"FSTR", "FSTRD", "FSTRP"} -> Stored(m.f)
        [] c.op \in FloatBank -> [Past EXCEPT !.f = Loaded(m.f)]
        [] OTHER -> [Past EXCEPT !.r = Loaded(m.r)]

-----------------------------------------------------------------------------
(* A statement on its way.                                                   *)

Reg(k, n) == [k |-> k, n |-> n, v |-> 0]
Numbered(i, way, most) == IF way = 0 THEN 2 ELSE (5 * way + 3 * i) % most
OperandsOf(t, i, way) ==
  CASE t \in {"r", "f"} -> {Reg(t, Numbered(i, way, 12))}
    [] t = "x" -> {Reg(t, Numbered(i, way, 7))}
    [] t = "d" -> {Reg(t, Numbered(i, way, 8))}
    [] t = "imm" -> {[k |-> "imm", n |-> 0, v |-> v] : v \in Numbers}
    [] t = "label" -> {[k |-> "label", n |-> 0, v |-> Origin + v] : v \in Places}
    [] t \in Sizes \cup {"u64", "s64", "f64"} \/ t \in {"@" \o s : s \in Sizes \cup {"u64", "s64", "f64"}} ->
         {[k |-> "var", n |-> 0, v |-> Origin + v] : v \in Places}
    [] t = "[r]" \/ t \in {s \o "[r]" : s \in Sizes} -> {[k |-> "[r]", n |-> Numbered(i, way, 12), v |-> 15 - i - way]}
    [] OTHER -> {[k |-> "[+]", n |-> Numbered(i, way, 12), v |-> v] : v \in Displacements}
Operands(t, way) ==
  CASE Len(t) = 0 -> {<<>>}
    [] Len(t) = 1 -> {<<a>> : a \in OperandsOf(t[1], 1, way)}
    [] Len(t) = 2 -> {<<a, b>> : a \in OperandsOf(t[1], 1, way), b \in OperandsOf(t[2], 2, way)}
    [] OTHER -> {<<a, b, c>> : a \in OperandsOf(t[1], 1, way), b \in OperandsOf(t[2], 2, way), c \in OperandsOf(t[3], 3, way)}

Machine == [pc |-> Origin, r |-> [i \in 0..15 |-> ((37 * i) % 50) - 20], f |-> [i \in 0..15 |-> ((29 * i) % 40) - 15],
            mem |-> <<>>, cmp |-> [l |-> 0, r |-> 0, float |-> FALSE]]

EncodingInit ==
  /\ \E row \in Rows, way \in Ways, object \in BOOLEAN :
       \E x \in Operands(row.t, way), words \in {WordsOf(row), MostWords(row.m)} :
         job = [row |-> row, x |-> x, object |-> object, words |-> words]
  /\ emitted = <<>> /\ phase = "emit" /\ cpu = Machine

\* No statement at all.
EncodingIdle ==
  /\ job = [row |-> One("NOP", "NOP", <<>>), x |-> <<>>, object |-> FALSE, words |-> 0]
  /\ emitted = <<>> /\ phase = "idle" /\ cpu = Machine

Here == Origin + 4 * Len(emitted)
NopWord == [op |-> "NOP", low |-> 0, rel |-> <<>>, bad |-> FALSE]

\* The next word of the row, or a refusal of the whole statement.
EmitWord ==
  /\ phase = "emit" /\ Len(emitted) < WordsOf(job.row)
  /\ LET c == EncodeWord(job.row.w[Len(emitted) + 1], job.x, Here, job.object)
     IN  IF c.bad THEN phase' = "refused" /\ UNCHANGED emitted
         ELSE emitted' = Append(emitted, c) /\ UNCHANGED phase
  /\ UNCHANGED <<job, cpu>>

\* A statement that was given more room than its row takes is filled up.
EmitPadding ==
  /\ phase = "emit" /\ Len(emitted) \in WordsOf(job.row)..(job.words - 1)
  /\ emitted' = Append(emitted, NopWord)
  /\ UNCHANGED <<job, phase, cpu>>

EmitDone ==
  /\ phase = "emit" /\ Len(emitted) = job.words
  /\ phase' = IF job.object THEN "emitted" ELSE "linked"
  /\ UNCHANGED <<job, emitted, cpu>>

\* The one operand that has an address.
TargetOf(x) == (CHOOSE i \in DOMAIN x : Symbolic(x[i]))
LinkObject ==
  /\ phase = "emitted"
  /\ LET patched == [i \in DOMAIN emitted |->
           IF emitted[i].rel = <<>> THEN emitted[i]
           ELSE Patch(emitted[i], job.x[TargetOf(job.x)].v, Origin + 4 * (i - 1))]
     IN  IF \E i \in DOMAIN patched : patched[i].bad THEN phase' = "refused" /\ UNCHANGED emitted
         ELSE emitted' = patched /\ phase' = "linked"
  /\ UNCHANGED <<job, cpu>>

InCode == cpu.pc \in Origin..(Origin + 4 * Len(emitted) - 1)
Current == emitted[((cpu.pc - Origin) \div 4) + 1]
Execute ==
  /\ phase = "linked" /\ InCode /\ \A i \in DOMAIN emitted : emitted[i].op \in RunsHere
  /\ cpu' = Executed(cpu, Current)
  /\ phase' = IF cpu'.pc \in (cpu.pc + 1)..(Origin + 4 * Len(emitted) - 1) THEN phase ELSE "done"
  /\ UNCHANGED <<job, emitted>>

EncodingNext == EmitWord \/ EmitPadding \/ EmitDone \/ LinkObject \/ Execute
EncodingSpec == EncodingInit /\ [][EncodingNext]_encodingVars

(***************************************************************************)
(* Properties.                                                             *)
(***************************************************************************)

\* Where a displacement of 24 bits leads.  A label 8 to 16 MiB ahead is not refused, though
\* the field has a sign: the jump goes that much less than 16 MiB back.
Reaches(target, here) == IF target - here >= 2^23 THEN target - 2^24 ELSE target

\* What an operand of a statement is once it is in a field of the word at "here".
ReadAs(x, y, here, f) ==
  CASE Symbolic(x) -> here + y.v = IF f = "SIMM24" THEN Reaches(x.v, here) ELSE x.v
    [] x.k = "imm" -> (x.v - y.v) % (2^Place(f).width) = 0
    [] OTHER -> x = y
Plain(row) == Len(row.w) = 1 /\ \A i \in DOMAIN row.w[1].ps : row.w[1].ps[i].i > 0 \/ row.w[1].ps[i].f = "SUBFIELD"

\* Every word that is made is one the machine accepts, and the disassembler, which keeps
\* tables of its own, reads the operands the source has back from it, in their order and
\* from the banks they were written in; a jump or a near access reaches the very address
\* it names or is refused, at both ends of its field and past them, but for the jump 8 to
\* 16 MiB ahead.  (A number is read back up to the width of its field: the source may
\* write it with or without its sign.)
ReadsBack == phase \in {"linked", "done"} =>
  /\ \A i \in DOMAIN emitted : Legal(emitted[i])
  /\ Plain(job.row) => LET c == emitted[1]  back == Reading(c)
                       IN  /\ Len(back) = Len(job.x)
                           /\ \A i \in DOMAIN back : ReadAs(job.x[i], back[i], Origin, Shape(c)[i])
                           /\ c.op \in DOMAIN Subfield => WordName(c) = job.row.m

\* "The same checks the emitter makes when it can see the address itself": a statement
\* assembled into an object and linked later has the words, and meets the refusals, of one
\* assembled with the whole program.
RECURSIVE Direct(_)
Direct(n) == IF n = 0 THEN <<>> ELSE Append(Direct(n - 1), EncodeWord(job.row.w[n], job.x, Origin + 4 * (n - 1), FALSE))
SameWhenLinked == job.object /\ phase \in {"refused", "linked"} =>
  LET whole == Direct(WordsOf(job.row))
      bad == \E i \in DOMAIN whole : whole[i].bad
  IN  IF phase = "refused" THEN bad ELSE ~bad /\ SubSeq(emitted, 1, Len(whole)) = whole

\* What the pseudo instructions are for, said of the source: a variable is read into or
\* written from the register named, whether near or far and whatever its size; an address
\* is taken; a comparison jumps to its label when it holds, or to where a label 8 to 16 MiB
\* ahead is reached.  Nothing else changes but the scratch register, and a statement that
\* does not jump goes on behind all its room.
KindOf(t) == CASE t \in {"u8", "@u8"} -> 1 [] t \in {"s8", "@s8"} -> 2 [] t \in {"u16", "@u16"} -> 3 [] t \in {"s16", "@s16"} -> 4
               [] t \in {"u64", "s64", "f64", "@u64", "@s64", "@f64"} -> 6 [] OTHER -> 5
StoredKind(t) == CASE KindOf(t) = 2 -> 1 [] KindOf(t) = 4 -> 3 [] OTHER -> KindOf(t)
Before(x) == IF x.k = "f" THEN Machine.f[x.n] ELSE IF x.k = "d" THEN Machine.f[2 * x.n]
             ELSE IF x.k = "x" THEN Machine.r[2 * x.n] ELSE IF x.k = "imm" THEN Signed(x.v, 16) ELSE Machine.r[x.n]
With(m, x, v) ==
  CASE x.k = "f" -> [m EXCEPT !.f[x.n] = v]
    [] x.k = "d" -> [m EXCEPT !.f[2 * x.n] = v, !.f[2 * x.n + 1] = v + 1]
    [] x.k = "x" -> [m EXCEPT !.r[2 * x.n] = v, !.r[2 * x.n + 1] = v + 1]
    [] OTHER -> [m EXCEPT !.r[x.n] = v]
IfHolds(m, a, b, float) ==
  CASE m = "IFEQ" -> a = b [] m = "IFNE" -> a # b [] m = "IFGR" -> a > b [] m = "IFGE" -> a >= b [] m = "IFLS" -> a < b
    [] m = "IFLE" -> a <= b [] m = "IFAB" -> Under(b, a, float) [] m = "IFAE" -> ~Under(a, b, float)
    [] m = "IFBL" -> Under(a, b, float) [] OTHER -> ~Under(b, a, float)
Ifs == {"IF" \o c[1] : c \in Conditions}
Says(m, t, x) ==
  LET on == [Machine EXCEPT !.pc = Origin + 4 * job.words]
      jump == Origin + 4 * (WordsOf(job.row) - 1)
  IN  CASE m \in Ifs -> IF IfHolds(m, Before(x[1]), Before(x[2]), x[1].k = "f") THEN [on EXCEPT !.pc = Reaches(x[3].v, jump)] ELSE on
        [] m \in {"JP", "JMP"} -> [on EXCEPT !.pc = IF Symbolic(x[1]) THEN Reaches(x[1].v, jump) ELSE Origin + x[1].v]
        [] m = "BL" -> [With(on, x[1], Origin + 4) EXCEPT !.pc = x[2].v]
        [] m = "LA" -> With(on, x[1], x[2].v)
        [] m = "MOV" /\ t[2] \in Sizes \cup {"label"} -> With(on, x[1], x[2].v)
        [] m = "INC" -> With(on, x[1], Before(x[1]) + 1)
        [] m = "DEC" -> With(on, x[1], Before(x[1]) - 1)
        [] m = "CLR" -> With(on, x[1], 0)
        [] m = "NEG" -> With(on, x[1], -Before(x[2]))
        [] m = "SWAP" -> With(With(on, x[1], Before(x[2])), x[2], Before(x[1]))
        [] x[1].k = "var" -> [on EXCEPT !.mem = << [a |-> x[1].v, kind |-> StoredKind(t[1]), v |-> Before(x[2])] >>]
        [] OTHER -> With(on, x[1], Held(x[2].v, KindOf(t[2])))
Said == {"LDV", "LDVP", "STV", "STVP", "LI64", "LA", "INC", "DEC", "CLR", "NEG", "JP", "JMP", "BL"} \cup Ifs
Speaks(row, x) ==
  \/ row.m \in Said /\ \A i \in DOMAIN x : row.t[i] \notin {"[+]"} /\ (row.m \in {"BL", "JP", "JMP", "NEG"} => row.t[i] # "f")
     /\ (row.m \in {"BL", "JP", "JMP"} => row.t[Len(x)] # "r")
  \/ row.m = "SWAP" /\ x[1] # x[2]
  \/ row.m \in {"LDR", "LDRD", "FLDR_D", "STR", "STRD", "FSTR_D", "MOV"} /\ \E i \in DOMAIN x : Symbolic(x[i])
DoesWhatItSays == phase = "done" /\ Speaks(job.row, job.x) =>
  LET says == Says(job.row.m, job.row.t, job.x)
  IN  [cpu EXCEPT !.r[Scratch] = 0, !.cmp = Machine.cmp] = [says EXCEPT !.r[Scratch] = 0]

\* What the source says, the word says, the linker completes and the machine does.
EncodingIsFaithful == ReadsBack /\ SameWhenLinked /\ DoesWhatItSays
=============================================================================
