------------------------- MODULE InstructionTable --------------------------
(* The assembler's table of instructions: which words a mnemonic with        *)
(* operands of given types stands for, and which field of a word takes which *)
(* operand.  A row is the mnemonic, the operand types and the words; a       *)
(* parameter of a word is a field with the operand it takes (a register, an  *)
(* immediate shifted right, ...) or with a number of its own.                *)
(*                                                                           *)
(* Operand types: "r", "f", "x", "d" are registers and pairs, "imm" a number,*)
(* "label" a label, "[+]" and "[r]" memory at a displacement or an index,    *)
(* "u8[+]" the same with a size, "u8" a variable, "@u8" what is in one.      *)
EXTENDS Integers, Sequences, FiniteSets

Fd(f, i)     == [f |-> f, i |-> i, fix |-> 0, sh |-> 0]
Fix(f, v)    == [f |-> f, i |-> 0, fix |-> v, sh |-> 0]
Op(o, ps)    == [op |-> o, ps |-> ps]
Row(m, t, w) == [m |-> m, t |-> t, w |-> w]
Scratch      == 13

TypeOfField(f) ==
  CASE f \in {"RD", "RS", "RT"} -> "r"
    [] f \in {"FD", "FS", "FT"} -> "f"
    [] f \in {"XD", "XS", "XT"} -> "x"
    [] f \in {"DD", "DS", "DT"} -> "d"
    [] f \in {"RD_SIMM16", "RS_SIMM16", "RT_SIMM16"} -> "[+]"
    [] f \in {"RS_RT", "RD_RT"} -> "[r]"
    [] f \in {"REL_ADDR", "REL_ADDR20"} -> "label"
    [] OTHER -> "imm"

\* A row of one word whose fields take the operands in order.
One(o, m, fs) == Row(m, [i \in DOMAIN fs |-> TypeOfField(fs[i])],
                     << Op(o, [i \in DOMAIN fs |-> Fd(fs[i], i)]) >>)
Same(ops, fs) == {One(o, o, fs) : o \in ops}
As(pairs, fs) == {One(p[1], p[2], fs) : p \in pairs}

RRR == <<"RD", "RS", "RT">>
RRI == <<"RD", "RS", "IMM16">>
RRS == <<"RD", "RS", "SIMM16">>
RR  == <<"RD", "RS">>
FFF == <<"FD", "FS", "FT">>
FF  == <<"FD", "FS">>

-----------------------------------------------------------------------------
SystemRows ==
  Same({"NOP", "HALT", "TRAP", "RESET", "IRET", "CLI", "STI", "PGON", "PGOFF", "FLPG"}, <<>>)
  \cup Same({"INT"}, <<"IMM8">>) \cup Same({"MTP", "INVLPG"}, <<"RS">>) \cup Same({"MFP", "MFPF"}, <<"RD">>)

ArithmeticRows ==
  Same({"ADD", "SUB", "MUL", "IMUL", "DIV", "IDIV", "MOD", "IMOD"}, RRR)
  \cup As({<<"ADDC", "ADC">>, <<"SUBC", "SBC">>}, RRR)
  \cup As({<<"ADDI", "ADD">>, <<"ADDCI", "ADC">>, <<"SUBI", "SUB">>, <<"SUBCI", "SBC">>, <<"MULI", "MUL">>,
           <<"DIVI", "DIV">>, <<"MODI", "MOD">>}, RRI)
  \cup As({<<"IMULI", "IMUL">>, <<"IDIVI", "IDIV">>, <<"IMODI", "IMOD">>}, RRS)
  \cup As({<<"FADD", "ADD">>, <<"FSUB", "SUB">>, <<"FMUL", "MUL">>, <<"FDIV", "DIV">>, <<"FMOD", "FMOD">>,
           <<"FMOD", "MOD">>}, FFF)
  \cup As({<<"FNEG", "NEG">>}, FF)
  \cup {Row("NEG", <<"r", "r">>, << Op("IMULI", <<Fd("RD", 1), Fd("RS", 2), Fix("SIMM16", -1)>>) >>)}

BitAndBlockRows ==
  Same({"MULH", "IMULH", "MIN", "IMIN", "MAX", "IMAX", "ROL", "ROR", "MCPY", "MSET", "MCMP", "MSCAN"}, RRR)
  \cup Same({"FMIN", "FMAX", "FCOPYSIGN", "FMA"}, FFF) \cup As({<<"FMIN", "MIN">>, <<"FMAX", "MAX">>}, FFF)
  \cup As({<<"MINI", "MIN">>, <<"MAXI", "MAX">>, <<"ROLI", "ROL">>, <<"RORI", "ROR">>}, RRI)
  \cup As({<<"IMINI", "IMIN">>, <<"IMAXI", "IMAX">>}, RRS)
  \cup Same({"ABS", "CLZ", "CTZ", "POPCNT", "BSWAP", "SXTB", "SXTH"}, RR)
  \cup Same({"FROUND", "FFLOOR", "FCEIL", "FTRUNC", "FRECIPE", "FRSQRTE"}, FF)
  \cup As({<<"FSQRT", "SQRT">>, <<"FABS", "ABS">>}, FF) \cup Same({"FCLASS"}, <<"RD", "FS">>)

LogicRows ==
  Same({"AND", "OR", "XOR", "SHL", "SHR", "SAR"}, RRR) \cup Same({"NOT"}, RR)
  \cup As({<<"ANDI", "AND">>, <<"ORI", "OR">>, <<"XORI", "XOR">>, <<"SHLI", "SHL">>, <<"SHRI", "SHR">>,
           <<"SARI", "SAR">>}, RRI)

-----------------------------------------------------------------------------
(* Variables.  A far access builds the address in a register first: the      *)
(* destination itself where that is an integer register, else the scratch    *)
(* register.                                                                 *)

Sizes == {"u8", "s8", "u16", "s16", "u32", "s32", "f32"}
Bank(t) == CASE t = "f32" -> "F" [] t = "f64" -> "D" [] t \in {"u64", "s64"} -> "X" [] OTHER -> "R"
Register(t) == CASE t = "f32" -> "f" [] t = "f64" -> "d" [] t \in {"u64", "s64"} -> "x" [] OTHER -> "r"
LoadOf(t)  == CASE t = "u8" -> "LDRB" [] t = "s8" -> "LDRSB" [] t = "u16" -> "LDRH" [] t = "s16" -> "LDRSH"
                [] t = "f32" -> "FLDR" [] t = "f64" -> "FLDRD" [] t \in {"u64", "s64"} -> "LDRD" [] OTHER -> "LDR"
StoreOf(t) == CASE t \in {"u8", "s8"} -> "STRB" [] t \in {"u16", "s16"} -> "STRH" [] t = "f32" -> "FSTR"
                [] t = "f64" -> "FSTRD" [] t \in {"u64", "s64"} -> "STRD" [] OTHER -> "STR"

\* The address of operand i into the register that operand 1 or the scratch register is.
AddressIn(bank, i) == << Op("LUI", <<Fd(bank \o "D", 1), [Fd("IMM16", i) EXCEPT !.sh = 16]>>),
                         Op("ORI", <<Fd(bank \o "D", 1), Fd(bank \o "S", 1), Fd("IMM16_LOW", i)>>) >>
AddressInScratch(i) == << Op("LUI", <<Fix("RD", Scratch), [Fd("IMM16", i) EXCEPT !.sh = 16]>>),
                          Op("ORI", <<Fix("RD", Scratch), Fix("RS", Scratch), Fd("IMM16_LOW", i)>>) >>

FarLoad(m, t, v) == Row(m, <<Register(t), v>>,
  IF Bank(t) \in {"R", "X"}
    THEN Append(AddressIn(Bank(t), 2), Op(LoadOf(t), <<Fd(Bank(t) \o "D", 1), Fd(Bank(t) \o "S", 1), Fix("IMM16", 0)>>))
    ELSE Append(AddressInScratch(2), Op(LoadOf(t), <<Fd(Bank(t) \o "D", 1), Fix("RS", Scratch), Fix("IMM16", 0)>>)))
FarStore(m, t, v) == Row(m, <<v, Register(t)>>,
  Append(AddressInScratch(1), Op(StoreOf(t), <<Fix("RD", Scratch), Fd(Bank(t) \o "S", 2), Fix("IMM16", 0)>>)))
NearLoad(t, v)  == Row("LDVP", <<Register(t), v>>, << Op(LoadOf(t) \o "P", <<Fd(Bank(t) \o "D", 1), Fd("REL_SIMM16", 2)>>) >>)
NearStore(t, v) == Row("STVP", <<v, Register(t)>>, << Op(StoreOf(t) \o "P", <<Fd(Bank(t) \o "S", 2), Fd("REL_SIMM16", 1)>>) >>)

MoveRows ==
  Same({"MOV"}, RR) \cup As({<<"FMOV", "MOV">>}, FF) \cup Same({"LI", "LUI"}, <<"RD", "IMM16">>)
  \cup As({<<"LI", "MOV">>}, <<"RD", "IMM16">>)
  \cup Same({"LDR", "LDRB", "LDRH", "LDRSB", "LDRSH"}, <<"RD", "RS_SIMM16">>) \cup As({<<"FLDR", "LDR">>}, <<"FD", "RS_SIMM16">>)
LoadVariableRows  == {FarLoad("LDV", t, t) : t \in Sizes}
PlainStoreRows    == Same({"STR", "STRB", "STRH"}, <<"RD_SIMM16", "RS">>) \cup As({<<"FSTR", "STR">>}, <<"RD_SIMM16", "FS">>)
StoreVariableRows == {FarStore("STV", t, t) : t \in Sizes}
AddressRows(m)    == {Row(m, <<"r", v>>, AddressIn("R", 2)) : v \in Sizes \cup {"label"}}

Sized(m) == UNION {{Row(m, <<Register(t), t \o "[+]">>, << Op(LoadOf(t), <<Fd(Bank(t) \o "D", 1), Fd("RS_SIMM16", 2)>>) >>),
                    Row(m, <<Register(t), t \o "[r]">>, << Op(LoadOf(t) \o "X", <<Fd(Bank(t) \o "D", 1), Fd("RS_RT", 2)>>) >>)} : t \in Sizes}
SizedStore(m) == UNION {{Row(m, <<t \o "[+]", Register(t)>>, << Op(StoreOf(t), <<Fd(Bank(t) \o "S", 2), Fd("RD_SIMM16", 1)>>) >>),
                         Row(m, <<t \o "[r]", Register(t)>>, << Op(StoreOf(t) \o "X", <<Fd(Bank(t) \o "S", 2), Fd("RD_RT", 1)>>) >>)} : t \in Sizes}
SizedRows == Sized("LDR") \cup SizedStore("STR")
IndexedRows ==
  As({<<"LDRX", "LDR">>, <<"LDRBX", "LDRB">>, <<"LDRHX", "LDRH">>, <<"LDRSBX", "LDRSB">>, <<"LDRSHX", "LDRSH">>}, <<"RD", "RS_RT">>)
  \cup As({<<"FLDRX", "LDR">>}, <<"FD", "RS_RT">>) \cup As({<<"FSTRX", "STR">>}, <<"RD_RT", "FS">>)
  \cup As({<<"STRX", "STR">>, <<"STRBX", "STRB">>, <<"STRHX", "STRH">>}, <<"RD_RT", "RS">>)
NearRows == {NearLoad(t, t) : t \in Sizes} \cup {NearStore(t, t) : t \in Sizes}
MoveMemoryRows ==
  As({<<"LDR", "MOV">>}, <<"RD", "RS_SIMM16">>) \cup As({<<"LDRX", "MOV">>}, <<"RD", "RS_RT">>)
  \cup As({<<"FLDR", "MOV">>}, <<"FD", "RS_SIMM16">>) \cup As({<<"FLDRX", "MOV">>}, <<"FD", "RS_RT">>)
  \cup As({<<"STR", "MOV">>}, <<"RD_SIMM16", "RS">>) \cup As({<<"STRX", "MOV">>}, <<"RD_RT", "RS">>)
  \cup As({<<"FSTR", "MOV">>}, <<"RD_SIMM16", "FS">>) \cup As({<<"FSTRX", "MOV">>}, <<"RD_RT", "FS">>)
MoveSizedRows == Sized("MOV") \cup SizedStore("MOV")
NearContentsRows == {NearLoad(t, "@" \o t) : t \in Sizes} \cup {NearStore(t, "@" \o t) : t \in Sizes}
LoadContentsRows == UNION {{FarLoad(m, t, "@" \o t) : t \in Sizes} : m \in {"LDR", "MOV"}}
StoreContentsRows == UNION {{FarStore(m, t, "@" \o t) : t \in Sizes} : m \in {"STR", "MOV"}}

-----------------------------------------------------------------------------
(* Jumps: to a label, by a number, to a register.                            *)

Jumps(m, o, r) == {One(o, m, <<"REL_ADDR">>), One(o, m, <<"SIMM24">>), One(r, m, <<"RS">>)}
Conditions == {<<"EQ", "JZ">>, <<"NE", "JNZ">>, <<"GR", "JGR">>, <<"GE", "JGE">>, <<"LS", "JLS">>, <<"LE", "JLE">>,
               <<"AB", "JAB">>, <<"AE", "JAE">>, <<"BL", "JBL">>, <<"BE", "JBE">>}

JumpRows ==
  UNION {Jumps(j, j, j \o "R") : j \in {"JP", "JZ", "JNZ", "JC", "JNC", "JS", "JNS", "CALL"}}
  \cup Same({"CMP"}, <<"RS", "RT">>) \cup As({<<"CMPI", "CMP">>}, <<"RS", "SIMM16">>) \cup As({<<"FCMP", "CMP">>}, <<"FS", "FT">>)
  \cup Same({"RET"}, <<>>) \cup Same({"BL"}, <<"RD", "REL_ADDR20">>) \cup As({<<"BLR", "BL">>}, RR)
  \cup Jumps("JMP", "JP", "JPR") \cup UNION {Jumps("J" \o c[1], c[2], c[2] \o "R") : c \in Conditions}
IfRows == UNION {{Row("IF" \o c[1], p[1] \o <<"label">>, << Op(p[2], p[3]), Op(c[2], <<Fd("REL_ADDR", 3)>>) >>)
    : p \in {<< <<"r", "r">>, "CMP", <<Fd("RS", 1), Fd("RT", 2)>> >>, << <<"r", "imm">>, "CMPI", <<Fd("RS", 1), Fd("SIMM16", 2)>> >>,
             << <<"f", "f">>, "FCMP", <<Fd("FS", 1), Fd("FT", 2)>> >>}} : c \in Conditions}

PseudoRows ==
  {Row("LA", <<"r", "imm">>, AddressIn("R", 2)),
   Row("INC", <<"r">>, << Op("ADDI", <<Fd("RD", 1), Fd("RS", 1), Fix("IMM16", 1)>>) >>),
   Row("DEC", <<"r">>, << Op("SUBI", <<Fd("RD", 1), Fd("RS", 1), Fix("IMM16", 1)>>) >>),
   Row("CLR", <<"r">>, << Op("LI", <<Fd("RD", 1), Fix("IMM16", 0)>>) >>),
   Row("TST", <<"r">>, << Op("CMPI", <<Fd("RS", 1), Fix("SIMM16", 0)>>) >>),
   Row("SWAP", <<"r", "r">>, << Op("XOR", <<Fd("RD", 1), Fd("RS", 1), Fd("RT", 2)>>),
                                Op("XOR", <<Fd("RD", 2), Fd("RS", 1), Fd("RT", 2)>>),
                                Op("XOR", <<Fd("RD", 1), Fd("RS", 1), Fd("RT", 2)>>) >>),
   Row("ENTER", <<>>, << Op("ENTER", <<Fix("IMM16", 0)>>) >>)}
  \cup Same({"ENTER"}, <<"IMM16">>) \cup Same({"LEAVE"}, <<>>) \cup UNION {Jumps(j, j, j \o "R") : j \in {"JO", "JNO"}}
StackRows ==
  Same({"PUSH"}, <<"RS">>) \cup Same({"POP"}, <<"RD">>) \cup Same({"PUSHM", "POPM", "FPUSHM", "FPOPM"}, <<"IMM16">>)
  \cup As({<<"PUSHF", "PUSH">>, <<"POPF", "POP">>}, <<>>) \cup As({<<"FPUSH", "PUSH">>}, <<"FS">>) \cup As({<<"FPOP", "POP">>}, <<"FD">>)
  \cup Same({"ITOF", "IITOF", "MTF"}, <<"FD", "RS">>) \cup Same({"FTOI", "FTOII", "MFF"}, <<"RD", "FS">>)

-----------------------------------------------------------------------------
(* Pairs: 64-bit integers and doubles.  A subfield tells instructions that   *)
(* share an opcode apart; it lies in the bits no register uses.              *)

Pick(m, t, o, fs, sub) == Row(m, t, << Op(o, [i \in DOMAIN fs |-> Fd(fs[i], i)] \o << Fix("SUBFIELD", sub) >>) >>)
PairRows ==
  Same({"ADD64", "SUB64", "MUL64", "DIV64", "IDIV64", "MOD64", "IMOD64"}, <<"XD", "XS", "XT">>)
  \cup Same({"NEG64", "MOV64"}, <<"XD", "XS">>) \cup Same({"CMP64"}, <<"XS", "XT">>) \cup Same({"MULL", "IMULL"}, <<"XD", "RS", "RT">>)
  \cup Same({"SHL64", "SHR64", "SAR64"}, <<"XD", "XS", "RT">>) \cup Same({"SXT64"}, <<"XD", "RS">>)
  \cup {Pick(s[1], <<"x", "x", "imm">>, "SHI64", <<"XD", "XS", "IMM6">>, s[2]) : s \in {<<"SHL64", 0>>, <<"SHR64", 64>>, <<"SAR64", 128>>}}
  \cup {Pick(s[1], <<"r", "x">>, "BITS64", <<"RD", "XS">>, s[2]) : s \in {<<"CLZ64", 0>>, <<"CTZ64", 1>>, <<"POPCNT64", 2>>}}
  \cup Same({"LDRD"}, <<"XD", "RS_SIMM16">>) \cup As({<<"LDRDX", "LDRD">>}, <<"XD", "RS_RT">>)
  \cup Same({"STRD"}, <<"RD_SIMM16", "XS">>) \cup As({<<"STRDX", "STRD">>}, <<"RD_RT", "XS">>)
DoubleRows ==
  As({<<"FADDD", "FADD_D">>, <<"FSUBD", "FSUB_D">>, <<"FMULD", "FMUL_D">>, <<"FDIVD", "FDIV_D">>, <<"FMAD", "FMA_D">>,
      <<"FMODD", "FMOD_D">>, <<"FCOPYSIGND", "FCOPYSIGN_D">>}, <<"DD", "DS", "DT">>)
  \cup As({<<"FSQRTD", "FSQRT_D">>, <<"FMOVD", "FMOV_D">>}, <<"DD", "DS">>) \cup As({<<"FCMPD", "FCMP_D">>}, <<"DS", "DT">>)
  \cup {Pick(s[1], <<"d", "d", "d">>, "FMINMAXD", <<"DD", "DS", "DT">>, s[2]) : s \in {<<"FMIN_D", 0>>, <<"FMAX_D", 1>>}}
  \cup {Pick(s[1], <<"d", "d">>, "FUNARYD", <<"DD", "DS">>, s[2]) : s \in {<<"FNEG_D", 0>>, <<"FABS_D", 1>>, <<"FROUND_D", 2>>,
          <<"FFLOOR_D", 3>>, <<"FCEIL_D", 4>>, <<"FTRUNC_D", 5>>}}
  \cup As({<<"FCLASSD", "FCLASS_D">>}, <<"RD", "DS">>)
  \cup As({<<"FLDRD", "FLDR_D">>}, <<"DD", "RS_SIMM16">>) \cup As({<<"FLDRDX", "FLDR_D">>}, <<"DD", "RS_RT">>)
  \cup As({<<"FSTRD", "FSTR_D">>}, <<"RD_SIMM16", "DS">>) \cup As({<<"FSTRDX", "FSTR_D">>}, <<"RD_RT", "DS">>)
  \cup As({<<"MTFD", "MTF_D">>}, <<"DD", "XS">>) \cup As({<<"MFFD", "MFF_D">>}, <<"XD", "DS">>)
WideVariableRows ==
  UNION {{FarLoad("LDV", t, t), FarLoad("LI64", t, t), NearLoad(t, t), FarStore("STV", t, t), FarLoad("LDRD", t, "@" \o t),
          NearLoad(t, "@" \o t), FarStore("STRD", t, "@" \o t)} : t \in {"u64", "s64"}}
  \cup {FarLoad("LDV", "f64", "f64"), NearLoad("f64", "f64"), FarStore("STV", "f64", "f64"), FarLoad("FLDR_D", "f64", "@f64"),
        NearLoad("f64", "@f64"), FarStore("FSTR_D", "f64", "@f64")}
ConversionRows ==
  {Pick("FCVT_" \o s[1], <<s[2], s[4]>>, "FCVT", <<s[3], s[5]>>, s[6]) : s \in
    {<<"D_S", "d", "DD", "f", "FS", 0>>, <<"S_D", "f", "FD", "d", "DS", 1>>, <<"D_W", "d", "DD", "r", "RS", 2>>,
     <<"D_WU", "d", "DD", "r", "RS", 3>>, <<"W_D", "r", "RD", "d", "DS", 4>>, <<"WU_D", "r", "RD", "d", "DS", 5>>,
     <<"D_L", "d", "DD", "x", "XS", 6>>, <<"D_LU", "d", "DD", "x", "XS", 7>>, <<"L_D", "x", "XD", "d", "DS", 8>>,
     <<"LU_D", "x", "XD", "d", "DS", 9>>, <<"S_L", "f", "FD", "x", "XS", 10>>, <<"S_LU", "f", "FD", "x", "XS", 11>>,
     <<"L_S", "x", "XD", "f", "FS", 12>>, <<"LU_S", "x", "XD", "f", "FS", 13>>}}

-----------------------------------------------------------------------------
Rows == SystemRows \cup ArithmeticRows \cup BitAndBlockRows \cup LogicRows \cup MoveRows \cup LoadVariableRows \cup PlainStoreRows
        \cup StoreVariableRows \cup AddressRows("LA") \cup SizedRows \cup IndexedRows \cup NearRows
        \cup As({<<"LEA", "LA">>}, <<"RD", "RS_SIMM16">>) \cup AddressRows("MOV") \cup MoveMemoryRows \cup MoveSizedRows
        \cup NearContentsRows \cup LoadContentsRows \cup StoreContentsRows \cup JumpRows \cup IfRows \cup PseudoRows \cup StackRows
        \cup PairRows \cup DoubleRows \cup WideVariableRows \cup ConversionRows

\* What a statement takes in the text: the words of its own row, or the most any row of
\* its mnemonic takes.
WordsOf(r) == Len(r.w)
MostWords(m) == CHOOSE n \in {Len(r.w) : r \in {q \in Rows : q.m = m}} : \A r \in Rows : r.m = m => Len(r.w) <= n
=============================================================================
