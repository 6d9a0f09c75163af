--------------------------- MODULE MCInstructions ---------------------------
EXTENDS Alu, MemoryAccess

I(op, a, b, c) == [op |-> op, d |-> a, s |-> b, t |-> c, imm |-> FALSE, wide |-> FALSE, from |-> "", to |-> ""]
N(op, a, b, c) == [I(op, a, b, c) EXCEPT !.imm = TRUE]
D(op, a, b, c) == [I(op, a, b, c) EXCEPT !.wide = TRUE]
V(op, to, a, from, b) == [I(op, a, b, 0) EXCEPT !.to = to, !.from = from]

-----------------------------------------------------------------------------
(* Two ways to the same number: the first leaves it in r8:r9, f4 or d4, the *)
(* second in r10:r11, f5 or d5.                                             *)

WordWays == {
  <<I("NOT", 8, 0, 0), N("ADD", 8, 8, 1), I("SUB", 10, 7, 0)>>,
  <<I("OR", 8, 0, 2), I("AND", 9, 0, 2), I("SUB", 8, 8, 9), I("MOV", 9, 7, 0), I("XOR", 10, 0, 2)>>,
  <<I("ROL", 8, 0, 2), I("ROR", 8, 8, 2), I("MOV", 10, 0, 0)>>,
  <<I("BSWAP", 8, 0, 0), I("BSWAP", 8, 8, 0), N("OR", 10, 0, 0)>>,
  <<N("SHL", 8, 0, 3), N("SAR", 8, 8, 3), I("SXTB", 10, 0, 0)>>,
  <<N("SHL", 8, 0, 2), N("SAR", 8, 8, 2), I("SXTH", 10, 0, 0)>>,
  <<N("LI", 8, 0, 3), N("SHL", 8, 8, 2), N("LUI", 10, 0, 3)>>,
  <<I("MIN", 8, 0, 2), I("MAX", 9, 0, 2), I("ADD", 8, 8, 9), I("MOV", 9, 7, 0), I("ADD", 10, 0, 2)>>,
  <<I("IMIN", 8, 0, 2), I("IMAX", 9, 0, 2), I("XOR", 8, 8, 9), I("MOV", 9, 7, 0), I("XOR", 10, 0, 2)>>,
  <<N("MAX", 8, 0, 2), N("MIN", 9, 0, 2), I("ADD", 8, 8, 9), I("MOV", 9, 7, 0), N("ADD", 10, 0, 2)>>,
  <<N("IMAX", 8, 0, 2), N("IMIN", 9, 0, 2), I("ADD", 8, 8, 9), I("MOV", 9, 7, 0), N("SUB", 10, 0, 2)>>,
  <<I("ABS", 8, 0, 0), N("LI", 9, 0, 3), I("SAR", 10, 0, 9), I("XOR", 9, 0, 10), I("SUB", 10, 9, 10), I("MOV", 9, 7, 0)>>,
  <<I("CLZ", 8, 0, 0), N("ADD", 8, 8, 3), N("ADD", 8, 8, 1), I("CLZ64", 10, 0, 0)>>,
  <<I("POPCNT", 8, 0, 0), I("POPCNT", 9, 1, 0), I("ADD", 8, 8, 9), I("MOV", 9, 7, 0), I("POPCNT64", 10, 0, 0)>>,
  <<I("NOT", 8, 0, 0), I("SUB", 9, 7, 0), I("AND", 8, 0, 9), I("CTZ", 9, 0, 0), I("MOV", 8, 9, 0), I("MOV", 9, 7, 0), I("CTZ", 10, 0, 0)>>,
  <<I("MUL", 8, 0, 2), I("MULH", 9, 0, 2), I("MULL", 10, 0, 2)>>,
  <<I("IMUL", 8, 0, 2), I("IMULH", 9, 0, 2), I("IMULL", 10, 0, 2)>>,
  <<N("IMUL", 8, 0, 3), N("MUL", 10, 0, 1), I("SUB", 10, 7, 10)>>,
  <<I("MOV", 8, 0, 0), N("SAR", 9, 0, 3), I("SXT64", 10, 0, 0)>>,
  <<V("FCVT", "d", 0, "wu", 0), V("FCVT", "wu", 8, "d", 0), I("MOV", 10, 0, 0)>>,
  <<V("FCVT", "d", 0, "w", 0), V("FCVT", "w", 8, "d", 0), V("ITOF", "s", 0, "w", 0), I("MOV", 10, 0, 0)>>}

Shifting(kind, n, m) == <<N(kind, 8, 0, n), N(kind, 8, 8, m), N(kind, 10, 0, n + m)>>
Shifting64(op, op32, rop, k) ==   \* a pair shifted with word instructions, 0 < k < Width
  IF op = "SHL64"
    THEN <<N("SHL", 9, 1, k), N("SHR", 8, 0, 4 - k), I("OR", 9, 9, 8), N("SHL", 8, 0, k), N(op, 10, 0, k)>>
    ELSE <<N("SHR", 8, 0, k), N("SHL", 9, 1, 4 - k), I("OR", 8, 8, 9), N(op32, 9, 1, k), N(op, 10, 0, k)>>
PairWays ==
  {<<I("ADD", 8, 0, 2), I("ADDC", 9, 1, 3), I("ADD64", 10, 0, 2)>>,
   <<I("SUB", 8, 0, 2), I("SUBC", 9, 1, 3), I("SUB64", 10, 0, 2)>>,
   <<N("ADD", 8, 0, 3), N("ADDC", 9, 1, 0), N("LI", 12, 0, 3), I("ADD64", 10, 0, 12)>>,
   <<N("SUB", 8, 0, 3), N("SUBC", 9, 1, 0), N("LI", 12, 0, 3), I("SUB64", 10, 0, 12)>>,
   <<I("SUB64", 8, 6, 0), I("NEG64", 10, 0, 0)>>,
   <<I("ADD64", 8, 0, 0), N("SHL64", 10, 0, 1)>>,
   <<I("MUL", 8, 0, 2), I("MULH", 9, 0, 2), I("MUL", 12, 0, 3), I("ADD", 9, 9, 12), I("MUL", 12, 1, 2), I("ADD", 9, 9, 12),
     I("MUL64", 10, 0, 2)>>,
   <<V("FCVT", "d", 0, "lu", 0), V("FCVT", "lu", 8, "d", 0), I("MOV64", 10, 0, 0)>>,
   <<V("FCVT", "d", 0, "l", 0), V("FCVT", "l", 8, "d", 0), I("MOV64", 10, 0, 0)>>}
  \cup {Shifting64(s[1], s[2], s[3], k) : s \in {<<"SHL64", "SHL", "SHR">>, <<"SHR64", "SHR", "SHL">>, <<"SAR64", "SAR", "SHL">>}, k \in 1..3}
  \cup {Shifting(kind, n, m) : kind \in {"SHL64", "SHR64", "SAR64"}, n \in {1, 3}, m \in {1, 4}}
(* These leave the same Carry both ways.                                    *)
CarryWays == {Shifting(kind, n, m) : kind \in {"SHL", "SHR", "SAR"}, n \in 0..2, m \in 0..1}

FloatWays == {
  <<I("FSUB", 4, 0, 1), I("FNEG", 5, 1, 0), I("FADD", 5, 0, 5)>>,
  <<N("LI", 0, 0, 1), V("ITOF", "s", 2, "wu", 0), I("FDIV", 4, 2, 0), I("FRECIPE", 5, 0, 0)>>,
  <<I("FSQRT", 4, 0, 0), I("FRECIPE", 4, 4, 0), I("FRSQRTE", 5, 0, 0)>>,
  <<I("FABS", 4, 0, 0), I("FCOPYSIGN", 5, 0, 3)>>,
  <<I("FMOV", 4, 1, 0), I("FMA", 4, 0, 2), I("FMUL", 5, 0, 2), I("FADD", 5, 1, 5)>>,
  <<I("FMUL", 4, 0, 1), I("FMUL", 5, 1, 0)>>,
  <<I("FFLOOR", 4, 0, 0), I("FNEG", 5, 0, 0), I("FCEIL", 5, 5, 0), I("FNEG", 5, 5, 0)>>,
  <<I("FABS", 4, 0, 0), I("FFLOOR", 4, 4, 0), I("FCOPYSIGN", 4, 4, 0), I("FTRUNC", 5, 0, 0)>>,
  <<V("FCVT", "d", 4, "s", 0), V("FCVT", "s", 4, "d", 4), I("FROUND", 5, 0, 0), I("FMOV", 5, 0, 0)>>,
  <<I("FMIN", 4, 0, 1), I("FNEG", 0, 0, 0), I("FNEG", 1, 1, 0), I("FMAX", 5, 0, 1), I("FNEG", 5, 5, 0)>>}
DoubleWays == {
  <<D("FSUB", 4, 0, 1), D("FNEG", 5, 1, 0), D("FADD", 5, 0, 5)>>,
  <<D("FABS", 4, 0, 0), D("FFLOOR", 4, 4, 0), D("FCOPYSIGN", 4, 4, 0), D("FTRUNC", 5, 0, 0)>>,
  <<D("FMIN", 4, 0, 1), D("FNEG", 0, 0, 0), D("FNEG", 1, 1, 0), D("FMAX", 5, 1, 0), D("FNEG", 5, 5, 0)>>,
  <<D("FMOD", 4, 2, 2), D("FSQRT", 2, 3, 0), D("FMA", 4, 0, 1), D("FMUL", 5, 0, 1)>>}

-----------------------------------------------------------------------------
(* A comparison and a jump over the instruction that marks the way not gone.*)
Branches ==
  {<<c, I(j, 4, 0, 0), N("LI", 8, 0, 1)>> :
     c \in {I("CMP", 0, 0, 2), N("CMP", 0, 0, 3), N("CMP", 0, 0, 1), I("CMP64", 0, 0, 2)},
     j \in {"JGR", "JGE", "JLS", "JLE", "JAB", "JAE", "JBL", "JBE", "JZ", "JNZ"}}
FloatBranches ==
  {<<c, I(j, 4, 0, 0), N("LI", 8, 0, 1)>> :
     c \in {I("FCMP", 0, 0, 1), D("FCMPD", 0, 0, 1)}, j \in {"JAB", "JAE", "JBL", "JBE", "JZ", "JNZ"}}
(* The other jumps read one flag each.                                      *)
OtherJumps ==
  {<<I("ADD", 8, 0, 2), I(j, 4, 0, 0), I("JP", 4, 0, 0)>> : j \in {"JS", "JNS", "JO", "JNO", "JC", "JNC"}}

(* A quotient and a remainder of the same two numbers.                      *)
Divisions ==
  {<<I("DIV", 8, 0, 2), I("MOD", 10, 0, 2)>>, <<I("IDIV", 8, 0, 2), I("IMOD", 10, 0, 2)>>,
   <<N("DIV", 8, 0, 3), N("MOD", 10, 0, 3)>>, <<N("IDIV", 8, 0, 3), N("IMOD", 10, 0, 3)>>,
   <<N("IDIV", 8, 0, 0), N("IMOD", 10, 0, 0)>>,
   <<I("DIV64", 8, 0, 2), I("MOD64", 10, 0, 2)>>, <<I("IDIV64", 8, 0, 2), I("IMOD64", 10, 0, 2)>>}
FloatDivisions == {<<I("FDIV", 4, 0, 1), I("FMOD", 5, 0, 1)>>, <<D("FDIV", 4, 0, 1), D("FMOD", 5, 0, 1)>>}
RefusedAccess ==
  {<<I("ADD64", 1, 0, 2)>>, <<I("MUL64", 0, 2, 14)>>, <<I("CLZ64", 0, 3, 0)>>, <<I("CMP64", 0, 14, 0)>>,
   <<I("NOSUBFIELD", 0, 0, 0)>>, <<V("FTOI", "wu", 8, "s", 0), V("FTOII", "w", 10, "s", 0), V("FCLASS", "wu", 9, "s", 0)>>}

McPrograms ==
  WordWays \cup PairWays \cup CarryWays \cup FloatWays \cup DoubleWays \cup Branches \cup FloatBranches \cup OtherJumps
    \cup Divisions \cup FloatDivisions \cup RefusedAccess

-----------------------------------------------------------------------------
McSingle == Format(3, 2, 2)
McDouble == Format(1023, 4, 4)
Corners == {0, 1, 6, 7, 8, 15}
DoubleCorners == [neg : BOOLEAN, mag : {0, 3, 4, 6, 10, 1024, 1025}]
Start(words, pairs) ==
  [k \in 0..15 |-> CASE k = 0 -> words[1] [] k = 2 -> words[2] [] k = 1 -> pairs[1] [] k = 3 -> pairs[2] [] OTHER -> 0]
Usual == [ieee |-> FALSE, faults |-> FALSE]
Empty == Number(FALSE, 0)

AluInit ==
  /\ pc = 1 /\ trap = FALSE /\ vectors = <<>>
  /\ flags = [z |-> TRUE, s |-> TRUE, c |-> TRUE, v |-> FALSE]
  /\ code \in Programs
  /\ \/ /\ code \in WordWays \cup CarryWays \cup OtherJumps \cup RefusedAccess
                      \cup {p \in Branches \cup Divisions : p[1].op \notin {"CMP64", "DIV64", "IDIV64"}}
        /\ r \in {Start(<<a, b>>, <<0, 0>>) : a, b \in 0..Bits - 1}
        /\ features \in IF code \in Divisions THEN {Usual, [Usual EXCEPT !.faults = TRUE]} ELSE {Usual}
        /\ f \in IF code \in RefusedAccess THEN {[k \in 0..5 |-> x] : x \in Numbers(Single)} ELSE {[k \in 0..5 |-> Empty]}
        /\ d = [k \in 0..5 |-> Empty]
     \/ /\ code \in PairWays \cup {p \in Branches \cup Divisions : p[1].op \in {"CMP64", "DIV64", "IDIV64"}}
        /\ r \in {Start(<<a, b>>, <<x, y>>) : a, b, x, y \in Corners}
        /\ features \in IF code \in Divisions THEN {Usual, [Usual EXCEPT !.faults = TRUE]} ELSE {Usual}
        /\ f = [k \in 0..5 |-> Empty] /\ d = f
     \/ /\ code \in FloatWays \cup DoubleWays \cup FloatBranches \cup FloatDivisions
        /\ f \in {[[k \in 0..5 |-> Empty] EXCEPT ![0] = x, ![1] = y, ![2] = Number(FALSE, 3)] : x, y \in Numbers(Single)}
        /\ d \in IF code[1].wide THEN {[[k \in 0..5 |-> Number(FALSE, 9)] EXCEPT ![0] = x, ![1] = y] : x, y \in DoubleCorners}
                                 ELSE {[k \in 0..5 |-> Empty]}
        /\ (code[1].wide => f[0] = Empty /\ f[1] = Empty)
        /\ features \in [ieee : BOOLEAN, faults : BOOLEAN]
        /\ r = Start(<<0, 0>>, <<0, 0>>)

-----------------------------------------------------------------------------
(* Pages: the vectors, three of RAM of which the last is the system stack,  *)
(* one nothing is behind, one of VRAM, and the devices.                     *)
McKinds == [p \in 0..6 |-> <<"low", "ram", "ram", "ram", "none", "vram", "device">>[p + 1]]
McFixed == {0, 3, 6}
McContents == <<0, 0, 0, 0, 1, 200, 2, 1, 1, 2, 1, 200, 3, 3, 3, 3, 0, 0, 0, 0, 1, 200, 2, 2, 0, 0, 0, 0>>
Mapping(one, two, four, five) == [p \in 0..6 |-> CASE p = 1 -> one [] p = 2 -> two [] p = 4 -> four [] p = 5 -> five [] OTHER -> p]
(* As they are; crossed, with two pages on one frame; on a device and on    *)
(* nothing; on the vectors.                                                 *)
McMaps == {Mapping(1, 2, 4, 5), Mapping(2, 1, 5, 1), Mapping(1, 5, 6, 4), Mapping(2, 1, 0, 2)}

Fresh(op) == [op |-> op, at |-> 0, size |-> 4, signed |-> FALSE, value |-> <<0, 0, 0, 0>>, rd |-> 0, rs |-> 0, rt |-> 0,
                flags |-> [z |-> FALSE, c |-> TRUE, s |-> FALSE, v |-> TRUE], state |-> "running"]
Lone(op, size, signed, at) == [Fresh(op) EXCEPT !.at = at, !.size = size, !.signed = signed,
                                    !.value = [k \in 1..(IF size = 8 THEN 8 ELSE size) |-> 10 + k]]
Block(op, rd, rs, rt) == [Fresh(op) EXCEPT !.rd = rd, !.rs = rs, !.rt = rt]
McJobs ==
  {Lone("load", size, signed, at) : size \in {1, 2, 4}, signed \in BOOLEAN, at \in {2, 4, 5, 16, 20, 24}}
    \cup {Lone("load", 8, FALSE, at) : at \in {4, 6, 8, 16, 20, 24}}
    \cup {Lone("store", size, FALSE, at) : size \in {1, 2, 4}, at \in {2, 4, 5, 10, 16, 20, 24}}
    \cup {Lone("store", 8, FALSE, at) : at \in {4, 6, 12, 16, 20, 24}}
    \cup {Block("mcpy", rd, rs, rt) : rd \in {4, 6, 16}, rs \in {0, 4, 5, 7}, rt \in {0, 3, 6}}
    \cup {Block("mcpy", rd, rs, 3) : rd \in {8, 24}, rs \in {16, 24}}
    \cup {Block("mset", rd, 9, rt) : rd \in {4, 5, 14, 17}, rt \in {0, 2, 7}}
    \cup {Block("mcmp", rd, rs, rt) : rd \in {4, 16}, rs \in {6, 8, 20}, rt \in {0, 3, 7}}
    \cup {Block("mscan", rd, value, rt) : rd \in {4, 16}, value \in {1, 2}, rt \in {0, 7}}

Idle ==
  /\ job = [Fresh("none") EXCEPT !.state = "done"] /\ home = Mapping(1, 2, 4, 5) /\ gate = TRUE /\ strict = FALSE
  /\ bytes = <<>> /\ table = <<>> /\ marks = {} /\ bus = <<>> /\ faulted = NoFault /\ steals = 0 /\ start = <<>>
Halted ==
  /\ code = <<>> /\ pc = 1 /\ r = <<>> /\ f = <<>> /\ d = <<>> /\ flags = <<>> /\ trap = FALSE /\ vectors = <<>>
  /\ features = Usual

(* One program at a time: one that computes, or one access to memory.       *)
InstructionInit == (AluInit /\ Idle) \/ (AccessInit /\ Halted)
InstructionNext == (Execute /\ UNCHANGED accessVars) \/ (AccessAt /\ UNCHANGED aluVars)
InstructionSpec == InstructionInit /\ [][InstructionNext]_<<aluVars, accessVars>>

-----------------------------------------------------------------------------
Finished == pc > Len(code) /\ code # <<>>

SameFloat(F, x, y) == x = y \/ (IsNaN(F, x) /\ IsNaN(F, y)) \/ (IsZero(x) /\ IsZero(y))
(* Two ways of computing one number in the instruction set give it: words   *)
(* and pairs, immediates and registers, floats, doubles and integers.       *)
WaysAgree ==
  Finished =>
    /\ code \in WordWays \cup PairWays \cup CarryWays => Pair(8) = Pair(10)
    /\ code \in FloatWays /\ vectors = <<>> /\ ~trap => SameFloat(Single, f[4], f[5])
    /\ code \in DoubleWays => SameFloat(Double, d[4], d[5])

Order(op, lt, eq) ==
  CASE op \in {"JGR", "JAB"} -> ~lt /\ ~eq [] op \in {"JGE", "JAE"} -> ~lt [] op \in {"JLS", "JBL"} -> lt
    [] op \in {"JLE", "JBE"} -> lt \/ eq [] op = "JZ" -> eq [] op = "JNZ" -> ~eq
Compared(M, a, b, op) ==
  IF op \in {"JGR", "JGE", "JLS", "JLE"} THEN Order(op, Signed(M, a) < Signed(M, b), a = b) ELSE Order(op, a < b, a = b)
(* The jump after a comparison goes where the order of the two operands     *)
(* sends it: integers and pairs by their sign or without it, floats by the  *)
(* unsigned jumps.                                                          *)
BranchesOrder ==
  Finished /\ code \in Branches \cup FloatBranches =>
    LET op == code[2].op
        b == IF code[1].imm THEN SignExtend(code[1].t, Width \div 2) ELSE r[2]
    IN (r[8] = 0) <=>
         CASE code[1].op = "CMP" -> Compared(Bits, r[0], b, op)
           [] code[1].op = "CMP64" -> Compared(PairBits, Pair(0), Pair(2), op)
           [] code[1].op = "FCMP" -> IF IsNaN(Single, f[0]) \/ IsNaN(Single, f[1]) THEN op \in {"JAB", "JAE", "JNZ"}
                                     ELSE Order(op, Units(f[0]) < Units(f[1]), Units(f[0]) = Units(f[1]))
           [] OTHER -> IF IsNaN(Double, d[0]) \/ IsNaN(Double, d[1]) THEN op \in {"JAB", "JAE", "JNZ"}
                       ELSE Order(op, Units(d[0]) < Units(d[1]), Units(d[0]) = Units(d[1]))

(* A quotient and a remainder make up the dividend, the remainder smaller   *)
(* than the divisor and with the dividend's sign; dividing by zero touches  *)
(* no register and says so once for each division.                          *)
DivisionAddsUp ==
  Finished /\ code \in Divisions =>
    LET wide == code[1].op \in {"DIV64", "IDIV64"}
        signed == code[1].op \in {"IDIV", "IDIV64"}
        M == IF wide THEN PairBits ELSE Bits
        At(k) == IF wide THEN Pair(k) ELSE r[k]
        Value(n) == IF signed THEN Signed(M, n) ELSE n
        a == Value(At(0))
        b == Value(IF ~code[1].imm THEN At(2) ELSE IF signed THEN SignExtend(code[1].t, Width \div 2) ELSE code[1].t)
        q == Value(At(8))
        m == Value(At(10))
    IN IF b = 0
         THEN /\ At(8) = 0 /\ At(10) = 0
              /\ trap = ~features.faults
              /\ vectors = IF features.faults THEN <<"DivisionByZero", "DivisionByZero">> ELSE <<>>
         ELSE /\ (b * q + m - a) % M = 0 /\ (a # -MostNegative(M) \/ b # -1 => b * q + m = a)
              /\ Abs(m) < Abs(b) /\ (m # 0 => (m < 0) = (a < 0))
              /\ vectors = <<>> /\ ~trap

(* What the instruction set computes agrees with itself and with the        *)
(* integers: the ways to one number, the jumps after a comparison, the two  *)
(* halves of a division.                                                    *)
ArithmeticAgrees == WaysAgree /\ BranchesOrder /\ DivisionAddsUp
=============================================================================
