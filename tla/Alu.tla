-------------------------------- MODULE Alu --------------------------------
(***************************************************************************)
(* The instructions that compute: what each leaves in its destination and  *)
(* in the Zero, Sign, Carry and Overflow flags, the jumps that read the    *)
(* flags back, division by zero, and the 64-bit forms on register pairs.   *)
(*                                                                         *)
(* Words are Width bits (32 in the machine), a byte a quarter of a word,   *)
(* an immediate half of one.  Pair x of integers is two registers, low     *)
(* word first, as in the machine; the doubles have a bank of their own     *)
(* here, where in the machine they share bits with the floats.             *)
(***************************************************************************)
EXTENDS Sequences, FiniteSetsExt, Floats

CONSTANTS
  Width,        \* bits in a register
  Registers,    \* number of integer registers
  Single,       \* the format of the float registers
  Double,       \* the format of the double pairs
  Programs      \* what may be run: sequences of instructions

ASSUME WidthAssumption == Width \in Nat \ {0} /\ Width % 4 = 0

VARIABLES
  code,         \* the program that runs
  pc,           \* the place in it of the next instruction
  r,            \* the integer registers
  f,            \* the float registers
  d,            \* the double pairs
  flags,        \* Zero, Sign, Carry and Overflow
  trap,         \* the Trap flag
  vectors,      \* the exceptions entered, oldest first; their handlers return
  features      \* the two ways a program may ask division by zero to go

aluVars == <<code, pc, r, f, d, flags, trap, vectors, features>>

Bits == 2 ^ Width
PairBits == Bits * Bits
WordOf(n) == n % Bits
Negative(M, a) == 2 * a >= M
Signed(M, a) == IF Negative(M, a) THEN a - M ELSE a
MostNegative(M) == M \div 2

-----------------------------------------------------------------------------
(* Results, modulo M: that of a word or of a pair.                          *)

Flags(M, n, carry, overflow) == [z |-> n = 0, s |-> Negative(M, n), c |-> carry, v |-> overflow]
Result(M, n, carry, overflow) == [val |-> n, fl |-> Flags(M, n, carry, overflow)]
Plain(M, n) == Result(M, n, FALSE, FALSE)

Add(M, a, b) ==
  LET n == (a + b) % M
  IN Result(M, n, a + b >= M, Negative(M, a) = Negative(M, b) /\ Negative(M, n) # Negative(M, a))
Sub(M, a, b) ==
  LET n == (a - b) % M
  IN Result(M, n, a < b, Negative(M, a) # Negative(M, b) /\ Negative(M, n) # Negative(M, a))
(* The carry is added to the second operand first, in the operand's width.  *)
AddCarryDropped(a, b, carry) == Add(Bits, a, b)   \* mutant of AddCarry: the carry is not added
AddCarry(a, b, carry) == Add(Bits, a, WordOf(b + (IF carry THEN 1 ELSE 0)))
SubCarry(a, b, carry) == Sub(Bits, a, WordOf(b + (IF carry THEN 1 ELSE 0)))

UnsignedMul(a, b) == Result(Bits, WordOf(a * b), a * b >= Bits, a * b >= Bits)
SignedMul(a, b) ==
  LET p == Signed(Bits, a) * Signed(Bits, b)
      out == p \notin -MostNegative(Bits)..MostNegative(Bits) - 1
  IN Result(Bits, WordOf(p), out, out)
SignedProduct(a, b) == (Signed(Bits, a) * Signed(Bits, b)) % PairBits

(* C++ divides toward zero.                                                 *)
Toward(n, m) == LET q == Abs(n) \div Abs(m) IN IF (n < 0) # (m < 0) THEN -q ELSE q
SignedDiv(M, a, b) ==
  Result(M, Toward(Signed(M, a), Signed(M, b)) % M, FALSE, a = MostNegative(M) /\ b = M - 1)
SignedMod(M, a, b) ==
  Plain(M, (Signed(M, a) - Signed(M, b) * Toward(Signed(M, a), Signed(M, b))) % M)

Absolute(a) ==
  LET n == IF Negative(Bits, a) /\ a # MostNegative(Bits) THEN Bits - a ELSE a
  IN Result(Bits, n, FALSE, a = MostNegative(Bits))
Least(M, a, b, signed) == IF (IF signed THEN Signed(M, a) < Signed(M, b) ELSE a < b) THEN a ELSE b
Greatest(M, a, b, signed) == IF Least(M, a, b, signed) = a THEN b ELSE a

-----------------------------------------------------------------------------
(* Bit by bit.                                                              *)

BitsOf(W, a) == {k \in 0..W - 1 : (a \div 2 ^ k) % 2 = 1}
FromBits(S) == MapThenSumSet(LAMBDA k : 2 ^ k, S)
And(a, b) == FromBits(BitsOf(Width, a) \cap BitsOf(Width, b))
Or(a, b) == FromBits(BitsOf(Width, a) \cup BitsOf(Width, b))
Xor(a, b) == FromBits(SymDiff(BitsOf(Width, a), BitsOf(Width, b)))
RotateLeft(a, n) == FromBits({(k + n) % Width : k \in BitsOf(Width, a)})
LeadingZeros(W, a) == IF a = 0 THEN W ELSE W - 1 - Max(BitsOf(W, a))
TrailingZeros(W, a) == IF a = 0 THEN W ELSE Min(BitsOf(W, a))
BitCount(W, a) == Cardinality(BitsOf(W, a))
SwapBytes(a) ==
  LET B == 2 ^ (Width \div 4)
      Byte(k) == (a \div B ^ k) % B
  IN Byte(3) + B * (Byte(2) + B * (Byte(1) + B * Byte(0)))
SignExtend(a, bits) == WordOf(Signed(2 ^ bits, a % 2 ^ bits))

Shifted(M, a, n, kind) ==
  CASE kind = "SHL" -> (a * 2 ^ n) % M [] kind = "SHR" -> a \div 2 ^ n [] kind = "SAR" -> (Signed(M, a) \div 2 ^ n) % M
(* The last bit a shift of n > 0 puts out.                                  *)
LastOut(M, a, n, kind) ==
  CASE kind = "SHL" -> Negative(M, Shifted(M, a, n - 1, kind)) [] OTHER -> Shifted(M, a, n - 1, kind) % 2 = 1

(* The 32-bit shifts look at the amount before they cut it to its low bits: *)
(* by 0 the flags stay, by a multiple of the width they are set and Carry   *)
(* is a shift by -1, which C++ leaves open.                                 *)
Shift(a, amount, kind, old) ==
  LET n == amount % Width
      out == IF n = 0 THEN BOOLEAN ELSE {LastOut(Bits, a, n, kind)}
  IN IF amount = 0 THEN {[val |-> a, fl |-> old]}
     ELSE {Result(Bits, Shifted(Bits, a, n, kind), c, FALSE) : c \in out}
(* The 64-bit ones cut it first.                                            *)
Shift64(a, amount, kind, old) ==
  LET n == amount % (2 * Width)
  IN IF n = 0 THEN [val |-> a, fl |-> old]
     ELSE Result(PairBits, Shifted(PairBits, a, n, kind), LastOut(PairBits, a, n, kind), FALSE)

-----------------------------------------------------------------------------
(* Operands                                                                 *)

Here == code[pc]
(* These sign-extend their immediate, the others fill it with zeros.        *)
SignedImmediates == {"IMUL", "IDIV", "IMOD", "IMIN", "IMAX", "CMP"}
Operand(i) ==
  IF ~i.imm THEN r[i.t]
  ELSE IF i.op \in SignedImmediates THEN SignExtend(i.t, Width \div 2) ELSE i.t
Pair(k) == r[k] + Bits * r[k + 1]
WithPair(k, n) == [r EXCEPT ![k] = n % Bits, ![k + 1] = n \div Bits]

PairField(k) == k % 2 = 0 /\ k + 1 < Registers - 2   \* the last pair is fp:sp

WordOps == {"ADD", "ADDC", "SUB", "SUBC", "MUL", "IMUL", "MULH", "IMULH", "DIV", "IDIV", "MOD", "IMOD",
            "ABS", "MIN", "MAX", "IMIN", "IMAX", "AND", "OR", "XOR", "NOT", "SHL", "SHR", "SAR",
            "ROL", "ROR", "CLZ", "CTZ", "POPCNT", "BSWAP", "SXTB", "SXTH", "MOV", "LI", "LUI"}
PairOps == {"ADD64", "SUB64", "NEG64", "MULL", "IMULL", "MUL64", "DIV64", "IDIV64", "MOD64", "IMOD64",
            "SHL64", "SHR64", "SAR64", "SXT64", "MOV64"}
BitOps == {"CLZ64", "CTZ64", "POPCNT64"}

(* The pair fields each 64-bit instruction has; MULL and SXT64 read words.  *)
Pairs(i) ==
  (IF i.op \in PairOps THEN {i.d} ELSE {})
    \cup (IF i.op \in (PairOps \ {"MULL", "IMULL", "SXT64"}) \cup BitOps \cup {"CMP64"} THEN {i.s} ELSE {})
    \cup (IF i.op \in {"ADD64", "SUB64", "MUL64", "DIV64", "IDIV64", "MOD64", "IMOD64", "CMP64"} THEN {i.t} ELSE {})
Decoded(i) == i.op # "NOSUBFIELD" /\ \A k \in Pairs(i) : PairField(k)

WordResults(i) ==
  LET a == r[i.s]
      b == Operand(i)
  IN CASE i.op = "ADD" -> {Add(Bits, a, b)}                    [] i.op = "SUB" -> {Sub(Bits, a, b)}
       [] i.op = "ADDC" -> {AddCarry(a, b, flags.c)}           [] i.op = "SUBC" -> {SubCarry(a, b, flags.c)}
       [] i.op = "MUL" -> {UnsignedMul(a, b)}                  [] i.op = "IMUL" -> {SignedMul(a, b)}
       [] i.op = "MULH" -> {Plain(Bits, (a * b) \div Bits)}      [] i.op = "IMULH" -> {Plain(Bits, SignedProduct(a, b) \div Bits)}
       [] i.op = "DIV" -> {Plain(Bits, a \div b)}              [] i.op = "IDIV" -> {SignedDiv(Bits, a, b)}
       [] i.op = "MOD" -> {Plain(Bits, a % b)}                 [] i.op = "IMOD" -> {SignedMod(Bits, a, b)}
       [] i.op = "ABS" -> {Absolute(a)}                        [] i.op = "NOT" -> {Plain(Bits, Bits - 1 - a)}
       [] i.op = "AND" -> {Plain(Bits, And(a, b))}             [] i.op = "OR" -> {Plain(Bits, Or(a, b))}
       [] i.op = "XOR" -> {Plain(Bits, Xor(a, b))}
       [] i.op \in {"MIN", "IMIN"} -> {Plain(Bits, Least(Bits, a, b, i.op = "IMIN"))}
       [] i.op \in {"MAX", "IMAX"} -> {Plain(Bits, Greatest(Bits, a, b, i.op = "IMAX"))}
       [] i.op \in {"SHL", "SHR", "SAR"} -> Shift(a, b, i.op, flags)
       [] i.op = "ROL" -> {Plain(Bits, RotateLeft(a, b))}
       [] i.op = "ROR" -> {Plain(Bits, RotateLeft(a, Width - (b % Width)))}
       [] i.op = "CLZ" -> {Plain(Bits, LeadingZeros(Width, a))} [] i.op = "CTZ" -> {Plain(Bits, TrailingZeros(Width, a))}
       [] i.op = "POPCNT" -> {Plain(Bits, BitCount(Width, a))} [] i.op = "BSWAP" -> {Plain(Bits, SwapBytes(a))}
       [] i.op = "SXTB" -> {Plain(Bits, SignExtend(a, Width \div 4))}
       [] i.op = "SXTH" -> {Plain(Bits, SignExtend(a, Width \div 2))}
       [] i.op = "MOV" -> {[val |-> a, fl |-> flags]}          [] i.op = "LI" -> {[val |-> b, fl |-> flags]}
       [] i.op = "LUI" -> {[val |-> WordOf(b * 2 ^ (Width \div 2)), fl |-> flags]}

PairResult(i) ==
  LET P == PairBits
  IN CASE i.op = "ADD64" -> Add(P, Pair(i.s), Pair(i.t))       [] i.op = "SUB64" -> Sub(P, Pair(i.s), Pair(i.t))
       [] i.op = "NEG64" -> Sub(P, 0, Pair(i.s))               [] i.op = "MUL64" -> Plain(P, (Pair(i.s) * Pair(i.t)) % P)
       [] i.op = "MULL" -> Plain(P, r[i.s] * r[i.t])           [] i.op = "IMULL" -> Plain(P, SignedProduct(r[i.s], r[i.t]))
       [] i.op = "DIV64" -> Plain(P, Pair(i.s) \div Pair(i.t)) [] i.op = "IDIV64" -> SignedDiv(P, Pair(i.s), Pair(i.t))
       [] i.op = "MOD64" -> Plain(P, Pair(i.s) % Pair(i.t))    [] i.op = "IMOD64" -> SignedMod(P, Pair(i.s), Pair(i.t))
       [] i.op = "SHL64" -> Shift64(Pair(i.s), Operand(i), "SHL", flags)
       [] i.op = "SHR64" -> Shift64(Pair(i.s), Operand(i), "SHR", flags)
       [] i.op = "SAR64" -> Shift64(Pair(i.s), Operand(i), "SAR", flags)
       [] i.op = "SXT64" -> Plain(P, Signed(Bits, r[i.s]) % P) [] i.op = "MOV64" -> [val |-> Pair(i.s), fl |-> flags]

BitResult(i) ==
  CASE i.op = "CLZ64" -> Plain(Bits, WordOf(LeadingZeros(2 * Width, Pair(i.s))))
    [] i.op = "CTZ64" -> Plain(Bits, WordOf(TrailingZeros(2 * Width, Pair(i.s))))
    [] i.op = "POPCNT64" -> Plain(Bits, WordOf(BitCount(2 * Width, Pair(i.s))))

-----------------------------------------------------------------------------
(* Floats: a result and its flags, by the rule of the instruction.          *)

FloatFlags(x, overflow) == [z |-> IsZero(x), s |-> x.neg, c |-> FALSE, v |-> overflow]
(* Overflow says finite operands made an infinity.                          *)
Arithmetic(F, x, a, b) ==
  [val |-> x, fl |-> FloatFlags(x, IsInf(F, x) /\ ~IsInf(F, a) /\ ~IsInf(F, b))]
Light(x) == [val |-> x, fl |-> FloatFlags(x, FALSE)]
Silent(x) == [val |-> x, fl |-> flags]

One(F) == Number(FALSE, F.one)
Root(F, x) == SquareRoot(F, x)

FloatBinary == {"FADD", "FSUB", "FMUL", "FDIV", "FMOD", "FMA", "FMIN", "FMAX", "FCOPYSIGN"}
FloatUnary == {"FNEG", "FSQRT", "FABS", "FROUND", "FFLOOR", "FCEIL", "FTRUNC", "FRECIPE", "FRSQRTE", "FMOV"}
RoundsAs == [FROUND |-> "round", FFLOOR |-> "floor", FCEIL |-> "ceil", FTRUNC |-> "trunc"]

(* What a float instruction may give: o its name, x and y the operands and  *)
(* z what was in the destination.  The doubles' fma rounds once.            *)
FloatResults(F, o, x, y, z) ==
  CASE o = "FADD" -> {Arithmetic(F, n, x, y) : n \in Sum(F, x, y)}
    [] o = "FSUB" -> {Arithmetic(F, n, x, y) : n \in Difference(F, x, y)}
    [] o = "FMUL" -> {Arithmetic(F, n, x, y) : n \in Product(F, x, y)}
    [] o = "FDIV" -> {Arithmetic(F, n, x, y) : n \in Quotient(F, x, y)}
    [] o = "FMA" /\ F = Single ->
         UNION {{Arithmetic(F, n, z, p) : n \in Sum(F, z, p)} : p \in Product(F, x, y)}
    [] o = "FMA" /\ F = Double ->
         UNION {{Arithmetic(F, n, z, p) : n \in Fused(F, x, y, z)} : p \in Product(F, x, y)}
    [] o = "FMOD" -> {Light(n) : n \in Remainder(F, x, y)}
    [] o \in {"FMIN", "FMAX"} -> {Light(n) : n \in Extreme(F, x, y, o = "FMIN")}
    [] o = "FNEG" -> {Light(Negated(x))}
    [] o = "FCOPYSIGN" -> {Silent(CopySign(x, y))}
    [] o = "FSQRT" -> {Silent(n) : n \in Root(F, x)}
    [] o = "FABS" -> {Silent(Magnitude(x))}
    [] o \in DOMAIN RoundsAs -> {Silent(Rounded(F, x, RoundsAs[o]))}
    [] o = "FMOV" -> {Silent(x)}
    [] o = "FRECIPE" -> {Silent(n) : n \in Quotient(F, One(F), x)}
    [] o = "FRSQRTE" -> {Silent(n) : n \in IF IsZero(x) THEN Quotient(F, One(F), x)
                                           ELSE UNION {Quotient(F, One(F), q) : q \in Root(F, x)}}

(* Zero and Carry order the operands; Sign is that of a difference, which   *)
(* may be a NaN's.                                                          *)
FloatCompared(F, x, y) ==
  {[z |-> Equal(F, x, y), s |-> n.neg, c |-> Less(F, x, y), v |-> FALSE] : n \in Difference(F, x, y)}

(* The bit FCLASS sets; the destination keeps its number here.              *)
ClassBit(F, x) ==
  LET k == CASE Category(F, x) = "infinite" -> 0 [] Category(F, x) = "normal" -> 1
             [] Category(F, x) = "subnormal" -> 2 [] Category(F, x) = "zero" -> 3 [] OTHER -> 8
  IN IF k = 8 THEN 8 ELSE IF x.neg THEN k ELSE 7 - k

(* A double to an integer: toward zero, held at the ends; NaN is 0.         *)
Saturate(x, low, high) ==
  IF IsNaN(Double, x) THEN 0
  ELSE IF IsInf(Double, x) THEN (IF x.neg THEN low ELSE high)
  ELSE Max({low, Min({high, Truncated(Double, x)})})
Saturated(x, M, signed) ==
  IF signed THEN Saturate(x, -MostNegative(M), MostNegative(M) - 1) % M ELSE Saturate(x, 0, M - 1)
(* FTOI is a bare C++ conversion: past the range it may be anything.        *)
Unsaturated(x, signed) ==
  LET n == Truncated(Single, x)
      fits == Finite(Single, x) /\ (IF signed THEN n \in -MostNegative(Bits)..MostNegative(Bits) - 1 ELSE n \in 0..Bits - 1)
  IN IF fits THEN {WordOf(n)} ELSE 0..Bits - 1

-----------------------------------------------------------------------------
(* The actions.  Every one but a jump taken goes on to the next instruction.*)

Running == pc <= Len(code)
Advance == pc' = pc + 1
Same == UNCHANGED <<code, features>>
NoException == UNCHANGED <<trap, vectors>>
Takes(o) == Advance /\ flags' = o.fl /\ NoException /\ Same

ZeroDivisor(i) ==
  \/ i.op \in {"DIV", "IDIV", "MOD", "IMOD"} /\ Operand(i) = 0
  \/ i.op \in {"DIV64", "IDIV64", "MOD64", "IMOD64"} /\ Pair(i.t) = 0
  \/ ~features.ieee /\ i.op \in {"FDIV", "FMOD"} /\ IsZero(IF i.wide THEN d[i.t] ELSE f[i.t])
  \/ ~features.ieee /\ i.op \in {"FRECIPE", "FRSQRTE"} /\ IsZero(f[i.s])

ComputeWord ==
  /\ Running /\ Here.op \in WordOps /\ ~ZeroDivisor(Here)
  /\ \E o \in WordResults(Here) : r' = [r EXCEPT ![Here.d] = o.val] /\ Takes(o)
  /\ UNCHANGED <<f, d>>

ComputePair ==
  /\ Running /\ Here.op \in PairOps /\ Decoded(Here) /\ ~ZeroDivisor(Here)
  /\ r' = WithPair(Here.d, PairResult(Here).val) /\ Takes(PairResult(Here))
  /\ UNCHANGED <<f, d>>

CountBits ==
  /\ Running /\ Here.op \in BitOps /\ Decoded(Here)
  /\ r' = [r EXCEPT ![Here.d] = BitResult(Here).val] /\ Takes(BitResult(Here))
  /\ UNCHANGED <<f, d>>

(* The destination stays, and either Trap is set or the handler entered,    *)
(* which comes back to the instruction after the division.                  *)
DivisionByZero ==
  /\ Running /\ Decoded(Here) /\ ZeroDivisor(Here)
  /\ IF features.faults THEN vectors' = Append(vectors, "DivisionByZero") /\ UNCHANGED trap
                        ELSE trap' = TRUE /\ UNCHANGED vectors
  /\ Advance /\ UNCHANGED <<r, f, d, flags>> /\ Same

(* A pair field that is odd or names fp:sp, or a subfield nothing has.      *)
Illegal ==
  /\ Running /\ ~Decoded(Here)
  /\ vectors' = Append(vectors, "IllegalInstruction")
  /\ pc' = Len(code) + 1 /\ UNCHANGED <<r, f, d, flags, trap>> /\ Same

ComputeFloat ==
  /\ Running /\ Here.op \in FloatBinary \cup FloatUnary /\ ~Here.wide /\ ~ZeroDivisor(Here)
  /\ \E o \in FloatResults(Single, Here.op, f[Here.s], f[Here.t], f[Here.d]) :
       f' = [f EXCEPT ![Here.d] = o.val] /\ Takes(o)
  /\ UNCHANGED <<r, d>>

ComputeDouble ==
  /\ Running /\ Here.op \in FloatBinary \cup FloatUnary /\ Here.wide /\ ~ZeroDivisor(Here)
  /\ \E o \in FloatResults(Double, Here.op, d[Here.s], d[Here.t], d[Here.d]) :
       d' = [d EXCEPT ![Here.d] = o.val] /\ Takes(o)
  /\ UNCHANGED <<r, f>>

Compare ==
  /\ Running /\ Here.op \in {"CMP", "CMP64", "FCMP", "FCMPD"} /\ Decoded(Here)
  /\ flags' \in CASE Here.op = "CMP" -> {Sub(Bits, r[Here.s], Operand(Here)).fl}
                  [] Here.op = "CMP64" -> {Sub(PairBits, Pair(Here.s), Pair(Here.t)).fl}
                  [] Here.op = "FCMP" -> FloatCompared(Single, f[Here.s], f[Here.t])
                  [] Here.op = "FCMPD" -> FloatCompared(Double, d[Here.s], d[Here.t])
  /\ Advance /\ NoException /\ Same /\ UNCHANGED <<r, f, d>>

(* Conversions and classes, which set no flags: w a signed word, wu an       *)
(* unsigned one, l and lu a pair, s a float, d a double.                    *)
IntegerOf(i) ==
  CASE i.from = "w" -> Signed(Bits, r[i.s]) [] i.from = "wu" -> r[i.s]
    [] i.from = "l" -> Signed(PairBits, Pair(i.s)) [] i.from = "lu" -> Pair(i.s)
WordsOf(i) ==
  LET x == IF i.from = "s" THEN f[i.s] ELSE d[i.s]
      y == IF i.from = "s" THEN Convert(Single, Double, x) ELSE {x}
  IN CASE i.op \in {"FTOI", "FTOII"} -> Unsaturated(x, i.op = "FTOII")
       [] i.op = "FCLASS" -> {ClassBit(IF i.from = "s" THEN Single ELSE Double, x)}
       [] i.to \in {"w", "wu"} -> {Saturated(z, Bits, i.to = "w") : z \in y}
       [] i.to \in {"l", "lu"} -> {Saturated(z, PairBits, i.to = "l") : z \in y}
IntegerKinds == {"w", "wu", "l", "lu"}
ToInteger(i) ==
  \E n \in WordsOf(i) :
    /\ r' = IF i.to \in {"l", "lu"} THEN WithPair(i.d, n) ELSE [r EXCEPT ![i.d] = n]
    /\ UNCHANGED <<f, d>>
ToFloat(i) ==
  \E x \in IF i.from \in IntegerKinds THEN {FromInteger(Single, IntegerOf(i))} ELSE Convert(Double, Single, d[i.s]) :
    f' = [f EXCEPT ![i.d] = x] /\ UNCHANGED <<r, d>>
ToDouble(i) ==
  \E x \in IF i.from \in IntegerKinds THEN {FromInteger(Double, IntegerOf(i))} ELSE Convert(Single, Double, f[i.s]) :
    d' = [d EXCEPT ![i.d] = x] /\ UNCHANGED <<r, f>>
Converts ==
  /\ Running /\ Here.op \in {"FCVT", "ITOF", "FTOI", "FTOII", "FCLASS"}
  /\ IF Here.to \in IntegerKinds THEN ToInteger(Here) ELSE IF Here.to = "s" THEN ToFloat(Here) ELSE ToDouble(Here)
  /\ Advance /\ UNCHANGED flags /\ NoException /\ Same

(* The jumps, by the condition each reads in the flags.                     *)
Less32 == flags.s # flags.v
Holds(op) ==
  CASE op = "JP" -> TRUE
    [] op = "JZ" -> flags.z   [] op = "JNZ" -> ~flags.z   [] op = "JC" -> flags.c   [] op = "JNC" -> ~flags.c
    [] op = "JS" -> flags.s   [] op = "JNS" -> ~flags.s   [] op = "JO" -> flags.v   [] op = "JNO" -> ~flags.v
    [] op = "JGR" -> ~flags.z /\ ~Less32  [] op = "JGE" -> ~Less32  [] op = "JLS" -> Less32  [] op = "JLE" -> flags.z \/ Less32
    [] op = "JAB" -> ~flags.c /\ ~flags.z [] op = "JAE" -> ~flags.c [] op = "JBL" -> flags.c [] op = "JBE" -> flags.c \/ flags.z
Jumps == {"JP", "JZ", "JNZ", "JC", "JNC", "JS", "JNS", "JO", "JNO", "JGR", "JGE", "JLS", "JLE", "JAB", "JAE", "JBL", "JBE"}

Jump ==
  /\ Running /\ Here.op \in Jumps
  /\ pc' = IF Holds(Here.op) THEN Here.d ELSE pc + 1
  /\ UNCHANGED <<r, f, d, flags>> /\ NoException /\ Same

Execute ==
  ComputeWord \/ ComputePair \/ CountBits \/ DivisionByZero \/ Illegal \/ ComputeFloat \/ ComputeDouble
    \/ Compare \/ Converts \/ Jump
=============================================================================
