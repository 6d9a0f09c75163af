------------------------------- MODULE Floats -------------------------------
(***************************************************************************)
(* The host's binary floating point, as much of it as the instructions     *)
(* lean on: signed zeros, subnormal numbers, infinities, NaN, rounding     *)
(* once to nearest even and overflow to infinity.  A format is small: its  *)
(* finite numbers are the multiples of the smallest subnormal up to max,   *)
(* which is what IEEE 754 gives with a single exponent, and one of them is *)
(* 1.0.  The sign of a NaN an operation makes is the host's choice.        *)
(***************************************************************************)
EXTENDS Integers

Format(max, one, normal) == [max |-> max, one |-> one, normal |-> normal]
Infinite(F) == F.max + 1
NotANumber(F) == F.max + 2

(* A number is its sign and its magnitude, counted in smallest subnormals.  *)
Number(neg, mag) == [neg |-> neg, mag |-> mag]
Numbers(F) == [neg : BOOLEAN, mag : 0..NotANumber(F)]
IsNaN(F, x) == x.mag = NotANumber(F)
IsInf(F, x) == x.mag = Infinite(F)
IsZero(x) == x.mag = 0
Finite(F, x) == x.mag <= F.max
NaNs(F) == {Number(neg, NotANumber(F)) : neg \in BOOLEAN}

Abs(n) == IF n < 0 THEN -n ELSE n
Units(x) == IF x.neg THEN -x.mag ELSE x.mag
NearestEven(n, d) ==
  LET q == n \div d
      twice == 2 * (n % d)
  IN IF twice > d \/ (twice = d /\ q % 2 = 1) THEN q + 1 ELSE q

(* n/d rounded once; beyond the largest number it is an infinity.           *)
Round(F, neg, n, d) ==
  LET q == NearestEven(n, d)
  IN Number(neg, IF q > F.max THEN Infinite(F) ELSE q)
RoundSigned(F, n, d) == Round(F, n < 0, Abs(n), d)

Less(F, x, y) == ~IsNaN(F, x) /\ ~IsNaN(F, y) /\ Units(x) < Units(y)
Equal(F, x, y) == ~IsNaN(F, x) /\ ~IsNaN(F, y) /\ Units(x) = Units(y)

Negated(x) == [x EXCEPT !.neg = ~@]
Magnitude(x) == [x EXCEPT !.neg = FALSE]
CopySign(x, y) == [x EXCEPT !.neg = y.neg]

(* An exact zero made of two operands that are not both -0 is +0.           *)
Sum(F, x, y) ==
  IF IsNaN(F, x) \/ IsNaN(F, y) \/ (IsInf(F, x) /\ IsInf(F, y) /\ x.neg # y.neg) THEN NaNs(F)
  ELSE IF IsInf(F, x) THEN {x}
  ELSE IF IsInf(F, y) THEN {y}
  ELSE IF Units(x) + Units(y) = 0 THEN {Number(x.neg /\ y.neg, 0)}
  ELSE {RoundSigned(F, Units(x) + Units(y), 1)}

Difference(F, x, y) == Sum(F, x, Negated(y))

Product(F, x, y) ==
  LET neg == x.neg # y.neg
  IN IF IsNaN(F, x) \/ IsNaN(F, y) \/ (IsInf(F, x) /\ IsZero(y)) \/ (IsZero(x) /\ IsInf(F, y)) THEN NaNs(F)
     ELSE IF IsInf(F, x) \/ IsInf(F, y) THEN {Number(neg, Infinite(F))}
     ELSE {Round(F, neg, x.mag * y.mag, F.one)}

Quotient(F, x, y) ==
  LET neg == x.neg # y.neg
  IN IF IsNaN(F, x) \/ IsNaN(F, y) \/ (IsInf(F, x) /\ IsInf(F, y)) \/ (IsZero(x) /\ IsZero(y)) THEN NaNs(F)
     ELSE IF IsInf(F, x) \/ IsZero(y) THEN {Number(neg, Infinite(F))}
     ELSE IF IsInf(F, y) THEN {Number(neg, 0)}
     ELSE {Round(F, neg, x.mag * F.one, y.mag)}

(* The remainder of a division that rounds toward zero, exact, with the     *)
(* dividend's sign.                                                         *)
Remainder(F, x, y) ==
  IF IsNaN(F, x) \/ IsNaN(F, y) \/ IsInf(F, x) \/ IsZero(y) THEN NaNs(F)
  ELSE IF IsInf(F, y) THEN {x}
  ELSE {Number(x.neg, x.mag % y.mag)}

SquareRoot(F, x) ==
  IF IsNaN(F, x) \/ (x.neg /\ ~IsZero(x)) THEN NaNs(F)
  ELSE IF IsInf(F, x) THEN {x}
  ELSE LET n == 4 * x.mag * F.one
       IN {Number(x.neg, CHOOSE q \in 0..n : (q = 0 \/ (2 * q - 1) * (2 * q - 1) <= n) /\ n < (2 * q + 1) * (2 * q + 1))}

(* x * y + z, rounded once.                                                 *)
Fused(F, x, y, z) ==
  IF ~(Finite(F, x) /\ Finite(F, y) /\ Finite(F, z)) THEN UNION {Sum(F, p, z) : p \in Product(F, x, y)}
  ELSE LET n == Units(x) * Units(y) + Units(z) * F.one
       IN IF n = 0 THEN {Number((x.neg # y.neg) /\ z.neg, 0)} ELSE {RoundSigned(F, n, F.one)}

(* To a whole number; a NaN, an infinity and the sign of a zero stay.       *)
Rounded(F, x, how) ==
  IF ~Finite(F, x) THEN x
  ELSE LET down == x.mag \div F.one
           whole == CASE how = "round" -> NearestEven(x.mag, F.one)
                      [] how = "trunc" \/ x.mag % F.one = 0 -> down
                      [] how = "floor" -> IF x.neg THEN down + 1 ELSE down
                      [] how = "ceil" -> IF x.neg THEN down ELSE down + 1
       IN Round(F, x.neg, whole * F.one, 1)

(* std::fmin and std::fmax give the other operand for a NaN, and either     *)
(* zero of two zeros.                                                       *)
Extreme(F, x, y, wantLess) ==
  IF IsNaN(F, x) /\ IsNaN(F, y) THEN {x, y}
  ELSE IF IsNaN(F, x) THEN {y}
  ELSE IF IsNaN(F, y) THEN {x}
  ELSE IF IsZero(x) /\ IsZero(y) THEN {x, y}
  ELSE {IF Less(F, x, y) = wantLess THEN x ELSE y}

Category(F, x) ==
  CASE IsNaN(F, x) -> "nan" [] IsInf(F, x) -> "infinite" [] IsZero(x) -> "zero"
    [] x.mag < F.normal /\ ~IsZero(x) -> "subnormal" [] OTHER -> "normal"

(* Between formats: G may have fewer or more subnormals in 1.0.             *)
Convert(F, G, x) ==
  IF IsNaN(F, x) THEN NaNs(G)
  ELSE {IF IsInf(F, x) THEN Number(x.neg, Infinite(G)) ELSE Round(G, x.neg, x.mag * G.one, F.one)}
FromInteger(F, n) == RoundSigned(F, n * F.one, 1)
Truncated(F, x) == LET n == x.mag \div F.one IN IF x.neg THEN -n ELSE n
=============================================================================
