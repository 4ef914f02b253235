------------------------------- MODULE FPBits -------------------------------
(***************************************************************************)
(* The binary32 view that fputil::FPBits<float> gives the math functions,  *)
(* and the floating-point environment they read and write: the rounding   *)
(* mode (fputil::get_round), errno and the FE_INVALID flag.                *)
(*                                                                         *)
(* A float is kept as its sign bit s and the 31 bits below it, a, which is *)
(* x_abs = x_u & 0x7fffffff in the code.  TLC integers are 32-bit signed,  *)
(* so x_u itself is never formed; a comparison x_u >= c with c >= 2^31 is *)
(* s = 1 /\ a >= c - 2^31, and x_u < c with c < 2^31 is s = 0 /\ a < c.    *)
(***************************************************************************)
EXTENDS Integers

Float(s, a) == [s |-> s, a |-> a]

\* x_abs ranges over 0 .. 0x7fffffff.
Floats == [s : {0, 1}, a : 0 .. \h7fffffff]

INF_ABS        == \h7f800000   \* FPBits::inf()
MAX_NORMAL     == \h7f7fffff   \* FPBits::MAX_NORMAL
MIN_SUBNORMAL  == 1            \* FPBits::MIN_SUBNORMAL
ONE_ABS        == \h3f800000   \* 1.0f
QUIET_BIT      == \h00400000   \* top mantissa bit, set in a quiet NaN
MANTISSA_UNIT  == \h00800000   \* 2^23, one step of the exponent field

PosZero == Float(0, 0)
PosInf  == Float(0, INF_ABS)
One     == Float(0, ONE_ABS)
\* The NaN that FPBits::build_nan(1) returns.
BuildNaN == Float(0, INF_ABS + QUIET_BIT)

is_nan(x)  == x.a > INF_ABS
is_inf(x)  == x.a = INF_ABS
is_zero(x) == x.a = 0
get_sign(x) == x.s = 1
\* In this revision get_unbiased_exponent() returns the raw exponent field,
\* without subtracting the bias 127.
get_unbiased_exponent(x) == x.a \div MANTISSA_UNIT
get_mantissa(x) == x.a % MANTISSA_UNIT

IsSignalingNaN(x) == is_nan(x) /\ (x.a \div QUIET_BIT) % 2 = 0
Quiet(x) == IF IsSignalingNaN(x) THEN [x EXCEPT !.a = @ + QUIET_BIT] ELSE x
Negate(x) == [x EXCEPT !.s = 1 - @]
\* The order of the non-NaN floats: finite x_abs values are monotone in |x|.
Key(x) == IF x.s = 1 THEN -x.a ELSE x.a
SameFloat(x, y) == (is_nan(x) /\ is_nan(y)) \/ x = y

(***************************************************************************)
(* Rounding modes, as fputil::get_round() reports them.                    *)
(***************************************************************************)
FE_TONEAREST  == "FE_TONEAREST"
FE_UPWARD     == "FE_UPWARD"
FE_DOWNWARD   == "FE_DOWNWARD"
FE_TOWARDZERO == "FE_TOWARDZERO"
RoundingModes == {FE_TONEAREST, FE_UPWARD, FE_DOWNWARD, FE_TOWARDZERO}

\* errno values (Linux); a call that leaves errno alone is said to write
\* NoErrno, a value no function writes.
NoErrno == 0
EDOM    == 33
ERANGE  == 34

(***************************************************************************)
(* The IEEE addition of a NaN: a NaN operand is returned quieted (the      *)
(* first one if both are NaN), and an sNaN operand raises FE_INVALID.      *)
(***************************************************************************)
AddNaN(x, y) == IF is_nan(x) THEN Quiet(x) ELSE Quiet(y)
AddRaisesInvalid(x, y) == IsSignalingNaN(x) \/ IsSignalingNaN(y)

(***************************************************************************)
(* Correct rounding of b + t, where the finite nonzero float b is moved by *)
(* t of sign dir (-1, 0 or +1) with |t| at most half an ulp of b on t's    *)
(* side, and tie says whether |t| is exactly that half ulp.  This is what  *)
(* the hardware does for 1.0f + x with tiny x, fma(x, x, x) and            *)
(* fma(x, -2^-25, x) in the code.                                          *)
(***************************************************************************)
PerturbRound(b, dir, tie, mode) ==
  LET away == (dir = 1) = (b.s = 0)      \* t moves b away from zero
      next == [b EXCEPT !.a = IF away THEN @ + 1 ELSE @ - 1]
      moved ==
        CASE mode = FE_TONEAREST  -> tie /\ b.a % 2 = 1
          [] mode = FE_UPWARD     -> dir = 1
          [] mode = FE_DOWNWARD   -> dir = -1
          [] mode = FE_TOWARDZERO -> ~away
  IN IF dir /= 0 /\ moved THEN next ELSE b

(***************************************************************************)
(* Correct rounding of c + (num/den) * ulp(c) for a positive finite c and  *)
(* 0 < num < den.                                                          *)
(***************************************************************************)
RoundAboveByFraction(c, num, den, mode) ==
  LET up == CASE mode = FE_TONEAREST  -> 2 * num > den \/ (2 * num = den /\ c.a % 2 = 1)
              [] mode = FE_UPWARD     -> TRUE
              [] mode \in {FE_DOWNWARD, FE_TOWARDZERO} -> FALSE
  IN IF up THEN [c EXCEPT !.a = @ + 1] ELSE c

(***************************************************************************)
(* The reference: the exact value of f(x) as the pair of adjacent floats   *)
(* lo <= f(x) <= hi that bracket it (lo = hi when f(x) is a float, and     *)
(* the pair MAX_NORMAL, inf above the range) with near the one that        *)
(* round-to-nearest-even picks, or a NaN.  CorrectlyRounded is the float   *)
(* IEEE 754 assigns to f(x) in each rounding mode.                         *)
(***************************************************************************)
Bracket(lo, hi, near) == [lo |-> lo, hi |-> hi, near |-> near]
NaNResult == Bracket(BuildNaN, BuildNaN, BuildNaN)

CorrectlyRounded(b, mode) ==
  CASE mode = FE_TONEAREST  -> b.near
    [] mode = FE_UPWARD     -> b.hi
    [] mode = FE_DOWNWARD   -> b.lo
    [] mode = FE_TOWARDZERO -> IF Key(b.hi) <= 0 THEN b.hi ELSE b.lo

(***************************************************************************)
(* What one call of a math function does: the value(s) it returns, the    *)
(* errno it writes (NoErrno when it leaves errno alone), whether it raises *)
(* FE_INVALID, and whether it returned from a special-case branch or fell *)
(* through to the table-and-polynomial evaluation ("general").            *)
(***************************************************************************)
Special(outs, err, invalid) ==
  [out |-> outs, err |-> err, invalid |-> invalid, path |-> "special"]
Returns(v) == Special(<<v>>, NoErrno, FALSE)
Returns2(v, w) == Special(<<v, w>>, NoErrno, FALSE)
General == [out |-> <<>>, err |-> NoErrno, invalid |-> FALSE, path |-> "general"]

RECURSIVE Msb(_)
\* floor(log2 n) for n >= 1
Msb(n) == IF n < 2 THEN 0 ELSE 1 + Msb(n \div 2)

(***************************************************************************)
(* IEEE rounding of the exact integer v (in units) to p significant bits   *)
(* in the given mode; every value below 2^p units is representable.        *)
(***************************************************************************)
RoundSig(v, p, mode) ==
  IF v = 0 THEN 0 ELSE
  LET a  == IF v < 0 THEN -v ELSE v
      q  == IF Msb(a) < p THEN 1 ELSE 2 ^ (Msb(a) - p + 1)
      dn == (a \div q) * q
      r  == a - dn
      up == CASE r = 0                  -> FALSE
              [] mode = FE_TONEAREST    -> 2 * r > q \/ (2 * r = q /\ (dn \div q) % 2 = 1)
              [] mode = FE_TOWARDZERO   -> FALSE
              [] mode = FE_UPWARD       -> v > 0
              [] mode = FE_DOWNWARD     -> v < 0
      mag == IF up THEN dn + q ELSE dn
  IN IF v < 0 THEN -mag ELSE mag

\* static_cast<int>: truncation toward zero of v units of 2^-s.
TruncScaled(v, s) == IF v >= 0 THEN v \div 2 ^ s ELSE -((-v) \div 2 ^ s)

\* The direction, -1, 0 or +1, in which adding x moves a value.
Direction(x) == IF x.a = 0 THEN 0 ELSE IF x.s = 0 THEN 1 ELSE -1

=============================================================================
