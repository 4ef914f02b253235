----------------------------- MODULE TableIndex -----------------------------
(***************************************************************************)
(* The table lookup that ends the range reduction of expf, exp2f and both  *)
(* expm1f on binary32, for the arguments that reach it:                    *)
(*   expf, expm1f, expm1f_alt:  x_hi += 104 << 7;                          *)
(*                              EXP_M1[x_hi >> 7] * EXP_M2[x_hi & 0x7f]    *)
(*   exp2f:                     e_hi = (x_hi >> 6) + 1023;                 *)
(*                              FPBits<double>(e_hi << 52) * EXP_M[x_hi & 0x3f] *)
(* x_hi is computed from the float x exactly as the code does (RangeReduction *)
(* checks the same statements in a smaller format for every input).  int   *)
(* is 32-bit two's complement: >> of a negative int shifts the sign bit    *)
(* in, and & with a low mask keeps the low bits of the two's complement    *)
(* pattern.  EXP_M1 and EXP_M2 are not in the repository; the comment at   *)
(* expf.cpp:68 gives EXP_M1 the entries exp(m), m = -104 .. 89.            *)
(***************************************************************************)
EXTENDS FPBits, Bitwise

\* K: the fractional bits of hi + mid.
KBits(fn) == IF fn = "exp2f" THEN 6 ELSE 7

EXP_M1_SIZE == 194   \* exp(m) for m = -104 .. 89
EXP_M2_SIZE == 128   \* exp(m * 2^-7) for m = 0 .. 127
EXP_M_SIZE  == 64    \* 2^(m * 2^-6) for m = 0 .. 63, exp2f.cpp:25
EXPONENT_BIAS == 1023  \* FloatProperties<double>::EXPONENT_BIAS
MAX_EXPONENT == 2046   \* largest exponent field of a finite double

\* v >> k on a 32-bit int: v >> k = ~((~v) >> k) for negative v.
ASR(v, k) == IF v >= 0 THEN shiftR(v, k) ELSE -shiftR(-v - 1, k) - 1

\* v & (2^k - 1) on a 32-bit int: ~w & m = m - (w & m) for v = ~w.
LowBits(v, k) ==
  IF v >= 0 THEN v & (2 ^ k - 1) ELSE (2 ^ k - 1) - ((-v - 1) & (2 ^ k - 1))

(***************************************************************************)
(* A normal x is Sig(x) * 2^-(150 - e), e its exponent field, so x * 2^K  *)
(* is Sig(x) units of 2^-Den(fn, x).  |x| < 150 on the general path gives *)
(* Den >= 9.                                                               *)
(***************************************************************************)
Sig(x) == get_mantissa(x) + MANTISSA_UNIT
Den(fn, x) == 150 - get_unbiased_exponent(x) - KBits(fn)
Signed(x, v) == IF x.s = 1 THEN -v ELSE v

\* int x_hi = static_cast<int>(x * 2^K + (sign ? -0.5f : 0.5f)).  x * 2^K
\* is exact and the sum is rounded to float in the caller's mode.  Below
\* |x * 2^K| = 1/4 the sum lies strictly between 1/4 and 3/4 in magnitude
\* in every mode, and truncates to 0.
XHiBiased(fn, x, mode) ==
  IF get_unbiased_exponent(x) < 125 - KBits(fn) THEN 0
  ELSE LET d == Den(fn, x)
       IN TruncScaled(RoundSig(Signed(x, Sig(x) + 2 ^ (d - 1)), 24, mode), d)

\* expm1f: x_hi = static_cast<int>(x * 2^7); x -= x_hi * 2^-7, which is
\* exact (|lo| < 2^-7 is a multiple of ulp(x)); then if (x >= 2^-8) ++x_hi
\* and if (x < -2^-8) --x_hi.
XHiTruncated(x) ==
  LET d == Den("expm1f", x)
      h == TruncScaled(Signed(x, Sig(x)), d)
      lo == Signed(x, Sig(x)) - h * 2 ^ d      \* in units of 2^-(d + 7)
  IN CASE lo >= 2 ^ (d - 1)    -> h + 1
       [] lo < -(2 ^ (d - 1))  -> h - 1
       [] OTHER                -> h

\* Mutation of ExpM1Index: 103 << 7 added instead of 104 << 7.
ExpM1Index_bias_103(x_hi) ==
  [hi |-> ASR(x_hi + 103 * 2 ^ 7, 7), mid |-> LowBits(x_hi + 103 * 2 ^ 7, 7)]

\* x_hi += 104 << 7; EXP_M1[x_hi >> 7]; EXP_M2[x_hi & 0x7f].
ExpM1Index(x_hi) ==
  [hi |-> ASR(x_hi + 104 * 2 ^ 7, 7), mid |-> LowBits(x_hi + 104 * 2 ^ 7, 7)]

\* Mutation of Exp2Index: x_hi / 64, C's division rounding toward zero,
\* for x_hi >> 6.
Exp2Index_div(x_hi) ==
  [hi |-> TruncScaled(x_hi, 6) + EXPONENT_BIAS, mid |-> LowBits(x_hi, 6)]

\* e_hi = (x_hi >> 6) + EXPONENT_BIAS, the exponent field of exp_hi;
\* EXP_M[x_hi & 0x3f].
Exp2Index(x_hi) == [hi |-> ASR(x_hi, 6) + EXPONENT_BIAS, mid |-> LowBits(x_hi, 6)]

\* The tables are reached on the general path of expf and exp2f, and of
\* expm1f only for |x| >= 2^-4 (exponent field >= 123; x_abs >= 0x3d800000
\* in the second revision), below which a polynomial in x is used.
UsesTable(fn, x) ==
  \/ fn \in {"expf", "exp2f"}
  \/ fn = "expm1f" /\ get_unbiased_exponent(x) >= 123
  \/ fn = "expm1f_alt" /\ x.a >= \h3d800000

NoTable == [used |-> FALSE]

\* The lookup a general-path call of fn(x) makes under mode.
Lookup(fn, x, mode) ==
  IF ~UsesTable(fn, x) THEN NoTable
  ELSE LET xh == IF fn = "expm1f" THEN XHiTruncated(x) ELSE XHiBiased(fn, x, mode)
           ix == IF fn = "exp2f" THEN Exp2Index(xh) ELSE ExpM1Index(xh)
       IN [used |-> TRUE, x_hi |-> xh, hi |-> ix.hi, mid |-> ix.mid]

=============================================================================
