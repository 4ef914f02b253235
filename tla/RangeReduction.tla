--------------------------- MODULE RangeReduction ---------------------------
(***************************************************************************)
(* The first stage of the general path of expf, exp2f and both expm1f:    *)
(* x = (hi + mid) + lo with x_hi = (hi + mid) * 2^K an integer and        *)
(*   -2^-(K+1) <= lo < 2^-(K+1),                                          *)
(* computed in float arithmetic under the caller's rounding mode.          *)
(*   expf, exp2f, expm1f_alt: x_hi = (int)(x * 2^K + (sign ? -0.5 : 0.5))  *)
(*                            x -= (float)x_hi * 2^-K                      *)
(*   expm1f:                  x_hi = (int)(x * 2^K); x -= x_hi * 2^-K;     *)
(*                            then moves lo into its bound explicitly.     *)
(*                                                                         *)
(* The float format is a binary format with a P-bit significand.  A value  *)
(* is an integer count of units 2^-U, U = 2P + 1, fine enough for every    *)
(* float of the domain, the constants 0.5 and 2^-K, and their sums.  With  *)
(* 2^(HIEXP + K) <= 2^(P - 2), x * 2^K + 0.5 has the same rounding          *)
(* behaviour as in binary32, where |x| < 104 gives |x * 2^7| < 2^14 and    *)
(* P = 24: exact when |x * 2^K| >= 1/2, and rounded when |x * 2^K| < 1/2.  *)
(***************************************************************************)
EXTENDS Integers, FPBits

CONSTANTS
  P,         \* significand bits of the float format
  HIEXP,     \* the inputs have |x| < 2^HIEXP
  Variants   \* the functions whose reduction is checked

U == 2 * P + 1
ASSUME P >= 4 /\ HIEXP + 7 <= P - 2

\* K: fractional bits of hi + mid (the table index width).
Kof(v) == IF v = "exp2f" THEN 6 ELSE 7
Biased(v) == v \in {"expf", "exp2f", "expm1f_alt"}

\* IEEE rounding to the format's P significant bits (FPBits!RoundSig).
RoundP(v, mode) == RoundSig(v, P, mode)

(***************************************************************************)
(* The general-path inputs.  expf and exp2f reach it for                   *)
(* x_abs > 0x32800000, i.e. |x| > 2^-26 = 2^-(P+2) at P = 24; expm1f and   *)
(* expm1f_alt for |x| >= 2^-4.  Each is the set of all floats of those     *)
(* binades below 2^HIEXP, in units.                                        *)
(***************************************************************************)
LowExp(v) == IF v \in {"expf", "exp2f"} THEN -(P + 2) ELSE -4
Magnitudes(v) ==
  { (2 ^ (P - 1) + m) * 2 ^ (e - (P - 1) + U) :
      e \in LowExp(v) .. HIEXP - 1, m \in 0 .. 2 ^ (P - 1) - 1 }
    \ (IF v \in {"expf", "exp2f"} THEN {2 ^ (U + LowExp(v))} ELSE {})
Domain(v) == Magnitudes(v) \cup {-a : a \in Magnitudes(v)}

\* Mutation of XHi: scaled by 0x1.0p8f instead of 2^K.
XHi_wrong_scale(v, a, m) ==
  LET K == Kof(v)
      half == IF a < 0 THEN -(2 ^ (U - K - 1)) ELSE 2 ^ (U - K - 1)
  IN IF Biased(v) THEN TruncScaled(RoundP(2 * a + half, m), U - K)
                  ELSE TruncScaled(2 * a, U - K)

\* Mutation of FixLo: x_hi moved, xd left unadjusted.
FixLo_keep_xd(hi, l) ==
  CASE l >= 2 ^ (U - 8) -> <<hi + 1, l>>
    [] l < -(2 ^ (U - 8)) -> <<hi - 1, l>>
    [] OTHER -> <<hi, l>>

\* Mutation of FixLo: the x >= 2^-8 adjustment left out.
FixLo_no_upper(hi, l) ==
  IF l < -(2 ^ (U - 8)) THEN <<hi - 1, l + 2 ^ (U - 7)>> ELSE <<hi, l>>

\* int x_hi = static_cast<int>(x * 2^K [+ (sign ? -0.5f : 0.5f)]).
\* In units of 2^-(U-K), x * 2^K is the integer a and 0.5 is 2^(U-K-1).
XHi(v, a, m) ==
  LET K == Kof(v)
      half == IF a < 0 THEN -(2 ^ (U - K - 1)) ELSE 2 ^ (U - K - 1)
  IN IF Biased(v) THEN TruncScaled(RoundP(a + half, m), U - K)
                  ELSE TruncScaled(a, U - K)

\* x -= static_cast<float>(x_hi) * 2^-K; double xd = x.
Residual(v, a, hi, m) == RoundP(a - hi * 2 ^ (U - Kof(v)), m)

\* expm1f: if (x >= 2^-8) { ++x_hi; xd -= 2^-7; }
\*         if (x < -2^-8) { --x_hi; xd += 2^-7; }
\* Both tests read the float x, not the adjusted xd; xd is exact in double.
\* The result is <<x_hi, xd>>.
FixLo(hi, l) ==
  CASE l >= 2 ^ (U - 8) -> <<hi + 1, l - 2 ^ (U - 7)>>
    [] l < -(2 ^ (U - 8)) -> <<hi - 1, l + 2 ^ (U - 7)>>
    [] OTHER -> <<hi, l>>

VARIABLES
  variant,  \* the function being evaluated
  rmode,    \* the rounding mode the call runs under
  x,        \* the argument, in units
  pc,       \* "idle" between calls, "done" once x_hi and lo are computed
  x_hi,     \* (hi + mid) * 2^K
  lo        \* the residual x - x_hi * 2^-K, in units

vars == <<variant, rmode, x, pc, x_hi, lo>>

Init ==
  /\ variant = "none" /\ rmode = FE_TONEAREST
  /\ x = 0 /\ pc = "idle" /\ x_hi = 0 /\ lo = 0

\* A call of v reaches the general path with argument a under mode m and
\* runs the reduction, straight-line code on the calling thread.
Reduce(v, a, m) ==
  /\ pc = "idle"
  /\ LET hi0 == XHi(v, a, m)
         lo0 == Residual(v, a, hi0, m)
         r   == IF Biased(v) THEN <<hi0, lo0>> ELSE FixLo(hi0, lo0)
     IN /\ x_hi' = r[1]
        /\ lo' = r[2]
  /\ variant' = v /\ x' = a /\ rmode' = m
  /\ pc' = "done"

\* The tables and the polynomial consume x_hi and lo; the call returns.
Finish ==
  /\ pc = "done"
  /\ pc' = "idle"
  /\ x' = 0 /\ x_hi' = 0 /\ lo' = 0
  /\ UNCHANGED <<variant, rmode>>

Next ==
  \/ \E v \in Variants, m \in RoundingModes : \E a \in Domain(v) : Reduce(v, a, m)
  \/ Finish

Spec == Init /\ [][Next]_vars

-----------------------------------------------------------------------------
TypeOK ==
  /\ variant \in Variants \cup {"none"}
  /\ rmode \in RoundingModes
  /\ pc \in {"idle", "done"}
  /\ x \in Int /\ x_hi \in Int /\ lo \in Int
  /\ pc = "done" => x_hi \in -(2 ^ (HIEXP + 7)) .. 2 ^ (HIEXP + 7)

\* The reduction loses nothing: once lo is final, x_hi * 2^-K + lo is x
\* exactly, in every rounding mode, so that the tables and the polynomial
\* evaluate f at x itself.
ExactReduction ==
  pc = "done" => x = x_hi * 2 ^ (U - Kof(variant)) + lo

\* lo lies in the interval the polynomial for exp(lo) was fitted on:
\* fpminimax(..., [-2^-(K+1), 2^-(K+1)]) in the code's Sollya commands.
LoInFitInterval ==
  pc = "done" =>
    -(2 ^ (U - Kof(variant) - 1)) <= lo /\ lo <= 2 ^ (U - Kof(variant) - 1)

=============================================================================
