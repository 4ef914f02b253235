------------------------------- MODULE Sincosf -------------------------------
(***************************************************************************)
(* sincosf (unnamed/part_004): the tiny-argument branch, the inf/NaN       *)
(* branch with its domain error, the table of exceptional inputs keyed on  *)
(* x_abs and adjusted per rounding mode, and the general path.  The        *)
(* function writes two results, <<*sinp, *cosp>>.                         *)
(***************************************************************************)
EXTENDS FPBits

N_EXCEPTS == 10

EXCEPT_INPUTS == <<
  \h3b5637f5, \h3fa7832a, \h46199998, \h55325019, \h55cafb2a,
  \h5922aa80, \h5aa4542c, \h5f18b878, \h6115cb11, \h7beef5ef >>

\* Row i: the result rounded toward zero for |x|, then what FE_UPWARD,
\* FE_DOWNWARD and FE_TONEAREST add to its bits (columns 0 .. 3 of the
\* code's rows).  A bits value 0xb... is written Float(1, 0x3...).
EXCEPT_OUTPUTS_SIN == <<
  <<Float(0, \h3b5637dc), 1, 0, 0>>, <<Float(0, \h3f7741b5), 1, 0, 1>>,
  <<Float(1, \h3eb1fa5d), 0, 1, 0>>, <<Float(1, \h3f171adf), 0, 1, 1>>,
  <<Float(1, \h3f7e7a16), 0, 1, 1>>, <<Float(1, \h3f587521), 0, 1, 1>>,
  <<Float(0, \h3f5f5646), 1, 0, 0>>, <<Float(0, \h3dad60f6), 1, 0, 1>>,
  <<Float(1, \h3e7cc1e0), 0, 1, 1>>, <<Float(1, \h3f587d1b), 0, 1, 1>> >>

EXCEPT_OUTPUTS_COS == <<
  <<Float(0, \h3f7fffa6), 1, 0, 0>>, <<Float(0, \h3e84aabf), 1, 0, 1>>,
  <<Float(1, \h3f70090b), 0, 1, 0>>, <<Float(0, \h3f4ea5d2), 1, 0, 0>>,
  <<Float(0, \h3ddf11f3), 1, 0, 1>>, <<Float(0, \h3f08aebe), 1, 0, 1>>,
  <<Float(0, \h3efa40a4), 1, 0, 0>>, <<Float(0, \h3f7f14bb), 1, 0, 0>>,
  <<Float(0, \h3f78142e), 1, 0, 1>>, <<Float(0, \h3f08a21c), 1, 0, 0>> >>

\* |x| < 2^-12, x /= 0: sin = fma(x, -2^-25, x), cos = fma(|x|, -2^-25, 1).
\* x * 2^-25 is exactly half an ulp of x below |x| when x is a power of two
\* whose lower binade is normal (exponent field >= 2): a tie.  The build
\* without FMA computes both in double, exactly for sin and with a directed
\* double rounding for cos, and gets the same floats.
sincosf_tiny(x, mode) ==
  IF x.a = 0 THEN Returns2(x, One)
  ELSE Returns2(PerturbRound(x, -Direction(x),
                             get_mantissa(x) = 0 /\ get_unbiased_exponent(x) >= 2,
                             mode),
                PerturbRound(One, -1, FALSE, mode))

\* Mutation of sincosf_nan_inf: *cosp = *sinp left out.
sincosf_nan_inf_no_cosp(x) ==
  Special(<<AddNaN(x, BuildNaN)>>, IF is_inf(x) THEN EDOM ELSE NoErrno,
          is_inf(x) \/ AddRaisesInvalid(x, BuildNaN))

\* x_abs >= 0x7f800000: errno = EDOM and FE_INVALID for an infinity; both
\* results are x + build_nan(1 << 22).
sincosf_nan_inf(x) ==
  Special(<<AddNaN(x, BuildNaN), AddNaN(x, BuildNaN)>>,
          IF is_inf(x) THEN EDOM ELSE NoErrno,
          is_inf(x) \/ AddRaisesInvalid(x, BuildNaN))

\* The rounding-mode switch on table row i: the column added to the bits.
\* FE_TOWARDZERO has no case and keeps column 0.
ExceptIncrement(row, mode, flip) ==
  CASE mode = FE_UPWARD     -> IF flip THEN row[3] ELSE row[2]
    [] mode = FE_DOWNWARD   -> IF flip THEN row[2] ELSE row[3]
    [] mode = FE_TONEAREST  -> row[4]
    [] mode = FE_TOWARDZERO -> 0

sincosf_exceptional(x, i, mode) ==
  LET x_sign == x.s = 1
      s == [EXCEPT_OUTPUTS_SIN[i][1] EXCEPT
              !.a = @ + ExceptIncrement(EXCEPT_OUTPUTS_SIN[i], mode, x_sign)]
      c == [EXCEPT_OUTPUTS_COS[i][1] EXCEPT
              !.a = @ + ExceptIncrement(EXCEPT_OUTPUTS_COS[i], mode, FALSE)]
  IN Returns2(IF x_sign THEN Negate(s) ELSE s, c)

sincosf(x, mode) ==
  CASE x.a < \h39800000 -> sincosf_tiny(x, mode)
    [] x.a >= INF_ABS   -> sincosf_nan_inf(x)
    [] \E i \in 1 .. N_EXCEPTS : EXCEPT_INPUTS[i] = x.a ->
         sincosf_exceptional(x, CHOOSE i \in 1 .. N_EXCEPTS : EXCEPT_INPUTS[i] = x.a, mode)
    [] OTHER -> General

=============================================================================
