-------------------------------- MODULE Expf --------------------------------
(***************************************************************************)
(* expf (src/math/generic/expf.cpp): the special-case dispatch on the bits *)
(* of x, the exceptional input, the tiny, underflow and overflow branches  *)
(* with their rounding-mode and errno handling.  The range reduction and   *)
(* table-and-polynomial evaluation that follow are the "general" path,     *)
(* whose arithmetic is modelled in RangeReduction.                         *)
(***************************************************************************)
EXTENDS FPBits

\* x = -0x1.6d7b18p+5f: return 0x1.108a58p-66f - x * 0x1.0p-95f.  The
\* product is exact and adds |x| * 2^-95 = (significand of x) / 2^(156 - e)
\* ulps of 0x1.108a58p-66f (exponent field 61, ulp 2^-89), rounded once.
expf_exceptional(x, mode) ==
  Returns(RoundAboveByFraction(Float(0, \h1e88452c),
                               get_mantissa(x) + MANTISSA_UNIT,
                               2 ^ (156 - get_unbiased_exponent(x)), mode))

\* |x| < 2^-25: return 1.0f + x.  |x| <= 2^-26 is below half an ulp of 1
\* on either side, never equal to it.
expf_tiny(x, mode) == Returns(PerturbRound(One, Direction(x), FALSE, mode))

\* x_u >= 0xc2cff1b5: x < log(2^-150), -inf or a negative NaN.
expf_underflow(x, mode) ==
  CASE is_inf(x)          -> Returns(PosZero)
    [] is_nan(x)          -> Returns(x)
    [] mode = FE_UPWARD   -> Returns(Float(0, MIN_SUBNORMAL))
    [] mode /= FE_UPWARD  -> Special(<<PosZero>>, ERANGE, FALSE)

\* Mutation of expf_overflow: errno = ERANGE before the rounding-mode test.
expf_overflow_errno_first(x, mode) ==
  LET finite == x.a < INF_ABS
  IN IF finite /\ mode \in {FE_DOWNWARD, FE_TOWARDZERO}
     THEN Special(<<Float(0, MAX_NORMAL)>>, ERANGE, FALSE)
     ELSE Special(<<AddNaN(x, PosInf)>>, IF finite THEN ERANGE ELSE NoErrno,
                  AddRaisesInvalid(x, PosInf))

\* !sign && x_u >= 0x42b20000: x >= 89, +inf or a positive NaN.  A finite
\* x saturates to MAX_NORMAL when rounding down or toward zero; otherwise
\* errno = ERANGE and the result is x + inf.
expf_overflow(x, mode) ==
  LET finite == x.a < INF_ABS
  IN IF finite /\ mode \in {FE_DOWNWARD, FE_TOWARDZERO}
     THEN Returns(Float(0, MAX_NORMAL))
     ELSE Special(<<AddNaN(x, PosInf)>>, IF finite THEN ERANGE ELSE NoErrno,
                  AddRaisesInvalid(x, PosInf))

expf(x, mode) ==
  CASE x.s = 1 /\ x.a = \h4236bd8c -> expf_exceptional(x, mode)
    [] x.a >= \h42b20000 \/ x.a <= \h32800000 ->
         CASE get_unbiased_exponent(x) <= 101      -> expf_tiny(x, mode)
           [] x.s = 1 /\ x.a >= \h42cff1b5         -> expf_underflow(x, mode)
           [] x.s = 0 /\ x.a >= \h42b20000         -> expf_overflow(x, mode)
           [] OTHER                                -> General
    [] OTHER -> General

=============================================================================
