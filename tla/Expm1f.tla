------------------------------- MODULE Expm1f -------------------------------
(***************************************************************************)
(* expm1f as src/math/generic/expm1f.cpp writes it: saturation to -1 for  *)
(* x < log(2^-25), overflow for x >= 89, x + x^2 for |x| < 2^-25, the     *)
(* exceptional input -0x1.838d96p-4f, and the general path.                *)
(***************************************************************************)
EXTENDS FPBits

MinusOne == Float(1, ONE_ABS)
\* -0x1.fffffep-1f = -1.0f + 0x1.0p-24f
MinusOneUp == Float(1, \h3f7fffff)

\* Mutation of expm1f_saturate: FE_DOWNWARD in place of FE_TOWARDZERO.
expm1f_saturate_wrong_mode(x, mode) ==
  CASE is_inf(x)                              -> Returns(MinusOne)
    [] is_nan(x)                              -> Returns(x)
    [] mode \in {FE_UPWARD, FE_DOWNWARD}      -> Returns(MinusOneUp)
    [] mode \in {FE_TONEAREST, FE_TOWARDZERO} -> Returns(MinusOne)

\* x_u >= 0xc18aa123: x < log(2^-25), -inf or a negative NaN.
expm1f_saturate(x, mode) ==
  CASE is_inf(x)                              -> Returns(MinusOne)
    [] is_nan(x)                              -> Returns(x)
    [] mode \in {FE_UPWARD, FE_TOWARDZERO}    -> Returns(MinusOneUp)
    [] mode \in {FE_TONEAREST, FE_DOWNWARD}   -> Returns(MinusOne)

\* !sign && x_u >= 0x42b20000: x >= 89, +inf or a positive NaN.
expm1f_overflow(x, mode) ==
  LET finite == x.a < INF_ABS
  IN IF finite /\ mode \in {FE_DOWNWARD, FE_TOWARDZERO}
     THEN Returns(Float(0, MAX_NORMAL))
     ELSE Special(<<AddNaN(x, PosInf)>>, IF finite THEN ERANGE ELSE NoErrno,
                  AddRaisesInvalid(x, PosInf))

\* |x| < 2^-25: -0.0f is returned as is; otherwise fma(x, x, x), one
\* rounding of x + x^2 where x^2 is below half an ulp of x on either side.
expm1f_tiny(x, mode) ==
  IF x.s = 1 /\ x.a = 0 THEN Returns(x)
  ELSE Returns(PerturbRound(x, IF x.a = 0 THEN 0 ELSE 1, FALSE, mode))

\* x_u == 0xbdc1c6cb, x = -0x1.838d96p-4f.
expm1f_exceptional(x, mode) ==
  IF mode \in {FE_TONEAREST, FE_DOWNWARD}
  THEN Returns(Float(1, \h3db8e442))   \* -0x1.71c884p-4f
  ELSE Returns(Float(1, \h3db8e441))   \* -0x1.71c882p-4f

expm1f(x, mode) ==
  CASE x.s = 1 /\ x.a >= \h418aa123 -> expm1f_saturate(x, mode)
    [] x.s = 0 /\ x.a >= \h42b20000 -> expm1f_overflow(x, mode)
    [] get_unbiased_exponent(x) < 102 -> expm1f_tiny(x, mode)
    [] get_unbiased_exponent(x) < 123 -> General
    [] x.s = 1 /\ x.a = \h3dc1c6cb  -> expm1f_exceptional(x, mode)
    [] OTHER                        -> General

=============================================================================
