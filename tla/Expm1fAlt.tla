------------------------------ MODULE Expm1fAlt ------------------------------
(***************************************************************************)
(* The other revision of expm1f kept in the repository (unnamed/part_005): *)
(* a different exceptional input (0x1.6b7d8ap-3f), the saturation and      *)
(* overflow branches nested under one x_abs >= 0x418aa123 test, and the   *)
(* tiny branch tested on x_abs, which calls fputil::multiply_add where   *)
(* the first revision calls fputil::fma.  multiply_add is one fused        *)
(* operation only on a target with FMA (HasFMA); otherwise it is x * y + z *)
(* with two roundings.                                                     *)
(***************************************************************************)
EXTENDS Expm1f

CONSTANT HasFMA   \* the build's target has FMA, so multiply_add is fused

\* x_u == 0x3e35bec5, x = 0x1.6b7d8ap-3f.
expm1f_alt_exceptional(x, mode) ==
  IF mode \in {FE_TONEAREST, FE_UPWARD}
  THEN Returns(Float(0, \h3e46df32))   \* 0x1.8dbe64p-3f
  ELSE Returns(Float(0, \h3e46df31))   \* 0x1.8dbe62p-3f

\* x_abs >= 0x418aa123, sign set: -inf, a negative NaN or x < log(2^-25).
expm1f_alt_saturate(x, mode) ==
  CASE is_inf(x)                              -> Returns(MinusOne)
    [] is_nan(x)                              -> Returns(x)
    [] mode \in {FE_UPWARD, FE_TOWARDZERO}    -> Returns(MinusOneUp)
    [] mode \in {FE_TONEAREST, FE_DOWNWARD}   -> Returns(MinusOne)

\* x_abs >= 0x418aa123, sign clear, x_u >= 0x42b20000.
expm1f_alt_overflow(x, mode) ==
  LET finite == x.a < INF_ABS
  IN IF finite /\ mode \in {FE_DOWNWARD, FE_TOWARDZERO}
     THEN Returns(Float(0, MAX_NORMAL))
     ELSE Special(<<AddNaN(x, PosInf)>>, IF finite THEN ERANGE ELSE NoErrno,
                  AddRaisesInvalid(x, PosInf))

\* x * x rounds to 0 in mode: x^2 below the smallest subnormal 2^-149,
\* at most half of it in round to nearest (the tie goes to the even 0).
\* 0x1a000000 is 2^-75; 0x1a3504f3 is the largest float below 2^-74.5.
SquareRoundsToZero(x, mode) ==
  CASE mode = FE_UPWARD    -> x.a = 0
    [] mode = FE_TONEAREST -> x.a <= \h1a000000
    [] OTHER               -> x.a <= \h1a3504f3

\* multiply_add(x, x, x) for |x| < 2^-25.  Fused, it is x + x^2 rounded
\* once.  Unfused, x * x is rounded first: if that gives 0 the sum is x,
\* and otherwise the rounded square is still a positive fraction of an
\* ulp of x that rounds x + x * x the same way.
multiply_add_square(x, mode) ==
  IF x.a = 0 \/ (~HasFMA /\ SquareRoundsToZero(x, mode)) THEN x
  ELSE PerturbRound(x, 1, FALSE, mode)

\* x_abs < 0x33000000: -0.0f as is, otherwise multiply_add(x, x, x).
expm1f_alt_tiny(x, mode) ==
  IF x.s = 1 /\ x.a = 0 THEN Returns(x)
  ELSE Returns(multiply_add_square(x, mode))

expm1f_alt(x, mode) ==
  CASE x.s = 0 /\ x.a = \h3e35bec5                  -> expm1f_alt_exceptional(x, mode)
    [] x.a >= \h418aa123 /\ x.s = 1                 -> expm1f_alt_saturate(x, mode)
    [] x.a >= \h418aa123 /\ x.s = 0 /\ x.a >= \h42b20000 -> expm1f_alt_overflow(x, mode)
    [] x.a < \h33000000                             -> expm1f_alt_tiny(x, mode)
    [] OTHER                                        -> General

=============================================================================
