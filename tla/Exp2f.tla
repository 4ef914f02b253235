-------------------------------- MODULE Exp2f --------------------------------
(***************************************************************************)
(* exp2f (src/math/generic/exp2f.cpp): the switch on six exceptional      *)
(* inputs, the tiny, overflow and underflow branches and the general path. *)
(***************************************************************************)
EXTENDS FPBits

(***************************************************************************)
(* switch (x_u): the exceptional inputs, each with the result it returns   *)
(* in the rounding modes it covers.  A case that only covers some modes    *)
(* breaks out of the switch in the others and goes on with the code below. *)
(***************************************************************************)
\* Each entry: x, then the modes returning value r1, then r2 for the rest
\* (NoReturn: break).
NoReturn == Float(0, 0) \* never a result of these cases; marks a break
EXP2F_EXCEPTS == <<
  [x |-> Float(0, \h3b429d37), m1 |-> {FE_TONEAREST},
   r1 |-> Float(0, \h3f804385), r2 |-> NoReturn],             \* 0x1.00870ap+0f
  [x |-> Float(0, \h3c02a9ad), m1 |-> {FE_TONEAREST},
   r1 |-> Float(0, \h3f80b5a3), r2 |-> NoReturn],             \* 0x1.016b46p+0f
  [x |-> Float(0, \h3ca66e26), m1 |-> {FE_TONEAREST, FE_UPWARD},
   r1 |-> Float(0, \h3f81d0b5), r2 |-> Float(0, \h3f81d0b4)], \* 0x1.03a16ap+0f, 0x1.03a168p+0f
  [x |-> Float(0, \h3d92a282), m1 |-> {FE_UPWARD},
   r1 |-> Float(0, \h3f868344), r2 |-> Float(0, \h3f868343)], \* 0x1.0d0688p+0f, 0x1.0d0686p+0f
  [x |-> Float(1, \h3cf3a937), m1 |-> {FE_TONEAREST},
   r1 |-> Float(0, \h3f7ac6b1), r2 |-> NoReturn],             \* 0x1.f58d62p-1f
  [x |-> Float(1, \h38d3d026), m1 |-> {FE_TONEAREST},
   r1 |-> Float(0, \h3f7ffb69), r2 |-> NoReturn] >>           \* 0x1.fff6d2p-1f

\* The value the switch returns for x in this mode, or NoReturn.
exp2f_switch(x, mode) ==
  LET hit == {i \in DOMAIN EXP2F_EXCEPTS : EXP2F_EXCEPTS[i].x = x}
  IN IF hit = {} THEN NoReturn
     ELSE LET e == EXP2F_EXCEPTS[CHOOSE i \in hit : TRUE]
          IN IF mode \in e.m1 THEN e.r1 ELSE e.r2

\* |x| <= 2^-26: return 1.0f + x.
exp2f_tiny(x, mode) == Returns(PerturbRound(One, Direction(x), FALSE, mode))

\* Sign clear and x_abs >= 0x43000000: x >= 128, +inf or a positive NaN.
exp2f_overflow(x, mode) ==
  LET finite == x.a < INF_ABS
  IN IF finite /\ mode \in {FE_DOWNWARD, FE_TOWARDZERO}
     THEN Returns(Float(0, MAX_NORMAL))
     ELSE Special(<<AddNaN(x, PosInf)>>, IF finite THEN ERANGE ELSE NoErrno,
                  AddRaisesInvalid(x, PosInf))

\* x_u >= 0xc3160000: x <= -150, -inf or a negative NaN.  errno is set
\* only when x != 0.0f, which every x reaching here satisfies.
exp2f_underflow(x, mode) ==
  CASE is_inf(x)         -> Returns(PosZero)
    [] is_nan(x)         -> Returns(x)
    [] mode = FE_UPWARD  -> Returns(Float(0, MIN_SUBNORMAL))
    [] mode /= FE_UPWARD -> Special(<<PosZero>>, IF x.a /= 0 THEN ERANGE ELSE NoErrno, FALSE)

exp2f(x, mode) ==
  CASE exp2f_switch(x, mode) /= NoReturn -> Returns(exp2f_switch(x, mode))
    [] x.a >= \h43000000 \/ x.a <= \h32800000 ->
         CASE x.a <= \h32800000            -> exp2f_tiny(x, mode)
           [] x.s = 0                      -> exp2f_overflow(x, mode)
           [] x.s = 1 /\ x.a >= \h43160000 -> exp2f_underflow(x, mode)
           [] OTHER                        -> General
    [] OTHER -> General

=============================================================================
