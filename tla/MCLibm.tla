------------------------------- MODULE MCLibm -------------------------------
(***************************************************************************)
(* Libm instantiated for TLC.  Each function is called with the signed     *)
(* zeros, the smallest subnormal, the largest normal, the infinities, a    *)
(* quiet and a signalling NaN of each sign, 1.0, every bit pattern one    *)
(* below, at and one above each threshold its dispatch compares x_abs or   *)
(* x_u with, its exceptional inputs, and the arguments between the        *)
(* branch thresholds and the true overflow and underflow points.           *)
(*                                                                         *)
(* Ref_fn gives, for each argument, the floats bracketing the exact value *)
(* of fn(x), computed offline to 160 significant digits.                  *)
(***************************************************************************)
EXTENDS Libm, TLC

Ref_expf ==
Float(0, \h00000000) :> <<Bracket(Float(0, \h3f800000), Float(0, \h3f800000), Float(0, \h3f800000))>>
  @@ Float(0, \h00000001) :> <<Bracket(Float(0, \h3f800000), Float(0, \h3f800001), Float(0, \h3f800000))>>
  @@ Float(0, \h327fffff) :> <<Bracket(Float(0, \h3f800000), Float(0, \h3f800001), Float(0, \h3f800000))>>
  @@ Float(0, \h32800000) :> <<Bracket(Float(0, \h3f800000), Float(0, \h3f800001), Float(0, \h3f800000))>>
  @@ Float(0, \h32800001) :> <<Bracket(Float(0, \h3f800000), Float(0, \h3f800001), Float(0, \h3f800000))>>
  @@ Float(0, \h32ffffff) :> <<Bracket(Float(0, \h3f800000), Float(0, \h3f800001), Float(0, \h3f800000))>>
  @@ Float(0, \h33000000) :> <<Bracket(Float(0, \h3f800000), Float(0, \h3f800001), Float(0, \h3f800000))>>
  @@ Float(0, \h3f800000) :> <<Bracket(Float(0, \h402df854), Float(0, \h402df855), Float(0, \h402df854))>>
  @@ Float(0, \h4236bd8c) :> <<Bracket(Float(0, \h607076a1), Float(0, \h607076a2), Float(0, \h607076a1))>>
  @@ Float(0, \h42b17218) :> <<Bracket(Float(0, \h7f7fffff), Float(0, \h7f800000), Float(0, \h7f800000))>>
  @@ Float(0, \h42b1ffff) :> <<Bracket(Float(0, \h7f7fffff), Float(0, \h7f800000), Float(0, \h7f800000))>>
  @@ Float(0, \h42b20000) :> <<Bracket(Float(0, \h7f7fffff), Float(0, \h7f800000), Float(0, \h7f800000))>>
  @@ Float(0, \h42b20001) :> <<Bracket(Float(0, \h7f7fffff), Float(0, \h7f800000), Float(0, \h7f800000))>>
  @@ Float(0, \h7f7fffff) :> <<Bracket(Float(0, \h7f7fffff), Float(0, \h7f800000), Float(0, \h7f800000))>>
  @@ Float(0, \h7f800000) :> <<Bracket(Float(0, \h7f800000), Float(0, \h7f800000), Float(0, \h7f800000))>>
  @@ Float(0, \h7fa00000) :> <<NaNResult>>
  @@ Float(0, \h7fc00000) :> <<NaNResult>>
  @@ Float(1, \h00000000) :> <<Bracket(Float(0, \h3f800000), Float(0, \h3f800000), Float(0, \h3f800000))>>
  @@ Float(1, \h00000001) :> <<Bracket(Float(0, \h3f7fffff), Float(0, \h3f800000), Float(0, \h3f800000))>>
  @@ Float(1, \h327fffff) :> <<Bracket(Float(0, \h3f7fffff), Float(0, \h3f800000), Float(0, \h3f800000))>>
  @@ Float(1, \h32800000) :> <<Bracket(Float(0, \h3f7fffff), Float(0, \h3f800000), Float(0, \h3f800000))>>
  @@ Float(1, \h32800001) :> <<Bracket(Float(0, \h3f7fffff), Float(0, \h3f800000), Float(0, \h3f800000))>>
  @@ Float(1, \h32ffffff) :> <<Bracket(Float(0, \h3f7fffff), Float(0, \h3f800000), Float(0, \h3f800000))>>
  @@ Float(1, \h33000000) :> <<Bracket(Float(0, \h3f7fffff), Float(0, \h3f800000), Float(0, \h3f800000))>>
  @@ Float(1, \h3f800000) :> <<Bracket(Float(0, \h3ebc5ab1), Float(0, \h3ebc5ab2), Float(0, \h3ebc5ab2))>>
  @@ Float(1, \h4236bd8b) :> <<Bracket(Float(0, \h1e88454f), Float(0, \h1e884550), Float(0, \h1e88454f))>>
  @@ Float(1, \h4236bd8c) :> <<Bracket(Float(0, \h1e88452c), Float(0, \h1e88452d), Float(0, \h1e88452d))>>
  @@ Float(1, \h4236bd8d) :> <<Bracket(Float(0, \h1e88450a), Float(0, \h1e88450b), Float(0, \h1e88450b))>>
  @@ Float(1, \h42b17218) :> <<Bracket(Float(0, \h001fffff), Float(0, \h00200000), Float(0, \h001fffff))>>
  @@ Float(1, \h42b1ffff) :> <<Bracket(Float(0, \h00184107), Float(0, \h00184108), Float(0, \h00184108))>>
  @@ Float(1, \h42b20000) :> <<Bracket(Float(0, \h001840fb), Float(0, \h001840fc), Float(0, \h001840fc))>>
  @@ Float(1, \h42b20001) :> <<Bracket(Float(0, \h001840ef), Float(0, \h001840f0), Float(0, \h001840f0))>>
  @@ Float(1, \h42cfe1b4) :> <<Bracket(Float(0, \h00000000), Float(0, \h00000001), Float(0, \h00000001))>>
  @@ Float(1, \h42cff1b4) :> <<Bracket(Float(0, \h00000000), Float(0, \h00000001), Float(0, \h00000001))>>
  @@ Float(1, \h42cff1b5) :> <<Bracket(Float(0, \h00000000), Float(0, \h00000001), Float(0, \h00000000))>>
  @@ Float(1, \h42cff1b6) :> <<Bracket(Float(0, \h00000000), Float(0, \h00000001), Float(0, \h00000000))>>
  @@ Float(1, \h7f7fffff) :> <<Bracket(Float(0, \h00000000), Float(0, \h00000001), Float(0, \h00000000))>>
  @@ Float(1, \h7f800000) :> <<Bracket(Float(0, \h00000000), Float(0, \h00000000), Float(0, \h00000000))>>
  @@ Float(1, \h7fa00000) :> <<NaNResult>>
  @@ Float(1, \h7fc00000) :> <<NaNResult>>

Ref_exp2f ==
Float(0, \h00000000) :> <<Bracket(Float(0, \h3f800000), Float(0, \h3f800000), Float(0, \h3f800000))>>
  @@ Float(0, \h00000001) :> <<Bracket(Float(0, \h3f800000), Float(0, \h3f800001), Float(0, \h3f800000))>>
  @@ Float(0, \h327fffff) :> <<Bracket(Float(0, \h3f800000), Float(0, \h3f800001), Float(0, \h3f800000))>>
  @@ Float(0, \h32800000) :> <<Bracket(Float(0, \h3f800000), Float(0, \h3f800001), Float(0, \h3f800000))>>
  @@ Float(0, \h32800001) :> <<Bracket(Float(0, \h3f800000), Float(0, \h3f800001), Float(0, \h3f800000))>>
  @@ Float(0, \h38d3d026) :> <<Bracket(Float(0, \h3f80024b), Float(0, \h3f80024c), Float(0, \h3f80024b))>>
  @@ Float(0, \h3b429d37) :> <<Bracket(Float(0, \h3f804384), Float(0, \h3f804385), Float(0, \h3f804385))>>
  @@ Float(0, \h3bffffff) :> <<Bracket(Float(0, \h3f80b1ed), Float(0, \h3f80b1ee), Float(0, \h3f80b1ed))>>
  @@ Float(0, \h3c000000) :> <<Bracket(Float(0, \h3f80b1ed), Float(0, \h3f80b1ee), Float(0, \h3f80b1ed))>>
  @@ Float(0, \h3c000001) :> <<Bracket(Float(0, \h3f80b1ed), Float(0, \h3f80b1ee), Float(0, \h3f80b1ed))>>
  @@ Float(0, \h3c02a9ad) :> <<Bracket(Float(0, \h3f80b5a3), Float(0, \h3f80b5a4), Float(0, \h3f80b5a3))>>
  @@ Float(0, \h3ca66e26) :> <<Bracket(Float(0, \h3f81d0b4), Float(0, \h3f81d0b5), Float(0, \h3f81d0b5))>>
  @@ Float(0, \h3cf3a937) :> <<Bracket(Float(0, \h3f82aa95), Float(0, \h3f82aa96), Float(0, \h3f82aa95))>>
  @@ Float(0, \h3d92a282) :> <<Bracket(Float(0, \h3f868343), Float(0, \h3f868344), Float(0, \h3f868343))>>
  @@ Float(0, \h3f800000) :> <<Bracket(Float(0, \h40000000), Float(0, \h40000000), Float(0, \h40000000))>>
  @@ Float(0, \h3fc00000) :> <<Bracket(Float(0, \h403504f3), Float(0, \h403504f4), Float(0, \h403504f3))>>
  @@ Float(0, \h42ffffff) :> <<Bracket(Float(0, \h7f7fffa7), Float(0, \h7f7fffa8), Float(0, \h7f7fffa7))>>
  @@ Float(0, \h43000000) :> <<Bracket(Float(0, \h7f7fffff), Float(0, \h7f800000), Float(0, \h7f800000))>>
  @@ Float(0, \h43000001) :> <<Bracket(Float(0, \h7f7fffff), Float(0, \h7f800000), Float(0, \h7f800000))>>
  @@ Float(0, \h43150000) :> <<Bracket(Float(0, \h7f7fffff), Float(0, \h7f800000), Float(0, \h7f800000))>>
  @@ Float(0, \h7f7fffff) :> <<Bracket(Float(0, \h7f7fffff), Float(0, \h7f800000), Float(0, \h7f800000))>>
  @@ Float(0, \h7f800000) :> <<Bracket(Float(0, \h7f800000), Float(0, \h7f800000), Float(0, \h7f800000))>>
  @@ Float(0, \h7fa00000) :> <<NaNResult>>
  @@ Float(0, \h7fc00000) :> <<NaNResult>>
  @@ Float(1, \h00000000) :> <<Bracket(Float(0, \h3f800000), Float(0, \h3f800000), Float(0, \h3f800000))>>
  @@ Float(1, \h00000001) :> <<Bracket(Float(0, \h3f7fffff), Float(0, \h3f800000), Float(0, \h3f800000))>>
  @@ Float(1, \h327fffff) :> <<Bracket(Float(0, \h3f7fffff), Float(0, \h3f800000), Float(0, \h3f800000))>>
  @@ Float(1, \h32800000) :> <<Bracket(Float(0, \h3f7fffff), Float(0, \h3f800000), Float(0, \h3f800000))>>
  @@ Float(1, \h32800001) :> <<Bracket(Float(0, \h3f7fffff), Float(0, \h3f800000), Float(0, \h3f800000))>>
  @@ Float(1, \h38d3d026) :> <<Bracket(Float(0, \h3f7ffb69), Float(0, \h3f7ffb6a), Float(0, \h3f7ffb69))>>
  @@ Float(1, \h3b429d37) :> <<Bracket(Float(0, \h3f7f793e), Float(0, \h3f7f793f), Float(0, \h3f7f793e))>>
  @@ Float(1, \h3bffffff) :> <<Bracket(Float(0, \h3f7e9e11), Float(0, \h3f7e9e12), Float(0, \h3f7e9e11))>>
  @@ Float(1, \h3c000000) :> <<Bracket(Float(0, \h3f7e9e11), Float(0, \h3f7e9e12), Float(0, \h3f7e9e11))>>
  @@ Float(1, \h3c000001) :> <<Bracket(Float(0, \h3f7e9e11), Float(0, \h3f7e9e12), Float(0, \h3f7e9e11))>>
  @@ Float(1, \h3c02a9ad) :> <<Bracket(Float(0, \h3f7e96b9), Float(0, \h3f7e96ba), Float(0, \h3f7e96ba))>>
  @@ Float(1, \h3ca66e26) :> <<Bracket(Float(0, \h3f7c6b95), Float(0, \h3f7c6b96), Float(0, \h3f7c6b95))>>
  @@ Float(1, \h3cf3a937) :> <<Bracket(Float(0, \h3f7ac6b0), Float(0, \h3f7ac6b1), Float(0, \h3f7ac6b1))>>
  @@ Float(1, \h3d92a282) :> <<Bracket(Float(0, \h3f739aec), Float(0, \h3f739aed), Float(0, \h3f739aed))>>
  @@ Float(1, \h3f800000) :> <<Bracket(Float(0, \h3f000000), Float(0, \h3f000000), Float(0, \h3f000000))>>
  @@ Float(1, \h3fc00000) :> <<Bracket(Float(0, \h3eb504f3), Float(0, \h3eb504f4), Float(0, \h3eb504f3))>>
  @@ Float(1, \h42ffffff) :> <<Bracket(Float(0, \h0020000b), Float(0, \h0020000c), Float(0, \h0020000b))>>
  @@ Float(1, \h43000000) :> <<Bracket(Float(0, \h00200000), Float(0, \h00200000), Float(0, \h00200000))>>
  @@ Float(1, \h43000001) :> <<Bracket(Float(0, \h001fffe9), Float(0, \h001fffea), Float(0, \h001fffea))>>
  @@ Float(1, \h43150000) :> <<Bracket(Float(0, \h00000001), Float(0, \h00000001), Float(0, \h00000001))>>
  @@ Float(1, \h43158000) :> <<Bracket(Float(0, \h00000000), Float(0, \h00000001), Float(0, \h00000001))>>
  @@ Float(1, \h4315ffff) :> <<Bracket(Float(0, \h00000000), Float(0, \h00000001), Float(0, \h00000001))>>
  @@ Float(1, \h43160000) :> <<Bracket(Float(0, \h00000000), Float(0, \h00000001), Float(0, \h00000000))>>
  @@ Float(1, \h43160001) :> <<Bracket(Float(0, \h00000000), Float(0, \h00000001), Float(0, \h00000000))>>
  @@ Float(1, \h7f7fffff) :> <<Bracket(Float(0, \h00000000), Float(0, \h00000001), Float(0, \h00000000))>>
  @@ Float(1, \h7f800000) :> <<Bracket(Float(0, \h00000000), Float(0, \h00000000), Float(0, \h00000000))>>
  @@ Float(1, \h7fa00000) :> <<NaNResult>>
  @@ Float(1, \h7fc00000) :> <<NaNResult>>

Ref_expm1f ==
Float(0, \h00000000) :> <<Bracket(Float(0, \h00000000), Float(0, \h00000000), Float(0, \h00000000))>>
  @@ Float(0, \h00000001) :> <<Bracket(Float(0, \h00000001), Float(0, \h00000002), Float(0, \h00000001))>>
  @@ Float(0, \h32ffffff) :> <<Bracket(Float(0, \h32ffffff), Float(0, \h33000000), Float(0, \h32ffffff))>>
  @@ Float(0, \h33000000) :> <<Bracket(Float(0, \h33000000), Float(0, \h33000001), Float(0, \h33000000))>>
  @@ Float(0, \h33000001) :> <<Bracket(Float(0, \h33000001), Float(0, \h33000002), Float(0, \h33000001))>>
  @@ Float(0, \h3d7fffff) :> <<Bracket(Float(0, \h3d8415ab), Float(0, \h3d8415ac), Float(0, \h3d8415ab))>>
  @@ Float(0, \h3d800000) :> <<Bracket(Float(0, \h3d8415ab), Float(0, \h3d8415ac), Float(0, \h3d8415ac))>>
  @@ Float(0, \h3d800001) :> <<Bracket(Float(0, \h3d8415ac), Float(0, \h3d8415ad), Float(0, \h3d8415ad))>>
  @@ Float(0, \h3dc1c6cb) :> <<Bracket(Float(0, \h3dcb3d6d), Float(0, \h3dcb3d6e), Float(0, \h3dcb3d6e))>>
  @@ Float(0, \h3e35bec5) :> <<Bracket(Float(0, \h3e46df31), Float(0, \h3e46df32), Float(0, \h3e46df32))>>
  @@ Float(0, \h3f800000) :> <<Bracket(Float(0, \h3fdbf0a8), Float(0, \h3fdbf0a9), Float(0, \h3fdbf0a9))>>
  @@ Float(0, \h418aa122) :> <<Bracket(Float(0, \h4bffffe8), Float(0, \h4bffffe9), Float(0, \h4bffffe8))>>
  @@ Float(0, \h418aa123) :> <<Bracket(Float(0, \h4c000004), Float(0, \h4c000005), Float(0, \h4c000004))>>
  @@ Float(0, \h418aa124) :> <<Bracket(Float(0, \h4c000014), Float(0, \h4c000015), Float(0, \h4c000014))>>
  @@ Float(0, \h42b17218) :> <<Bracket(Float(0, \h7f7fffff), Float(0, \h7f800000), Float(0, \h7f800000))>>
  @@ Float(0, \h42b1ffff) :> <<Bracket(Float(0, \h7f7fffff), Float(0, \h7f800000), Float(0, \h7f800000))>>
  @@ Float(0, \h42b20000) :> <<Bracket(Float(0, \h7f7fffff), Float(0, \h7f800000), Float(0, \h7f800000))>>
  @@ Float(0, \h42b20001) :> <<Bracket(Float(0, \h7f7fffff), Float(0, \h7f800000), Float(0, \h7f800000))>>
  @@ Float(0, \h7f7fffff) :> <<Bracket(Float(0, \h7f7fffff), Float(0, \h7f800000), Float(0, \h7f800000))>>
  @@ Float(0, \h7f800000) :> <<Bracket(Float(0, \h7f800000), Float(0, \h7f800000), Float(0, \h7f800000))>>
  @@ Float(0, \h7fa00000) :> <<NaNResult>>
  @@ Float(0, \h7fc00000) :> <<NaNResult>>
  @@ Float(1, \h00000000) :> <<Bracket(Float(1, \h00000000), Float(1, \h00000000), Float(1, \h00000000))>>
  @@ Float(1, \h00000001) :> <<Bracket(Float(1, \h00000001), Float(1, \h00000000), Float(1, \h00000001))>>
  @@ Float(1, \h32ffffff) :> <<Bracket(Float(1, \h32ffffff), Float(1, \h32fffffe), Float(1, \h32ffffff))>>
  @@ Float(1, \h33000000) :> <<Bracket(Float(1, \h33000000), Float(1, \h32ffffff), Float(1, \h33000000))>>
  @@ Float(1, \h33000001) :> <<Bracket(Float(1, \h33000001), Float(1, \h33000000), Float(1, \h33000001))>>
  @@ Float(1, \h3d7fffff) :> <<Bracket(Float(1, \h3d782a02), Float(1, \h3d782a01), Float(1, \h3d782a01))>>
  @@ Float(1, \h3d800000) :> <<Bracket(Float(1, \h3d782a03), Float(1, \h3d782a02), Float(1, \h3d782a02))>>
  @@ Float(1, \h3d800001) :> <<Bracket(Float(1, \h3d782a04), Float(1, \h3d782a03), Float(1, \h3d782a04))>>
  @@ Float(1, \h3dc1c6cb) :> <<Bracket(Float(1, \h3db8e442), Float(1, \h3db8e441), Float(1, \h3db8e442))>>
  @@ Float(1, \h3e35bec5) :> <<Bracket(Float(1, \h3e2687ab), Float(1, \h3e2687aa), Float(1, \h3e2687aa))>>
  @@ Float(1, \h3f800000) :> <<Bracket(Float(1, \h3f21d2a8), Float(1, \h3f21d2a7), Float(1, \h3f21d2a7))>>
  @@ Float(1, \h418aa122) :> <<Bracket(Float(1, \h3f800000), Float(1, \h3f7fffff), Float(1, \h3f7fffff))>>
  @@ Float(1, \h418aa123) :> <<Bracket(Float(1, \h3f800000), Float(1, \h3f7fffff), Float(1, \h3f800000))>>
  @@ Float(1, \h418aa124) :> <<Bracket(Float(1, \h3f800000), Float(1, \h3f7fffff), Float(1, \h3f800000))>>
  @@ Float(1, \h42b17218) :> <<Bracket(Float(1, \h3f800000), Float(1, \h3f7fffff), Float(1, \h3f800000))>>
  @@ Float(1, \h42b1ffff) :> <<Bracket(Float(1, \h3f800000), Float(1, \h3f7fffff), Float(1, \h3f800000))>>
  @@ Float(1, \h42b20000) :> <<Bracket(Float(1, \h3f800000), Float(1, \h3f7fffff), Float(1, \h3f800000))>>
  @@ Float(1, \h42b20001) :> <<Bracket(Float(1, \h3f800000), Float(1, \h3f7fffff), Float(1, \h3f800000))>>
  @@ Float(1, \h7f7fffff) :> <<Bracket(Float(1, \h3f800000), Float(1, \h3f7fffff), Float(1, \h3f800000))>>
  @@ Float(1, \h7f800000) :> <<Bracket(Float(1, \h3f800000), Float(1, \h3f800000), Float(1, \h3f800000))>>
  @@ Float(1, \h7fa00000) :> <<NaNResult>>
  @@ Float(1, \h7fc00000) :> <<NaNResult>>

Ref_sincosf ==
Float(0, \h00000000) :> <<Bracket(Float(0, \h00000000), Float(0, \h00000000), Float(0, \h00000000)), Bracket(Float(0, \h3f800000), Float(0, \h3f800000), Float(0, \h3f800000))>>
  @@ Float(0, \h00000001) :> <<Bracket(Float(0, \h00000000), Float(0, \h00000001), Float(0, \h00000001)), Bracket(Float(0, \h3f7fffff), Float(0, \h3f800000), Float(0, \h3f800000))>>
  @@ Float(0, \h00800000) :> <<Bracket(Float(0, \h007fffff), Float(0, \h00800000), Float(0, \h00800000)), Bracket(Float(0, \h3f7fffff), Float(0, \h3f800000), Float(0, \h3f800000))>>
  @@ Float(0, \h01000000) :> <<Bracket(Float(0, \h00ffffff), Float(0, \h01000000), Float(0, \h01000000)), Bracket(Float(0, \h3f7fffff), Float(0, \h3f800000), Float(0, \h3f800000))>>
  @@ Float(0, \h39000000) :> <<Bracket(Float(0, \h38ffffff), Float(0, \h39000000), Float(0, \h39000000)), Bracket(Float(0, \h3f7fffff), Float(0, \h3f800000), Float(0, \h3f800000))>>
  @@ Float(0, \h397fffff) :> <<Bracket(Float(0, \h397ffffe), Float(0, \h397fffff), Float(0, \h397fffff)), Bracket(Float(0, \h3f7fffff), Float(0, \h3f800000), Float(0, \h3f800000))>>
  @@ Float(0, \h39800000) :> <<Bracket(Float(0, \h397fffff), Float(0, \h39800000), Float(0, \h39800000)), Bracket(Float(0, \h3f7fffff), Float(0, \h3f800000), Float(0, \h3f800000))>>
  @@ Float(0, \h39800001) :> <<Bracket(Float(0, \h39800000), Float(0, \h39800001), Float(0, \h39800001)), Bracket(Float(0, \h3f7fffff), Float(0, \h3f800000), Float(0, \h3f7fffff))>>
  @@ Float(0, \h3b5637f5) :> <<Bracket(Float(0, \h3b5637dc), Float(0, \h3b5637dd), Float(0, \h3b5637dc)), Bracket(Float(0, \h3f7fffa6), Float(0, \h3f7fffa7), Float(0, \h3f7fffa6))>>
  @@ Float(0, \h3f800000) :> <<Bracket(Float(0, \h3f576aa4), Float(0, \h3f576aa5), Float(0, \h3f576aa4)), Bracket(Float(0, \h3f0a5140), Float(0, \h3f0a5141), Float(0, \h3f0a5140))>>
  @@ Float(0, \h3fa7832a) :> <<Bracket(Float(0, \h3f7741b5), Float(0, \h3f7741b6), Float(0, \h3f7741b6)), Bracket(Float(0, \h3e84aabf), Float(0, \h3e84aac0), Float(0, \h3e84aac0))>>
  @@ Float(0, \h46199998) :> <<Bracket(Float(1, \h3eb1fa5e), Float(1, \h3eb1fa5d), Float(1, \h3eb1fa5d)), Bracket(Float(1, \h3f70090c), Float(1, \h3f70090b), Float(1, \h3f70090b))>>
  @@ Float(0, \h55325019) :> <<Bracket(Float(1, \h3f171ae0), Float(1, \h3f171adf), Float(1, \h3f171ae0)), Bracket(Float(0, \h3f4ea5d2), Float(0, \h3f4ea5d3), Float(0, \h3f4ea5d2))>>
  @@ Float(0, \h55cafb2a) :> <<Bracket(Float(1, \h3f7e7a17), Float(1, \h3f7e7a16), Float(1, \h3f7e7a17)), Bracket(Float(0, \h3ddf11f3), Float(0, \h3ddf11f4), Float(0, \h3ddf11f4))>>
  @@ Float(0, \h5922aa80) :> <<Bracket(Float(1, \h3f587522), Float(1, \h3f587521), Float(1, \h3f587522)), Bracket(Float(0, \h3f08aebe), Float(0, \h3f08aebf), Float(0, \h3f08aebf))>>
  @@ Float(0, \h5aa4542c) :> <<Bracket(Float(0, \h3f5f5646), Float(0, \h3f5f5647), Float(0, \h3f5f5646)), Bracket(Float(0, \h3efa40a4), Float(0, \h3efa40a5), Float(0, \h3efa40a4))>>
  @@ Float(0, \h5f18b878) :> <<Bracket(Float(0, \h3dad60f6), Float(0, \h3dad60f7), Float(0, \h3dad60f7)), Bracket(Float(0, \h3f7f14bb), Float(0, \h3f7f14bc), Float(0, \h3f7f14bb))>>
  @@ Float(0, \h6115cb11) :> <<Bracket(Float(1, \h3e7cc1e1), Float(1, \h3e7cc1e0), Float(1, \h3e7cc1e1)), Bracket(Float(0, \h3f78142e), Float(0, \h3f78142f), Float(0, \h3f78142f))>>
  @@ Float(0, \h7beef5ef) :> <<Bracket(Float(1, \h3f587d1c), Float(1, \h3f587d1b), Float(1, \h3f587d1c)), Bracket(Float(0, \h3f08a21c), Float(0, \h3f08a21d), Float(0, \h3f08a21c))>>
  @@ Float(0, \h7f7fffff) :> <<Bracket(Float(1, \h3f0599b4), Float(1, \h3f0599b3), Float(1, \h3f0599b3)), Bracket(Float(0, \h3f5a5f96), Float(0, \h3f5a5f97), Float(0, \h3f5a5f96))>>
  @@ Float(0, \h7f800000) :> <<NaNResult, NaNResult>>
  @@ Float(0, \h7fa00000) :> <<NaNResult, NaNResult>>
  @@ Float(0, \h7fc00000) :> <<NaNResult, NaNResult>>
  @@ Float(1, \h00000000) :> <<Bracket(Float(1, \h00000000), Float(1, \h00000000), Float(1, \h00000000)), Bracket(Float(0, \h3f800000), Float(0, \h3f800000), Float(0, \h3f800000))>>
  @@ Float(1, \h00000001) :> <<Bracket(Float(1, \h00000001), Float(1, \h00000000), Float(1, \h00000001)), Bracket(Float(0, \h3f7fffff), Float(0, \h3f800000), Float(0, \h3f800000))>>
  @@ Float(1, \h00800000) :> <<Bracket(Float(1, \h00800000), Float(1, \h007fffff), Float(1, \h00800000)), Bracket(Float(0, \h3f7fffff), Float(0, \h3f800000), Float(0, \h3f800000))>>
  @@ Float(1, \h01000000) :> <<Bracket(Float(1, \h01000000), Float(1, \h00ffffff), Float(1, \h01000000)), Bracket(Float(0, \h3f7fffff), Float(0, \h3f800000), Float(0, \h3f800000))>>
  @@ Float(1, \h39000000) :> <<Bracket(Float(1, \h39000000), Float(1, \h38ffffff), Float(1, \h39000000)), Bracket(Float(0, \h3f7fffff), Float(0, \h3f800000), Float(0, \h3f800000))>>
  @@ Float(1, \h397fffff) :> <<Bracket(Float(1, \h397fffff), Float(1, \h397ffffe), Float(1, \h397fffff)), Bracket(Float(0, \h3f7fffff), Float(0, \h3f800000), Float(0, \h3f800000))>>
  @@ Float(1, \h39800000) :> <<Bracket(Float(1, \h39800000), Float(1, \h397fffff), Float(1, \h39800000)), Bracket(Float(0, \h3f7fffff), Float(0, \h3f800000), Float(0, \h3f800000))>>
  @@ Float(1, \h39800001) :> <<Bracket(Float(1, \h39800001), Float(1, \h39800000), Float(1, \h39800001)), Bracket(Float(0, \h3f7fffff), Float(0, \h3f800000), Float(0, \h3f7fffff))>>
  @@ Float(1, \h3b5637f5) :> <<Bracket(Float(1, \h3b5637dd), Float(1, \h3b5637dc), Float(1, \h3b5637dc)), Bracket(Float(0, \h3f7fffa6), Float(0, \h3f7fffa7), Float(0, \h3f7fffa6))>>
  @@ Float(1, \h3f800000) :> <<Bracket(Float(1, \h3f576aa5), Float(1, \h3f576aa4), Float(1, \h3f576aa4)), Bracket(Float(0, \h3f0a5140), Float(0, \h3f0a5141), Float(0, \h3f0a5140))>>
  @@ Float(1, \h3fa7832a) :> <<Bracket(Float(1, \h3f7741b6), Float(1, \h3f7741b5), Float(1, \h3f7741b6)), Bracket(Float(0, \h3e84aabf), Float(0, \h3e84aac0), Float(0, \h3e84aac0))>>
  @@ Float(1, \h46199998) :> <<Bracket(Float(0, \h3eb1fa5d), Float(0, \h3eb1fa5e), Float(0, \h3eb1fa5d)), Bracket(Float(1, \h3f70090c), Float(1, \h3f70090b), Float(1, \h3f70090b))>>
  @@ Float(1, \h55325019) :> <<Bracket(Float(0, \h3f171adf), Float(0, \h3f171ae0), Float(0, \h3f171ae0)), Bracket(Float(0, \h3f4ea5d2), Float(0, \h3f4ea5d3), Float(0, \h3f4ea5d2))>>
  @@ Float(1, \h55cafb2a) :> <<Bracket(Float(0, \h3f7e7a16), Float(0, \h3f7e7a17), Float(0, \h3f7e7a17)), Bracket(Float(0, \h3ddf11f3), Float(0, \h3ddf11f4), Float(0, \h3ddf11f4))>>
  @@ Float(1, \h5922aa80) :> <<Bracket(Float(0, \h3f587521), Float(0, \h3f587522), Float(0, \h3f587522)), Bracket(Float(0, \h3f08aebe), Float(0, \h3f08aebf), Float(0, \h3f08aebf))>>
  @@ Float(1, \h5aa4542c) :> <<Bracket(Float(1, \h3f5f5647), Float(1, \h3f5f5646), Float(1, \h3f5f5646)), Bracket(Float(0, \h3efa40a4), Float(0, \h3efa40a5), Float(0, \h3efa40a4))>>
  @@ Float(1, \h5f18b878) :> <<Bracket(Float(1, \h3dad60f7), Float(1, \h3dad60f6), Float(1, \h3dad60f7)), Bracket(Float(0, \h3f7f14bb), Float(0, \h3f7f14bc), Float(0, \h3f7f14bb))>>
  @@ Float(1, \h6115cb11) :> <<Bracket(Float(0, \h3e7cc1e0), Float(0, \h3e7cc1e1), Float(0, \h3e7cc1e1)), Bracket(Float(0, \h3f78142e), Float(0, \h3f78142f), Float(0, \h3f78142f))>>
  @@ Float(1, \h7beef5ef) :> <<Bracket(Float(0, \h3f587d1b), Float(0, \h3f587d1c), Float(0, \h3f587d1c)), Bracket(Float(0, \h3f08a21c), Float(0, \h3f08a21d), Float(0, \h3f08a21c))>>
  @@ Float(1, \h7f7fffff) :> <<Bracket(Float(0, \h3f0599b3), Float(0, \h3f0599b4), Float(0, \h3f0599b3)), Bracket(Float(0, \h3f5a5f96), Float(0, \h3f5a5f97), Float(0, \h3f5a5f96))>>
  @@ Float(1, \h7f800000) :> <<NaNResult, NaNResult>>
  @@ Float(1, \h7fa00000) :> <<NaNResult, NaNResult>>
  @@ Float(1, \h7fc00000) :> <<NaNResult, NaNResult>>

Ref_expm1f_alt ==
Float(0, \h00000000) :> <<Bracket(Float(0, \h00000000), Float(0, \h00000000), Float(0, \h00000000))>>
  @@ Float(0, \h00000001) :> <<Bracket(Float(0, \h00000001), Float(0, \h00000002), Float(0, \h00000001))>>
  @@ Float(0, \h1a000000) :> <<Bracket(Float(0, \h1a000000), Float(0, \h1a000001), Float(0, \h1a000000))>>
  @@ Float(1, \h1a000000) :> <<Bracket(Float(1, \h1a000000), Float(1, \h19ffffff), Float(1, \h1a000000))>>
  @@ Float(0, \h1a000001) :> <<Bracket(Float(0, \h1a000001), Float(0, \h1a000002), Float(0, \h1a000001))>>
  @@ Float(1, \h1a000001) :> <<Bracket(Float(1, \h1a000001), Float(1, \h1a000000), Float(1, \h1a000001))>>
  @@ Float(0, \h1a3504f3) :> <<Bracket(Float(0, \h1a3504f3), Float(0, \h1a3504f4), Float(0, \h1a3504f3))>>
  @@ Float(1, \h1a3504f3) :> <<Bracket(Float(1, \h1a3504f3), Float(1, \h1a3504f2), Float(1, \h1a3504f3))>>
  @@ Float(0, \h1a3504f4) :> <<Bracket(Float(0, \h1a3504f4), Float(0, \h1a3504f5), Float(0, \h1a3504f4))>>
  @@ Float(1, \h1a3504f4) :> <<Bracket(Float(1, \h1a3504f4), Float(1, \h1a3504f3), Float(1, \h1a3504f4))>>
  @@ Float(0, \h32ffffff) :> <<Bracket(Float(0, \h32ffffff), Float(0, \h33000000), Float(0, \h32ffffff))>>
  @@ Float(0, \h33000000) :> <<Bracket(Float(0, \h33000000), Float(0, \h33000001), Float(0, \h33000000))>>
  @@ Float(0, \h33000001) :> <<Bracket(Float(0, \h33000001), Float(0, \h33000002), Float(0, \h33000001))>>
  @@ Float(0, \h3d7fffff) :> <<Bracket(Float(0, \h3d8415ab), Float(0, \h3d8415ac), Float(0, \h3d8415ab))>>
  @@ Float(0, \h3d800000) :> <<Bracket(Float(0, \h3d8415ab), Float(0, \h3d8415ac), Float(0, \h3d8415ac))>>
  @@ Float(0, \h3d800001) :> <<Bracket(Float(0, \h3d8415ac), Float(0, \h3d8415ad), Float(0, \h3d8415ad))>>
  @@ Float(0, \h3dc1c6cb) :> <<Bracket(Float(0, \h3dcb3d6d), Float(0, \h3dcb3d6e), Float(0, \h3dcb3d6e))>>
  @@ Float(0, \h3e35bec5) :> <<Bracket(Float(0, \h3e46df31), Float(0, \h3e46df32), Float(0, \h3e46df32))>>
  @@ Float(0, \h3f800000) :> <<Bracket(Float(0, \h3fdbf0a8), Float(0, \h3fdbf0a9), Float(0, \h3fdbf0a9))>>
  @@ Float(0, \h418aa122) :> <<Bracket(Float(0, \h4bffffe8), Float(0, \h4bffffe9), Float(0, \h4bffffe8))>>
  @@ Float(0, \h418aa123) :> <<Bracket(Float(0, \h4c000004), Float(0, \h4c000005), Float(0, \h4c000004))>>
  @@ Float(0, \h418aa124) :> <<Bracket(Float(0, \h4c000014), Float(0, \h4c000015), Float(0, \h4c000014))>>
  @@ Float(0, \h42b17218) :> <<Bracket(Float(0, \h7f7fffff), Float(0, \h7f800000), Float(0, \h7f800000))>>
  @@ Float(0, \h42b1ffff) :> <<Bracket(Float(0, \h7f7fffff), Float(0, \h7f800000), Float(0, \h7f800000))>>
  @@ Float(0, \h42b20000) :> <<Bracket(Float(0, \h7f7fffff), Float(0, \h7f800000), Float(0, \h7f800000))>>
  @@ Float(0, \h42b20001) :> <<Bracket(Float(0, \h7f7fffff), Float(0, \h7f800000), Float(0, \h7f800000))>>
  @@ Float(0, \h7f7fffff) :> <<Bracket(Float(0, \h7f7fffff), Float(0, \h7f800000), Float(0, \h7f800000))>>
  @@ Float(0, \h7f800000) :> <<Bracket(Float(0, \h7f800000), Float(0, \h7f800000), Float(0, \h7f800000))>>
  @@ Float(0, \h7fa00000) :> <<NaNResult>>
  @@ Float(0, \h7fc00000) :> <<NaNResult>>
  @@ Float(1, \h00000000) :> <<Bracket(Float(1, \h00000000), Float(1, \h00000000), Float(1, \h00000000))>>
  @@ Float(1, \h00000001) :> <<Bracket(Float(1, \h00000001), Float(1, \h00000000), Float(1, \h00000001))>>
  @@ Float(1, \h32ffffff) :> <<Bracket(Float(1, \h32ffffff), Float(1, \h32fffffe), Float(1, \h32ffffff))>>
  @@ Float(1, \h33000000) :> <<Bracket(Float(1, \h33000000), Float(1, \h32ffffff), Float(1, \h33000000))>>
  @@ Float(1, \h33000001) :> <<Bracket(Float(1, \h33000001), Float(1, \h33000000), Float(1, \h33000001))>>
  @@ Float(1, \h3d7fffff) :> <<Bracket(Float(1, \h3d782a02), Float(1, \h3d782a01), Float(1, \h3d782a01))>>
  @@ Float(1, \h3d800000) :> <<Bracket(Float(1, \h3d782a03), Float(1, \h3d782a02), Float(1, \h3d782a02))>>
  @@ Float(1, \h3d800001) :> <<Bracket(Float(1, \h3d782a04), Float(1, \h3d782a03), Float(1, \h3d782a04))>>
  @@ Float(1, \h3dc1c6cb) :> <<Bracket(Float(1, \h3db8e442), Float(1, \h3db8e441), Float(1, \h3db8e442))>>
  @@ Float(1, \h3e35bec5) :> <<Bracket(Float(1, \h3e2687ab), Float(1, \h3e2687aa), Float(1, \h3e2687aa))>>
  @@ Float(1, \h3f800000) :> <<Bracket(Float(1, \h3f21d2a8), Float(1, \h3f21d2a7), Float(1, \h3f21d2a7))>>
  @@ Float(1, \h418aa122) :> <<Bracket(Float(1, \h3f800000), Float(1, \h3f7fffff), Float(1, \h3f7fffff))>>
  @@ Float(1, \h418aa123) :> <<Bracket(Float(1, \h3f800000), Float(1, \h3f7fffff), Float(1, \h3f800000))>>
  @@ Float(1, \h418aa124) :> <<Bracket(Float(1, \h3f800000), Float(1, \h3f7fffff), Float(1, \h3f800000))>>
  @@ Float(1, \h42b17218) :> <<Bracket(Float(1, \h3f800000), Float(1, \h3f7fffff), Float(1, \h3f800000))>>
  @@ Float(1, \h42b1ffff) :> <<Bracket(Float(1, \h3f800000), Float(1, \h3f7fffff), Float(1, \h3f800000))>>
  @@ Float(1, \h42b20000) :> <<Bracket(Float(1, \h3f800000), Float(1, \h3f7fffff), Float(1, \h3f800000))>>
  @@ Float(1, \h42b20001) :> <<Bracket(Float(1, \h3f800000), Float(1, \h3f7fffff), Float(1, \h3f800000))>>
  @@ Float(1, \h7f7fffff) :> <<Bracket(Float(1, \h3f800000), Float(1, \h3f7fffff), Float(1, \h3f800000))>>
  @@ Float(1, \h7f800000) :> <<Bracket(Float(1, \h3f800000), Float(1, \h3f800000), Float(1, \h3f800000))>>
  @@ Float(1, \h7fa00000) :> <<NaNResult>>
  @@ Float(1, \h7fc00000) :> <<NaNResult>>


MC_Exact ==
  [fn \in Functions |->
     CASE fn = "expf"       -> Ref_expf
       [] fn = "exp2f"      -> Ref_exp2f
       [] fn = "expm1f"     -> Ref_expm1f
       [] fn = "expm1f_alt" -> Ref_expm1f_alt
       [] fn = "sincosf"    -> Ref_sincosf]

MC_Inputs == [fn \in Functions |-> DOMAIN MC_Exact[fn]]

=============================================================================
