-------------------------- MODULE MCRangeReduction --------------------------
(***************************************************************************)
(* RangeReduction with a 10-bit significand: |x| < 2 covers hi in -2 .. 1 *)
(* and every mid, and the smallest binades of the expf and exp2f domain    *)
(* include the arguments just below 2^-(K+1) where x * 2^K + 0.5 rounds.   *)
(***************************************************************************)
EXTENDS RangeReduction

MC_P == 10
MC_HIEXP == 1

=============================================================================
