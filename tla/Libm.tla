-------------------------------- MODULE Libm --------------------------------
(***************************************************************************)
(* A thread calling the math functions under a rounding mode it sets with *)
(* fesetround, with errno and the FE_INVALID flag as the side channels the *)
(* functions write.  Each call is one step: the function runs to its       *)
(* return on the calling thread without suspending (spec section 5), so   *)
(* its whole effect on the environment is one action.                     *)
(*                                                                         *)
(* The general path of each function (range reduction, tables and          *)
(* polynomial) is abstracted to the correctly rounded value of f(x), given *)
(* by the reference Exact; RangeReduction checks its first stage, and a   *)
(* call records the table lookup it makes (TableIndex).                    *)
(***************************************************************************)
EXTENDS Expf, Exp2f, Expm1fAlt, Sincosf, TableIndex, Sequences

CONSTANTS
  Inputs,   \* Inputs[fn]: the arguments a call of fn is made with
  Exact     \* Exact[fn][x]: a Bracket per result of fn(x), or NaNResult

Functions == {"expf", "exp2f", "expm1f", "expm1f_alt", "sincosf"}
Arity(fn) == IF fn = "sincosf" THEN 2 ELSE 1

VARIABLES
  round,   \* the thread's rounding mode, as fputil::get_round() reads it
  errno,   \* the thread's errno: 0 or the last code a function wrote
  flags,   \* the raised floating-point exception flags
  last     \* what the last call returned and wrote

vars == <<round, errno, flags, last>>

NoCall == [fn |-> "none"]

Eval(fn, x, mode) ==
  CASE fn = "expf"       -> expf(x, mode)
    [] fn = "exp2f"      -> exp2f(x, mode)
    [] fn = "expm1f"     -> expm1f(x, mode)
    [] fn = "expm1f_alt" -> expm1f_alt(x, mode)
    [] fn = "sincosf"    -> sincosf(x, mode)

\* The results of a call: the special branch's, or on the general path the
\* correct rounding of each exact result in the current mode.
Outcome(fn, x, mode) ==
  LET r == Eval(fn, x, mode)
  IN IF r.path = "general"
     THEN [r EXCEPT !.out = [i \in DOMAIN Exact[fn][x] |->
                               CorrectlyRounded(Exact[fn][x][i], mode)]]
     ELSE r

\* One call of fn(x): errno is written only when the function writes it,
\* a raised flag stays raised, and the rounding mode is only read.
Call(fn, x) ==
  LET r == Outcome(fn, x, round)
  IN /\ errno' = IF r.err = NoErrno THEN errno ELSE r.err
     /\ flags' = IF r.invalid THEN flags \cup {"FE_INVALID"} ELSE flags
     /\ last' = [fn |-> fn, x |-> x, mode |-> round, out |-> r.out,
                 err |-> r.err, invalid |-> r.invalid, path |-> r.path,
                 tab |-> IF r.path = "general" THEN Lookup(fn, x, round)
                                               ELSE NoTable]
     /\ UNCHANGED round

CallExpf     == \E x \in Inputs["expf"]       : Call("expf", x)
CallExp2f    == \E x \in Inputs["exp2f"]      : Call("exp2f", x)
CallExpm1f   == \E x \in Inputs["expm1f"]     : Call("expm1f", x)
CallExpm1fAlt == \E x \in Inputs["expm1f_alt"] : Call("expm1f_alt", x)
CallSincosf  == \E x \in Inputs["sincosf"]    : Call("sincosf", x)

\* fesetround(m): the caller changes its rounding mode.
fesetround(m) ==
  /\ round' = m
  /\ UNCHANGED <<errno, flags, last>>

\* errno = 0: the caller clears errno before a call whose error it tests.
ClearErrno ==
  /\ errno' = 0
  /\ UNCHANGED <<round, flags, last>>

\* feclearexcept(FE_ALL_EXCEPT).
feclearexcept ==
  /\ flags' = {}
  /\ UNCHANGED <<round, errno, last>>

Init ==
  /\ round = FE_TONEAREST
  /\ errno = 0
  /\ flags = {}
  /\ last = NoCall

Next ==
  \/ CallExpf \/ CallExp2f \/ CallExpm1f \/ CallExpm1fAlt \/ CallSincosf
  \/ \E m \in RoundingModes : fesetround(m)
  \/ ClearErrno
  \/ feclearexcept

Spec == Init /\ [][Next]_vars

-----------------------------------------------------------------------------
Called == last /= NoCall
X == last.x

TypeOK ==
  /\ round \in RoundingModes
  /\ errno \in {0, ERANGE, EDOM}
  /\ flags \subseteq {"FE_INVALID"}
  /\ Called =>
       /\ last.fn \in Functions
       /\ last.x \in Floats
       /\ last.out \in [1 .. Arity(last.fn) -> Floats]
       /\ last.err \in {NoErrno, ERANGE, EDOM}
       /\ last.invalid \in BOOLEAN
       /\ last.path \in {"special", "general"}

\* Every value a special-case branch returns (the tiny-argument identities,
\* the exceptional-input tables, saturation and overflow clamps) is the
\* correctly rounded f(x) in the rounding mode the call ran under.
SpecialPathCorrectlyRounded ==
  Called /\ last.path = "special" =>
    \A i \in 1 .. Arity(last.fn) :
      SameFloat(last.out[i], CorrectlyRounded(Exact[last.fn][X][i], last.mode))

\* errno and FE_INVALID are written only for the errors of the spec's table:
\* ERANGE for a finite argument whose result overflowed to inf or was
\* clamped to zero, EDOM with FE_INVALID for sincosf of an infinity, and
\* FE_INVALID otherwise only for a signalling NaN argument.  A NaN argument
\* never writes errno.
ErrorSignalOnlyForErrors ==
  Called =>
    /\ last.err = ERANGE =>
         /\ ~is_nan(X) /\ ~is_inf(X)
         /\ \A i \in 1 .. Arity(last.fn) : is_inf(last.out[i]) \/ is_zero(last.out[i])
    /\ last.err = EDOM => is_inf(X) /\ last.invalid
    /\ last.invalid => is_inf(X) \/ IsSignalingNaN(X)
    /\ is_nan(X) => last.err = NoErrno

\* A finite nonzero argument whose result overflowed to an infinity or
\* underflowed to zero sets errno to ERANGE (spec section 6), whichever
\* branch of the function produced the result.
RangeErrorReported ==
  Called /\ ~is_nan(X) /\ ~is_inf(X) /\ ~is_zero(X) =>
    ((\E i \in 1 .. Arity(last.fn) :
        is_inf(last.out[i]) \/ is_zero(last.out[i])) => last.err = ERANGE)

\* A NaN argument gives quiet NaN results (spec section 4.4, rule 1).
NaNResultIsQuiet ==
  Called /\ is_nan(X) =>
    \A i \in 1 .. Arity(last.fn) : is_nan(last.out[i]) /\ ~IsSignalingNaN(last.out[i])

\* Every table index a general-path call computes is inside its table, for
\* the arguments at the very ends of the range the special branches leave
\* to it: EXP_M1[(x_hi + (104 << 7)) >> 7] and EXP_M2[... & 0x7f] for expf
\* and both expm1f, EXP_M[x_hi & 0x3f] for exp2f, whose 2^hi is built from
\* the exponent field (x_hi >> 6) + 1023, which must be a normal double's.
IndexInTable ==
  Called /\ last.tab.used =>
    IF last.fn = "exp2f"
    THEN last.tab.hi \in 1 .. MAX_EXPONENT /\ last.tab.mid \in 0 .. EXP_M_SIZE - 1
    ELSE last.tab.hi \in 0 .. EXP_M1_SIZE - 1 /\ last.tab.mid \in 0 .. EXP_M2_SIZE - 1

\* hi and mid, read back as the value 2^hi * 2^(mid * 2^-K) stands for,
\* are within one step 2^-K of the argument: |N - x * 2^K| < 1 with
\* N = (hi - base) * 2^K + mid.  This ties the shift and the mask of the
\* negative x_hi of exp2f, and the rounding of x * 2^K +- 0.5 in every
\* mode, to x itself.  x * 2^K is v units of 2^-d; for d >= 24 it is a
\* nonzero fraction of x's sign, and N must be 0 or that sign.
IndexNearArgument ==
  Called /\ last.tab.used =>
    LET base == IF last.fn = "exp2f" THEN EXPONENT_BIAS ELSE 104
        n == (last.tab.hi - base) * 2 ^ KBits(last.fn) + last.tab.mid
        d == Den(last.fn, X)
        v == Signed(X, Sig(X))
    IN IF d >= 24 THEN n \in {0, Signed(X, 1)}
       ELSE /\ n * Signed(X, 1) \in -1 .. 2 ^ (24 - d) + 1
            /\ n * 2 ^ d - v \in -(2 ^ d) + 1 .. 2 ^ d - 1

=============================================================================
