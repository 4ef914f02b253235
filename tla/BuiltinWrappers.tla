--------------------------- MODULE BuiltinWrappers ---------------------------
(***************************************************************************)
(* builtin_wrappers.h (unnamed/part_008): safe_clz / safe_ctz, which      *)
(* correct the builtin's result at zero, and add_with_carry /              *)
(* sub_with_borrow, the limb steps of multiword arithmetic, in their       *)
(* generic form and in the form using clang's __builtin_addc / subc.      *)
(*                                                                         *)
(* An unsigned type is W bits wide.  __builtin_clz(0) and                 *)
(* __builtin_ctz(0) are undefined: the build may produce any count, which *)
(* the model chooses freely.  Multiword numbers have L limbs, least        *)
(* significant first, and are added or subtracted by chaining the limb    *)
(* step from carry (borrow) 0, as the big-integer code does.              *)
(***************************************************************************)
EXTENDS Integers

CONSTANTS
  W,       \* bits of the unsigned type T
  L,       \* limbs of a multiword number
  Impls    \* the forms compiled: "generic", and "builtin" where
           \* __has_builtin(__builtin_addc) holds

M == 2 ^ W
Limb(x, i) == (x \div (2 ^ (W * i))) % M

\* The counts __builtin_clz / __builtin_ctz can return for val.
RECURSIVE LeadingZeros(_, _)
LeadingZeros(v, n) == IF v >= 2 ^ (n - 1) \/ n = 0 THEN 0 ELSE 1 + LeadingZeros(v, n - 1)
RECURSIVE TrailingZeros(_, _)
TrailingZeros(v, n) == IF n = 0 \/ v % 2 = 1 THEN 0 ELSE 1 + TrailingZeros(v \div 2, n - 1)
Builtin(fn, val) ==
  IF val = 0 THEN 0 .. W
  ELSE {IF fn = "clz" THEN LeadingZeros(val, W) ELSE TrailingZeros(val, W)}

\* correct_zero: sizeof(T) * 8 for val == 0, else the builtin's count.
correct_zero(val, bits) == IF val = 0 THEN W ELSE bits

\* safe_clz(val) / safe_ctz(val), for a count b the builtin produced.
safe_count(val, b) == correct_zero(val, b)

\* Mutation of add_with_carry: carry_out = (sum < b), the carry out of
\* a + carry_in lost.
add_with_carry_one_test(a, b, carry_in) ==
  LET tmp == (a + carry_in) % M
      sum == (b + tmp) % M
  IN [sum |-> sum, carry |-> IF sum < b THEN 1 ELSE 0]

\* T tmp = a + carry_in; T sum = b + tmp;
\* T carry_out = (sum < b) || (tmp < a);
add_with_carry(a, b, carry_in) ==
  LET tmp == (a + carry_in) % M
      sum == (b + tmp) % M
  IN [sum |-> sum, carry |-> IF sum < b \/ tmp < a THEN 1 ELSE 0]

\* T tmp = a - b; T diff = tmp - borrow_in;
\* T borrow_out = (diff > tmp) || (tmp > a);
sub_with_borrow(a, b, borrow_in) ==
  LET tmp == (a - b) % M
      diff == (tmp - borrow_in) % M
  IN [diff |-> diff, borrow |-> IF diff > tmp \/ tmp > a THEN 1 ELSE 0]

\* __builtin_addc(a, b, carry_in, &carry): a + b, then + carry_in, the
\* carry out set if either addition wrapped.
builtin_addc(a, b, carry_in) ==
  LET s1 == a + b
      s2 == (s1 % M) + carry_in
  IN [sum |-> s2 % M, carry |-> IF s1 >= M \/ s2 >= M THEN 1 ELSE 0]

\* __builtin_subc(a, b, borrow_in, &borrow): likewise for a - b - borrow_in.
builtin_subc(a, b, borrow_in) ==
  LET d1 == a - b
      d2 == (d1 % M) - borrow_in
  IN [diff |-> d2 % M, borrow |-> IF d1 < 0 \/ d2 < 0 THEN 1 ELSE 0]

AddStep(impl, a, b, c) ==
  IF impl = "generic" THEN add_with_carry(a, b, c) ELSE builtin_addc(a, b, c)
SubStep(impl, a, b, c) ==
  IF impl = "generic" THEN sub_with_borrow(a, b, c) ELSE builtin_subc(a, b, c)

RECURSIVE AddLimbs(_, _, _, _, _, _)
\* Limbs i .. L-1 of x + y with carry c into limb i; acc holds the lower sum.
AddLimbs(impl, x, y, i, c, acc) ==
  IF i = L THEN [val |-> acc, carry |-> c]
  ELSE LET r == AddStep(impl, Limb(x, i), Limb(y, i), c)
       IN AddLimbs(impl, x, y, i + 1, r.carry, acc + r.sum * 2 ^ (W * i))

RECURSIVE SubLimbs(_, _, _, _, _, _)
SubLimbs(impl, x, y, i, c, acc) ==
  IF i = L THEN [val |-> acc, carry |-> c]
  ELSE LET r == SubStep(impl, Limb(x, i), Limb(y, i), c)
       IN SubLimbs(impl, x, y, i + 1, r.borrow, acc + r.diff * 2 ^ (W * i))

VARIABLES call, result

\* No call in progress; a call is a record tagged with its function.
NoCall == [fn |-> "none"]
Init == call = NoCall /\ result = [val |-> 0, carry |-> 0]

\* safe_clz(val) or safe_ctz(val) for every val and every count the
\* builtin may return.
CallSafeCount ==
  /\ call = NoCall
  /\ \E fn \in {"clz", "ctz"}, val \in 0 .. M - 1 :
       \E b \in Builtin(fn, val) :
         /\ call' = [fn |-> fn, x |-> val, y |-> 0, impl |-> "generic"]
         /\ result' = [val |-> safe_count(val, b), carry |-> 0]

\* A multiword x + y or x - y, limb by limb.
CallMultiword ==
  /\ call = NoCall
  /\ \E fn \in {"add", "sub"}, impl \in Impls, x, y \in 0 .. 2 ^ (W * L) - 1 :
       /\ call' = [fn |-> fn, x |-> x, y |-> y, impl |-> impl]
       /\ result' = IF fn = "add" THEN AddLimbs(impl, x, y, 0, 0, 0)
                    ELSE SubLimbs(impl, x, y, 0, 0, 0)

Return == call /= NoCall /\ call' = NoCall /\ result' = [val |-> 0, carry |-> 0]

Spec == Init /\ [][CallSafeCount \/ CallMultiword \/ Return]_<<call, result>>

-----------------------------------------------------------------------------
\* Chaining the limb step from carry (borrow) 0 computes x + y (x - y)
\* modulo 2^(W*L), with the final carry (borrow) set exactly when the
\* true result does not fit, in both the generic and the builtin form.
MultiwordCorrect ==
  LET R == 2 ^ (W * L)
  IN /\ call.fn = "add" =>
          result = [val |-> (call.x + call.y) % R,
                    carry |-> IF call.x + call.y >= R THEN 1 ELSE 0]
     /\ call.fn = "sub" =>
          result = [val |-> (call.x - call.y) % R,
                    carry |-> IF call.x < call.y THEN 1 ELSE 0]

=============================================================================
