--------------------------- MODULE IntegerToString ---------------------------
(***************************************************************************)
(* IntegerToString (src/__support/integer_to_string.h, unnamed/part_007):  *)
(* convert<BASE>(val, buffer, lowercase) writes the digits of val in BASE  *)
(* backwards from the end of buffer, with a '-' before them for a         *)
(* negative val, and returns a view of them; it returns an empty optional *)
(* when buffer is shorter than bufsize<BASE, T>().                        *)
(*                                                                         *)
(* Characters are their ASCII codes.  Integer types are records of their  *)
(* width and signedness; intmax_t is IntmaxBits wide.  A caller converts  *)
(* one value of a type with a buffer of some size; result is what the     *)
(* call returns: "nullopt", the view, or "oob" if a write fell before the *)
(* buffer, or "trap" for a build that traps on signed overflow.           *)
(***************************************************************************)
EXTENDS Integers, Sequences

CONSTANTS
  Types,       \* the integer types T, as [bits, signed]
  Bases,       \* the BASE template arguments, within 2 .. 36
  Values,      \* Values[T]: the arguments of type T converted
  IntmaxBits   \* the width of intmax_t

ASSUME Bases \subseteq 2 .. 36

\* '0', '-', 'a' and 'A'
ZERO == 48
MINUS == 45
LOWER_A == 97
UPPER_A == 65

\* The results of a call.
Str(s) == [kind |-> "view", view |-> s]
Oob == [kind |-> "oob", view |-> <<>>]
Nullopt == [kind |-> "nullopt", view |-> <<>>]
Trap == [kind |-> "trap", view |-> <<>>]

RECURSIVE floor_log_2(_)
\* for (; num > 1; num /= 2) ++i;
floor_log_2(num) == IF num > 1 THEN 1 + floor_log_2(num \div 2) ELSE 0

\* Mutation of bufsize: (sizeof(T) * 5) / 2 for base 10, without the + 1.
bufsize_no_ceil(BASE, T) ==
  LET sizeof == T.bits \div 8
  IN (IF T.signed THEN 1 ELSE 0) +
     (IF BASE = 10 THEN (sizeof * 5) \div 2
      ELSE (sizeof * 8 + (floor_log_2(BASE) - 1)) \div floor_log_2(BASE))

bufsize(BASE, T) ==
  LET sizeof == T.bits \div 8
      BITS_PER_DIGIT == floor_log_2(BASE)
      BUFSIZE_COMMON == (sizeof * 8 + (BITS_PER_DIGIT - 1)) \div BITS_PER_DIGIT
      BUFSIZE_BASE10 == (sizeof * 5 + 1) \div 2
  IN (IF T.signed THEN 1 ELSE 0) +
     (IF BASE = 10 THEN BUFSIZE_BASE10 ELSE BUFSIZE_COMMON)

\* digit < 10 ? digit + '0' : digit + a - 10
DigitChar(digit, lowercase) ==
  IF digit < 10 THEN digit + ZERO
  ELSE digit + (IF lowercase THEN LOWER_A ELSE UPPER_A) - 10

RECURSIVE Fill(_, _, _, _, _)
\* The for loop of convert_uintmax: buffer[buffptr - 1] = digit, from the
\* end of the buffer down; tail is what it has written so far.
Fill(uval, buffptr, tail, lowercase, base) ==
  IF uval = 0 THEN [buffptr |-> buffptr, view |-> tail]
  ELSE Fill(uval \div base, buffptr - 1,
            <<DigitChar(uval % base, lowercase)>> \o tail, lowercase, base)

\* A view of len characters ending at the buffer's end, "oob" if the
\* writes started before index 0.
View(buffptr, s) == IF buffptr >= 0 THEN Str(s) ELSE Oob

convert_uintmax(uval, size, lowercase, base) ==
  LET r == IF uval = 0 THEN [buffptr |-> size - 1, view |-> <<ZERO>>]
           ELSE Fill(uval, size, <<>>, lowercase, base)
  IN View(r.buffptr, r.view)

\* The possible results: -val overflows intmax_t for val = INTMAX_MIN,
\* undefined behaviour that wraps to val itself (whose uintmax_t value is
\* 2^(IntmaxBits-1)) or traps, depending on the build.
\* val = INTMAX_MIN; no modelled value reaches a 64-bit intmax_t's minimum.
IsIntmaxMin(val) == IntmaxBits < 31 /\ val = -(2 ^ (IntmaxBits - 1))

convert_intmax(val, size, lowercase, base) ==
  IF val >= 0 THEN {convert_uintmax(val, size, lowercase, base)}
  ELSE LET wrapped == -val    \* uintmax_t(-val), wrapped or exact
           str_view == convert_uintmax(wrapped, size, lowercase, base)
           len == Len(str_view.view) + 1
           ok == IF str_view = Oob \/ size - len < 0 THEN Oob
                 ELSE Str(<<MINUS>> \o str_view.view)
       IN IF IsIntmaxMin(val) THEN {ok, Trap} ELSE {ok}

convert(BASE, T, val, size, lowercase) ==
  IF size < bufsize(BASE, T) THEN {Nullopt}
  ELSE IF T.signed THEN convert_intmax(val, size, lowercase, BASE)
  ELSE {convert_uintmax(val, size, lowercase, BASE)}

(***************************************************************************)
(* The reference: the sign and the digits of |val| in base b, most        *)
(* significant first, '0'-'9' then 'a'-'z' (or 'A'-'Z').                  *)
(***************************************************************************)
RECURSIVE RefDigits(_, _)
RefDigits(n, b) == IF n < b THEN <<n>> ELSE RefDigits(n \div b, b) \o <<n % b>>

RefString(val, b, lowercase) ==
  LET ds == RefDigits(IF val < 0 THEN -val ELSE val, b)
      ch(d) == IF d <= 9 THEN ZERO + d
               ELSE (IF lowercase THEN LOWER_A ELSE UPPER_A) + (d - 10)
  IN (IF val < 0 THEN <<MINUS>> ELSE <<>>) \o [i \in DOMAIN ds |-> ch(ds[i])]

VARIABLES call, result

\* No call in progress; a call is a record tagged with its function.
NoCall == [fn |-> "none"]
Init == call = NoCall /\ result = Nullopt

\* One call convert<BASE>(val, buffer, lowercase) with buffer of size
\* bufsize<BASE, T>() or one less.
Convert ==
  /\ call = NoCall
  /\ \E T \in Types, BASE \in Bases, lowercase \in BOOLEAN :
      \E val \in Values[T], size \in {bufsize(BASE, T) - 1, bufsize(BASE, T)} :
        /\ call' = [fn |-> "convert", T |-> T, base |-> BASE, val |-> val,
                    size |-> size, lowercase |-> lowercase]
        /\ result' \in convert(BASE, T, val, size, lowercase)

\* The caller uses the view and makes its next call.
Return == call /= NoCall /\ call' = NoCall /\ result' = Nullopt

Spec == Init /\ [][Convert \/ Return]_<<call, result>>

-----------------------------------------------------------------------------
\* A buffer of bufsize<BASE, T>() characters always suffices and a shorter
\* one is refused; the view returned is then the string of val in BASE: no
\* write lands before the buffer, and no build outcome differs.
ConvertCorrect ==
  call.fn = "convert" =>
    IF call.size < bufsize(call.base, call.T) THEN result = Nullopt
    ELSE result = Str(RefString(call.val, call.base, call.lowercase))

=============================================================================
