----------------------------- MODULE MCSupport -----------------------------
(***************************************************************************)
(* The support code and string functions as one harness: one call at a    *)
(* time, of IntegerToString, of the builtin wrappers, of strcat or of      *)
(* mempcpy, each checked when it returns.  The components share the call  *)
(* and result variables, so the states are the sum of theirs.             *)
(***************************************************************************)
EXTENDS Integers

CONSTANTS
  Types, Bases, Values, IntmaxBits,   \* IntegerToString
  W, L, Impls,                        \* builtin wrappers
  Cap, SrcCap, Bytes                  \* strcat and mempcpy

VARIABLES call, result

ITS == INSTANCE IntegerToString
BW == INSTANCE BuiltinWrappers
SO == INSTANCE StringOps

int8 == [bits |-> 8, signed |-> TRUE]
uint8 == [bits |-> 8, signed |-> FALSE]
int16 == [bits |-> 16, signed |-> TRUE]
uint16 == [bits |-> 16, signed |-> FALSE]

\* Every value of the 8-bit types; the ends of the 16-bit ones and the
\* values next to them and to zero, where the digit and sign counts peak.
MC_Values ==
  [T \in {int8, uint8, int16, uint16} |->
     IF T.bits = 8
     THEN IF T.signed THEN -128 .. 127 ELSE 0 .. 255
     ELSE IF T.signed THEN {-32768, -32767, -1, 0, 1, 32767}
          ELSE {0, 1, 65534, 65535}]

MC_Types == {int8, uint8, int16, uint16}
\* intmax_t scaled to 16 bits: int16 is intmax_t.
MC_Types_intmax == {int16}
MC_Bases == 2 .. 36

NoCall == [fn |-> "none"]
Init == call = NoCall /\ result = ITS!Nullopt

Return == call /= NoCall /\ call' = NoCall /\ result' = ITS!Nullopt

Next ==
  \/ ITS!Convert
  \/ BW!CallSafeCount \/ BW!CallMultiword
  \/ SO!CallStrcat \/ SO!CallMempcpy
  \/ Return

Spec == Init /\ [][Next]_<<call, result>>

-----------------------------------------------------------------------------
\* IntegerToString yields nullopt exactly when the buffer is too small,
\* and otherwise the digits of the value in the base, sign included.
ConvertCorrect == ITS!ConvertCorrect

\* add_with_carry and sub_with_borrow chained over the limbs compute the
\* multiword sum and difference with the final carry or borrow.
MultiwordCorrect == BW!MultiwordCorrect

\* strcat stays inside dest exactly when dest has room for both strings
\* and the NUL, and then dest holds their concatenation.
StrcatCorrect == SO!StrcatCorrect

=============================================================================
