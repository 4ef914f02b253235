------------------------------ MODULE StringOps ------------------------------
(***************************************************************************)
(* strcat (src/string/strcat.cpp) and mempcpy (src/string/mempcpy.cpp,    *)
(* kept in src/fenv/fegetenv.h) on byte buffers.                           *)
(*                                                                         *)
(* A buffer of n bytes is a function from the C indices 0 .. n-1 to bytes, *)
(* NUL being 0.  The helpers internal::string_length, strcpy and           *)
(* inline_memcpy are not in the repository; they are modelled from their   *)
(* contracts.  A store that runs past the buffer is recorded as oob, the   *)
(* bytes inside the buffer being written as the code writes them.         *)
(***************************************************************************)
EXTENDS Integers, Sequences

CONSTANTS
  Cap,      \* bytes of the destination buffer
  SrcCap,   \* bytes of the source buffer
  Bytes     \* the byte values, NUL included

NUL == 0

\* internal::string_length(s): the index of the first NUL.
string_length(s) ==
  CHOOSE i \in DOMAIN s : s[i] = NUL /\ \A j \in 0 .. i - 1 : s[j] /= NUL

\* The string s holds: its bytes before the first NUL.
Chars(s) == [j \in 1 .. string_length(s) |-> s[j - 1]]

\* Writing the bytes bs from index at on, into r = [buf, oob].
Store(r, at, bs) ==
  [buf |-> [i \in DOMAIN r.buf |->
              IF at <= i /\ i < at + Len(bs) THEN bs[i - at + 1] ELSE r.buf[i]],
   oob |-> r.oob \/ at + Len(bs) > Cap]

\* strcpy(dest + at, src): src's characters and its NUL.
strcpy(r, at, src) == Store(r, at, Chars(src) \o <<NUL>>)

\* Mutation of strcat: the NUL stored at dest[destLength + srcLength + 1].
strcat_nul_past_end(dest, src) ==
  LET destLength == string_length(dest)
      srcLength == string_length(src)
  IN Store(strcpy([buf |-> dest, oob |-> FALSE], destLength, src),
           destLength + srcLength + 1, <<NUL>>)

\* strcat(dest, src): both lengths, strcpy(dest + destLength, src), then
\* dest[destLength + srcLength] = '\0'; it returns dest.
strcat(dest, src) ==
  LET destLength == string_length(dest)
      srcLength == string_length(src)
  IN Store(strcpy([buf |-> dest, oob |-> FALSE], destLength, src),
           destLength + srcLength, <<NUL>>)

\* mempcpy(dst + off, src, count): inline_memcpy of count bytes, and the
\* pointer just past them, dst + off + count.
mempcpy(dst, off, src, count) ==
  LET r == Store([buf |-> dst, oob |-> FALSE], off, [j \in 1 .. count |-> src[j - 1]])
  IN [buf |-> r.buf, oob |-> r.oob, ptr |-> off + count]

VARIABLES call, result

NoCall == [fn |-> "none"]
Init == call = NoCall /\ result = [buf |-> <<>>, oob |-> FALSE]

\* Buffers of n bytes holding a string: at least one NUL, with any bytes
\* after the first.
Strings(n) == {b \in [0 .. n - 1 -> Bytes] : \E i \in 0 .. n - 1 : b[i] = NUL}

\* strcat(dest, src) for every dest and src buffer holding a string.
CallStrcat ==
  /\ call = NoCall
  /\ \E dest \in Strings(Cap), src \in Strings(SrcCap) :
       /\ call' = [fn |-> "strcat", dest |-> dest, src |-> src]
       /\ result' = strcat(dest, src)

\* mempcpy(dst + off, src, count) for every offset and count.
CallMempcpy ==
  /\ call = NoCall
  /\ \E dst \in [0 .. Cap - 1 -> Bytes], src \in [0 .. SrcCap - 1 -> Bytes],
        off \in 0 .. Cap, count \in 0 .. SrcCap :
       /\ call' = [fn |-> "mempcpy", dst |-> dst, src |-> src, off |-> off,
                   count |-> count]
       /\ result' = mempcpy(dst, off, src, count)

Return == call /= NoCall /\ call' = NoCall /\ result' = [buf |-> <<>>, oob |-> FALSE]

Spec == Init /\ [][CallStrcat \/ CallMempcpy \/ Return]_<<call, result>>

-----------------------------------------------------------------------------
\* strcat stays inside dest exactly when dest has room for both strings
\* and the NUL, and then dest holds their concatenation with the bytes
\* after its terminator untouched.
StrcatCorrect ==
  call.fn = "strcat" =>
    LET need == string_length(call.dest) + string_length(call.src) + 1
    IN /\ result.oob = (need > Cap)
       /\ ~result.oob =>
            /\ Chars(result.buf) = Chars(call.dest) \o Chars(call.src)
            /\ \A i \in need .. Cap - 1 : result.buf[i] = call.dest[i]


=============================================================================
