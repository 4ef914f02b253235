----------------------------- MODULE FgetsAtomic -----------------------------
(***************************************************************************)
(* What fgets(str, count, stream) promises its callers, as one atomic step *)
(* per call: it takes from the stream the bytes up to and including the    *)
(* first newline, at most count - 1 of them, and stops early only when a   *)
(* read fails (end of file or an I/O error, which set the stream's sticky  *)
(* eof and error flags).  It returns those bytes, or nullptr when the      *)
(* stream's error flag is set or nothing was read at end of file.         *)
(***************************************************************************)
EXTENDS Integers, Sequences

CONSTANTS
  Threads,   \* the threads calling fgets on the one stream
  Input,     \* the bytes the stream delivers, a sequence
  Counts,    \* the count arguments the calls are made with
  NL,        \* the byte '\n'
  nullptr

VARIABLES
  input,   \* the bytes the stream has not yet delivered
  eof,     \* the stream's sticky end-of-file flag
  err,     \* the stream's sticky error flag
  ret      \* ret[t]: what thread t's last fgets returned

vars == <<input, eof, err, ret>>

\* The loop of fgets goes on reading after k bytes s[1..k] have been taken.
Continues(s, count, k) == k < count - 1 /\ (k = 0 \/ s[k] /= NL)

\* The loop went on after each of the first k bytes: k bytes can be taken.
CanTake(s, count, k) == \A j \in 0 .. k - 1 : Continues(s, count, j)

Fgets(t, count) ==
  IF count < 1
  THEN /\ ret' = [ret EXCEPT ![t] = nullptr]
       /\ UNCHANGED <<input, eof, err>>
  ELSE \E k \in 0 .. Len(input), why \in {"done", "eof", "error"} :
         /\ CanTake(input, count, k)
         /\ why = "done"  => ~Continues(input, count, k)
         /\ why = "eof"   => Continues(input, count, k) /\ k = Len(input)
         /\ why = "error" => Continues(input, count, k)
         /\ input' = SubSeq(input, k + 1, Len(input))
         /\ eof' = (eof \/ why = "eof")
         /\ err' = (err \/ why = "error")
         /\ ret' = [ret EXCEPT ![t] = IF err' \/ (k = 0 /\ eof')
                                      THEN nullptr ELSE SubSeq(input, 1, k)]

Init ==
  /\ input = Input /\ eof = FALSE /\ err = FALSE
  /\ ret = [t \in Threads |-> nullptr]

Next == \E t \in Threads, n \in Counts : Fgets(t, n)

Spec == Init /\ [][Next]_vars

=============================================================================
