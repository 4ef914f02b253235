------------------------------ MODULE FileStream ------------------------------
(***************************************************************************)
(* fgets (src/stdio/fgets.cpp) called by several threads on one stream.    *)
(* A call takes the stream's lock, reads byte by byte with                 *)
(* read_unlocked until it has count - 1 bytes, a newline, or a failed     *)
(* read, samples the sticky error and eof flags, unlocks, and decides its  *)
(* result from the sampled flags.                                         *)
(*                                                                         *)
(* The File object is not in the repository; its operations are modelled  *)
(* from its interface: lock/unlock is a mutex, read_unlocked(&c, 1)        *)
(* returns 1 with the next byte, or 0 after setting eof (no bytes left)    *)
(* or error (an I/O error, which may strike any read and does not stop    *)
(* later reads from succeeding).  The flags are sticky: nothing here       *)
(* clears them.                                                            *)
(***************************************************************************)
EXTENDS Integers, Sequences

CONSTANTS
  Threads,    \* the threads calling fgets
  NoThread,   \* the lock's owner when it is free
  Input,      \* the bytes the stream delivers
  Counts,     \* the count arguments the calls are made with
  NL,         \* the byte '\n'
  nullptr,
  MaxCalls,   \* calls per thread
  MaxErrors   \* I/O errors the stream may suffer

VARIABLES
  input,    \* File: bytes not yet delivered
  eof,      \* File: sticky end-of-file flag
  err,      \* File: sticky error flag
  owner,    \* File: the thread holding the stream's lock
  errors,   \* I/O errors so far
  pc,       \* pc[t]: "idle", "lock" (waiting for it), "loop", or "eof" /
            \* "error" after a read returned 0 for that reason
  count,    \* count[t]: the argument of t's call
  str,      \* str[t]: the bytes t's call stored, str[0 .. i-1]
  ret,      \* ret[t]: what t's last call returned
  calls,    \* calls[t]: calls made by t
  snap      \* history: the flags as the lock holder found them

vars == <<input, eof, err, owner, errors, pc, count, str, ret, calls, snap>>

\* c: the last byte read, '\0' before the first (unsigned char c = '\0').
c(t) == IF str[t] = <<>> THEN "NUL" ELSE str[t][Len(str[t])]

\* Mutation of LoopCond: i <= count - 1, one byte too many.
LoopCond_off_by_one(t) == Len(str[t]) <= count[t] - 1 /\ c(t) /= NL

\* The condition of the for loop, i < count - 1 && c != '\n', with i the
\* number of bytes stored.
LoopCond(t) == Len(str[t]) < count[t] - 1 /\ c(t) /= NL

Init ==
  /\ input = Input /\ eof = FALSE /\ err = FALSE
  /\ owner = NoThread /\ errors = 0
  /\ pc = [t \in Threads |-> "idle"]
  /\ count = [t \in Threads |-> 0]
  /\ str = [t \in Threads |-> <<>>]
  /\ ret = [t \in Threads |-> nullptr]
  /\ calls = [t \in Threads |-> 0]
  /\ snap = [eof |-> FALSE, err |-> FALSE]

\* fgets entry: if (count < 1) return nullptr; otherwise stream->lock().
fgets(t, n) ==
  /\ pc[t] = "idle" /\ calls[t] < MaxCalls
  /\ calls' = [calls EXCEPT ![t] = @ + 1]
  /\ count' = [count EXCEPT ![t] = n]
  /\ str' = [str EXCEPT ![t] = <<>>]
  /\ IF n < 1
     THEN /\ ret' = [ret EXCEPT ![t] = nullptr]
          /\ UNCHANGED pc
     ELSE /\ pc' = [pc EXCEPT ![t] = "lock"]
          /\ UNCHANGED ret
  /\ UNCHANGED <<input, eof, err, owner, errors, snap>>

\* Mutation of lock: the stream is read without waiting for the lock.
lock_no_wait(t) ==
  /\ pc[t] = "lock"
  /\ owner' = t
  /\ pc' = [pc EXCEPT ![t] = "loop"]
  /\ snap' = [eof |-> eof, err |-> err]
  /\ UNCHANGED <<input, eof, err, errors, count, str, ret, calls>>

\* stream->lock() returns once the lock is free.
lock(t) ==
  /\ pc[t] = "lock" /\ owner = NoThread
  /\ owner' = t
  /\ pc' = [pc EXCEPT ![t] = "loop"]
  /\ snap' = [eof |-> eof, err |-> err]
  /\ UNCHANGED <<input, eof, err, errors, count, str, ret, calls>>

\* One iteration: read_unlocked(&c, 1); if (r != 1) break; str[i] = c.
read_unlocked(t) ==
  /\ pc[t] = "loop" /\ LoopCond(t)
  /\ \/ /\ input /= <<>>
        /\ str' = [str EXCEPT ![t] = Append(@, Head(input))]
        /\ input' = Tail(input)
        /\ UNCHANGED <<eof, err, errors, pc>>
     \/ /\ input = <<>>
        /\ eof' = TRUE
        /\ pc' = [pc EXCEPT ![t] = "eof"]
        /\ UNCHANGED <<input, err, errors, str>>
     \/ /\ errors < MaxErrors
        /\ err' = TRUE /\ errors' = errors + 1
        /\ pc' = [pc EXCEPT ![t] = "error"]
        /\ UNCHANGED <<input, eof, str>>
  /\ UNCHANGED <<owner, count, ret, calls, snap>>

\* Mutation of unlock: if (has_error) return nullptr; before the unlock.
unlock_skipped_on_error(t) ==
  /\ \/ pc[t] = "loop" /\ ~LoopCond(t)
     \/ pc[t] \in {"eof", "error"}
  /\ owner' = IF err THEN owner ELSE NoThread
  /\ ret' = [ret EXCEPT ![t] = IF err \/ (str[t] = <<>> /\ eof)
                              THEN nullptr ELSE str[t]]
  /\ pc' = [pc EXCEPT ![t] = "idle"]
  /\ UNCHANGED <<input, eof, err, errors, count, str, calls, snap>>

\* Lines 37-47: has_error and has_eof are sampled under the lock, the lock
\* is released, and nullptr is returned if has_error || (i == 0 && has_eof);
\* otherwise str is terminated and returned.
unlock(t) ==
  /\ \/ pc[t] = "loop" /\ ~LoopCond(t)
     \/ pc[t] \in {"eof", "error"}
  /\ owner' = NoThread
  /\ ret' = [ret EXCEPT ![t] = IF err \/ (str[t] = <<>> /\ eof)
                              THEN nullptr ELSE str[t]]
  /\ pc' = [pc EXCEPT ![t] = "idle"]
  /\ UNCHANGED <<input, eof, err, errors, count, str, calls, snap>>

Next ==
  \E t \in Threads :
    \/ \E n \in Counts : fgets(t, n)
    \/ lock(t)
    \/ read_unlocked(t)
    \/ unlock(t)

\* A thread that is runnable is eventually scheduled; callers need not call.
Fairness ==
  \A t \in Threads : WF_vars(lock(t)) /\ WF_vars(read_unlocked(t)) /\ WF_vars(unlock(t))

Spec == Init /\ [][Next]_vars /\ Fairness

-----------------------------------------------------------------------------
Bytes == {Input[j] : j \in DOMAIN Input}

\* The terminating '\0', stored at str[i], lies in the count-byte buffer.
TypeOK ==
  /\ owner \in Threads \cup {NoThread}
  /\ pc \in [Threads -> {"idle", "lock", "loop", "eof", "error"}]
  /\ \A t \in Threads :
       /\ str[t] \in Seq(Bytes)
       /\ Len(str[t]) <= IF count[t] >= 1 THEN count[t] - 1 ELSE 0
       /\ ret[t] = nullptr \/ ret[t] \in Seq(Bytes)

(***************************************************************************)
(* Refinement: with the lock held from the first read to the sampling of  *)
(* the flags, the calls of all threads are the atomic calls of            *)
(* FgetsAtomic, taking effect when the lock is released.  Until then the  *)
(* bytes the holder has read still count as the stream's, and the flags   *)
(* are those it found when it took the lock.                              *)
(***************************************************************************)
Held == owner /= NoThread
Atomic == INSTANCE FgetsAtomic WITH
  input <- IF Held THEN str[owner] \o input ELSE input,
  eof   <- IF Held THEN snap.eof ELSE eof,
  err   <- IF Held THEN snap.err ELSE err

\* Every interleaving of the threads' reads is a sequence of whole-line
\* fgets calls: no call's bytes are interleaved with another's, no byte is
\* lost or delivered twice, and each result is what an atomic call on the
\* stream as it then was would return.
FgetsRefinement == Atomic!Spec

\* Every fgets call that waits for the stream's lock eventually returns,
\* whatever the other threads do with the stream.
EveryCallReturns == \A t \in Threads : pc[t] = "lock" ~> pc[t] = "idle"

\* fgets returns nullptr only for a read error during this call, or for
\* end of file met before any byte was read (C11 7.21.7.2).  The code
\* tests the sticky flags, which an earlier call may have set.
NullOnlyForOwnFailure ==
  [][\A t \in Threads :
       (unlock(t) /\ ret'[t] = nullptr) =>
         (pc[t] = "error" \/ (pc[t] = "eof" /\ str[t] = <<>>))]_vars

=============================================================================
