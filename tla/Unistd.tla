-------------------------------- MODULE Unistd --------------------------------
(***************************************************************************)
(* The syscall wrappers pwrite and fchdir (src/unistd/linux/pwrite.cpp),  *)
(* madvise, fchmod and geteuid, and signal (src/signal/linux/signal.cpp)   *)
(* on one thread, with a signal that may arrive while pwrite waits in the *)
(* kernel.                                                                 *)
(*                                                                         *)
(* A wrapper makes one syscall; a negative return -e becomes errno = e    *)
(* and -1.  signal(signum, handler) installs the handler through           *)
(* sigaction with SA_RESTART and returns the old handler, or SIG_ERR.     *)
(* The kernel is not in the repository; it is modelled from POSIX: a      *)
(* syscall completes with a count or fails with an error code, sigaction  *)
(* may fail with EINVAL, and a caught signal that interrupts a blocked     *)
(* pwrite restarts it if the handler has SA_RESTART and otherwise makes    *)
(* it fail with EINTR.  The program may also install a handler through    *)
(* sigaction directly, without SA_RESTART.                                *)
(***************************************************************************)
EXTENDS Integers

CONSTANTS
  Handlers,     \* the program's signal handlers
  SIG_DFL,      \* the default disposition (the signal is ignored)
  SIG_ERR,
  Errs,         \* error codes a syscall may return, besides EINTR
  Count,        \* bytes each pwrite asks for
  MaxSignals    \* signals delivered in a run

EINTR == 4
EINVAL == 22

VARIABLES
  errno,     \* the thread's errno
  action,    \* the signal's disposition: [handler, restart]
  pc,        \* "idle", or "pwrite" while pwrite is in the kernel
  last,      \* [fn, val]: the last wrapper call and what it returned
  signals,   \* signals delivered so far
  installed_by  \* history: the call that installed the current handler

vars == <<errno, action, pc, last, signals, installed_by>>

\* Mutation of Wrap: errno = ret, the syscall's negative code stored as is.
Wrap_no_negate(fn, ret, okval) ==
  /\ errno' = IF ret < 0 THEN ret ELSE errno
  /\ last' = [fn |-> fn, val |-> IF ret < 0 THEN -1 ELSE okval]

\* The wrappers' common tail: if (ret < 0) { errno = -ret; return -1; }
\* otherwise the success value.
Wrap(fn, ret, okval) ==
  /\ errno' = IF ret < 0 THEN -ret ELSE errno
  /\ last' = [fn |-> fn, val |-> IF ret < 0 THEN -1 ELSE okval]

Init ==
  /\ errno = 0
  /\ action = [handler |-> SIG_DFL, restart |-> FALSE]
  /\ pc = "idle"
  /\ last = [fn |-> "none", val |-> 0]
  /\ signals = 0
  /\ installed_by = "none"

\* signal(signum, handler): sigaction(signum, {handler, SA_RESTART}, &old)
\* == -1 ? SIG_ERR : old.sa_handler.  sigaction sets errno when it fails.
signal(handler) ==
  /\ pc = "idle"
  /\ \/ /\ action' = [handler |-> handler, restart |-> TRUE]
        /\ last' = [fn |-> "signal", val |-> action.handler]
        /\ installed_by' = "signal"
        /\ UNCHANGED errno
     \/ /\ errno' = EINVAL /\ last' = [fn |-> "signal", val |-> SIG_ERR]
        /\ UNCHANGED <<action, installed_by>>
  /\ UNCHANGED <<pc, signals>>

\* The program's own sigaction(signum, {handler, 0}, ...), which succeeds.
sigaction(handler) ==
  /\ pc = "idle"
  /\ action' = [handler |-> handler, restart |-> FALSE]
  /\ installed_by' = "sigaction"
  /\ UNCHANGED <<errno, pc, last, signals>>

\* pwrite(fd, buf, count, offset): syscall_impl(SYS_pwrite64, ...) blocks.
pwrite_call ==
  /\ pc = "idle" /\ pc' = "pwrite"
  /\ UNCHANGED <<errno, action, last, signals, installed_by>>

\* The syscall returns a count or -e, and pwrite returns ret or -1.
pwrite_return ==
  /\ pc = "pwrite" /\ pc' = "idle"
  /\ \E ret \in (0 .. Count) \cup {-e : e \in Errs} : Wrap("pwrite", ret, ret)
  /\ UNCHANGED <<action, signals, installed_by>>

\* A signal arrives while pwrite is blocked and its handler runs: the
\* kernel restarts the syscall under SA_RESTART, and otherwise returns
\* -EINTR, which pwrite turns into errno = EINTR and -1.
deliver ==
  /\ pc = "pwrite" /\ action.handler /= SIG_DFL /\ signals < MaxSignals
  /\ signals' = signals + 1
  /\ IF action.restart
     THEN UNCHANGED <<pc, errno, last>>
     ELSE pc' = "idle" /\ Wrap("pwrite", -EINTR, 0)
  /\ UNCHANGED <<action, installed_by>>

\* fchdir(fd): syscall_impl(SYS_fchdir, fd), 0 on success.
fchdir ==
  /\ pc = "idle"
  /\ \E ret \in {0} \cup {-e : e \in Errs} : Wrap("fchdir", ret, 0)
  /\ UNCHANGED <<action, pc, signals, installed_by>>

\* madvise(addr, size, advice): syscall_impl(SYS_madvise, ...), 0 on success.
madvise ==
  /\ pc = "idle"
  /\ \E ret \in {0} \cup {-e : e \in Errs} : Wrap("madvise", ret, 0)
  /\ UNCHANGED <<action, pc, signals, installed_by>>

\* fchmod(fd, mode): syscall(SYS_fchmod, fd, mode), 0 on success.
fchmod ==
  /\ pc = "idle"
  /\ \E ret \in {0} \cup {-e : e \in Errs} : Wrap("fchmod", ret, 0)
  /\ UNCHANGED <<action, pc, signals, installed_by>>

\* The effective user ids the process may run with.
Uids == {0, 1000}

\* geteuid(): return syscall(SYS_geteuid).  The syscall cannot fail, and
\* the wrapper neither tests the result nor touches errno.
geteuid ==
  /\ pc = "idle"
  /\ \E uid \in Uids : last' = [fn |-> "geteuid", val |-> uid]
  /\ UNCHANGED <<errno, action, pc, signals, installed_by>>

Next ==
  \/ \E h \in Handlers : signal(h) \/ sigaction(h)
  \/ pwrite_call \/ pwrite_return \/ deliver \/ fchdir
  \/ madvise \/ fchmod \/ geteuid

Spec == Init /\ [][Next]_vars

-----------------------------------------------------------------------------
\* errno holds 0 or an error code, never a negated one; a wrapper's
\* result is -1, a count, 0 or a handler.
TypeOK ==
  /\ errno \in {0, EINTR, EINVAL} \cup Errs
  /\ action \in [handler : Handlers \cup {SIG_DFL}, restart : BOOLEAN]
  /\ pc \in {"idle", "pwrite"}
  /\ last.val \in {-1} \cup 0 .. Count \cup Uids \cup Handlers \cup {SIG_DFL, SIG_ERR}

=============================================================================
