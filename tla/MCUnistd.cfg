\* One thread, two handlers, EBADF and EIO as the syscalls' other errors,
\* pwrite of up to 2 bytes, and up to 2 signals delivered.
CONSTANTS
  Handlers = {h1, h2}
  SIG_DFL = SIG_DFL
  SIG_ERR = SIG_ERR
  Errs = {5, 9}
  Count = 2
  MaxSignals = 2
SPECIFICATION Spec
INVARIANTS TypeOK
