CONSTANTS
  Threads = {t1, t2}
  NoThread = NoThread
  NL = NL
  nullptr = nullptr
  MaxCalls = 2
  MaxErrors = 1
  Input <- MC_Input
  Counts <- MC_Counts
SPECIFICATION Spec
PROPERTY NullOnlyForOwnFailure
CHECK_DEADLOCK FALSE
