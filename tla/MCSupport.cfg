\* Every call of the support code and string functions, checked on return.
CONSTANTS
  Types <- MC_Types
  Bases <- MC_Bases
  Values <- MC_Values
  IntmaxBits = 64
  W = 4
  L = 2
  Impls = {"generic", "builtin"}
  Cap = 4
  SrcCap = 3
  Bytes = {0, 1, 2}
SPECIFICATION Spec
INVARIANTS ConvertCorrect MultiwordCorrect StrcatCorrect
