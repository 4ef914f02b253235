\* IntegerToString on intmax_t scaled to 16 bits, its minimum included.
CONSTANTS
  Types <- MC_Types_intmax
  Bases <- MC_Bases
  Values <- MC_Values
  IntmaxBits = 16
  W = 4
  L = 2
  Impls = {"generic", "builtin"}
  Cap = 4
  SrcCap = 3
  Bytes = {0, 1, 2}
SPECIFICATION Spec
INVARIANT ConvertCorrect
