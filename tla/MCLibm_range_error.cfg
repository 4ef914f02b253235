CONSTANTS
  Inputs <- MC_Inputs
  Exact <- MC_Exact
  HasFMA = TRUE
SPECIFICATION Spec
INVARIANT RangeErrorReported
