\* The second expm1f revision built for a target without FMA.
CONSTANTS
  Inputs <- MC_Inputs
  Exact <- MC_Exact
  HasFMA = FALSE
SPECIFICATION Spec
INVARIANT SpecialPathCorrectlyRounded
