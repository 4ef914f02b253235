CONSTANTS
  Inputs <- MC_Inputs
  Exact <- MC_Exact
  HasFMA = TRUE
SPECIFICATION Spec
INVARIANTS
  TypeOK
  SpecialPathCorrectlyRounded
  ErrorSignalOnlyForErrors
  IndexInTable
  IndexNearArgument
