CONSTANTS
  P <- MC_P
  HIEXP <- MC_HIEXP
  Variants = {"expf", "exp2f"}
SPECIFICATION Spec
INVARIANT ExactReduction
