CONSTANTS
  P <- MC_P
  HIEXP <- MC_HIEXP
  Variants = {"expm1f", "expm1f_alt"}
SPECIFICATION Spec
INVARIANTS
  TypeOK
  ExactReduction
  LoInFitInterval
