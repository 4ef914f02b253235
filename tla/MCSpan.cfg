CONSTANTS
  N = 14
  W = 5
SPECIFICATION Spec
INVARIANTS TypeOK ViewsReference
