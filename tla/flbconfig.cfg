SPECIFICATION Spec
CONSTANTS
  Inputs <- SomeInputs
  MaxLen = 5
INVARIANTS TypeOK NeverUnexpected ParsesTheFormat Lossless
PROPERTIES Returns
CHECK_DEADLOCK FALSE
