CONSTANTS
  Calls = {c1, c2, c3}
  Ids = {i1, i2}
  NoCall = NoCall
  NoId = NoId
SPECIFICATION Spec
INVARIANTS
  OwnSignature
  PanicOnlyWhenShared
  SignedWasChecked
SYMMETRY Symmetry
CHECK_DEADLOCK FALSE
