CONSTANTS
  m1 = m1
  Merchants = {m1, m2}
  Splits = {s1, s2}
  Owner <- MCOwner
  Gui = gui
  Routines = {r1}
  NoMerchant = NoMerchant
  NoSplit = NoSplit
SPECIFICATION Spec
INVARIANTS
  OfferedIsActive
  PastPendingHasManager
PROPERTIES
  StateClimbs
SYMMETRY Symmetry
