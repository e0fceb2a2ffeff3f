CONSTANTS
  Runs = {r1, r2, r3}
  Mgr = {m1, m2, m3}
  Foreign = Foreign
  NoMgr = NoMgr
SPECIFICATION Spec
INVARIANTS
  IInv
  ManagersAgree
  ReportedIsMined
  RegisteredHasShare
SYMMETRY Symmetry
CHECK_DEADLOCK FALSE
