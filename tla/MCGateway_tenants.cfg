\* Two tenants in the memory backend, one record of room, restarts.
CONSTANTS
  Requests = {r1, r2, r3}
  Tenants = {t1, t2}
  Ids = {i1}
  Originals = {o1}
  Sensitive = {o1}
  Modes = {"token", "mask"}
  Shape <- AllAlike
  None = None
  Configs <- Mixed
  Routes = {"process", "unmask"}
  Backend = "memory"
  MaxRecords = 1
  MaxLosses = 1
SPECIFICATION Spec
SYMMETRY Symmetry
INVARIANTS RestoresOwnTextOnly FailClosed
CHECK_DEADLOCK FALSE
