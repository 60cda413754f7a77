\* A deployment grants the right to restore while records live.
CONSTANTS
  Requests = {r1, r2}
  Tenants = {t1}
  Ids = {i1}
  Originals = {o1, o2}
  Sensitive = {o1, o2}
  Modes = {"token", "mask"}
  Shape <- AllAlike
  None = None
  Configs <- UnmaskGranted
  Routes = {"process"}
  Backend = "redis"
  MaxRecords = 1
  MaxLosses = 1
SPECIFICATION Spec
SYMMETRY Symmetry
INVARIANTS RoundTrip
CHECK_DEADLOCK FALSE
