\* All routes on one correlation key in Redis: two concurrent requests.
CONSTANTS
  Requests = {r1, r2}
  Tenants = {t1}
  Ids = {i1}
  Originals = {o1, o2}
  Sensitive = {o1, o2}
  Modes = {"token", "mask"}
  Shape <- AllAlike
  None = None
  Configs <- TokensThenMask
  Routes = {"process", "mask", "unmask"}
  Backend = "redis"
  MaxRecords = 1
  MaxLosses = 1
SPECIFICATION Spec
SYMMETRY Symmetry
INVARIANTS TypeOK RoundTrip
PROPERTIES ImplementsCorrelation
CHECK_DEADLOCK FALSE
