\* /process on one correlation key in Redis: three concurrent requests.
CONSTANTS
  Requests = {r1, r2, r3}
  Tenants = {t1}
  Ids = {i1}
  Originals = {o1, o2}
  Sensitive = {o1, o2}
  Modes = {"token", "mask"}
  Shape <- AllAlike
  None = None
  Configs <- TokensOnly
  Routes = {"process"}
  Backend = "redis"
  MaxRecords = 1
  MaxLosses = 2
SPECIFICATION Spec
SYMMETRY Symmetry
INVARIANTS OneMaskPerLife RetryIdempotent
PROPERTIES WriteOnce
CHECK_DEADLOCK FALSE
