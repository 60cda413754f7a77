CONSTANTS
  redis1 = redis1
  redis2 = redis2
  sentinel1 = sentinel1
  sentinel2 = sentinel2
  key1 = key1
  key2 = key2
  key3 = key3
  textA = textA
  textB = textB
  RedisNodes <- MCRedisNodes
  SentinelNodes <- MCSentinelNodes
  VaultKeys = {key1, key2, key3}
  Originals = {textA, textB}
  Broken = Broken
  Absent = Absent
  BatchSize = 2
  max_bytes = 2
  LineSize <- MCLineSize
  max_session_records = 2
  Invocations = {1, 2, 3}
  MaxAttempts <- MCMaxAttempts
  MaxMasks = 2
  Texts = {a, b}
  Blank = blank
  Nothing = Nothing
  Loading = Loading
  MaxOperations = 3
  Weights <- MCWeights
  Jitters = 2
  OfferedPairs = 3
  Concurrency = 2
  Evaluations = {1, 2, 3}
  DetectorVersions = {1, 2}
  Policies = {1, 2}
SPECIFICATION Spec
INVARIANTS TopologySafe SessionSafe CheckSafe PageSafe BenchmarkSafe EvaluationSafe
PROPERTIES ToolsEnd
CHECK_DEADLOCK FALSE
