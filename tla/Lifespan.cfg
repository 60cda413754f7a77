\* Two large texts for one thread; two pools, two clients of the vault, and one
\* caller of aclose besides lifespan.  No symmetry, for liveness.
CONSTANTS
  Requests = {r1, r2}
  cpu_workers = 1
  shard_count = 2
  Clients = {master, sentinel}
  Callers = {other}
SPECIFICATION LifeSpec
INVARIANTS SlotsExact ThreadForEveryJob ShutdownSafe
PROPERTIES AnswerIsFinal ShutdownEnds
CHECK_DEADLOCK FALSE
