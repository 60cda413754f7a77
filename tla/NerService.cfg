\* Three requests for two model slots, batches of two and a queue of two; no
\* symmetry, for liveness.
CONSTANTS
  Jobs = {j1, j2, j3}
  batch_size = 2
  capacity = 2
  max_http_inflight = 3
SPECIFICATION ServiceSpec
INVARIANTS ServiceSafe
PROPERTIES ServiceSteps ServiceEnds
CHECK_DEADLOCK FALSE
