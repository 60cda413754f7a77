\* Three requests, room for two, uploads that together exceed the budget; no
\* symmetry, for liveness.  Lengths: none announced, one that needs the whole
\* budget of one body, one that exceeds it.
CONSTANTS
  Requests = {r1, r2, r3}
  MaxInflight = 2
  MaxBody = 3
  Budget = 4
  Lengths = {0, 3, 4}
  Chunks = {0, 1, 2}
  None = None
SPECIFICATION Spec
INVARIANTS TypeOK Conservation AdmissionBound ByteBound WholeBodiesOnly
PROPERTIES EveryRequestLeaves
CHECK_DEADLOCK FALSE
