\* Capture: four records, a queue for two, room on disk for three of them, one failure.
\* NER client: two calls of one to three chunks in groups of two, for two places; two
\* attempts per chunk show a retry and its limit.
CONSTANTS
  Records <- MCRecords
  Size <- MCSize
  Encoded <- MCEncoded
  max_records = 2
  max_queued_bytes = 4
  max_disk_bytes = 5
  MaxErrors = 1
  None = None
  Calls = {c1, c2}
  Sizes = {1, 3}
  GroupSize = 2
  Attempts = 2
  max_concurrency = 2
  Environments <- MCEnvironments
  Rps <- MCRps
  Second = 2
  MaxNow = 3
  MaxLives = 2
  MaxRecent = 3
SPECIFICATION AllSpec
INVARIANTS ClientSafe CaptureSafe ConfigurationSafe LimitsFair
PROPERTIES PartsEnd
CHECK_DEADLOCK FALSE
