\* Three keys for two records, of which the larger size fills most of the store.
CONSTANTS
  Keys = {k1, k2, k3}
  Values = {a, b}
  Sizes = {1, 2}
  ttl_seconds = 2
  max_records = 2
  max_store_bytes = 3
  MaxTime = 5
  None = None
SPECIFICATION Spec
INVARIANTS StoreSafe
PROPERTIES ImplementsTtlStore
CHECK_DEADLOCK FALSE
