CONSTANTS
  None = None
  Empty = Empty
  Instances = {i1}
  Discoveries = {d1, d2, d3}
  Notifications = {n1, n2}
  EnableNrfCaching = TRUE
  Faults = TRUE
  MaxChanges = 3
  MaxRestarts = 1
SYMMETRY Symmetry
SPECIFICATION Spec
INVARIANTS
  TypeOK
  StoredIdIsLive
  OneSubscriptionPerInstance
  CachedIsWatched
  GoneIsNotCached
CHECK_DEADLOCK FALSE
