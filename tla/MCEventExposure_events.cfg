CONSTANTS
  None = None
  Supis = {ue1, ue2}
  EeRequests = {e1, e2, e3}
  Requests = {e1, e2, e3, o1, o2}
  Sites = {"create", "getUdrURI"}
  Pdus = {}
  EeIds = {id1}
  MaxRestarts = 1
SYMMETRY Symmetry
SPECIFICATION Spec
INVARIANTS
  TypeOK
  AnyUeMeansEveryUe
  DeletedEverywhere
CHECK_DEADLOCK FALSE
