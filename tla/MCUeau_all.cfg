CONSTANTS
  None = None
  Supis = {ue1}
  Requests = {r1, r2, r3}
  Sites = {"create", "getUdrURI"}
  Amfs = {amf1}
  Pdus = {pdu1}
  Kinds = {"authGen", "authConfirm", "authDelete"}
  InFlight = 2
  Faults = TRUE
  MaxRestarts = 1
  SqnWidth = 3
  Ind = 2
SYMMETRY Symmetry
SPECIFICATION Spec
INVARIANTS
  TypeOK
  SqnReuseNeedsOverlapOrResync
  UdrSqnIsUnusedUntilResync
  ResyncIsAhead
  DeletedEventStaysDeleted
CHECK_DEADLOCK FALSE
