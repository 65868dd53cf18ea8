CONSTANTS
  None = None
  Supis = {ue1}
  Requests = {r1, r2}
  Sites = {"create", "getUdrURI"}
  Amfs = {amf1}
  Pdus = {pdu1}
  Kinds = {"authGen"}
  InFlight = 2
  Faults = FALSE
  MaxRestarts = 0
  SqnWidth = 3
  Ind = 2
SYMMETRY Symmetry
SPECIFICATION Spec
INVARIANTS
  NoSqnIsReused
CHECK_DEADLOCK FALSE
