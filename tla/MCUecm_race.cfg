CONSTANTS
  None = None
  Supis = {ue1}
  Requests = {r1, r2, r3}
  Sites = {"create", "getUdrURI"}
  Amfs = {amf1, amf2}
  Pdus = {pdu1}
  ValidPdus = {pdu1}
  Kinds = {"amfReg"}
  InFlight = 2
  Faults = FALSE
  MaxRestarts = 0
SYMMETRY Symmetry
SPECIFICATION Spec
INVARIANTS
  SupersededIsNotified
CHECK_DEADLOCK FALSE
