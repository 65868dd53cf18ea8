CONSTANTS
  None = None
  Supis = {ue1}
  Requests = {r1, r2, r3, r4}
  Sites = {"create", "getUdrURI"}
  Amfs = {amf1, amf2}
  Pdus = {pdu1, pdu2, bad}
  ValidPdus = {pdu1, pdu2}
  Kinds = {"amfReg", "amfUpdate", "amfGet", "smfReg", "smfDereg"}
  InFlight = 1
  Faults = FALSE
  MaxRestarts = 0
SYMMETRY Symmetry
SPECIFICATION Spec
INVARIANTS
  MemoryMatchesUdr
  SupersededIsNotified
  RecordShowsItsAmf
  LocationNamesTheSession
CHECK_DEADLOCK FALSE
