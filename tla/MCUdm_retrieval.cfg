CONSTANTS
  None = None
  Supis = {ue1}
  Requests = {r1, r2}
  Sites = {"create", "getUdrURI", "am", "smfSel", "trace", "sm", "ueCtxInSmf", "nssai"}
  Amfs = {amf1, amf2}
  Pdus = {pdu1}
  ValidPdus = {pdu1}
  Kinds = {"amfReg", "getSm"}
  InFlight = 1
  Faults = FALSE
  MaxRestarts = 0
SYMMETRY Symmetry
SPECIFICATION UdmSpec
PROPERTIES
  RetrievalKeepsRegistrations
CHECK_DEADLOCK FALSE
