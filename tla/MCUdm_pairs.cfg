CONSTANTS
  None = None
  Supis = {ue1}
  Requests = {r1, r2}
  Sites = {"create", "getUdrURI", "am", "smfSel", "trace", "sm", "ueCtxInSmf", "nssai"}
  Amfs = {amf1, amf2}
  Pdus = {pdu1, pdu2}
  ValidPdus = {pdu1}
  Kinds = {"amfReg", "amfUpdate", "amfGet", "smfReg", "smfDereg", "getAm", "getNssai", "getSm", "getSmfSel", "getTrace", "getUeCtxInSmf", "getSupi", "subscribe", "unsubscribe", "modify", "getIdTranslation", "getSharedData", "modifyShared", "ppUpdate", "subscribeShared", "unsubscribeShared", "dataChange"}
  InFlight = 2
  Faults = TRUE
  MaxRestarts = 1
SYMMETRY Symmetry
SPECIFICATION UdmSpec
INVARIANTS
  UdmTypeOK
  RecordShowsARegisteredAmf
  SubscriptionsAreAtUdr
  ContextHoldsItsOwn
CHECK_DEADLOCK FALSE
