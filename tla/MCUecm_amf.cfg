CONSTANTS
  None = None
  Supis = {ue1}
  Requests = {r1, r2, r3}
  Sites = {"create", "getUdrURI"}
  Amfs = {amf1, amf2, amf3}
  Pdus = {pdu1}
  ValidPdus = {pdu1}
  Kinds = {"amfReg"}
  InFlight = 3
  Faults = TRUE
  MaxRestarts = 1
SYMMETRY Symmetry
SPECIFICATION Spec
INVARIANTS
  TypeOK
  SuccessOnlyIfAccepted
  NotifiedHeldTheAccess
  NoMutualDeregistration
  SomeAmfStays
  LocationFindsContext
  ContextHoldsItsOwn
PROPERTIES
  ImplementsRegistry
CHECK_DEADLOCK FALSE
