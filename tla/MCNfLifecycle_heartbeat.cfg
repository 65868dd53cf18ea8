CONSTANTS
  None = None
  Plmns = {p1, p2}
  Configured = {p1}
  Streams = {k1, k2}
  Timers = {t1, t2}
  RegisterNF = RegisterNF
  MaxMessages = 2
  Faults = TRUE
SPECIFICATION FairSpec
INVARIANTS
  TypeOK
PROPERTIES
  HeartbeatIsNotDropped
  HeartbeatGoesOn
  ConfigurationIsRegistered
CHECK_DEADLOCK FALSE
