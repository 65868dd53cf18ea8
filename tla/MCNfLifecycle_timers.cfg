CONSTANTS
  None = None
  Plmns = {p1}
  Configured = {p1}
  Streams = {k1}
  Timers = {t1, t2}
  RegisterNF = RegisterNF
  MaxMessages = 2
  Faults = FALSE
SPECIFICATION Spec
INVARIANTS
  OneTimerIsArmed
CHECK_DEADLOCK FALSE
