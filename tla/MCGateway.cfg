SPECIFICATION Spec
CONSTANTS
  MaxRequests = 3
  Queries = {"cats OR dogs", "cats or dogs", "birds"}
  KeyOf <- TwoKeys
  Capacity = 1
  TTL = 1
  Budget = 2
  Grace = 1
  TraceGrace = 1
  LastStop = 2
  MaxTime = 4
INVARIANT TypeOK
PROPERTIES ImplementsService LossHasCause ReplacesOnlyConcurrent FittingRequestsEnd ShutdownEnds
CHECK_DEADLOCK FALSE
