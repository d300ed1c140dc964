SPECIFICATION Spec
CONSTANTS
  p1 = p1
  p2 = p2
  keyless = keyless
  u1 = u1
  u2 = u2
  Providers = {p1, p2, keyless}
  Configured = {p1, p2}
  URLs = {u1, u2}
  NoProvider = NoProvider
  Target = 2
INVARIANTS TypeOK NoResultsIsExhaustion FailureHasCause OutcomeTellsSources GuaranteedCall
PROPERTIES NoNeedlessCall CacheHoldsAnswers ImplementsContract
CHECK_DEADLOCK FALSE
