SPECIFICATION FairSpec
CONSTANTS
  c1 = c1
  c2 = c2
  o1 = o1
  Callers = {c1, c2}
  Observers = {o1}
  Reasons = {"quota_exhausted", "panic"}
  MaxRequests = 1
INVARIANTS TypeOK SnapshotNamesTrip ProbesBounded ProbeSlotHeld
PROPERTIES ProbeSlotFreed RejectionNamesTrip RecoveryNeedsProbe TripNeedsFault
