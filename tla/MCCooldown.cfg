SPECIFICATION FairSpec
CONSTANTS
  r1 = r1
  r2 = r2
  r3 = r3
  Requests = {r1, r2, r3}
  Threshold = 2
  Length = 2
INVARIANTS CooldownIffStreak StreakBounded
PROPERTIES CooldownNotCancelled FailureBlamedDuly CooldownEnds
