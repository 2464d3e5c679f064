SPECIFICATION Spec
CONSTANTS
  s1 = s1
  s2 = s2
  Sessions = {s1}
  Deadline <- MCDeadline
  MaxClock = 1
  MaxFrames = 4
  MaxCrashes = 1
  MaxFailures = 0
  MaxForeign = 0
  NoSession = NoSession
INVARIANTS EveryReserveWindowRecovers
