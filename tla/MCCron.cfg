SPECIFICATION FairSpec
CONSTANTS
  s1 = s1
  s2 = s2
  Schedulers <- Two
  MaxCatchUp = 2
  ScanLimit = 3
  LeaderTTL = 1
  StartAts = {0, 1}
  MaxTime = 3
  MaxFaults = 2
  Deletable = {2}
  None = None
INVARIANTS
  TypeOK
  OncePerOccurrence
  NothingSkipped
PROPERTIES
  CursorNeverRewinds
  EveryOccurrenceEnqueued
