SPECIFICATION FairSpec
CONSTANTS
  j1 = j1  j2 = j2  c1 = c1  c2 = c2  n1 = n1  n2 = n2  s1 = s1  s2 = s2
  JobIds = {j1}
  Calls = {c1, c2}
  Nodes = {n1}
  Slots = {s1}
  Home <- OneSlot
  Handles <- AllHandlers
  Requests <- Perilous
  StaleAfter = 1
  BatchSize = 2
  LocksEnabled = FALSE
  DeadLetterOnExhausted = TRUE
  UniqueStamps = TRUE
  Horizon = 2
  MaxTime = 4
  MaxCrashes = 1
  MaxFaults = 0
  MaxStalls = 0
INVARIANTS VersionIdentifiesSchedule
PROPERTIES ImplementsDurableSchedule AbandonedOnlyByLoss OnlyOldSnapshotExpires ScheduleIsTried
