SPECIFICATION Spec
CONSTANTS
  j1 = j1  j2 = j2  c1 = c1  c2 = c2  n1 = n1  n2 = n2  s1 = s1  s2 = s2
  JobIds = {j1}
  Calls = {c1, c2}
  Nodes = {n1, n2}
  Slots = {s1, s2}
  Home <- TwoNodes
  Handles <- AllHandlers
  Requests <- Rivals
  StaleAfter = 1
  BatchSize = 2
  LocksEnabled = TRUE
  DeadLetterOnExhausted = TRUE
  UniqueStamps = TRUE
  Horizon = 1
  MaxTime = 3
  MaxCrashes = 0
  MaxFaults = 0
  MaxStalls = 0
SYMMETRY Interchangeable
INVARIANTS VersionIdentifiesSchedule QuiescentJobIsArmed
PROPERTIES ImplementsDurableSchedule
