SPECIFICATION FairSpec
CONSTANTS
  Stages = {s1}
  Drafts <- WithPreRegistration
  Checkers = {w1, w2}
  Requests = {r1, r2}
  Delays = {0, 2}
  Attempts = 2
  MaxTime = 6
  MaxEdits = 1
  MaxFaults = 1
  MaxUpsets = 2
INVARIANTS StageTypeOK ChainSkipsNothing
PROPERTIES ScheduledCheckIsMade RetiredForGood EndedStageCompletes
