SPECIFICATION AutomationSpec
CONSTANTS
  s1 = s1  t1 = t1  r1 = r1  q1 = q1
  Stages = {s1}
  Drafts <- Stage1
  Checkers = {w1, w2}
  Requests = {r1}
  Delays = {0}
  Attempts = 2
  MaxTime = 3
  MaxEdits = 1
  MaxFaults = 1
  MaxUpsets = 1
  Tournaments = {t1}
  TournamentDrafts <- Tournament1
  TournamentOf <- InTournament1
  TournamentRequests = {q1}
  SyncTournament <- TournamentCalls
  SyncStage <- StageCalls
INVARIANTS AutomationTypeOK
PROPERTIES TriggeredCheckIsMade TournamentFollowsStages SyncReachesEverything OnlyOverlapReopens
