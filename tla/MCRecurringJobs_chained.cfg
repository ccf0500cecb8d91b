SPECIFICATION FairSpec
CONSTANTS
  potm = potm  leaderboard = leaderboard
  Configured <- TwoJobs
  Slots = {w1}
  Period = 2
  Attempts = 2
  MaxTime = 4
  MaxExits = 1
  MaxFaults = 1
  MaxCancels = 1
INVARIANTS RecurringTypeOK ChainHasNoGap
PROPERTIES ForkedOnlyByRepetition EndedUntilStartup ChainGoesOn
