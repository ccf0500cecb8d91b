SPECIFICATION FairSpec
CONSTANTS
  Stages = {s1}
  Drafts <- Plain
  Checkers = {w1}
  Requests = {r1}
  Delays = {0, 2}
  Attempts = 2
  MaxTime = 7
  MaxEdits = 1
  MaxFaults = 0
  MaxUpsets = 2
PROPERTIES FilledUntilStart
