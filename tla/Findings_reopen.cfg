SPECIFICATION Spec
CONSTANTS
  web = web chat = chat pager = pager lost = lost
  Targets = {web}
  Subs = {pager}
  ByName <- Alphabetical
  Cooled = {}
  Broken = {}
  Damping = 1
  Facet = TRUE
  MaxAttempts = 2
  MaxChecks = 3
  MaxFaults = 0
  Faults = {}
INVARIANTS EveryOpeningIsSent
CHECK_DEADLOCK FALSE
