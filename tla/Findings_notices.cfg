SPECIFICATION FairSpec
CONSTANTS
  web = web chat = chat pager = pager lost = lost
  Targets = {web}
  Subs = {chat, lost, pager}
  ByName <- Alphabetical
  Cooled = {chat}
  Broken = {chat, lost}
  Damping = 2
  Facet = FALSE
  MaxAttempts = 2
  MaxChecks = 3
  MaxFaults = 1
  Faults = {"reply", "emit", "seal", "late", "lookup", "launch", "record", "lease",
            "ackwait", "crash"}
INVARIANTS OpensWhenEarned SentOnce AckedIsRecorded SealedVerifies
PROPERTIES NoticesAreAnswered DeadFindingsResolve
CHECK_DEADLOCK FALSE
