SPECIFICATION FairSpec
CONSTANTS
  full = full delta = delta h1 = h1 h2 = h2
  Sources = {full, delta}
  Delta = {delta}
  Movers = {full}
  Hosts = {h1, h2}
  Targets = {h1}
  Edges <- MCEdges
  First <- MCFirst
  MaxChanges = 1
  MaxFaults = 1
INVARIANTS LiveIsPresent PresentIsLive FactsDieWithHost
PROPERTIES Converges
CHECK_DEADLOCK FALSE
