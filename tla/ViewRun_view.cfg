SPECIFICATION FairSpec
CONSTANTS
  local = local remote = remote port = port port2 = port2
  Slices = {local, remote, port, port2}
  Remote = {remote}
  Port = {port, port2}
  Launches <- MCLaunches
  MaxAttempts = 2
  Faults = {"stall", "agent", "store", "late", "dup", "ttl"}
INVARIANTS GreenRunIsHonest ToolRunsOnce
PROPERTIES RunCloses SiteIsFreed
