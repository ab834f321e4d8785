SPECIFICATION RunSpec
CONSTANTS
  Leader = Leader
  Reachability = {TRUE}
  Descendants = {d1}
  Terminators = {"fail", "abort", "final"}
  Closers = {"abort", "final"}
  Commands = {"get_state", "prompt", "abort"}
  Uses = {"execute"}
  ConfiguredCommands = {}
  MaxRequests = 4
  MaxOutput = 0
INVARIANT CancellationTerminatesTree
