SPECIFICATION FairRunSpec
CONSTANTS
  Leader = Leader
  Reachability = {TRUE}
  Descendants = {}
  Terminators = {"fail", "abort", "final"}
  Closers = {"abort", "final"}
  Commands = {"get_state", "prompt", "abort", "set_model", "set_thinking_level"}
  Uses = {"execute", "probe"}
  ConfiguredCommands = {}
  MaxRequests = 4
  MaxOutput = 0
INVARIANTS AnswerIsEarned NoProcessLeft
PROPERTY RunEnds
