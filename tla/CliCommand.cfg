SPECIFICATION CliSpec
CONSTANTS
  Calls = {run}
  RunIds = {id}
  NoRunId = NoRunId
  Signals = {controller}
  NoSignal = NoSignal
  AdapterCancels = TRUE
  ClockMayFail = FALSE
  MaxSequence = 0
  TheRun = run
  TheRunId = id
  Controller = controller
INVARIANT ExitCodeHonest
PROPERTY NoWorkAfterSignal
PROPERTY InterruptedCommandsEnd
