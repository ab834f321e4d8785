SPECIFICATION FairSpec
CONSTANTS
  Calls = {c1, c2}
  RunIds = {r1}
  NoRunId = NoRunId
  Signals = {s1}
  NoSignal = NoSignal
  AdapterCancels = TRUE
  ClockMayFail = FALSE
  MaxSequence = 2
INVARIANT StartedStreamsClose
PROPERTY AbortedRunsSettle
