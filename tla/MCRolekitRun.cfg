SPECIFICATION Spec
CONSTANTS
  Calls = {c1, c2}
  RunIds = {r1, r2}
  NoRunId = NoRunId
  Signals = {s1}
  NoSignal = NoSignal
  AdapterCancels = TRUE
  ClockMayFail = TRUE
  MaxSequence = 3
SYMMETRY Symmetry
INVARIANTS TypeOK RunIdExclusive CancelStaysInRun AbortReachesAdapter
  CancelledNeverCompletes GatedExecution TerminalEventAgrees StreamOrdered
PROPERTY ImplementsContract
