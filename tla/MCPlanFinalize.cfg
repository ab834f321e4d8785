SPECIFICATION Spec
SYMMETRY Symmetry
CONSTANTS
  RoleIds = {reviewer, other}
  Bodies = {b1, b2}
  TaskIds = {t1}
  Paths = {p1, p2}
  Options = {o1}
  Executors = {e1}
  RunIds = {r1}
  Times = {0, 1}
  Forged = Forged
  MaxEdits = 2
  MaxLateEdits = 1
INVARIANT AcceptedPlansAreCreated
INVARIANT CompletedIsEarned
INVARIANT ResultAsCalled
