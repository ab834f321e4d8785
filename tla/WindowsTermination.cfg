SPECIFICATION Spec
CONSTANTS
  Root = root
  Others = {d1, d2}
INVARIANT VerifiedMeansGone
INVARIANT NothingSpared
PROPERTY TerminationEnds
