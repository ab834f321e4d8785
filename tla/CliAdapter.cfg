SPECIFICATION FairSpec
CONSTANTS
  Uses = {u1, u2}
  RunIds = {r1}
  Nobody = Nobody
  Kinds = {"codex", "plain"}
  BehaviorChecks = 1
INVARIANTS CleanupHonest
PROPERTIES EntryKept AbortIsHonoured UsesEnd
