SPECIFICATION FairSpec
CONSTANTS
  Leader = Leader
  Reachability = {TRUE, FALSE}
  Descendants = {d1}
  Terminators = {"fail", "close"}
  Closers = {"close"}
  Commands = {getState, prompt}
  MaxRequests = 2
  MaxOutput = 1
INVARIANTS RequestsMatched FailedTreeTerminated
PROPERTIES FailureIsFinal NothingHangs
