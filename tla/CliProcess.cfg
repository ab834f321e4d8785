SPECIFICATION FairSpec
CONSTANTS
  Leader = Leader
  Reachability = {TRUE, FALSE}
  Descendants = {d1}
  Terminators = {"run"}
  MaxOutput = 2
  MaxChunk = 2
INVARIANTS ResourcesBounded NoSurvivors
PROPERTIES FirstCauseWins Settles
