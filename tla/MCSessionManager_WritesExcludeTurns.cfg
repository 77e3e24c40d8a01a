CONSTANTS
  r1 = r1
  r2 = r2
  p1 = p1
  p2 = p2
  w1 = w1
  NoTurn = NoTurn
  AllPaths = AllPaths
  Requests <- const_Requests
  Paths <- const_Paths
  Writers <- const_Writers
SPECIFICATION FairSpec
PROPERTY WritesExcludeTurns
