CONSTANTS
  Bundled = {"b"}
  Mods = {"m"}
  Ids = 2
  MaxTurns = 2
  MaxQueue = 1
SPECIFICATION FairSpec
INVARIANTS
  TypeOK
  MainReady
  CancelReachesServer
PROPERTIES
  TurnEndIsReal
  CancelEnds
  OperationEnds
