CONSTANTS
  c1 = c1
  c2 = c2
  c3 = c3
  key = key
  url = url
  NoCall = NoCall
  Calls <- const_Calls
  Mixes <- const_Mixes
  Fields <- const_Fields
  TTL <- const_TTL
  MaxTime <- const_MaxTime
SYMMETRY symm_Fields
SPECIFICATION Spec
INVARIANTS
  TypeOK
  TornOnlyIfOverlapped
  PairedStaysPaired
  CodePairsOnce
PROPERTIES
  NothingOlderRestored
CHECK_DEADLOCK FALSE
