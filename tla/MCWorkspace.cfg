CONSTANTS
  c1 = c1
  c2 = c2
  c3 = c3
  NoCall = NoCall
  Calls <- const_Calls
  Files <- const_Files
  OpsOf <- const_OpsOf
  LastDay <- const_LastDay
SPECIFICATION FairSpec
INVARIANTS
  TypeOK
  MalformedOnlyIfTorn
  NeverFiledEarly
  WholeOrNothing
PROPERTIES
  RecordsKept
  CallsReturn
CHECK_DEADLOCK FALSE
