CONSTANTS
  c1 = c1
  c2 = c2
  c3 = c3
  NoCall = NoCall
  Calls <- const_Calls
  Files <- const_Files
  OpsOf <- const_OpsOfFiles
  LastDay <- const_LastDay
SPECIFICATION FairSpec
PROPERTY RepairKeepsContent
CHECK_DEADLOCK FALSE
