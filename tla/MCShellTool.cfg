CONSTANTS
  Limit <- const_Limit
  PipeCapacity <- const_PipeCapacity
  Buffer <- const_Buffer
  MaxOutput <- const_MaxOutput
SPECIFICATION FairSpec
INVARIANTS
  TypeOK
  OutputAccounted
  ShellNeverOutlivesCall
  StatusKnown
PROPERTIES
  ReturnsOnceGroupGone
