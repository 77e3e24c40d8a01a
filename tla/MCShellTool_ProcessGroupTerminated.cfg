CONSTANTS
  Limit <- const_Limit
  PipeCapacity <- const_PipeCapacity
  Buffer <- const_Buffer
  MaxOutput <- const_MaxOutput
SPECIFICATION FairSpec
INVARIANT ProcessGroupTerminated
