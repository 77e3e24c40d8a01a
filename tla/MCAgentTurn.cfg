CONSTANTS
  MaxRounds <- const_MaxRounds
  MaxChunks <- const_MaxChunks
  MaxCalls <- const_MaxCalls
SPECIFICATION Spec
INVARIANTS
  TypeOK
  PersistedBeforeShown
  TextRecordedOnce
  ReplayMatchesHistory
  ReplayWellFormed
  OutcomeRecorded
PROPERTIES
  InterruptEndsTurn
