SPECIFICATION Spec
CONSTANTS
  None = None
  Unknown = Unknown
  Window = {1, 2, 3}
  Display = {1, 2}
  WorkArea <- Areas
  Traits <- Kinds
  Retention = 1
  HistoryLimit = 3
  HistoryDays = 1
  Scenarios <- FloatAndThrow
CHECK_DEADLOCK FALSE
INVARIANT ThrowMoves
