SPECIFICATION Spec
CONSTANTS
  None = None
  Unknown = Unknown
  Window = {1, 2, 3}
  Display = {1, 2}
  WorkArea <- Areas
  Traits <- Kinds
  Retention = 1
  HistoryLimit = 3
  HistoryDays = 1
  Scenarios <- Scenes
CHECK_DEADLOCK FALSE
INVARIANT BooksMatchScreen
INVARIANT ArrangedApart
INVARIANT ReflowSettles
INVARIANT TreesWellFormed
INVARIANT FloatedStaysOut
INVARIANT UndoBringsBack
INVARIANT ReopenedReturns
INVARIANT RestartKeepsPlaces
INVARIANT StoredTreeIsCurrent
PROPERTY DragIsUndisturbed
PROPERTY UndoTakesNewest
PROPERTY Settles
