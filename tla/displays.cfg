SPECIFICATION PipelineSpec
CONSTANTS
  a = a
  b = b
  c = c
  w1 = w1
  w2 = w2
  w3 = w3
  d1 = d1
  d2 = d2
  None = None
  Window = {w1, w2}
  Display = {d1, d2}
  Workspace = {a, b, c}
  Configs <- Desk
  RuleTarget <- OneRuled
  Start <- DeskOpen
  Stored <- Nothing
  Allowed = {"Focus", "Move", "Plug", "Wake", "Config", "Create", "Delete", "Health"}
  Patient = {"Focus", "Move", "Plug", "Wake", "Config", "Create", "Delete"}
  Budget = 3
INVARIANT DisplayedAtMostOnce
INVARIANT PoolHoldsItsNames
INVARIANT DisplayedOnlyWhereConnected
PROPERTY ConnectRevealsNothing
CHECK_DEADLOCK FALSE
