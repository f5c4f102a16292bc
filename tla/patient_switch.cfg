SPECIFICATION PipelineSpec
CONSTANTS
  a = a
  b = b
  c = c
  w1 = w1
  w2 = w2
  w3 = w3
  d1 = d1
  d2 = d2
  None = None
  Window = {w1, w2, w3}
  Display = {d1}
  Workspace = {a, b}
  Configs <- OneDisplay
  RuleTarget <- TwoRuled
  Start <- AllOpen
  Stored <- Nothing
  Allowed = {"Focus", "ParkFails", "RestoreFails", "Refuse"}
  Patient = {"Focus"}
  Budget = 4
INVARIANT RequestsMatchSwitch
INVARIANT CompensationOwes
PROPERTY CommitLands
PROPERTY NeverMixed
CHECK_DEADLOCK FALSE
