SPECIFICATION PipelineSpec
CONSTANTS
  a = a
  b = b
  c = c
  w1 = w1
  w2 = w2
  w3 = w3
  d1 = d1
  d2 = d2
  None = None
  Window = {w1, w2}
  Display = {d1, d2}
  Workspace = {a, b}
  Configs <- Plain
  RuleTarget <- OneRuled
  Start <- AllOpen
  Stored <- BOnSecond
  Allowed = {"Load", "Plug"}
  Patient = {"Plug"}
  Budget = 2
PROPERTY ConnectRevealsNothing
CHECK_DEADLOCK FALSE
