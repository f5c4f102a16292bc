SPECIFICATION PipelineSpec
CONSTANTS
  a = a
  b = b
  c = c
  w1 = w1
  w2 = w2
  w3 = w3
  d1 = d1
  d2 = d2
  None = None
  Window = {w1, w2}
  Display = {d1}
  Workspace = {a, b}
  Configs <- OneDisplay
  RuleTarget <- OneRuled
  Start <- AllOpen
  Stored <- BOnFirst
  Allowed = {"Focus", "Park", "RestoreWindows", "RestoreSwitch", "Pause", "Load", "Normal", "Minimized", "Fullscreen", "Closed", "ParkFails", "RestoreFails", "Refuse", "MarkLost"}
  Patient = {}
  Budget = 3
INVARIANT TypeOK
INVARIANT WayBackKept
INVARIANT BooksMatchDesktop
INVARIANT OneRequestPerWindow
CHECK_DEADLOCK FALSE
