SPECIFICATION FairSpec
CONSTANTS
  a = a
  b = b
  c = c
  w1 = w1
  w2 = w2
  w3 = w3
  d1 = d1
  d2 = d2
  None = None
  Window = {w1, w2}
  Display = {d1}
  Workspace = {a, b}
  Configs <- OneDisplay
  RuleTarget <- OneRuled
  Start <- AllOpen
  Stored <- Nothing
  Allowed = {"Focus", "Crash", "Quit", "MarkLost", "LedgerUnread", "ParkFails", "RestoreFails", "Closed"}
  Patient = {}
  Budget = 3
PROPERTY OpenEntryKept
PROPERTY RecoveryComplete
PROPERTY SwitchCloses
PROPERTY DesktopSettles
CHECK_DEADLOCK FALSE
