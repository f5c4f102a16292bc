SPECIFICATION Spec
CONSTANTS
    p = p
    q = q
    page = page
    garbage = garbage
    noprofile = noprofile
    none = none
    empty = empty
    nofile = nofile
    Garbage = garbage
    NoProfile = noprofile
    NoEdit = none
    Empty = empty
    NoFile = nofile
    Clients = {p, q}
    Page = page
    Writers = {p, q, page}
    Commands <- TheCommands
    Combos = {"k1", "k2", "k3", "k4"}
    Names <- TheNames
    Cells = {"wide", "tall"}
    Defaults <- TheDefaults
    ManualCommands <- TheManual
    Applies <- TheApplies
    Folded <- TheFolding
    Keyless = {"k4"}
    Scenarios <- Scenes
INVARIANT TypeOK
INVARIANT BindingsAccountedFor
INVARIANT HoldsMatchEditors
INVARIANT EditorOwnsKeys
INVARIANT LiveIsWritten
PROPERTY EditsAtOnce
PROPERTY DirectoryStaysValid
PROPERTY OnlyValidGoesLive
PROPERTY Settles
CHECK_DEADLOCK FALSE
