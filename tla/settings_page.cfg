SPECIFICATION Spec
CONSTANTS
    garbage = garbage
    noprofile = noprofile
    none = none
    notread = notread
    failed = failed
    done = done
    blank = blank
    unusable = unusable
    Garbage = garbage
    NoProfile = noprofile
    None = none
    NotRead = notread
    Failed = failed
    Done = done
    Blank = blank
    Unusable = unusable
    Commands = {"snap", "rearrange"}
    Combos = {"k1", "k2"}
    Names <- TheNames
    Cells = {"wide", "tall"}
    Defaults <- TheDefaults
    ManualCommands = {"snap"}
    Applies <- EmptyTable
    Folded <- TheFolding
    CopyName <- TheCopies
    FirstDraft <- TheDraft
    Reserved = {}
    Scenarios <- Pages
INVARIANT VerdictFitsCapture
PROPERTY LandsWhereShown
PROPERTY CatchesUp
CHECK_DEADLOCK FALSE
