CONSTANTS
    Faders = {f, g}
    Switches = {s}
    Submix = Submix
    Status = Status
    Dump = Dump
    Load = Load
    None = None
    Top = 1
    ReadbackDelay = 1
    ReplyQuiet = 1
    ConfirmTimeout = 3
    PullQuiet = 1
    PullTimeout = 2
    Budgets <- MCBudgets
    Latest = 3
    Excused <- MCExcusedLateEnd
CHECK_DEADLOCK FALSE
SPECIFICATION MCSpec
INVARIANT AlignedIsTrue
