SPECIFICATION Spec
CONSTANTS
    Scripts = {sa}
    NoScript = NoScript
    None = None
    Places = {"top"}
    Top = "top"
    End = "top"
    Shown = {"white", "yellow"}
    Laid = {60}
    StartStep = 2
    Threads <- OnlyThread
    Archived <- OneArchive
    MaxHanded = 4
    MaxRevision = 1
    MaxFailures = 1
    MaxStarts = 1
    sa = sa
INVARIANT LookComesBack
CHECK_DEADLOCK FALSE
