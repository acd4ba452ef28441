SPECIFICATION FairSpec
CONSTANTS
    Scripts = {sa}
    NoScript = NoScript
    None = None
    Places = {"top", "end"}
    Top = "top"
    End = "end"
    Shown = {"white", "yellow"}
    Laid = {60}
    StartStep = 2
    Threads <- BothThreads
    Archived <- OneArchive
    MaxHanded = 4
    MaxRevision = 2
    MaxFailures = 1
    MaxStarts = 2
    sa = sa
INVARIANT PlaceKept
INVARIANT LookKept
INVARIANT StopTold
INVARIANT DueForAReason
INVARIANT SleepersHear
INVARIANT RestoredLookStands
PROPERTY NeverBack
PROPERTY FlushTold
PROPERTY AfterStop
PROPERTY WrittenInTime
CHECK_DEADLOCK FALSE
