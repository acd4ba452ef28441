\* One link at a time; a dwell and a window of one tick, STOP? shown for two.
CONSTANTS
    None = None
    LastLink = 1
    Links <- MCLinks
    Dwell = 1
    Window = 1
    ShownFor = 2
    MaxInbox = 2
    MaxNow = 2
SPECIFICATION Spec
INVARIANTS LinkHeard
PROPERTIES StopsItsTake DoublePressKept
