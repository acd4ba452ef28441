\* Two launches, two askers, the restart's stop and the close's.
CONSTANTS
    Requests = {"page", "shell"}
    Stops = {"restart", "close"}
    MaxLaunches = 2
    Nobody = Nobody
SPECIFICATION FairSpec
INVARIANTS WaiterHeld StopEnds
PROPERTIES TellsEachEnd WaiterTold
