\* Two launches, one automatic restart.
CONSTANTS
    MaxLaunches = 2
    RestartLimit = 1
    Nobody = Nobody
SPECIFICATION StoreSpec
PROPERTIES PageHears StartsEnd
