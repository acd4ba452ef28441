\* Two workers, two scenes, four presses of four keys, a dwell of two ticks.
CONSTANTS
    w1 = w1
    w2 = w2
    w3 = w3
    Workers = {w1, w2}
    Nobody = Nobody
    None = None
    Keys = {"deleteScene", "allOff", "toggleLight", "playPause", "selectNextScene"}
    Scenes = {1, 2}
    Dwell = 2
    Window = 4
    MaxNow = 5
    MaxPresses = 4
    MaxChanges = 1
SPECIFICATION Spec
SYMMETRY WorkerSymmetry
INVARIANTS SwitchOnce
PROPERTIES ActsAsAsked
CHECK_DEADLOCK FALSE
