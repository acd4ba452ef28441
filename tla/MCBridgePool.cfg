\* Six connections, two workers, one place and three kept for presses.
CONSTANTS
    c1 = c1
    c2 = c2
    c3 = c3
    c4 = c4
    c5 = c5
    c6 = c6
    w1 = w1
    w2 = w2
    Nobody = Nobody
    Conns = {c1, c2, c3, c4, c5, c6}
    Workers = {w1, w2}
    Kinds = {"press", "display"}
    Capacity = 1
    Reserve = 3
    OverflowQueue = 1
SPECIFICATION Spec
SYMMETRY ConnSymmetry
INVARIANTS TypeOK WorkersHear
PROPERTIES RoomForPress InOrder
