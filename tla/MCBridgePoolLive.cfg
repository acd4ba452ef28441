\* Four connections, two workers, under fairness.
CONSTANTS
    c1 = c1
    c2 = c2
    c3 = c3
    c4 = c4
    c5 = c5
    c6 = c6
    w1 = w1
    w2 = w2
    Nobody = Nobody
    Conns = {c1, c2, c3, c4}
    Workers = {w1, w2}
    Kinds = {"press", "display"}
    Capacity = 1
    Reserve = 2
    OverflowQueue = 1
SPECIFICATION FairSpec
PROPERTIES OneServed
