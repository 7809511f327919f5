SPECIFICATION Spec
CONSTANTS
    r1 = r1
    r2 = r2
    c1 = c1
    c2 = c2
    w1 = w1
    w2 = w2
    NoWorker = NoWorker
    Rules = {r1, r2}
    Commands = {c1, c2}
    Workers = {w1, w2}
    Overlap = 3
    Lag = 1
    Skew = 0
    Modes = {"single", "multi"}
    MaxTime <- MCTime
    MaxCommands <- MCCommands
SYMMETRY Symmetry
CHECK_DEADLOCK FALSE
INVARIANTS NothingMissed CycleCatchesUp
