SPECIFICATION Spec
INVARIANT NothingSkipped
CONSTANTS
    d1 = d1  d2 = d2  f1 = f1  f2 = f2  f3 = f3  o1 = o1
    DocOf <- MCDocOf
    Foreign = {f1, f2, f3}
    Own = {}
    Doc = {d1, d2}
    Task = {"worker"}
    BatchSize = 1
    Threshold = 0
    Pushes = TRUE
    EarlyPushes = FALSE
    Wasm = TRUE
    FireModulus = 256
    MaxLost = 1
    MaxWakes = 0
    MaxQueue = 2
    MaxFaults = 0
    MaxRestarts = 0
CHECK_DEADLOCK FALSE
