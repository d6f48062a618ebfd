SPECIFICATION FairSpec
INVARIANT NothingSkipped
PROPERTIES  EventuallyApplied
CONSTANTS
    d1 = d1  d2 = d2  f1 = f1  f2 = f2  f3 = f3  o1 = o1
    DocOf <- MCDocOf
    Foreign = {f1, f2, f3}
    Own = {}
    Doc = {d1, d2}
    Task = {"timer"}
    BatchSize = 1
    Threshold = 1
    Pushes = FALSE
    EarlyPushes = FALSE
    Wasm = FALSE
    FireModulus = 256
    MaxLost = 0
    MaxWakes = 0
    MaxQueue = 2
    MaxFaults = 0
    MaxRestarts = 1
CHECK_DEADLOCK FALSE
