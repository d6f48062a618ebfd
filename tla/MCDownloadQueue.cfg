SPECIFICATION Spec
INVARIANTS TypeOK NothingSkipped
CONSTANTS
    d1 = d1  d2 = d2  f1 = f1  f2 = f2  f3 = f3  o1 = o1
    DocOf <- MCDocOf
    Foreign = {f1, f2}
    Own = {o1}
    Doc = {d1, d2}
    Task = {"worker", "timer"}
    BatchSize = 1
    Threshold = 0
    Pushes = TRUE
    EarlyPushes = FALSE
    Wasm = FALSE
    FireModulus = 256
    MaxLost = 0
    MaxWakes = 1
    MaxQueue = 2
    MaxFaults = 1
    MaxRestarts = 1
CHECK_DEADLOCK FALSE
