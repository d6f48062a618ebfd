SPECIFICATION Spec
INVARIANTS TypeOK SyncedIsStored  ExhaustedIsFailed
SYMMETRY IdSymmetry
CONSTANTS
    i1 = i1
    i2 = i2
    Id = {i1, i2}
    Task = {"worker", "timer"}
    BatchSize = 2
    MaxAttempts = 2
    StorageFaultAt = {"ack", "mark"}
    MaxFaults = 2
    MaxCrashes = 1
CHECK_DEADLOCK FALSE
