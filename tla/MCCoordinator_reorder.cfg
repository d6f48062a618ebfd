SPECIFICATION Spec
CONSTANTS
    m1 = m1  m2 = m2  d1 = d1  d2 = d2
    Namespace = {n1}
    MutationId = {m1, m2}
    Doc = {d1, d2}
    DocOf <- MCDocOf
    Caller = {c1, c2}
    Subscriber = {s1}
    MaxBatch = 1
    MaxSeq = 2
    ChannelCapacity = 2
    MaxSnapshots = 0
    Compacts = FALSE
    StoresAscend = TRUE
    NoCaller = NoCaller
INVARIANTS StreamHasNoHoles
CHECK_DEADLOCK FALSE
