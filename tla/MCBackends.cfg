SPECIFICATION FairSpec
CONSTANTS
    Kinds = {"sqlite", "postgres", "redis", "cf"}
    m1 = m1  m2 = m2  d1 = d1  d2 = d2
    MutationId = {m1, m2}
    Doc = {d1, d2}
    DocOf <- MCDocOf
    Caller = {c1, c2}
    Subscriber = {s1}
    Batch <- MCBatch
    MaxSeq = 3
    ChannelCapacity = 1
    PullLimit = 1
    MaxSnapshots = 1
    MaxFaults = 1
    NoCaller = NoCaller
INVARIANTS TypeOK  DeliveredInOrder StreamComplete
PROPERTIES ImplementsLog 
CHECK_DEADLOCK FALSE
