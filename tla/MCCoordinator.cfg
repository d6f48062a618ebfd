SPECIFICATION FairSpec
CONSTANTS
    m1 = m1  m2 = m2  d1 = d1  d2 = d2
    Namespace = {n1}
    MutationId = {m1, m2}
    Doc = {d1, d2}
    DocOf <- MCDocOf
    Caller = {c1, c2}
    Subscriber = {s1}
    MaxBatch = 2
    MaxSeq = 3
    ChannelCapacity = 2
    MaxSnapshots = 1
    Compacts = TRUE
    StoresAscend = TRUE
    NoCaller = NoCaller
INVARIANTS TypeOK LogIsFunctional IdempotentPush DeliveredInOrder StreamComplete 
PROPERTIES QuiescentDelivery ImplementsLog
CHECK_DEADLOCK FALSE
