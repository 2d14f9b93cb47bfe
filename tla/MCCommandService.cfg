\* Two concurrent calls: rivals, retries, reused keys, a two-command session, crashes.
SPECIFICATION FairSpec
CONSTANTS
    e1 = e1
    e2 = e2
    v1 = v1
    v2 = v2
    k1 = k1
    k2 = k2
    k3 = k3
    k4 = k4
    k5 = k5
    i1 = i1
    i2 = i2
    d1 = d1
    d2 = d2
    d3 = d3
    d4 = d4
    c1 = c1
    c2 = c2
    NoCall = NoCall
    NoValue = NoValue
    Entity = {e1, e2}
    Value = {v1, v2}
    Key = {k1, k2, k3, k4, k5}
    CommandId = {d1, d2, d3, d4}
    Instant = {i1, i2}
    Call = {c1, c2}
    Batch <- Batches
INVARIANTS
    CommittedIsConsistent
    ToldIsDurable
    RetryIsReplayed
    BatchIsAtomic
PROPERTIES
    AppendOnly
    ImplementsHistory
    EveryCallEnds
