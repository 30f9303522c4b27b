SPECIFICATION FairSpec
CONSTANTS
    Threads = {t1, t2}
    Keys = {k1, k2}
    Values = {v1}
    Lifetimes <- MCLifetimes
    Intervals = {1}
    None = None
    MaxInstant = 2
    MaxTime = 2
INVARIANTS
    TypeOK
    HolderInside
    NoLingering
PROPERTIES
    ServedFresh
    CreationsSpaced
    ImplementsLockedCache
    CallsReturn
