SPECIFICATION FairSpec
CONSTANTS
    c1 = c1
    c2 = c2
    c3 = c3
    conf = conf
    None = None
    Err = Err
    Calls = {c1, c2, c3}
    Op <- MCOp
    Master <- MCMaster
    Kek <- MCKek
    Config <- MCConfig
    MaxWorkers = 3
    Runtimes = {"async-std", "smol", "tokio"}
    Waits = {"nothing", "io", "task"}
\* Calls come to an end, or wait for one another where workers are too few.
CHECK_DEADLOCK FALSE
INVARIANTS
    TypeOK
    KmsAskedOnce
    OthersHaveAWorker
PROPERTIES
    ImplementsKekCaches
    CallsEnd
