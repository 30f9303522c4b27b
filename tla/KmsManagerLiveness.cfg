SPECIFICATION FairSpec
CONSTANTS
    Threads = {t1, t2}
    A = A
    B = B
    shared = shared
    idA = idA
    idB = idB
    tok1 = tok1
    Configs = {A}
    Cells = {shared}
    Ids = {idA}
    Tokens = {tok1}
    Cell <- OneConfig
    Id <- OneId
    FirstToken <- First
    WritersFirst = FALSE
    MaxCalls = 2
    None = None
PROPERTIES
    CallsEnd
    KekCallsDoNotNeedKms
