SPECIFICATION Spec
CONSTANTS
    Threads = {t1, t2, t3}
    A = A
    B = B
    shared = shared
    idA = idA
    idB = idB
    tok1 = tok1
    Configs = {A, B}
    Cells = {shared}
    Ids = {idA, idB}
    Tokens = {tok1, tok2}
    Cell <- Clones
    Id <- OwnId
    FirstToken <- First
    WritersFirst = FALSE
    MaxCalls = 1
    None = None
SYMMETRY Symmetry
INVARIANTS
    TypeOK
    ClientsMatchTheirKeys
    NoCallIsStuck
PROPERTIES
    ClientIsCurrent
    PanicsContained
