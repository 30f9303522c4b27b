SPECIFICATION FairSpec
CONSTANTS
    w1 = w1
    w2 = w2
    w3 = w3
    kf = kf
    kc = kc
    x = x
    cell = cell
    tok1 = tok1
    idA = idA
    idB = idB
    urlA = urlA
    None = None
    Unset = Unset
    Default = Default
    Failed = Failed
    Footer = Footer
    Writers = {w1, w2, w3}
    Columns = {x}
    Masters = {kf, kc}
    Ids = {Unset}
    Cells = {cell}
    Tokens = {tok1, tok2}
    Id <- MCNoId
    Url <- MCUrl
    Cell <- MCCell
    FooterMaster <- MCFooterMaster
    ColumnMaster <- MCColumnMaster
    DoubleWrapping <- MCDoubleWrapping
    FirstToken <- MCFirst
    MaxCaches = 3
INVARIANTS
    TypeOK
    OneKekPerMasterKey
    KekIdsAreUnambiguous
    FilesAreReadable
PROPERTIES
    ImplementsKekCaches
    FilesEnd
