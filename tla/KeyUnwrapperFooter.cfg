SPECIFICATION Spec
CONSTANTS
    r1 = r1
    r2 = r2
    r3 = r3
    u1 = u1
    u2 = u2
    a1 = a1
    a2 = a2
    fA = fA
    fB = fB
    fC = fC
    x = x
    kf = kf
    idA = idA
    idB = idB
    urlA = urlA
    urlB = urlB
    tok2 = tok2
    None = None
    Unset = Unset
    Default = Default
    Failed = Failed
    Footer = Footer
    Readers = {r1, r2}
    Unwrappers = {u1, u2}
    Configs = {a1, a2}
    Kept = {a1}
    Files = {fA, fB, fC}
    Keys = {Footer, x}
    Ids = {Unset, idA, idB}
    Urls = {Unset, urlA, urlB}
    Tokens = {Default, tok2}
    Built <- MCBuilt
    Uses <- MCUses
    MayRead <- MCMayRead
    Material <- MCMaterial
    MaxCaches = 2
INVARIANTS
    FooterDecides
