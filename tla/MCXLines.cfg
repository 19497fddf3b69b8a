CONSTANTS
    c1 = c1
    c2 = c2
    ip1 = ip1
    bare = bare
    resolved = resolved
    NoLine = NoLine
    NoHit = NoHit
    Client = {c1, c2}
    Host = {bare, resolved}
    FirstHost = bare
    Address = {ip1}
    AddressOf <- SharedAddress
    LineKey <- MCKeys
    Covers <- MCCovers
    UserStar <- MCStar
    Scope <- BothScopes
    Day = 2
    MaxNow = 1
    Duration = {0, 1}
SPECIFICATION Spec
CHECK_DEADLOCK FALSE
INVARIANTS
    NothingOutlivesItsLine
    ExemptionHonoured
    LinesEnforced
