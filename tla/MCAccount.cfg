SPECIFICATION Spec
CONSTANTS
    s1 = s1  s2 = s2
    Slots = {s1, s2}
    Cooldown = 0
    Hour = 1
    Validity = 0
    MaxPerHour = 1
    MaxAttempts = 2
    MaxFails = 2
    LockFor = 1
    SessionFor = 1
    AccessFor = 2
    NoCode = NoCode
    NoAccount = NoAccount
    NoSession = NoSession
    MaxCodes = 3
    MaxSessions = 2
    MaxTime = 3
    MaxRequests = 4
CHECK_DEADLOCK FALSE
SYMMETRY Sym
INVARIANTS
    TypeOK
    RateIsBounded
    CodeIsGoodOnce
    ResetStopsRefresh
    SessionsHaveOrg
    ActiveCostsCode
    OrgsAreExplained
    LockIsBacked
PROPERTIES
    ClosedStaysClosed
    CodesSpec
