SPECIFICATION Spec
CONSTANTS
    None = None
    ada = ada
    bora = bora
    t1 = t1
    t2 = t2
    k1 = k1
    strict = strict
    static = static
    Process = {g1}
    Call = {c1}
    User = {ada, bora}
    RoleOf <- MCRoleOf
    Token = {t1, t2}
    OwnerOf <- MCOwnerOf
    ExpiryOf <- MCExpiryOf
    Policy = {1}
    Row <- MCRow
    Fallback = static
    ApiKey = {k1}
    short = short
    long = long
    License = {short, long}
    Boot = short
    ExpiresAt <- MCExpiresAt
    GraceEnds <- MCGraceEnds
    Expiring = 1
    MaxTime = 1
    MaxStarted = 2
    MaxFaults = 0
INVARIANT PolicyApplies
CHECK_DEADLOCK FALSE
