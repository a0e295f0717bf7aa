SPECIFICATION PipelineFairSpec
CONSTANTS
    r1 = r1
    r2 = r2
    a1 = a1
    u1 = u1
    Requests = {r1, r2}
    IPs = {a1}
    Users = {u1}
    Global = Global
    ClientIP <- OneAddress
    UserID <- OneUser
    EnableGlobal = TRUE
    EnableIPLimit = TRUE
    EnableUserLimit = TRUE
    GlobalBurst = 1
    IPLimitBurst = 1
    UserLimitBurst = 1
    GlobalRPS = 1
    IPLimitRPS = 0
    UserLimitRPS = 0
    Limiters = {1, 2, 3}
    MaxTicks = 1
    None = None
    Missing = Missing
    RoutesOf <- MixedRoutes
    Slots = {1, 2, 3, 4, 5, 6}
    TokenTTL = 1
INVARIANTS
    GrantsBounded
    ContextsExclusive
    GuardsHold
    ReplyMatches
PROPERTIES
    AllAnswered
CHECK_DEADLOCK FALSE
