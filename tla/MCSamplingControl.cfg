SPECIFICATION FairSpec
CONSTANTS
    a1 = a1
    a2 = a2
    shop = shop
    pay = pay
    Agents = {a1, a2}
    Apps = {shop, pay}
    AppOf <- MCAppOf
    ApiTargets <- MCTargets
    ApiRates = {10, 150}
    MaxApiCalls = 1
    MaxLoadChanges = 2
    MaxRestarts = 1
INVARIANTS
    TypeOK
    FollowsLastCommand
    NoneLeftReduced
PROPERTIES
    OverloadReachesAgents
    ModeFollowsLoad
CHECK_DEADLOCK FALSE
