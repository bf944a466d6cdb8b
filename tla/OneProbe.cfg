\* A breaker that is open and whose recovery time has passed.
SPECIFICATION Spec
CONSTANTS
    P1 = P1
    P2 = P2
    P3 = P3
    Builder = Builder
    Scout = Scout
    Providers <- ThreeProviders
    Roles <- TwoRoles
    ChainOf <- Overlapping
    Timed = {Builder}
    Timeout = 5
    MaxRetries = 3
    BaseWait = 1
    MaxWait = 2
    Threshold = 2
    Recovery = 3
    MaxLen = 2
INVARIANTS
    OneProbe
