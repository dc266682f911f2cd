\* Two tasks on one flow, with two logins, expiry and restarts.
SPECIFICATION Spec
CONSTANTS
    c1 = c1
    c2 = c2
    r1 = r1
    r2 = r2
    Clients = {c1, c2}
    Subs = {owner, stranger}
    AllowedSubs = {owner}
    Tasks = {r1, r2}
    None = none
    PendingTtl = 2
    TokenTtl = 1
    MaxFlows = 2
    MaxLogins = 2
    MaxCodes = 2
    MaxTokens = 3
    MaxTime = 2
INVARIANTS
    TypeOK
    OneGrantPerFlow
    OneValidToken
PROPERTIES
    ImplementsOneTime
SYMMETRY Symmetric
CHECK_DEADLOCK FALSE
