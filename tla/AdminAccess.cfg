CONSTANTS
    r1 = r1
    r2 = r2
    r3 = r3
    r4 = r4
    Requests = {r1, r2, r3, r4}
    Clients = {"here", "there"}
    MaxRequests = 2
    Window = 2
    Horizon = 3
    Users = {"u", "v"}
    Passwords = {"p", "q"}
    StartPassword <- MCStartPassword
    Tokens = {"t"}
    OwnerOf <- MCOwnerOf
    Admins = {"u"}
    Nothing = Nothing
    EnvToken = "environment"
    EnvTokenAllowed = TRUE
    TTL = 1
    Skew = 1
    MaxChanges = 1
    Arrivals <- MCArrivals
    Faults = {"statement_fails", "answer_lost"}
SPECIFICATION Spec
CHECK_DEADLOCK FALSE
INVARIANTS
    TypeOK
    NoStaleAccess
    LoginsAudited
    LogoutsAudited
    WindowLimit
    RefusedWasFull
