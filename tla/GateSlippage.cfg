\* A relationship with less slippage than the default.
CONSTANTS
    r1 = r1  r2 = r2  e1 = e1  e2 = e2  src = src  fol = fol  u1 = u1  eth = eth  btc = btc
    early = early  other = other  foreign = foreign
    Null = Null
    Rels = {r1}
    Accounts = {src, fol}
    Users = {u1}
    Events = {e1}
    MaxWrites = 0
    Bounds = {0, 1}
    Limits = {1}
    AccountStatuses = {"active"}
    SubscriptionStatuses = {"active"}
    DefaultSlippage = 1
    Source <- FollowsSrc
    Follower <- FollowedByFol
    Symbol <- EverySymbol
    Target <- SameTarget
    EffectiveFrom <- FromOne
    Owner <- OneOwner
    EventSource <- EventAccounts
    EventSymbol <- EventSymbols
    OccurredAt <- EventTimes
    Quantity <- Sizes
    Leverage <- Leverages
SPECIFICATION Spec
PROPERTY SlippageAsConfigured
CHECK_DEADLOCK FALSE
