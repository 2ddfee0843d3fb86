\* Every content of small tables, one write at any moment; events within the
\* limits and above them, and events the relationship does not match.
CONSTANTS
    r1 = r1  r2 = r2  e1 = e1  e2 = e2  src = src  fol = fol  u1 = u1  eth = eth  btc = btc
    early = early  other = other  foreign = foreign
    Null = Null
    Rels = {r1}
    Accounts = {src, fol}
    Users = {u1}
    Events = {e1, e2, early, other, foreign}
    MaxWrites = 1
    Bounds = {1, 2}
    Limits = {1, Null}
    AccountStatuses = {"active", "disabled"}
    SubscriptionStatuses = {"trialing", "past_due"}
    DefaultSlippage = 1
    Source <- FollowsSrc
    Follower <- FollowedByFol
    Symbol <- EthOnly
    Target <- SameTarget
    EffectiveFrom <- FromOne
    Owner <- OneOwner
    EventSource <- EventAccounts
    EventSymbol <- EventSymbols
    OccurredAt <- EventTimes
    Quantity <- Sizes
    Leverage <- Leverages
SPECIFICATION Spec
INVARIANTS TypeOK IssuedWasDue DueIsIssued
CHECK_DEADLOCK FALSE
