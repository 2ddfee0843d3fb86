CONSTANTS
    r1 = r1
    r2 = r2
    r3 = r3
    Requests = {r1, r2, r3}
    Nobody = Nobody
    Data = {"v0", "v1", "v2"}
    PartialKey <- OneRoute
    Audited <- MCAudited
    Faults = {"connection_lost"}
    Rows <- MCRows
    Parent <- MCParent
    Table <- MCTable
    Rivals <- MCRivals
    Arrivals <- MCArrivals
    Contents <- MCContents
SPECIFICATION Spec
CHECK_DEADLOCK FALSE
INVARIANTS
    TypeOK
    OneRowPerKey
    OneSuccessor
    AnswerIsTrue
     NoWaitCycle
PROPERTIES
    KeepsAuditedLog
    EveryRequestAnswered
