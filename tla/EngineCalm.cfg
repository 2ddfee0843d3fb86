\* No failure, two relationships, two workers.
CONSTANTS
    m1 = m1  m2 = m2  t1 = t1  t2 = t2  p1 = p1  p2 = p2
    r1 = r1  r2 = r2  e1 = e1
    Messages = {m1}
    Tasks = {t1, t2}
    Processes = {p1, p2}
    Host <- TwoHosts
    Readers <- AllRead
    MaxDeliver = 2
    DeadLetterOf <- NotFollowed
    MsgId <- NotFollowed
    Faults = {}
    Rels = {r1, r2}
    EventKeys = {e1}
    EventKey <- OneEvent
    Follows <- AllFollow
    Malformed = {}
SPECIFICATION FairSpec
INVARIANTS OrderedRowsMarked AckedIsCopied
PROPERTIES EventuallyCopied
CHECK_DEADLOCK FALSE
