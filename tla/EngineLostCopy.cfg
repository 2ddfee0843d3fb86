\* One lost publish while a second relationship is reserved.
CONSTANTS
    m1 = m1  m2 = m2  t1 = t1  t2 = t2  p1 = p1  p2 = p2
    r1 = r1  r2 = r2  e1 = e1
    Messages = {m1}
    Tasks = {t1}
    Processes = {p1}
    Host <- OneHost
    Readers <- AllRead
    MaxDeliver = 3
    DeadLetterOf <- NotFollowed
    MsgId <- NotFollowed
    Faults = {"publish_lost"}
    Rels = {r1, r2}
    EventKeys = {e1}
    EventKey <- OneEvent
    Follows <- AllFollow
    Malformed = {}
SPECIFICATION Spec
INVARIANT AckedIsCopied
CHECK_DEADLOCK FALSE
