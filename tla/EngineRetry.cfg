\* Publishes that are lost and ones that arrive late, one worker; a trade event
\* for one relationship and one that cannot be validated.
CONSTANTS
    m1 = m1  m2 = m2  t1 = t1  t2 = t2  p1 = p1  p2 = p2
    r1 = r1  r2 = r2  e1 = e1
    Messages = {m1, m2}
    Tasks = {t1}
    Processes = {p1}
    Host <- OneHost
    Readers <- AllRead
    MaxDeliver = 3
    DeadLetterOf <- NotFollowed
    MsgId <- NotFollowed
    Faults = {"publish_lost", "publish_ambiguous"}
    Rels = {r1}
    EventKeys = {e1}
    EventKey <- OneEvent
    Follows <- AllFollow
    Malformed = {m2}
SPECIFICATION FairSpec
INVARIANTS AckedIsCopied
PROPERTIES EventuallyCopied KeepsLedger
CHECK_DEADLOCK FALSE
