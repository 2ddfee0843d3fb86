\* Failing statements, lost publishes, crashes that leave a publish on its way,
\* lost acknowledgements and an expiring duplicate window, one event in the
\* hands of two workers.
CONSTANTS
    m1 = m1  m2 = m2  t1 = t1  t2 = t2  p1 = p1  p2 = p2
    r1 = r1  r2 = r2  e1 = e1
    Messages = {m1}
    Tasks = {t1, t2}
    Processes = {p1, p2}
    Host <- TwoHosts
    Readers <- AllRead
    MaxDeliver = 2
    DeadLetterOf <- NotFollowed
    MsgId <- NotFollowed
    Faults = {"crash", "ack_lost", "db_refused", "db_unanswered", "publish_lost", "dedupe_expiry",
              "delivery_lost", "dlq_lost", "dlq_ambiguous"}
    Rels = {r1}
    EventKeys = {e1}
    EventKey <- OneEvent
    Follows <- AllFollow
    Malformed = {}
SPECIFICATION Spec
INVARIANTS TypeOK AckedIsSettled DeadLetterOnlyAtLimit OneHolder NoDuplicateOrder PublishedRowIsReal RecordedBeforeOrdered
PROPERTIES KeepsLedger
CHECK_DEADLOCK FALSE
