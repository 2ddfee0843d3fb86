\* Crashes, lost acks and failing statements; accepted and filled results of
\* one request in separate consumers, and an orphaned result.
CONSTANTS
    acc = acc  fil = fil  orp = orp  ta = ta  tf = tf  p1 = p1
    q1 = q1  q2 = q2  ka = ka  kf = kf  
    Messages = {acc, fil, orp}
    Results = {acc, fil, orp}
    Tasks = {ta, tf}
    Processes = {p1}
    Host <- OneHost
    Readers <- BySubject
    MaxDeliver = 2
    DeadLetterOf <- NotFollowed
    MsgId <- NotFollowed
    Faults = {"crash", "ack_lost", "db_refused", "db_unanswered"}
    Requests = {q1, q2}
    Recorded = {q1}
    ResultKeys = {ka, kf}
    RequestOf <- Answers
    StatusOf <- Reports
    ResultKey <- KeyOfResult
SPECIFICATION Spec
INVARIANTS TypeOK AckedIsRecorded OutcomeHasResult
PROPERTIES OutcomeIsNotUnmarked KeepsDelivery
CHECK_DEADLOCK FALSE
