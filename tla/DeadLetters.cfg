\* Refused statements in both consumers, and a second dead letter of one key
\* inside and outside the duplicate window.
CONSTANTS
    fil = fil  orp = orp  dfil = dfil  dorp = dorp  dd = dd
    tf = tf  td = td  p1 = p1  q1 = q1  q2 = q2  kf = kf
    Messages = {fil, orp, dfil, dorp, dd}
    Results = {fil, orp}
    Tasks = {tf, td}
    Recorders = {td}
    Processes = {p1}
    Host <- MCHost
    Readers <- MCReaders
    MaxDeliver = 2
    MaxFailures = 2
    Faults = {"db_refused", "dedupe_expiry"}
    Requests = {q1, q2}
    Recorded = {q1}
    ResultKeys = {kf}
    RequestOf <- MCRequestOf
    StatusOf <- MCStatusOf
    ResultKey <- MCResultKey
    DeadLetterOf <- MCDeadLetterOf
    MsgId <- MCMsgId
SPECIFICATION PipelineSpec
INVARIANTS PipelineTypeOK NoSilentLoss RowsAreFailures
PROPERTIES EventuallyRecorded
CHECK_DEADLOCK FALSE
