-------------------------- MODULE AdminAccessProofs --------------------------
(***************************************************************************)
(* Proofs about AdminAccess, for any requests, users, tokens, operators'   *)
(* changes and clock.  A request goes through its statements in a fixed    *)
(* order (Stage), what was dead stays dead (DeadGrows), and of each        *)
(* session at most one request is or was its revoker (Story).              *)
(***************************************************************************)
EXTENDS AdminAccess, RateLimiterProofs

LoginSteps == {"select_login", "record_failure", "insert_session"}
LogoutSteps == {"revoke", "audit_logout"}
SessionSteps == {"select_session", "touch_session"} \cup LogoutSteps
TokenSteps == {"select_token", "touch_token"}

\* Which statements a kind of request has.
Stage(r) ==
    /\ pc[r] \in LoginSteps => op[r].kind = "login"
    /\ pc[r] \in SessionSteps => op[r].kind # "login" /\ op[r].cookie \in Requests
    /\ pc[r] \in LogoutSteps => op[r].kind = "logout"
    /\ pc[r] \in TokenSteps => op[r].kind = "admin"

\* Who is past a check showed something that was alive after the arrival.
Admitted(r) ==
    /\ pc[r] \in {"touch_session", "served_session", "ok"} \cup LogoutSteps =>
         op[r].cookie \notin dead[r]
    /\ pc[r] \in {"touch_token", "served_token"} => op[r].token \notin dead[r]
    /\ dead[r] \subseteq Dead

\* What a login or logout has done when it gets there.
Outcome(r) ==
    /\ op[r].kind = "login" =>
         /\ pc[r] \in {"new"} \cup LoginSteps => session[r].state = "none"
         /\ pc[r] = "ok" => session[r].state # "none"
         /\ pc[r] = "unauthorized" => Logged("login_failed", r, r)
    /\ pc[r] = "audit_logout" => session[op[r].cookie].state = "revoked"
    /\ op[r].kind = "logout" /\ pc[r] = "ok" /\ op[r].cookie # Nothing =>
         session[op[r].cookie].state = "revoked"

Local(r) == Stage(r) /\ Admitted(r) /\ Outcome(r)

\* q has revoked s and has logged it or is about to.
Revokes(q, s) ==
    \/ Logged("logout", s, q)
    \/ pc[q] = "audit_logout" /\ op[q].cookie = s

RevokedBySomeone(s) ==
    session[s].state = "revoked" =>
        \E q \in Requests : /\ op[q].kind = "logout" /\ op[q].cookie = s
                            /\ \/ Logged("logout", s, q)
                               \/ pc[q] \in {"audit_logout", "error"}

OneRevoker(s) ==
    /\ \A q \in Requests : Revokes(q, s) => session[s].state = "revoked"
    /\ \A p, q \in Requests : Revokes(p, s) /\ Revokes(q, s) => p = q

LoggedIn(s) == session[s].state # "none" <=> Logged("login_succeeded", s, s)

Story(s) == RevokedBySomeone(s) /\ OneRevoker(s) /\ LoggedIn(s)

AccessInv ==
    /\ TypeOK
    /\ op \in Arrivals
    /\ \A r \in Requests : Local(r) /\ Story(r)

-----------------------------------------------------------------------------
(* The limiter inside the API.                                             *)

\* Only an arrival and the clock touch the limiter.
LEMMA StepUsesLimiter ==
    op \in Arrivals /\ [Next]_vars => (op \in Arrivals)' /\ [LimiterNext]_limiterVars
<1> SUFFICES ASSUME op \in Arrivals, [Next]_vars
             PROVE  (op \in Arrivals)' /\ [LimiterNext]_limiterVars
  OBVIOUS
<1>1. CASE UNCHANGED vars
  BY <1>1 DEF vars
<1>2. ASSUME NEW r \in Requests, Arrive(r)
      PROVE  op' = op /\ [LimiterNext]_limiterVars
  <2>1. op[r].client \in Clients
    BY ArrivalAssumption
  <2> QED
    BY <1>2, <2>1 DEF Arrive, LimiterNext
<1>3. ASSUME NEW r \in Requests, RequestStep(r), ~Arrive(r)
      PROVE  op' = op /\ UNCHANGED limiterVars
  BY <1>3 DEF RequestStep, SelectLogin, RecordFailedLogin, InsertAudit, InsertSession,
              SelectSession, TouchSession, Revoke, RevokeRow, AuditLogout, SelectToken,
              TouchToken, StatementFails, Read
<1>4. CASE Operators
  BY <1>4 DEF Operators, DisableUser, ReplacePassword, DeactivateToken
<1>5. CASE Tick /\ UNCHANGED <<dbVars, op, pc, changes, dead>>
  BY <1>5 DEF LimiterNext
<1> QED
  BY <1>1, <1>2, <1>3, <1>4, <1>5 DEF Next

\* Every behaviour of the API is one of the limiter: its theorems carry over
\* to the requests that rate_limit.py's middleware sees.
THEOREM AccessUsesLimiter == Spec => LimiterSpec
<1>1. Init => LimiterInit /\ op \in Arrivals
  BY DEF Init
<1> QED
  BY <1>1, StepUsesLimiter, PTL DEF Spec, LimiterSpec

-----------------------------------------------------------------------------
(* What all steps have in common.                                          *)

\* What the middleware and the routers may rely on in a request.
LEMMA RequestFacts ==
    ASSUME op \in Arrivals, NEW r \in Requests
    PROVE  /\ op[r].kind \in {"admin", "login", "logout", "session"}
           /\ op[r].cookie \in Requests \cup {Nothing}
           /\ op[r].kind = "login" => op[r].cookie = Nothing
BY ArrivalAssumption

\* An exception ends a request; one of the admin dependency may still be
\* saved by the environment's token.
LEMMA RaisedAnswers ==
    ASSUME NEW r \in Requests
    PROVE  /\ Raised(r) \in {"served_environment", "unavailable", "error"}
           /\ op[r].kind # "admin" => Raised(r) = "error"
BY DEF Raised

\* After a statement the request is where the code goes on, or has failed.
LEMMA ThenMoves ==
    ASSUME NEW r \in Requests, NEW s, Then(r, s)
    PROVE  \E a \in {s, Raised(r)} : pc' = [pc EXCEPT ![r] = a]
BY DEF Then, Goto

\* What was dead stays dead.
LEMMA DeadGrows ==
    ASSUME TypeOK, LimiterTypeOK', now <= now', op' = op,
           enabled' \subseteq enabled, active' \subseteq active,
           \A s \in Requests :
               session[s].state # "none" =>
                   /\ session'[s].state \in {session[s].state, "revoked"}
                   /\ session'[s].expires = session[s].expires
    PROVE  Dead \subseteq Dead'
<1>1. ASSUME NEW s \in Requests, session[s].state # "none", ~Live(s)
      PROVE  session'[s].state # "none" /\ ~Live(s)'
  <2>1. /\ session[s].expires \in Nat /\ now \in Nat /\ now' \in Nat
        /\ session[s].state \in {"none", "live", "revoked"}
    BY DEF TypeOK, SessionsTypeOK, LimiterTypeOK
  <2> QED
    BY <1>1, <2>1 DEF Live, UserOf
<1>2. ASSUME NEW t \in Tokens, ~LiveToken(t)
      PROVE  ~LiveToken(t)'
  BY <1>2 DEF LiveToken
<1> QED
  BY <1>1, <1>2 DEF Dead

\* A request that does not move keeps its invariant while others go on.
LEMMA OthersLocal ==
    ASSUME NEW q \in Requests, Local(q), op' = op, op \in Arrivals,
           pc'[q] = pc[q], dead'[q] = dead[q],
           audit \subseteq audit', Dead \subseteq Dead',
           session'[q].state = "none" <=> session[q].state = "none",
           \A s \in Requests : session[s].state = "revoked" => session'[s].state = "revoked"
    PROVE  Local(q)'
<1> USE RequestFacts
<1>1. Stage(q)'
  BY DEF Local, Stage
<1>2. Admitted(q)'
  BY DEF Local, Admitted
<1>3. Outcome(q)'
  BY DEF Local, Outcome, Stage, Logged, SessionSteps, LogoutSteps
<1> QED
  BY <1>1, <1>2, <1>3 DEF Local

\* A request that only goes on: r moves to a and the tables stay.
LEMMA QuietMove ==
    ASSUME AccessInv, NEW r \in Requests, NEW a \in Statements \cup Answers,
           pc' = [pc EXCEPT ![r] = a], UNCHANGED <<dbVars, op>>,
           \A q \in Requests \ {r} : dead'[q] = dead[q],
           Dead' = Dead, Local(r)',
           pc[r] # "error", a # "audit_logout", pc[r] = "audit_logout" => a = "error"
    PROVE  \A q \in Requests : (Local(q) /\ Story(q))'
<1>1. pc \in [Requests -> {"new"} \cup Statements \cup Answers]
  BY DEF AccessInv, TypeOK, SessionsTypeOK
<1>2. \A q \in Requests : Local(q)'
  <2> TAKE q \in Requests
  <2>1. CASE q # r
    BY <2>1, <1>1, OthersLocal DEF AccessInv, dbVars
  <2> QED
    BY <2>1
<1>3. \A s \in Requests : Story(s)'
  <2> TAKE s \in Requests
  <2>1. RevokedBySomeone(s) /\ OneRevoker(s) /\ LoggedIn(s)
    BY DEF AccessInv, Story
  <2>2. audit' = audit /\ session' = session /\ op' = op
    BY DEF dbVars
  <2>3. RevokedBySomeone(s)'
    BY <2>1, <2>2, <1>1 DEF RevokedBySomeone, Logged
  <2>4. OneRevoker(s)'
    BY <2>1, <2>2, <1>1 DEF OneRevoker, Revokes, Logged
  <2>5. LoggedIn(s)'
    BY <2>1, <2>2 DEF LoggedIn, Logged
  <2> QED
    BY <2>3, <2>4, <2>5 DEF Story
<1> QED
  BY <1>2, <1>3

-----------------------------------------------------------------------------
(* Types.                                                                  *)

\* Every step keeps the types.
LEMMA TypeStep ==
    ASSUME AccessInv, [Next]_vars, LimiterTypeOK'
    PROVE  TypeOK'
<1> USE SessionAssumption DEF SessionAssumption
<1>0. /\ enabled \subseteq Users
      /\ password \in [Users -> Passwords \cup {Nothing}]
      /\ active \subseteq Tokens
      /\ session \in [Requests -> [expires : Nat, state : {"none", "live", "revoked"}]]
      /\ audit \subseteq Entry
      /\ pc \in [Requests -> {"new"} \cup Statements \cup Answers]
      /\ changes \in 0..MaxChanges
      /\ dead \in [Requests -> SUBSET (Requests \cup Tokens)]
      /\ now \in Nat
  BY DEF AccessInv, TypeOK, SessionsTypeOK, LimiterTypeOK
<1> DEFINE Same == UNCHANGED <<enabled, password, active, changes, dead>>
<1>1. ASSUME NEW r \in Requests, NEW s \in Statements \cup Answers, Then(r, s)
      PROVE  pc' \in [Requests -> {"new"} \cup Statements \cup Answers]
  <2>1. Raised(r) \in Statements \cup Answers
    BY RaisedAnswers DEF Answers, Served
  <2> QED
    BY <1>0, <1>1, <2>1, ThenMoves
<1>2. ASSUME Same, session' \in [Requests -> [expires : Nat, state : {"none", "live", "revoked"}]],
             audit' \subseteq Entry,
             pc' \in [Requests -> {"new"} \cup Statements \cup Answers]
      PROVE  TypeOK'
  BY <1>0, <1>2 DEF TypeOK, SessionsTypeOK
<1>3. ASSUME NEW r \in Requests, NEW s \in Statements \cup Answers, Read(r, s)
      PROVE  TypeOK'
  BY <1>0, <1>1, <1>2, <1>3 DEF Read, dbVars
<1>4. ASSUME NEW r \in Requests, NEW x \in {"login_failed", "logout"},
             NEW s \in Requests, NEW n \in Statements \cup Answers, InsertAudit(r, x, s, n)
      PROVE  TypeOK'
  <2>1. audit' \subseteq Entry
    BY <1>0, <1>4 DEF InsertAudit, Log, Entry
  <2> QED
    BY <1>0, <1>1, <1>2, <1>4, <2>1 DEF InsertAudit
<1>5. ASSUME NEW r \in Requests, Arrive(r)
      PROVE  TypeOK'
  <2>1. FirstStep(r) \in Statements \cup Answers
    BY DEF FirstStep, WithSession, Statements, Answers
  <2>2. pc' \in [Requests -> {"new"} \cup Statements \cup Answers]
    BY <1>0, <1>5, <2>1 DEF Arrive, Goto, Answers
  <2>3. Dead \in SUBSET (Requests \cup Tokens)
    BY DEF Dead
  <2>4. dead' \in [Requests -> SUBSET (Requests \cup Tokens)]
    BY <1>0, <1>5, <2>3 DEF Arrive
  <2> QED
    BY <1>0, <1>5, <2>2, <2>4 DEF Arrive, TypeOK, SessionsTypeOK, dbVars
<1>6. ASSUME NEW r \in Requests, SelectLogin(r)
      PROVE  TypeOK'
  <2>1. session' \in [Requests -> [expires : Nat, state : {"none", "live", "revoked"}]]
    BY <1>0, <1>6 DEF SelectLogin
  <2>2. pc' \in [Requests -> {"new"} \cup Statements \cup Answers]
    BY <1>1, <1>6 DEF SelectLogin, Statements
  <2> QED
    BY <1>0, <1>2, <1>6, <2>1, <2>2 DEF SelectLogin
<1>7. ASSUME NEW r \in Requests, RecordFailedLogin(r)
      PROVE  TypeOK'
  BY <1>4, <1>7 DEF RecordFailedLogin, Answers
<1>8. ASSUME NEW r \in Requests, InsertSession(r)
      PROVE  TypeOK'
  <2>1. session' \in [Requests -> [expires : Nat, state : {"none", "live", "revoked"}]]
    BY <1>0, <1>8 DEF InsertSession
  <2>2. audit' \subseteq Entry
    BY <1>0, <1>8 DEF InsertSession, Log, Entry
  <2> QED
    BY <1>0, <1>1, <1>2, <1>8, <2>1, <2>2 DEF InsertSession, Answers
<1>9. ASSUME NEW r \in Requests, SelectSession(r)
      PROVE  TypeOK'
  <2>1. \E s \in Statements \cup Answers : Read(r, s)
    BY <1>9 DEF SelectSession, Statements, Answers
  <2> QED
    BY <2>1, <1>3
<1>10. ASSUME NEW r \in Requests, TouchSession(r)
       PROVE  TypeOK'
  <2>1. Authenticated(r) \in Statements \cup Answers
    BY DEF Authenticated, Statements, Answers, Served
  <2> QED
    BY <2>1, <1>3, <1>10 DEF TouchSession
<1>11. ASSUME NEW r \in Requests, RevokeRow(r)
       PROVE  TypeOK'
  <2>1. session' \in [Requests -> [expires : Nat, state : {"none", "live", "revoked"}]]
    BY <1>0, <1>11 DEF RevokeRow
  <2> QED
    BY <1>0, <1>1, <1>2, <1>11, <2>1 DEF RevokeRow, Statements
<1>12. ASSUME NEW r \in Requests, Revoke(r)
       PROVE  TypeOK'
  BY <1>3, <1>11, <1>12 DEF Revoke, Answers
<1>13. ASSUME NEW r \in Requests, AuditLogout(r)
       PROVE  TypeOK'
  <2>1. op[r].cookie \in Requests
    BY <1>13 DEF AuditLogout, AccessInv, Local, Stage, SessionSteps, LogoutSteps
  <2> QED
    BY <1>4, <1>13, <2>1 DEF AuditLogout, Answers
<1>14. ASSUME NEW r \in Requests, SelectToken(r) \/ TouchToken(r)
       PROVE  TypeOK'
  <2>1. \E s \in Statements \cup Answers : Read(r, s)
    BY <1>14 DEF SelectToken, TouchToken, AfterToken, WithSession, Statements, Answers, Served
  <2> QED
    BY <2>1, <1>3
<1>15. ASSUME NEW r \in Requests, StatementFails(r)
       PROVE  TypeOK'
  <2>1. Raised(r) \in Answers
    BY RaisedAnswers DEF Answers, Served
  <2> QED
    BY <1>0, <1>2, <1>15, <2>1 DEF StatementFails, Goto, dbVars
<1>16. CASE Operators
  <2>1. changes' \in 0..MaxChanges
    BY <1>0, <1>16 DEF Operators, DisableUser, ReplacePassword, DeactivateToken, Change
  <2> QED
    BY <1>0, <1>16, <2>1 DEF Operators, DisableUser, ReplacePassword, DeactivateToken,
                            TypeOK, SessionsTypeOK
<1>17. CASE UNCHANGED vars \/ (Tick /\ UNCHANGED <<dbVars, op, pc, changes, dead>>)
  BY <1>0, <1>17 DEF TypeOK, SessionsTypeOK, vars, dbVars
<1> QED
  BY <1>5, <1>6, <1>7, <1>8, <1>9, <1>10, <1>12, <1>13, <1>14, <1>15, <1>16, <1>17
     DEF Next, RequestStep

-----------------------------------------------------------------------------
(* The steps.                                                              *)

\* The invariant holds at first: nothing is audited and no request has run.
LEMMA Init_AccessInv == Init => AccessInv
<1> SUFFICES ASSUME Init
             PROVE  AccessInv
  OBVIOUS
<1>1. op \in Arrivals /\ audit = {} /\ \A r \in Requests : pc[r] = "new" /\ dead[r] = {}
                                        /\ session[r].state = "none"
  BY DEF Init
<1>2. TypeOK
  <2>1. LimiterTypeOK
    BY LimiterInit_Inv DEF Init, LimiterInv
  <2>2. password \in [Users -> Passwords \cup {Nothing}] /\ changes \in 0..MaxChanges
    BY ArrivalAssumption, SessionAssumption DEF Init
  <2> QED
    BY <2>1, <2>2 DEF Init, TypeOK, SessionsTypeOK
<1>3. ASSUME NEW r \in Requests
      PROVE  Local(r) /\ Story(r)
  <2>1. Local(r)
    BY <1>1 DEF Local, Stage, Admitted, Outcome, LoginSteps, SessionSteps, LogoutSteps, TokenSteps
  <2>2. Story(r)
    BY <1>1 DEF Story, RevokedBySomeone, OneRevoker, Revokes, LoggedIn, Logged
  <2> QED
    BY <2>1, <2>2
<1> QED
  BY <1>1, <1>2, <1>3 DEF AccessInv

\* The parts of the invariant that the steps use.
LEMMA Parts ==
    ASSUME AccessInv
    PROVE  /\ op \in Arrivals
           /\ pc \in [Requests -> {"new"} \cup Statements \cup Answers]
           /\ session \in [Requests -> [expires : Nat, state : {"none", "live", "revoked"}]]
           /\ dead \in [Requests -> SUBSET (Requests \cup Tokens)]
           /\ now \in Nat
           /\ \A r \in Requests : Stage(r) /\ Admitted(r) /\ Outcome(r) /\ Story(r)
BY DEF AccessInv, TypeOK, SessionsTypeOK, LimiterTypeOK, Local

\* The middleware and the dispatch: nothing was decided for this request yet.
LEMMA ArriveStep ==
    ASSUME AccessInv, LimiterTypeOK', NEW r \in Requests, Arrive(r)
    PROVE  \A q \in Requests : (Local(q) /\ Story(q))'
<1> USE Parts, RequestFacts
<1>1. PICK a \in {FirstStep(r), "limited"} : pc' = [pc EXCEPT ![r] = a]
  BY DEF Arrive, Goto
<1>2. /\ pc[r] = "new" /\ UNCHANGED <<dbVars, op>> /\ dead' = [dead EXCEPT ![r] = Dead]
      /\ now' = now
  BY DEF Arrive, Allow, Refuse, limiterVars
<1>3. Dead' = Dead
  BY <1>2 DEF Dead, Live, LiveToken, UserOf, dbVars
<1>4. /\ a \in Statements \cup Answers
      /\ a \in {"select_login", "select_session", "select_token", "ok", "unauthorized", "limited"}
      /\ a = "select_login" <=> op[r].kind = "login" /\ a # "limited"
      /\ a = "select_token" => op[r].kind = "admin"
      /\ a = "ok" => op[r].cookie = Nothing /\ op[r].kind = "logout"
      /\ a = "select_session" => op[r].cookie # Nothing
  BY DEF FirstStep, WithSession, Statements, Answers
<1>5. pc'[r] = a /\ dead'[r] = Dead
  BY <1>1, <1>2
<1>6. Local(r)'
  <2>1. Stage(r)'
    BY <1>2, <1>4, <1>5 DEF Stage, LoginSteps, SessionSteps, LogoutSteps, TokenSteps
  <2>2. Admitted(r)'
    <3>1. Nothing \notin Dead
      BY ArrivalAssumption DEF Dead
    <3> QED
      BY <1>2, <1>3, <1>4, <1>5, <3>1 DEF Admitted, LogoutSteps
  <2>3. Outcome(r)'
    BY <1>2, <1>4, <1>5 DEF Outcome, LoginSteps, dbVars
  <2> QED
    BY <2>1, <2>2, <2>3 DEF Local
<1>7. \A q \in Requests \ {r} : dead'[q] = dead[q]
  BY <1>2
<1> QED
  BY <1>1, <1>2, <1>3, <1>4, <1>6, <1>7, QuietMove

\* A statement without effect, or one whose effect no other request sees,
\* for every place a that Local allows next.
LEMMA ReadStep ==
    ASSUME AccessInv, NEW r \in Requests, NEW s \in Statements \cup Answers, Read(r, s),
           pc[r] \notin {"error", "audit_logout"}, s # "audit_logout",
           \A a \in {s, Raised(r)} : pc'[r] = a => Local(r)'
    PROVE  \A q \in Requests : (Local(q) /\ Story(q))'
<1>1. PICK a \in {s, Raised(r)} : pc' = [pc EXCEPT ![r] = a]
  BY ThenMoves DEF Read
<1>2. a \in Statements \cup Answers /\ a # "audit_logout"
  BY RaisedAnswers DEF Answers, Served
<1>3. UNCHANGED <<dbVars, op, dead, now>>
  BY DEF Read, limiterVars
<1>4. Dead' = Dead
  BY <1>3 DEF Dead, Live, LiveToken, UserOf, dbVars
<1>5. pc'[r] = a
  BY <1>1, Parts
<1> QED
  BY <1>1, <1>2, <1>3, <1>4, <1>5, QuietMove

\* An exception: what was done stays done, and the answer claims nothing.
LEMMA FailedLocal ==
    ASSUME AccessInv, NEW r \in Requests, pc'[r] \in {"served_environment", "unavailable", "error"},
           UNCHANGED <<dbVars, op, dead>>, Dead' = Dead
    PROVE  Local(r)'
BY Parts DEF Local, Stage, Admitted, Outcome, LoginSteps, SessionSteps, LogoutSteps,
             TokenSteps, dbVars

\* A statement that raises answers the request and writes nothing.
LEMMA FailStep ==
    ASSUME AccessInv, NEW r \in Requests, StatementFails(r)
    PROVE  \A q \in Requests : (Local(q) /\ Story(q))'
<1> DEFINE a == Raised(r)
<1>1. pc' = [pc EXCEPT ![r] = a] /\ UNCHANGED <<dbVars, op, dead, now>> /\ pc[r] \in Statements
  BY DEF StatementFails, Goto, limiterVars
<1>2. /\ a \in {"served_environment", "unavailable", "error"}
      /\ pc[r] = "audit_logout" => a = "error"
  BY RaisedAnswers, Parts DEF Stage, LogoutSteps, TokenSteps
<1>3. a \in Statements \cup Answers /\ a # "audit_logout" /\ pc[r] # "error"
  BY <1>1, <1>2 DEF Answers, Served, Statements
<1>4. Dead' = Dead
  BY <1>1 DEF Dead, Live, LiveToken, UserOf, dbVars
<1>5. pc'[r] = a
  BY <1>1, Parts
<1>6. Local(r)'
  BY <1>1, <1>2, <1>4, <1>5, FailedLocal
<1> QED
  BY <1>1, <1>2, <1>3, <1>4, <1>6, QuietMove

\* A session that is found makes the request the session's own.
LEMMA SelectSessionStep ==
    ASSUME AccessInv, NEW r \in Requests, SelectSession(r)
    PROVE  \A q \in Requests : (Local(q) /\ Story(q))'
<1> USE Parts, RequestFacts
<1> DEFINE s == IF Found(op[r].cookie) /\ (NeedsCsrf(r) => op[r].csrf)
                THEN "touch_session" ELSE "unauthorized"
<1>1. Read(r, s) /\ pc[r] = "select_session"
  BY DEF SelectSession
<1>2. UNCHANGED <<dbVars, op, dead>> /\ Dead' = Dead
  BY <1>1 DEF Read, Dead, Live, LiveToken, UserOf, dbVars, limiterVars
<1>3. op[r].kind # "login" /\ op[r].cookie \in Requests
  BY <1>1 DEF Stage, SessionSteps
<1>4. s = "touch_session" => op[r].cookie \notin dead[r]
  BY <1>3, ArrivalAssumption DEF Admitted, Dead, Found
<1>5. ASSUME NEW a \in {s, Raised(r)}, pc'[r] = a
      PROVE  Local(r)'
  <2>1. CASE a = s
    BY <1>2, <1>3, <1>4, <1>5, <2>1 DEF Local, Stage, Admitted, Outcome, LoginSteps,
       SessionSteps, LogoutSteps, TokenSteps, dbVars
  <2>2. CASE a = Raised(r)
    BY <1>2, <1>5, <2>2, RaisedAnswers, FailedLocal
  <2> QED
    BY <2>1, <2>2
<1> QED
  BY <1>1, <1>5, ReadStep DEF Statements, Answers

\* The session was alive when its row was read; it may be dead by now.
LEMMA TouchSessionStep ==
    ASSUME AccessInv, NEW r \in Requests, TouchSession(r)
    PROVE  \A q \in Requests : (Local(q) /\ Story(q))'
<1> USE Parts, RequestFacts
<1>1. Read(r, Authenticated(r)) /\ pc[r] = "touch_session"
  BY DEF TouchSession
<1>2. UNCHANGED <<dbVars, op, dead>> /\ Dead' = Dead
  BY <1>1 DEF Read, Dead, Live, LiveToken, UserOf, dbVars, limiterVars
<1>3. /\ op[r].kind # "login" /\ op[r].cookie \in Requests
      /\ op[r].cookie \notin dead[r]
  BY <1>1 DEF Stage, Admitted, SessionSteps
<1>4. /\ Authenticated(r) \in {"revoke", "ok", "served_session", "unauthorized"}
      /\ Authenticated(r) = "revoke" <=> op[r].kind = "logout"
  <2>1. CASE op[r].kind = "logout"
    BY <2>1 DEF Authenticated
  <2>2. CASE op[r].kind = "session"
    BY <2>2 DEF Authenticated
  <2>3. CASE op[r].kind = "admin" /\ UserOf(op[r].cookie) \in Admins
    BY <2>3 DEF Authenticated
  <2>4. CASE op[r].kind = "admin" /\ UserOf(op[r].cookie) \notin Admins
    BY <2>4 DEF Authenticated
  <2> QED
    BY <1>3, <2>1, <2>2, <2>3, <2>4
<1>5. ASSUME NEW a \in {Authenticated(r), Raised(r)}, pc'[r] = a
      PROVE  Local(r)'
  <2>1. CASE a = Authenticated(r)
    <3>1. Stage(r)'
      BY <1>2, <1>3, <1>4, <1>5, <2>1 DEF Stage, LoginSteps, SessionSteps, LogoutSteps, TokenSteps
    <3>2. Admitted(r)'
      BY <1>2, <1>3, <1>4, <1>5, <2>1 DEF Admitted, LogoutSteps
    <3>3. Outcome(r)'
      BY <1>2, <1>3, <1>4, <1>5, <2>1 DEF Outcome, LoginSteps
    <3> QED
      BY <3>1, <3>2, <3>3 DEF Local
  <2>2. CASE a = Raised(r)
    BY <1>2, <1>5, <2>2, RaisedAnswers, FailedLocal
  <2> QED
    BY <2>1, <2>2
<1> QED
  BY <1>1, <1>4, <1>5, ReadStep DEF Statements, Answers, Served

\* The two statements on an admin token.
LEMMA TokenStep ==
    ASSUME AccessInv, NEW r \in Requests, SelectToken(r) \/ TouchToken(r)
    PROVE  \A q \in Requests : (Local(q) /\ Story(q))'
<1> USE Parts, RequestFacts
<1> DEFINE accepted == op[r].token \in Tokens /\ LiveToken(op[r].token)
                       /\ OwnerOf[op[r].token] \in Admins
           s == IF pc[r] = "touch_token" THEN "served_token"
                ELSE IF accepted THEN "touch_token" ELSE AfterToken(r)
<1>1. Read(r, s) /\ pc[r] \in TokenSteps
  BY DEF SelectToken, TouchToken, TokenSteps
<1>2. UNCHANGED <<dbVars, op, dead>> /\ Dead' = Dead
  BY <1>1 DEF Read, Dead, Live, LiveToken, UserOf, dbVars, limiterVars
<1>3. op[r].kind = "admin"
  BY <1>1 DEF Stage
<1>4. s \in {"touch_token", "served_token"} => op[r].token \notin dead[r]
  <2>1. accepted => op[r].token \notin Dead
    BY ArrivalAssumption DEF Dead
  <2> QED
    BY <2>1, <1>1 DEF Admitted, AfterToken, WithSession
<1>5. /\ s \in {"touch_token", "served_token", "served_environment", "unauthorized", "select_session"}
      /\ s = "select_session" => op[r].cookie \in Requests
  BY DEF AfterToken, WithSession
<1>6. ASSUME NEW a \in {s, Raised(r)}, pc'[r] = a
      PROVE  Local(r)'
  <2>1. CASE a = s
    <3> HIDE DEF s
    <3>1. Stage(r)'
      BY <1>2, <1>3, <1>5, <1>6, <2>1 DEF Stage, LoginSteps, SessionSteps, LogoutSteps, TokenSteps
    <3>2. Admitted(r)'
      BY <1>2, <1>4, <1>5, <1>6, <2>1 DEF Admitted, LogoutSteps
    <3>3. Outcome(r)'
      BY <1>2, <1>3, <1>5, <1>6, <2>1 DEF Outcome
    <3> QED
      BY <3>1, <3>2, <3>3 DEF Local
  <2>2. CASE a = Raised(r)
    BY <1>2, <1>6, <2>2, RaisedAnswers, FailedLocal
  <2> QED
    BY <2>1, <2>2
<1>7. s \in Statements \cup Answers /\ s # "audit_logout" /\ pc[r] \notin {"error", "audit_logout"}
  BY <1>1, <1>5 DEF Statements, Answers, Served, TokenSteps
<1> HIDE DEF s
<1> QED
  BY <1>1, <1>6, <1>7, ReadStep

\* A login that has not been stored yet: only its own future expiry is set.
LEMMA SelectLoginStep ==
    ASSUME AccessInv, LimiterTypeOK', NEW r \in Requests, SelectLogin(r)
    PROVE  \A q \in Requests : (Local(q) /\ Story(q))'
<1> USE Parts, RequestFacts
<1>1. /\ pc[r] = "select_login"
      /\ UNCHANGED <<now, enabled, password, active, audit, op, dead>>
      /\ session' = [session EXCEPT ![r].expires = now + Skew + TTL]
  BY DEF SelectLogin, limiterVars
<1>2. PICK a \in {"insert_session", "record_failure", Raised(r)} : pc' = [pc EXCEPT ![r] = a]
  BY ThenMoves DEF SelectLogin
<1>3. op[r].kind = "login" /\ session[r].state = "none"
  BY <1>1 DEF Stage, Outcome, LoginSteps
<1>4. a \in {"insert_session", "record_failure", "error"}
  BY <1>1, <1>3, RaisedAnswers DEF TokenSteps
<1>5. \A s \in Requests : /\ session'[s].state = session[s].state
                          /\ s # r => session'[s] = session[s]
  BY <1>1
<1>6. Dead \subseteq Dead'
  <2>1. TypeOK /\ now <= now'
    BY <1>1 DEF AccessInv
  <2> QED
    BY <1>1, <1>3, <1>5, <2>1, DeadGrows
<1>7. Local(r)'
  <2>1. pc'[r] = a
    BY <1>2
  <2>2. Stage(r)'
    BY <1>1, <1>3, <1>4, <2>1 DEF Stage, LoginSteps, SessionSteps, LogoutSteps, TokenSteps
  <2>3. Admitted(r)'
    BY <1>1, <1>4, <1>6, <2>1 DEF Admitted, LogoutSteps
  <2>4. Outcome(r)'
    BY <1>1, <1>3, <1>4, <1>5, <2>1 DEF Outcome
  <2> QED
    BY <2>2, <2>3, <2>4 DEF Local
<1>8. ASSUME NEW q \in Requests, q # r
      PROVE  Local(q)'
  BY <1>1, <1>2, <1>5, <1>6, <1>8, OthersLocal DEF Local
<1>9. ASSUME NEW s \in Requests
      PROVE  Story(s)'
  <2>1. \A q \in Requests : /\ pc[q] = "audit_logout" <=> pc'[q] = "audit_logout"
                            /\ pc[q] = "error" => pc'[q] = "error"
    BY <1>1, <1>2, <1>4
  <2>2. RevokedBySomeone(s)'
    <3>1. session'[s].state = "revoked" => session[s].state = "revoked"
      BY <1>5
    <3>2. RevokedBySomeone(s)
      BY DEF Story
    <3> QED
      BY <1>1, <2>1, <3>1, <3>2 DEF RevokedBySomeone, Logged
  <2>3. OneRevoker(s)'
    BY <1>1, <1>5, <2>1 DEF Story, OneRevoker, Revokes, Logged
  <2>4. LoggedIn(s)'
    BY <1>1, <1>5 DEF Story, LoggedIn, Logged
  <2> QED
    BY <2>2, <2>3, <2>4 DEF Story
<1> QED
  BY <1>7, <1>8, <1>9

\* A failed login is audited by the request that failed.
LEMMA RecordFailedLoginStep ==
    ASSUME AccessInv, NEW r \in Requests, RecordFailedLogin(r)
    PROVE  \A q \in Requests : (Local(q) /\ Story(q))'
<1> USE Parts, RequestFacts
<1>1. /\ pc[r] = "record_failure"
      /\ UNCHANGED <<now, enabled, password, active, session, op, dead>>
      /\ audit' = audit \cup {[action |-> "login_failed", session |-> r, by |-> r]}
  BY DEF RecordFailedLogin, InsertAudit, Log, limiterVars
<1>2. PICK a \in {"unauthorized", Raised(r)} : pc' = [pc EXCEPT ![r] = a]
  BY ThenMoves DEF RecordFailedLogin, InsertAudit
<1>3. op[r].kind = "login" /\ session[r].state = "none"
  BY <1>1 DEF Stage, Outcome, LoginSteps
<1>4. a \in {"unauthorized", "error"} /\ pc'[r] = a
  BY <1>2, <1>3, RaisedAnswers
<1>5. Dead' = Dead
  BY <1>1 DEF Dead, Live, LiveToken, UserOf
<1>6. Local(r)'
  <2>1. Stage(r)' /\ Admitted(r)'
    BY <1>1, <1>4, <1>5 DEF Stage, Admitted, LoginSteps, SessionSteps, LogoutSteps, TokenSteps
  <2>2. Outcome(r)'
    BY <1>1, <1>3, <1>4 DEF Outcome, Logged, LoginSteps
  <2> QED
    BY <2>1, <2>2 DEF Local
<1>7. ASSUME NEW q \in Requests, q # r
      PROVE  Local(q)'
  BY <1>1, <1>2, <1>5, <1>7, OthersLocal DEF Local
<1>8. ASSUME NEW s \in Requests
      PROVE  Story(s)'
  <2>1. \A q \in Requests : /\ Logged("logout", s, q)' <=> Logged("logout", s, q)
                            /\ Logged("login_succeeded", s, q)' <=> Logged("login_succeeded", s, q)
                            /\ pc[q] = "audit_logout" <=> pc'[q] = "audit_logout"
                            /\ pc[q] = "error" => pc'[q] = "error"
    BY <1>1, <1>2, <1>4 DEF Logged
  <2>2. RevokedBySomeone(s) /\ OneRevoker(s) /\ LoggedIn(s)
    BY DEF Story
  <2>3. RevokedBySomeone(s)'
    BY <1>1, <2>1, <2>2 DEF RevokedBySomeone
  <2>4. OneRevoker(s)'
    BY <1>1, <2>1, <2>2 DEF OneRevoker, Revokes
  <2>5. LoggedIn(s)'
    BY <1>1, <2>1, <2>2 DEF LoggedIn
  <2> QED
    BY <2>3, <2>4, <2>5 DEF Story
<1> QED
  BY <1>6, <1>7, <1>8

\* Session and audit row appear together.
LEMMA InsertSessionStep ==
    ASSUME AccessInv, LimiterTypeOK', NEW r \in Requests, InsertSession(r)
    PROVE  \A q \in Requests : (Local(q) /\ Story(q))'
<1> USE Parts, RequestFacts
<1>1. /\ pc[r] = "insert_session"
      /\ UNCHANGED <<now, enabled, password, active, op, dead>>
      /\ session' = [session EXCEPT ![r].state = "live"]
      /\ audit' = audit \cup {[action |-> "login_succeeded", session |-> r, by |-> r]}
  BY DEF InsertSession, Log, limiterVars
<1>2. PICK a \in {"ok", Raised(r)} : pc' = [pc EXCEPT ![r] = a]
  BY ThenMoves DEF InsertSession
<1>3. op[r].kind = "login" /\ session[r].state = "none" /\ op[r].cookie = Nothing
  BY <1>1 DEF Stage, Outcome, LoginSteps
<1>4. a \in {"ok", "error"} /\ pc'[r] = a
  BY <1>2, <1>3, RaisedAnswers
<1>5. \A s \in Requests : s # r => session'[s] = session[s]
  BY <1>1
<1>6. session'[r].state = "live"
  BY <1>1
<1>7. Dead \subseteq Dead'
  <2>1. TypeOK /\ now <= now'
    BY <1>1 DEF AccessInv
  <2> QED
    BY <1>1, <1>3, <1>5, <2>1, DeadGrows
<1>8. Local(r)'
  <2>1. Stage(r)'
    BY <1>1, <1>4 DEF Stage, LoginSteps, SessionSteps, LogoutSteps, TokenSteps
  <2>2. Admitted(r)'
    <3>1. Nothing \notin dead[r]
      BY ArrivalAssumption
    <3> QED
      BY <1>1, <1>3, <1>4, <1>7, <3>1 DEF Admitted, LogoutSteps
  <2>3. Outcome(r)'
    BY <1>1, <1>3, <1>4, <1>6 DEF Outcome, LoginSteps
  <2> QED
    BY <2>1, <2>2, <2>3 DEF Local
<1>9. ASSUME NEW q \in Requests, q # r
      PROVE  Local(q)'
  <2>1. \A s \in Requests : session[s].state = "revoked" => session'[s].state = "revoked"
    BY <1>3, <1>5
  <2> QED
    BY <1>1, <1>2, <1>5, <1>7, <1>9, <2>1, OthersLocal DEF Local
<1>10. ASSUME NEW s \in Requests
       PROVE  Story(s)'
  <2>1. \A q \in Requests : /\ Logged("logout", s, q)' <=> Logged("logout", s, q)
                            /\ pc[q] = "audit_logout" <=> pc'[q] = "audit_logout"
                            /\ pc[q] = "error" => pc'[q] = "error"
    BY <1>1, <1>2, <1>4 DEF Logged
  <2>2. RevokedBySomeone(s) /\ OneRevoker(s) /\ LoggedIn(s)
    BY DEF Story
  <2>3. session[s].state = "revoked" <=> session'[s].state = "revoked"
    BY <1>3, <1>5, <1>6
  <2>4. RevokedBySomeone(s)'
    BY <1>1, <2>1, <2>2, <2>3 DEF RevokedBySomeone
  <2>5. OneRevoker(s)'
    BY <1>1, <2>1, <2>2, <2>3 DEF OneRevoker, Revokes
  <2>6. LoggedIn(s)'
    BY <1>1, <1>5, <1>6, <2>2 DEF LoggedIn, Logged
  <2> QED
    BY <2>4, <2>5, <2>6 DEF Story
<1> QED
  BY <1>8, <1>9, <1>10

\* The UPDATE that finds the session live makes its request the revoker.
LEMMA RevokeRowStep ==
    ASSUME AccessInv, LimiterTypeOK', NEW r \in Requests, pc[r] = "revoke", RevokeRow(r),
           session[op[r].cookie].state = "live"
    PROVE  \A q \in Requests : (Local(q) /\ Story(q))'
<1> USE Parts, RequestFacts
<1> DEFINE s0 == op[r].cookie
<1>0. op[r].kind = "logout" /\ s0 \in Requests /\ s0 \notin dead[r]
  BY DEF Stage, Admitted, SessionSteps, LogoutSteps
<1>1. /\ UNCHANGED <<now, enabled, password, active, audit, op, dead>>
      /\ session' = [session EXCEPT ![s0].state = "revoked"]
  BY DEF RevokeRow, limiterVars
<1>2. PICK a \in {"audit_logout", Raised(r)} : pc' = [pc EXCEPT ![r] = a]
  BY ThenMoves DEF RevokeRow
<1> HIDE DEF s0
<1>3. a \in {"audit_logout", "error"} /\ pc'[r] = a
  BY <1>0, <1>2, RaisedAnswers
<1>4. /\ session'[s0].state = "revoked" /\ session'[s0].expires = session[s0].expires
      /\ \A s \in Requests : s # s0 => session'[s] = session[s]
  BY <1>0, <1>1
<1>5. Dead \subseteq Dead'
  <2>1. TypeOK /\ now <= now'
    BY <1>1 DEF AccessInv
  <2> QED
    BY <1>0, <1>1, <1>4, <2>1, DeadGrows
<1>6. session[s0].state = "live"
  BY DEF s0
<1>7. Local(r)'
  <2>1. Stage(r)'
    BY <1>0, <1>1, <1>3 DEF Stage, LoginSteps, SessionSteps, LogoutSteps, TokenSteps, s0
  <2>2. Admitted(r)'
    BY <1>0, <1>1, <1>3, <1>5 DEF Admitted, LogoutSteps, s0
  <2>3. Outcome(r)'
    BY <1>0, <1>1, <1>3, <1>4 DEF Outcome, s0
  <2> QED
    BY <2>1, <2>2, <2>3 DEF Local
<1>8. ASSUME NEW q \in Requests, q # r
      PROVE  Local(q)'
  <2>1. session'[q].state = "none" <=> session[q].state = "none"
    BY <1>4, <1>6
  <2>2. \A s \in Requests : session[s].state = "revoked" => session'[s].state = "revoked"
    BY <1>4
  <2> QED
    BY <1>1, <1>2, <1>5, <1>8, <2>1, <2>2, OthersLocal DEF Local
<1>9. ASSUME NEW s \in Requests
      PROVE  Story(s)'
  <2>1. RevokedBySomeone(s) /\ OneRevoker(s) /\ LoggedIn(s)
    BY DEF Story
  <2>2. LoggedIn(s)'
    BY <1>1, <1>4, <1>6, <2>1 DEF LoggedIn, Logged
  <2>3. CASE s = s0
    <3>1. RevokedBySomeone(s)'
      BY <1>0, <1>1, <1>3, <2>3 DEF RevokedBySomeone, s0
    <3>2. \A q \in Requests : ~Revokes(q, s)
      BY <1>6, <2>1, <2>3 DEF OneRevoker
    <3>3. \A q \in Requests : Revokes(q, s)' => q = r
      BY <1>1, <1>2, <3>2 DEF Revokes, Logged
    <3>4. OneRevoker(s)'
      BY <1>4, <2>3, <3>3 DEF OneRevoker
    <3> QED
      BY <2>2, <3>1, <3>4 DEF Story
  <2>4. CASE s # s0
    <3>1. session'[s] = session[s] /\ op[r].cookie # s
      BY <1>4, <2>4 DEF s0
    <3>2. \A q \in Requests : Revokes(q, s)' <=> Revokes(q, s)
      BY <1>1, <1>2, <1>3, <3>1 DEF Revokes, Logged
    <3>3. RevokedBySomeone(s)'
      BY <1>1, <1>2, <1>3, <2>1, <3>1 DEF RevokedBySomeone, Logged
    <3>4. OneRevoker(s)'
      BY <2>1, <3>1, <3>2 DEF OneRevoker
    <3> QED
      BY <2>2, <3>3, <3>4 DEF Story
  <2> QED
    BY <2>3, <2>4
<1> QED
  BY <1>7, <1>8, <1>9

\* The logout is audited after the session was revoked.
LEMMA AuditLogoutStep ==
    ASSUME AccessInv, NEW r \in Requests, AuditLogout(r)
    PROVE  \A q \in Requests : (Local(q) /\ Story(q))'
<1> USE Parts, RequestFacts
<1> DEFINE s0 == op[r].cookie
<1>1. /\ pc[r] = "audit_logout"
      /\ UNCHANGED <<now, enabled, password, active, session, op, dead>>
      /\ audit' = audit \cup {[action |-> "logout", session |-> s0, by |-> r]}
  BY DEF AuditLogout, InsertAudit, Log, limiterVars
<1>2. PICK a \in {"ok", Raised(r)} : pc' = [pc EXCEPT ![r] = a]
  BY ThenMoves DEF AuditLogout, InsertAudit
<1>3. /\ op[r].kind = "logout" /\ s0 \in Requests /\ s0 \notin dead[r]
      /\ session[s0].state = "revoked"
  BY <1>1 DEF Stage, Admitted, Outcome, SessionSteps, LogoutSteps
<1>4. a \in {"ok", "error"} /\ pc'[r] = a
  BY <1>2, <1>3, RaisedAnswers
<1>5. Dead' = Dead
  BY <1>1 DEF Dead, Live, LiveToken, UserOf
<1>6. Local(r)'
  <2>1. Stage(r)' /\ Admitted(r)'
    BY <1>1, <1>3, <1>4, <1>5 DEF Stage, Admitted, LoginSteps, SessionSteps, LogoutSteps, TokenSteps
  <2>2. Outcome(r)'
    BY <1>1, <1>3, <1>4 DEF Outcome
  <2> QED
    BY <2>1, <2>2 DEF Local
<1>7. ASSUME NEW q \in Requests, q # r
      PROVE  Local(q)'
  BY <1>1, <1>2, <1>5, <1>7, OthersLocal DEF Local
<1>8. ASSUME NEW s \in Requests
      PROVE  Story(s)'
  <2>1. RevokedBySomeone(s) /\ OneRevoker(s) /\ LoggedIn(s)
    BY DEF Story
  <2>2. \A q \in Requests : /\ Logged("logout", s, q)' <=>
                                 Logged("logout", s, q) \/ (s = s0 /\ q = r)
                            /\ Logged("login_succeeded", s, q)' <=> Logged("login_succeeded", s, q)
    BY <1>1 DEF Logged
  <2>3. \A q \in Requests : /\ q # r => pc'[q] = pc[q]
                            /\ Revokes(q, s)' => Revokes(q, s)
    <3> TAKE q \in Requests
    <3>1. CASE q = r
      BY <1>1, <1>4, <2>2, <3>1 DEF Revokes
    <3>2. CASE q # r
      BY <1>1, <1>2, <2>2, <3>2 DEF Revokes
    <3> QED
      BY <3>1, <3>2
  <2>4. RevokedBySomeone(s)'
    BY <1>1, <1>3, <2>1, <2>2, <2>3 DEF RevokedBySomeone
  <2>5. OneRevoker(s)'
    BY <1>1, <2>1, <2>3 DEF OneRevoker
  <2>6. LoggedIn(s)'
    BY <1>1, <2>1, <2>2 DEF LoggedIn
  <2> QED
    BY <2>4, <2>5, <2>6 DEF Story
<1> QED
  BY <1>6, <1>7, <1>8

\* A second logout finds nothing to revoke and nothing to log.
LEMMA RevokeStep ==
    ASSUME AccessInv, LimiterTypeOK', NEW r \in Requests, Revoke(r)
    PROVE  \A q \in Requests : (Local(q) /\ Story(q))'
<1> USE Parts, RequestFacts
<1>1. CASE session[op[r].cookie].state = "live" /\ RevokeRow(r)
  BY <1>1, RevokeRowStep DEF Revoke
<1>2. CASE session[op[r].cookie].state = "revoked" /\ Read(r, "ok")
  <2>1. pc[r] = "revoke"
    BY DEF Revoke
  <2>2. op[r].kind = "logout" /\ op[r].cookie \notin dead[r]
    BY <2>1 DEF Stage, Admitted, LogoutSteps
  <2>3. UNCHANGED <<dbVars, op, dead>> /\ Dead' = Dead
    BY <1>2 DEF Read, Dead, Live, LiveToken, UserOf, dbVars, limiterVars
  <2>4. ASSUME NEW a \in {"ok", Raised(r)}, pc'[r] = a
        PROVE  Local(r)'
    <3>1. CASE a = "ok"
      BY <1>2, <2>2, <2>3, <2>4, <3>1 DEF Local, Stage, Admitted, Outcome, LoginSteps,
         SessionSteps, LogoutSteps, TokenSteps, dbVars
    <3>2. CASE a = Raised(r)
      BY <2>3, <2>4, <3>2, RaisedAnswers, FailedLocal
    <3> QED
      BY <3>1, <3>2
  <2> QED
    BY <1>2, <2>1, <2>4, ReadStep DEF Answers
<1> QED
  BY <1>1, <1>2 DEF Revoke

\* Operators and the clock only make more things dead.
LEMMA OutsideStep ==
    ASSUME AccessInv, LimiterTypeOK', now <= now',
           enabled' \subseteq enabled, active' \subseteq active,
           UNCHANGED <<session, audit, op, pc, dead>>
    PROVE  \A q \in Requests : (Local(q) /\ Story(q))'
<1> USE Parts
<1>1. Dead \subseteq Dead'
  BY DeadGrows DEF AccessInv
<1>2. ASSUME NEW q \in Requests
      PROVE  Local(q)' /\ Story(q)'
  <2>1. Local(q)'
    BY <1>1, OthersLocal DEF Local
  <2>2. Story(q)'
    <3>1. RevokedBySomeone(q) /\ OneRevoker(q) /\ LoggedIn(q)
      BY DEF Story
    <3>2. RevokedBySomeone(q)'
      BY <3>1 DEF RevokedBySomeone, Logged
    <3>3. OneRevoker(q)'
      BY <3>1 DEF OneRevoker, Revokes, Logged
    <3>4. LoggedIn(q)'
      BY <3>1 DEF LoggedIn, Logged
    <3> QED
      BY <3>2, <3>3, <3>4 DEF Story
  <2> QED
    BY <2>1, <2>2
<1> QED
  BY <1>2

\* The invariant is inductive.
LEMMA AccessStep ==
    AccessInv /\ LimiterInv' /\ [Next]_vars => AccessInv'
<1> SUFFICES ASSUME AccessInv, LimiterInv', [Next]_vars
             PROVE  AccessInv'
  OBVIOUS
<1>1. LimiterTypeOK'
  BY DEF LimiterInv
<1>2. TypeOK'
  BY <1>1, TypeStep
<1>3. (op \in Arrivals)'
  BY StepUsesLimiter DEF AccessInv
<1>4. now \in Nat
  BY Parts
<1>5. \A q \in Requests : (Local(q) /\ Story(q))'
  <2>1. CASE UNCHANGED vars
    BY <1>1, <1>4, <2>1, OutsideStep DEF vars, dbVars, limiterVars
  <2>2. CASE Operators
    <3>1. UNCHANGED <<now, session, audit, op, pc, dead>>
      BY <2>2 DEF Operators, DisableUser, ReplacePassword, DeactivateToken, limiterVars
    <3>2. enabled' \subseteq enabled /\ active' \subseteq active
      BY <2>2 DEF Operators, DisableUser, ReplacePassword, DeactivateToken
    <3> QED
      BY <1>1, <1>4, <3>1, <3>2, OutsideStep
  <2>3. CASE Tick /\ UNCHANGED <<dbVars, op, pc, changes, dead>>
    BY <1>1, <1>4, <2>3, OutsideStep DEF Tick, dbVars
  <2>4. ASSUME NEW r \in Requests, RequestStep(r)
        PROVE  \A q \in Requests : (Local(q) /\ Story(q))'
    BY <1>1, <2>4, ArriveStep, SelectLoginStep, RecordFailedLoginStep, InsertSessionStep,
       SelectSessionStep, TouchSessionStep, RevokeStep, AuditLogoutStep, TokenStep, FailStep
       DEF RequestStep
  <2> QED
    BY <2>1, <2>2, <2>3, <2>4 DEF Next
<1> QED
  BY <1>2, <1>3, <1>5 DEF AccessInv

\* The limiter's invariant and the story each request has to tell of itself
\* hold in every state.
THEOREM AccessInvariant == Spec => []AccessInv
<1>1. Spec => []LimiterInv
  BY AccessUsesLimiter, LimiterInvariant, PTL
<1>2. Init /\ [][Next]_vars /\ []LimiterInv => []AccessInv
  BY Init_AccessInv, AccessStep, PTL
<1> QED
  BY <1>1, <1>2, PTL DEF Spec

-----------------------------------------------------------------------------
(* The properties.                                                         *)

\* The API's state keeps its types.
THEOREM AccessTypeCorrect == Spec => []TypeOK
BY AccessInvariant, PTL DEF AccessInv

\* Nothing that was dead when a request arrived lets it in: the checks of
\* authenticate_session, revoke_session and require_admin_token suffice,
\* although each is a read followed by a write in another transaction.
THEOREM NothingStaleAccepted == Spec => []NoStaleAccess
<1>1. AccessInv => NoStaleAccess
  BY DEF AccessInv, NoStaleAccess, Local, Admitted
<1> QED
  BY <1>1, AccessInvariant, PTL

\* The audit log tells every answered login, and every session has its login.
THEOREM LoginsAreAudited == Spec => []LoginsAudited
<1>1. AccessInv => LoginsAudited
  BY DEF AccessInv, LoginsAudited, Local, Outcome, Story, LoggedIn
<1> QED
  BY <1>1, AccessInvariant, PTL

\* A session is revoked by one logout, which is logged unless it broke off.
THEOREM LogoutsAreAudited == Spec => []LogoutsAudited
<1>1. AccessInv => LogoutsAudited
  BY DEF AccessInv, LogoutsAudited, Local, Outcome, Story, RevokedBySomeone, OneRevoker, Revokes
<1> QED
  BY <1>1, AccessInvariant, PTL

\* The limiter keeps its promise inside the API as well.
THEOREM ApiWindowHolds == Spec => []WindowLimit
BY AccessUsesLimiter, WindowHolds, PTL

\* Nobody is refused by the API who had not used up the limit.
THEOREM ApiRefusalJustified == Spec => []RefusedWasFull
BY AccessUsesLimiter, RefusalJustified, PTL
==============================================================================
