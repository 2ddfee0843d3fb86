----------------------------- MODULE AdminAccess -----------------------------
(***************************************************************************)
(* How a request gets into the admin API: the rate-limit middleware, then  *)
(* the auth router (/auth/...) or the admin dependency (auth.py), which    *)
(* tries the token of the header first and the session cookie second.      *)
(* Requests, clients, operators and the clock interleave at every await.   *)
(***************************************************************************)
EXTENDS Sessions

\* A cookie names a session, so it was given out by a login; the login itself
\* looks at no cookie.  A token may be one that no credential has.
ASSUME ArrivalAssumption ==
    /\ Nothing \notin Requests \cup Tokens
    /\ Requests \cap Tokens = {}
    /\ StartPassword \in [Users -> Passwords]
    /\ \A arrival \in Arrivals : \A r \in Requests :
         /\ arrival[r].kind \in {"admin", "login", "logout", "session"}
         /\ arrival[r].client \in Clients
         /\ arrival[r].cookie \in Requests \cup {Nothing}
         /\ arrival[r].kind = "login" => arrival[r].cookie = Nothing

TypeOK == SessionsTypeOK

Init ==
    /\ LimiterInit
    /\ enabled = Users
    /\ password = StartPassword
    /\ active = Tokens
    /\ session = [r \in Requests |-> [expires |-> 0, state |-> "none"]]
    /\ audit = {}
    /\ op \in Arrivals
    /\ pc = [r \in Requests |-> "new"]
    /\ changes = 0
    /\ dead = [r \in Requests |-> {}]

-----------------------------------------------------------------------------
\* Paths under /admin/ and /auth/login.
Limited(r) == op[r].kind \in {"admin", "login"}

\* The cookie of a session is known once its login was answered.
CookieKnown(r) == op[r].cookie # Nothing => pc[op[r].cookie] = "ok"

WithSession(r) == IF op[r].cookie = Nothing THEN "unauthorized" ELSE "select_session"

\* The first statement, or the answer where none is needed.
FirstStep(r) ==
    CASE op[r].kind = "login" -> "select_login"
      [] op[r].kind = "logout" /\ op[r].cookie = Nothing -> "ok"
      [] op[r].kind = "admin" /\ op[r].token # Nothing -> "select_token"
      [] OTHER -> WithSession(r)

Arrive(r) ==
    /\ pc[r] = "new"
    /\ CookieKnown(r)
    /\ dead' = [dead EXCEPT ![r] = Dead]
    /\ \/ Limited(r) /\ Allow(op[r].client) /\ Goto(r, FirstStep(r))
       \/ Limited(r) /\ Refuse(op[r].client) /\ Goto(r, "limited")
       \/ ~Limited(r) /\ Goto(r, FirstStep(r)) /\ UNCHANGED limiterVars
    /\ UNCHANGED <<dbVars, op, changes>>

\* require_admin_token: a token that no active credential has may still be
\* the environment's; otherwise the session decides.
AfterToken(r) ==
    IF op[r].token = EnvToken /\ EnvTokenAllowed THEN "served_environment"
                                                 ELSE WithSession(r)

SelectToken(r) ==
    LET accepted == op[r].token \in Tokens /\ LiveToken(op[r].token)
                    /\ OwnerOf[op[r].token] \in Admins IN
    /\ pc[r] = "select_token"
    /\ Read(r, IF accepted THEN "touch_token" ELSE AfterToken(r))

TouchToken(r) == pc[r] = "touch_token" /\ Read(r, "served_token")

RequestStep(r) ==
    \/ Arrive(r)
    \/ SelectLogin(r)
    \/ RecordFailedLogin(r)
    \/ InsertSession(r)
    \/ SelectSession(r)
    \/ TouchSession(r)
    \/ Revoke(r)
    \/ AuditLogout(r)
    \/ SelectToken(r)
    \/ TouchToken(r)
    \/ StatementFails(r)

Operators ==
    \/ \E u \in enabled : DisableUser(u)
    \/ \E u \in Users, p \in Passwords : p # password[u] /\ ReplacePassword(u, p)
    \/ \E t \in active : DeactivateToken(t)

Next ==
    \/ \E r \in Requests : RequestStep(r)
    \/ Operators
    \/ Tick /\ UNCHANGED <<dbVars, op, pc, changes, dead>>

Spec == Init /\ [][Next]_vars

-----------------------------------------------------------------------------
(* Properties.                                                             *)

\* A request that arrives after its session was revoked or expired, its
\* token deactivated or its user disabled is not let in, whatever overlaps:
\* "Logout invalidiert die Session serverseitig".
NoStaleAccess ==
    \A r \in Requests :
        /\ pc[r] = "served_session" => op[r].cookie \notin dead[r]
        /\ pc[r] = "served_token" => op[r].token \notin dead[r]
        /\ pc[r] = "ok" => op[r].cookie \notin dead[r]

Logged(action, s, r) == [action |-> action, session |-> s, by |-> r] \in audit

\* Every answered login is in the audit log with its outcome, and a session
\* exists exactly if its login is logged, also when the answer is lost.
LoginsAudited ==
    \A r \in Requests :
        op[r].kind = "login" =>
            /\ pc[r] = "ok" => session[r].state # "none"
            /\ pc[r] = "unauthorized" => Logged("login_failed", r, r)
            /\ session[r].state # "none" <=> Logged("login_succeeded", r, r)

\* A logout that was answered has revoked its session; of overlapping logouts
\* one is logged; a revoked session has a logout that is logged, about to be,
\* or was broken off in between, since revocation and log are two commits.
LogoutsAudited ==
    \A r \in Requests :
        /\ op[r].kind = "logout" /\ pc[r] = "ok" /\ op[r].cookie # Nothing =>
             session[op[r].cookie].state = "revoked"
        /\ session[r].state = "revoked" =>
             \E q \in Requests : /\ op[q].kind = "logout" /\ op[q].cookie = r
                                 /\ \/ Logged("logout", r, q)
                                    \/ pc[q] \in {"audit_logout", "error"}
        /\ \A p, q \in Requests :
             Logged("logout", r, p) /\ Logged("logout", r, q) => p = q
==============================================================================
