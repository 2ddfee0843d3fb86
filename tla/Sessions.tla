------------------------------- MODULE Sessions -------------------------------
(***************************************************************************)
(* Logins, sessions and API tokens (apps/api, sessions.py, identity.py):   *)
(* the statements of login, authenticate_session, revoke_session and       *)
(* authenticate_admin_token, each committed by itself except for the       *)
(* transaction of a login.  A session is named by the login request that   *)
(* made it.                                                                *)
(*                                                                         *)
(* Failures covered: "statement_fails", a statement or connection that     *)
(* raises without effect; "answer_lost", one that raises after the server  *)
(* has committed.                                                          *)
(***************************************************************************)
EXTENDS RateLimiter

CONSTANTS Requests, Users, Passwords, Tokens,
          StartPassword,  \* the password of each user at first
          OwnerOf,    \* OwnerOf[t]: the user of a token
          Admins,     \* users with the role admin
          Nothing,    \* no cookie, token or password
          EnvToken,   \* the token COPY_TRADE_ADMIN_API_TOKEN
          EnvTokenAllowed,  \* by the setting, in an environment that permits it
          TTL,        \* session_ttl_minutes
          Skew,       \* how far the API's clock is ahead of the database's
          Arrivals,   \* the requests that may meet
          MaxChanges, \* bound on what operators change meanwhile
          Faults

ASSUME SessionAssumption == TTL \in Nat /\ Skew \in Nat /\ MaxChanges \in Nat

VARIABLES
    enabled,   \* users.status = 'active'
    password,  \* the password of each user
    active,    \* active tokens
    session,   \* expiry and state of each session
    audit,     \* audit rows
    op, pc,
    changes,   \* how many changes operators have made
    dead       \* history: the sessions and tokens dead when a request arrived

dbVars == <<enabled, password, active, session, audit>>
vars == <<limiterVars, dbVars, op, pc, changes, dead>>

Statements == {"select_login", "record_failure", "insert_session", "select_session",
               "touch_session", "revoke", "audit_logout", "select_token", "touch_token"}
Served == {"served_session", "served_token", "served_environment"}
Answers == {"ok", "unauthorized", "limited", "error", "unavailable"} \cup Served

Entry == [action : {"login_succeeded", "login_failed", "logout"},
          session : Requests, by : Requests]

SessionsTypeOK ==
    /\ LimiterTypeOK
    /\ enabled \subseteq Users
    /\ password \in [Users -> Passwords \cup {Nothing}]
    /\ active \subseteq Tokens
    /\ session \in [Requests -> [expires : Nat, state : {"none", "live", "revoked"}]]
    /\ audit \subseteq Entry
    /\ pc \in [Requests -> {"new"} \cup Statements \cup Answers]
    /\ changes \in 0..MaxChanges
    /\ dead \in [Requests -> SUBSET (Requests \cup Tokens)]

-----------------------------------------------------------------------------
Goto(r, s) == pc' = [pc EXCEPT ![r] = s]

\* What an exception becomes: the admin dependency turns it into 503, unless
\* the token is the environment's; the auth router leaves 500.
Raised(r) ==
    IF op[r].kind # "admin" THEN "error"
    ELSE IF /\ pc[r] \in {"select_token", "touch_token"}
            /\ op[r].token = EnvToken /\ EnvTokenAllowed
         THEN "served_environment"
         ELSE "unavailable"

\* After a statement, or its answer is lost.
Then(r, s) ==
    \/ Goto(r, s)
    \/ "answer_lost" \in Faults /\ Goto(r, Raised(r))

StatementFails(r) ==
    /\ "statement_fails" \in Faults
    /\ pc[r] \in Statements
    /\ Goto(r, Raised(r))
    /\ UNCHANGED <<limiterVars, dbVars, op, changes, dead>>

\* A statement that changes nothing the model has.
Read(r, next) ==
    /\ Then(r, next)
    /\ UNCHANGED <<limiterVars, dbVars, op, changes, dead>>

Log(r, action, s) == audit' = audit \cup {[action |-> action, session |-> s, by |-> r]}

InsertAudit(r, action, s, next) ==
    /\ Log(r, action, s)
    /\ Then(r, next)
    /\ UNCHANGED <<limiterVars, enabled, password, active, session, op, changes, dead>>

UserOf(s) == op[s].user

Live(s) ==
    /\ session[s].state = "live"
    /\ now < session[s].expires
    /\ UserOf(s) \in enabled

LiveToken(t) == t \in active /\ OwnerOf[t] \in enabled

Dead == {s \in Requests : session[s].state # "none" /\ ~Live(s)}
        \cup {t \in Tokens : ~LiveToken(t)}

-----------------------------------------------------------------------------
(* login *)

PasswordMatches(r) ==
    UserOf(r) \in enabled /\ password[UserOf(r)] = op[r].password

\* The expiry is computed from the API's clock before the transaction begins.
SelectLogin(r) ==
    /\ pc[r] = "select_login"
    /\ \/ PasswordMatches(r) /\ Then(r, "insert_session")
       \/ ~PasswordMatches(r) /\ Then(r, "record_failure")
    /\ session' = [session EXCEPT ![r].expires = now + Skew + TTL]
    /\ UNCHANGED <<limiterVars, enabled, password, active, audit, op, changes, dead>>

RecordFailedLogin(r) ==
    pc[r] = "record_failure" /\ InsertAudit(r, "login_failed", r, "unauthorized")

InsertSessionUnlogged(r) ==
    /\ pc[r] = "insert_session"
    /\ session' = [session EXCEPT ![r].state = "live"]
    /\ \/ Then(r, "ok") /\ Log(r, "login_succeeded", r)
       \/ "statement_fails" \in Faults /\ Goto(r, Raised(r)) /\ UNCHANGED audit
    /\ UNCHANGED <<limiterVars, enabled, password, active, op, changes, dead>>

\* Session, last_used_at and audit row commit together.
InsertSession(r) ==
    /\ pc[r] = "insert_session"
    /\ session' = [session EXCEPT ![r].state = "live"]
    /\ Log(r, "login_succeeded", r)
    /\ Then(r, "ok")
    /\ UNCHANGED <<limiterVars, enabled, password, active, op, changes, dead>>

-----------------------------------------------------------------------------
(* authenticate_session and revoke_session *)

NeedsCsrf(r) == op[r].kind = "logout" \/ (op[r].kind = "admin" /\ op[r].mutates)

FoundUnlessExpired(s) ==
    session[s].state # "none" /\ now < session[s].expires /\ UserOf(s) \in enabled

\* The row of SELECT_SESSION_SQL.
Found(s) == Live(s)

SelectSession(r) ==
    LET accepted == Found(op[r].cookie) /\ (NeedsCsrf(r) => op[r].csrf) IN
    /\ pc[r] = "select_session"
    /\ Read(r, IF accepted THEN "touch_session" ELSE "unauthorized")

Authenticated(r) ==
    CASE op[r].kind = "logout" -> "revoke"
      [] op[r].kind = "session" -> "ok"
      [] op[r].kind = "admin" /\ UserOf(op[r].cookie) \in Admins -> "served_session"
      [] OTHER -> "unauthorized"

\* last_seen_at is written whatever has happened to the session since.
TouchSession(r) == pc[r] = "touch_session" /\ Read(r, Authenticated(r))

RevokeRow(r) ==
    /\ session' = [session EXCEPT ![op[r].cookie].state = "revoked"]
    /\ Then(r, "audit_logout")
    /\ UNCHANGED <<limiterVars, enabled, password, active, audit, op, changes, dead>>

RevokeAgain(r) == pc[r] = "revoke" /\ RevokeRow(r)

\* Only the UPDATE that finds revoked_at NULL returns a row, to be audited.
Revoke(r) ==
    /\ pc[r] = "revoke"
    /\ \/ session[op[r].cookie].state = "revoked" /\ Read(r, "ok")
       \/ session[op[r].cookie].state = "live" /\ RevokeRow(r)

AuditLogout(r) ==
    pc[r] = "audit_logout" /\ InsertAudit(r, "logout", op[r].cookie, "ok")

-----------------------------------------------------------------------------
(* What other requests and operators commit meanwhile (AdminCredentials).  *)

Change == changes < MaxChanges /\ changes' = changes + 1

DisableUser(u) ==
    /\ Change
    /\ enabled' = enabled \ {u}
    /\ UNCHANGED <<limiterVars, password, active, session, audit, op, pc, dead>>

ReplacePassword(u, p) ==
    /\ Change
    /\ password' = [password EXCEPT ![u] = p]
    /\ UNCHANGED <<limiterVars, enabled, active, session, audit, op, pc, dead>>

DeactivateToken(t) ==
    /\ Change
    /\ active' = active \ {t}
    /\ UNCHANGED <<limiterVars, enabled, password, session, audit, op, pc, dead>>
==============================================================================
