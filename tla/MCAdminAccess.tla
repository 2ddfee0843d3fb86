---------------------------- MODULE MCAdminAccess ----------------------------
(***************************************************************************)
(* An administrator u with a token and a user v without the role.          *)
(***************************************************************************)
EXTENDS AdminAccess, TLC

CONSTANTS r1, r2, r3, r4

\* A request of kind k: f gives the fields it needs.
Request(k, f) ==
    f @@ [kind |-> k, client |-> "here", user |-> "u", password |-> Nothing,
          cookie |-> Nothing, csrf |-> TRUE, mutates |-> FALSE, token |-> Nothing]

Login(u, p) == Request("login", [user |-> u, password |-> p])
Logout(s) == Request("logout", [cookie |-> s])
Admin(s) == Request("admin", [cookie |-> s])
AdminWrite(s, csrf) == Request("admin", [cookie |-> s, mutates |-> TRUE, csrf |-> csrf])
AdminToken(t, s) == Request("admin", [token |-> t, cookie |-> s, client |-> "there"])

MCStartPassword == [u \in {"u", "v"} |-> "p"]
MCOwnerOf == [t \in {"t"} |-> "u"]

MCArrivals == {
    \* one session, two logouts, and a request between them
    r1 :> Login("u", "p") @@ r2 :> Logout(r1) @@ r3 :> Logout(r1) @@ r4 :> Admin(r1),
    \* the tokens, alone and before a cookie; a forged write
    r1 :> Login("u", "p") @@ r2 :> AdminToken("t", Nothing) @@ r3 :> AdminToken("t", r1)
        @@ r4 :> AdminWrite(r1, FALSE),
    r1 :> Login("u", "p") @@ r2 :> AdminToken(EnvToken, r1) @@ r3 :> AdminToken("unknown", r1)
        @@ r4 :> AdminWrite(r1, TRUE),
    \* a user without the role, a logout without a cookie
    r1 :> Login("v", "p") @@ r2 :> Admin(r1) @@ r3 :> Request("session", [cookie |-> r1])
        @@ r4 :> Logout(Nothing),
    \* the window, filled by logins and requests with nothing to show
    r1 :> Login("u", "p") @@ r2 :> Login("v", "q") @@ r3 :> Admin(r1) @@ r4 :> Admin(Nothing)}
==============================================================================
