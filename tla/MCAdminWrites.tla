---------------------------- MODULE MCAdminWrites ----------------------------
(***************************************************************************)
(* Two instances in one: relationships of one route with the risk settings *)
(* of one of them, and a user with a password, a subscription, accounts of *)
(* one name and a credential.                                              *)
(***************************************************************************)
EXTENDS AdminWrites, TLC

CONSTANTS r1, r2, r3

On(d) == [on |-> TRUE, data |-> d]
Off(d) == [on |-> FALSE, data |-> d]

\* The rows a request creates.
NewRelationship == (r1 :> "b1") @@ (r2 :> "b2") @@ (r3 :> "b3")
NewAccount == (r1 :> "c1") @@ (r2 :> "c2") @@ (r3 :> "c3")
NewCredential == (r1 :> "k1") @@ (r2 :> "k2") @@ (r3 :> "k3")

OneRoute == {"a", "b", "b1", "b2", "b3"}
OneName == {"c", "c1", "c2", "c3"}
OfUser == OneName \cup {"password", "subscription", "k", "k1", "k2", "k3"}
MCRows == OneRoute \cup OfUser \cup {"risk", "user"}
MCAudited == MCRows \ {"user", "password"}
MCParent == [x \in MCRows |-> CASE x = "risk" -> "a"
                                [] x \in OfUser -> "user"
                                [] OTHER -> x]
MCTable == [x \in MCRows |-> CASE x \in OneRoute -> "relationships"
                               [] x \in OneName -> "accounts"
                               [] x = "risk" -> "risk_settings"
                               [] x = "user" -> "users"
                               [] x = "password" -> "passwords"
                               [] x = "subscription" -> "subscriptions"
                               [] OTHER -> "credentials"]
MCRivals == [x \in MCRows |-> CASE x \in OneRoute -> OneRoute
                                [] x \in OneName -> OneName
                                [] OTHER -> {x}]

RelationshipOps(r) ==
    <<[kind |-> "create_relationship", row |-> NewRelationship[r], value |-> On("v1")],
      [kind |-> "update_relationship", row |-> "a", patch |-> [on |-> FALSE]],
      [kind |-> "update_relationship", row |-> "a", patch |-> [data |-> "v2"]],
      [kind |-> "update_relationship", row |-> "b", patch |-> On("v2")],
      [kind |-> "upsert_risk_settings", row |-> "risk", value |-> On("v2")]>>

IdentityOps(r) ==
    <<[kind |-> "create_credential", row |-> NewCredential[r], user |-> "user",
       value |-> On("v1"), password |-> "password"],
      [kind |-> "create_credential", row |-> NewCredential[r], user |-> "user",
       value |-> On("v1"), password |-> Nobody],
      [kind |-> "deactivate", row |-> "k"],
      [kind |-> "rotate", row |-> "k", new |-> NewCredential[r], value |-> On("v2")],
      [kind |-> "upsert_subscription", row |-> "subscription", value |-> On("v1")],
      [kind |-> "create_account", row |-> NewAccount[r], value |-> On("v1")],
      [kind |-> "update_account", row |-> "c", patch |-> [on |-> FALSE]]>>

Rotate(x, y) == [kind |-> "rotate", row |-> x, new |-> y, value |-> On("v2")]

\* Requests that name a row another request creates.
FollowUps ==
    {<<o, Rotate("k1", "k2"), q>> :
        o \in {IdentityOps(r1)[2], Rotate("k", "k1")},
        q \in {[kind |-> "deactivate", row |-> "k1"], Rotate("k1", "k3"),
               Rotate("k2", "k3"), Rotate("k", "k3")}}
    \cup {<<RelationshipOps(r1)[1],
            [kind |-> "update_relationship", row |-> "b1", patch |-> [on |-> FALSE]], q>> :
            q \in {[kind |-> "update_relationship", row |-> "b1", patch |-> On("v2")],
                   RelationshipOps(r3)[1], RelationshipOps(r3)[4]}}
    \cup {<<IdentityOps(r1)[6],
            [kind |-> "update_account", row |-> "c1", patch |-> [data |-> "v2"]], q>> :
            q \in {IdentityOps(r3)[1], IdentityOps(r3)[6]}}

\* Which request has which operation makes no difference.
Choices(n) == {f \in [Requests -> 1..n] : f[r1] <= f[r2] /\ f[r2] <= f[r3]}
MCArrivals ==
    {[r \in Requests |-> RelationshipOps(r)[f[r]]] : f \in Choices(5)}
    \cup {[r \in Requests |-> IdentityOps(r)[f[r]]] : f \in Choices(7)}
    \cup {(r1 :> f[1]) @@ (r2 :> f[2]) @@ (r3 :> f[3]) : f \in FollowUps}

Holding(vs) == [x \in MCRows |-> IF x \in DOMAIN vs THEN vs[x] ELSE Absent]
MCContents ==
    {Holding("a" :> Off("v0")),
     Holding(("b" :> Off("v0")) @@ ("user" :> On("v0")) @@ ("k" :> On("v0"))
             @@ ("c" :> On("v0"))),
     Holding(("a" :> On("v0")) @@ ("b" :> Off("v0")) @@ ("risk" :> On("v0"))
             @@ ("user" :> On("v0")) @@ ("subscription" :> On("v0"))
             @@ ("password" :> On("v0")) @@ ("k" :> Off("v0"))),
     Holding(("user" :> Off("v0")) @@ ("k" :> On("v0")))}
==============================================================================
