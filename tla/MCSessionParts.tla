--------------------------- MODULE MCSessionParts ---------------------------
(* A behaviour has an operator beside Alice's session, or a bearer of her   *)
(* access tokens.                                                          *)
EXTENDS MCSessions, FiniteSets

VARIABLE part

\* Bearers of access tokens show them where they count and try to refresh.
SessionOps ==
    [c \in Clients |-> IF c \in Bearers THEN {"profile", "refresh"} ELSE SessionAndOperator[c]]

Idle(c) == pc[c] = "idle" /\ held[c] = {}

OnlyEmail(email) ==
    /\ \A i \in ids : Exists(i) => users[i].email = email
    /\ \A c \in Clients : /\ arg[c].email \in {email, NoEmail}
                          /\ \A token \in held[c] : token.email = email

\* Two accounts and two emails; clocks stand still, and no benchmark tokens.
WithOperator ==
    /\ \A b \in Bearers : Idle(b)
    /\ clock = [auth |-> 0, gateway |-> 0]
    /\ \A c \in Clients : \A token \in held[c] : token.sub \in Ids

\* One account and one email; clocks move.
WithBearer ==
    /\ \A c \in Clients \ (Bearers \cup {"alice"}) : Idle(c)
    /\ Cardinality(ids) <= 1
    /\ \A c \in Clients : arg[c].id \in ids \cup {NoId, BadId}
    /\ \E email \in Emails : OnlyEmail(email)

OperatorStep == part = "operator" /\ Next /\ WithOperator' /\ UNCHANGED part
BearerStep == part = "bearer" /\ Next /\ WithBearer' /\ UNCHANGED part

MCInit == Init /\ part \in {"operator", "bearer"}

MCSpec == MCInit /\ [][OperatorStep \/ BearerStep]_<<vars, part>>
=============================================================================
