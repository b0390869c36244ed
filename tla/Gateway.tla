------------------------------ MODULE Gateway ------------------------------
(***************************************************************************)
(* The task routes of the gateway on top of what the todo-service promises *)
(* (TaskTable): the middleware that turns a token into a user, the         *)
(* handlers of TaskHandler that put this user in x-user-id and forward the *)
(* call, and the translation of the answer to an HTTP status.  TaskService *)
(* implements TaskTable, so what is shown here of the routes holds of the  *)
(* two services together.                                                  *)
(*                                                                         *)
(* now      the gateway's clock                                            *)
(* pc       where the request of each client is: "idle", "sent",           *)
(*          "admitted" by the middleware, "forwarded" to the todo-service  *)
(* request  the request; user  the subject the middleware found            *)
(* status   the HTTP status of the last answer, 0 while there is none;     *)
(* body     the tasks it shows                                             *)
(* effect   whether the call took effect at the todo-service (history)     *)
(* tasks, phase, arg, reply   the todo-service, as in TaskTable            *)
(***************************************************************************)
EXTENDS Naturals

CONSTANTS
    Clients,        \* concurrent clients, one outstanding request each
    Users,          \* account identifiers
    TaskIds,        \* primary keys
    BadId,          \* a path parameter that is not a UUID
    Columns,        \* title, description, status, due_date
    Values,         \* column values, Zero among them
    Zero,           \* Go's zero value
    Absent,         \* a due date that is left out
    Bodies,         \* what well-formed JSON bodies assign to columns
    BadBody,        \* a body that is not JSON, or of other types
    NoTask,         \* no row with this key
    Nobody,         \* no user
    NoToken,        \* no Authorization header, or not a bearer token
    Tokens,         \* tokens with a good signature
    Requests,       \* bound: the requests clients make
    MaxClock        \* bound: the last tick of the clock

ASSUME GatewayAssumption ==
    /\ MaxClock \in Nat
    /\ Nobody \notin Users
    /\ BadBody \notin Bodies
    /\ NoToken \notin Tokens
    /\ Tokens \subseteq [sub : Users, use : {"", "access", "refresh"}, exp : Nat]

VARIABLES now, pc, request, user, status, body, effect, tasks, phase, arg, reply

httpVars == <<now, pc, request, user, status, body>>
table == <<tasks, phase, arg, reply>>
vars == <<httpVars, effect, table>>

-----------------------------------------------------------------------------
(* Data.                                                                   *)

Blank == [k \in Columns |-> Zero]

Ops == {"create", "update", "delete", "get", "list"}
HasBody == {"create", "update"}
Writes == {"create", "update", "delete"}

\* Only creations and updates have a body, and only calls on one task a path
\* parameter.
Sensible == {r \in [op : Ops, token : Tokens \cup {NoToken}, id : TaskIds \cup {BadId},
                    body : Bodies \cup {BadBody}] :
                /\ r.op \notin HasBody => r.body = BadBody
                /\ r.op \in {"create", "list"} => r.id = BadId}

ASSUME RequestsAssumption == Requests \subseteq Sensible

\* The calls that reach the todo-service.
Delivered == [op : Ops, user : Users, id : TaskIds \cup {BadId}, req : Bodies \cup {Blank}]

Table == INSTANCE TaskTable

\* Variant: refresh tokens pass.
AcceptedAny(t) == t # NoToken /\ now < t.exp /\ t.use # ""

\* AuthMiddleware.Handle with Parse: signature and expiry, then the use.  The
\* middleware alone would let a token without a use pass; JWTClaims.Validate,
\* which Parse calls, refuses it.
Accepted(t) == t # NoToken /\ now < t.exp /\ t.use = "access"

\* Variant: the todo-service unavailable is taken for a missing task.
StatusOf_gone(op, code) ==
    IF code = "OK" THEN IF op = "create" THEN 201 ELSE 200
    ELSE IF code = "InvalidArgument" THEN 400
    ELSE IF code \in {"NotFound", "Unavailable"} THEN 404
    ELSE IF code = "Unauthenticated" THEN 401
    ELSE 500

\* grpcToHTTPError, and the statuses of success.
StatusOf(op, code) ==
    IF code = "OK" THEN IF op = "create" THEN 201 ELSE 200
    ELSE IF code = "InvalidArgument" THEN 400
    ELSE IF code = "NotFound" THEN 404
    ELSE IF code = "Unauthenticated" THEN 401
    ELSE 500

-----------------------------------------------------------------------------
(* The gateway.                                                            *)

Init ==
    /\ now = 0
    /\ pc = [c \in Clients |-> "idle"]
    /\ request \in [Clients -> {[op |-> "list", token |-> NoToken, id |-> BadId, body |-> BadBody]}]
    /\ user = [c \in Clients |-> Nobody]
    /\ status = [c \in Clients |-> 0]
    /\ body = [c \in Clients |-> {}]
    /\ effect = [c \in Clients |-> FALSE]
    /\ arg = [c \in Clients |-> [op |-> "none", user |-> Nobody, id |-> BadId, req |-> Blank]]
    /\ Table!TableInit

Send(c, r) ==
    /\ pc[c] = "idle"
    /\ pc' = [pc EXCEPT ![c] = "sent"]
    /\ request' = [request EXCEPT ![c] = r]
    /\ status' = [status EXCEPT ![c] = 0]
    /\ body' = [body EXCEPT ![c] = {}]
    /\ effect' = [effect EXCEPT ![c] = FALSE]
    /\ UNCHANGED <<now, user, table>>

Finish(c, code, shown) ==
    /\ pc' = [pc EXCEPT ![c] = "idle"]
    /\ status' = [status EXCEPT ![c] = code]
    /\ body' = [body EXCEPT ![c] = shown]
    /\ user' = [user EXCEPT ![c] = Nobody]
    /\ UNCHANGED <<now, request, effect>>

Reject(c) ==
    /\ pc[c] = "sent"
    /\ ~Accepted(request[c].token)
    /\ Finish(c, 401, {})
    /\ UNCHANGED table

Admit(c) ==
    /\ pc[c] = "sent"
    /\ Accepted(request[c].token)
    /\ user' = [user EXCEPT ![c] = request[c].token.sub]
    /\ pc' = [pc EXCEPT ![c] = "admitted"]
    /\ UNCHANGED <<now, request, status, body, effect, table>>

\* c.Bind().JSON fails.
BindFails(c) ==
    /\ pc[c] = "admitted"
    /\ request[c].op \in HasBody
    /\ request[c].body = BadBody
    /\ Finish(c, 400, {})
    /\ UNCHANGED table

\* Variant: a task is read for its owner, whoever asks.
CallerOwner(c) ==
    IF request[c].op = "get" /\ request[c].id \in TaskIds /\ tasks[request[c].id] # NoTask
    THEN tasks[request[c].id].owner ELSE user[c]

\* forwardContext: the user of the call.
Caller(c) == user[c]

\* The key of a creation is drawn by the database; it is put in the call here.
Forward(c) ==
    /\ pc[c] = "admitted"
    /\ request[c].op \in HasBody => request[c].body # BadBody
    /\ pc' = [pc EXCEPT ![c] = "forwarded"]
    /\ Table!Arrive(c)
    /\ arg'[c].op = request[c].op
    /\ arg'[c].user = Caller(c)
    /\ request[c].op # "create" => arg'[c].id = request[c].id
    /\ request[c].op = "create" => arg'[c].id \in TaskIds
    /\ arg'[c].req = IF request[c].op \in HasBody THEN request[c].body ELSE Blank
    /\ UNCHANGED <<now, request, user, status, body, effect>>

\* The answer of the call is translated.
Answered(c) ==
    /\ pc[c] = "forwarded"
    /\ phase[c] = "idle"
    /\ Finish(c, StatusOf(request[c].op, reply[c].code), reply[c].shown)
    /\ UNCHANGED table

\* Time passes; an expired token is noticed by the middleware only.
Tick ==
    /\ now < MaxClock
    /\ now' = now + 1
    /\ UNCHANGED <<pc, request, user, status, body, effect, table>>

-----------------------------------------------------------------------------
(* The todo-service.                                                       *)

Takes(c) ==
    /\ Table!Created(c) \/ Table!Updated(c) \/ Table!Deleted(c) \/ Table!Missed(c)
    /\ effect' = [effect EXCEPT ![c] = TRUE]
    /\ UNCHANGED httpVars

Returns(c) ==
    /\ Table!Acknowledge(c) \/ Table!Refuse(c) \/ Table!Doubt(c) \/ Table!Show(c)
    /\ UNCHANGED <<httpVars, effect>>

Outage == Table!Outage /\ UNCHANGED <<httpVars, effect>>

Next ==
    \/ \E c \in Clients :
          \/ \E r \in Requests : Send(c, r)
          \/ Reject(c) \/ Admit(c) \/ BindFails(c) \/ Forward(c) \/ Answered(c)
          \/ Takes(c) \/ Returns(c)
    \/ Outage
    \/ Tick

Spec == Init /\ [][Next]_vars

-----------------------------------------------------------------------------
(* Properties.                                                             *)

\* The request of client c was made with an access token of user u.
ActsFor(c, u) ==
    /\ pc[c] = "forwarded"
    /\ request[c].token # NoToken
    /\ request[c].token.sub = u
    /\ request[c].token.use # "refresh"

Owner(row) == IF row = NoTask THEN Nobody ELSE row.owner

\* A row is created, changed or deleted only by a request under way whose
\* access token names its owner, who stays the same: the subject found by the
\* middleware is the user of the call, whatever the path and body say.
OnlyOwnersWrite ==
    [][\A t \in TaskIds : tasks'[t] # tasks[t] =>
          \E c \in Clients, u \in Users :
             /\ ActsFor(c, u)
             /\ Owner(tasks[t]) \in {u, Nobody}
             /\ Owner(tasks'[t]) \in {u, Nobody}]_vars

\* An answer shows rows only of the user whose token came with the request.
OnlyOwnRowsShown ==
    \A c \in Clients : \A s \in body[c] :
        request[c].token # NoToken /\ s[2].owner = request[c].token.sub

\* The HTTP status tells what became of a write: 2xx that it took effect, 4xx
\* that it did not and will not; only 5xx leaves it open, as it must when the
\* answer of the todo-service is lost.
StatusTellsTruth ==
    \A c \in Clients :
        pc[c] = "idle" =>
            /\ status[c] \in {200, 201} /\ request[c].op \in Writes => effect[c]
            /\ status[c] \in {400, 401, 404} => ~effect[c]
=============================================================================
