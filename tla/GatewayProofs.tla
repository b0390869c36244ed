--------------------------- MODULE GatewayProofs ----------------------------
(***************************************************************************)
(* Theorems about Gateway, for any number of clients, accounts and tasks.  *)
(***************************************************************************)
EXTENDS Gateway, TLAPS

Codes == {"none", "OK"} \cup Table!Refusals \cup Table!Doubts

Calls == [op : Ops \cup {"none"}, user : Users \cup {Nobody}, id : TaskIds \cup {BadId},
          req : Bodies \cup {Blank}]

Types ==
    /\ pc \in [Clients -> {"idle", "sent", "admitted", "forwarded"}]
    /\ request \in [Clients -> Sensible]
    /\ user \in [Clients -> Users \cup {Nobody}]
    /\ status \in [Clients -> Nat]
    /\ body \in [Clients -> SUBSET (TaskIds \X Table!Row)]
    /\ effect \in [Clients -> BOOLEAN]
    /\ tasks \in [TaskIds -> Table!Row \cup {NoTask}]
    /\ phase \in [Clients -> {"idle", "open", "done"}]
    /\ arg \in [Clients -> Calls]
    /\ reply \in [Clients -> [code : Codes, shown : SUBSET (TaskIds \X Table!Row)]]

\* A request past the middleware has an access token, and its subject is the
\* user the handler forwards.
Identified(c) ==
    pc[c] \in {"admitted", "forwarded"} =>
        /\ request[c].token \in Tokens
        /\ request[c].token.use # "refresh"
        /\ user[c] = request[c].token.sub

\* Only a forwarded request has a call, made for that user.
Called(c) ==
    /\ pc[c] # "forwarded" => phase[c] = "idle"
    /\ pc[c] = "forwarded" => arg[c].user = user[c] /\ arg[c].op = request[c].op

\* Until the answer, the history agrees with the phase of the call; then the
\* code of the answer tells as much.
Recorded(c) ==
    /\ pc[c] \in {"sent", "admitted"} \/ phase[c] = "open" => ~effect[c]
    /\ phase[c] = "done" => effect[c]
    /\ pc[c] = "forwarded" /\ phase[c] = "idle" =>
           /\ reply[c].code = "OK" /\ request[c].op \in Writes => effect[c]
           /\ reply[c].code \in Table!Refusals => ~effect[c]

\* What the service shows is the user's.
Shown(c) ==
    /\ pc[c] # "idle" => body[c] = {}
    /\ pc[c] = "forwarded" => \A s \in reply[c].shown : s[2].owner = user[c]
    /\ \A s \in body[c] : request[c].token # NoToken /\ s[2].owner = request[c].token.sub

Truth(c) ==
    pc[c] = "idle" =>
        /\ status[c] \in {200, 201} /\ request[c].op \in Writes => effect[c]
        /\ status[c] \in {400, 401, 404} => ~effect[c]

IInv == Types /\ \A c \in Clients : Identified(c) /\ Called(c) /\ Recorded(c) /\ Shown(c) /\ Truth(c)

-----------------------------------------------------------------------------

\* What a status says of the code it was made from.
LEMMA StatusCodes ==
    ASSUME NEW op, NEW code \in Codes
    PROVE  /\ StatusOf(op, code) \in Nat
           /\ StatusOf(op, code) \in {200, 201} => code = "OK"
           /\ StatusOf(op, code) \in {400, 401, 404} => code \in Table!Refusals
  BY DEF StatusOf, Codes, Table!Refusals, Table!Doubts

\* An answered call keeps its user and operation.
LEMMA Cleared ==
    ASSUME NEW a \in Calls
    PROVE  /\ [a EXCEPT !.req = Blank] \in Calls
           /\ [a EXCEPT !.req = Blank].user = a.user
           /\ [a EXCEPT !.req = Blank].op = a.op
  BY DEF Calls

\* The first state.
LEMMA InitInv == Init => IInv
  <1> SUFFICES ASSUME Init PROVE IInv
    OBVIOUS
  <1>1. Types
    <2>1. [op |-> "list", token |-> NoToken, id |-> BadId, body |-> BadBody] \in Sensible
      BY DEF Sensible, Ops, HasBody
    <2>2. request \in [Clients -> Sensible]
      BY <2>1 DEF Init
    <2> QED
      BY <2>2 DEF Init, Types, Table!TableInit, Table!Answer, Codes, Calls
  <1>2. ASSUME NEW c \in Clients
        PROVE  Identified(c) /\ Called(c) /\ Recorded(c) /\ Shown(c) /\ Truth(c)
    BY DEF Init, Table!TableInit, Table!Answer, Identified, Called, Recorded, Shown, Truth
  <1> QED
    BY <1>1, <1>2 DEF IInv

\* A request starts with no answer and no effect.
LEMMA SendKeeps ==
    ASSUME NEW c \in Clients, NEW r \in Requests, IInv, Send(c, r)
    PROVE  IInv'
  <1> USE DEF IInv
  <1>1. Types'
    BY RequestsAssumption DEF Types, Send, table
  <1>2. ASSUME NEW d \in Clients
        PROVE  (Identified(d) /\ Called(d) /\ Recorded(d) /\ Shown(d) /\ Truth(d))'
    BY RequestsAssumption DEF Types, Identified, Called, Recorded, Shown, Truth, Send, table
  <1> QED
    BY <1>1, <1>2

\* The middleware refuses before anything is called.
LEMMA RejectKeeps ==
    ASSUME NEW c \in Clients, IInv, Reject(c)
    PROVE  IInv'
  <1> USE DEF IInv
  <1>1. Types'
    BY DEF Types, Reject, Finish, table
  <1>2. ASSUME NEW d \in Clients
        PROVE  (Identified(d) /\ Called(d) /\ Recorded(d) /\ Shown(d) /\ Truth(d))'
    BY DEF Types, Identified, Called, Recorded, Shown, Truth, Reject, Finish, table
  <1> QED
    BY <1>1, <1>2

\* The middleware identifies the user of the token.
LEMMA AdmitKeeps ==
    ASSUME NEW c \in Clients, IInv, Admit(c)
    PROVE  IInv'
  <1> USE DEF IInv
  <1>0. /\ request[c].token \in Tokens
        /\ request[c].token.sub \in Users
        /\ request[c].token.use # "refresh"
    BY GatewayAssumption DEF Types, Admit, Accepted, Sensible
  <1>1. Types'
    BY <1>0 DEF Types, Admit, table
  <1>2. ASSUME NEW d \in Clients
        PROVE  (Identified(d) /\ Called(d) /\ Recorded(d) /\ Shown(d) /\ Truth(d))'
    BY <1>0 DEF Types, Identified, Called, Recorded, Shown, Truth, Admit, table
  <1> QED
    BY <1>1, <1>2

\* A body that does not bind is refused before anything is called.
LEMMA BindFailsKeeps ==
    ASSUME NEW c \in Clients, IInv, BindFails(c)
    PROVE  IInv'
  <1> USE DEF IInv
  <1>1. Types'
    BY DEF Types, BindFails, Finish, table
  <1>2. ASSUME NEW d \in Clients
        PROVE  (Identified(d) /\ Called(d) /\ Recorded(d) /\ Shown(d) /\ Truth(d))'
    BY DEF Types, Identified, Called, Recorded, Shown, Truth, BindFails, Finish, table
  <1> QED
    BY <1>1, <1>2

\* The call is made for the user of the token.
LEMMA ForwardKeeps ==
    ASSUME NEW c \in Clients, IInv, Forward(c)
    PROVE  IInv'
  <1> USE DEF IInv
  <1>1. Types'
    BY DEF Types, Forward, Table!Arrive, Table!Answer, Delivered, Calls, Codes
  <1>2. ASSUME NEW d \in Clients
        PROVE  (Identified(d) /\ Called(d) /\ Recorded(d) /\ Shown(d) /\ Truth(d))'
    BY DEF Types, Identified, Called, Recorded, Shown, Truth, Forward, Caller, Table!Arrive, Table!Answer, Delivered, Calls
  <1> QED
    BY <1>1, <1>2

\* The status repeats what the answer of the call says.
LEMMA AnsweredKeeps ==
    ASSUME NEW c \in Clients, IInv, Answered(c)
    PROVE  IInv'
  <1> USE DEF IInv
  <1> DEFINE code == StatusOf(request[c].op, reply[c].code)
  <1>0. /\ code \in Nat
        /\ code \in {200, 201} => reply[c].code = "OK"
        /\ code \in {400, 401, 404} => reply[c].code \in Table!Refusals
    BY StatusCodes DEF Types
  <1> HIDE DEF code
  <1>a. Finish(c, code, reply[c].shown)
    BY DEF Answered, code
  <1>1. Types'
    BY <1>0, <1>a DEF Types, Answered, Finish, table
  <1>2. ASSUME NEW d \in Clients
        PROVE  (Identified(d) /\ Called(d) /\ Recorded(d) /\ Shown(d) /\ Truth(d))'
    <2>1. CASE d = c
      <3>1. /\ user[c] = request[c].token.sub
            /\ request[c].token # NoToken
        BY GatewayAssumption DEF Answered, Identified
      <3>2. (Identified(c) /\ Called(c) /\ Recorded(c))'
        BY <1>a DEF Types, Identified, Called, Recorded, Answered, Finish, table
      <3>3. Shown(c)'
        BY <3>1, <1>a DEF Types, Shown, Answered, Finish
      <3>4. Truth(c)'
        BY <1>0, <1>a DEF Types, Recorded, Truth, Answered, Finish
      <3> QED
        BY <2>1, <3>2, <3>3, <3>4
    <2>2. CASE d # c
      BY <2>2, <1>a DEF Types, Identified, Called, Recorded, Shown, Truth, Answered, Finish, table
    <2> QED
      BY <2>1, <2>2
  <1> QED
    BY <1>1, <1>2

\* A call that takes effect is recorded.
LEMMA TakesKeeps ==
    ASSUME NEW c \in Clients, IInv, Takes(c)
    PROVE  IInv'
  <1> USE DEF IInv
  <1>0. Table!Takes(c)
    BY DEF Takes, Table!Created, Table!Updated, Table!Deleted, Table!Missed
  <1>a. tasks' \in [TaskIds -> Table!Row \cup {NoTask}]
    <2>1. CASE Table!Created(c)
      BY <2>1 DEF Types, Table!Created
    <2>2. CASE Table!Updated(c)
      BY <2>2 DEF Types, Table!Updated
    <2>3. CASE Table!Deleted(c)
      BY <2>3 DEF Types, Table!Deleted
    <2>4. CASE Table!Missed(c)
      BY <2>4 DEF Types, Table!Missed
    <2> QED
      BY <2>1, <2>2, <2>3, <2>4 DEF Takes
  <1>b. httpVars' = httpVars /\ effect' = [effect EXCEPT ![c] = TRUE]
    BY DEF Takes
  <1>1. Types'
    BY <1>0, <1>a, <1>b DEF Types, Table!Takes, httpVars
  <1>2. ASSUME NEW d \in Clients
        PROVE  (Identified(d) /\ Called(d) /\ Recorded(d) /\ Shown(d) /\ Truth(d))'
    BY <1>0, <1>b DEF Types, Identified, Called, Recorded, Shown, Truth, Table!Takes, httpVars
  <1> QED
    BY <1>1, <1>2

\* A refusal comes before any effect, an acknowledgement after it, and a read
\* shows rows of the user of the call.
LEMMA ReturnsKeeps ==
    ASSUME NEW c \in Clients, IInv, Returns(c)
    PROVE  IInv'
  <1> USE DEF IInv
  <1>0. pc[c] = "forwarded"
    <2>1. phase[c] # "idle"
      BY DEF Returns, Table!Acknowledge, Table!Refuse, Table!Doubt, Table!Show
    <2> QED
      BY <2>1 DEF Called
  <1>1. PICK code \in Codes, shown \in SUBSET (TaskIds \X Table!Row) :
            /\ Table!Respond(c, code, shown)
            /\ \A s \in shown : s[2].owner = arg[c].user
            /\ code = "OK" => phase[c] = "done" \/ request[c].op \notin Writes
            /\ code \in Table!Refusals => phase[c] = "open"
    <2>1. CASE Table!Acknowledge(c)
      BY <2>1 DEF Table!Acknowledge, Table!Refusals, Codes
    <2>2. CASE Table!Refuse(c)
      BY <2>2 DEF Table!Refuse, Table!Refusals, Codes
    <2>3. CASE Table!Doubt(c)
      BY <2>3 DEF Table!Doubt, Table!Doubts, Table!Refusals, Codes
    <2>4. CASE Table!Show(c)
      <3>1. request[c].op = arg[c].op /\ phase[c] = "open"
        BY <1>0, <2>4 DEF Called, Table!Show
      <3>2. CASE arg[c].op = "get"
        <4> DEFINE rows == {<<arg[c].id, tasks[arg[c].id]>>}
        <4>1. Table!Respond(c, "OK", rows) /\ Table!Owned(arg[c].id, arg[c].user)
          BY <2>4, <3>2 DEF Table!Show
        <4>2. rows \in SUBSET (TaskIds \X Table!Row) /\ \A s \in rows : s[2].owner = arg[c].user
          BY <4>1 DEF Types, Table!Owned
        <4> QED
          BY <3>1, <3>2, <4>1, <4>2 DEF Table!Refusals, Codes, Writes
      <3>3. CASE arg[c].op = "list"
        <4> DEFINE rows == {<<t, tasks[t]>> : t \in {s \in TaskIds : Table!Owned(s, arg[c].user)}}
        <4>1. Table!Respond(c, "OK", rows)
          BY <2>4, <3>3 DEF Table!Show
        <4>2. rows \in SUBSET (TaskIds \X Table!Row) /\ \A s \in rows : s[2].owner = arg[c].user
          BY DEF Types, Table!Owned
        <4> QED
          BY <3>1, <3>3, <4>1, <4>2 DEF Table!Refusals, Codes, Writes
      <3> QED
        BY <2>4, <3>2, <3>3 DEF Table!Show
    <2> QED
      BY <2>1, <2>2, <2>3, <2>4 DEF Returns
  <1>2. httpVars' = httpVars /\ effect' = effect
    BY DEF Returns
  <1>3. Types'
    <2>1. arg' \in [Clients -> Calls]
      <3>1. arg \in [Clients -> Calls] /\ [arg[c] EXCEPT !.req = Blank] \in Calls
        BY Cleared DEF Types
      <3> QED
        BY <1>1, <3>1 DEF Table!Respond
    <2>2. reply' \in [Clients -> [code : Codes, shown : SUBSET (TaskIds \X Table!Row)]]
      BY <1>1 DEF Types, Table!Respond, Table!Answer
    <2> QED
      BY <1>1, <1>2, <2>1, <2>2 DEF Types, Table!Respond, httpVars
  <1>4. ASSUME NEW d \in Clients
        PROVE  (Identified(d) /\ Called(d) /\ Recorded(d) /\ Shown(d) /\ Truth(d))'
    <2>1. CASE d = c
      <3>1. (Identified(c) /\ Called(c) /\ Truth(c))'
        BY <1>0, <1>1, <1>2 DEF Types, Calls, Identified, Called, Truth, Table!Respond, httpVars
      <3>2. Recorded(c)'
        BY <1>0, <1>1, <1>2 DEF Types, Recorded, Table!Respond, Table!Answer, httpVars
      <3>3. Shown(c)'
        BY <1>0, <1>1, <1>2 DEF Types, Called, Shown, Table!Respond, Table!Answer, httpVars
      <3> QED
        BY <2>1, <3>1, <3>2, <3>3
    <2>2. CASE d # c
      BY <2>2, <1>1, <1>2
      DEF Types, Identified, Called, Recorded, Shown, Truth, Table!Respond, httpVars
    <2> QED
      BY <2>1, <2>2
  <1> QED
    BY <1>3, <1>4

\* An outage leaves every open call in doubt.
LEMMA OutageKeeps ==
    ASSUME IInv, Outage
    PROVE  IInv'
  <1> USE DEF IInv
  <1>1. /\ httpVars' = httpVars /\ effect' = effect /\ tasks' = tasks
        /\ phase' = [c \in Clients |-> "idle"]
    BY DEF Outage, Table!Outage
  <1>2. ASSUME NEW d \in Clients
        PROVE  /\ arg'[d] = [arg[d] EXCEPT !.req = Blank]
               /\ phase[d] = "idle" => reply'[d] = reply[d]
               /\ phase[d] # "idle" => reply'[d].code = "Unavailable" /\ reply'[d].shown = {}
    BY DEF Outage, Table!Outage, Table!Answer
  <1>3. Types'
    <2>1. arg' \in [Clients -> Calls]
      <3>1. \A d \in Clients : [arg[d] EXCEPT !.req = Blank] \in Calls
        BY Cleared DEF Types
      <3> QED
        BY <3>1 DEF Outage, Table!Outage
    <2>2. reply' \in [Clients -> [code : Codes, shown : SUBSET (TaskIds \X Table!Row)]]
      <3>1. Table!Answer("Unavailable", {}) \in [code : Codes, shown : SUBSET (TaskIds \X Table!Row)]
        BY DEF Table!Answer, Codes, Table!Doubts
      <3> QED
        BY <3>1 DEF Types, Outage, Table!Outage
    <2> QED
      BY <1>1, <2>1, <2>2 DEF Types, httpVars
  <1>4. ASSUME NEW d \in Clients
        PROVE  (Identified(d) /\ Called(d) /\ Recorded(d) /\ Shown(d) /\ Truth(d))'
    <2>1. arg'[d].user = arg[d].user /\ arg'[d].op = arg[d].op
      <3>1. arg[d] \in Calls /\ arg'[d] = [arg[d] EXCEPT !.req = Blank]
        BY <1>2 DEF Types
      <3> QED
        BY <3>1, Cleared
    <2>2. (Identified(d) /\ Called(d) /\ Truth(d))'
      BY <1>1, <2>1 DEF Identified, Called, Truth, httpVars
    <2>3. Recorded(d)'
      <3>1. /\ Recorded(d) /\ Called(d) /\ pc'[d] = pc[d] /\ request' = request
            /\ effect'[d] = effect[d] /\ phase'[d] = "idle"
        BY <1>1 DEF httpVars
      <3>2. CASE phase[d] = "idle"
        BY <1>2, <3>1, <3>2 DEF Recorded
      <3>3. CASE phase[d] # "idle"
        <4>1. reply'[d].code = "Unavailable"
          BY <1>2, <3>3
        <4>2. pc[d] = "forwarded"
          BY <3>1, <3>3 DEF Called
        <4> QED
          BY <3>1, <4>1, <4>2 DEF Recorded, Table!Refusals
      <3> QED
        BY <3>2, <3>3
    <2>4. Shown(d)'
      <3>1. Shown(d) /\ pc' = pc /\ body' = body /\ request' = request /\ user' = user
        BY <1>1 DEF httpVars
      <3>2. reply'[d].shown = reply[d].shown \/ reply'[d].shown = {}
        BY <1>2
      <3> QED
        BY <3>1, <3>2 DEF Shown
    <2> QED
      BY <2>2, <2>3, <2>4
  <1> QED
    BY <1>3, <1>4

\* Time and stuttering change nothing of a request.
LEMMA TickKeeps ==
    ASSUME IInv, Tick \/ UNCHANGED vars
    PROVE  IInv'
  <1> USE DEF IInv
  <1>1. Types'
    BY DEF Types, Tick, table, vars, httpVars
  <1>2. ASSUME NEW d \in Clients
        PROVE  (Identified(d) /\ Called(d) /\ Recorded(d) /\ Shown(d) /\ Truth(d))'
    BY DEF Types, Identified, Called, Recorded, Shown, Truth, Tick, table, vars, httpVars
  <1> QED
    BY <1>1, <1>2

\* Every step keeps the invariant.
LEMMA StepKeeps == IInv /\ [Next]_vars => IInv'
  <1> SUFFICES ASSUME IInv, [Next]_vars PROVE IInv'
    OBVIOUS
  <1>1. ASSUME NEW c \in Clients, NEW r \in Requests, Send(c, r) PROVE IInv'
    BY <1>1, SendKeeps
  <1>2. ASSUME NEW c \in Clients,
               \/ Reject(c) \/ Admit(c) \/ BindFails(c) \/ Forward(c) \/ Answered(c)
               \/ Takes(c) \/ Returns(c)
        PROVE  IInv'
    BY <1>2, RejectKeeps, AdmitKeeps, BindFailsKeeps, ForwardKeeps, AnsweredKeeps, TakesKeeps,
       ReturnsKeeps
  <1>3. CASE Outage
    BY <1>3, OutageKeeps
  <1>4. CASE Tick \/ UNCHANGED vars
    BY <1>4, TickKeeps
  <1> QED
    BY <1>1, <1>2, <1>3, <1>4 DEF Next

\* IInv is an invariant of the composition of gateway and todo-service.
THEOREM Invariance == Spec => []IInv
  BY InitInv, StepKeeps, PTL DEF Spec

\* Every answer of a task route shows rows only of the user whose token came
\* with the request.
THEOREM GatewayShowsOwnRows == Spec => []OnlyOwnRowsShown
  <1>1. IInv => OnlyOwnRowsShown
    BY DEF IInv, Shown, OnlyOwnRowsShown
  <1> QED
    BY <1>1, Invariance, PTL

\* The HTTP status of a write never claims an effect that did not happen, nor
\* denies one that did.
THEOREM GatewayStatusTruthful == Spec => []StatusTellsTruth
  <1>1. IInv => StatusTellsTruth
    BY DEF IInv, Truth, StatusTellsTruth
  <1> QED
    BY <1>1, Invariance, PTL

\* A call writes only for the user whose access token came with the request.
LEMMA WriterActs ==
    ASSUME NEW c \in Clients, IInv, Takes(c)
    PROVE  arg[c].user \in Users /\ ActsFor(c, arg[c].user)
  <1>1. phase[c] = "open"
    BY DEF Takes, Table!Created, Table!Updated, Table!Deleted, Table!Missed, Table!Takes
  <1>2. pc[c] = "forwarded" /\ Identified(c) /\ arg[c].user = user[c]
    BY <1>1 DEF IInv, Called
  <1>3. request[c].token \in Tokens /\ request[c].token.use # "refresh"
        /\ user[c] = request[c].token.sub
    BY <1>2 DEF Identified
  <1> QED
    BY <1>2, <1>3, GatewayAssumption DEF ActsFor

\* Only the owner of a row, through a request with an access token, creates,
\* changes or deletes it.
THEOREM GatewayOwnersWrite == Spec => OnlyOwnersWrite
  <1> DEFINE Written(t) ==
         \E c \in Clients, u \in Users :
            /\ ActsFor(c, u)
            /\ Owner(tasks[t]) \in {u, Nobody}
            /\ Owner(tasks'[t]) \in {u, Nobody}
  <1>1. ASSUME IInv, Next, NEW t \in TaskIds, tasks'[t] # tasks[t]
        PROVE  Written(t)
    <2>1. PICK c \in Clients : Takes(c)
      BY <1>1 DEF Next, Send, Reject, Admit, BindFails, Forward, Answered, Returns, Outage, Tick,
         Finish, table, Table!Arrive, Table!Acknowledge, Table!Refuse, Table!Doubt, Table!Show,
         Table!Respond, Table!Outage
    <2> DEFINE u == arg[c].user
    <2>2. u \in Users /\ ActsFor(c, u)
      BY <1>1, <2>1, WriterActs
    <2>3. Owner(tasks[t]) \in {u, Nobody} /\ Owner(tasks'[t]) \in {u, Nobody}
      <3>1. CASE Table!Created(c)
        BY <1>1, <3>1 DEF IInv, Types, Owner, Table!Created
      <3>2. CASE Table!Updated(c)
        BY <1>1, <3>2 DEF IInv, Types, Owner, Table!Updated, Table!Owned
      <3>3. CASE Table!Deleted(c)
        BY <1>1, <3>3 DEF IInv, Types, Owner, Table!Deleted, Table!Owned
      <3>4. CASE Table!Missed(c)
        BY <1>1, <3>4 DEF Table!Missed
      <3> QED
        BY <2>1, <3>1, <3>2, <3>3, <3>4 DEF Takes
    <2> QED
      BY <2>2, <2>3
  <1>2. IInv /\ [Next]_vars => [\A t \in TaskIds : tasks'[t] # tasks[t] => Written(t)]_vars
    BY <1>1
  <1> QED
    BY <1>2, Invariance, PTL DEF Spec, OnlyOwnersWrite
=============================================================================
