------------------------------ MODULE Sessions ------------------------------
(***************************************************************************)
(* Accounts and sessions: UserService and AuthService of the auth-service, *)
(* the gateway's AuthMiddleware in front of the protected routes, and the  *)
(* gateway's public benchmark token.  Tokens are not stored anywhere: they *)
(* outlive the row they were issued for, and are issued by one process's   *)
(* clock and checked by another's.                                         *)
(*                                                                         *)
(* users     the committed users table; ids the primary keys handed out    *)
(* clock     the clocks of the auth-service and of the gateway             *)
(* held      the tokens each client has seen                               *)
(* pc, arg, entity, reply   the handler serving each client: where it is,  *)
(*           its request, the user struct it read, its answer              *)
(* identity  history: the users whose password a client has proved, or     *)
(*           for whom it was handed a token                                *)
(* gone      history: the users already deleted when the call came in      *)
(*                                                                         *)
(* A write and its commit are one step here: the row lock or index entry   *)
(* taken by the write is held until the commit (TaskService has the steps  *)
(* apart).                                                                 *)
(***************************************************************************)
EXTENDS Naturals

CONSTANTS
    Clients,        \* concurrent callers; a client's own password is itself
    Bearers,        \* clients that only present tokens handed to them
    Ops,            \* bound: the calls each client makes
    Ids,            \* primary keys gen_random_uuid() can draw
    BadId,          \* an identifier that is not a UUID
    NoId,           \* the optional user_id of a refresh left empty
    Emails, NoEmail,
    RequestEmails,  \* bound: the emails requests carry
    BenchmarkEmails,\* bound: the emails benchmark tokens are asked for
    NoPassword,
    Duration,       \* JWT_TOKEN_DURATION
    MaxClock,       \* bound on both clocks
    MaxLag,         \* bound on how far the gateway's clock is behind
    MaxLead,        \* bound on how far it is ahead
    NoUser, NoToken

\* uuid.NewSHA1 gives a version 5 UUID, gen_random_uuid() a version 4 one.
BenchmarkId(email) == <<"sha1", email>>

ASSUME SessionsAssumption ==
    /\ Bearers \subseteq Clients
    /\ \A b \in Bearers : Ops[b] \subseteq {"profile", "tasks", "verify", "refresh"}
    /\ NoEmail \notin Emails
    /\ RequestEmails \cup BenchmarkEmails \subseteq Emails \cup {NoEmail}
    /\ NoPassword \notin Clients
    /\ Duration \in Nat /\ MaxClock \in Nat /\ MaxLag \in Nat /\ MaxLead \in Nat
    /\ BadId \notin Ids /\ NoId \notin Ids /\ BadId # NoId
    /\ \A email \in Emails \cup {NoEmail} : BenchmarkId(email) \notin Ids

VARIABLES users, ids, clock, held, pc, arg, entity, reply, identity, gone

vars == <<users, ids, clock, held, pc, arg, entity, reply, identity, gone>>

-----------------------------------------------------------------------------
(* Tokens.                                                                 *)

TokenTypeForUse(use) == IF use = "refresh" THEN "rt+jwt" ELSE "at+jwt"

Sign(sub, email, use, now) ==
    [sub |-> sub, email |-> email, use |-> use, typ |-> TokenTypeForUse(use),
     iat |-> now, exp |-> now + Duration]

\* Variant: a token of the current second is not accepted yet.
ValidateStrict(token, now) == now < token.exp /\ token.iat < now

\* Validator.Validate on the times, without leeway.
Validate(token, now) == now < token.exp /\ token.iat <= now

\* JWTClaims.Validate and validateTokenTypeHeader.
Parse(token, now) ==
    /\ token # NoToken
    /\ Validate(token, now)
    /\ token.email # NoEmail
    /\ token.typ = TokenTypeForUse(token.use)

Pair(user, now) == {Sign(user.id, user.email, use, now) : use \in {"access", "refresh"}}

-----------------------------------------------------------------------------
(* Users.                                                                  *)

User == [email : Emails \cup {NoEmail}, password : Clients]

Exists(id) == id \in Ids /\ users[id] # NoUser

Struct(id) == [id |-> id, email |-> users[id].email, password |-> users[id].password]

\* Variant: the column without its unique constraint.
EmailTakenNever(email, id) == FALSE

\* The unique index on email; id is the row being written.
EmailTaken(email, id) == \E i \in Ids \ {id} : Exists(i) /\ users[i].email = email

Codes == {"none", "OK", "InvalidArgument", "NotFound", "Unauthenticated", "Internal"}

Blank == [op |-> "none", id |-> NoId, email |-> NoEmail, password |-> NoPassword,
          token |-> NoToken]

Silence == [code |-> "none", user |-> NoId]

Init ==
    /\ users = [i \in Ids |-> NoUser]
    /\ ids = {}
    /\ clock = [auth |-> 0, gateway |-> 0]
    /\ held = [c \in Clients |-> {}]
    /\ pc = [c \in Clients |-> "idle"]
    /\ arg = [c \in Clients |-> Blank]
    /\ entity = [c \in Clients |-> NoUser]
    /\ reply = [c \in Clients |-> Silence]
    /\ identity = [c \in Clients |-> {}]
    /\ gone = [c \in Clients |-> {}]

\* What a client can ask for: it presents tokens it has seen and uses its
\* own password.
Requests(c) ==
    LET Presented == held[c] \cup {NoToken}
        Target == Ids \cup {BadId}
    IN  {a \in [op : {"profile", "tasks", "verify"}, id : {NoId}, email : {NoEmail},
                password : {NoPassword}, token : Presented]
               \cup [op : {"refresh"}, id : Target \cup {NoId}, email : {NoEmail},
                     password : {NoPassword}, token : Presented]
               \cup [op : {"register", "signin"}, id : {NoId}, email : RequestEmails,
                     password : {c}, token : {NoToken}]
               \cup [op : {"update"}, id : Target, email : RequestEmails \cup {NoEmail},
                     password : {c, NoPassword}, token : {NoToken}]
               \cup [op : {"delete"}, id : Target, email : {NoEmail},
                     password : {NoPassword}, token : {NoToken}] : a.op \in Ops[c]}

Invoke(c, a) ==
    /\ pc[c] = "idle"
    /\ pc' = [pc EXCEPT ![c] = "called"]
    /\ arg' = [arg EXCEPT ![c] = a]
    /\ reply' = [reply EXCEPT ![c] = Silence]
    /\ gone' = [gone EXCEPT ![c] = {i \in ids : ~Exists(i)}]
    /\ UNCHANGED <<users, ids, clock, held, entity, identity>>

Answer(c, code, user) ==
    /\ pc' = [pc EXCEPT ![c] = "idle"]
    /\ reply' = [reply EXCEPT ![c] = [code |-> code, user |-> user]]
    /\ arg' = [arg EXCEPT ![c] = Blank]
    /\ entity' = [entity EXCEPT ![c] = NoUser]
    /\ gone' = [gone EXCEPT ![c] = {}]

Return(c, code, user) ==
    /\ Answer(c, code, user)
    /\ UNCHANGED <<users, ids, clock, held, identity>>

\* The write takes place; the commit's answer may be lost.
Settle(c, code) ==
    /\ code \in {"OK", "Internal"}
    /\ Answer(c, code, NoId)
    /\ UNCHANGED <<clock, held, identity>>

-----------------------------------------------------------------------------
(* UserService.                                                            *)

Create(c) ==
    /\ pc[c] = "called" /\ arg[c].op = "register"
    /\ ~EmailTaken(arg[c].email, NoId)
    /\ \E id \in Ids \ ids :
          /\ users' = [users EXCEPT ![id] =
                         [email |-> arg[c].email, password |-> arg[c].password]]
          /\ ids' = ids \cup {id}
    /\ \E code \in Codes : Settle(c, code)

\* Hashing, the insert or the commit fails, a taken email among the reasons.
CreateFails(c) ==
    /\ pc[c] = "called" /\ arg[c].op = "register"
    /\ Return(c, "Internal", NoId)

\* GetById in the transaction of an update or a delete.
GetById(c) ==
    /\ pc[c] = "called" /\ arg[c].op \in {"update", "delete"}
    /\ Exists(arg[c].id)
    /\ entity' = [entity EXCEPT ![c] = Struct(arg[c].id)]
    /\ pc' = [pc EXCEPT ![c] = "read"]
    /\ UNCHANGED <<users, ids, clock, held, arg, reply, identity, gone>>

\* Nothing there, or the query fails, which is answered alike.
GetByIdFails(c) ==
    /\ pc[c] = "called" /\ arg[c].op \in {"update", "delete"}
    /\ Return(c, IF arg[c].id = BadId THEN "InvalidArgument" ELSE "NotFound", NoId)

\* Updates(struct) skips the empty email and writes the password it read
\* back when the request has none; a row deleted meanwhile matches nothing.
Update(c) ==
    /\ pc[c] = "read" /\ arg[c].op = "update"
    /\ LET id == arg[c].id
           email == IF arg[c].email = NoEmail THEN users[id].email ELSE arg[c].email
           password == IF arg[c].password = NoPassword THEN entity[c].password
                       ELSE arg[c].password
       IN  \/ /\ Exists(id)
              /\ ~EmailTaken(email, id)
              /\ users' = [users EXCEPT ![id] = [email |-> email, password |-> password]]
           \/ ~Exists(id) /\ UNCHANGED users
    /\ \E code \in Codes : Settle(c, code)
    /\ UNCHANGED ids

Delete(c) ==
    /\ pc[c] = "read" /\ arg[c].op = "delete"
    /\ users' = [users EXCEPT ![arg[c].id] = NoUser]
    /\ \E code \in Codes : Settle(c, code)
    /\ UNCHANGED ids

WriteFails(c) ==
    /\ pc[c] = "read" /\ arg[c].op \in {"update", "delete"}
    /\ Return(c, "Internal", NoId)

-----------------------------------------------------------------------------
(* AuthService.                                                            *)

\* SignIn: GetByEmail.
GetByEmail(c) ==
    /\ pc[c] = "called" /\ arg[c].op = "signin"
    /\ \E i \in Ids :
          /\ Exists(i) /\ users[i].email = arg[c].email
          /\ entity' = [entity EXCEPT ![c] = Struct(i)]
    /\ pc' = [pc EXCEPT ![c] = "read"]
    /\ UNCHANGED <<users, ids, clock, held, arg, reply, identity, gone>>

\* Nothing there, or the query fails.
GetByEmailFails(c) ==
    /\ pc[c] = "called" /\ arg[c].op = "signin"
    /\ Return(c, "Unauthenticated", NoId)

\* SignIn: the password is compared with the hash that was read.
WrongPassword(c) ==
    /\ pc[c] = "read" /\ arg[c].op = "signin"
    /\ entity[c].password # arg[c].password
    /\ Return(c, "Unauthenticated", NoId)

\* signTokenPair, and the tokens reach the client.
SignTokenPair(c) ==
    /\ held' = [held EXCEPT ![c] = @ \cup Pair(entity[c], clock.auth)]
    /\ Answer(c, "OK", entity[c].id)
    /\ UNCHANGED <<users, ids, clock>>

SignIn(c) ==
    /\ pc[c] = "read" /\ arg[c].op = "signin"
    /\ entity[c].password = arg[c].password
    /\ identity' = [identity EXCEPT ![c] = @ \cup {entity[c].id}]
    /\ SignTokenPair(c)

\* Variant: the token_use claim is not looked at.
RefreshableAnyUse(c, token) == Parse(token, clock.auth)

\* RefreshToken: the checks on the token itself.
Refreshable(c, token) == Parse(token, clock.auth) /\ token.use = "refresh"

\* RefreshToken up to the user lookup.
RefreshParse(c) ==
    /\ pc[c] = "called" /\ arg[c].op = "refresh"
    /\ Refreshable(c, arg[c].token)
    /\ arg[c].id \in {NoId, arg[c].token.sub}
    /\ pc' = [pc EXCEPT ![c] = "parsed"]
    /\ UNCHANGED <<users, ids, clock, held, arg, entity, reply, identity, gone>>

RefreshRejected(c) ==
    /\ pc[c] = "called" /\ arg[c].op = "refresh"
    /\ \/ arg[c].token = NoToken /\ Return(c, "InvalidArgument", NoId)
       \/ /\ arg[c].token # NoToken /\ ~Refreshable(c, arg[c].token)
          /\ Return(c, "Unauthenticated", NoId)
       \/ /\ Refreshable(c, arg[c].token) /\ arg[c].id = BadId
          /\ Return(c, "InvalidArgument", NoId)
       \/ /\ Refreshable(c, arg[c].token) /\ arg[c].id \notin {NoId, BadId, arg[c].token.sub}
          /\ Return(c, "Unauthenticated", NoId)

\* Variant: the user is taken from the claims, without a lookup.
ClaimedSubject(token) == {[id |-> token.sub, email |-> token.email, password |-> NoPassword]}

\* Variant: the user is looked up by the email claim.
ClaimedEmail(token) ==
    {Struct(i) : i \in {j \in Ids : Exists(j) /\ users[j].email = token.email}}

\* The row a refresh signs for: the one with the token's user id.
RefreshedUser(token) == {Struct(i) : i \in {j \in {token.sub} : Exists(j)}}

\* RefreshToken: GetById.
RefreshLookup(c) ==
    /\ pc[c] = "parsed"
    /\ \E user \in RefreshedUser(arg[c].token) :
          entity' = [entity EXCEPT ![c] = user]
    /\ pc' = [pc EXCEPT ![c] = "read"]
    /\ UNCHANGED <<users, ids, clock, held, arg, reply, identity, gone>>

RefreshLookupFails(c) ==
    /\ pc[c] = "parsed"
    /\ Return(c, "Unauthenticated", NoId)

RefreshToken(c) ==
    /\ pc[c] = "read" /\ arg[c].op = "refresh"
    /\ SignTokenPair(c)
    /\ UNCHANGED identity

\* signTokenPair fails.
SignFails(c) ==
    /\ pc[c] = "read" /\ arg[c].op \in {"signin", "refresh"}
    /\ arg[c].op = "signin" => entity[c].password = arg[c].password
    /\ Return(c, "Internal", NoId)

\* AuthService.Verify says whether a token is valid, whatever its use.
Verify(c) ==
    /\ pc[c] = "called" /\ arg[c].op = "verify"
    /\ Return(c, IF Parse(arg[c].token, clock.auth) THEN "OK" ELSE "Unauthenticated", NoId)

-----------------------------------------------------------------------------
(* The gateway.                                                            *)

Protected == {"profile", "tasks"}

\* AuthMiddleware.Handle: an access token, valid by the gateway's clock.
Admissible(token) == Parse(token, clock.gateway) /\ token.use = "access"

Admit(c) ==
    /\ pc[c] = "called" /\ arg[c].op \in Protected
    /\ Admissible(arg[c].token)
    /\ pc' = [pc EXCEPT ![c] = "admitted"]
    /\ UNCHANGED <<users, ids, clock, held, arg, entity, reply, identity, gone>>

Refuse(c) ==
    /\ pc[c] = "called" /\ arg[c].op \in Protected
    /\ ~Admissible(arg[c].token)
    /\ Return(c, "Unauthenticated", NoId)

\* UserHandler.GetProfile: any error is answered as not found.
GetProfile(c) ==
    /\ pc[c] = "admitted" /\ arg[c].op = "profile"
    /\ Exists(arg[c].token.sub)
    /\ Return(c, "OK", arg[c].token.sub)

GetProfileFails(c) ==
    /\ pc[c] = "admitted" /\ arg[c].op = "profile"
    /\ Return(c, "NotFound", NoId)

\* TaskHandler: forwardContext puts the subject in x-user-id.
Forward(c) ==
    /\ pc[c] = "admitted" /\ arg[c].op = "tasks"
    /\ Return(c, "OK", arg[c].token.sub)

\* BenchmarkHandler.SignToken: anyone, any email; signed by the gateway.
BenchmarkToken(c, email) ==
    /\ pc[c] = "idle"
    /\ held' = [held EXCEPT ![c] =
                  @ \cup {Sign(BenchmarkId(email), email, "access", clock.gateway)}]
    /\ UNCHANGED <<users, ids, clock, pc, arg, entity, reply, identity, gone>>

-----------------------------------------------------------------------------
(* The environment.                                                        *)

\* A client hands one of its access tokens to a bearer.
Share(c, b, token) ==
    /\ token.use = "access"
    /\ held' = [held EXCEPT ![b] = @ \cup {token}]
    /\ identity' = [identity EXCEPT ![b] = @ \cup ({token.sub} \cap Ids)]
    /\ UNCHANGED <<users, ids, clock, pc, arg, entity, reply, gone>>

TickAuth ==
    /\ clock.auth < MaxClock
    /\ clock.auth < clock.gateway + MaxLag
    /\ clock' = [clock EXCEPT !.auth = @ + 1]
    /\ UNCHANGED <<users, ids, held, pc, arg, entity, reply, identity, gone>>

TickGateway ==
    /\ clock.gateway < MaxClock
    /\ clock.gateway < clock.auth + MaxLead
    /\ clock' = [clock EXCEPT !.gateway = @ + 1]
    /\ UNCHANGED <<users, ids, held, pc, arg, entity, reply, identity, gone>>

UserStep(c) ==
    \/ Create(c) \/ CreateFails(c) \/ GetById(c) \/ GetByIdFails(c)
    \/ Update(c) \/ Delete(c) \/ WriteFails(c)

AuthStep(c) ==
    \/ GetByEmail(c) \/ GetByEmailFails(c) \/ WrongPassword(c) \/ SignIn(c)
    \/ RefreshParse(c) \/ RefreshRejected(c) \/ RefreshLookup(c) \/ RefreshLookupFails(c)
    \/ RefreshToken(c) \/ SignFails(c) \/ Verify(c)

GatewayStep(c) ==
    \/ Admit(c) \/ Refuse(c) \/ GetProfile(c) \/ GetProfileFails(c) \/ Forward(c)
    \/ \E email \in BenchmarkEmails : BenchmarkToken(c, email)

Next ==
    \/ \E c \in Clients :
          \/ \E a \in Requests(c) : Invoke(c, a)
          \/ UserStep(c) \/ AuthStep(c) \/ GatewayStep(c)
    \/ \E c \in Clients \ Bearers, b \in Bearers :
          \E token \in held[c] : Share(c, b, token)
    \/ TickAuth
    \/ TickGateway

Spec == Init /\ [][Next]_vars

-----------------------------------------------------------------------------
(* Properties.                                                             *)

Subjects == Ids \cup {BenchmarkId(email) : email \in Emails \cup {NoEmail}}

Token == [sub : Subjects, email : Emails \cup {NoEmail}, use : {"access", "refresh"},
          typ : {"at+jwt", "rt+jwt"}, iat : Nat, exp : Nat]

Request == [op : {"none", "register", "signin", "update", "delete", "refresh", "verify"}
                 \cup Protected,
            id : Ids \cup {NoId, BadId}, email : Emails \cup {NoEmail},
            password : Clients \cup {NoPassword}, token : Token \cup {NoToken}]

Entity == [id : Ids, email : Emails \cup {NoEmail}, password : Clients]

\* Every variable has its type: requests in flight carry tokens the services
\* have issued, and handlers work on structs read from the table.
TypeOK ==
    /\ users \in [Ids -> User \cup {NoUser}]
    /\ ids \in SUBSET Ids
    /\ clock \in [auth : 0..MaxClock, gateway : 0..MaxClock]
    /\ held \in [Clients -> SUBSET Token]
    /\ pc \in [Clients -> {"idle", "called", "parsed", "read", "admitted"}]
    /\ arg \in [Clients -> Request]
    /\ entity \in [Clients -> Entity \cup {NoUser}]
    /\ reply \in [Clients -> [code : Codes, user : Subjects \cup {NoId}]]
    /\ identity \in [Clients -> SUBSET Ids]
    /\ gone \in [Clients -> SUBSET ids]

\* No two accounts share an email, however registrations and updates of the
\* email interleave.
UniqueEmails ==
    \A i, j \in Ids : Exists(i) /\ Exists(j) /\ i # j => users[i].email # users[j].email

\* A client acts only as users whose password it has proved, or whose token
\* it was handed: along any chain of refreshes, also when an email has moved
\* to another account, and never through a benchmark token.
OwnIdentity ==
    \A c \in Clients :
        /\ reply[c].user \in Ids => reply[c].user \in identity[c]
        /\ \A token \in held[c] : token.sub \in Ids => token.sub \in identity[c]

\* A sign-in or a refresh that comes in after the deletion of an account has
\* committed yields no tokens for it.
NoTokensAfterDelete ==
    [][\A c \in Clients :
          pc[c] = "read" /\ arg[c].op \in {"signin", "refresh"} /\ pc'[c] = "idle"
              => reply'[c].user \notin gone[c]]_vars

\* An access token does not prolong a session: who was handed access tokens
\* never comes by a refresh token.
AccessTokenIsFinal ==
    \A b \in Bearers : \A token \in held[b] : token.use = "access"

\* The gateway refuses an access token it is presented only once the token
\* has expired, provided its clock is not behind the auth-service's.
RefusedOnlyIfExpired ==
    [][\A c \in Clients :
          (/\ pc[c] = "called" /\ arg[c].op \in Protected /\ pc'[c] = "idle"
           /\ arg[c].token # NoToken
           /\ arg[c].token.use = "access" /\ arg[c].token.email # NoEmail)
              => clock.gateway >= arg[c].token.exp]_vars

\* RegisterRequest's tag validate:"required,email": no account without email.
EmailRequired == \A i \in Ids : Exists(i) => users[i].email # NoEmail
=============================================================================
