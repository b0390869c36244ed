--------------------------- MODULE SessionsProofs ---------------------------
(***************************************************************************)
(* For any number of clients, accounts and emails, and any clocks.  The    *)
(* properties about sessions need what a handler under way may rely on:    *)
(* the token of its request is one the client has seen (InFlight), the     *)
(* struct it read belongs to the token's subject and to no account that    *)
(* was gone when the call came in, and identifiers are never reused        *)
(* (GoneForGood).                                                          *)
(***************************************************************************)
EXTENDS Sessions, TLAPS

\* What the handler of a call relies on between its steps.
InFlight(c) ==
    /\ arg[c].token \in held[c] \cup {NoToken}
    /\ pc[c] = "called" /\ arg[c].op = "register" => arg[c].password \in Clients
    /\ pc[c] \in {"parsed", "admitted"} => arg[c].token # NoToken
    /\ pc[c] = "parsed" => arg[c].op = "refresh"
    /\ pc[c] = "read" => /\ arg[c].op \in {"update", "delete", "signin", "refresh"}
                         /\ entity[c] \in Entity
                         /\ entity[c].id \notin gone[c]
    /\ pc[c] = "read" /\ arg[c].op = "refresh" =>
          /\ arg[c].token # NoToken
          /\ entity[c].id = arg[c].token.sub

\* An account that was gone when a call came in does not come back.
GoneForGood == \A c \in Clients : \A i \in gone[c] : ~Exists(i)

\* A bearer's calls do not get as far as reading a user.
BearerOnly(b) ==
    /\ pc[b] \in {"idle", "called", "admitted"}
    /\ pc[b] = "called" => arg[b].op \in {"profile", "tasks", "verify", "refresh"}
    /\ \A token \in held[b] : token.use = "access"

\* Tokens are dated at most MaxLag after the gateway's clock, and their
\* header agrees with their use.
Dated ==
    /\ clock.auth <= clock.gateway + MaxLag
    /\ \A c \in Clients : \A token \in held[c] :
          /\ token.iat <= clock.gateway + MaxLag
          /\ token.typ = TokenTypeForUse(token.use)

IInv ==
    /\ TypeOK
    /\ UniqueEmails
    /\ OwnIdentity
    /\ GoneForGood
    /\ \A c \in Clients : InFlight(c)
    /\ \A b \in Bearers : BearerOnly(b)
    /\ Dated

USE SessionsAssumption

\* The empty table, without tokens or calls.
LEMMA InitEstablishes == Init => IInv
<1> SUFFICES ASSUME Init PROVE IInv
  OBVIOUS
<1> USE DEF Init
<1>1. TypeOK
  BY DEF TypeOK, Blank, Silence, Request, Codes
<1>2. UniqueEmails /\ OwnIdentity /\ GoneForGood
  BY DEF UniqueEmails, OwnIdentity, GoneForGood, Exists, Silence
<1>3. \A c \in Clients : InFlight(c)
  BY DEF InFlight, Blank
<1>4. \A b \in Bearers : BearerOnly(b)
  BY DEF BearerOnly
<1>5. Dated
  BY DEF Dated
<1> QED BY <1>1, <1>2, <1>3, <1>4, <1>5 DEF IInv

\* Signing gives a token that is dated and typed.
LEMMA SignType ==
    ASSUME NEW sub \in Subjects, NEW email \in Emails \cup {NoEmail},
           NEW use \in {"access", "refresh"}, NEW now \in Nat
    PROVE  /\ Sign(sub, email, use, now) \in Token
           /\ Sign(sub, email, use, now).sub = sub
           /\ Sign(sub, email, use, now).use = use
           /\ Sign(sub, email, use, now).iat = now
           /\ Sign(sub, email, use, now).typ = TokenTypeForUse(use)
BY DEF Sign, Token, TokenTypeForUse

\* A handler that returns and changes nothing else.
LEMMA ReturnPreserves ==
    ASSUME IInv, NEW c \in Clients, NEW code \in Codes,
           NEW user \in Subjects \cup {NoId},
           user \in Ids => user \in identity[c],
           Return(c, code, user)
    PROVE  IInv'
<1> USE DEF IInv, Return, Answer
<1>1. TypeOK'
  <2>1. Blank \in Request
    BY DEF Blank, Request
  <2> QED BY <2>1 DEF TypeOK
<1>2. UniqueEmails' /\ GoneForGood'
  BY DEF UniqueEmails, GoneForGood, Exists, TypeOK
<1>3. OwnIdentity'
  BY DEF OwnIdentity, TypeOK
<1>4. \A d \in Clients : InFlight(d)'
  BY DEF InFlight, Blank, TypeOK
<1>5. \A b \in Bearers : BearerOnly(b)'
  BY DEF BearerOnly, TypeOK
<1>6. Dated'
  BY DEF Dated
<1> QED BY <1>1, <1>2, <1>3, <1>4, <1>5, <1>6

\* A handler that goes on to its next step, having read a user or not.
LEMMA AdvancePreserves ==
    ASSUME IInv, NEW c \in Clients, NEW place \in {"parsed", "read", "admitted"},
           NEW user \in Entity \cup {NoUser},
           pc' = [pc EXCEPT ![c] = place],
           entity' = [entity EXCEPT ![c] = user],
           UNCHANGED <<users, ids, clock, held, arg, reply, identity, gone>>,
           InFlight(c)',
           c \in Bearers => place = "admitted"
    PROVE  IInv'
<1> USE DEF IInv
<1>1. TypeOK'
  BY DEF TypeOK
<1>2. UniqueEmails' /\ OwnIdentity' /\ GoneForGood'
  BY DEF UniqueEmails, OwnIdentity, GoneForGood, Exists
<1>3. \A d \in Clients : InFlight(d)'
  BY DEF InFlight, TypeOK
<1>4. \A b \in Bearers : BearerOnly(b)'
  BY DEF BearerOnly, TypeOK
<1>5. Dated'
  BY DEF Dated
<1> QED BY <1>1, <1>2, <1>3, <1>4, <1>5

\* The end of SignIn and RefreshToken.
LEMMA SignTokenPairPreserves ==
    ASSUME IInv, NEW c \in Clients, pc[c] = "read",
           identity' \in [Clients -> SUBSET Ids],
           entity[c].id \in identity'[c],
           \A d \in Clients : identity[d] \subseteq identity'[d],
           SignTokenPair(c)
    PROVE  IInv'
<1> USE DEF IInv, SignTokenPair, Answer
<1> DEFINE pair == Pair(entity[c], clock.auth)
<1>0. /\ entity[c] \in Entity
      /\ c \notin Bearers
  BY DEF InFlight, BearerOnly
<1>1. \A token \in pair : /\ token \in Token
                          /\ token.sub = entity[c].id
                          /\ token.iat = clock.auth
                          /\ token.typ = TokenTypeForUse(token.use)
  <2> SUFFICES ASSUME NEW use \in {"access", "refresh"}
               PROVE  LET token == Sign(entity[c].id, entity[c].email, use, clock.auth)
                      IN  /\ token \in Token
                          /\ token.sub = entity[c].id
                          /\ token.iat = clock.auth
                          /\ token.typ = TokenTypeForUse(token.use)
    BY DEF Pair
  <2>1. clock.auth \in Nat
    BY DEF TypeOK
  <2>2. entity[c].id \in Subjects /\ entity[c].email \in Emails \cup {NoEmail}
    BY <1>0 DEF Entity, Subjects
  <2> QED BY <2>1, <2>2, SignType
<1>2. /\ held' = [held EXCEPT ![c] = held[c] \cup pair]
      /\ held' \in [Clients -> SUBSET Token]
  BY <1>1 DEF TypeOK
<1> HIDE DEF pair
<1>3. TypeOK'
  <2>1. Blank \in Request
    BY DEF Blank, Request
  <2>2. entity[c].id \in Subjects
    BY <1>0 DEF Entity, Subjects
  <2> QED BY <1>2, <2>1, <2>2 DEF TypeOK, Codes
<1>4. UniqueEmails' /\ GoneForGood'
  BY DEF UniqueEmails, GoneForGood, Exists, TypeOK
<1>5. OwnIdentity'
  BY <1>1, <1>2 DEF OwnIdentity, TypeOK
<1>6. \A d \in Clients : InFlight(d)'
  BY <1>2 DEF InFlight, Blank, TypeOK
<1>7. \A b \in Bearers : BearerOnly(b)'
  BY <1>0, <1>2 DEF BearerOnly, TypeOK
<1>8. Dated'
  BY <1>1, <1>2 DEF Dated, TypeOK
<1> QED BY <1>3, <1>4, <1>5, <1>6, <1>7, <1>8

\* The end of a handler that wrote the table: the row it wrote keeps emails
\* unique and is not one that was handed out and is gone.
LEMMA SettlePreserves ==
    ASSUME IInv, NEW c \in Clients, NEW code \in Codes,
           Settle(c, code),
           users' \in [Ids -> User \cup {NoUser}],
           ids' \in SUBSET Ids, ids \subseteq ids',
           UniqueEmails',
           \A i \in ids : ~Exists(i) => ~Exists(i)'
    PROVE  IInv'
<1> USE DEF IInv, Settle, Answer
<1>1. TypeOK'
  <2>1. Blank \in Request
    BY DEF Blank, Request
  <2>2. gone' \in [Clients -> SUBSET ids']
    BY DEF TypeOK
  <2> QED BY <2>1, <2>2 DEF TypeOK
<1>2. GoneForGood'
  BY DEF GoneForGood, TypeOK
<1>3. OwnIdentity'
  BY DEF OwnIdentity, TypeOK
<1>4. \A d \in Clients : InFlight(d)'
  BY DEF InFlight, Blank, TypeOK
<1>5. \A b \in Bearers : BearerOnly(b)'
  BY DEF BearerOnly, TypeOK
<1>6. Dated'
  BY DEF Dated
<1> QED BY <1>1, <1>2, <1>3, <1>4, <1>5, <1>6

\* A call comes in.
LEMMA InvokePreserves ==
    ASSUME IInv, NEW c \in Clients, NEW a \in Requests(c), Invoke(c, a)
    PROVE  IInv'
<1> USE DEF IInv, Invoke
<1>1. /\ a \in Request
      /\ a.token \in held[c] \cup {NoToken}
      /\ a.op = "register" => a.password \in Clients
      /\ c \in Bearers => a.op \in {"profile", "tasks", "verify", "refresh"}
  <2>1. held[c] \subseteq Token
    BY DEF TypeOK
  <2>2. RequestEmails \subseteq Emails \cup {NoEmail}
    OBVIOUS
  <2> QED BY <2>1, <2>2 DEF Requests, Request, Protected
<1>2. TypeOK'
  <2>1. gone' \in [Clients -> SUBSET ids']
    BY DEF TypeOK
  <2>2. Silence \in [code : Codes, user : Subjects \cup {NoId}]
    BY DEF Silence, Codes
  <2> QED BY <1>1, <2>1, <2>2 DEF TypeOK
<1>3. UniqueEmails'
  BY DEF UniqueEmails, Exists
<1>4. GoneForGood'
  BY DEF GoneForGood, Exists, TypeOK
<1>5. OwnIdentity'
  BY DEF OwnIdentity, Silence, TypeOK
<1>6. \A d \in Clients : InFlight(d)'
  BY <1>1 DEF InFlight, TypeOK
<1>7. \A b \in Bearers : BearerOnly(b)'
  BY <1>1 DEF BearerOnly, TypeOK
<1>8. Dated'
  BY DEF Dated
<1> QED BY <1>2, <1>3, <1>4, <1>5, <1>6, <1>7, <1>8

\* The steps of UserService.
LEMMA UserPreserves ==
    ASSUME IInv, NEW c \in Clients, UserStep(c)
    PROVE  IInv'
<1>0. NoId \in Subjects \cup {NoId} /\ NoId \notin Ids
  OBVIOUS
<1>1. CASE Create(c)
  <2>1. PICK code \in Codes : Settle(c, code)
    BY <1>1 DEF Create
  <2>2. PICK id \in Ids \ ids :
          /\ users' = [users EXCEPT ![id] =
                         [email |-> arg[c].email, password |-> arg[c].password]]
          /\ ids' = ids \cup {id}
    BY <1>1 DEF Create
  <2>3. [email |-> arg[c].email, password |-> arg[c].password] \in User
    BY <1>1 DEF Create, IInv, InFlight, TypeOK, Request, User
  <2>4. users' \in [Ids -> User \cup {NoUser}]
    BY <2>2, <2>3 DEF IInv, TypeOK
  <2>5. UniqueEmails'
    <3>1. ~EmailTaken(arg[c].email, NoId)
      BY <1>1 DEF Create
    <3> QED BY <2>2, <3>1 DEF IInv, TypeOK, UniqueEmails, EmailTaken, Exists
  <2>6. ids' \in SUBSET Ids /\ ids \subseteq ids'
    BY <2>2 DEF IInv, TypeOK
  <2>7. \A i \in ids : ~Exists(i) => ~Exists(i)'
    BY <2>2 DEF IInv, TypeOK, Exists
  <2> QED BY <2>1, <2>4, <2>5, <2>6, <2>7, SettlePreserves
<1>2. CASE CreateFails(c)
  BY <1>0, <1>2, ReturnPreserves DEF CreateFails, Codes
<1>3. CASE GetById(c)
  <2>1. Struct(arg[c].id) \in Entity
    BY <1>3 DEF GetById, IInv, TypeOK, Exists, Struct, Entity, User
  <2>2. Struct(arg[c].id).id \notin gone[c]
    BY <1>3 DEF GetById, IInv, GoneForGood, Struct
  <2>3. InFlight(c)'
    BY <1>3, <2>1, <2>2 DEF GetById, IInv, InFlight, TypeOK
  <2>4. c \notin Bearers
    BY <1>3 DEF GetById, IInv, BearerOnly
  <2> QED BY <1>3, <2>1, <2>3, <2>4, AdvancePreserves DEF GetById
<1>4. CASE GetByIdFails(c)
  BY <1>0, <1>4, ReturnPreserves DEF GetByIdFails, Codes
<1>5. CASE Update(c)
  <2>1. PICK code \in Codes : Settle(c, code)
    BY <1>5 DEF Update
  <2> DEFINE id == arg[c].id
             email == IF arg[c].email = NoEmail THEN users[id].email ELSE arg[c].email
             password == IF arg[c].password = NoPassword THEN entity[c].password
                         ELSE arg[c].password
  <2>2. CASE Exists(id) /\ ~EmailTaken(email, id)
             /\ users' = [users EXCEPT ![id] = [email |-> email, password |-> password]]
    <3>1. [email |-> email, password |-> password] \in User
      BY <1>5, <2>2 DEF Update, IInv, InFlight, TypeOK, Request, User, Entity, Exists
    <3> HIDE DEF email, password
    <3>2. users' \in [Ids -> User \cup {NoUser}]
      BY <2>2, <3>1 DEF IInv, TypeOK
    <3>3. UniqueEmails'
      BY <2>2 DEF IInv, TypeOK, UniqueEmails, EmailTaken, Exists
    <3>4. \A i \in ids : ~Exists(i) => ~Exists(i)'
      BY <2>2 DEF IInv, TypeOK, Exists
    <3>5. ids' \in SUBSET Ids /\ ids \subseteq ids'
      BY <1>5 DEF Update, IInv, TypeOK
    <3> QED BY <2>1, <3>2, <3>3, <3>4, <3>5, SettlePreserves
  <2>3. CASE UNCHANGED users
    <3>1. users' \in [Ids -> User \cup {NoUser}] /\ ids' \in SUBSET Ids /\ ids \subseteq ids'
      BY <1>5, <2>3 DEF Update, IInv, TypeOK
    <3>2. UniqueEmails' /\ \A i \in ids : ~Exists(i) => ~Exists(i)'
      BY <2>3 DEF IInv, UniqueEmails, Exists
    <3> QED BY <2>1, <3>1, <3>2, SettlePreserves
  <2> QED BY <1>5, <2>2, <2>3 DEF Update
<1>6. CASE Delete(c)
  <2>1. PICK code \in Codes : Settle(c, code)
    BY <1>6 DEF Delete
  <2>2. users' \in [Ids -> User \cup {NoUser}] /\ ids' \in SUBSET Ids /\ ids \subseteq ids'
    BY <1>6 DEF Delete, IInv, TypeOK
  <2>3. UniqueEmails' /\ \A i \in ids : ~Exists(i) => ~Exists(i)'
    BY <1>6 DEF Delete, IInv, TypeOK, UniqueEmails, Exists
  <2> QED BY <2>1, <2>2, <2>3, SettlePreserves
<1>7. CASE WriteFails(c)
  BY <1>0, <1>7, ReturnPreserves DEF WriteFails, Codes
<1> QED BY <1>1, <1>2, <1>3, <1>4, <1>5, <1>6, <1>7 DEF UserStep

\* The steps of AuthService.
LEMMA AuthPreserves ==
    ASSUME IInv, NEW c \in Clients, AuthStep(c)
    PROVE  IInv'
<1>0. NoId \in Subjects \cup {NoId} /\ NoId \notin Ids
  OBVIOUS
<1>1. CASE GetByEmail(c)
  <2>1. PICK i \in Ids : Exists(i) /\ entity' = [entity EXCEPT ![c] = Struct(i)]
    BY <1>1 DEF GetByEmail
  <2>2. Struct(i) \in Entity
    BY <2>1 DEF IInv, TypeOK, Exists, Struct, Entity, User
  <2>3. Struct(i).id \notin gone[c]
    BY <2>1 DEF IInv, GoneForGood, Struct
  <2>4. InFlight(c)'
    BY <1>1, <2>1, <2>2, <2>3 DEF GetByEmail, IInv, InFlight, TypeOK
  <2>5. c \notin Bearers
    BY <1>1 DEF GetByEmail, IInv, BearerOnly
  <2> QED BY <1>1, <2>1, <2>2, <2>4, <2>5, AdvancePreserves DEF GetByEmail
<1>2. CASE GetByEmailFails(c)
  BY <1>0, <1>2, ReturnPreserves DEF GetByEmailFails, Codes
<1>3. CASE WrongPassword(c)
  BY <1>0, <1>3, ReturnPreserves DEF WrongPassword, Codes
<1>4. CASE SignIn(c)
  <2>1. entity[c].id \in Ids
    BY <1>4 DEF SignIn, IInv, InFlight, Entity
  <2>2. /\ identity' \in [Clients -> SUBSET Ids]
        /\ entity[c].id \in identity'[c]
        /\ \A d \in Clients : identity[d] \subseteq identity'[d]
    BY <1>4, <2>1 DEF SignIn, IInv, TypeOK
  <2> QED BY <1>4, <2>2, SignTokenPairPreserves DEF SignIn
<1>5. CASE RefreshParse(c)
  <2>1. arg[c].token # NoToken /\ arg[c].token.use = "refresh"
    BY <1>5 DEF RefreshParse, Refreshable, Parse
  <2>2. arg[c].token \in held[c]
    BY <2>1 DEF IInv, InFlight
  <2>3. c \notin Bearers
    BY <2>1, <2>2 DEF IInv, BearerOnly
  <2>4. InFlight(c)'
    BY <1>5, <2>1, <2>2 DEF RefreshParse, IInv, InFlight, TypeOK
  <2>5. entity' = [entity EXCEPT ![c] = entity[c]] /\ entity[c] \in Entity \cup {NoUser}
    BY <1>5 DEF RefreshParse, IInv, TypeOK
  <2> QED BY <1>5, <2>3, <2>4, <2>5, AdvancePreserves DEF RefreshParse
<1>6. CASE RefreshRejected(c)
  <2>1. Return(c, "InvalidArgument", NoId) \/ Return(c, "Unauthenticated", NoId)
    BY <1>6 DEF RefreshRejected
  <2> QED BY <1>0, <2>1, ReturnPreserves DEF Codes
<1>7. CASE RefreshLookup(c)
  <2>1. PICK user \in RefreshedUser(arg[c].token) : entity' = [entity EXCEPT ![c] = user]
    BY <1>7 DEF RefreshLookup
  <2> DEFINE sub == arg[c].token.sub
  <2>2. Exists(sub) /\ user = Struct(sub)
    BY <2>1 DEF RefreshedUser
  <2>3. user \in Entity /\ user.id = sub
    BY <2>2 DEF IInv, TypeOK, Exists, Struct, Entity, User
  <2>4. user.id \notin gone[c]
    BY <2>2, <2>3 DEF IInv, GoneForGood
  <2>5. InFlight(c)'
    BY <1>7, <2>1, <2>3, <2>4 DEF RefreshLookup, IInv, InFlight, TypeOK
  <2>6. c \notin Bearers
    BY <1>7 DEF RefreshLookup, IInv, BearerOnly
  <2> QED BY <1>7, <2>1, <2>3, <2>5, <2>6, AdvancePreserves DEF RefreshLookup
<1>8. CASE RefreshLookupFails(c)
  BY <1>0, <1>8, ReturnPreserves DEF RefreshLookupFails, Codes
<1>9. CASE RefreshToken(c)
  <2>1. /\ arg[c].token \in held[c]
        /\ entity[c].id = arg[c].token.sub
        /\ entity[c].id \in Ids
    BY <1>9 DEF RefreshToken, IInv, InFlight, Entity
  <2>2. entity[c].id \in identity[c]
    BY <2>1 DEF IInv, OwnIdentity
  <2>3. identity' = identity /\ identity \in [Clients -> SUBSET Ids]
    BY <1>9 DEF RefreshToken, IInv, TypeOK
  <2> QED BY <1>9, <2>2, <2>3, SignTokenPairPreserves DEF RefreshToken
<1>10. CASE SignFails(c)
  BY <1>0, <1>10, ReturnPreserves DEF SignFails, Codes
<1>11. CASE Verify(c)
  BY <1>0, <1>11, ReturnPreserves DEF Verify, Codes
<1> QED BY <1>1, <1>2, <1>3, <1>4, <1>5, <1>6, <1>7, <1>8, <1>9, <1>10, <1>11 DEF AuthStep

\* A token that another process's clock dated reaches a client.
LEMMA ReceivePreserves ==
    ASSUME IInv, NEW c \in Clients, NEW token \in Token,
           token.use = "access",
           token.typ = TokenTypeForUse(token.use),
           token.iat <= clock.gateway + MaxLag,
           held' = [held EXCEPT ![c] = @ \cup {token}],
           identity' = [identity EXCEPT ![c] = @ \cup ({token.sub} \cap Ids)],
           UNCHANGED <<users, ids, clock, pc, arg, entity, reply, gone>>
    PROVE  IInv'
<1> USE DEF IInv
<1>1. TypeOK'
  BY DEF TypeOK
<1>2. UniqueEmails' /\ GoneForGood'
  BY DEF UniqueEmails, GoneForGood, Exists
<1>3. OwnIdentity'
  BY DEF OwnIdentity, TypeOK
<1>4. \A d \in Clients : InFlight(d)'
  BY DEF InFlight, TypeOK
<1>5. \A b \in Bearers : BearerOnly(b)'
  BY DEF BearerOnly, TypeOK
<1>6. Dated'
  BY DEF Dated, TypeOK
<1> QED BY <1>1, <1>2, <1>3, <1>4, <1>5, <1>6

\* The steps of the gateway.
LEMMA GatewayPreserves ==
    ASSUME IInv, NEW c \in Clients, GatewayStep(c)
    PROVE  IInv'
<1>0. NoId \in Subjects \cup {NoId} /\ NoId \notin Ids
  OBVIOUS
<1>1. CASE Admit(c)
  <2>1. arg[c].token # NoToken
    BY <1>1 DEF Admit, Admissible, Parse
  <2>2. InFlight(c)'
    BY <1>1, <2>1 DEF Admit, IInv, InFlight, TypeOK
  <2>3. entity' = [entity EXCEPT ![c] = entity[c]] /\ entity[c] \in Entity \cup {NoUser}
    BY <1>1 DEF Admit, IInv, TypeOK
  <2> QED BY <1>1, <2>2, <2>3, AdvancePreserves DEF Admit
<1>2. CASE Refuse(c)
  BY <1>0, <1>2, ReturnPreserves DEF Refuse, Codes
<1>3. CASE pc[c] = "admitted" /\ Return(c, "OK", arg[c].token.sub)
  <2>1. arg[c].token \in held[c]
    BY <1>3 DEF IInv, InFlight
  <2>2. arg[c].token.sub \in Subjects
    BY <2>1 DEF IInv, TypeOK, Token
  <2>3. arg[c].token.sub \in Ids => arg[c].token.sub \in identity[c]
    BY <2>1 DEF IInv, OwnIdentity
  <2> QED BY <1>3, <2>2, <2>3, ReturnPreserves DEF Codes
<1>4. CASE GetProfileFails(c)
  BY <1>0, <1>4, ReturnPreserves DEF GetProfileFails, Codes
<1>5. ASSUME NEW email \in BenchmarkEmails, BenchmarkToken(c, email) PROVE IInv'
  <2> DEFINE token == Sign(BenchmarkId(email), email, "access", clock.gateway)
  <2>1. email \in Emails \cup {NoEmail} /\ BenchmarkId(email) \notin Ids
    OBVIOUS
  <2>2. BenchmarkId(email) \in Subjects /\ clock.gateway \in Nat
    BY <2>1 DEF Subjects, IInv, TypeOK
  <2>3. /\ token \in Token
        /\ token.sub = BenchmarkId(email)
        /\ token.use = "access"
        /\ token.iat = clock.gateway
        /\ token.typ = TokenTypeForUse(token.use)
    BY <2>1, <2>2, SignType
  <2>4. held' = [held EXCEPT ![c] = @ \cup {token}]
        /\ UNCHANGED <<users, ids, clock, pc, arg, entity, reply, identity, gone>>
    BY <1>5 DEF BenchmarkToken
  <2> HIDE DEF token
  <2>5. identity' = [identity EXCEPT ![c] = @ \cup ({token.sub} \cap Ids)]
    BY <2>1, <2>3, <2>4 DEF IInv, TypeOK
  <2>6. token.iat <= clock.gateway + MaxLag
    BY <2>2, <2>3
  <2> QED BY <2>3, <2>4, <2>5, <2>6, ReceivePreserves
<1> QED BY <1>1, <1>2, <1>3, <1>4, <1>5 DEF GatewayStep, GetProfile, Forward

\* Every step of every handler, and of the environment.
LEMMA StepPreserves == IInv /\ [Next]_vars => IInv'
<1> SUFFICES ASSUME IInv, [Next]_vars PROVE IInv'
  OBVIOUS
<1>1. ASSUME NEW c \in Clients, NEW a \in Requests(c), Invoke(c, a) PROVE IInv'
  BY <1>1, InvokePreserves
<1>2. ASSUME NEW c \in Clients, UserStep(c) \/ AuthStep(c) \/ GatewayStep(c) PROVE IInv'
  BY <1>2, UserPreserves, AuthPreserves, GatewayPreserves
<1>3. ASSUME NEW c \in Clients \ Bearers, NEW b \in Bearers, NEW token \in held[c],
             Share(c, b, token)
      PROVE  IInv'
  <2>1. /\ token \in Token
        /\ token.typ = TokenTypeForUse(token.use)
        /\ token.iat <= clock.gateway + MaxLag
        /\ b \in Clients
    BY DEF IInv, TypeOK, Dated
  <2> QED BY <1>3, <2>1, ReceivePreserves DEF Share
<1>4. CASE TickAuth \/ TickGateway
  <2> USE <1>4 DEF TickAuth, TickGateway, IInv
  <2>1. TypeOK'
    BY DEF TypeOK
  <2>2. UniqueEmails' /\ OwnIdentity' /\ GoneForGood'
    BY DEF UniqueEmails, OwnIdentity, GoneForGood, Exists
  <2>3. (\A d \in Clients : InFlight(d)') /\ (\A b \in Bearers : BearerOnly(b)')
    BY DEF InFlight, BearerOnly
  <2>4. Dated'
    BY DEF Dated, TypeOK, Token
  <2> QED BY <2>1, <2>2, <2>3, <2>4
<1>5. CASE UNCHANGED vars
  <2> USE <1>5 DEF vars, IInv
  <2>1. TypeOK' /\ UniqueEmails' /\ OwnIdentity' /\ GoneForGood' /\ Dated'
    BY DEF TypeOK, UniqueEmails, OwnIdentity, GoneForGood, Exists, Dated
  <2>2. (\A d \in Clients : InFlight(d)') /\ (\A b \in Bearers : BearerOnly(b)')
    BY DEF InFlight, BearerOnly
  <2> QED BY <2>1, <2>2
<1> QED BY <1>1, <1>2, <1>3, <1>4, <1>5 DEF Next

\* The strengthened invariant holds throughout.
LEMMA Inductive == Spec => []IInv
<1>1. Init => IInv
  BY InitEstablishes
<1>2. IInv /\ [Next]_vars => IInv'
  BY StepPreserves
<1> QED BY <1>1, <1>2, PTL DEF Spec

\* Every variable keeps its type: what UserService and AuthService work on
\* are rows and tokens of the right shape.
THEOREM TypeCorrect == Spec => []TypeOK
<1>1. IInv => TypeOK
  BY DEF IInv
<1> QED BY <1>1, Inductive, PTL

\* UserService.Create and Update keep emails unique by the index alone.
THEOREM EmailsStayUnique == Spec => []UniqueEmails
<1>1. IInv => UniqueEmails
  BY DEF IInv
<1> QED BY <1>1, Inductive, PTL

\* SignIn, RefreshToken and the gateway never let a client act as a user it
\* has not proved to be.
THEOREM SessionsKeepIdentity == Spec => []OwnIdentity
<1>1. IInv => OwnIdentity
  BY DEF IInv
<1> QED BY <1>1, Inductive, PTL

\* RefreshToken gives nothing for an access token.
THEOREM AccessDoesNotRefresh == Spec => []AccessTokenIsFinal
<1>1. IInv => AccessTokenIsFinal
  BY DEF IInv, BearerOnly, AccessTokenIsFinal
<1> QED BY <1>1, Inductive, PTL

\* A handler is moved on only by its own steps.
LEMMA OwnStep ==
    ASSUME TypeOK, [Next]_vars, NEW c \in Clients, pc[c] # "idle", pc'[c] = "idle"
    PROVE  UserStep(c) \/ AuthStep(c) \/ GatewayStep(c)
<1>1. ASSUME NEW d \in Clients, NEW a \in Requests(d), Invoke(d, a) PROVE FALSE
  BY <1>1 DEF Invoke, TypeOK
<1>2. ASSUME NEW d \in Clients, UserStep(d), d # c PROVE FALSE
  BY <1>2 DEF TypeOK, UserStep, Create, CreateFails, GetById, GetByIdFails, Update, Delete,
              WriteFails, Settle, Return, Answer
<1>3. ASSUME NEW d \in Clients, AuthStep(d), d # c PROVE FALSE
  BY <1>3 DEF TypeOK, AuthStep, GetByEmail, GetByEmailFails, WrongPassword, SignIn,
              RefreshParse, RefreshRejected, RefreshLookup, RefreshLookupFails,
              RefreshToken, SignFails, Verify, SignTokenPair, Return, Answer
<1>4. ASSUME NEW d \in Clients, GatewayStep(d), d # c PROVE FALSE
  BY <1>4 DEF TypeOK, GatewayStep, Admit, Refuse, GetProfile, GetProfileFails, Forward,
              BenchmarkToken, Return, Answer
<1>5. ~ UNCHANGED pc
  OBVIOUS
<1> QED BY <1>1, <1>2, <1>3, <1>4, <1>5 DEF Next, Share, TickAuth, TickGateway, vars

\* SignIn and RefreshToken issue nothing for an account whose deletion had
\* committed when the call came in.
THEOREM DeletedAccountsGetNoTokens == Spec => NoTokensAfterDelete
<1>1. ASSUME IInv, [Next]_vars
      PROVE  [\A c \in Clients :
                 pc[c] = "read" /\ arg[c].op \in {"signin", "refresh"} /\ pc'[c] = "idle"
                     => reply'[c].user \notin gone[c]]_vars
  <2> SUFFICES ASSUME NEW c \in Clients, pc[c] = "read",
                      arg[c].op \in {"signin", "refresh"}, pc'[c] = "idle"
               PROVE  reply'[c].user \notin gone[c]
    OBVIOUS
  <2>0. /\ reply \in [Clients -> [code : Codes, user : Subjects \cup {NoId}]]
        /\ NoId \notin gone[c]
        /\ entity[c].id \notin gone[c]
    BY <1>1 DEF IInv, TypeOK, InFlight
  <2>1. UserStep(c) \/ AuthStep(c) \/ GatewayStep(c)
    BY <1>1, OwnStep DEF IInv
  <2>2. WrongPassword(c) \/ SignFails(c) \/ SignIn(c) \/ RefreshToken(c)
    BY <2>1 DEF UserStep, Create, CreateFails, GetById, GetByIdFails, Update, Delete,
                WriteFails, AuthStep, GetByEmail, GetByEmailFails, RefreshParse,
                RefreshRejected, RefreshLookup, RefreshLookupFails, Verify, GatewayStep,
                Admit, Refuse, GetProfile, GetProfileFails, Forward, BenchmarkToken
  <2>3. CASE WrongPassword(c) \/ SignFails(c)
    BY <2>0, <2>3 DEF WrongPassword, SignFails, Return, Answer
  <2>4. CASE SignIn(c) \/ RefreshToken(c)
    BY <2>0, <2>4 DEF SignIn, RefreshToken, SignTokenPair, Answer
  <2> QED BY <2>2, <2>3, <2>4
<1> QED BY <1>1, Inductive, PTL DEF Spec, NoTokensAfterDelete

\* Where the gateway's clock is not behind, AuthMiddleware.Handle refuses an
\* access token only once it has expired, whatever the clocks otherwise do.
THEOREM RefusalMeansExpiry ==
    ASSUME MaxLag = 0
    PROVE  Spec => RefusedOnlyIfExpired
<1>1. ASSUME IInv, [Next]_vars
      PROVE  [\A c \in Clients :
                 (/\ pc[c] = "called" /\ arg[c].op \in Protected /\ pc'[c] = "idle"
                  /\ arg[c].token # NoToken
                  /\ arg[c].token.use = "access" /\ arg[c].token.email # NoEmail)
                     => clock.gateway >= arg[c].token.exp]_vars
  <2> SUFFICES ASSUME NEW c \in Clients, pc[c] = "called", arg[c].op \in Protected,
                      pc'[c] = "idle", arg[c].token # NoToken,
                      arg[c].token.use = "access", arg[c].token.email # NoEmail
               PROVE  clock.gateway >= arg[c].token.exp
    OBVIOUS
  <2>1. UserStep(c) \/ AuthStep(c) \/ GatewayStep(c)
    BY <1>1, OwnStep DEF IInv
  <2>2. Refuse(c)
    <3>1. ~UserStep(c)
      BY DEF UserStep, Create, CreateFails, GetById, GetByIdFails, Update, Delete,
             WriteFails, Protected
    <3>2. ~AuthStep(c)
      BY DEF AuthStep, GetByEmail, GetByEmailFails, WrongPassword, SignIn, RefreshParse,
             RefreshRejected, RefreshLookup, RefreshLookupFails, RefreshToken, SignFails,
             Verify, Protected
    <3>3. ~Admit(c)
      BY <1>1 DEF Admit, IInv, TypeOK
    <3> QED BY <2>1, <3>1, <3>2, <3>3
            DEF GatewayStep, GetProfile, GetProfileFails, Forward, BenchmarkToken
  <2>3. arg[c].token \in held[c]
    BY <1>1 DEF IInv, InFlight
  <2>4. arg[c].token.typ = TokenTypeForUse(arg[c].token.use)
    BY <1>1, <2>3 DEF IInv, Dated
  <2>5. ~Validate(arg[c].token, clock.gateway)
    BY <2>2, <2>4 DEF Refuse, Admissible, Parse
  <2>6. /\ arg[c].token.iat <= clock.gateway + MaxLag
        /\ arg[c].token.iat \in Nat /\ arg[c].token.exp \in Nat /\ clock.gateway \in Nat
    BY <1>1, <2>3 DEF IInv, Dated, TypeOK, Token
  <2> QED BY <2>5, <2>6 DEF Validate
<1> QED BY <1>1, Inductive, PTL DEF Spec, RefusedOnlyIfExpired
=============================================================================
