------------------------- MODULE TaskServiceProofs -------------------------
(***************************************************************************)
(* Theorems about TaskService, for any number of callers, users, tasks and *)
(* columns and any pool size.                                              *)
(***************************************************************************)
EXTENDS TaskService, FiniteSetTheorems, TLAPS

Transactions == {c \in Clients : InTx(c)}

ConnsExact == conns = Cardinality(Transactions)

\* Nobody is about to insert row t.
Settled(t) == \A d \in Clients : ~Creating(d, t)

\* A key is inserted by one handler only, the one that drew it.
CreateInv ==
    /\ \A t \in TaskIds : tasks[t] # NoTask => t \in ids
    /\ \A c \in Clients, t \in TaskIds : Creating(c, t) =>
          /\ t \in ids /\ tasks[t] = NoTask
          /\ \A d \in Clients : Creating(d, t) => d = c

\* What a handler knows of its call when it has got so far.
CallInv ==
    \A c \in Clients :
        /\ arg[c].op = "create" => arg[c].id \in TaskIds
        /\ InTx(c) => arg[c].user \in Users /\ arg[c].op \in Writes
        /\ pc[c] = "read" => /\ arg[c].op # "create"
                             /\ entity[c] \in Row
                             /\ entity[c].owner = arg[c].user
        /\ pc[c] \in {"read", "written"} /\ arg[c].op # "create" =>
              /\ arg[c].id \in ids
              /\ Settled(arg[c].id)

\* A row a handler has read never changes hands while it is there.
OwnerInv ==
    \A c \in Clients : pc[c] = "read" /\ tasks[arg[c].id] # NoTask =>
        tasks[arg[c].id].owner = arg[c].user

\* Row new has the text fields of row old where the request leaves them empty.
KeepsEmpty(new, old, req) ==
    \A k \in TextColumns : req[k] = Zero => new.col[k] = old.col[k]

\* The uncommitted row of a handler that holds the lock on it.
PendingInv ==
    \A c \in Clients : pc[c] = "written" /\ lock[arg[c].id] = c =>
        \/ /\ arg[c].op = "create"
           /\ entity[c] \in Row /\ entity[c].owner = arg[c].user
           /\ Table!Carries(entity[c], arg[c].req)
        \/ /\ arg[c].op = "update"
           /\ Owned(arg[c].id, arg[c].user)
           /\ entity[c] \in Row /\ entity[c].owner = arg[c].user
           /\ Table!Carries(entity[c], arg[c].req)
           /\ KeepsEmpty(entity[c], tasks[arg[c].id], arg[c].req)
        \/ /\ arg[c].op = "delete"
           /\ Owned(arg[c].id, arg[c].user)
           /\ entity[c] = NoTask

\* Where a row is known to be gone for good: a write that matched nothing,
\* and a delete from its commit on.
GoneInv ==
    \A c \in Clients :
        /\ pc[c] = "written" /\ lock[arg[c].id] # c =>
              arg[c].op # "create" /\ Gone(arg[c].id)
        /\ arg[c].op = "delete" /\ (pc[c] = "committed" \/ (pc[c] = "idle" /\ reply[c].code = "OK")) =>
              arg[c].id \in TaskIds /\ Gone(arg[c].id)

IInv == TypeOK /\ ConnsExact /\ LocksHeld /\ CreateInv /\ CallInv /\ OwnerInv
        /\ PendingInv /\ GoneInv

-----------------------------------------------------------------------------
(* Facts about the operators. *)

LEMMA BlankType == Blank \in Requests /\ Blank \in [Columns -> Values]
BY ConstantsAssumption DEF Blank, Requests, Columns

LEMMA AssignType ==
    ASSUME NEW col \in [Columns -> Values], NEW req \in Requests
    PROVE  Assign(col, req) \in [Columns -> Values]
BY DEF Assign, Requests

LEMMA UpdatesType ==
    ASSUME NEW col \in [Columns -> Values], NEW new \in [Columns -> Values]
    PROVE  Updates(col, new) \in [Columns -> Values]
BY DEF Updates

LEMMA DeliveredType ==
    ASSUME NEW a \in Delivered
    PROVE  /\ a \in Calls
           /\ a.op = "create" => a.id \in TaskIds
BY PayloadsAssumption, BlankType DEF Delivered, Calls, Writes, Reads

\* One connection more or less is one transaction more or less.
LEMMA OpensOne ==
    ASSUME IInv, NEW c \in Clients, ~InTx(c),
           Transactions' = Transactions \cup {c}
    PROVE  Cardinality(Transactions)' = conns + 1
<1>1. IsFiniteSet(Transactions)
  BY FS_Subset, ConstantsAssumption DEF Transactions
<1>2. c \notin Transactions
  BY DEF Transactions
<1>3. QED
  BY <1>1, <1>2, FS_AddElement DEF IInv, ConnsExact

LEMMA ClosesOne ==
    ASSUME IInv, NEW c \in Clients, InTx(c),
           Transactions' = Transactions \ {c}
    PROVE  Cardinality(Transactions)' = conns - 1 /\ conns > 0
<1>1. IsFiniteSet(Transactions)
  BY FS_Subset, ConstantsAssumption DEF Transactions
<1>2. conns # 0
  BY <1>1, FS_EmptySet DEF IInv, ConnsExact, Transactions
<1>3. c \in Transactions
  BY DEF Transactions
<1>4. Cardinality(Transactions \ {c}) = Cardinality(Transactions) - 1
  BY <1>1, <1>3, FS_RemoveElement
<1>5. Cardinality(Transactions) = conns /\ conns \in Nat
  BY <1>1, FS_CardinalityType DEF IInv, ConnsExact
<1>6. QED
  BY <1>2, <1>4, <1>5

-----------------------------------------------------------------------------
(* Returning preserves the invariant, on every path. *)

LEMMA ReturnKeeps ==
    ASSUME IInv, NEW c \in Clients, pc[c] # "idle",
           NEW code \in Codes, NEW shown \in SUBSET (TaskIds \X Row),
           Return(c, code, shown),
           code = "OK" /\ arg[c].op = "delete" => arg[c].id \in TaskIds /\ Gone(arg[c].id)
    PROVE  IInv'
<1>1. /\ pc' = [pc EXCEPT ![c] = "idle"]
      /\ arg' = [arg EXCEPT ![c].req = Blank]
      /\ tasks' = tasks /\ ids' = ids
  BY DEF Return
<1>2. \A d \in Clients : /\ d # c => arg'[d] = arg[d] /\ pc'[d] = pc[d] /\ reply'[d] = reply[d] /\ entity'[d] = entity[d]
                         /\ arg'[d].op = arg[d].op /\ arg'[d].id = arg[d].id /\ arg'[d].user = arg[d].user
  BY <1>1 DEF IInv, TypeOK, Calls, Return
<1>3. ConnsExact' /\ conns' \in 0..MaxOpenConns
  <2>1. CASE InTx(c)
    <3>1. Transactions' = Transactions \ {c}
      BY <1>1, <2>1 DEF IInv, TypeOK, InTx, Transactions
    <3>2. Cardinality(Transactions)' = conns - 1 /\ conns > 0
      BY <2>1, <3>1, ClosesOne
    <3>3. QED
      BY <2>1, <3>2, ConstantsAssumption DEF Return, ConnsExact, IInv, TypeOK
  <2>2. CASE ~InTx(c)
    <3>1. Transactions' = Transactions
      BY <1>1, <2>2 DEF IInv, TypeOK, InTx, Transactions
    <3>2. QED
      BY <2>2, <3>1 DEF Return, ConnsExact, IInv, TypeOK
  <2>3. QED
    BY <2>1, <2>2
<1>4. TypeOK'
  <2>1. arg' \in [Clients -> Calls]
    BY <1>1, BlankType DEF IInv, TypeOK, Calls
  <2>2. reply' \in [Clients -> Replies]
    BY DEF IInv, TypeOK, Return, Replies, Answer
  <2>3. lock' \in [TaskIds -> Clients \cup {Nobody}]
    BY DEF IInv, TypeOK, Return
  <2>4. entity' \in [Clients -> Row \cup {NoTask}] /\ pc' \in [Clients -> Phases]
    BY <1>1 DEF IInv, TypeOK, Return, Phases
  <2>5. QED
    BY <1>1, <1>3, <2>1, <2>2, <2>3, <2>4 DEF IInv, TypeOK
<1>5. LocksHeld'
  BY <1>1, <1>2, ConstantsAssumption DEF IInv, TypeOK, LocksHeld, Return
<1>6. \A d \in Clients, t \in TaskIds : Creating(d, t)' => Creating(d, t)
  BY <1>1, <1>2 DEF IInv, TypeOK, Creating
<1>7. \A t \in TaskIds : Gone(t) => Gone(t)'
  BY <1>1, <1>6 DEF Gone
<1>8. CreateInv'
  BY <1>1, <1>6 DEF IInv, CreateInv
<1>9. CallInv'
  BY <1>1, <1>2, <1>6 DEF IInv, CallInv, TypeOK, InTx, Settled
<1>20. \A d \in Clients : pc'[d] = "written" =>
         /\ d # c /\ pc[d] = "written" /\ arg[d].id \in TaskIds
         /\ lock'[arg[d].id] = d <=> lock[arg[d].id] = d
  BY <1>1, <1>2, ConstantsAssumption DEF IInv, CallInv, TypeOK, Return
<1>10. PendingInv'
  BY <1>1, <1>2, <1>20 DEF IInv, PendingInv, Owned, Table!Carries
<1>11. GoneInv'
  BY <1>1, <1>2, <1>7, <1>20 DEF IInv, GoneInv, TypeOK, Return, Answer
<1>12. OwnerInv'
  BY <1>1, <1>2 DEF IInv, OwnerInv, TypeOK
<1>13. QED
  BY <1>3, <1>4, <1>5, <1>8, <1>9, <1>10, <1>11, <1>12 DEF IInv

-----------------------------------------------------------------------------
(* The steps that do not return. *)

LEMMA InvokeKeeps ==
    ASSUME IInv, NEW c \in Clients, NEW a \in Delivered, Invoke(c, a)
    PROVE  IInv'
<1>1. /\ pc' = [pc EXCEPT ![c] = "called"]
      /\ arg' = [arg EXCEPT ![c] = a]
      /\ reply' = [reply EXCEPT ![c] = Answer("none", {})]
      /\ tasks' = tasks /\ lock' = lock /\ conns' = conns /\ entity' = entity
      /\ pc[c] = "idle"
      /\ ids \subseteq ids' /\ ids' \subseteq TaskIds
  BY DEF Invoke, IInv, TypeOK
<1>2. a \in Calls /\ (a.op = "create" => a.id \in TaskIds \ ids /\ a.id \in ids')
  BY DeliveredType DEF Invoke
<1>3. TypeOK'
  <2>1. arg' \in [Clients -> Calls]
    BY <1>1, <1>2 DEF IInv, TypeOK
  <2>2. reply' \in [Clients -> Replies] /\ pc' \in [Clients -> Phases]
    BY <1>1 DEF IInv, TypeOK, Replies, Answer, Codes, Phases
  <2>3. QED
    BY <1>1, <2>1, <2>2 DEF IInv, TypeOK
<1>4. Transactions' = Transactions
  BY <1>1 DEF IInv, TypeOK, InTx, Transactions
<1>5. ConnsExact'
  BY <1>1, <1>4 DEF IInv, ConnsExact
<1>6. LocksHeld'
  BY <1>1 DEF IInv, TypeOK, LocksHeld
<1>7. \A d \in Clients, t \in TaskIds :
         Creating(d, t)' => \/ d # c /\ Creating(d, t)
                            \/ d = c /\ t \notin ids /\ t \in ids'
  BY <1>1, <1>2 DEF IInv, TypeOK, Creating
<1>8. \A t \in ids : Settled(t) => Settled(t)'
  BY <1>1, <1>7 DEF Settled, IInv, TypeOK
<1>9. \A t \in TaskIds : Gone(t) => Gone(t)'
  BY <1>1, <1>7 DEF Gone
<1>10. CreateInv'
  BY <1>1, <1>7 DEF IInv, CreateInv
<1>11. CallInv'
  BY <1>1, <1>2, <1>8 DEF IInv, CallInv, TypeOK, InTx
<1>12. PendingInv'
  BY <1>1 DEF IInv, PendingInv, TypeOK, Owned
<1>13. GoneInv'
  BY <1>1, <1>9 DEF IInv, GoneInv, TypeOK, CallInv
<1>14. OwnerInv'
  BY <1>1 DEF IInv, OwnerInv, TypeOK
<1>15. QED
  BY <1>3, <1>5, <1>6, <1>10, <1>11, <1>12, <1>13, <1>14 DEF IInv

LEMMA BeginKeeps ==
    ASSUME IInv, NEW c \in Clients, Begin(c)
    PROVE  IInv'
<1>1. /\ pc' = [pc EXCEPT ![c] = "begun"]
      /\ pc[c] = "called" /\ arg[c].user # BadUser /\ arg[c].op \in Writes
      /\ conns' = conns + 1 /\ conns < MaxOpenConns
      /\ UNCHANGED <<tasks, ids, lock, arg, entity, reply>>
  BY DEF Begin
<1>2. Transactions' = Transactions \cup {c} /\ ~InTx(c)
  BY <1>1 DEF IInv, TypeOK, InTx, Transactions
<1>3. ConnsExact'
  BY <1>1, <1>2, OpensOne DEF ConnsExact
<1>4. TypeOK'
  BY <1>1, ConstantsAssumption DEF IInv, TypeOK, Phases
<1>5. LocksHeld'
  BY <1>1 DEF IInv, TypeOK, LocksHeld
<1>6. \A d \in Clients : \A t : Creating(d, t)' <=> Creating(d, t)
  BY <1>1 DEF IInv, TypeOK, Creating
<1>7. CreateInv'
  BY <1>1, <1>6 DEF IInv, CreateInv
<1>8. \A t : Gone(t) => Gone(t)'
  BY <1>1, <1>6 DEF Gone
<1>9. CallInv'
  <2>1. arg[c].user \in Users
    BY <1>1 DEF IInv, TypeOK, Calls
  <2>2. QED
    BY <1>1, <1>6, <2>1 DEF IInv, CallInv, TypeOK, InTx, Settled
<1>10. PendingInv'
  BY <1>1 DEF IInv, PendingInv, TypeOK, Owned
<1>11. GoneInv'
  BY <1>1, <1>8 DEF IInv, GoneInv, TypeOK
<1>12. OwnerInv'
  BY <1>1 DEF IInv, OwnerInv, TypeOK
<1>13. QED
  BY <1>3, <1>4, <1>5, <1>7, <1>9, <1>10, <1>11, <1>12 DEF IInv

LEMMA GetByIdKeeps ==
    ASSUME IInv, NEW c \in Clients, GetById(c)
    PROVE  IInv'
<1>1. /\ pc' = [pc EXCEPT ![c] = "read"]
      /\ pc[c] = "begun" /\ arg[c].op # "create" /\ arg[c].id # BadId
      /\ Owned(arg[c].id, arg[c].user)
      /\ entity' = [entity EXCEPT ![c] = tasks[arg[c].id]]
      /\ UNCHANGED <<tasks, ids, lock, conns, arg, reply>>
  BY DEF GetById
<1>2. arg[c].id \in TaskIds
  BY <1>1 DEF IInv, TypeOK, Calls
<1>3. /\ tasks[arg[c].id] \in Row /\ tasks[arg[c].id].owner = arg[c].user
      /\ tasks[arg[c].id] # NoTask
  BY <1>1, <1>2 DEF IInv, TypeOK, Owned
<1>4. Transactions' = Transactions
  BY <1>1 DEF IInv, TypeOK, InTx, Transactions
<1>5. TypeOK' /\ ConnsExact'
  BY <1>1, <1>3, <1>4 DEF IInv, TypeOK, ConnsExact, Phases
<1>6. LocksHeld'
  BY <1>1 DEF IInv, TypeOK, LocksHeld
<1>7. \A d \in Clients : \A t : Creating(d, t)' <=> Creating(d, t)
  BY <1>1 DEF IInv, TypeOK, Creating
<1>8. CreateInv'
  BY <1>1, <1>7 DEF IInv, CreateInv
<1>9. \A t : Gone(t) => Gone(t)'
  BY <1>1, <1>7 DEF Gone
<1>10. arg[c].id \in ids /\ Settled(arg[c].id)
  BY <1>2, <1>3 DEF IInv, CreateInv, Settled
<1>11. CallInv'
  BY <1>1, <1>3, <1>7, <1>10 DEF IInv, CallInv, TypeOK, InTx, Settled
<1>12. PendingInv'
  BY <1>1 DEF IInv, PendingInv, TypeOK, Owned
<1>13. GoneInv'
  BY <1>1, <1>9 DEF IInv, GoneInv, TypeOK
<1>14. OwnerInv'
  BY <1>1, <1>3 DEF IInv, OwnerInv, TypeOK
<1>15. QED
  BY <1>5, <1>6, <1>8, <1>11, <1>12, <1>13, <1>14 DEF IInv

LEMMA CreateKeeps ==
    ASSUME IInv, NEW c \in Clients, Create(c)
    PROVE  IInv'
<1> DEFINE row == [owner |-> arg[c].user, col |-> Assign(Blank, arg[c].req)]
<1>1. /\ pc' = [pc EXCEPT ![c] = "written"]
      /\ pc[c] = "begun" /\ arg[c].op = "create"
      /\ lock' = [lock EXCEPT ![arg[c].id] = c]
      /\ entity' = [entity EXCEPT ![c] = row]
      /\ UNCHANGED <<tasks, ids, conns, arg, reply>>
  BY DEF Create
<1>2. arg[c].id \in TaskIds /\ arg[c].user \in Users /\ arg[c].req \in Requests
  BY <1>1 DEF IInv, CallInv, InTx, TypeOK, Calls
<1>3. row \in Row /\ row.owner = arg[c].user
  BY <1>2, BlankType, AssignType DEF Row
<1>4. Table!Carries(row, arg[c].req)
  BY DEF Table!Carries, Assign
<1>5. Transactions' = Transactions
  BY <1>1 DEF IInv, TypeOK, InTx, Transactions
<1>6. TypeOK' /\ ConnsExact'
  BY <1>1, <1>3, <1>5 DEF IInv, TypeOK, ConnsExact, Phases
<1>7. \A d \in Clients : \A t : Creating(d, t)' <=> Creating(d, t)
  BY <1>1 DEF IInv, TypeOK, Creating
<1>8. CreateInv'
  BY <1>1, <1>7 DEF IInv, CreateInv
<1>9. \A t : Gone(t) => Gone(t)'
  BY <1>1, <1>7 DEF Gone
\* Whoever works on a row that is written is not working on this one.
<1>10. \A d \in Clients : d # c /\ pc[d] = "written" => arg[d].id # arg[c].id
  BY <1>1, <1>2 DEF IInv, CallInv, CreateInv, Settled, Creating
<1>11. LocksHeld'
  BY <1>1, <1>2, <1>10, ConstantsAssumption DEF IInv, TypeOK, LocksHeld
<1>12. CallInv'
  BY <1>1, <1>2, <1>7 DEF IInv, CallInv, TypeOK, InTx, Settled
<1>13. PendingInv'
  BY <1>1, <1>2, <1>3, <1>4, <1>10 DEF IInv, PendingInv, TypeOK, Owned
<1>14. GoneInv'
  BY <1>1, <1>2, <1>9, <1>10 DEF IInv, GoneInv, TypeOK
<1>15. OwnerInv'
  BY <1>1 DEF IInv, OwnerInv, TypeOK
<1>16. QED
  BY <1>6, <1>8, <1>11, <1>12, <1>13, <1>14, <1>15 DEF IInv

\* An UPDATE or a DELETE, whatever row it leaves.
LEMMA WriteKeeps ==
    ASSUME IInv, NEW c \in Clients, pc[c] = "read", NEW new, Write(c, new),
           Affects(c) => \/ /\ arg[c].op = "update"
                            /\ new \in Row /\ new.owner = arg[c].user
                            /\ Table!Carries(new, arg[c].req)
                            /\ KeepsEmpty(new, tasks[arg[c].id], arg[c].req)
                         \/ arg[c].op = "delete" /\ new = NoTask
    PROVE  IInv'
<1>1. /\ pc' = [pc EXCEPT ![c] = "written"]
      /\ lock[arg[c].id] = Nobody
      /\ lock' = IF Affects(c) THEN [lock EXCEPT ![arg[c].id] = c] ELSE lock
      /\ entity' = [entity EXCEPT ![c] = IF Affects(c) THEN new ELSE NoTask]
      /\ UNCHANGED <<tasks, ids, conns, arg, reply>>
  BY DEF Write
<1>2. /\ arg[c].op \in {"update", "delete"}
      /\ arg[c].id \in ids /\ arg[c].id \in TaskIds /\ Settled(arg[c].id)
      /\ entity[c].owner = arg[c].user
  BY DEF IInv, CallInv, InTx, TypeOK, Writes
<1>3. Transactions' = Transactions
  BY <1>1 DEF IInv, TypeOK, InTx, Transactions
<1>4. TypeOK' /\ ConnsExact'
  BY <1>1, <1>2, <1>3 DEF IInv, TypeOK, ConnsExact, Phases
<1>5. \A d \in Clients : \A t : Creating(d, t)' <=> Creating(d, t)
  BY <1>1, <1>2 DEF IInv, TypeOK, Creating
<1>6. CreateInv'
  BY <1>1, <1>5 DEF IInv, CreateInv
<1>7. \A t : Gone(t) => Gone(t)'
  BY <1>1, <1>5 DEF Gone
<1>8. LocksHeld'
  BY <1>1, <1>2, ConstantsAssumption DEF IInv, TypeOK, LocksHeld
<1>9. CallInv'
  BY <1>1, <1>2, <1>5 DEF IInv, CallInv, TypeOK, InTx, Settled
\* The row is there and owned by the caller, or it is gone.
<1>10. Affects(c) <=> tasks[arg[c].id] # NoTask
  <2>1. ASSUME tasks[arg[c].id] # NoTask PROVE tasks[arg[c].id].owner = arg[c].user
    BY <2>1 DEF IInv, OwnerInv
  <2>2. QED
    BY <1>2, <2>1 DEF Affects, Owned
<1>11. PendingInv'
  <2>1. CASE Affects(c)
    <3>1. Owned(arg[c].id, arg[c].user)
      BY <1>2, <2>1 DEF Affects
    <3>2. QED
      BY <1>1, <1>2, <2>1, <3>1, ConstantsAssumption DEF IInv, PendingInv, TypeOK, Owned
  <2>2. CASE ~Affects(c)
    BY <1>1, <2>2, ConstantsAssumption DEF IInv, PendingInv, TypeOK, Owned
  <2>3. QED
    BY <2>1, <2>2
<1>12. GoneInv'
  BY <1>1, <1>2, <1>7, <1>10, ConstantsAssumption DEF IInv, GoneInv, TypeOK, Gone, Settled
<1>13. OwnerInv'
  BY <1>1 DEF IInv, OwnerInv, TypeOK
<1>14. QED
  BY <1>4, <1>6, <1>8, <1>9, <1>11, <1>12, <1>13 DEF IInv

LEMMA UpdateKeeps ==
    ASSUME IInv, NEW c \in Clients, Update(c)
    PROVE  IInv'
<1> DEFINE old == tasks[arg[c].id]
           new == [owner |-> entity[c].owner,
                   col |-> Updates(old.col, Assign(entity[c].col, arg[c].req))]
<1>1. pc[c] = "read" /\ arg[c].op = "update" /\ Write(c, new)
  BY DEF Update
<1>2. /\ entity[c] \in Row /\ entity[c].owner = arg[c].user
      /\ arg[c].req \in Requests /\ arg[c].id \in TaskIds
  BY <1>1 DEF IInv, CallInv, TypeOK, Calls
<1>3. ASSUME Affects(c) PROVE new \in Row
  <2>1. old \in Row
    BY <1>2, <1>3 DEF Affects, Owned, IInv, TypeOK
  <2>2. Assign(entity[c].col, arg[c].req) \in [Columns -> Values]
    BY <1>2, AssignType DEF Row
  <2>3. Updates(old.col, Assign(entity[c].col, arg[c].req)) \in [Columns -> Values]
    BY <2>1, <2>2, UpdatesType DEF Row
  <2>4. QED
    BY <1>2, <2>3 DEF Row
<1>4. Table!Carries(new, arg[c].req)
  BY DEF Table!Carries, Updates, Assign
<1>5. KeepsEmpty(new, old, arg[c].req)
  BY ConstantsAssumption DEF KeepsEmpty, Updates, Assign, Columns
<1>6. QED
  BY <1>1, <1>2, <1>3, <1>4, <1>5, WriteKeeps

LEMMA DeleteKeeps ==
    ASSUME IInv, NEW c \in Clients, Delete(c)
    PROVE  IInv'
BY WriteKeeps DEF Delete

\* A committing handler writes the one row it has locked, and writes it as
\* the table allows.
LEMMA CommitEffect ==
    ASSUME IInv, NEW c \in Clients, Commit(c)
    PROVE  /\ arg[c].id \in TaskIds
           /\ \A t \in TaskIds : lock[t] = c => t = arg[c].id
           /\ lock[arg[c].id] = c => tasks' = [tasks EXCEPT ![arg[c].id] = entity[c]]
           /\ lock[arg[c].id] # c => tasks' = tasks
<1>1. arg[c].id \in TaskIds
  BY DEF Commit, IInv, CallInv, TypeOK
<1>2. \A t \in TaskIds : lock[t] = c => t = arg[c].id
  BY ConstantsAssumption DEF IInv, LocksHeld
<1>3. QED
  BY <1>1, <1>2 DEF Commit, IInv, TypeOK

LEMMA CommitKeeps ==
    ASSUME IInv, NEW c \in Clients, Commit(c)
    PROVE  IInv'
<1>1. /\ pc' = [pc EXCEPT ![c] = "committed"]
      /\ pc[c] = "written"
      /\ lock' = [t \in TaskIds |-> IF lock[t] = c THEN Nobody ELSE lock[t]]
      /\ entity' = [entity EXCEPT ![c] = NoTask]
      /\ UNCHANGED <<ids, conns, arg, reply>>
  BY DEF Commit
<1>2. /\ arg[c].id \in TaskIds
      /\ \A t \in TaskIds : t # arg[c].id => tasks'[t] = tasks[t] /\ lock'[t] = lock[t]
      /\ lock'[arg[c].id] # c
      /\ lock[arg[c].id] = c => tasks'[arg[c].id] = entity[c] /\ lock'[arg[c].id] = Nobody
      /\ lock[arg[c].id] # c => tasks' = tasks /\ lock' = lock
  BY <1>1, CommitEffect, ConstantsAssumption DEF IInv, TypeOK
<1>3. TypeOK'
  BY <1>1, CommitEffect DEF IInv, TypeOK, Phases
<1>4. Transactions' = Transactions
  BY <1>1 DEF IInv, TypeOK, InTx, Transactions
<1>5. ConnsExact'
  BY <1>1, <1>4 DEF IInv, ConnsExact
<1>6. LocksHeld'
  BY <1>1, <1>2, ConstantsAssumption DEF IInv, TypeOK, LocksHeld
<1>7. /\ \A d \in Clients : \A t : Creating(d, t)' => d # c /\ Creating(d, t)
      /\ arg[c].op = "create" => Creating(c, arg[c].id)
  BY <1>1 DEF IInv, TypeOK, Creating
<1>8. /\ arg[c].id \in ids
      /\ \A d \in Clients : ~Creating(d, arg[c].id)'
  BY <1>1, <1>2, <1>7 DEF IInv, CallInv, CreateInv, Settled
<1>9. CreateInv'
  BY <1>1, <1>2, <1>7, <1>8 DEF IInv, CreateInv
\* A row that is gone is not written: it would have to be owned or created.
<1>10. \A t \in TaskIds : Gone(t) => Gone(t)'
  BY <1>1, <1>2, <1>7 DEF IInv, Gone, PendingInv, Owned
<1>11. CallInv'
  BY <1>1, <1>7 DEF IInv, CallInv, TypeOK, InTx, Settled
<1>12. OwnerInv'
  BY <1>1, <1>2 DEF IInv, OwnerInv, TypeOK, PendingInv, Owned, CallInv, Settled, Creating
<1>13. \A d \in Clients : pc'[d] = "written" =>
         /\ d # c /\ pc[d] = "written" /\ arg[d].id \in TaskIds
         /\ lock'[arg[d].id] = d <=> lock[arg[d].id] = d
         /\ lock[arg[d].id] = d => tasks'[arg[d].id] = tasks[arg[d].id]
  BY <1>1, <1>2, ConstantsAssumption DEF IInv, CallInv, TypeOK
<1>14. PendingInv'
  BY <1>1, <1>13 DEF IInv, PendingInv, TypeOK, Owned
<1>15. GoneInv'
  <2>1. ASSUME arg[c].op = "delete" PROVE Gone(arg[c].id)'
    BY <1>1, <1>2, <1>8, <2>1 DEF IInv, PendingInv, GoneInv, Gone
  <2>2. QED
    BY <1>1, <1>2, <1>10, <1>13, <2>1 DEF IInv, GoneInv, TypeOK
<1>16. QED
  BY <1>3, <1>5, <1>6, <1>9, <1>11, <1>12, <1>14, <1>15 DEF IInv

LEMMA CrashKeeps ==
    ASSUME IInv, Crash
    PROVE  IInv'
<1>1. /\ pc' = [c \in Clients |-> "idle"]
      /\ reply' = [c \in Clients |-> IF pc[c] = "idle" THEN reply[c]
                                      ELSE Answer("Unavailable", {})]
      /\ entity' = [c \in Clients |-> NoTask]
      /\ lock' = [t \in TaskIds |-> Nobody]
      /\ conns' = 0
      /\ arg' = [c \in Clients |-> [arg[c] EXCEPT !.req = Blank]]
      /\ tasks' = tasks /\ ids' = ids
  BY DEF Crash
<1>2. \A d \in Clients : /\ arg'[d] \in Calls
                         /\ arg'[d].op = arg[d].op /\ arg'[d].id = arg[d].id
  BY <1>1, BlankType DEF IInv, TypeOK, Calls
<1>3. TypeOK'
  <2>1. reply' \in [Clients -> Replies]
    BY <1>1 DEF IInv, TypeOK, Replies, Answer, Codes
  <2>2. arg' \in [Clients -> Calls]
    BY <1>1, <1>2
  <2>3. QED
    BY <1>1, <2>1, <2>2, ConstantsAssumption DEF IInv, TypeOK, Phases
<1>4. ConnsExact'
  <2>1. Transactions' = {}
    BY <1>1 DEF Transactions, InTx
  <2>2. QED
    BY <1>1, <2>1, FS_EmptySet DEF ConnsExact
<1>5. LocksHeld'
  BY <1>1 DEF LocksHeld
<1>6. \A d \in Clients : \A t : ~Creating(d, t)'
  BY <1>1 DEF Creating
<1>7. CreateInv'
  BY <1>1, <1>6 DEF IInv, CreateInv
<1>8. \A t : Gone(t) => Gone(t)'
  BY <1>1, <1>6 DEF Gone
<1>9. CallInv' /\ OwnerInv' /\ PendingInv'
  BY <1>1, <1>2 DEF IInv, CallInv, OwnerInv, PendingInv, InTx
<1>10. GoneInv'
  BY <1>1, <1>2, <1>8 DEF IInv, GoneInv, Answer
<1>11. QED
  BY <1>3, <1>4, <1>5, <1>7, <1>9, <1>10 DEF IInv

-----------------------------------------------------------------------------
(* The invariant and what follows from it. *)

\* The ways a handler returns: with which answer, and from where.
LEMMA Returns ==
    ASSUME IInv, NEW c \in Clients,
           \/ AuthInterceptorRejects(c) \/ ParseFails(c) \/ GetByIdMisses(c)
           \/ CommitAcked(c) \/ GetTask(c) \/ GetAll(c) \/ Fail(c)
    PROVE  /\ pc[c] # "idle"
           /\ \E code \in Codes, shown \in SUBSET (TaskIds \X Row) :
                /\ Return(c, code, shown)
                /\ \/ code = "OK" /\ pc[c] = "committed" /\ shown = {}
                   \/ code \in Table!Refusals /\ pc[c] \in {"called", "begun"} /\ shown = {}
                   \/ code \in Table!Doubts /\ shown = {}
                   \/ /\ code = "OK" /\ pc[c] = "called" /\ arg[c].op = "get"
                      /\ arg[c].id \in TaskIds /\ Owned(arg[c].id, arg[c].user)
                      /\ shown = {<<arg[c].id, tasks[arg[c].id]>>}
                   \/ /\ code = "OK" /\ pc[c] = "called" /\ arg[c].op = "list"
                      /\ shown = OwnedBy(arg[c].user)
<1>1. CASE \/ AuthInterceptorRejects(c) \/ ParseFails(c) \/ GetByIdMisses(c)
           \/ CommitAcked(c)
  BY <1>1 DEF AuthInterceptorRejects, ParseFails, GetByIdMisses, CommitAcked,
              Codes, Table!Refusals
<1>2. CASE Fail(c)
  BY <1>2 DEF Fail, BeginFails, StatementFails, CommitFails, ReadFails,
              Codes, Table!Refusals, Table!Doubts
<1>3. CASE GetTask(c)
  <2>1. CASE Return(c, "InvalidArgument", {}) \/ Return(c, "NotFound", {})
    BY <1>3, <2>1 DEF GetTask, Codes, Table!Refusals
  <2>2. CASE /\ arg[c].id # BadId /\ Owned(arg[c].id, arg[c].user)
             /\ Return(c, "OK", {<<arg[c].id, tasks[arg[c].id]>>})
    <3>1. arg[c].id \in TaskIds
      BY <2>2 DEF IInv, TypeOK, Calls
    <3>2. {<<arg[c].id, tasks[arg[c].id]>>} \in SUBSET (TaskIds \X Row)
      BY <2>2, <3>1 DEF IInv, TypeOK, Owned
    <3>3. "OK" \in Codes
      BY DEF Codes
    <3>4. QED
      BY <1>3, <2>2, <3>1, <3>2, <3>3 DEF GetTask
  <2>3. QED
    BY <1>3, <2>1, <2>2 DEF GetTask
<1>4. CASE GetAll(c)
  <2>1. OwnedBy(arg[c].user) \in SUBSET (TaskIds \X Row)
    BY DEF OwnedBy, Owned, IInv, TypeOK
  <2>2. QED
    BY <1>4, <2>1 DEF GetAll, Codes
<1>5. QED
  BY <1>1, <1>2, <1>3, <1>4

LEMMA StepKeeps == IInv /\ [Next]_vars => IInv'
<1> SUFFICES ASSUME IInv, [Next]_vars PROVE IInv'
  OBVIOUS
<1>1. ASSUME NEW c \in Clients, NEW a \in Delivered, Invoke(c, a) PROVE IInv'
  BY <1>1, InvokeKeeps
<1>2. ASSUME NEW c \in Clients, Begin(c) \/ GetById(c) \/ Create(c) \/ Update(c) \/ Delete(c) \/ Commit(c)
      PROVE  IInv'
  BY <1>2, BeginKeeps, GetByIdKeeps, CreateKeeps, UpdateKeeps, DeleteKeeps, CommitKeeps
<1>3. ASSUME NEW c \in Clients,
             \/ AuthInterceptorRejects(c) \/ ParseFails(c) \/ GetByIdMisses(c)
             \/ CommitAcked(c) \/ GetTask(c) \/ GetAll(c) \/ Fail(c)
      PROVE  IInv'
  <2>1. PICK code \in Codes, shown \in SUBSET (TaskIds \X Row) :
           /\ Return(c, code, shown)
           /\ code = "OK" => pc[c] = "committed" \/ arg[c].op # "delete"
    BY <1>3, Returns DEF Table!Refusals, Table!Doubts
  <2>2. code = "OK" /\ arg[c].op = "delete" => arg[c].id \in TaskIds /\ Gone(arg[c].id)
    BY <2>1 DEF IInv, GoneInv
  <2>3. QED
    BY <1>3, <2>1, <2>2, Returns, ReturnKeeps
<1>4. CASE Crash
  BY <1>4, CrashKeeps
<1>5. CASE UNCHANGED vars
  BY <1>5 DEF vars, IInv, TypeOK, ConnsExact, Transactions, InTx, LocksHeld, CreateInv,
              Creating, CallInv, Settled, OwnerInv, PendingInv, Owned, GoneInv, Gone
<1>6. QED
  BY <1>1, <1>2, <1>3, <1>4, <1>5 DEF Next, Proceed

LEMMA InitHolds == Init => IInv
<1> SUFFICES ASSUME Init PROVE IInv
  OBVIOUS
<1>1. TypeOK
  BY BlankType, ConstantsAssumption DEF Init, TypeOK, Phases, Calls, Replies, Answer, Codes
<1>2. ConnsExact
  <2>1. Transactions = {}
    BY DEF Init, Transactions, InTx
  <2>2. QED
    BY <2>1, FS_EmptySet DEF Init, ConnsExact
<1>3. LocksHeld /\ CreateInv /\ CallInv /\ OwnerInv /\ PendingInv /\ GoneInv
  BY DEF Init, LocksHeld, CreateInv, Creating, CallInv, InTx, OwnerInv, PendingInv, GoneInv
<1>4. QED
  BY <1>1, <1>2, <1>3 DEF IInv

\* The inductive invariant holds of every reachable state of the service.
THEOREM Invariance == Spec => []IInv
BY InitHolds, StepKeeps, PTL DEF Spec

\* Types, and the pool's limit, hold whatever handlers do and fail at.
THEOREM TypeCorrect == Spec => []TypeOK
<1>1. IInv => TypeOK
  BY DEF IInv
<1>2. QED
  BY <1>1, Invariance, PTL

\* No path through Create, Update or Delete leaks a connection or a row lock.
THEOREM NoLeak == Spec => []ResourcesAccounted
<1>1. IInv => ResourcesAccounted
  BY DEF IInv, ConnsExact, Transactions, ResourcesAccounted
<1>2. QED
  BY <1>1, Invariance, PTL

\* A task whose Delete was answered OK is gone and stays gone.
THEOREM DeleteIsFinal == Spec => []AckedDeleteGone
<1>1. IInv => AckedDeleteGone
  BY DEF IInv, GoneInv, Gone, AckedDeleteGone
<1>2. QED
  BY <1>1, Invariance, PTL

-----------------------------------------------------------------------------
(* Gone is for good. *)

LEMMA GoneStays ==
    ASSUME IInv, [Next]_vars, NEW t \in TaskIds, Gone(t)
    PROVE  Gone(t)'
<1>1. ASSUME NEW c \in Clients, NEW a \in Delivered, Invoke(c, a) PROVE Gone(t)'
  BY <1>1 DEF Invoke, Gone, Creating, IInv, TypeOK
<1>2. ASSUME NEW c \in Clients, Begin(c) \/ GetById(c) \/ Create(c) PROVE Gone(t)'
  BY <1>2 DEF Begin, GetById, Create, Gone, Creating, IInv, TypeOK
<1>3. ASSUME NEW c \in Clients, Update(c) \/ Delete(c) PROVE Gone(t)'
  BY <1>3 DEF Update, Delete, Write, Gone, Creating, IInv, TypeOK
<1>4. ASSUME NEW c \in Clients, Commit(c) PROVE Gone(t)'
  <2>1. lock[t] # c
    <3>1. SUFFICES ASSUME lock[t] = c PROVE FALSE
      OBVIOUS
    <3>2. arg[c].id = t /\ pc[c] = "written"
      BY <1>4, <3>1, CommitEffect DEF Commit
    <3>3. QED
      BY <3>1, <3>2 DEF IInv, PendingInv, Gone, Owned, Creating
  <2>2. tasks'[t] = tasks[t]
    BY <1>4, <2>1 DEF Commit
  <2>3. QED
    BY <1>4, <2>2 DEF Commit, Gone, Creating, IInv, TypeOK
<1>5. ASSUME NEW c \in Clients,
             \/ AuthInterceptorRejects(c) \/ ParseFails(c) \/ GetByIdMisses(c)
             \/ CommitAcked(c) \/ GetTask(c) \/ GetAll(c) \/ Fail(c)
      PROVE  Gone(t)'
  <2>1. PICK code \in Codes, shown \in SUBSET (TaskIds \X Row) : Return(c, code, shown)
    BY <1>5, Returns
  <2>2. \A d \in Clients : arg'[d].op = arg[d].op /\ arg'[d].id = arg[d].id
    BY <2>1 DEF Return, IInv, TypeOK, Calls
  <2>3. QED
    BY <2>1, <2>2 DEF Return, Gone, Creating, IInv, TypeOK
<1>6. CASE Crash
  BY <1>6 DEF Crash, Gone, Creating
<1>7. CASE UNCHANGED vars
  BY <1>7 DEF vars, Gone, Creating
<1>8. QED
  BY <1>1, <1>2, <1>3, <1>4, <1>5, <1>6, <1>7 DEF Next, Proceed

\* No step of any handler brings a deleted task back.
THEOREM DeletedStaysDeleted == Spec => NoResurrection
<1>1. IInv /\ [Next]_vars => [\A t \in TaskIds : Gone(t) => Gone(t)']_vars
  BY GoneStays
<1>2. QED
  BY <1>1, Invariance, PTL DEF Spec, NoResurrection

\* A text field left empty by an update keeps its committed value, even when
\* another update commits between this one's read and its write.
THEOREM EmptyMeansUnchanged == Spec => EmptyTextKept
<1>1. ASSUME IInv, [Next]_vars, NEW c \in Clients, UpdateCommits(c),
             NEW k \in TextColumns, arg[c].req[k] = Zero
      PROVE  tasks'[arg[c].id].col[k] = tasks[arg[c].id].col[k]
  <2>1. Commit(c)
    <3>1. ASSUME NEW d \in Clients, NEW a \in Delivered, Invoke(d, a) PROVE FALSE
      BY <1>1, <3>1 DEF UpdateCommits, Invoke, IInv, TypeOK
    <3>2. ASSUME NEW d \in Clients, d # c, Commit(d) PROVE FALSE
      BY <1>1, <3>2 DEF UpdateCommits, Commit, IInv, TypeOK
    <3>3. ASSUME NEW d \in Clients, Begin(d) \/ GetById(d) \/ Create(d) \/ Update(d) \/ Delete(d) PROVE FALSE
      BY <1>1, <3>3 DEF UpdateCommits, Begin, GetById, Create, Update, Delete, Write, IInv, TypeOK
    <3>4. ASSUME NEW d \in Clients, NEW code, NEW shown, Return(d, code, shown) PROVE FALSE
      BY <1>1, <3>4 DEF UpdateCommits, Return, IInv, TypeOK
    <3>5. CASE Crash \/ UNCHANGED vars
      BY <1>1, <3>5 DEF UpdateCommits, Crash, vars
    <3>6. QED
      BY <1>1, <3>1, <3>2, <3>3, <3>4, <3>5, Returns DEF Next, Proceed
  <2>2. tasks'[arg[c].id] = entity[c]
    BY <1>1, <2>1, CommitEffect DEF UpdateCommits, IInv, TypeOK
  <2>3. KeepsEmpty(entity[c], tasks[arg[c].id], arg[c].req)
    BY <1>1 DEF UpdateCommits, IInv, PendingInv
  <2>4. QED
    BY <1>1, <2>2, <2>3 DEF KeepsEmpty
<1>2. IInv /\ [Next]_vars =>
        [\A c \in Clients : UpdateCommits(c) =>
            \A k \in TextColumns : arg[c].req[k] = Zero =>
               tasks'[arg[c].id].col[k] = tasks[arg[c].id].col[k]]_vars
  BY <1>1
<1>3. QED
  BY <1>2, Invariance, PTL DEF Spec, EmptyTextKept

-----------------------------------------------------------------------------
(* The service implements the table. *)

LEMMA PhaseMoves ==
    ASSUME IInv, NEW c \in Clients, NEW p \in Phases, pc' = [pc EXCEPT ![c] = p]
    PROVE  Phase' = [Phase EXCEPT ![c] = PhaseOf(p)]
BY DEF IInv, TypeOK, Phase

LEMMA CommitIsEffect ==
    ASSUME IInv, NEW c \in Clients, Commit(c)
    PROVE  Table!Created(c) \/ Table!Updated(c) \/ Table!Deleted(c) \/ Table!Missed(c)
<1>1. Table!Takes(c)
  <2>1. Phase' = [Phase EXCEPT ![c] = "done"]
    BY PhaseMoves DEF Commit, Phases, PhaseOf
  <2>2. Phase[c] = "open"
    BY DEF Commit, Phase, PhaseOf
  <2>3. QED
    BY <2>1, <2>2 DEF Table!Takes, Commit
<1>2. arg[c].id \in TaskIds /\ pc[c] = "written"
  BY CommitEffect DEF Commit
<1>3. CASE lock[arg[c].id] = c
  <2>1. tasks' = [tasks EXCEPT ![arg[c].id] = entity[c]]
    BY <1>3, CommitEffect
  <2>2. CASE arg[c].op = "create"
    <3>1. tasks[arg[c].id] = NoTask
      BY <1>2, <2>2 DEF IInv, CreateInv, Creating
    <3>2. entity[c] \in Row /\ entity[c].owner = arg[c].user /\ Table!Carries(entity[c], arg[c].req)
      BY <1>2, <1>3, <2>2 DEF IInv, PendingInv
    <3>3. Row = Table!Row
      BY DEF Row, Table!Row
    <3>4. QED
      BY <1>1, <2>1, <2>2, <3>1, <3>2, <3>3 DEF Table!Created
  <2>3. CASE arg[c].op = "update"
    <3>1. entity[c] \in Row /\ entity[c].owner = arg[c].user /\ Table!Carries(entity[c], arg[c].req)
      BY <1>2, <1>3, <2>3 DEF IInv, PendingInv
    <3>2. Table!Owned(arg[c].id, arg[c].user)
      BY <1>2, <1>3, <2>3 DEF IInv, PendingInv, Owned, Table!Owned
    <3>3. Row = Table!Row
      BY DEF Row, Table!Row
    <3>4. QED
      BY <1>1, <2>1, <2>3, <3>1, <3>2, <3>3 DEF Table!Updated
  <2>4. CASE arg[c].op = "delete"
    <3>1. entity[c] = NoTask /\ Table!Owned(arg[c].id, arg[c].user)
      BY <1>2, <1>3, <2>4 DEF IInv, PendingInv, Owned, Table!Owned
    <3>2. QED
      BY <1>1, <2>1, <2>4, <3>1 DEF Table!Deleted
  <2>5. QED
    BY <1>2, <2>2, <2>3, <2>4 DEF IInv, CallInv, InTx, Writes
<1>4. CASE lock[arg[c].id] # c
  <2>1. arg[c].op \in {"update", "delete"} /\ tasks[arg[c].id] = NoTask
    BY <1>2, <1>4 DEF IInv, GoneInv, Gone, CallInv, InTx, Writes
  <2>2. tasks' = tasks
    BY <1>4, CommitEffect
  <2>3. QED
    BY <1>1, <1>2, <2>1, <2>2 DEF Table!Missed
<1>5. QED
  BY <1>3, <1>4

LEMMA ReturnIsAnswer ==
    ASSUME IInv, NEW c \in Clients,
           \/ AuthInterceptorRejects(c) \/ ParseFails(c) \/ GetByIdMisses(c)
           \/ CommitAcked(c) \/ GetTask(c) \/ GetAll(c) \/ Fail(c)
    PROVE  Table!Acknowledge(c) \/ Table!Refuse(c) \/ Table!Doubt(c) \/ Table!Show(c)
<1>1. PICK code \in Codes, shown \in SUBSET (TaskIds \X Row) :
          /\ Return(c, code, shown)
          /\ \/ code = "OK" /\ pc[c] = "committed" /\ shown = {}
             \/ code \in Table!Refusals /\ pc[c] \in {"called", "begun"} /\ shown = {}
             \/ code \in Table!Doubts /\ shown = {}
             \/ /\ code = "OK" /\ pc[c] = "called" /\ arg[c].op = "get"
                /\ arg[c].id \in TaskIds /\ Owned(arg[c].id, arg[c].user)
                /\ shown = {<<arg[c].id, tasks[arg[c].id]>>}
             \/ /\ code = "OK" /\ pc[c] = "called" /\ arg[c].op = "list"
                /\ shown = OwnedBy(arg[c].user)
  BY Returns
<1>2. Table!Respond(c, code, shown)
  <2>1. Phase' = [Phase EXCEPT ![c] = "idle"]
    BY <1>1, PhaseMoves DEF Return, Phases, PhaseOf
  <2>2. QED
    BY <1>1, <2>1 DEF Return, Answer, Table!Respond, Table!Answer
<1>3. /\ pc[c] = "committed" => Phase[c] = "done"
      /\ pc[c] \in {"called", "begun"} => Phase[c] = "open"
      /\ pc[c] # "idle" => Phase[c] # "idle"
  BY DEF Phase, PhaseOf
<1>4. CASE code = "OK" /\ pc[c] = "committed" /\ shown = {}
  BY <1>2, <1>3, <1>4 DEF Table!Acknowledge
<1>5. CASE code \in Table!Refusals /\ pc[c] \in {"called", "begun"} /\ shown = {}
  BY <1>2, <1>3, <1>5 DEF Table!Refuse
<1>6. CASE code \in Table!Doubts /\ shown = {}
  BY <1>2, <1>3, <1>6, Returns DEF Table!Doubt
<1>7. CASE /\ code = "OK" /\ pc[c] = "called" /\ arg[c].op = "get"
           /\ arg[c].id \in TaskIds /\ Owned(arg[c].id, arg[c].user)
           /\ shown = {<<arg[c].id, tasks[arg[c].id]>>}
  BY <1>2, <1>3, <1>7 DEF Table!Show, Owned, Table!Owned
<1>8. CASE /\ code = "OK" /\ pc[c] = "called" /\ arg[c].op = "list"
           /\ shown = OwnedBy(arg[c].user)
  <2>1. shown = {<<t, tasks[t]>> : t \in {s \in TaskIds : Table!Owned(s, arg[c].user)}}
    BY <1>8 DEF OwnedBy, Owned, Table!Owned
  <2>2. QED
    BY <1>2, <1>3, <1>8, <2>1 DEF Table!Show
<1>9. QED
  BY <1>1, <1>4, <1>5, <1>6, <1>7, <1>8

LEMMA StepImplements ==
    ASSUME IInv, [Next]_vars
    PROVE  [Table!TableNext]_(Table!tableVars)
<1>1. ASSUME NEW c \in Clients, NEW a \in Delivered, Invoke(c, a)
      PROVE  Table!Arrive(c)
  <2>1. Phase' = [Phase EXCEPT ![c] = "open"]
    BY <1>1, PhaseMoves DEF Invoke, Phases, PhaseOf
  <2>2. Phase[c] = "idle"
    BY <1>1 DEF Invoke, Phase, PhaseOf
  <2>3. QED
    BY <1>1, <2>1, <2>2 DEF Invoke, Answer, Table!Arrive, Table!Answer
<1>2. ASSUME NEW c \in Clients, Begin(c) \/ GetById(c) \/ Create(c) \/ Update(c) \/ Delete(c)
      PROVE  UNCHANGED Table!tableVars
  <2>1. /\ tasks' = tasks /\ arg' = arg /\ reply' = reply
        /\ Phase[c] = "open"
        /\ \E p \in Phases : pc' = [pc EXCEPT ![c] = p] /\ PhaseOf(p) = "open"
    BY <1>2 DEF Begin, GetById, Create, Update, Delete, Write, Phases, Phase, PhaseOf
  <2>2. Phase' = [Phase EXCEPT ![c] = "open"]
    BY <2>1, PhaseMoves
  <2>3. Phase' = Phase
    BY <2>1, <2>2 DEF Phase
  <2>4. QED
    BY <2>1, <2>3 DEF Table!tableVars
<1>3. ASSUME Crash PROVE Table!Outage
  <2>1. Phase' = [c \in Clients |-> "idle"]
    BY <1>3 DEF Crash, Phase, PhaseOf
  <2>2. \A c \in Clients : Phase[c] = "idle" <=> pc[c] = "idle"
    BY DEF Phase, PhaseOf
  <2>3. reply' = [c \in Clients |-> IF Phase[c] = "idle" THEN reply[c]
                                   ELSE Table!Answer("Unavailable", {})]
    BY <1>3, <2>2 DEF Crash, Answer, Table!Answer
  <2>4. QED
    BY <1>3, <2>1, <2>3 DEF Crash, Table!Outage
<1>4. CASE UNCHANGED vars
  BY <1>4 DEF vars, Table!tableVars, Phase
<1>5. QED
  BY <1>1, <1>2, <1>3, <1>4, CommitIsEffect, ReturnIsAnswer
     DEF Next, Proceed, Table!TableNext

\* Transactions, row locks, failures and crashes are invisible to callers:
\* the service implements the table of atomic, owner-only calls.
THEOREM Refinement == Spec => ImplementsTable
<1>1. Init => Table!TableInit
  BY DEF Init, Table!TableInit, Phase, PhaseOf, Answer, Table!Answer
<1>2. QED
  BY <1>1, StepImplements, Invariance, PTL DEF Spec, ImplementsTable, Table!TableSpec
=============================================================================
