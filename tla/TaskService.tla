---------------------------- MODULE TaskService ----------------------------
(***************************************************************************)
(* The todo-service: the gRPC server, its auth interceptor, TaskService    *)
(* and TaskRepository, over PostgreSQL at its default isolation level,     *)
(* READ COMMITTED.  Several handlers run at once, each a goroutine that    *)
(* opens a transaction, reads the task, writes it and commits; every early *)
(* return runs the deferred Rollback.                                      *)
(*                                                                         *)
(* tasks   the committed table                                             *)
(* ids     the primary keys gen_random_uuid() has handed out               *)
(* lock    the row locks: lock[t] is the handler whose uncommitted write   *)
(*         of row t is pending, its new row kept in entity                 *)
(* conns   connections of the database/sql pool held by transactions       *)
(* pc      where each handler is; arg the request it serves; entity the    *)
(*         task struct it works on; reply what it last answered            *)
(***************************************************************************)
EXTENDS Naturals, FiniteSets

CONSTANTS
    Clients,        \* concurrent callers, one outstanding call each
    Users,          \* user identifiers that are UUIDs
    BadUser,        \* an x-user-id header that is missing or not a UUID
    TaskIds,        \* primary keys the database can draw
    BadId,          \* a path parameter that is not a UUID
    TextColumns,    \* title, description, status: always set by a request
    DueColumn,      \* due_date: a request may leave it out
    Values,         \* column values, Zero among them
    Zero,           \* Go's zero value: "" or 0
    Absent,         \* an optional field the request does not carry
    Payloads,       \* bound: the column assignments requests carry
    NoTask,         \* no row with this key
    Nobody,         \* no handler
    MaxOpenConns    \* SetMaxOpenConns

ASSUME ConstantsAssumption ==
    /\ IsFiniteSet(Clients)
    /\ MaxOpenConns \in Nat \ {0}
    /\ Zero \in Values /\ Absent \notin Values
    /\ DueColumn \notin TextColumns
    /\ BadUser \notin Users /\ BadId \notin TaskIds
    /\ Nobody \notin Clients

VARIABLES tasks, ids, lock, conns, pc, arg, entity, reply

vars == <<tasks, ids, lock, conns, pc, arg, entity, reply>>

-----------------------------------------------------------------------------
(* The data: entity.Task without the clock-filled columns, and requests.   *)

Columns == TextColumns \cup {DueColumn}

Row == [owner : Users, col : [Columns -> Values]]

ASSUME NoTaskAssumption == NoTask \notin Row

\* Protobuf strings are never absent; the due date is a message pointer.
Requests == {r \in [Columns -> Values \cup {Absent}] :
                \A k \in TextColumns : r[k] # Absent}

ASSUME PayloadsAssumption == Payloads \subseteq Requests

Blank == [k \in Columns |-> Zero]

Writes == {"create", "update", "delete"}
Reads == {"get", "list"}

Calls == [op : Writes \cup Reads \cup {"none"}, user : Users \cup {BadUser},
          id : TaskIds \cup {BadId}, req : Requests]

\* Variant: an omitted field is assigned like a given one.
AssignOmitted(col, req) == req

\* The struct after the service assigned the request's fields to it.
Assign(col, req) ==
    [k \in Columns |-> IF req[k] = Absent THEN col[k] ELSE req[k]]

\* Variant: gorm's Save, which writes the zero fields too.
UpdatesAsSave(col, new) == new

\* gorm's Updates(struct): only the non-zero fields reach the row.
Updates(col, new) ==
    [k \in Columns |-> IF new[k] = Zero THEN col[k] ELSE new[k]]

\* Variant: the user_id condition forgotten.
OwnedByAnyone(t, user) == tasks[t] # NoTask

\* The rows WHERE id = ? AND user_id = ? selects.
Owned(t, user) == tasks[t] # NoTask /\ tasks[t].owner = user

OwnedBy(user) == {<<t, tasks[t]>> : t \in {s \in TaskIds : Owned(s, user)}}

Codes == {"none", "OK", "InvalidArgument", "NotFound", "Unauthenticated",
          "Internal", "Unavailable"}

Replies == [code : Codes, shown : SUBSET (TaskIds \X Row)]

Answer(code, shown) == [code |-> code, shown |-> shown]

\* Where a handler holds a connection for its transaction.
InTx(c) == pc[c] \in {"begun", "read", "written", "committed"}

-----------------------------------------------------------------------------
Init ==
    /\ tasks = [t \in TaskIds |-> NoTask]
    /\ ids = {}
    /\ lock = [t \in TaskIds |-> Nobody]
    /\ conns = 0
    /\ pc = [c \in Clients |-> "idle"]
    /\ arg = [c \in Clients |-> [op |-> "none", user |-> BadUser,
                                 id |-> BadId, req |-> Blank]]
    /\ entity = [c \in Clients |-> NoTask]
    /\ reply = [c \in Clients |-> Answer("none", {})]

\* A call arrives.  The key a create will be given is drawn here: nobody can
\* see it before the INSERT, so drawing it early shows in no behaviour.
Invoke(c, a) ==
    /\ pc[c] = "idle"
    /\ a.op = "create" => a.id \in TaskIds \ ids
    /\ ids' = IF a.op = "create" THEN ids \cup {a.id} ELSE ids
    /\ pc' = [pc EXCEPT ![c] = "called"]
    /\ arg' = [arg EXCEPT ![c] = a]
    /\ reply' = [reply EXCEPT ![c] = Answer("none", {})]
    /\ UNCHANGED <<tasks, lock, conns, entity>>

\* Variant: no deferred Rollback, so a connection comes back by a commit only.
ReturnLeaky(c, code, shown) ==
    /\ pc' = [pc EXCEPT ![c] = "idle"]
    /\ reply' = [reply EXCEPT ![c] = Answer(code, shown)]
    /\ entity' = [entity EXCEPT ![c] = NoTask]
    /\ conns' = IF pc[c] = "committed" THEN conns - 1 ELSE conns
    /\ arg' = [arg EXCEPT ![c].req = Blank]
    /\ UNCHANGED <<tasks, ids, lock>>

\* Return from the handler: the deferred tx.Rollback() gives up what the
\* transaction still holds, and is a no-op after a commit.  The payload goes
\* with the handler; whose call it was stays on record beside the reply.
Return(c, code, shown) ==
    /\ pc' = [pc EXCEPT ![c] = "idle"]
    /\ reply' = [reply EXCEPT ![c] = Answer(code, shown)]
    /\ entity' = [entity EXCEPT ![c] = NoTask]
    /\ lock' = [t \in TaskIds |-> IF lock[t] = c THEN Nobody ELSE lock[t]]
    /\ conns' = IF InTx(c) THEN conns - 1 ELSE conns
    /\ arg' = [arg EXCEPT ![c].req = Blank]
    /\ UNCHANGED <<tasks, ids>>

\* AuthInterceptor: no usable x-user-id, no handler.
AuthInterceptorRejects(c) ==
    /\ pc[c] = "called"
    /\ arg[c].user = BadUser
    /\ Return(c, "Unauthenticated", {})

\* Begin waits for a free connection; it comes before any argument is parsed.
Begin(c) ==
    /\ pc[c] = "called"
    /\ arg[c].user # BadUser
    /\ arg[c].op \in Writes
    /\ conns < MaxOpenConns
    /\ conns' = conns + 1
    /\ pc' = [pc EXCEPT ![c] = "begun"]
    /\ UNCHANGED <<tasks, ids, lock, arg, entity, reply>>

\* Begin's error is not looked at: it surfaces as the failure of the first
\* statement, after the arguments were parsed.
BeginFails(c) ==
    /\ pc[c] = "called"
    /\ arg[c].user # BadUser
    /\ arg[c].op \in Writes
    /\ \/ arg[c].op = "create" /\ Return(c, "Internal", {})
       \/ arg[c].op # "create" /\ arg[c].id = BadId /\ Return(c, "InvalidArgument", {})
       \/ arg[c].op # "create" /\ arg[c].id # BadId /\ Return(c, "NotFound", {})

ParseFails(c) ==
    /\ pc[c] = "begun"
    /\ arg[c].op # "create"
    /\ arg[c].id = BadId
    /\ Return(c, "InvalidArgument", {})

\* TaskRepository.GetById inside the transaction of an update or a delete.
GetById(c) ==
    /\ pc[c] = "begun"
    /\ arg[c].op # "create"
    /\ arg[c].id # BadId
    /\ Owned(arg[c].id, arg[c].user)
    /\ entity' = [entity EXCEPT ![c] = tasks[arg[c].id]]
    /\ pc' = [pc EXCEPT ![c] = "read"]
    /\ UNCHANGED <<tasks, ids, lock, conns, arg, reply>>

GetByIdMisses(c) ==
    /\ pc[c] = "begun"
    /\ arg[c].op # "create"
    /\ arg[c].id # BadId
    /\ ~Owned(arg[c].id, arg[c].user)
    /\ Return(c, "NotFound", {})

\* TaskRepository.Create: the INSERT of a fresh key never waits.
Create(c) ==
    /\ pc[c] = "begun"
    /\ arg[c].op = "create"
    /\ lock' = [lock EXCEPT ![arg[c].id] = c]
    /\ entity' = [entity EXCEPT ![c] =
                    [owner |-> arg[c].user, col |-> Assign(Blank, arg[c].req)]]
    /\ pc' = [pc EXCEPT ![c] = "written"]
    /\ UNCHANGED <<tasks, ids, conns, arg, reply>>

\* UPDATE and DELETE wait for the row lock, then look at the row again.
\* A row deleted meanwhile matches nothing: no lock, no error.
Affects(c) == Owned(arg[c].id, entity[c].owner)

\* Variant: an upsert, which inserts the struct again when the row is gone.
WriteUpsert(c, new) ==
    /\ lock[arg[c].id] = Nobody
    /\ lock' = [lock EXCEPT ![arg[c].id] = c]
    /\ entity' = [entity EXCEPT ![c] =
                    IF Affects(c) \/ arg[c].op = "delete" THEN new ELSE entity[c]]
    /\ pc' = [pc EXCEPT ![c] = "written"]
    /\ UNCHANGED <<tasks, ids, conns, arg, reply>>

Write(c, new) ==
    /\ lock[arg[c].id] = Nobody
    /\ lock' = IF Affects(c) THEN [lock EXCEPT ![arg[c].id] = c] ELSE lock
    /\ entity' = [entity EXCEPT ![c] = IF Affects(c) THEN new ELSE NoTask]
    /\ pc' = [pc EXCEPT ![c] = "written"]
    /\ UNCHANGED <<tasks, ids, conns, arg, reply>>

\* TaskRepository.Update writes back every non-zero field of the struct,
\* the ones read earlier and not in the request included.
Update(c) ==
    /\ pc[c] = "read"
    /\ arg[c].op = "update"
    /\ Write(c, [owner |-> entity[c].owner,
                 col |-> Updates(tasks[arg[c].id].col,
                                 Assign(entity[c].col, arg[c].req))])

\* TaskRepository.Delete.
Delete(c) ==
    /\ pc[c] = "read"
    /\ arg[c].op = "delete"
    /\ Write(c, NoTask)

\* A statement is refused, or cancelled while it waits for the row.  A SELECT
\* that fails is answered like one that finds nothing.
StatementFails(c) ==
    \/ /\ pc[c] = "begun" /\ arg[c].op # "create" /\ arg[c].id # BadId
       /\ Return(c, "NotFound", {})
    \/ /\ \/ pc[c] = "begun" /\ arg[c].op = "create"
          \/ pc[c] = "read"
       /\ Return(c, "Internal", {})

\* The database commits; the acknowledgement is still on its way.
Commit(c) ==
    /\ pc[c] = "written"
    /\ tasks' = [t \in TaskIds |-> IF lock[t] = c THEN entity[c] ELSE tasks[t]]
    /\ lock' = [t \in TaskIds |-> IF lock[t] = c THEN Nobody ELSE lock[t]]
    /\ pc' = [pc EXCEPT ![c] = "committed"]
    /\ entity' = [entity EXCEPT ![c] = NoTask]
    /\ UNCHANGED <<ids, conns, arg, reply>>

CommitAcked(c) ==
    /\ pc[c] = "committed"
    /\ Return(c, "OK", {})

\* tx.Commit() reports an error: before the commit took place, or after it
\* when only the acknowledgement was lost.
CommitFails(c) ==
    /\ pc[c] \in {"written", "committed"}
    /\ Return(c, "Internal", {})

\* TaskService.GetById and GetAll: one statement, outside a transaction, on
\* a connection of its own.
GetTask(c) ==
    /\ pc[c] = "called"
    /\ arg[c].user # BadUser
    /\ arg[c].op = "get"
    /\ \/ arg[c].id = BadId /\ Return(c, "InvalidArgument", {})
       \/ /\ arg[c].id # BadId
          /\ conns < MaxOpenConns
          /\ Owned(arg[c].id, arg[c].user)
          /\ Return(c, "OK", {<<arg[c].id, tasks[arg[c].id]>>})
       \/ /\ arg[c].id # BadId
          /\ conns < MaxOpenConns
          /\ ~Owned(arg[c].id, arg[c].user)
          /\ Return(c, "NotFound", {})

GetAll(c) ==
    /\ pc[c] = "called"
    /\ arg[c].user # BadUser
    /\ arg[c].op = "list"
    /\ conns < MaxOpenConns
    /\ Return(c, "OK", OwnedBy(arg[c].user))

\* The query fails, or the caller gives up while waiting for a connection.
ReadFails(c) ==
    /\ pc[c] = "called"
    /\ arg[c].user # BadUser
    /\ \/ arg[c].op = "get" /\ arg[c].id # BadId /\ Return(c, "NotFound", {})
       \/ arg[c].op = "list" /\ Return(c, "Internal", {})

\* The process dies and is started again: PostgreSQL rolls back every open
\* transaction, the callers see the connection break.
Crash ==
    /\ \E c \in Clients : pc[c] # "idle"
    /\ pc' = [c \in Clients |-> "idle"]
    /\ reply' = [c \in Clients |-> IF pc[c] = "idle" THEN reply[c]
                                   ELSE Answer("Unavailable", {})]
    /\ entity' = [c \in Clients |-> NoTask]
    /\ lock' = [t \in TaskIds |-> Nobody]
    /\ conns' = 0
    /\ arg' = [c \in Clients |-> [arg[c] EXCEPT !.req = Blank]]
    /\ UNCHANGED <<tasks, ids>>

-----------------------------------------------------------------------------
\* What a handler does on its own, without errors of the database.
Proceed(c) ==
    \/ AuthInterceptorRejects(c)
    \/ Begin(c) \/ ParseFails(c) \/ GetById(c) \/ GetByIdMisses(c)
    \/ Create(c) \/ Update(c) \/ Delete(c)
    \/ Commit(c) \/ CommitAcked(c)
    \/ GetTask(c) \/ GetAll(c)

Fail(c) == BeginFails(c) \/ StatementFails(c) \/ CommitFails(c) \/ ReadFails(c)

\* The calls the gRPC interface can deliver.
Delivered ==
    LET Callers == Users \cup {BadUser}
        Paths == TaskIds \cup {BadId}
    IN  [op : {"create"}, user : Callers, id : TaskIds, req : Payloads]
        \cup [op : {"update"}, user : Callers, id : Paths, req : Payloads]
        \cup [op : {"delete", "get"}, user : Callers, id : Paths, req : {Blank}]
        \cup [op : {"list"}, user : Callers, id : {BadId}, req : {Blank}]

Next ==
    \/ \E c \in Clients, a \in Delivered : Invoke(c, a)
    \/ \E c \in Clients : Proceed(c) \/ Fail(c)
    \/ Crash

Spec == Init /\ [][Next]_vars

\* Goroutines are scheduled; database/sql gives a freed connection to a waiter
\* it picks at random and PostgreSQL queues the waiters of a row, so a step
\* that becomes possible again and again is taken.
Fairness == \A c \in Clients : SF_vars(Proceed(c))

FairSpec == Spec /\ Fairness

-----------------------------------------------------------------------------
(* Properties.                                                             *)

Phases == {"idle", "called", "begun", "read", "written", "committed"}

\* Every variable has its type; the pool never exceeds SetMaxOpenConns.
TypeOK ==
    /\ tasks \in [TaskIds -> Row \cup {NoTask}]
    /\ ids \subseteq TaskIds
    /\ lock \in [TaskIds -> Clients \cup {Nobody}]
    /\ conns \in 0..MaxOpenConns
    /\ pc \in [Clients -> Phases]
    /\ arg \in [Clients -> Calls]
    /\ entity \in [Clients -> Row \cup {NoTask}]
    /\ reply \in [Clients -> Replies]

\* Every return path of Create, Update and Delete gives back what Begin and
\* the write took: the pool's count is exactly the open transactions, and a
\* row is locked only by a handler between its write of that row and its
\* commit.
LocksHeld ==
    \A t \in TaskIds : lock[t] # Nobody =>
        pc[lock[t]] = "written" /\ arg[lock[t]].id = t

ResourcesAccounted ==
    /\ conns = Cardinality({c \in Clients : InTx(c)})
    /\ LocksHeld

\* A handler is about to insert row t.
Creating(c, t) ==
    /\ pc[c] \in {"called", "begun", "written"}
    /\ arg[c].op = "create"
    /\ arg[c].id = t

Gone(t) == t \in ids /\ tasks[t] = NoTask /\ \A c \in Clients : ~Creating(c, t)

\* A task that was deleted, or whose creation failed, never comes back: an
\* Update that read the row before the Delete committed writes nothing.
NoResurrection == [][\A t \in TaskIds : Gone(t) => Gone(t)']_vars

\* A Delete answered OK means the task is gone for good, whatever updates
\* were in flight when it committed.
AckedDeleteGone ==
    \A c \in Clients :
        pc[c] = "idle" /\ arg[c].op = "delete" /\ reply[c].code = "OK"
            => tasks[arg[c].id] = NoTask

\* The step in which an update of a row still there commits.
UpdateCommits(c) ==
    /\ pc[c] = "written" /\ pc'[c] = "committed"
    /\ arg[c].op = "update"
    /\ lock[arg[c].id] = c

\* A text field an update leaves empty keeps the value the row has when the
\* update commits, not the one it had when the handler read it.
EmptyTextKept ==
    [][\A c \in Clients : UpdateCommits(c) =>
          \A k \in TextColumns : arg[c].req[k] = Zero =>
             tasks'[arg[c].id].col[k] = tasks[arg[c].id].col[k]]_vars

\* README's "optional due_date": an update that leaves the due date out does
\* not change it.
OmittedDueDateKept ==
    [][\A c \in Clients : UpdateCommits(c) =>
          (arg[c].req[DueColumn] = Absent =>
             tasks'[arg[c].id].col[DueColumn] = tasks[arg[c].id].col[DueColumn])]_vars

\* Every call is answered: no handler waits for ever for a connection or for
\* a row, however the others fail.
EveryCallReturns ==
    \A c \in Clients : pc[c] # "idle" ~> pc[c] = "idle"

\* The service seen by its callers: a call is open from its arrival, and has
\* taken effect once the database committed it.
PhaseOf(p) == CASE p = "idle" -> "idle"
                [] p = "committed" -> "done"
                [] OTHER -> "open"

Phase == [c \in Clients |-> PhaseOf(pc[c])]

Table == INSTANCE TaskTable WITH phase <- Phase

\* The transactional service implements the table of atomic, owner-only
\* calls, and its answers tell what happened to them.
ImplementsTable == Table!TableSpec
=============================================================================
