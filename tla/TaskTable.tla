----------------------------- MODULE TaskTable -----------------------------
(***************************************************************************)
(* What the todo-service promises its callers, without transactions, locks *)
(* or connections: a table of tasks in which every call takes effect at    *)
(* most once, in one step, between its arrival and its answer, and only on *)
(* rows of the user it was made for.                                       *)
(*                                                                         *)
(* An answer tells what happened:                                          *)
(*   OK                           the call took effect                     *)
(*   InvalidArgument, NotFound,                                            *)
(*   Unauthenticated              it did not and never will                *)
(*   Internal, Unavailable        it may have, or not                      *)
(* A read is answered with the caller's rows of one single moment.         *)
(***************************************************************************)
CONSTANTS Clients, Users, TaskIds, Columns, Values, Zero, Absent, NoTask,
          Delivered, Blank

VARIABLES tasks, phase, arg, reply

tableVars == <<tasks, phase, arg, reply>>

Row == [owner : Users, col : [Columns -> Values]]

Owned(t, user) == t \in TaskIds /\ tasks[t] # NoTask /\ tasks[t].owner = user

Answer(code, shown) == [code |-> code, shown |-> shown]

Refusals == {"InvalidArgument", "NotFound", "Unauthenticated"}
Doubts == {"Internal", "Unavailable"}

Respond(c, code, shown) ==
    /\ phase' = [phase EXCEPT ![c] = "idle"]
    /\ reply' = [reply EXCEPT ![c] = Answer(code, shown)]
    /\ arg' = [arg EXCEPT ![c].req = Blank]
    /\ UNCHANGED tasks

Arrive(c) ==
    /\ phase[c] = "idle"
    /\ phase' = [phase EXCEPT ![c] = "open"]
    /\ \E a \in Delivered : arg' = [arg EXCEPT ![c] = a]
    /\ reply' = [reply EXCEPT ![c] = Answer("none", {})]
    /\ UNCHANGED tasks

\* A row as a request leaves it: what it gives is there, the rest is some
\* value of the column.
Carries(row, req) ==
    \A k \in Columns : req[k] \notin {Absent, Zero} => row.col[k] = req[k]

Takes(c) ==
    /\ phase[c] = "open"
    /\ phase' = [phase EXCEPT ![c] = "done"]
    /\ UNCHANGED <<arg, reply>>

Created(c) ==
    /\ Takes(c)
    /\ arg[c].op = "create"
    /\ tasks[arg[c].id] = NoTask
    /\ \E row \in Row :
          /\ row.owner = arg[c].user
          /\ Carries(row, arg[c].req)
          /\ tasks' = [tasks EXCEPT ![arg[c].id] = row]

Updated(c) ==
    /\ Takes(c)
    /\ arg[c].op = "update"
    /\ Owned(arg[c].id, arg[c].user)
    /\ \E row \in Row :
          /\ row.owner = arg[c].user
          /\ Carries(row, arg[c].req)
          /\ tasks' = [tasks EXCEPT ![arg[c].id] = row]

Deleted(c) ==
    /\ Takes(c)
    /\ arg[c].op = "delete"
    /\ Owned(arg[c].id, arg[c].user)
    /\ tasks' = [tasks EXCEPT ![arg[c].id] = NoTask]

\* A row another call deleted first: there is nothing left to write.
Missed(c) ==
    /\ Takes(c)
    /\ arg[c].op \in {"update", "delete"}
    /\ arg[c].id \in TaskIds /\ tasks[arg[c].id] = NoTask
    /\ UNCHANGED tasks

Acknowledge(c) == phase[c] = "done" /\ Respond(c, "OK", {})

Refuse(c) == phase[c] = "open" /\ \E code \in Refusals : Respond(c, code, {})

Doubt(c) == phase[c] # "idle" /\ \E code \in Doubts : Respond(c, code, {})

Show(c) ==
    /\ phase[c] = "open"
    /\ \/ /\ arg[c].op = "get"
          /\ Owned(arg[c].id, arg[c].user)
          /\ Respond(c, "OK", {<<arg[c].id, tasks[arg[c].id]>>})
       \/ /\ arg[c].op = "list"
          /\ Respond(c, "OK", {<<t, tasks[t]>> :
                                 t \in {s \in TaskIds : Owned(s, arg[c].user)}})

Outage ==
    /\ phase' = [c \in Clients |-> "idle"]
    /\ reply' = [c \in Clients |-> IF phase[c] = "idle" THEN reply[c]
                                   ELSE Answer("Unavailable", {})]
    /\ arg' = [c \in Clients |-> [arg[c] EXCEPT !.req = Blank]]
    /\ UNCHANGED tasks

TableInit ==
    /\ tasks = [t \in TaskIds |-> NoTask]
    /\ phase = [c \in Clients |-> "idle"]
    /\ \A c \in Clients : arg[c].op = "none"
    /\ reply = [c \in Clients |-> Answer("none", {})]

TableNext ==
    \/ \E c \in Clients :
          \/ Arrive(c)
          \/ Created(c) \/ Updated(c) \/ Deleted(c) \/ Missed(c)
          \/ Acknowledge(c) \/ Refuse(c) \/ Doubt(c) \/ Show(c)
    \/ Outage

TableSpec == TableInit /\ [][TableNext]_tableVars
=============================================================================
