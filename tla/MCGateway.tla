----------------------------- MODULE MCGateway -----------------------------
(* The gateway's handlers.  A behaviour is one of the task routes, in which *)
(* two clients and two accounts contend for one task, or one benchmark      *)
(* request.  The two share no state: what does not take part rests.         *)
EXTENDS Gateway, Benchmark

CONSTANTS u1, u2

VARIABLE part

ASSUME IterationsAssumption

\* One column is enough: TaskService has the columns.
MCColumns == {"title"}
MCValues == {"", "a"}
MCBodies == {[k \in MCColumns |-> "a"]}

\* Tokens of each use and without one; all expire at the tick of the clock.
access == [sub |-> u1, use |-> "access", exp |-> 1]
refresh == [sub |-> u1, use |-> "refresh", exp |-> 1]
other == [sub |-> u2, use |-> "access", exp |-> 1]
useless == [sub |-> u1, use |-> "", exp |-> 1]
MCTokens == {access, refresh, other, useless}

Req(op, token, id, b) == [op |-> op, token |-> token, id |-> id, body |-> b]
A == [k \in MCColumns |-> "a"]

\* Both accounts and all routes, and every reason for a refusal.
MCRequests ==
    {Req("create", t, BadId, A) : t \in {access, other}}
    \cup {Req("update", t, i, A) : t \in {access, other}, i \in TaskIds}
    \cup {Req("delete", t, i, BadBody) : t \in {access, other, refresh, useless, NoToken}, i \in TaskIds}
    \cup {Req("get", other, i, BadBody) : i \in TaskIds \cup {BadId}}
    \cup {Req("list", access, BadId, BadBody), Req("create", other, BadId, BadBody)}

\* Clients are only told apart by what they do.
MCSymmetry == Permutations(Clients)

\* A call that is answered is not looked at again: the next Arrive replaces it.
MCView ==
    <<httpVars, effect, tasks, phase,
      [c \in Clients |-> IF pc[c] = "forwarded" THEN <<arg[c], reply[c]>> ELSE <<>>],
      part, benchmarkVars>>

-----------------------------------------------------------------------------
MCInit ==
    /\ Init /\ BenchmarkInit
    /\ part \in {"routes", "benchmark"}
    /\ part = "routes" => kind = "pure"

RouteStep == part = "routes" /\ Next /\ UNCHANGED <<part, benchmarkVars>>
BenchmarkStep == part = "benchmark" /\ BenchmarkNext /\ UNCHANGED <<part, vars>>

\* The only place where a benchmark stops is after its response.
BenchmarkRests ==
    /\ part = "benchmark" /\ req.pc = "done"
    /\ UNCHANGED <<part, vars, benchmarkVars>>

MCSpec ==
    MCInit /\ [][RouteStep \/ BenchmarkStep \/ BenchmarkRests]_<<part, vars, benchmarkVars>>
============================================================================
