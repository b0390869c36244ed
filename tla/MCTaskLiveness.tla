--------------------------- MODULE MCTaskLiveness ---------------------------
(* Two callers: with a connection for each, so that one waits for the      *)
(* other's row, or with one connection, which one of them waits for.       *)
EXTENDS TaskService

VARIABLE narrow     \* one connection for both

Narrow == INSTANCE TaskService WITH MaxOpenConns <- 1

\* One request that sets everything.
OnePayload == {[k \in Columns |-> CHOOSE v \in Values : v # Zero]}

MCInit == Init /\ narrow \in BOOLEAN

WideStep == ~narrow /\ Next /\ UNCHANGED narrow
NarrowStep == narrow /\ Narrow!Next /\ UNCHANGED narrow

\* Fairness, in whichever of the two is running.
MCFairness ==
    \A c \in Clients :
        /\ SF_vars(~narrow /\ Proceed(c))
        /\ SF_vars(narrow /\ Narrow!Proceed(c))

MCSpec == MCInit /\ [][WideStep \/ NarrowStep]_<<vars, narrow>> /\ MCFairness
=============================================================================
