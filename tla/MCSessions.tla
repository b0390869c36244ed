----------------------------- MODULE MCSessions -----------------------------
(* Sessions on small instances. *)
EXTENDS Sessions, TLC

Symmetry == Permutations(Ids) \cup Permutations(Emails)

Tokened == {"profile", "tasks", "verify", "refresh"}

\* Alice keeps a session and may delete accounts; Bob registers too and
\* administers accounts.
SessionAndOperator ==
    [c \in Clients |-> IF c = "alice" THEN Tokened \cup {"register", "signin", "delete"}
                       ELSE {"register", "update", "delete"}]
=============================================================================
