--------------------------- MODULE MCTaskService ---------------------------
(* TaskService on small instances. *)
EXTENDS TaskService, TLC

Symmetry == Permutations(Clients) \cup Permutations(Users) \cup Permutations(TaskIds)

\* Every mix of an empty text field, a given one, an omitted due date and a
\* given one; two due dates, so that an older one can be told from a newer.
MCPayloads == {r \in Requests : r[DueColumn] # Zero}

\* One request that sets everything, and one that empties the text and leaves
\* the due date out.
TwoPayloads == {[k \in Columns |-> CHOOSE v \in Values : v # Zero],
                [k \in Columns |-> IF k = DueColumn THEN Absent ELSE Zero]}
=============================================================================
