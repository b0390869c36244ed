---------------------------- MODULE MCFndsaKeys -----------------------------
(* Keys generated for degree 64, the one degree whose samples can be larger *)
(* than the fields of its signing key; no key files.                       *)
EXTENDS FndsaKeys

\* Up to the largest sum of four samples.
Degree64Polys ==
    {[c \in 1 .. N |-> IF c = 1 THEN v ELSE 0] : v \in {1, 63, -63, 65, -65, 95}}
=============================================================================
