------------------------------- MODULE Powers -------------------------------
(* Powers of two, for the widths of words, bytes and fields.               *)
EXTENDS Integers

Pow2[n \in Nat] == IF n = 0 THEN 1 ELSE 2 * Pow2[n - 1]
=============================================================================
