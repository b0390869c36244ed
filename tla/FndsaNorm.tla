----------------------------- MODULE FndsaNorm ------------------------------
(***************************************************************************)
(* The acceptance test at the end of a signature verification: the squared *)
(* norms of s1 (modulo q) and of s2 (signed) are summed in machine words,  *)
(* one coefficient a step, and compared with the bound.  The coefficients  *)
(* are arbitrary; what a word loses is the point.                          *)
(*                                                                         *)
(* The program has words of 32 bits, q = 12289 and up to 1024 coefficients.*)
(*                                                                         *)
(* pc             "norm2", "norm1", "verdict"                              *)
(* i              coefficients summed in the current loop                  *)
(* s, sat         the word sum of the current loop, its sticky bits        *)
(* norm2, norm1   the words the two loops returned                         *)
(* exact1, exact2 the squared norms as integers                            *)
(* accepted       the verdict of verify_inner                              *)
(***************************************************************************)
EXTENDS Integers

CONSTANTS
    Half,       \* half of the word range: 2^31
    Q,          \* the modulus
    N,          \* coefficients
    MaxS2,      \* bound on a coefficient of s2 (comp_decode guarantees it)
    SqBeta      \* sqbeta[logn]

\* The squares of single coefficients fit half a word range, and so does the
\* bound; what signed_poly_sqnorm assumes of s2.
ASSUME NormAssumption ==
    /\ Half \in Nat \ {0} /\ N \in Nat /\ MaxS2 \in Nat
    /\ Q \in Nat /\ Q % 2 = 1
    /\ ((Q - 1) \div 2) * ((Q - 1) \div 2) < Half
    /\ N * (MaxS2 * MaxS2) < 2 * Half
    /\ SqBeta \in 0 .. Half - 1

VARIABLES pc, i, s, sat, norm1, norm2, exact1, exact2, accepted

vars == <<pc, i, s, sat, norm1, norm2, exact1, exact2, accepted>>

-----------------------------------------------------------------------------
Word == 0 .. 2 * Half - 1
Top(x) == IF x >= Half THEN 1 ELSE 0
Neg(x) == IF x = 0 THEN 0 ELSE 2 * Half - x

\* The sum of two words, wrapping.
Plus(x, y) == IF x + y >= 2 * Half THEN x + y - 2 * Half ELSE x + y

\* The distance of x to the nearest multiple of q.
Distance(x) == IF 2 * x > Q THEN Q - x ELSE x

\* x - (m & q): the representative of x in [-q/2, q/2].
Centered(x) == IF x > (Q - 1) \div 2 THEN x - Q ELSE x

Init ==
    /\ pc = "norm2" /\ i = 0 /\ s = 0 /\ sat = 0
    /\ norm1 = 0 /\ norm2 = 0 /\ exact1 = 0 /\ exact2 = 0
    /\ accepted = FALSE

\* sat |= s, of which only the top bit is used.
Sticky(old, new) == IF Top(new) = 1 THEN 1 ELSE old

\* signed_poly_sqnorm: no saturation.
AddSigned(x) ==
    /\ pc = "norm2" /\ i < N
    /\ s' = Plus(s, x * x)
    /\ exact2' = exact2 + x * x
    /\ i' = i + 1
    /\ UNCHANGED <<pc, sat, norm1, norm2, exact1, accepted>>

SignedDone ==
    /\ pc = "norm2" /\ i = N
    /\ norm2' = s
    /\ pc' = "norm1" /\ s' = 0 /\ sat' = 0 /\ i' = 0
    /\ UNCHANGED <<norm1, exact1, exact2, accepted>>

\* mqpoly_sqnorm: "int" representation, values in [1, q].
AddModQ(x) ==
    LET y == Centered(x)
        t == Plus(s, y * y)
    IN  /\ pc = "norm1" /\ i < N
        /\ s' = t
        /\ sat' = Sticky(sat, t)
        /\ exact1' = exact1 + Distance(x) * Distance(x)
        /\ i' = i + 1
        /\ UNCHANGED <<pc, norm1, norm2, exact2, accepted>>

\* s | -(sat >> 31)
ModQDone ==
    /\ pc = "norm1" /\ i = N
    /\ norm1' = IF sat = 1 THEN 2 * Half - 1 ELSE s
    /\ pc' = "verdict"
    /\ UNCHANGED <<i, s, sat, norm2, exact1, exact2, accepted>>

\* Variant: only the sum, which may have wrapped, is compared.
AcceptableSum(n1, n2) == Plus(n1, n2) <= SqBeta

\* norm1 < -norm2 && mqpoly_sqnorm_is_acceptable(logn, norm1+norm2)
Acceptable(n1, n2) == n1 < Neg(n2) /\ Plus(n1, n2) <= SqBeta

Verdict ==
    /\ pc = "verdict"
    /\ accepted' = Acceptable(norm1, norm2)
    /\ pc' = "done"
    /\ UNCHANGED <<i, s, sat, norm1, norm2, exact1, exact2>>

Next ==
    \/ \E x \in -MaxS2 .. MaxS2 : AddSigned(x)
    \/ SignedDone
    \/ \E x \in 1 .. Q : AddModQ(x)
    \/ ModQDone
    \/ Verdict

Spec == Init /\ [][Next]_vars

-----------------------------------------------------------------------------
(* Properties.                                                             *)

TypeOK ==
    /\ pc \in {"norm2", "norm1", "verdict", "done"}
    /\ i \in 0 .. N
    /\ s \in Word /\ norm1 \in Word /\ norm2 \in Word
    /\ sat \in {0, 1}
    /\ exact1 \in Nat /\ exact2 \in Nat
    /\ accepted \in BOOLEAN

\* The sums are what they stand for until they saturate: what the loops
\* preserve from one coefficient to the next.
LoopInv ==
    /\ exact2 <= (IF pc = "norm2" THEN i ELSE N) * (MaxS2 * MaxS2)
    /\ pc = "norm2" => s = exact2 /\ sat = 0 /\ exact1 = 0
    /\ pc # "norm2" => norm2 = exact2
    /\ pc = "norm1" => IF sat = 0 THEN s = exact1 /\ exact1 < Half
                                  ELSE exact1 >= Half
    /\ accepted => pc = "done"
    /\ pc = "done" => accepted = Acceptable(norm1, norm2)

\* mqpoly_sqnorm: "If the squared norm exceeds 2^31-1, then 2^32-1 is
\* returned", also when the sum has wrapped past zero and come back small.
NormSaturates ==
    pc \in {"verdict", "done"} =>
        norm1 = IF exact1 >= Half THEN 2 * Half - 1 ELSE exact1

\* No long vector is accepted, however the words wrapped.
AcceptedIsShort ==
    accepted => exact1 + exact2 <= SqBeta

\* Every short vector with a nonzero s2 is accepted.
ShortIsAccepted ==
    pc = "done" /\ exact1 + exact2 <= SqBeta /\ exact2 # 0 => accepted

\* verify_inner gives the verdict the bound asks for: no sum that wrapped, and
\* no saturated norm, accepts a long vector or refuses a short one.
VerdictIsExact == AcceptedIsShort /\ ShortIsAccepted
=============================================================================
