----------------------------- MODULE FndsaFixed -----------------------------
(***************************************************************************)
(* The fixed-point numbers of the key generator: a word of 2 * H bits with *)
(* H of them after the point, where H = 32.  A product of signed numbers   *)
(* is made from an unsigned one, a quotient bit by bit.                    *)
(*                                                                         *)
(* lhs, lhs_im, rhs, rhs_im   operands, as words, and their imaginary      *)
(*                            parts                                        *)
(* fxop, res                  the operation and its result                 *)
(***************************************************************************)
EXTENDS Powers, Sequences

CONSTANTS
    H,          \* bits after the point: 32
    Imaginary   \* words for imaginary parts; 0 is one

VARIABLES lhs, lhs_im, rhs, rhs_im, fxop, res

fixedVars == <<lhs, lhs_im, rhs, rhs_im, fxop, res>>

-----------------------------------------------------------------------------

One == Pow2[H]
WordSize == Pow2[2 * H]

fxr == 0 .. WordSize - 1
Wrap(v) == v % WordSize
Sign(v) == v \div Pow2[2 * H - 1]

ASSUME FixedAssumption == H \in Nat /\ H >= 2 /\ 0 \in Imaginary /\ Imaginary \subseteq fxr

\* The signed number that a word stands for, in units of its last bit.
Signed(v) == IF Sign(v) = 1 THEN v - WordSize ELSE v

fxr_add(a, b) == Wrap(a + b)
fxr_sub(a, b) == Wrap(a - b)
fxr_neg(a) == Wrap(-a)
fxr_abs(a) == IF Sign(a) = 1 THEN fxr_neg(a) ELSE a

\* The middle of a product of two words.
Middle(hi, lo) == Wrap(hi * One) + (lo \div One)

\* The high half of the unsigned product is corrected for the signs.
fxr_mul(a, b) ==
    LET p == a * b
        hi == Wrap((p \div WordSize) - (IF Sign(b) = 1 THEN a ELSE 0)
                                     - (IF Sign(a) = 1 THEN b ELSE 0))
    IN  Middle(hi, Wrap(p))

\* Variant: the word is squared as it is.
fxr_sqr_word(a) == LET p == a * a IN Middle(p \div WordSize, Wrap(p))

fxr_sqr(a) == LET p == fxr_abs(a) * fxr_abs(a) IN Middle(p \div WordSize, Wrap(p))

fxr_round(a) == LET v == Signed(Wrap(a + Pow2[H - 1])) IN v \div One
fxr_div2e(a, e) == Wrap(Signed(Wrap(a + (Pow2[e] \div 2))) \div Pow2[e])

\* One if b can be subtracted: the top bit of the difference is not set.
Ready(num, b) == 1 - Sign(Wrap(num - b))

\* The state of the division of a by b when d of the 2 * H quotient bits are
\* done, from the highest; the numerator starts with the upper bits of a, takes
\* up the others one by one, and then zeros.
Dividing(a, b) ==
    LET it[d \in 0 .. 2 * H] ==
            IF d = 0 THEN [q |-> 0, num |-> a \div Pow2[H - 1]]
            ELSE LET last == it[d - 1]
                     i == 2 * H - d
                     bit == Ready(last.num, b)
                     down == IF i > H THEN (a \div Pow2[i - H - 1]) % 2 ELSE 0
                 IN  [q |-> last.q + bit * Pow2[i],
                      num |-> Wrap(2 * (last.num - bit * b) + down)]
    IN  it

\* One more if the remainder is half of the divisor at least.
Round(q, num, b) == q + Ready(num, b)

fxr_div(a, b) ==
    LET end == Dividing(fxr_abs(a), fxr_abs(b))[2 * H]
        q == Wrap(Round(end.q, end.num, fxr_abs(b)))
    IN  IF Sign(a) # Sign(b) THEN fxr_neg(q) ELSE q

\* Three products instead of four.
fxc_mul(a, ai, b, bi) ==
    LET z0 == fxr_mul(a, b)
        z1 == fxr_mul(ai, bi)
        z2 == fxr_mul(fxr_add(a, ai), fxr_add(b, bi))
    IN  <<fxr_sub(z0, z1), fxr_sub(z2, fxr_add(z0, z1))>>

-----------------------------------------------------------------------------

FixedInit ==
    /\ lhs \in fxr /\ rhs \in fxr /\ lhs_im \in Imaginary /\ rhs_im \in Imaginary
    /\ fxop = "none" /\ res = <<>>

Apply(name, r) ==
    /\ fxop = "none"
    /\ fxop' = name /\ res' = r
    /\ UNCHANGED <<lhs, lhs_im, rhs, rhs_im>>

Real == lhs_im = 0 /\ rhs_im = 0

Multiply == Real /\ Apply("mul", <<fxr_mul(lhs, rhs)>>)
Square == Real /\ rhs = 0 /\ Apply("sqr", <<fxr_sqr(lhs)>>)
Divide == Real /\ rhs # 0 /\ Apply("div", <<fxr_div(lhs, rhs)>>)
Shrink == Real /\ rhs \in 1 .. H /\ Apply("div2e", <<fxr_div2e(lhs, rhs), fxr_round(lhs)>>)
Product == Apply("complex", fxc_mul(lhs, lhs_im, rhs, rhs_im))

FixedNext == Multiply \/ Square \/ Divide \/ Shrink \/ Product

FixedSpec == FixedInit /\ [][FixedNext]_fixedVars

-----------------------------------------------------------------------------
(* Properties.                                                             *)

Max == Pow2[2 * H - 1]
Representable(v) == -Max <= v /\ v < Max
Positive(v) == IF v < 0 THEN -v ELSE v

\* A product of signed numbers is the exact one rounded down, and a square is
\* that of the absolute value.
ProductRounded ==
    /\ fxop = "mul" => res[1] = Wrap((Signed(lhs) * Signed(rhs)) \div One)
    /\ fxop = "sqr" => res[1] = Wrap((Signed(lhs) * Signed(lhs)) \div One)

\* A quotient that fits is the nearest number, and away from zero of two; so is
\* a number divided by 2^e, and upward of two.
QuotientRounded ==
    /\ fxop = "div" =>
           LET num == Positive(Signed(lhs)) * One
               den == Positive(Signed(rhs))
               q == ((2 * num) + den) \div (2 * den)
           IN  q < Max => Signed(res[1]) = IF Sign(lhs) = Sign(rhs) THEN q ELSE -q
    /\ fxop = "div2e" =>
           /\ Representable(Signed(lhs) + (Pow2[rhs] \div 2)) =>
                  Signed(res[1]) = (2 * Signed(lhs) + Pow2[rhs]) \div (2 * Pow2[rhs])
           /\ Representable(Signed(lhs) + Pow2[H - 1]) =>
                  res[2] = (2 * Signed(lhs) + One) \div (2 * One)

\* The word w is off from v by less than d units, unless v is at the end of the
\* range.
Near(w, v, d) ==
    Representable((v \div One) - d) /\ Representable((v \div One) + d) => Positive(Signed(w) * One - v) < d * One

\* The real part of a complex product is off by less than one unit, and the
\* imaginary part, which the code says may differ from a sum of two products,
\* by less than two, if the sums of the parts do not overflow.
ComplexClose ==
    fxop = "complex" =>
        LET a == Signed(lhs)  ai == Signed(lhs_im)  b == Signed(rhs)  bi == Signed(rhs_im)
        IN  /\ Near(res[1], a * b - ai * bi, 1)
            /\ Representable(a + ai) /\ Representable(b + bi) => Near(res[2], a * bi + ai * b, 2)

\* Fixed-point products are rounded down, quotients to nearest, and complex
\* products are close.
FixedRounded == ProductRounded /\ QuotientRounded /\ ComplexClose
=============================================================================
