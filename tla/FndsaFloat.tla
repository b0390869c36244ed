----------------------------- MODULE FndsaFloat -----------------------------
(***************************************************************************)
(* The floating-point numbers of the signer where the processor's own      *)
(* cannot be used: f64 as an integer word with sign, exponent and          *)
(* mantissa, and operations on it with integer arithmetic only.  Both      *)
(* builds must sign alike, so results must be rounded as IEEE 754 says.    *)
(*                                                                         *)
(* The program has P = 52 and E = 11; its constants are written here in    *)
(* terms of P and E.  A mask that is all ones or zero is a condition.      *)
(* There are no infinities and no subnormal numbers.                       *)
(*                                                                         *)
(* x, y    operands, as words                                              *)
(* op, z   the operation, and its result: a word, or an integer            *)
(***************************************************************************)
EXTENDS Integers

CONSTANTS
    P,          \* bits of a mantissa: 52
    E,          \* bits of an exponent: 11
    Operands,   \* words
    Counts      \* powers of 2 for f64_div2e

PAssumption == P \in Nat /\ P >= 2
EAssumption == E \in Nat /\ E >= 3

VARIABLES x, y, op, z

vars == <<x, y, op, z>>

-----------------------------------------------------------------------------
(* Words.                                                                  *)

Bits == 1 + E + P               \* 64
Bias == 2^(E - 1) - 1           \* 1023
b52 == 2^P
b63 == 2^(Bits - 1)

Word(v) == v % 2^Bits

Sign(v) == v \div b63
Exponent(v) == (v \div b52) % 2^E
Fraction(v) == v % b52
Mantissa(v) == Fraction(v) + b52
Abs(v) == v % b63

\* v / 2^k, with a sticky lowest bit.
Sticky(v, k) == IF v % 2^k = 0 \/ (v \div 2^k) % 2 = 1 THEN v \div 2^k ELSE (v \div 2^k) + 1

\* Variant: ties are rounded up.
RoundsUpTies(m) == m % 4 >= 2

\* Whether to round up: the last bit, the first one dropped and a sticky one.
RoundsUp(m) == m % 8 \in {3, 6, 7}

\* 2^(P+2) <= m < 2^(P+3), or m = 0 and e = -(Bias + P + 1).
f64_build(s, e, m) ==
    Word(s * b63 + (e + Bias + P + 1) * b52 + (m \div 4) + (IF RoundsUp(m) THEN 1 ELSE 0))

f64_build_z(s, e, m) == f64_build(s, IF m = 0 THEN -(Bias + P + 1) ELSE e, m)

\* Shifts left so that the highest bit is set.
lzcnt_nonzero(m) == CHOOSE c \in 0 .. Bits - 1 : 2^(Bits - 1 - c) <= m /\ m < 2^(Bits - c)

norm64(m, e) ==
    LET c == lzcnt_nonzero(IF m = 0 THEN 1 ELSE m) IN [m |-> m * 2^c, e |-> e - c]

\* From a whole word down to P + 3 bits.
Shrink(s, m, e) ==
    LET r == norm64(m, e) IN f64_build_z(s, r.e + E - 2, Sticky(r.m, E - 2))

f64_scaled(i, sc) == IF i < 0 THEN Shrink(1, -i, sc) ELSE Shrink(0, i, sc)

-----------------------------------------------------------------------------
(* To integers.                                                            *)

\* The mantissa at the top of a word, below the sign, and how far it has to be
\* shifted for the integer part.
Top(v) == Mantissa(v) * 2^(E - 1)
Shift(v) == Bias + Bits - 2 - Exponent(v)

Saturated(k) == IF k > Bits - 1 THEN Bits - 1 ELSE k

f64_rint(v) ==
    LET k == Saturated(Shift(v))
        m == IF Shift(v) >= Bits THEN 0 ELSE Top(v)
        n == (m \div 2^k) + (IF RoundsUp(Sticky(Word(m * 2^(Bits - 1 - k)), Bits - 3)) THEN 1 ELSE 0)
    IN  IF Sign(v) = 1 THEN -n ELSE n

f64_floor(v) == (IF Sign(v) = 1 THEN -Top(v) ELSE Top(v)) \div 2^Saturated(Shift(v))

f64_trunc(v) ==
    LET n == Top(v) \div 2^Saturated(Shift(v)) IN IF Sign(v) = 1 THEN -n ELSE n

\* x * 2^(Bits - 1), rounded down, for x below 1.
f64_mtwop63(v) == Top(v) \div 2^Saturated(Bias - 1 - Exponent(v))

-----------------------------------------------------------------------------
(* Arithmetic.                                                             *)

f64_neg(v) == Word(v + b63)

\* Whether the operands of an addition change places: the first one has the
\* larger absolute value, or the same and is positive.
Exchanged(v, w) == Abs(v) < Abs(w) \/ (Abs(v) = Abs(w) /\ Sign(v) = 1)

\* A mantissa with 3 more bits; zero for an exponent of zero.
Wide(v) == IF Exponent(v) = 0 THEN 8 * Fraction(v) ELSE 8 * Mantissa(v)

f64_add(v0, w0) ==
    LET swap == Exchanged(v0, w0)
        v == IF swap THEN w0 ELSE v0
        w == IF swap THEN v0 ELSE w0
        n == Exponent(v) - Exponent(w)
        wu == IF n >= P + 8 THEN 0 ELSE Sticky(Wide(w), n)
        zu == Word(IF Sign(v) = Sign(w) THEN Wide(v) + wu ELSE Wide(v) - wu)
    IN  Shrink(Sign(v), zu, Exponent(v) - (Bias + P + 3))

f64_sub(v, w) == f64_add(v, f64_neg(w))

\* P + 3 bits, from a number with one more.
Fit(m) == IF m < 2^(P + 3) THEN [m |-> m, es |-> 0] ELSE [m |-> Sticky(m, 1), es |-> 1]

f64_mul(v, w) ==
    LET r == Fit(Sticky(Mantissa(v) * Mantissa(w), P - 2))
        zero == Exponent(v) = 0 \/ Exponent(w) = 0
        s == (Sign(v) + Sign(w)) % 2
    IN  IF zero THEN f64_build(s, -(Bias + P + 1), 0)
        ELSE f64_build(s, Exponent(v) + Exponent(w) - 2 * (Bias + P) + (P - 2) + r.es, r.m)

\* P + 3 bits of the quotient, one by one, and a sticky bit.
f64_div(v, w) ==
    LET it[i \in 0 .. P + 3] ==
            IF i = 0 THEN [u |-> Mantissa(v), q |-> 0]
            ELSE LET s == it[i - 1]
                     b == s.u >= Mantissa(w)
                 IN  [u |-> 2 * (IF b THEN s.u - Mantissa(w) ELSE s.u),
                      q |-> 2 * (s.q + (IF b THEN 1 ELSE 0))]
        last == it[P + 3]
        r == Fit(last.q + (IF last.u = 0 THEN 0 ELSE 1))
        s == (Sign(v) + Sign(w)) % 2
    IN  IF Exponent(v) = 0 THEN f64_build(0, -(Bias + P + 1), 0)
        ELSE f64_build(s, Exponent(v) - Exponent(w) - (P + 3) + r.es, r.m)

f64_inv(v) == f64_div(Bias * b52, v)

\* The root bit by bit: r is the bit, s and q are sums of bits found.
f64_sqrt(v) ==
    LET e == Exponent(v) - Bias
        it[i \in 0 .. P + 2] ==
            IF i = 0 THEN [u |-> 2 * Mantissa(v) * (IF e % 2 = 1 THEN 2 ELSE 1), s |-> 0, q |-> 0]
            ELSE LET c == it[i - 1]
                     r == 2^(P + 2 - i)
                     b == c.u >= c.s + r
                 IN  [u |-> 2 * (IF b THEN c.u - (c.s + r) ELSE c.u),
                      s |-> IF b THEN c.s + 2 * r ELSE c.s,
                      q |-> IF b THEN c.q + r ELSE c.q]
        last == it[P + 2]
        q == 2 * last.q + (IF last.u = 0 THEN 0 ELSE 1)
    IN  f64_build_z(0, (e \div 2) - (P + 2), IF Exponent(v) = 0 THEN 0 ELSE q)

\* The exponent field less one; the borrow of a zero flips the sign and is
\* undone.
f64_half(v) ==
    LET w == Word(v - b52) IN IF Sign(v) # Sign(w) THEN Word(w + b52) ELSE w

f64_double(v) == IF Exponent(v) = 0 THEN v ELSE Word(v + b52)

f64_div2e(v, k) ==
    LET w == Word(v - k * b52) IN IF Sign(v) # Sign(w) THEN Word(w + k * b52) ELSE w

\* Multiplies by 2^(Bits - 1).
f64_mul2e(v) == IF Exponent(v) = 0 THEN v ELSE Word(v + (Bits - 1) * b52)

-----------------------------------------------------------------------------
(* One operation on two operands.                                          *)

Init == x \in Operands /\ y \in Operands /\ op = "none" /\ z = 0

Apply(name, r) ==
    /\ op = "none"
    /\ op' = name /\ z' = r
    /\ UNCHANGED <<x, y>>

Add == Apply("add", f64_add(x, y))
Subtract == Apply("sub", f64_sub(x, y))
Multiply == Apply("mul", f64_mul(x, y))
Divide == Exponent(y) # 0 /\ Apply("div", f64_div(x, y))

\* Operations on x alone; f64_scaled takes the word as an integer with a sign.
Single == Abs(y) = 0 /\ Sign(y) = 0

Root == Single /\ (Sign(x) = 0 \/ Exponent(x) = 0) /\ Apply("sqrt", f64_sqrt(x))
Invert == Single /\ Exponent(x) # 0 /\ Apply("inv", f64_inv(x))
Scale == Single /\ Apply("scaled", f64_scaled(IF Sign(x) = 1 THEN -Abs(x) ELSE Abs(x), -P))
Rint == Single /\ Shift(x) >= 0 /\ Apply("rint", f64_rint(x))
Floor == Single /\ Shift(x) >= 0 /\ Apply("floor", f64_floor(x))
Trunc == Single /\ Shift(x) >= 0 /\ Apply("trunc", f64_trunc(x))
Mtwop63 == Single /\ Sign(x) = 0 /\ Exponent(x) < Bias /\ Apply("mtwop63", f64_mtwop63(x))
Halve == Single /\ Exponent(x) # 1 /\ Apply("half", f64_half(x))
Double == Single /\ Apply("double", f64_double(x))

Next ==
    \/ Add \/ Subtract \/ Multiply \/ Divide \/ Root \/ Invert \/ Scale
    \/ Rint \/ Floor \/ Trunc \/ Mtwop63 \/ Halve \/ Double

Spec == Init /\ [][Next]_vars

-----------------------------------------------------------------------------
(* Properties.                                                             *)

\* v^s is the number nearest to N / D * 2^e, and an even one of two: between
\* the midpoints to its neighbours, in quarters of its last bit.
Nearest(v, N, D, e, s) ==
    LET k == s * (Exponent(v) - Bias - P) - e
        M == Mantissa(v)
        Mid(c) == D * c^s * 2^(IF k > 0 THEN k ELSE 0)
        T == N * 4^s * 2^(IF k < 0 THEN -k ELSE 0)
        lo == Mid(4 * M - (IF Fraction(v) = 0 THEN 1 ELSE 2))
        hi == Mid(4 * M + 2)
    IN  /\ -16 <= k /\ k <= 16
        /\ lo < T \/ (lo = T /\ M % 2 = 0)
        /\ T < hi \/ (T = hi /\ M % 2 = 0)

Zero(v) == Exponent(v) = 0
Unbiased(v) == Exponent(v) - Bias - P
Signed(v) == IF Zero(v) THEN 0 ELSE IF Sign(v) = 1 THEN -Mantissa(v) ELSE Mantissa(v)
Positive(i) == IF i < 0 THEN -i ELSE i

\* The sum as an integer, in units of the lower exponent.
Lower(v, w) ==
    IF Zero(v) THEN Unbiased(w) ELSE IF Zero(w) \/ Unbiased(v) < Unbiased(w) THEN Unbiased(v)
    ELSE Unbiased(w)
InUnits(v, e) == IF Zero(v) THEN 0 ELSE Signed(v) * 2^(Unbiased(v) - e)

SumRounded(v, w, r) ==
    LET e == Lower(v, w)
        s == InUnits(v, e) + InUnits(w, e)
    IN  /\ s = 0 <=> Zero(r)
        /\ s # 0 => Nearest(r, Positive(s), 1, e, 1) /\ (Sign(r) = 1 <=> s < 0)

\* A sum, product, quotient, root or conversion is the exact result rounded to
\* the nearest number, ties to even, for all operands: the few extra bits and
\* the sticky one are enough.  Products that are zero have the sign of IEEE 754;
\* a quotient that is zero is positive, which it is not there.
ArithmeticRounded ==
    /\ op = "add" => SumRounded(x, y, z)
    /\ op = "sub" => SumRounded(x, f64_neg(y), z)
    /\ op = "mul" => /\ Sign(z) = (Sign(x) + Sign(y)) % 2
                     /\ IF Zero(x) \/ Zero(y) THEN Abs(z) = 0
                        ELSE Nearest(z, Mantissa(x) * Mantissa(y), 1, Unbiased(x) + Unbiased(y), 1)
    /\ op = "div" => IF Zero(x) THEN z = 0
                     ELSE /\ Nearest(z, Mantissa(x), Mantissa(y), Unbiased(x) - Unbiased(y), 1)
                          /\ Sign(z) = (Sign(x) + Sign(y)) % 2
    /\ op = "inv" => Nearest(z, 1, Mantissa(x), -Unbiased(x), 1) /\ Sign(z) = Sign(x)
    /\ op = "sqrt" => IF Zero(x) THEN z = 0
                      ELSE Nearest(z, Mantissa(x), 1, Unbiased(x), 2) /\ Sign(z) = 0
    /\ op = "scaled" => IF Abs(x) = 0 THEN Abs(z) = 0
                        ELSE Nearest(z, Abs(x), 1, -P, 1) /\ Sign(z) = Sign(x)

\* A sum that is zero has a sign that does not depend on the order of the
\* operands: it is positive unless both are negative zeros.
ZeroSums == op = "add" /\ Abs(z) = 0 => (Sign(z) = 1 <=> Sign(x) = 1 /\ Sign(y) = 1)

\* 2 * v - i2, in units of the last bit of v where that is below 1.
Minus(v, i2) ==
    LET k == Unbiased(v)
    IN  IF Zero(v) THEN -i2
        ELSE IF k >= 0 THEN 2 * Signed(v) * 2^k - i2 ELSE 2 * Signed(v) - i2 * 2^(-k)

\* Integers are rounded to nearest, down or toward zero; only floor takes a
\* negative zero, and that for -1, which the code says it does.
IntegersRounded ==
    /\ op = "rint" => /\ Minus(x, 2 * z - 1) >= 0 /\ Minus(x, 2 * z + 1) <= 0
                      /\ Minus(x, 2 * z - 1) = 0 \/ Minus(x, 2 * z + 1) = 0 => z % 2 = 0
    /\ op = "floor" => IF Abs(x) = 0 /\ Sign(x) = 1 THEN z = -1
                       ELSE Minus(x, 2 * z) >= 0 /\ Minus(x, 2 * z + 2) < 0
    /\ op = "trunc" => IF Sign(x) = 0 THEN Minus(x, 2 * z) >= 0 /\ Minus(x, 2 * z + 2) < 0
                       ELSE Minus(x, 2 * z) <= 0 /\ Minus(x, 2 * z - 2) > 0
    /\ op = "mtwop63" => z = IF Zero(x) THEN 0
                             ELSE LET k == Unbiased(x) + Bits - 1
                                  IN  IF k >= 0 THEN Mantissa(x) * 2^k ELSE Mantissa(x) \div 2^(-k)

\* Halving is exact and doubling undoes it, for zeros too; dividing by a power
\* of 2 is halving as many times, and f64_mul2e is undone by dividing.
PowersExact ==
    op = "half" =>
        /\ f64_double(z) = x
        /\ IF Zero(x) THEN z = x ELSE z = Word(x - b52)
        /\ \A k \in Counts : Exponent(x) > k + 1 \/ Zero(x) => f64_div2e(z, k) = f64_div2e(x, k + 1)
        /\ Exponent(x) + Bits - 1 < 2^E => f64_div2e(f64_mul2e(x), Bits - 1) = x
=============================================================================
