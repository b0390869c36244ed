---------------------------- MODULE FndsaBezout -----------------------------
(***************************************************************************)
(* zint_bezout: u and v with x * u - y * v = 1 for odd big integers x and  *)
(* y, by a binary GCD that works on approximations of a and b and applies  *)
(* what it finds to the full integers once for every limb.                 *)
(*                                                                         *)
(* An integer is a function from 0 .. len - 1 to limbs of W bits, held in  *)
(* words of W + 1 bits; products take a word of 2 * W + 2 bits.  The       *)
(* program has W = 31.  A mask that is all ones or zero is a condition.    *)
(*                                                                         *)
(* x, y      the operands                                                  *)
(* a, b      the numbers being reduced                                     *)
(* u0,v0,u1,v1  coefficients: a = x*u0 - y*v0, b = x*u1 - y*v1             *)
(* num       bits still to be taken off                                    *)
(* ok        what was returned                                             *)
(* pc        "loop" or "done"                                              *)
(***************************************************************************)
EXTENDS Integers

CONSTANTS
    W,          \* bits in a limb: 31
    len,        \* limbs of an integer
    Xs, Ys      \* values of the operands

VARIABLES x, y, a, b, u0, v0, u1, v1, num, ok, pc

vars == <<x, y, a, b, u0, v0, u1, v1, num, ok, pc>>

-----------------------------------------------------------------------------
(* Words, limbs and integers.                                              *)

Limb(z) == z % 2^W
Word(z) == z % 2^(W + 1)
Word2(z) == z % 2^(2 * W + 2)
Signed2(z) == ((z + 2^(2 * W + 1)) % 2^(2 * W + 2)) - 2^(2 * W + 1)

Index == 0 .. len - 1

Value(z) == LET s[i \in 0 .. len] == IF i = 0 THEN 0 ELSE s[i - 1] + z[i - 1] * 2^(W * (i - 1))
            IN  s[len]

Limbs(v) == [i \in Index |-> (v \div 2^(W * i)) % 2^W]

\* -z, limb by limb with a carry.
zint_negate(z) ==
    LET c[i \in 0 .. len] == IF i = 0 THEN 1 ELSE (2^W - 1 - z[i - 1] + c[i - 1]) \div 2^W
    IN  [i \in Index |-> Limb(2^W - 1 - z[i] + c[i])]

\* The carries of f * z + g * w + h * m, in signed double words, and its limbs
\* from the second on: the first is dropped.
Carries(z, w, m, f, g, h) ==
    LET c[i \in 0 .. len] ==
            IF i = 0 THEN 0
            ELSE Signed2(z[i - 1] * f + w[i - 1] * g + m[i - 1] * h + c[i - 1]) \div 2^W
    IN  c

Shifted(z, w, m, f, g, h) ==
    LET c == Carries(z, w, m, f, g, h)
    IN  [i \in 0 .. len - 2 |->
            Limb(z[i + 1] * f + w[i + 1] * g + m[i + 1] * h + c[i + 1])]

Zero == [i \in Index |-> 0]

\* Variant: the sign of the result is dropped.
zint_co_reduceUnsigned(z, w, f, g) ==
    LET top == Carries(z, w, Zero, f, g, 0)[len]
        low == Shifted(z, w, Zero, f, g, 0)
    IN  [neg |-> FALSE, z |-> [i \in Index |-> IF i < len - 1 THEN low[i] ELSE Limb(top)]]

\* |f * z + g * w| / 2^W, and whether it was negative.
zint_co_reduce(z, w, f, g) ==
    LET top == Carries(z, w, Zero, f, g, 0)[len]
        low == Shifted(z, w, Zero, f, g, 0)
        r == [i \in Index |-> IF i < len - 1 THEN low[i] ELSE Limb(top)]
    IN  [neg |-> top < 0, z |-> IF top < 0 THEN zint_negate(r) ELSE r]

\* z - m if that is not negative, z + m if z is.
zint_finish_mod(z, m, neg) ==
    LET cmp[i \in 0 .. len] == IF i = 0 THEN 0 ELSE Word(z[i - 1] - m[i - 1] - cmp[i - 1]) \div 2^W
        mw(i) == IF neg THEN 2^W - 1 - m[i] ELSE IF cmp[len] = 0 THEN m[i] ELSE 0
        c[i \in 0 .. len] ==
            IF i = 0 THEN (IF neg THEN 1 ELSE 0)
            ELSE Word(z[i - 1] - mw(i - 1) - c[i - 1]) \div 2^W
    IN  [i \in Index |-> Limb(z[i] - mw(i) - c[i])]

\* (f * z + g * w) / 2^W modulo m, where m0i = -1/m[0] modulo 2^W.  The top
\* limb is a whole word before the last reduction.
zint_co_reduce_mod(z, w, m, m0i, f, g) ==
    LET h == Limb(Word(z[0] * Word(f) + w[0] * Word(g)) * m0i)
        top == Carries(z, w, m, f, g, h)[len]
        low == Shifted(z, w, m, f, g, h)
    IN  zint_finish_mod([i \in Index |-> IF i < len - 1 THEN low[i] ELSE Word(top)], m, top < 0)

\* Newton's iteration doubles the bits that are right.
mp_ninv31(v) ==
    LET Improve(r) == Word(r * Word(2 - v * r))
    IN  Limb(-Improve(Improve(Improve(Improve(Word(2 - v))))))

-----------------------------------------------------------------------------
(* One iteration.                                                          *)

\* The highest limb in use.
TopLimb == CHOOSE t \in Index : /\ a[t] # 0 \/ b[t] # 0
                                /\ \A j \in Index : j > t => a[j] = 0 /\ b[j] = 0

\* Leading zeros of a word.
lzcnt(z) == CHOOSE s \in 0 .. W + 1 : z < 2^(W + 1 - s) /\ (s = W + 1 \/ z >= 2^(W - s))

\* The top W + 1 bits and the low W bits of z; z itself if it is short.
Approximate(z) ==
    LET t == TopLimb
        s == lzcnt(IF a[t] < b[t] THEN b[t] ELSE a[t])     \* a[t] | b[t]
        high == CASE t = 0 -> 0
                  [] t = 1 -> z[1]
                  [] OTHER -> Word(z[t] * 2^s) + (z[t - 1] \div 2^(W - s))
    IN  high * 2^W + z[0]

\* A step of the inner loop; fg0 and fg1 hold two coefficients each.
InnerStep(s) ==
    LET odd == s.xa % 2 = 1
        swap == odd /\ Signed2(s.xa - s.xb) < 0
        t == IF swap THEN [xa |-> s.xb, xb |-> s.xa, fg0 |-> s.fg1, fg1 |-> s.fg0] ELSE s
    IN  [xa |-> Word2(t.xa - (IF odd THEN t.xb ELSE 0)) \div 2, xb |-> t.xb,
         fg0 |-> Word2(t.fg0 - (IF odd THEN t.fg1 ELSE 0)), fg1 |-> Word2(2 * t.fg1)]

\* The coefficients after W steps.
Factors ==
    LET it[i \in 0 .. W] ==
            IF i = 0 THEN {[xa |-> Approximate(a), xb |-> Approximate(b),
                            fg0 |-> 1, fg1 |-> 2^(W + 1)]}
            ELSE {InnerStep(s) : s \in it[i - 1]}
        bias == 2^W - 1
        Low(v) == Word(Word2(v + bias + bias * 2^(W + 1))) - bias
        High(v) == (Word2(v + bias + bias * 2^(W + 1)) \div 2^(W + 1)) - bias
    IN  {[f0 |-> Low(s.fg0), g0 |-> High(s.fg0), f1 |-> Low(s.fg1), g1 |-> High(s.fg1)] : s \in it[W]}

Neg(c, neg) == IF neg THEN -c ELSE c

Init ==
    /\ \E v \in Xs : x = Limbs(v)
    /\ \E v \in Ys : y = Limbs(v)
    /\ a = x /\ b = y
    /\ u0 = Limbs(1) /\ v0 = Zero
    /\ u1 = y /\ v1 = [x EXCEPT ![0] = @ - 1]
    /\ num = 2 * W * len + W
    /\ ok = FALSE /\ pc = "loop"

Iterate ==
    /\ pc = "loop" /\ num >= W
    /\ \E c \in Factors :
         LET ra == zint_co_reduce(a, b, c.f0, c.g0)
             rb == zint_co_reduce(a, b, c.f1, c.g1)
             f0 == Neg(c.f0, ra.neg)
             g0 == Neg(c.g0, ra.neg)
             f1 == Neg(c.f1, rb.neg)
             g1 == Neg(c.g1, rb.neg)
         IN  /\ a' = ra.z /\ b' = rb.z
             /\ u0' = zint_co_reduce_mod(u0, u1, y, mp_ninv31(y[0]), f0, g0)
             /\ u1' = zint_co_reduce_mod(u0, u1, y, mp_ninv31(y[0]), f1, g1)
             /\ v0' = zint_co_reduce_mod(v0, v1, x, mp_ninv31(x[0]), f0, g0)
             /\ v1' = zint_co_reduce_mod(v0, v1, x, mp_ninv31(x[0]), f1, g1)
    /\ num' = num - W
    /\ UNCHANGED <<x, y, ok, pc>>

\* b is the GCD.
Finish ==
    /\ pc = "loop" /\ num < W
    /\ ok' = (b = Limbs(1) /\ x[0] % 2 = 1 /\ y[0] % 2 = 1)
    /\ pc' = "done"
    /\ UNCHANGED <<x, y, a, b, u0, v0, u1, v1, num>>

Next == Iterate \/ Finish

Spec == Init /\ [][Next]_vars

-----------------------------------------------------------------------------
(* Properties.                                                             *)

Odd(z) == z[0] % 2 = 1

Divides(d, v) == v % d = 0
Coprime(v, w) == \A d \in 2 .. v : ~(Divides(d, v) /\ Divides(d, w))

\* a and b stay combinations of x and y, modulo y and modulo x, with the
\* coefficients in their ranges: what the full integers and the modular
\* coefficients are multiplied with, and divided by, stays the same although
\* the factors come from approximations and signs are dropped.
Combinations ==
    Odd(x) /\ Odd(y) =>
        /\ Divides(Value(y), Value(x) * Value(u0) - Value(a))
        /\ Divides(Value(y), Value(x) * Value(u1) - Value(b))
        /\ Divides(Value(x), Value(y) * Value(v0) + Value(a))
        /\ Divides(Value(x), Value(y) * Value(v1) + Value(b))
        /\ Value(u0) <= Value(y) /\ Value(u1) <= Value(y)
        /\ Value(v0) < Value(x) /\ Value(v1) < Value(x)

\* Success is reported exactly for odd and coprime operands, so the number of
\* iterations is enough, and then u and v are what was promised.
BezoutResult ==
    pc = "done" =>
        /\ ok <=> Odd(x) /\ Odd(y) /\ Coprime(Value(x), Value(y))
        /\ ok => /\ Value(x) * Value(u1) - Value(y) * Value(v1) = 1
                 /\ Value(u1) <= Value(y) /\ Value(v1) <= Value(x)

\* Every iteration takes W bits off the two numbers, until a is zero.
Shrinks == Odd(x) /\ Odd(y) /\ Value(a) # 0 =>
               Value(a) * Value(b) < 2^num
=============================================================================
