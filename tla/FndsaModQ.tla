----------------------------- MODULE FndsaModQ ------------------------------
(***************************************************************************)
(* Polynomials modulo X^n + 1 and modulo q: the word arithmetic with its   *)
(* masks and Montgomery reductions, the three representations, and the     *)
(* number theoretic transform.  A behaviour is one computation on chosen   *)
(* polynomials: the product s2 * h of a verification, or the quotient      *)
(* h = g / f and the product h * F of a key; its parts are the program's   *)
(* calls in their order.                                                   *)
(*                                                                         *)
(* The program has words of 2 * 16 bits, q = 12289 and n up to 1024.       *)
(* The values 1 .. q of the "int" representation stand for 0 .. q - 1 with *)
(* q for zero.                                                             *)
(*                                                                         *)
(* op     the computation                                                  *)
(* x,y,z  its operands: h, s2 and c of a verification; g, f and F of a key *)
(* t0,t1  the two buffers of n words                                       *)
(* ok     what the division, or the conversion to a small polynomial, said *)
(* small  the small polynomial of that conversion                          *)
(* step   the call that comes next                                         *)
(***************************************************************************)
EXTENDS Integers, Bitwise

CONSTANTS
    H,          \* bits in half a word: 16
    q,          \* the modulus: 12289
    LogN,       \* logarithm of the degree
    G,          \* a root of X^(2^MaxLogN) + 1 modulo q
    MaxLogN,    \* logarithm of the largest degree, and of the tables' length
    Polys,      \* operands: the first two, and the third
    Thirds,
    Bits        \* a small polynomial has absolute values below 2^(Bits-1)

VARIABLES op, x, y, z, t0, t1, ok, small, step

modqVars == <<op, x, y, z, t0, t1, ok, small, step>>

-----------------------------------------------------------------------------
(* Words.                                                                  *)

W == 2 * H
Wrap(a) == a % 2^W
High(a) == Wrap(a) \div 2^H        \* a >> 16

Inv(a, mod) == CHOOSE b \in 0 .. mod - 1 : (a * b) % mod = 1
Pow(a, e) == LET p[k \in 0 .. e] == IF k = 0 THEN 1 ELSE (p[k - 1] * a) % q
             IN  p[e]

q1i == 2^W - Inv(q, 2^W)
r2 == ((2^W % q) * (2^W % q)) % q

mq_add(a, b) == LET c == q - (a + b) IN q - Wrap(c + (q & High(c)))

mq_sub(a, b) == LET c == b - a IN q - Wrap(c + (q & High(c)))

\* Variant: an odd value is halved by dropping its low bit.
mq_halfEven(a) == a \div 2

mq_half(a) == Wrap(a + (IF a % 2 = 1 THEN q ELSE 0)) \div 2

mq_mred(a) == Wrap((Wrap(a * q1i) \div 2^H) * q) \div 2^H + 1

mq_mmul(a, b) == mq_mred(Wrap(a * b))

\* y^(q-2) in Montgomery representation; the program has an addition chain.
mq_div(a, b) ==
    LET m == mq_mmul(b, r2)
        p[k \in 1 .. q - 2] == IF k = 1 THEN m ELSE mq_mmul(p[k - 1], m)
    IN  mq_mmul(a, p[q - 2])

-----------------------------------------------------------------------------
(* Polynomials, indexed from 0 as in the program.                          *)

n == 2^LogN
Index == 0 .. n - 1

\* Bit reversal over MaxLogN bits.
Rev(i) == LET r[k \in 0 .. MaxLogN] ==
                IF k = 0 THEN 0 ELSE 2 * r[k - 1] + ((i \div 2^(k - 1)) % 2)
          IN  r[MaxLogN]

\* The value in 1 .. q of a residue.
Int1(a) == IF a % q = 0 THEN q ELSE a % q

mqgm == [i \in 0 .. 2^MaxLogN - 1 |-> Int1(Pow(G, Rev(i)) * (2^W % q))]
mqigm == [i \in 0 .. 2^MaxLogN - 1 |->
             Int1(Pow(Inv(G, q), Rev(i)) * (2^(W - 1) % q))]

\* mqpoly_small_to_int and mqpoly_signed_to_int.
mqpoly_signed_to_int(f) ==
    [i \in Index |-> LET a == Wrap(-f[i]) IN q - Wrap(a + (q & High(a)))]

\* x + 128 must leave no bit above the low 8.
mqpoly_int_to_small(d) ==
    LET a == [i \in Index |-> mq_add(d[i], 2^(Bits - 1))]
    IN  [ok |-> \A i \in Index : a[i] \div 2^Bits = 0,
         f  |-> [i \in Index |-> a[i] - 2^(Bits - 1)]]

mqpoly_ext_to_int(a) == [i \in Index |-> Wrap(a[i] + (q & High(a[i] - 1)))]

mqpoly_int_to_ext(a) ==
    [i \in Index |-> LET c == Wrap(a[i] - q) IN Wrap(c + (q & High(c)))]

\* The butterflies of one level lm: blocks of t, m of them.
NttLevel(a, lm) ==
    LET t == 2^(LogN - lm)
        ht == t \div 2
        s(j) == mqgm[2^lm + j \div t]
    IN  [j \in Index |->
            IF j % t < ht THEN mq_add(a[j], mq_mmul(a[j + ht], s(j)))
                          ELSE mq_sub(a[j - ht], mq_mmul(a[j], s(j)))]

mqpoly_int_to_ntt(a) ==
    LET lev[lm \in 0 .. LogN] == IF lm = 0 THEN a ELSE NttLevel(lev[lm - 1], lm - 1)
    IN  lev[LogN]

\* One level of the inverse, with its halving.
InvLevel(a, lm) ==
    LET t == 2^lm
        s(j) == mqigm[2^(LogN - 1 - lm) + j \div (2 * t)]
    IN  [j \in Index |->
            IF j % (2 * t) < t THEN mq_half(mq_add(a[j], a[j + t]))
                               ELSE mq_mmul(mq_sub(a[j - t], a[j]), s(j))]

mqpoly_ntt_to_int(a) ==
    LET lev[lm \in 0 .. LogN] == IF lm = 0 THEN a ELSE InvLevel(lev[lm - 1], lm - 1)
    IN  lev[LogN]

mqpoly_mul_ntt(a, b) == [i \in Index |-> mq_mmul(mq_mmul(a[i], b[i]), r2)]

\* The top bit of every b[i] - q: b[i] is not the representation of zero.
\* mqpoly_is_invertible makes the same test.
AllNonzero(b) == \A i \in Index : Wrap(b[i] - q) \div 2^(W - 1) = 1

mqpoly_div_ntt(a, b) == [i \in Index |-> mq_div(a[i], b[i])]

mqpoly_sub_int(a, b) == [i \in Index |-> mq_sub(a[i], b[i])]

-----------------------------------------------------------------------------
Zero == [i \in Index |-> 0]

ModQInit ==
    /\ op \in {"verify", "key"}
    /\ x \in Polys /\ y \in Polys /\ z \in Thirds
    /\ t0 = Zero /\ t1 = Zero /\ small = Zero /\ ok = TRUE
    /\ step = "convert"

Goto(l) == step' = l /\ UNCHANGED <<op, x, y, z>>

\* verify_inner: h in t1 from "ext", s2 in t2; the key: g in t0, f in t1.
Convert ==
    /\ step = "convert"
    /\ t0' = IF op = "verify" THEN mqpoly_ext_to_int([i \in Index |-> x[i] % q])
                              ELSE mqpoly_signed_to_int(x)
    /\ t1' = mqpoly_signed_to_int(y)
    /\ Goto("transform") /\ UNCHANGED <<ok, small>>

Transform ==
    /\ step = "transform"
    /\ t0' = mqpoly_int_to_ntt(t0)
    /\ t1' = mqpoly_int_to_ntt(t1)
    /\ Goto(op) /\ UNCHANGED <<ok, small>>

\* t1 <- s2 * h, and s1 = c - s2 * h.
Multiply ==
    /\ step = "verify"
    /\ t0' = mqpoly_ntt_to_int(mqpoly_mul_ntt(t0, t1))
    /\ t1' = mqpoly_sub_int(mqpoly_ext_to_int([i \in Index |-> z[i] % q]), t0')
    /\ Goto("done") /\ UNCHANGED <<ok, small>>

\* t0 <- h = g / f; refused when f is not invertible.
Divide ==
    /\ step = "key"
    /\ \/ /\ ~AllNonzero(t1)
          /\ ok' = FALSE /\ Goto("done") /\ UNCHANGED <<t0, t1, small>>
       \/ /\ AllNonzero(t1)
          /\ t0' = mqpoly_div_ntt(t0, t1)
          /\ Goto("recompute") /\ UNCHANGED <<t1, ok, small>>

\* t1 <- G = h * F, to be small; then h in "ext".
Recompute ==
    /\ step = "recompute"
    /\ t1' = mqpoly_ntt_to_int(
                 mqpoly_mul_ntt(mqpoly_int_to_ntt(mqpoly_signed_to_int(z)), t0))
    /\ LET r == mqpoly_int_to_small(t1')
       IN  ok' = r.ok /\ small' = r.f
    /\ t0' = mqpoly_int_to_ext(mqpoly_ntt_to_int(t0))
    /\ Goto("done")

ModQNext == Convert \/ Transform \/ Multiply \/ Divide \/ Recompute

ModQSpec == ModQInit /\ [][ModQNext]_modqVars

-----------------------------------------------------------------------------
(* Properties.                                                             *)

\* Reference: the product modulo X^n + 1 and q, in 0 .. q - 1.
Product(a, b) ==
    LET Term(i, j) == LET k == i - j IN IF k >= 0 THEN a[k] * b[j] ELSE -(a[k + n] * b[j])
        Sum(i) == LET p[j \in -1 .. n - 1] == IF j = -1 THEN 0 ELSE p[j - 1] + Term(i, j)
                  IN  p[n - 1]
    IN  [i \in Index |-> Sum(i) % q]

\* X^n + 1 splits modulo q, so a polynomial is invertible unless it shares a
\* root with X^n + 1.
HasRoot(a) ==
    \E r \in 1 .. q - 1 :
        /\ Pow(r, n) = q - 1
        /\ LET v[j \in -1 .. n - 1] == IF j = -1 THEN 0 ELSE (v[j - 1] + a[j] * Pow(r, j)) % q
           IN  v[n - 1] = 0

Residues(a) == [i \in Index |-> a[i] % q]

\* A verification computes c - s2 * h modulo X^n + 1 and q.
VerifyComputesS1 ==
    op = "verify" /\ step = "done" =>
        /\ Residues(t0) = Product(x, y)
        /\ Residues(t1) = [i \in Index |-> (z[i] - t0[i]) % q]

\* The h and G the signer recomputes satisfy h * f = g and G = h * F, and h is
\* normalised; a key is refused only when f is not invertible or G is out of
\* range, which is -127 to 127: -128 is refused though it fits the 8 bits.
KeyIsRecomputed ==
    LET InRange(r) == r < 2^(Bits - 1) \/ r > q - 2^(Bits - 1)
    IN  op = "key" /\ step = "done" =>
            \/ /\ Product(t0, y) = Residues(x) /\ Residues(t0) = t0
               /\ ok <=> \A i \in Index : InRange(Product(t0, z)[i])
               /\ ok => Residues(small) = Product(t0, z)
            \/ ~ok /\ HasRoot(y)
=============================================================================
