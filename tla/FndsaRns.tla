------------------------------ MODULE FndsaRns ------------------------------
(***************************************************************************)
(* Integers and polynomials of the key generator at the level of words:    *)
(* arithmetic modulo primes in Montgomery representation, the NTT, big     *)
(* integers as limbs or as residues modulo several primes (RNS), and the   *)
(* three ways of computing F - 2^sc * k * f that solve_NTRU chooses from.  *)
(* FndsaNtru takes all of this for exact; here it is computed.             *)
(*                                                                         *)
(* A limb has W bits and is held in a word of W + 1; the program has       *)
(* W = 31.  A big integer is a sequence of limbs, lowest first, in two's   *)
(* complement.  A polynomial is a function on 0 .. n - 1.  A mask that is  *)
(* all ones or zero is a condition.  The code treats g and G like f and F, *)
(* beside them; only f and F are kept here.                                *)
(*                                                                         *)
(* ft      the polynomial f of the top level, of degree 2^(logn + 1)       *)
(* F       the polynomial to be reduced, of degree 2^logn                  *)
(* k, sc   quotient and scale                                              *)
(* fn      the norm of ft: for each of two primes, residues in NTT         *)
(* f       the same with big integers as coefficients                      *)
(* op, r   the operation, and its result                                   *)
(***************************************************************************)
EXTENDS Integers, Sequences

CONSTANTS
    W,          \* bits of a limb: 31
    LogMax,     \* logarithm of the largest degree: 10
    Primes,     \* the moduli, in descending order
    logn,       \* logarithm of the degree
    TopPolys,   \* values of ft
    Targets,    \* values of F
    Quotients,  \* values of k
    Scales      \* values of sc

\* 2 * p < 2^(W + 1) < 3 * p, and there are roots of unity.
ASSUME PrimesAssumption ==
    \A i \in 1 .. Len(Primes) :
        /\ Primes[i] < 2^W /\ 3 * Primes[i] > 2^(W + 1)
        /\ Primes[i] % 2^(LogMax + 1) = 1

VARIABLES ft, F, k, sc, fn, f, op, r

rnsVars == <<ft, F, k, sc, fn, f, op, r>>

n == 2^logn
Index == 0 .. n - 1
slen == 2       \* primes, and limbs, for a coefficient of f

-----------------------------------------------------------------------------
(* Arithmetic modulo p.                                                    *)

R == 2^(W + 1)
Word(v) == v % R

\* The top bit of a word: a difference below zero.
Below(v) == v >= 2^W

mp_set(v, p) == Word(v + (IF v < 0 THEN p ELSE 0))
mp_norm(v, p) == IF Below(Word((p \div 2) - v)) THEN v - p ELSE v
mp_R(p) == Word(-2 * p)
mp_hR(p) == 2^W - p

Fold(d, p) == IF Below(d) THEN Word(d + p) ELSE d

mp_add(a, b, p) == Fold(Word(a + b - p), p)
mp_sub(a, b, p) == Fold(Word(a - b), p)
mp_half(a, p) == Word(a + (IF a % 2 = 1 THEN p ELSE 0)) \div 2

\* The table of primes: -1 / p modulo R, R^2 modulo p, a root of degree
\* 2^LogMax and its inverse, and the inverse of the product of the primes
\* before, the last three in Montgomery representation.
PrimeSet == {Primes[i] : i \in 1 .. Len(Primes)}
Mont(v, p) == (v * mp_R(p)) % p
Inverse(v, p) == CHOOSE u \in 1 .. p - 1 : (u * v) % p = 1
Power(v, e, p) == LET w[i \in 0 .. e] == IF i = 0 THEN 1 ELSE (w[i - 1] * v) % p IN w[e]
Root(p) == CHOOSE v \in 2 .. p - 1 : Power(v, 2^LogMax, p) = p - 1

p0i == [p \in PrimeSet |-> CHOOSE v \in 0 .. R - 1 : (v * p) % R = R - 1]
r2 == [p \in PrimeSet |-> (mp_R(p) * mp_R(p)) % p]
g == [p \in PrimeSet |-> Mont(Root(p), p)]
ig == [p \in PrimeSet |-> Mont(Inverse(Root(p), p), p)]
s == [i \in 2 .. Len(Primes) |->
        LET p == Primes[i]
            q[j \in 1 .. i] == IF j = 1 THEN 1 ELSE (q[j - 1] * Primes[j - 1]) % p
        IN  Mont(Inverse(q[i], p), p)]

\* Montgomery's product a * b / R.
mp_mmul(a, b, p) ==
    LET v == a * b
    IN  Fold(Word(((v + Word(Word(v) * p0i[p]) * p) \div R) - p), p)

\* 2^(W * e).
mp_Rx31(e, p) ==
    LET d[i \in 0 .. e] == IF i = 0 THEN 1 ELSE mp_mmul(d[i - 1], mp_half(r2[p], p), p)
    IN  d[e]

Squared(v, times, p) ==
    LET w[i \in 0 .. times] == IF i = 0 THEN v ELSE mp_mmul(w[i - 1], w[i - 1], p)
    IN  w[times]

\* Bit reversal.
Rev(i, l) ==
    LET w[b \in 0 .. l] == IF b = 0 THEN 0 ELSE 2 * w[b - 1] + ((i \div 2^(b - 1)) % 2)
    IN  w[l]

\* Powers of a root in reversed order, times a first value.
Powers(first, v, l, p) ==
    LET w[i \in 0 .. 2^l - 1] == IF i = 0 THEN first ELSE mp_mmul(w[i - 1], v, p)
    IN  [j \in 0 .. 2^l - 1 |-> w[Rev(j, l)]]

\* The inverse roots are halved.
mp_mkgm == [l \in 0 .. LogMax |-> [p \in PrimeSet |->
               Powers(mp_R(p), Squared(g[p], LogMax - l, p), l, p)]]
mp_mkigm == [l \in 0 .. LogMax |-> [p \in PrimeSet |->
               Powers(mp_hR(p), Squared(ig[p], LogMax - l, p), l, p)]]

NTTLevel(a, l, lm, p) ==
    LET ht == 2^(l - 1 - lm)
        Scaled(j, i) == mp_mmul(a[j], mp_mkgm[l][p][2^lm + (i \div (2 * ht))], p)
    IN  [j \in DOMAIN a |->
            IF j % (2 * ht) < ht THEN mp_add(a[j], Scaled(j + ht, j), p)
                                 ELSE mp_sub(a[j - ht], Scaled(j, j), p)]

mp_NTT(a, l, p) ==
    LET lev[i \in 0 .. l] == IF i = 0 THEN a ELSE NTTLevel(lev[i - 1], l, i - 1, p) IN lev[l]

iNTTLevel(a, l, lm, p) ==
    LET t == 2^lm
        Scale(i) == mp_mkigm[l][p][2^(l - 1 - lm) + (i \div (2 * t))]
    IN  [j \in DOMAIN a |->
            IF j % (2 * t) < t THEN mp_half(mp_add(a[j], a[j + t], p), p)
                               ELSE mp_mmul(mp_sub(a[j - t], a[j], p), Scale(j), p)]

mp_iNTT(a, l, p) ==
    LET lev[i \in 0 .. l] == IF i = 0 THEN a ELSE iNTTLevel(lev[i - 1], l, i - 1, p) IN lev[l]

-----------------------------------------------------------------------------
(* Big integers.                                                           *)

Limb(v) == v % 2^W
Negative(x) == x[Len(x)] >= 2^(W - 1)

\* A limb, or a word of W bits, with its sign.
Extended(w) == IF w >= 2^(W - 1) THEN w - 2^W ELSE w

\* d + s * a, one limb longer.
zint_add_mul_small(d, a, v) ==
    LET z[i \in 1 .. Len(a)] == a[i] * v + d[i] + (IF i = 1 THEN 0 ELSE z[i - 1] \div 2^W)
    IN  Append([i \in 1 .. Len(a) |-> Limb(z[i])], z[Len(a)] \div 2^W)

zint_mul_small(m, v) == zint_add_mul_small([i \in 1 .. Len(m) |-> 0], m, v)

\* From the highest limb down.
zint_mod_small_unsigned(d, p) ==
    LET x[i \in 1 .. Len(d) + 1] ==
            IF i = Len(d) + 1 THEN 0
            ELSE mp_add(mp_mmul(x[i + 1], mp_half(r2[p], p), p), Fold(Word(d[i] - p), p), p)
    IN  x[1]

zint_mod_small_signed(d, p) ==
    mp_sub(zint_mod_small_unsigned(d, p), IF Negative(d) THEN mp_Rx31(Len(d), p) ELSE 0, p)

\* Subtracts m from x if x > (m - 1) / 2.
zint_norm_zero(x, m) ==
    LET Half(i) == (m[i] \div 2) + (IF i < Len(m) THEN 2^(W - 1) * (m[i + 1] % 2) ELSE 0)
        greater == \E i \in 1 .. Len(x) :
                       x[i] > Half(i) /\ \A j \in i + 1 .. Len(x) : x[j] = Half(j)
        w[i \in 1 .. Len(x)] == x[i] - m[i] - (IF i > 1 /\ w[i - 1] < 0 THEN 1 ELSE 0)
    IN  IF greater THEN [i \in 1 .. Len(x) |-> Limb(w[i])] ELSE x

\* The integer with residues xx, one for each of the first primes; m is their
\* product.
zint_rebuild_CRT(xx) ==
    LET it[i \in 1 .. Len(xx)] ==
            IF i = 1 THEN [x |-> <<xx[1]>>, m |-> <<Primes[1]>>]
            ELSE LET b == it[i - 1]
                     p == Primes[i]
                     xr == mp_mmul(s[i], mp_sub(xx[i], zint_mod_small_unsigned(b.x, p), p), p)
                 IN  [x |-> zint_add_mul_small(b.x, b.m, xr), m |-> zint_mul_small(b.m, p)]
        last == it[Len(xx)]
    IN  zint_norm_zero(last.x, last.m)

\* The limbs of y * 2^scl, the i-th one; scl < W.
Shifted(y, scl, i) ==
    LET wy(j) == IF j = 0 THEN 0 ELSE IF j <= Len(y) THEN y[j]
                 ELSE IF Negative(y) THEN 2^W - 1 ELSE 0
    IN  Limb(wy(i) * 2^scl) + (wy(i - 1) \div 2^(W - scl))

\* Variant: carries are taken without their sign.
zint_add_scaled_mul_smallU(x, y, v, sch, scl) ==
    LET z[i \in 0 .. Len(x) - sch] ==
            IF i = 0 THEN 0
            ELSE Shifted(y, scl, i) * v + x[sch + i] + Limb(z[i - 1] \div 2^W)
    IN  [j \in 1 .. Len(x) |-> IF j <= sch THEN x[j] ELSE Limb(z[j - sch])]

\* x + v * y * 2^(W * sch + scl), with carries of either sign.
zint_add_scaled_mul_small(x, y, v, sch, scl) ==
    LET z[i \in 0 .. Len(x) - sch] ==
            IF i = 0 THEN 0
            ELSE Shifted(y, scl, i) * v + x[sch + i] + (z[i - 1] \div 2^W)
    IN  [j \in 1 .. Len(x) |-> IF j <= sch THEN x[j] ELSE Limb(z[j - sch])]

\* x - y * 2^(W * sch + scl), with a borrow.
zint_sub_scaled(x, y, sch, scl) ==
    LET w[i \in 0 .. Len(x) - sch] ==
            IF i = 0 THEN 0
            ELSE Word(x[sch + i] - Shifted(y, scl, i) - (w[i - 1] \div 2^W))
    IN  [j \in 1 .. Len(x) |-> IF j <= sch THEN x[j] ELSE Limb(w[j - sch])]

-----------------------------------------------------------------------------
(* F - 2^sc * k * f, three times.                                          *)

FLen == Len(F[0])

\* With limbs only; k[i] meets f[j] at i + j, and changes its sign beyond n.
poly_sub_scaled ==
    LET Sum(c) ==
            LET x[i \in 0 .. n] ==
                    IF i = 0 THEN F[c]
                    ELSE zint_add_scaled_mul_small(x[i - 1], f[(c - (i - 1)) % n],
                             IF i - 1 <= c THEN -k[i - 1] ELSE k[i - 1], sc \div W, sc % W)
            IN  x[n]
    IN  IF sc \div W >= FLen THEN F ELSE [c \in Index |-> Sum(c)]

\* f as residues in NTT for one more prime, as solve_NTRU prepares it.
FN(p) == mp_NTT([j \in Index |-> zint_mod_small_signed(f[j], p)], logn, p)

\* k * f as residues; the product is rebuilt and subtracted.
poly_sub_scaled_ntt ==
    LET Product(p) ==
            LET t1 == mp_NTT([j \in Index |-> mp_set(k[j], p)], logn, p)
                fs == FN(p)
            IN  mp_iNTT([j \in Index |-> mp_mmul(mp_mmul(t1[j], fs[j], p), r2[p], p)], logn, p)
        fk == [i \in 1 .. slen + 1 |-> Product(Primes[i])]
    IN  [c \in Index |->
            zint_sub_scaled(F[c], zint_rebuild_CRT([i \in 1 .. slen + 1 |-> fk[i][c]]),
                            sc \div W, sc % W)]

\* The residue of a number of one or two limbs.
Residue(x, p) ==
    IF Len(x) = 1 THEN mp_set(Extended(x[1]), p)
    ELSE mp_add(IF x[1] >= p THEN x[1] - p ELSE x[1],
                mp_mmul(mp_set(Extended(x[2]), p), mp_half(r2[p], p), p), p)

\* v, multiplied with w for every W + 1 bits of the scale.
Repeated(v, w, p) ==
    LET x[i \in 0 .. sc \div (W + 1)] == IF i = 0 THEN v ELSE mp_mmul(x[i - 1], w, p)
    IN  x[sc \div (W + 1)]

\* 2^sc * k in NTT.
Multiplied(kk, p) ==
    LET scv == Repeated(mp_mmul(2^(sc % (W + 1)), r2[p], p), r2[p], p)
    IN  mp_NTT([j \in Index |-> mp_mmul(scv, mp_set(kk[j], p), p)], logn, p)

\* k again from that.
Restored(kk, p) ==
    LET scv == Repeated(2^((-sc) % (W + 1)), 1, p)
        kj == mp_iNTT(kk, logn, p)
    IN  [j \in Index |-> mp_norm(mp_mmul(scv, kj[j], p), p)]

\* The norm of ft, from its even and odd coefficients.  X in NTT is a root, and
\* in the next place the same negated.
NormAt(p) ==
    LET t1 == mp_NTT([j \in Index |-> mp_set(ft[2 * j], p)], logn, p)
        t2 == mp_NTT([j \in Index |-> mp_set(ft[2 * j + 1], p)], logn, p)
        xv(j) == LET v == mp_mkgm[logn][p][(n \div 2) + (j \div 2)]
                 IN  IF j % 2 = 0 THEN v ELSE p - v
    IN  [j \in Index |-> mp_sub(mp_mmul(t1[j], t1[j], p),
                                mp_mmul(mp_mmul(t2[j], t2[j], p), xv(j), p), p)]

\* F less 2^sc * k * f modulo p, kk being 2^sc * k in NTT.
Less(kk, p) ==
    LET Fu == mp_NTT([j \in Index |-> Residue(F[j], p)], logn, p)
        xf == NormAt(p)
        r3 == mp_mmul(r2[p], r2[p], p)
    IN  mp_iNTT([j \in Index |->
                    mp_sub(Fu[j], mp_mmul(mp_mmul(xf[j], kk[j], p), r3, p), p)], logn, p)

\* The number with two residues, centred.
Rebuilt(x0, x1) ==
    LET p0 == Primes[1]
        p1 == Primes[2]
        z == x0 + p0 * mp_mmul(mp_sub(x1, IF x0 >= p1 THEN x0 - p1 ELSE x0, p1), s[2], p1)
        c == IF z > (p0 * p1) \div 2 THEN z - p0 * p1 ELSE z
    IN  <<Limb(c), Limb(c \div 2^W)>>

\* At depth 1, with one or two limbs for F, and f computed from ft.
poly_sub_kfg_scaled_depth1 ==
    LET k0 == Multiplied(k, Primes[1])
        r0 == Less(k0, Primes[1])
        k1 == Multiplied(Restored(k0, Primes[1]), Primes[2])
        r1 == Less(k1, Primes[2])
    IN  [c \in Index |-> IF FLen = 1 THEN <<Limb(mp_norm(r0[c], Primes[1]))>>
                                     ELSE Rebuilt(r0[c], r1[c])]

-----------------------------------------------------------------------------
(* Approximations.                                                         *)

BitLength(v) == CHOOSE b \in 0 .. W : v < 2^b /\ (b > 0 => 2^(b - 1) <= v)

\* The highest limb of x that is not zero once the sign is removed, and its
\* place.
TopLimb(x) ==
    LET w(i) == IF Negative(x) THEN 2^W - 1 - x[i] ELSE x[i]
        used == {i \in 1 .. Len(x) : w(i) # 0}
        top == CHOOSE i \in used : \A j \in used : j <= i
    IN  IF used = {} THEN [c |-> 0, ck |-> 0] ELSE [c |-> w(top), ck |-> top - 1]

\* Whether the limb b comes before a.
Above(b, a) == b.ck > a.ck \/ (b.ck = a.ck /\ b.c > a.c)

poly_max_bitlength(a) ==
    LET t[i \in 0 .. n] ==
            IF i = 0 THEN [c |-> 0, ck |-> 0]
            ELSE LET b == TopLimb(a[i - 1]) IN IF Above(b, t[i - 1]) THEN b ELSE t[i - 1]
    IN  W * t[n].ck + BitLength(t[n].c)

\* The limb at place i, with zeros below and copies of the sign above.
WordAt(x, i) ==
    IF i < 0 THEN 0 ELSE IF i < Len(x) THEN x[i + 1] ELSE IF Negative(x) THEN 2^W - 1 ELSE 0

\* x / 2^e with W + 1 bits after the point, from three limbs; the shift is
\* taken from 1 to W.
poly_big_to_fixed(x, e) ==
    LET scl == IF e % W = 0 THEN W ELSE e % W
        sch == IF e % W = 0 THEN (e \div W) - 1 ELSE e \div W
        w0 == WordAt(x, sch - 1)
        w1 == WordAt(x, sch)
        w2 == WordAt(x, sch + 1)
        xl == Word((w0 \div 2^(scl - 1)) + w1 * 2^(W + 1 - scl))
        xh == Word((w1 \div 2^scl) + Extended(w2) * 2^(W - scl))
    IN  (IF Below(xh) THEN xh - R ELSE xh) * R + xl

-----------------------------------------------------------------------------
(* One operation on ft, F and k.                                           *)

none == [j \in Index |-> <<>>]

RnsInit ==
    /\ ft \in TopPolys /\ F \in Targets /\ k \in Quotients /\ sc \in Scales
    /\ fn = <<>> /\ f = none /\ r = none
    /\ op = "top"

\* f one level down for two primes: products of neighbours in NTT modulo the
\* first one, from where the coefficients are rebuilt for the second.
make_fg_step ==
    /\ op = "top"
    /\ LET p == Primes[1]
           q == Primes[2]
           Pairs(a, m) == [j \in Index |->
                              mp_mmul(mp_mmul(a[2 * j], a[2 * j + 1], m), r2[m], m)]
       IN  \E fs \in {mp_NTT([j \in 0 .. 2 * n - 1 |-> mp_set(ft[j], p)], logn + 1, p)} :
           \E plain \in {mp_iNTT(fs, logn + 1, p)} :
           \E t2 \in {mp_NTT([j \in 0 .. 2 * n - 1 |->
                        zint_mod_small_signed(zint_rebuild_CRT(<<plain[j]>>), q)], logn + 1, q)} :
               fn' = <<Pairs(fs, p), Pairs(t2, q)>>
    /\ op' = "ntt"
    /\ UNCHANGED <<ft, F, k, sc, f, r>>

\* Back from NTT and from residues.
Rebuild ==
    /\ op = "ntt"
    /\ \E a \in {mp_iNTT(fn[1], logn, Primes[1])} : \E b \in {mp_iNTT(fn[2], logn, Primes[2])} :
           f' = [j \in Index |-> zint_rebuild_CRT(<<a[j], b[j]>>)]
    /\ op' = "plain"
    /\ UNCHANGED <<ft, F, k, sc, fn, r>>

Finish(name, v) ==
    /\ op = "plain"
    /\ op' = name /\ r' = v
    /\ UNCHANGED <<ft, F, k, sc, fn, f>>

Value(x) == LET v[i \in 0 .. Len(x)] == IF i = 0 THEN 0 ELSE v[i - 1] + x[i] * 2^(W * (i - 1))
            IN  IF Negative(x) THEN v[Len(x)] - 2^(W * Len(x)) ELSE v[Len(x)]

\* What the three have to compute.
Norm(c) ==
    LET At(i, j) == ft[i] * ft[j]
        Pair(i, j) == IF i % 2 = 0 THEN At(i, j) ELSE -At(i, j)
        Term(i) == LET j == (2 * c - i) % (2 * n)
                   IN  IF i <= 2 * c THEN Pair(i, j) ELSE -Pair(i, j)
        v[i \in 0 .. 2 * n] == IF i = 0 THEN 0 ELSE v[i - 1] + Term(i - 1)
    IN  v[2 * n]

Expected(c) ==
    LET v[i \in 0 .. n] ==
            IF i = 0 THEN 0
            ELSE v[i - 1] + k[i - 1] * Norm((c - (i - 1)) % n) * (IF i - 1 <= c THEN 1 ELSE -1)
    IN  Value(F[c]) - 2^sc * v[n]

\* Numbers that two residues tell apart, or one.
Fits(v) == LET m == IF FLen = 1 THEN Primes[1] ELSE Primes[1] * Primes[2]
           IN  2 * v < m /\ -2 * v < m

Limbs == Finish("limbs", poly_sub_scaled)

\* A quotient is below the primes, which is what mp_set is for.
Ntt ==
    /\ \A j \in Index, p \in PrimeSet : k[j] < p /\ -k[j] < p
    /\ Finish("ntts", poly_sub_scaled_ntt)

\* solve_NTRU calls this with numbers that fit, and with more than one limb
\* only for scales that are no multiples of W + 1 (FndsaLayout); a quotient
\* that is to be restored is below half a prime.
Depth1 ==
    /\ FLen <= 2 /\ \A c \in Index : Fits(Value(F[c])) /\ Fits(Expected(c))
    /\ FLen = 2 => sc % (W + 1) # 0 /\ \A j \in Index : 2 * k[j] < Primes[1] /\ -2 * k[j] < Primes[1]
    /\ Finish("depth1", poly_sub_kfg_scaled_depth1)

MaxBits == sc = 0 /\ Finish("bits", [c \in {0} |-> <<poly_max_bitlength(F)>>])

\* Numbers below 2^(W - 1 + sc).
Approximate ==
    /\ \A c \in Index : LET v == Value(F[c]) IN v < 2^(W - 1 + sc) /\ -v < 2^(W - 1 + sc)
    /\ Finish("fixed", [c \in Index |-> <<poly_big_to_fixed(F[c], sc)>>])

RnsNext == make_fg_step \/ Rebuild \/ Limbs \/ Ntt \/ Depth1 \/ MaxBits \/ Approximate

RnsSpec == RnsInit /\ [][RnsNext]_rnsVars

-----------------------------------------------------------------------------
(* Properties.                                                             *)

\* The norm computed from pairs in the NTT, half of it through a rebuilt
\* integer, is f(X) * f(-X) with exact coefficients.
NormIsExact == f # none => \A c \in Index : Value(f[c]) = Norm(c)

\* All three subtractions give F - 2^sc * k * f, up to the limbs that F has:
\* limbs shifted across words, residues and their reconstruction, and the
\* route that computes f on the way and restores k between two primes.
SubtractionsAgree ==
    op \in {"limbs", "ntts", "depth1"} =>
        \A c \in Index : /\ Len(r[c]) = FLen /\ \A i \in 1 .. FLen : r[c][i] \in 0 .. 2^W - 1
                         /\ (Value(r[c]) - Expected(c)) % 2^(W * FLen) = 0

\* The number of bits is that of the largest coefficient, the sign left out,
\* and no fewer would do.
LengthIsMax ==
    op = "bits" =>
        LET Within(v, b) == v < 2^b /\ v >= -(2^b)
            bits == r[0][1]
        IN  /\ \A c \in Index : Within(Value(F[c]), bits)
            /\ bits > 0 => \E c \in Index : ~Within(Value(F[c]), bits - 1)

\* An approximation is the number divided by 2^sc and rounded down, whichever
\* limbs that takes and for limbs beyond the highest.
FixedIsFloor ==
    op = "fixed" => \A c \in Index : r[c] = <<(Value(F[c]) * R) \div 2^sc>>
=============================================================================
