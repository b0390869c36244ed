----------------------------- MODULE FndsaNtru ------------------------------
(***************************************************************************)
(* solve_NTRU: F and G with f * G - g * F = q modulo X^n + 1, found by     *)
(* taking norms down to degree 1, solving there, and coming back level by  *)
(* level, with a reduction at each.                                        *)
(*                                                                         *)
(* Depth d works modulo X^(2^(LogN-d)) + 1.  Integers are what their words *)
(* stand for, so a value too large for its words is truncated: sizes are   *)
(* fixed for each depth, from measurements, and a key that exceeds them    *)
(* must be noticed.  The program has words of 31 bits.  The quotient of a  *)
(* reduction is computed in fixed point; it is an approximation here too,  *)
(* and may be off.                                                         *)
(*                                                                         *)
(* f, g      the small polynomials                                         *)
(* fg        their norms at every depth                                    *)
(* depth     the level                                                     *)
(* F, G      the solution at this level, being reduced                     *)
(* scale_FG  the scale of the reduction, in bits                           *)
(* FGlen     the words of F and G in use                                   *)
(* lost      a value was too large for its words (not in the program)      *)
(* pc, ret   the step of the call, and what it returned                    *)
(***************************************************************************)
EXTENDS Integers, Sequences, SequencesExt

CONSTANTS
    LogN,           \* logarithm of the degree: up to 10
    q,              \* 12289
    W,              \* bits in a word: 31
    primes,         \* primes below 2^W, in descending order
    max_bl_small,   \* words of f, g, F and G by depth
    max_bl_large,   \* words of F and G before their reduction
    word_win,       \* words of f and g an approximation uses
    reduce_bits,    \* bits taken off in an iteration: 11, 13 or 16
    lim,            \* limit on the coefficients of F and G: 127
    I8,             \* bits of a coefficient: 8
    Inputs,         \* pairs of f and g
    Slips           \* errors of a quotient

VARIABLES f, g, fg, depth, F, G, scale_FG, FGlen, lost, pc, ret

vars == <<f, g, fg, depth, F, G, scale_FG, FGlen, lost, pc, ret>>

-----------------------------------------------------------------------------
(* Integers and their words.                                               *)

\* Into [-m/2, m/2).
Center(x, m) == ((x + (m \div 2)) % m) - (m \div 2)

\* What len words hold, two's complement.
Words(x, len) == Center(x, 2^(W * len))

\* The integer that residues modulo the first len primes stand for.
Product(len) == LET m[k \in 0 .. len] == IF k = 0 THEN 1 ELSE m[k - 1] * primes[k] IN m[len]
zint_rebuild_CRT(x, len, signed) == IF signed THEN Center(x, Product(len)) ELSE x % Product(len)

\* Nearest integer.
Round(x, y) == (2 * x + y) \div (2 * y)

-----------------------------------------------------------------------------
(* Polynomials modulo X^n + 1: functions on 0 .. n - 1.                    *)

Deg(a) == Cardinality(DOMAIN a)
Map(a, Op(_)) == [i \in DOMAIN a |-> Op(a[i])]
Plus(a, b) == [i \in DOMAIN a |-> a[i] + b[i]]
Sub(a, b) == [i \in DOMAIN a |-> a[i] - b[i]]
Const(n, c) == [i \in 0 .. n - 1 |-> IF i = 0 THEN c ELSE 0]

Mul(a, b) ==
    LET n == Deg(a)
        Coeff(i) ==
            LET s[j \in 0 .. n] ==
                    IF j = 0 THEN 0
                    ELSE LET k == j - 1
                         IN  s[k] + (IF k <= i THEN a[k] * b[i - k] ELSE -(a[k] * b[n + i - k]))
            IN  s[n]
    IN  [i \in 0 .. n - 1 |-> Coeff(i)]

\* a(-X); a(1/X); a(X^2).
Conj(a) == [i \in DOMAIN a |-> IF i % 2 = 0 THEN a[i] ELSE -a[i]]
Adj(a) == [i \in DOMAIN a |-> IF i = 0 THEN a[0] ELSE -a[Deg(a) - i]]
Lift(a) == [i \in 0 .. 2 * Deg(a) - 1 |-> IF i % 2 = 0 THEN a[i \div 2] ELSE 0]

\* The norm to half the degree: a(X) * a(-X) as a polynomial in X^2.
Norm(a) == LET s == Mul(a, Conj(a)) IN [i \in 0 .. (Deg(a) \div 2) - 1 |-> s[2 * i]]

\* f * G - g * F.
Equation(ff, gg, FF, GG) == Sub(Mul(ff, GG), Mul(gg, FF))

-----------------------------------------------------------------------------
(* Init and the deepest level.                                             *)

None == [i \in {} |-> 0]

Init ==
    /\ \E p \in Inputs : f = p[1] /\ g = p[2]
    /\ fg = [d \in {0} |-> [f |-> f, g |-> g]] /\ depth = 0
    /\ F = None /\ G = None /\ scale_FG = 0 /\ FGlen = 0
    /\ lost = FALSE /\ pc = "norms" /\ ret = FALSE

Return(b) ==
    /\ pc' = "done" /\ ret' = b
    /\ UNCHANGED <<f, g, fg, depth, F, G, scale_FG, FGlen, lost>>

\* Residues of the norm, and the integers they are taken for at depth d.
make_fg_step(a, d) ==
    Map(Norm(a), LAMBDA x : zint_rebuild_CRT(x, max_bl_small[d], d < LogN))

\* The norms of the next depth.
make_fg_intermediate ==
    /\ pc = "norms" /\ depth < LogN
    /\ LET nf == make_fg_step(fg[depth].f, depth + 1)
           ng == make_fg_step(fg[depth].g, depth + 1)
       IN  /\ fg' = [d \in 0 .. depth + 1 |-> IF d <= depth THEN fg[d] ELSE [f |-> nf, g |-> ng]]
           /\ lost' = (lost \/ nf # Norm(fg[depth].f) \/ ng # Norm(fg[depth].g))
    /\ depth' = depth + 1
    /\ UNCHANGED <<f, g, F, G, scale_FG, FGlen, pc, ret>>

\* f must be invertible modulo the first prime.
make_fg_deepest ==
    /\ pc = "norms" /\ depth = LogN
    /\ IF fg[LogN].f[0] % primes[1] = 0
       THEN Return(FALSE)
       ELSE pc' = "deepest" /\ UNCHANGED <<f, g, fg, depth, F, G, scale_FG, FGlen, lost, ret>>

\* zint_bezout, the subject of FndsaBezout: x * u - y * v = 1, except that
\* y = 1 has u reduced to 0.
Bezout(x, y) ==
    IF y = 1 THEN {<<0, x - 1>>}
    ELSE {<<u, (x * u - 1) \div y>> : u \in {u \in 1 .. y : (x * u) % y = 1}}

\* Products of two resultants and q; the unsigned words are signed later.
solve_NTRU_deepest ==
    /\ pc = "deepest"
    /\ LET x == fg[LogN].f[0]
           y == fg[LogN].g[0]
           top == 2^(W * max_bl_small[LogN])
           sols == {uv \in Bezout(x, y) : x % 2 = 1 /\ y % 2 = 1}
       IN  \/ sols = {} /\ Return(FALSE)
           \/ \E uv \in sols :
                LET FF == uv[2] * q
                    GG == uv[1] * q
                IN  IF FF >= top \/ GG >= top
                    THEN Return(FALSE)
                    ELSE /\ F' = Const(1, Words(FF, max_bl_small[LogN]))
                         /\ G' = Const(1, Words(GG, max_bl_small[LogN]))
                         /\ lost' = (lost \/ FF # F'[0] \/ GG # G'[0])
                         /\ depth' = LogN - 1
                         /\ pc' = "lift"
                         /\ UNCHANGED <<f, g, fg, scale_FG, FGlen, ret>>

-----------------------------------------------------------------------------
(* One level.                                                              *)

\* F'(X^2) * g(-X) and G'(X^2) * f(-X).
Unreduced(d) == [F |-> Mul(Lift(F), Conj(fg[d].g)), G |-> Mul(Lift(G), Conj(fg[d].f))]

slen == max_bl_small[depth]
llen == max_bl_large[depth]
blen == IF word_win[depth] > slen THEN 0 ELSE slen - word_win[depth]
scale_fg == blen * W

\* solve_NTRU_intermediate, up to the reduction.
LiftLevel ==
    /\ pc = "lift" /\ depth > 0
    /\ LET u == Unreduced(depth)
           Held(a) == Map(a, LAMBDA x : zint_rebuild_CRT(x, llen, TRUE))
       IN  /\ F' = Held(u.F) /\ G' = Held(u.G)
           /\ lost' = (lost \/ F' # u.F \/ G' # u.G)
    /\ scale_FG' = llen * W
    /\ FGlen' = llen
    /\ pc' = "reduce"
    /\ UNCHANGED <<f, g, fg, depth, ret>>

\* (F * adj(f) + G * adj(g)) / (f * adj(f) + g * adj(g)) / 2^scale, rounded, or
\* that and a slip.  The divisor is taken for its first coefficient, and what
\* remains is divided again.
Reductions(ff, gg, scale) ==
    LET Improve(k, num, den) ==
            Plus(k, Map(Sub(num, Mul(k, den)), LAMBDA x : Round(x, den[0])))
        nums == {Map(Plus(Mul(F, Adj(ff)), Mul(G, Adj(gg))), LAMBDA x : x \div 2^scale)}
        dens == {Plus(Mul(ff, Adj(ff)), Mul(gg, Adj(gg)))}
        Better(ks) == {Improve(k, num, den) : k \in ks, num \in nums, den \in dens}
    IN  {[k EXCEPT ![0] = @ + slip] :
            k \in Better(Better(Better({Const(Deg(ff), 0)}))), slip \in Slips}

\* poly_sub_scaled and its variants: len words of a - k * b * 2^scale.
poly_sub_scaled(a, k, b, scale) == Sub(a, Map(Mul(k, b), LAMBDA x : x * 2^scale))

\* Words that are in use at a scale.
Trimmed(len, scale) ==
    LET fits == {l \in slen .. len : l = slen \/ W * (l - slen) <= scale - scale_fg + W - 1}
    IN  CHOOSE l \in fits : \A m \in fits : m <= l

\* Variant: a last step shorter than the others is not taken.
NextScaleWhole(s) == IF s < scale_fg + reduce_bits THEN s ELSE s - reduce_bits

NextScale(s) == IF s <= scale_fg + reduce_bits THEN scale_fg ELSE s - reduce_bits

\* One iteration of the reduction.
Reduce ==
    /\ pc = "reduce"
    /\ \E k \in Reductions(fg[depth].f, fg[depth].g, scale_FG - scale_fg) :
         \E a \in {poly_sub_scaled(F, k, fg[depth].f, scale_FG - scale_fg)},
            b \in {poly_sub_scaled(G, k, fg[depth].g, scale_FG - scale_fg)} :
           LET last == scale_FG <= scale_fg
               len == IF last THEN slen ELSE Trimmed(FGlen, NextScale(scale_FG))
           IN  /\ F' = Map(a, LAMBDA x : Words(x, len))
               /\ G' = Map(b, LAMBDA x : Words(x, len))
               /\ lost' = (lost \/ F' # a \/ G' # b)
               /\ scale_FG' = IF last THEN scale_FG ELSE NextScale(scale_FG)
               /\ FGlen' = len
               /\ pc' = IF last THEN "check" ELSE "reduce"
    /\ UNCHANGED <<f, g, fg, depth, ret>>

Solves(ff, gg, p) ==
    \A i \in DOMAIN ff : (Equation(ff, gg, F, G)[i] - Const(Deg(ff), q)[i]) % p = 0

\* The solution is tested modulo one prime, at depth 1 not at all.
CheckLevel ==
    /\ pc = "check"
    /\ IF depth = 1 \/ Solves(fg[depth].f, fg[depth].g, primes[1])
       THEN /\ depth' = depth - 1 /\ pc' = "lift"
            /\ UNCHANGED <<f, g, fg, F, G, scale_FG, FGlen, lost, ret>>
       ELSE Return(FALSE)

\* The equation holds modulo the first prime.
Accepted(FF, GG) ==
    LET e == Equation(f, g, FF, GG)
    IN  \A i \in DOMAIN f : (e[i] - Const(2^LogN, q)[i]) % primes[1] = 0

\* The top level, modulo the first prime: lifted, reduced once and tested.
LiftTop ==
    /\ pc = "lift" /\ depth = 0
    /\ LET u == Unreduced(0)
       IN  /\ F' = Map(u.F, LAMBDA x : Center(x, primes[1]))
           /\ G' = Map(u.G, LAMBDA x : Center(x, primes[1]))
           /\ lost' = (lost \/ F' # u.F \/ G' # u.G)
    /\ pc' = "top"
    /\ UNCHANGED <<f, g, fg, depth, scale_FG, FGlen, ret>>

solve_NTRU_depth0 ==
    /\ pc = "top"
    /\ \E k \in Reductions(f, g, 0) :
         \E FF \in {poly_sub_scaled(F, k, f, 0)}, GG \in {poly_sub_scaled(G, k, g, 0)} :
            IF Accepted(FF, GG)
            THEN /\ F' = Map(FF, LAMBDA x : Center(x, primes[1]))
                 /\ G' = Map(GG, LAMBDA x : Center(x, primes[1]))
                 /\ lost' = (lost \/ F' # FF \/ G' # GG)
                 /\ pc' = "small"
                 /\ UNCHANGED <<f, g, fg, depth, scale_FG, FGlen, ret>>
            ELSE Return(FALSE)

\* Variant: any value is cut to eight bits.
SmallAny(a) == TRUE

\* poly_big_to_small.
Small(a) == \A i \in DOMAIN a : -lim <= a[i] /\ a[i] <= lim

solve_NTRU ==
    /\ pc = "small"
    /\ IF Small(F) /\ Small(G)
       THEN /\ F' = Map(F, LAMBDA x : Center(x, 2^I8))
            /\ G' = Map(G, LAMBDA x : Center(x, 2^I8))
            /\ pc' = "done" /\ ret' = TRUE
            /\ UNCHANGED <<f, g, fg, depth, scale_FG, FGlen, lost>>
       ELSE Return(FALSE)

Next ==
    \/ make_fg_intermediate \/ make_fg_deepest \/ solve_NTRU_deepest \/ LiftLevel \/ Reduce \/ CheckLevel
    \/ LiftTop \/ solve_NTRU_depth0 \/ solve_NTRU

Spec == Init /\ [][Next]_vars /\ WF_vars(Next)

-----------------------------------------------------------------------------
(* Properties.                                                             *)

\* A pair that is returned solves the equation over the integers and is within
\* the limit, although the last test is modulo one prime only, the one at depth
\* 1 is left out and values may have been truncated on the way.
SolutionIsExact ==
    ret => /\ Equation(f, g, F, G) = Const(2^LogN, q)
           /\ \A i \in DOMAIN f : F[i] \in -lim .. lim /\ G[i] \in -lim .. lim

\* While nothing was truncated F and G solve the equation of their level, from
\* the first lift on: no quotient, however wrong, can spoil them, so the tests
\* reject only what was truncated, or was wrong from the start.
ExactUnlessLost ==
    ~lost /\ pc \in {"reduce", "check", "top", "small"} /\ fg[LogN].g[0] # 1 =>
        Equation(fg[depth].f, fg[depth].g, F, G) = Const(2^(LogN - depth), q)

Ended == pc = "done"
=============================================================================
