------------------------------ MODULE FndsaFFT ------------------------------
(***************************************************************************)
(* The sampling of a signature in the Fourier domain: the transform of the *)
(* basis, its Gram matrix, the LDL decomposition, the target, and the two  *)
(* recursions that draw a lattice point near it.  sign_core decomposes the *)
(* matrix again at every signature and at every node of its recursion; the *)
(* PrecomputedSigner keeps the decomposition as a tree made once.          *)
(*                                                                         *)
(* The program computes with floating point numbers.  Here a number is an  *)
(* element of the field of P elements, P % 4 = 3, and a complex number a   *)
(* pair of them: all the identities the algorithm rests on are exact, and  *)
(* what is checked is the algebra, not the rounding.  The roots of unity   *)
(* are of norm 1, so a conjugate is an inverse as it is for the program's. *)
(*                                                                         *)
(* The program stores slot j of a polynomial as f[j] and f[j + n/2], the   *)
(* real and the imaginary part; before a transform these are coefficients  *)
(* j and j + n/2.  Here a polynomial is a function on slots.               *)
(*                                                                         *)
(* key    f, g, F and G                                                    *)
(* b      the basis [[g, -f], [G, -F]] in FFT representation               *)
(* tree   the LDL tree of the precomputed signer                           *)
(* hm     the hashed message                                               *)
(* t      the target                                                       *)
(* draw   the integers the generator will lead the sampler to              *)
(* dyn    what the dynamic sampler returned, and what it asked for         *)
(* pre    the same of the precomputed one                                  *)
(* pt     the lattice point                                                *)
(* pc     the call that comes next                                         *)
(***************************************************************************)
EXTENDS Integers, Sequences

CONSTANTS
    P,          \* the field
    Unit,       \* a complex number of norm 1 and of order 2^(LogN+1)
    LogN,       \* logarithm of the degree, at least 2
    Q,          \* the modulus
    Keys,       \* the keys f, g, F, G
    Points,     \* hashed messages
    Draws       \* sequences of 2^(LogN+1) sampled integers

VARIABLES key, b, tree, hm, t, draw, dyn, pre, pt, pc

vars == <<key, b, tree, hm, t, draw, dyn, pre, pt, pc>>

-----------------------------------------------------------------------------
(* Numbers.                                                                *)

Inv(x) == CHOOSE y \in 0 .. P - 1 : (x * y) % P = 1
Halved(x) == (x * Inv(2)) % P

flc_add(x, y) == <<(x[1] + y[1]) % P, (x[2] + y[2]) % P>>
flc_sub(x, y) == <<(x[1] - y[1]) % P, (x[2] - y[2]) % P>>
flc_mul(x, y) ==
    <<(x[1] * y[1] - x[2] * y[2]) % P, (x[2] * y[1] + x[1] * y[2]) % P>>
flc_mulconj(x, y) ==
    <<(x[1] * y[1] + x[2] * y[2]) % P, (x[2] * y[1] - x[1] * y[2]) % P>>
Scale(c, x) == <<(c * x[1]) % P, (c * x[2]) % P>>
NormC(x) == (x[1] * x[1] + x[2] * x[2]) % P

\* Bit reversal over the bits of an index.
Rev(i) == LET r[k \in 0 .. LogN] ==
                IF k = 0 THEN 0 ELSE 2 * r[k - 1] + ((i \div 2^(k - 1)) % 2)
          IN  r[LogN]

\* The table: powers of the root in bit reversed order.
fgm == [k \in 0 .. 2^LogN - 1 |->
            LET p[e \in 0 .. Rev(k)] ==
                    IF e = 0 THEN <<1, 0>> ELSE flc_mul(p[e - 1], Unit)
            IN  p[Rev(k)]]

-----------------------------------------------------------------------------
(* Polynomials.                                                            *)

hn(logn) == 2^(logn - 1)
Slots(logn) == 0 .. hn(logn) - 1

FFTLevel(logn, f, lm) ==
    LET tt == hn(logn) \div 2^(lm - 1)
        ht == tt \div 2
        s(j) == fgm[2^lm + j \div tt]
    IN  [j \in Slots(logn) |->
            IF j % tt < ht THEN flc_add(f[j], flc_mul(f[j + ht], s(j)))
                           ELSE flc_sub(f[j - ht], flc_mul(f[j], s(j)))]

fpoly_FFT(logn, f) ==
    LET lev[lm \in 0 .. logn - 1] ==
            IF lm = 0 THEN f ELSE FFTLevel(logn, lev[lm - 1], lm)
    IN  lev[logn - 1]

iFFTLevel(logn, f, lm) ==
    LET tt == 2^(lm - 1)
        s(j) == fgm[2^(logn - lm) + j \div (2 * tt)]
    IN  [j \in Slots(logn) |->
            IF j % (2 * tt) < tt THEN flc_add(f[j], f[j + tt])
            ELSE flc_mulconj(flc_sub(f[j - tt], f[j]), s(j))]

\* The levels, then one division by n/2.
fpoly_iFFT(logn, f) ==
    LET lev[lm \in 0 .. logn - 1] ==
            IF lm = 0 THEN f ELSE iFFTLevel(logn, lev[lm - 1], lm)
    IN  [j \in Slots(logn) |-> Scale(Inv(hn(logn)), lev[logn - 1][j])]

\* Coefficients j and j + n/2 of a small polynomial as slot j.
fpoly_set_small(logn, f) ==
    [j \in Slots(logn) |-> <<f[j] % P, f[j + hn(logn)] % P>>]

fpoly_add(logn, x, y) == [j \in Slots(logn) |-> flc_add(x[j], y[j])]
fpoly_sub(logn, x, y) == [j \in Slots(logn) |-> flc_sub(x[j], y[j])]
fpoly_neg(logn, x) == [j \in Slots(logn) |-> flc_sub(<<0, 0>>, x[j])]
fpoly_mulconst(logn, x, c) == [j \in Slots(logn) |-> Scale(c, x[j])]
fpoly_mul_fft(logn, x, y) == [j \in Slots(logn) |-> flc_mul(x[j], y[j])]

\* l10 and d11 of G = L * D * adj(L); g00 is d00.
fpoly_LDL_fft(logn, g00, g01, g11) ==
    LET mu == [j \in Slots(logn) |-> Scale(Inv(g00[j][1]), g01[j])]
    IN  [l10 |-> [j \in Slots(logn) |-> <<mu[j][1], (-mu[j][2]) % P>>],
         d11 |-> [j \in Slots(logn) |->
                    <<(g11[j][1] - (mu[j][1] * g01[j][1] + mu[j][2] * g01[j][2])) % P, 0>>]]

\* f = f0(x^2) + x * f1(x^2).
fpoly_split_fft(logn, f) ==
    [f0 |-> [i \in Slots(logn - 1) |-> Scale(Halved(1), flc_add(f[2 * i], f[2 * i + 1]))],
     f1 |-> [i \in Slots(logn - 1) |->
        Scale(Halved(1), flc_mulconj(flc_sub(f[2 * i], f[2 * i + 1]), fgm[i + hn(logn)]))]]

\* The same for a self-adjoint f, of which only real parts are read.
fpoly_split_selfadj_fft(logn, f) ==
    LET re(j) == f[j][1]
        z(i) == fgm[i + hn(logn)]
    IN  [f0 |-> [i \in Slots(logn - 1) |-> <<Halved(re(2 * i) + re(2 * i + 1)), 0>>],
         f1 |-> [i \in Slots(logn - 1) |->
            LET d == Halved(re(2 * i) - re(2 * i + 1))
            IN  <<(d * z(i)[1]) % P, (-d * z(i)[2]) % P>>]]

fpoly_merge_fft(logn, f0, f1) ==
    [j \in Slots(logn) |->
        LET i == j \div 2
            c == flc_mul(f1[i], fgm[i + hn(logn)])
        IN  IF j % 2 = 0 THEN flc_add(f0[i], c) ELSE flc_sub(f0[i], c)]

fpoly_gram_fft(logn, m) ==
    LET sq(x, y) == [j \in Slots(logn) |-> <<(NormC(x[j]) + NormC(y[j])) % P, 0>>]
    IN  [g00 |-> sq(m.b00, m.b01),
         g01 |-> [j \in Slots(logn) |-> flc_add(flc_mulconj(m.b00[j], m.b10[j]),
                                                flc_mulconj(m.b01[j], m.b11[j]))],
         g11 |-> sq(m.b10, m.b11)]

\* [t0, t1] = (1/q) * B * [0, hm].
fpoly_apply_basis(logn, b01, b11, c) ==
    LET h == fpoly_FFT(logn, fpoly_set_small(logn, c))
    IN  [t0 |-> fpoly_mulconst(logn, fpoly_mul_fft(logn, h, b11), Inv(Q % P)),
         t1 |-> fpoly_mulconst(logn, fpoly_mul_fft(logn, h, b01), P - Inv(Q % P))]

basis_to_FFT(logn, k) ==
    LET T(x) == fpoly_FFT(logn, fpoly_set_small(logn, x))
    IN  [b00 |-> T(k.g), b01 |-> fpoly_neg(logn, T(k.f)),
         b10 |-> T(k.G), b11 |-> fpoly_neg(logn, T(k.F))]

-----------------------------------------------------------------------------
(* The two samplers.  asked is the sequence of centres and leaves given to *)
(* next so far; the program turns the value d of a leaf into the parameter *)
(* sqrt(d) / sigma, and the integers come back in the order of the calls.  *)

Ask(asked, mu, leaf) == Append(asked, [mu |-> mu, leaf |-> leaf])

\* The bottom: t1's two coefficients on leaf d11, then t0's on d00.
Bottom(d, t0, t1, l10, d00, d11, asked) ==
    LET w == t1[0]
        a1 == Ask(asked, w[1], d11)
        a2 == Ask(a1, w[2], d11)
        y == <<d[Len(a1)] % P, d[Len(a2)] % P>>
        x == flc_add(t0[0], flc_mul(flc_sub(w, y), l10))
        a3 == Ask(a2, x[1], d00)
        a4 == Ask(a3, x[2], d00)
    IN  [t0 |-> [j \in {0} |-> <<d[Len(a3)] % P, d[Len(a4)] % P>>],
         t1 |-> [j \in {0} |-> y], asked |-> a4]

\* Variant: tb0 = t0 + z1 * l10.
Tb0NoTarget(logn, t0, t1, z1, l10) ==
    fpoly_add(logn, t0, fpoly_mul_fft(logn, l10, z1))

\* tb0 = t0 + (t1 - z1) * l10.
Tb0(logn, t0, t1, z1, l10) ==
    fpoly_add(logn, t0, fpoly_mul_fft(logn, l10, fpoly_sub(logn, t1, z1)))

RECURSIVE ffsamp_fft_inner(_, _, _, _, _, _, _, _)
ffsamp_fft_inner(d, logn, t0, t1, g00, g01, g11, asked) ==
    LET ldl == fpoly_LDL_fft(logn, g00, g01, g11)
    IN  IF logn = 1
        THEN Bottom(d, t0, t1, ldl.l10[0], g00[0][1], ldl.d11[0][1], asked)
        ELSE LET left == fpoly_split_selfadj_fft(logn, g00)
                 right == fpoly_split_selfadj_fft(logn, ldl.d11)
                 w1 == fpoly_split_fft(logn, t1)
                 r1 == ffsamp_fft_inner(d, logn - 1, w1.f0, w1.f1,
                                        right.f0, right.f1, right.f0, asked)
                 z1 == fpoly_merge_fft(logn, r1.t0, r1.t1)
                 w0 == fpoly_split_fft(logn, Tb0(logn, t0, t1, z1, ldl.l10))
                 r0 == ffsamp_fft_inner(d, logn - 1, w0.f0, w0.f1,
                                        left.f0, left.f1, left.f0, r1.asked)
             IN  [t0 |-> fpoly_merge_fft(logn, r0.t0, r0.t1), t1 |-> z1,
                  asked |-> r0.asked]

\* Variant: the right subtree is built from d00.
RECURSIVE buildLDLTreeLeft(_, _, _, _)
buildLDLTreeLeft(logn, g00, g01, g11) ==
    LET ldl == fpoly_LDL_fft(logn, g00, g01, g11)
        Sub(d) == LET s == fpoly_split_selfadj_fft(logn, d)
                  IN  buildLDLTreeLeft(logn - 1, s.f0, s.f1, s.f0)
    IN  IF logn = 1
        THEN [logn |-> 1, l10 |-> ldl.l10, left |-> g00[0][1], right |-> ldl.d11[0][1]]
        ELSE [logn |-> logn, l10 |-> ldl.l10, left |-> Sub(g00), right |-> Sub(g00)]

RECURSIVE buildLDLTree(_, _, _, _)
buildLDLTree(logn, g00, g01, g11) ==
    LET ldl == fpoly_LDL_fft(logn, g00, g01, g11)
        Sub(d) == LET s == fpoly_split_selfadj_fft(logn, d)
                  IN  buildLDLTree(logn - 1, s.f0, s.f1, s.f0)
    IN  IF logn = 1
        THEN [logn |-> 1, l10 |-> ldl.l10, left |-> g00[0][1], right |-> ldl.d11[0][1]]
        ELSE [logn |-> logn, l10 |-> ldl.l10, left |-> Sub(g00), right |-> Sub(ldl.d11)]

RECURSIVE ffsamp_fft_precomputed_inner(_, _, _, _, _)
ffsamp_fft_precomputed_inner(d, node, t0, t1, asked) ==
    IF node.logn = 1
    THEN Bottom(d, t0, t1, node.l10[0], node.left, node.right, asked)
    ELSE LET logn == node.logn
             w1 == fpoly_split_fft(logn, t1)
             r1 == ffsamp_fft_precomputed_inner(d, node.right, w1.f0, w1.f1, asked)
             z1 == fpoly_merge_fft(logn, r1.t0, r1.t1)
             w0 == fpoly_split_fft(logn, Tb0(logn, t0, t1, z1, node.l10))
             r0 == ffsamp_fft_precomputed_inner(d, node.left, w0.f0, w0.f1, r1.asked)
         IN  [t0 |-> fpoly_merge_fft(logn, r0.t0, r0.t1), t1 |-> z1,
              asked |-> r0.asked]

-----------------------------------------------------------------------------
(* One signature by each signer on the same generator output.              *)

None == "none"

Init ==
    /\ key \in Keys
    /\ b = None /\ tree = None /\ hm = None /\ t = None /\ draw = None
    /\ dyn = None /\ pre = None /\ pt = None
    /\ pc = "basis"

\* basis_to_FFT, in either signer.
Basis ==
    /\ pc = "basis" /\ pc' = "tree"
    /\ b' = basis_to_FFT(LogN, key)
    /\ UNCHANGED <<key, tree, hm, t, draw, dyn, pre, pt>>

\* The end of newPrecomputedSignerInner.
Tree ==
    /\ pc = "tree" /\ pc' = "target"
    /\ LET m == fpoly_gram_fft(LogN, b)
       IN  tree' = buildLDLTree(LogN, m.g00, m.g01, m.g11)
    /\ UNCHANGED <<key, b, hm, t, draw, dyn, pre, pt>>

Target ==
    /\ pc = "target" /\ pc' = "dynamic"
    /\ hm' \in Points
    /\ t' = fpoly_apply_basis(LogN, b.b01, b.b11, hm')
    /\ UNCHANGED <<key, b, tree, draw, dyn, pre, pt>>

\* The dynamic signer computes the Gram matrix again.
SampleDynamic ==
    /\ pc = "dynamic" /\ pc' = "precomputed"
    /\ draw' \in Draws
    /\ LET m == fpoly_gram_fft(LogN, b)
       IN  dyn' = ffsamp_fft_inner(draw', LogN, t.t0, t.t1, m.g00, m.g01, m.g11, <<>>)
    /\ UNCHANGED <<key, b, tree, hm, t, pre, pt>>

SamplePrecomputed ==
    /\ pc = "precomputed" /\ pc' = "map"
    /\ pre' = ffsamp_fft_precomputed_inner(draw, tree, t.t0, t.t1, <<>>)
    /\ UNCHANGED <<key, b, tree, hm, t, draw, dyn, pt>>

\* Back to a point of the lattice: z0 * b00 + z1 * b10 and z0 * b01 + z1 * b11.
Map ==
    /\ pc = "map" /\ pc' = "done"
    /\ LET M(x, y) == fpoly_mul_fft(LogN, x, y)
       IN  pt' = [x |-> fpoly_iFFT(LogN, fpoly_add(LogN, M(pre.t0, b.b00), M(pre.t1, b.b10))),
                  y |-> fpoly_iFFT(LogN, fpoly_add(LogN, M(pre.t1, b.b11), M(pre.t0, b.b01)))]
    /\ UNCHANGED <<key, b, tree, hm, t, draw, dyn, pre>>

Next == Basis \/ Tree \/ Target \/ SampleDynamic \/ SamplePrecomputed \/ Map

Spec == Init /\ [][Next]_vars

-----------------------------------------------------------------------------
(* Properties.                                                             *)

Degree == 2^LogN

\* A polynomial as its coefficients.
Coeffs(f) == [j \in 0 .. Degree - 1 |-> IF j < hn(LogN) THEN f[j][1] ELSE f[j - hn(LogN)][2]]

\* Reference: the product modulo X^n + 1.
Product(x, y) ==
    LET Term(i, j) == IF i >= j THEN x[i - j] * y[j] ELSE -(x[i - j + Degree] * y[j])
        Sum(i) == LET p[j \in -1 .. Degree - 1] ==
                        IF j = -1 THEN 0 ELSE (p[j - 1] + Term(i, j)) % P
                  IN  p[Degree - 1]
    IN  [i \in 0 .. Degree - 1 |-> Sum(i)]

\* The basis is not changed by the transforms, and the target is
\* (1/q) * [-hm * F, hm * f], the coordinates of [hm, 0] in the basis.
TargetIsHashed ==
    pc = "dynamic" =>
        LET T(x) == Coeffs(fpoly_iFFT(LogN, x))
            Times(c, x) == [i \in 0 .. Degree - 1 |-> (c * x[i]) % P]
        IN  /\ Times(-Q, T(t.t0)) = Product(hm, key.F)
            /\ Times(Q, T(t.t1)) = Product(hm, key.f)

\* The signer that keeps the decomposition asks the sampler for the same
\* centres and leaves in the same order as the one that computes it for each
\* signature, and so returns the same vector from the same generator.
SamplersAgree == pc \in {"map", "done"} => pre = dyn

\* What is returned is made of the integers drawn, each a coefficient of z0 or
\* z1: splitting, sampling and merging leave no fraction.
PointIsIntegral ==
    pc = "precomputed" =>
        LET c1 == Coeffs(fpoly_iFFT(LogN, dyn.t1))
            c0 == Coeffs(fpoly_iFFT(LogN, dyn.t0))
            Drawn == {draw[k] % P : k \in 1 .. 2 * Degree}
        IN  /\ Len(dyn.asked) = 2 * Degree
            /\ \A j \in 0 .. Degree - 1 : c0[j] \in Drawn /\ c1[j] \in Drawn

\* The squared distance from the target to the point drawn is the sum, over
\* the calls of next, of the leaf times the squared distance of the integer
\* drawn from the centre asked for: each integer is drawn around the centre
\* that makes the vector short, with the deviation that belongs to it.
DistanceIsSum ==
    pc = "precomputed" =>
        LET m == fpoly_gram_fft(LogN, b)
            e0 == fpoly_sub(LogN, t.t0, dyn.t0)
            e1 == fpoly_sub(LogN, t.t1, dyn.t1)
            Cross(j) == flc_mulconj(flc_mul(e0[j], m.g01[j]), e1[j])[1]
            At(j) == m.g00[j][1] * NormC(e0[j]) + m.g11[j][1] * NormC(e1[j]) + 2 * Cross(j)
            Form[j \in -1 .. hn(LogN) - 1] == IF j = -1 THEN 0 ELSE (Form[j - 1] + At(j)) % P
            D(k) == dyn.asked[k].mu - draw[k]
            Sum[k \in 0 .. 2 * Degree] ==
                IF k = 0 THEN 0 ELSE (Sum[k - 1] + ((dyn.asked[k].leaf * D(k)) % P) * D(k)) % P
        IN  Form[hn(LogN) - 1] = (hn(LogN) * Sum[2 * Degree]) % P

\* What is rounded for the signature is the point z0 * [g, -f] + z1 * [G, -F]
\* of the lattice.
PointIsInLattice ==
    pc = "done" =>
        LET z0 == Coeffs(fpoly_iFFT(LogN, pre.t0))
            z1 == Coeffs(fpoly_iFFT(LogN, pre.t1))
            Plus(x, y) == [i \in 0 .. Degree - 1 |-> (x[i] + y[i]) % P]
        IN  /\ Coeffs(pt.x) = Plus(Product(z0, key.g), Product(z1, key.G))
            /\ [i \in 0 .. Degree - 1 |-> (-Coeffs(pt.y)[i]) % P]
                  = Plus(Product(z0, key.f), Product(z1, key.F))
=============================================================================
