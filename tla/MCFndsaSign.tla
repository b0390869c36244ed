---------------------------- MODULE MCFndsaSign -----------------------------
(* Signing and verifying.  A behaviour is one of FndsaNorm, FndsaModQ,     *)
(* FndsaCodec, FndsaFFT or FndsaSign: separate computations, which share   *)
(* no state.  What does not take part rests.                               *)
EXTENDS FndsaNorm, FndsaModQ, FndsaCodec, FndsaSign

VARIABLES
    part,
    key, basis, tree, hm, target, dyn, pre, pt              \* FndsaFFT, with draw

fftVars == <<key, basis, tree, hm, target, dyn, pre, pt>>
signersVars == <<req, at, cnt, s1, s2, sig, verdict>>   \* without draw

-----------------------------------------------------------------------------
(* FndsaModQ modulo 17: 3 has order 16, so the tables serve degrees to 8.  *)

MCPolys == [0 .. 2^LogN - 1 -> {-4, 0, 1}]
MCThirds == {[k \in 0 .. 2^LogN - 1 |-> c[k % 2]] : c \in [0 .. 1 -> {-3, 2}]}

-----------------------------------------------------------------------------
(* FndsaFFT at degree 8 over the field of 127 elements, whose complex      *)
(* numbers of norm 1 are the 128th roots of unity; f*G - g*F = 17.         *)

At0(l) == [j \in 0 .. Len(l) - 1 |-> l[j + 1]]
Key(f_, g_, F_, G_) == [f |-> At0(f_), g |-> At0(g_), F |-> At0(F_), G |-> At0(G_)]

FFTKeys == {
    Key(<<1, 1, -1, 2, 0, -1, 0, -1>>, <<2, 2, 2, -2, 2, -3, 1, -3>>,
        <<-14, 3, -7, 0, 1, -8, 2, 1>>, <<2, -24, 4, -27, 18, -10, 12, 2>>),
    Key(<<2, 0, 0, -1, -1, 0, 0, 0>>, <<1, 0, 1, 1, 0, 0, 0, 2>>,
        <<-19, -5, -2, 0, 0, 0, -1, -4>>, <<5, 0, 0, 1, -1, 0, 4, -21>>),
    Key(<<1, 1, -1, 1, -1, 1, 1, 1>>, <<1, 0, -4, 2, 2, 2, 0, 0>>,
        <<-18, -1, 1, -5, -1, 3, -7, 3>>, <<-21, -2, 5, -25, -25, 7, 7, -1>>),
    Key(<<-1, 2, -1, 0, 0, -1, 0, 2>>, <<4, -2, -2, 1, 2, -3, 3, 1>>,
        <<-12, 7, -2, -4, -6, 1, 6, 2>>, <<1, -9, -1, -16, 22, -1, 0, 9>>)}

FFTPoints == {At0(<<3, 0, 16, 1, 7, 12, 5, 9>>), At0(<<0, 0, 0, 0, 0, 1, 0, 0>>)}

FFTDraws == {[k \in 1 .. 16 |-> IF k \in S THEN k - 6 ELSE 1 - k] :
                S \in {{}, 1 .. 8, {k \in 1 .. 16 : k % 2 = 0}, {1, 4, 11, 16}, {3, 9, 10},
                       {2, 5, 6, 7, 12, 15}, {8, 9, 14}, {16}, {1}, 9 .. 16}}

FFT == INSTANCE FndsaFFT
    WITH P <- 127, Unit <- <<21, 24>>, LogN <- 3,
         Keys <- FFTKeys, Points <- FFTPoints, Draws <- FFTDraws,
         b <- basis, t <- target, pc <- step

-----------------------------------------------------------------------------
(* FndsaSign modulo 17 with the key f = 3, g = 2, F = -1, G = 5.  Two      *)
(* rounds; of the 27 draws some are short, some too long, some short but   *)
(* not encodable (s2 beyond 4), one as long as the bound.                  *)

MCBigF == -1
MCSamples == {-1, 0, 2}

ASSUME SignAssumption

-----------------------------------------------------------------------------
RestModQ ==
    op = "rest" /\ x = <<>> /\ y = <<>> /\ z = <<>> /\ t0 = <<>> /\ t1 = <<>>
      /\ ok = TRUE /\ small = <<>>
RestCodec ==
    first = "rest" /\ phase = "rest" /\ poly = <<>> /\ src = <<>> /\ out = <<>>
      /\ acc = 0 /\ acc_len = 0 /\ idx = 0 /\ neg = 0 /\ mag = 0 /\ len = 0
RestFFT ==
    key = <<>> /\ basis = <<>> /\ tree = <<>> /\ hm = <<>> /\ target = <<>> /\ dyn = <<>>
      /\ pre = <<>> /\ pt = <<>>
RestSign == req = "original" /\ SignersStart

MCInit ==
    /\ Init
    /\ part \in {"norm", "modq", "codec", "fft", "sign"}
    /\ IF part = "modq" THEN ModQInit ELSE RestModQ
    /\ IF part = "codec" THEN CodecInit ELSE RestCodec
    /\ IF part = "fft" THEN FFT!Init ELSE RestFFT
    /\ IF part = "sign" THEN SignInit ELSE RestSign
    /\ part \in {"norm", "codec", "sign"} => step = "rest"
    /\ part \in {"norm", "modq", "codec"} => draw = <<>>

NormStep ==
    part = "norm" /\ Next
      /\ UNCHANGED <<part, modqVars, codecVars, fftVars, signVars>>
ModQStep ==
    part = "modq" /\ ModQNext
      /\ UNCHANGED <<part, vars, codecVars, fftVars, signVars>>
CodecStep ==
    part = "codec" /\ CodecNext
      /\ UNCHANGED <<part, vars, modqVars, fftVars, signVars>>
FFTStep ==
    part = "fft" /\ FFT!Next
      /\ UNCHANGED <<part, vars, op, x, y, z, t0, t1, ok, small, codecVars, signersVars>>
SignStep ==
    part = "sign" /\ SignNext /\ UNCHANGED <<part, vars, modqVars, codecVars, fftVars>>

MCSpec ==
    MCInit /\ [][NormStep \/ ModQStep \/ CodecStep \/ FFTStep \/ SignStep]_
                  <<part, vars, modqVars, codecVars, fftVars, signVars>>

-----------------------------------------------------------------------------
(* The properties of FndsaFFT, which is not extended, and of FndsaModQ.    *)

\* The words of a verification and of the recomputation of a key stand for the
\* product, quotient and difference of the polynomials.
ModQExact == VerifyComputesS1 /\ KeyIsRecomputed

\* Both samplers ask for the same centres and leaves in the same order.
SamplersAgree == part = "fft" => FFT!SamplersAgree

\* The integers are drawn around the centres that make the vector short, from
\* the target of the hashed message, and the point made of them is one of the
\* lattice.
NearestPlane ==
    part = "fft" =>
        /\ FFT!TargetIsHashed /\ FFT!PointIsIntegral
        /\ FFT!DistanceIsSum /\ FFT!PointIsInLattice
=============================================================================
