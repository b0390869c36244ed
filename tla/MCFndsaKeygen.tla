--------------------------- MODULE MCFndsaKeygen ----------------------------
(* Key generation, and the arithmetic and generator under it.  A behaviour *)
(* is one of FndsaPrng, FndsaRns, FndsaKeys, FndsaNtru, FndsaBezout,       *)
(* FndsaLayout, FndsaFloat or FndsaFixed: separate computations, which     *)
(* share no state.  FndsaNtru, FndsaBezout, FndsaLayout and FndsaFloat use *)
(* the same variables w1 to w11, only one of them at a time; what does not *)
(* take part rests.                                                        *)
EXTENDS FndsaPrng, FndsaRns, FndsaKeys, FndsaFixed

VARIABLES part, w1, w2, w3, w4, w5, w6, w7, w8, w9, w10, w11

wVars == <<w1, w2, w3, w4, w5, w6, w7, w8, w9, w10, w11>>

-----------------------------------------------------------------------------
(* FndsaPrng with a buffer of five bytes and words of one, two and four;   *)
(* six buffers have every alignment of a word with the end of a buffer.    *)

MCWidths == {1, 2, 4}

-----------------------------------------------------------------------------
(* FndsaRns with limbs of 7 bits; degree 2 below degree 4.                 *)

MCPrimes == <<113, 97, 89>>

Poly(a, b) == [j \in 0 .. 1 |-> IF j = 0 THEN a ELSE b]
Poly4(a, b, c, d) == [j \in 0 .. 3 |-> <<a, b, c, d>>[j + 1]]

\* v in l limbs.
ToLimbs(v, l) == [i \in 1 .. l |-> (v \div 2^(W * (i - 1))) % 2^W]
Of(a, b, l) == Poly(ToLimbs(a, l), ToLimbs(b, l))

MCTopPolys == {Poly4(1, 0, 0, 0), Poly4(-3, 5, 2, -4), Poly4(7, 6, -1, 5), Poly4(0, -6, 7, 6)}

MCTargets ==
    {Of(a, b, 1) : a \in {0, 21, 63, -64}, b \in {-1, -56, 50}}
    \cup {Of(a, b, 2) : a \in {0, 5000, 127, -128}, b \in {-1, -5479, 8191}}
    \cup {Of(a, b, 3) : a \in {0, 600000, 16384}, b \in {-1, -16385, -1048576}}

MCQuotients == {Poly(0, 0), Poly(1, -1), Poly(-88, 63), Poly(17, 2), Poly(-56, 41)}

-----------------------------------------------------------------------------
(* FndsaKeys with eight coefficients, which fill whole bytes at any width: *)
(* 8 bits (2^4, 2^5), 7 (2^6, 2^7), 6 (2^8, 2^9) and 5 (2^10).  Values are *)
(* at the largest sample of a degree and at the bounds of the field; seven *)
(* equal neighbours meet every alignment with a byte.                      *)

KeyValues == {-127, -96, -63, -31, -12, 0, 17, 1, 48, 64, 129}
KeyPolys == {[c \in 1 .. 8 |-> IF c = 1 THEN v ELSE w] : v \in KeyValues, w \in {-31, 0, 12}}

\* Files for every degree: any six bytes for f, repeated if it is longer, and the
\* same for g; and among a few of them wrong headers, wrong lengths and files cut
\* off early.
File(head, fg, len) == <<head>> \o fg \o fg \o [c \in 1 .. len |-> fg[1]]
Bytes(lg, some) ==
    {[c \in 1 .. Needed(nbits_fg(lg)) |-> six[1 + ((c - 1) % 6)]] : six \in [1 .. 6 -> some]}

FilesOf(lg) ==
    {File(80 + lg, fg, N) : fg \in Bytes(lg, {1, 128, 255})}
    \cup {File(head, fg, len) : head \in {80 + lg, 16 + lg}, len \in {0, N - 1, N, N + 1},
                                fg \in Bytes(lg, {1}) \cup Bytes(lg, {128})}
    \cup {<<80 + lg>>, <<80 + lg, 1>>}

KeyFiles == {<<>>} \cup UNION {FilesOf(lg) : lg \in LogNs}

-----------------------------------------------------------------------------
(* FndsaNtru at degree 8, with words of 9 bits and sizes that some inputs  *)
(* exceed: pairs that are solved, and some for each way of failing.        *)

Poly8(l) == [c \in 0 .. 7 |-> l[c + 1]]

NtruInputs ==
    {<<Poly8(<<1, 1, 0, 0, 1, 0, 0, 0>>), Poly8(<<1, 0, 0, 0, 0, 0, 0, 0>>)>>,
     <<Poly8(<<1, 0, 0, 0, 0, 0, 0, 0>>), Poly8(<<1, 1, 1, 1, 1, 0, 0, 0>>)>>,
     <<Poly8(<<0, 0, 0, 0, -1, 0, 0, 0>>), Poly8(<<0, 0, 0, 0, -1, 0, 1, -1>>)>>,
     <<Poly8(<<1, 1, 0, 1, 0, 0, 0, 0>>), Poly8(<<1, 0, 1, 0, 0, 1, 0, 0>>)>>,
     <<Poly8(<<0, 1, 1, 1, 0, 0, 0, 0>>), Poly8(<<1, 0, 0, 0, -1, 0, -1, 0>>)>>,
     <<Poly8(<<-1, -1, 0, -1, 0, 0, 0, 0>>), Poly8(<<0, 0, 1, 1, 0, 0, 1, 0>>)>>,
     <<Poly8(<<1, -1, 0, 0, -1, -2, 1, -1>>), Poly8(<<0, 0, 0, 1, 1, 0, 2, 1>>)>>,
     <<Poly8(<<0, 0, 1, 1, 0, 0, 0, -1>>), Poly8(<<-2, -2, 1, -1, 0, -1, -1, -1>>)>>,
     <<Poly8(<<1, 0, 0, 1, 2, 0, 0, 1>>), Poly8(<<0, -2, 0, 0, -1, 0, 0, 0>>)>>,
     <<Poly8(<<0, -1, 0, 0, -1, 0, -1, 0>>), Poly8(<<-1, 1, -1, -1, 0, 1, 1, 1>>)>>,
     <<Poly8(<<0, 1, 2, 1, 2, 0, 1, 0>>), Poly8(<<1, -2, -1, -2, 1, -1, 0, -1>>)>>}

Ntru == INSTANCE FndsaNtru
    WITH LogN <- 3, q <- 17, W <- 9, primes <- <<449, 433, 401, 353>>,
         max_bl_small <- [d \in 0 .. 3 |-> <<1, 1, 1, 2>>[d + 1]],
         max_bl_large <- [d \in 0 .. 2 |-> <<1, 2, 2>>[d + 1]],
         word_win <- [d \in 0 .. 2 |-> 1], reduce_bits <- 4, lim <- 12, I8 <- 5,
         Inputs <- NtruInputs, Slips <- {-1, 0, 1},
         f <- w1, g <- w2, fg <- w3, depth <- w4, F <- w5, G <- w6, scale_FG <- w7,
         FGlen <- w8, lost <- w9, pc <- w10, ret <- w11

-----------------------------------------------------------------------------
(* FndsaBezout with three limbs, so that an approximation leaves limbs out. *)

BezoutXs == {1, 3, 9, 45, 63, 65, 77, 255, 257, 343, 421, 509, 511, 64}
BezoutYs == {2 * c + 1 : c \in 1 .. 255} \cup {38, 510}

Bezout == INSTANCE FndsaBezout
    WITH W <- 3, len <- 3, Xs <- BezoutXs, Ys <- BezoutYs,
         x <- w1, y <- w2, a <- w3, b <- w4, u0 <- w5, v0 <- w6, u1 <- w7, v1 <- w8,
         num <- w9, ok <- w10, pc <- w11

-----------------------------------------------------------------------------
(* FndsaLayout for every degree of the program.                            *)

Layout == INSTANCE FndsaLayout
    WITH Degrees <- 2 .. 10,
         logn_top <- w1, depth <- w2, sav_off <- w3, saved <- w4, loaded <- w5,
         top <- w6, fxr_top <- w7, FGlen <- w8, scale_FG <- w9, pc <- w10

-----------------------------------------------------------------------------
(* FndsaFloat with mantissas of 4 bits and exponents 13 apart, so that an  *)
(* operand can be shifted out altogether.                                  *)

FloatOperands ==
    {512 * v + 16 * e + m : v \in 0 .. 1, e \in {9, 10, 12, 15, 16, 21, 22}, m \in 0 .. 15}
    \cup {0, 512}

Float == INSTANCE FndsaFloat
    WITH P <- 4, E <- 5, Operands <- FloatOperands, Counts <- {0, 1, 2, 5},
         x <- w1, y <- w2, op <- w3, z <- w4

ASSUME Float!PAssumption /\ Float!EAssumption

-----------------------------------------------------------------------------
RestRns ==
    ft = none /\ F = none /\ k = none /\ sc = 0 /\ fn = none /\ f = none
      /\ op = "rest" /\ r = none
RestKeys ==
    degree = 0 /\ weak = FALSE /\ origin = "rest" /\ kf = Unset /\ kg = Unset /\ kF = Unset
      /\ skey = <<>> /\ loaded = Unset /\ pc = "rest"
RestFixed ==
    lhs = 0 /\ lhs_im = 0 /\ rhs = 0 /\ rhs_im = 0 /\ fxop = "rest" /\ res = <<>>

Rest5 == w5 = 0 /\ w6 = 0 /\ w7 = 0 /\ w8 = 0 /\ w9 = 0 /\ w10 = 0 /\ w11 = 0
Rest1 == w1 = 0 /\ w2 = 0 /\ w3 = 0 /\ w4 = 0 /\ Rest5

Parts == {"prng", "rns", "keys", "ntru", "bezout", "layout", "float", "fixed"}

MCInit ==
    /\ Init
    /\ part \in Parts
    /\ IF part = "rns" THEN RnsInit ELSE RestRns
    /\ IF part = "keys" THEN KeysInit ELSE RestKeys
    /\ IF part = "fixed" THEN FixedInit ELSE RestFixed
    /\ CASE part = "ntru" -> Ntru!Init
         [] part = "bezout" -> Bezout!Init
         [] part = "layout" -> Layout!Init /\ w11 = 0
         [] part = "float" -> Float!Init /\ Rest5
         [] OTHER -> Rest1

PrngStep == part = "prng" /\ Next /\ UNCHANGED <<part, rnsVars, keysVars, fixedVars, wVars>>
RnsStep == part = "rns" /\ RnsNext /\ UNCHANGED <<part, vars, keysVars, fixedVars, wVars>>
KeysStep == part = "keys" /\ KeysNext /\ UNCHANGED <<part, vars, rnsVars, fixedVars, wVars>>
FixedStep == part = "fixed" /\ FixedNext /\ UNCHANGED <<part, vars, rnsVars, keysVars, wVars>>

\* A step of a part that uses w1 to w11.
Shared(p) == part = p /\ UNCHANGED <<part, vars, rnsVars, keysVars, fixedVars>>

NtruStep == Shared("ntru") /\ Ntru!Next
BezoutStep == Shared("bezout") /\ Bezout!Next
LayoutStep == Shared("layout") /\ Layout!Next /\ UNCHANGED w11
FloatStep ==
    Shared("float") /\ Float!Next /\ UNCHANGED <<w5, w6, w7, w8, w9, w10, w11>>

MCNext ==
    \/ PrngStep \/ RnsStep \/ KeysStep \/ NtruStep
    \/ BezoutStep \/ LayoutStep \/ FloatStep \/ FixedStep

\* solve_NTRU is a sequential function: while it can take a step it does.
MCSpec ==
    MCInit /\ [][MCNext]_<<part, vars, rnsVars, keysVars, fixedVars, wVars>> /\ WF_wVars(NtruStep)

-----------------------------------------------------------------------------
(* The properties of the modules that are not extended, and of FndsaRns.   *)

\* Residues and limbs stand for the integers they should: norms are exact, the
\* three subtractions agree, lengths are the largest and approximations are
\* rounded down.
IntegersExact == NormIsExact /\ SubtractionsAgree /\ LengthIsMax /\ FixedIsFloor

\* A pair F, G that is returned solves the equation over the integers, and only
\* what was truncated on the way can spoil it.
SolutionsExact == part = "ntru" => Ntru!SolutionIsExact /\ Ntru!ExactUnlessLost

\* zint_bezout succeeds exactly for odd and coprime operands: its numbers stay
\* combinations of them and lose W bits in every iteration.
BezoutCorrect ==
    part = "bezout" => Bezout!Combinations /\ Bezout!BezoutResult /\ Bezout!Shrinks

\* No step of solve_NTRU leaves its buffers or writes over what is still needed,
\* and its scales are ones the arithmetic can handle.
BuffersHold ==
    part = "layout" =>
        Layout!InBounds /\ Layout!NormsAreFound /\ Layout!WindowInUse /\ Layout!FactorComesOff

\* Emulated floating point is rounded to nearest even; sums and products that
\* are zero have the signs of IEEE 754, and quotients are positive; conversions
\* round as their names say, powers of 2 are exact.
FloatsRounded ==
    part = "float" =>
        /\ Float!ArithmeticRounded /\ Float!ZeroSums
        /\ Float!IntegersRounded /\ Float!PowersExact

Solving == part = "ntru"
Solved == part = "ntru" /\ Ntru!Ended

\* The reductions of solve_NTRU come to an end, and so does the call.
Terminates == Solving ~> Solved
=============================================================================
