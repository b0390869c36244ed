\* FndsaNorm: squares up to 64 need half a word of at least 128, so Half = 128; five
\* of them reach 320, past the word.  s2 reaches 5 * 49 = 245 of 256.
\* FndsaModQ: half words of 5 bits leave 17 * 17 below the word range, as 16 do for
\* 12289.  Degree 4: the transform has two levels.  A small coefficient is at most 3
\* (127 in the program): -4 is out of range.
\* FndsaCodec with bytes of three bits: the unary part has up to three.  The accumulator
\* holds 3 + 3 bits of a coefficient after 2 pending ones, 8 of 9; the program has
\* 24 + 7 = 31 bits of 32, one to spare.
SPECIFICATION MCSpec
CONSTANTS
    Half = 128  Q = 17  N = 5  MaxS2 = 7  SqBeta = 60
    H = 5  q = 17  LogN = 2  G = 3  MaxLogN = 3  Bits = 3
    Polys <- MCPolys  Thirds <- MCThirds
    Byte = 3  AccWidth = 9  MaxAbs = 11  NCoeffs = 2  Lengths = {3, 4, 5}
    Modulus = 17  f = 3  g = 2  BigF <- MCBigF  BigG = 5
    Points = {0, 6, 13}  Samples <- MCSamples  MaxCounter = 1
    Bound = 53  HalfWord = 2048  IntRange = 32  MaxCoeff = 4
INVARIANTS
    VerdictIsExact ModQExact CodecCanonical SamplersAgree NearestPlane SignersCorrect
CHECK_DEADLOCK FALSE
