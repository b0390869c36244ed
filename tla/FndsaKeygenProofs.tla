------------------------- MODULE FndsaKeygenProofs --------------------------
(***************************************************************************)
(* The generator under key generation and signing: what is read is the     *)
(* SHAKE256 output, for every buffer length and every set of read widths.  *)
(*                                                                         *)
(* The fixed-point numbers of the key generator, for every width: products *)
(* are rounded down, quotients to nearest, and complex products are close. *)
(* A word stands for the number Signed; words and numbers differ by a      *)
(* multiple of WordSize, and a number that is representable has one word.  *)
(*                                                                         *)
(* The keys: trim_i8_encode and trim_i8_decode undo each other for every   *)
(* width and every number of coefficients that fill whole bytes, so that a *)
(* signer loads what was generated and accepts one key for it.  Bytes are  *)
(* digits to base 2^8, truncated coefficients digits to base 2^nbits, and  *)
(* both strings of digits stand for the same number.                       *)
(***************************************************************************)
EXTENDS FndsaPrng, FndsaKeys, FndsaFixed, FndsaLemmas

-----------------------------------------------------------------------------
(* FndsaPrng.                                                              *)

\* Where the generator is in the stream: the next unread byte of the buffer
\* is the byte after the last one delivered, and the sponge continues where
\* the buffer ends.
Position ==
    /\ taken + Len(word) = IF squeezed = 0 THEN 0 ELSE base + ptr
    /\ squeezed = 0 => ptr = BufLen
    /\ squeezed # 0 => squeezed = base + BufLen

LEMMA Inductive ==
    /\ Init => TypeOK /\ Position /\ StreamInOrder
    /\ TypeOK /\ Position /\ StreamInOrder /\ [Next]_vars
         => (TypeOK /\ Position /\ StreamInOrder)'
<1> USE PrngAssumption
<1>1. Init => TypeOK /\ Position /\ StreamInOrder
  BY DEF Init, TypeOK, Position, StreamInOrder
<1>2. ASSUME TypeOK, Position, StreamInOrder, [Next]_vars
      PROVE  (TypeOK /\ Position /\ StreamInOrder)'
  <2>1. CASE next_u8
    <3>1. PICK b \in Nat :
            /\ word' = Append(word, b)
            /\ b = taken + Len(word)
            /\ base' \in Nat /\ squeezed' \in Nat /\ ptr' \in 0 .. BufLen
            /\ squeezed' # 0 /\ squeezed' = base' + BufLen
            /\ b + 1 = base' + ptr'
      <4>1. CASE ptr = BufLen
        <5>. squeezed \in Nat
          BY <1>2 DEF TypeOK
        <5>. WITNESS squeezed \in Nat
        <5>. QED
          BY <4>1, <2>1, <1>2 DEF next_u8, TypeOK, Position
      <4>2. CASE ptr # BufLen
        <5>. base + ptr \in Nat
          BY <1>2 DEF TypeOK
        <5>. WITNESS base + ptr \in Nat
        <5>. QED
          BY <4>2, <2>1, <1>2 DEF next_u8, TypeOK, Position
      <4>. QED
        BY <4>1, <4>2
    <3>2. /\ Len(word') = Len(word) + 1 /\ word' \in Seq(Nat)
          /\ \A k \in 1 .. Len(word) : word'[k] = word[k]
          /\ word'[Len(word) + 1] = b
      BY <3>1, <1>2 DEF TypeOK
    <3>3. taken' = taken /\ left' \in Nat /\ taken \in Nat /\ Len(word) \in Nat
      BY <2>1, <1>2 DEF next_u8, TypeOK
    <3>4. StreamInOrder'
      <4>. SUFFICES ASSUME NEW k \in 1 .. Len(word) + 1
                    PROVE  word'[k] = taken + k - 1
        BY <3>2, <3>3 DEF StreamInOrder
      <4>1. CASE k = Len(word) + 1
        BY <4>1, <3>1, <3>2, <3>3
      <4>2. CASE k \in 1 .. Len(word)
        BY <4>2, <3>2, <1>2 DEF StreamInOrder
      <4>. QED
        BY <4>1, <4>2, <3>3
    <3>5. TypeOK'
      BY <3>1, <3>2, <3>3 DEF TypeOK
    <3>6. taken' + Len(word') = base' + ptr'
      BY <3>1, <3>2, <3>3
    <3>. QED
      BY <3>1, <3>4, <3>5, <3>6 DEF Position
  <2>2. ASSUME NEW w \in Widths, NextBuffered(w)
        PROVE  (TypeOK /\ Position /\ StreamInOrder)'
    <3>1. w \in Nat \ {0} /\ ptr < BufLen - (w - 1) /\ squeezed # 0
      BY <2>2, <1>2 DEF NextBuffered, Straddles, TypeOK, Position
    <3>2. /\ word' = [k \in 1 .. w |-> base + ptr + k - 1]
          /\ taken' = taken + Len(word) /\ ptr' = ptr + w
          /\ UNCHANGED <<base, squeezed, left>>
      BY <2>2 DEF NextBuffered
    <3>3. word' \in Seq(Nat) /\ Len(word') = w
      BY <3>1, <3>2, <1>2 DEF TypeOK
    <3>4. taken' = base + ptr /\ taken' \in Nat /\ ptr' \in 0 .. BufLen
      BY <3>1, <3>2, <1>2 DEF TypeOK, Position
    <3>5. StreamInOrder'
      BY <3>1, <3>2, <3>3, <3>4 DEF StreamInOrder
    <3>6. TypeOK'
      BY <3>2, <3>3, <3>4, <1>2 DEF TypeOK
    <3>7. Position'
      BY <3>1, <3>2, <3>3, <3>4, <1>2 DEF Position, TypeOK
    <3>. QED
      BY <3>5, <3>6, <3>7
  <2>3. ASSUME NEW w \in Widths, NextByBytes(w)
        PROVE  (TypeOK /\ Position /\ StreamInOrder)'
    <3>1. word' = <<>> /\ taken' = taken + Len(word) /\ left' = w
          /\ UNCHANGED <<base, ptr, squeezed>>
      BY <2>3 DEF NextByBytes
    <3>2. Len(word') = 0 /\ word' \in Seq(Nat)
      BY <3>1
    <3>3. Len(word) \in Nat /\ w \in Nat
      BY <1>2 DEF TypeOK
    <3>. QED
      BY <3>1, <3>2, <3>3, <1>2 DEF TypeOK, Position, StreamInOrder
  <2>4. CASE UNCHANGED vars
    BY <2>4, <1>2 DEF vars, TypeOK, Position, StreamInOrder
  <2>. QED
    BY <1>2, <2>1, <2>2, <2>3, <2>4 DEF Next
<1>. QED
  BY <1>1, <1>2

\* Every read of every width returns the next bytes of the SHAKE256 output,
\* and no index leaves the buffer.
THEOREM Stream == Spec => [](TypeOK /\ StreamInOrder)
<1>. QED
  BY Inductive, PTL DEF Spec

-----------------------------------------------------------------------------
(* FndsaFixed: words and numbers.                                          *)

LEMMA FixedFacts ==
    /\ H \in Nat /\ H - 1 \in Nat /\ One \in Nat \ {0} /\ One = 2 * Pow2[H - 1]
    /\ Pow2[H - 1] \in Nat \ {0}
    /\ Max \in Nat \ {0} /\ WordSize = 2 * Max /\ WordSize = One * One /\ WordSize \in Nat \ {0}
    /\ Max = Pow2[H - 1] * One
<1>1. H \in Nat /\ H - 1 \in Nat /\ 2 * H \in Nat /\ 2 * H - 1 \in Nat
  BY FixedAssumption
<1>2. (H - 1) + 1 = H /\ (2 * H - 1) + 1 = 2 * H /\ H + H = 2 * H /\ (H - 1) + H = 2 * H - 1
  BY <1>1
<1>3. One \in Nat \ {0} /\ Max \in Nat \ {0} /\ Pow2[H - 1] \in Nat \ {0}
  BY <1>1, Pow2Nat, Zenon DEF One, Max
<1>4. One = 2 * Pow2[H - 1]
  <2>1. Pow2[(H - 1) + 1] = 2 * Pow2[H - 1]
    BY <1>1, Pow2Next, Zenon
  <2>. QED  BY <1>2, <2>1, Zenon DEF One
<1>5. WordSize = 2 * Max
  <2>1. Pow2[(2 * H - 1) + 1] = 2 * Pow2[2 * H - 1]
    BY <1>1, Pow2Next, Zenon
  <2>. QED  BY <1>2, <2>1, Zenon DEF WordSize, Max
<1>6. WordSize = One * One
  <2>1. Pow2[H + H] = Pow2[H] * Pow2[H]
    BY <1>1, Pow2Add, Zenon
  <2>. QED  BY <1>2, <2>1, Zenon DEF WordSize, One
<1>7. Max = Pow2[H - 1] * One
  <2>1. Pow2[(H - 1) + H] = Pow2[H - 1] * Pow2[H]
    BY <1>1, Pow2Add, Zenon
  <2>. QED  BY <1>2, <2>1, Zenon DEF Max, One
<1>. QED
  BY <1>1, <1>3, <1>4, <1>5, <1>6, <1>7

LEMMA WrapFacts ==
    ASSUME NEW v \in Int
    PROVE  /\ Wrap(v) \in 0 .. WordSize - 1 /\ v \div WordSize \in Int
           /\ v = WordSize * (v \div WordSize) + Wrap(v)
BY FixedFacts, DivMod DEF Wrap

LEMMA WrapUnique ==
    ASSUME NEW w \in 0 .. WordSize - 1, NEW k \in Int
    PROVE  Wrap(WordSize * k + w) = w
<1>1. WordSize \in Nat \ {0}
  BY FixedFacts
<1>2. WordSize * k + w \in Int /\ w \in Int
  BY <1>1
<1>. QED
  BY <1>1, <1>2, DivModUnique DEF Wrap

LEMMA WrapSame ==
    ASSUME NEW v \in Int, NEW k \in Int
    PROVE  Wrap(v + WordSize * k) = Wrap(v)
<1>. DEFINE y == v \div WordSize
            w == Wrap(v)
<1>1. w \in 0 .. WordSize - 1 /\ y \in Int /\ v = WordSize * y + w /\ WordSize \in Nat
  BY WrapFacts, FixedFacts
<1>. HIDE DEF y, w
<1>2. WordSize * y + w + WordSize * k = WordSize * (y + k) + w
  BY <1>1
<1>3. Wrap(WordSize * (y + k) + w) = w
  <2>1. y + k \in Int
    BY <1>1
  <2>. QED  BY <1>1, <2>1, WrapUnique, Zenon
<1>. QED
  BY <1>1, <1>2, <1>3 DEF w

LEMMA SignFacts ==
    ASSUME NEW w \in 0 .. WordSize - 1
    PROVE  /\ Sign(w) = (IF w < Max THEN 0 ELSE 1)
           /\ Signed(w) = (IF w < Max THEN w ELSE w - WordSize)
           /\ Signed(w) \in Int /\ Signed(w) \in -Max .. Max - 1
<1>1. Max \in Nat \ {0} /\ WordSize = 2 * Max /\ w \in Int
  BY FixedFacts
<1>2. CASE w < Max
  <2>1. w = Max * 0 + w /\ w \in 0 .. Max - 1 /\ 0 \in Int
    BY <1>1, <1>2
  <2>2. Sign(w) = 0
    BY <1>1, <2>1, DivModUnique, Zenon DEF Sign, Max
  <2>. QED  BY <1>1, <1>2, <2>2 DEF Signed
<1>3. CASE ~(w < Max)
  <2>. DEFINE r == w - Max
  <2>1. w = Max * 1 + r /\ r \in 0 .. Max - 1 /\ 1 \in Int
    BY <1>1, <1>3
  <2>2. Sign(w) = 1
    <3>. HIDE DEF r
    <3>. QED  BY <1>1, <2>1, DivModUnique, Zenon DEF Sign, Max
  <2>. QED  BY <1>1, <1>3, <2>2 DEF Signed
<1>. QED
  BY <1>2, <1>3

\* A representable number is the one its word stands for.
LEMMA SignedWrap ==
    ASSUME NEW v \in Int, Representable(v)
    PROVE  /\ Signed(Wrap(v)) = v /\ Wrap(v) \in 0 .. WordSize - 1
           /\ Sign(Wrap(v)) = IF v < 0 THEN 1 ELSE 0
<1>1. Max \in Nat \ {0} /\ WordSize = 2 * Max /\ -Max <= v /\ v < Max
  BY FixedFacts DEF Representable
<1>2. CASE v >= 0
  <2>1. v \in 0 .. WordSize - 1 /\ v = WordSize * 0 + v
    BY <1>1, <1>2
  <2>2. Wrap(v) = v
    <3>1. Wrap(WordSize * 0 + v) = v
      BY <2>1, WrapUnique
    <3>. QED  BY <2>1, <3>1, Zenon
  <2>. QED  BY <1>1, <1>2, <2>1, <2>2, SignFacts
<1>3. CASE v < 0
  <2>. DEFINE w == v + WordSize
  <2>1. w \in 0 .. WordSize - 1 /\ v = WordSize * (-1) + w /\ w >= Max /\ v = w - WordSize
    BY <1>1, <1>3
  <2>. HIDE DEF w
  <2>2. Wrap(v) = w
    <3>1. Wrap(WordSize * (-1) + w) = w
      BY <2>1, WrapUnique
    <3>. QED  BY <2>1, <3>1, Zenon
  <2>3. Sign(w) = 1 /\ Signed(w) = w - WordSize
    BY <1>1, <2>1, SignFacts
  <2>. QED  BY <1>3, <2>1, <2>2, <2>3
<1>. QED
  BY <1>2, <1>3

\* A number and its word differ by a multiple of WordSize.
LEMMA WordOf ==
    ASSUME NEW w \in 0 .. WordSize - 1
    PROVE  \E k \in Int : w = Signed(w) + WordSize * k
<1>1. WordSize \in Nat
  BY FixedFacts
<1>2. CASE w < Max
  <2>1. Signed(w) = w
    BY <1>2, SignFacts
  <2>2. w = w + WordSize * 0 /\ 0 \in Int
    BY <1>1
  <2>. QED  BY <2>1, <2>2
<1>3. CASE ~(w < Max)
  <2>1. Signed(w) = w - WordSize
    BY <1>3, SignFacts
  <2>2. w = (w - WordSize) + WordSize * 1 /\ 1 \in Int
    BY <1>1
  <2>. QED  BY <2>1, <2>2
<1>. QED
  BY <1>2, <1>3

\* The sum of two words is the word of the sum.
LEMMA WordSum ==
    ASSUME NEW a \in 0 .. WordSize - 1, NEW b \in 0 .. WordSize - 1
    PROVE  /\ Wrap(a + b) = Wrap(Signed(a) + Signed(b))
           /\ Wrap(a - b) = Wrap(Signed(a) - Signed(b))
<1>. DEFINE x == Signed(a)
            y == Signed(b)
<1>1. x \in Int /\ y \in Int /\ WordSize \in Nat
  BY SignFacts, FixedFacts
<1>2. PICK j \in Int : a = x + WordSize * j
  BY WordOf
<1>3. PICK k \in Int : b = y + WordSize * k
  BY WordOf
<1>. HIDE DEF x, y
<1>4. a + b = (x + y) + WordSize * (j + k) /\ a - b = (x - y) + WordSize * (j - k)
  BY <1>1, <1>2, <1>3
<1>5. Wrap((x + y) + WordSize * (j + k)) = Wrap(x + y)
  <2>1. x + y \in Int /\ j + k \in Int
    BY <1>1
  <2>. QED  BY <2>1, WrapSame, Zenon
<1>6. Wrap((x - y) + WordSize * (j - k)) = Wrap(x - y)
  <2>1. x - y \in Int /\ j - k \in Int
    BY <1>1
  <2>. QED  BY <2>1, WrapSame, Zenon
<1>. QED
  BY <1>4, <1>5, <1>6, Zenon DEF x, y

-----------------------------------------------------------------------------
(* FndsaFixed: products.                                                   *)

\* The middle of a double word is the word of the number shifted down.
LEMMA MiddleWord ==
    ASSUME NEW hi \in Int, NEW k \in Int, NEW lo \in 0 .. WordSize - 1
    PROVE  Middle(hi + WordSize * k, lo) = Wrap((WordSize * hi + lo) \div One)
<1>. DEFINE U == One
            e == lo \div U
            r == lo % U
<1>1. U \in Nat \ {0} /\ WordSize = U * U /\ lo \in Nat /\ WordSize \in Nat
  BY FixedFacts
<1>2. e \in Nat /\ r \in 0 .. U - 1 /\ lo = U * e + r
  BY <1>1, NatDivMod
<1>. HIDE DEF U, e, r
<1>3. e \in 0 .. U - 1
  <2>. SUFFICES ASSUME e >= U PROVE FALSE
    BY <1>1, <1>2
  <2>1. U * e >= U * U
    BY <1>1, <1>2
  <2>. QED  BY <1>1, <1>2, <2>1
<1>4. (WordSize * hi + lo) \div U = hi * U + e
  <2>1. \A x, u, f, s \in Int : (u * u) * x + (u * f + s) = u * (x * u + f) + s
    OBVIOUS
  <2>2. WordSize * hi + lo = U * (hi * U + e) + r
    BY <1>1, <1>2, <2>1
  <2>3. WordSize * hi + lo \in Int /\ hi * U + e \in Int
    BY <1>1, <1>2
  <2>. QED  BY <1>1, <1>2, <2>2, <2>3, DivModUnique, Zenon
<1>5. (hi * U + e) % (U * U) = U * (hi % U) + e
  BY <1>1, <1>3, ShiftMod, Zenon
<1>6. Wrap((hi + WordSize * k) * U) = U * (hi % U)
  <2>1. \A x, u, w, j \in Int : (x + w * j) * u = x * u + w * (j * u)
    OBVIOUS
  <2>2. (hi + WordSize * k) * U = hi * U + WordSize * (k * U)
    BY <1>1, <2>1
  <2>3. hi * U \in Int /\ k * U \in Int
    BY <1>1
  <2>4. Wrap(hi * U + WordSize * (k * U)) = Wrap(hi * U)
    BY <2>3, WrapSame, Zenon
  <2>5. 0 \in 0 .. U - 1
    BY <1>1
  <2>6. (hi * U + 0) % (U * U) = U * (hi % U) + 0
    BY <1>1, <2>5, ShiftMod, Zenon
  <2>7. hi * U + 0 = hi * U /\ U * (hi % U) + 0 = U * (hi % U)
    BY <1>1, <2>3
  <2>. QED  BY <1>1, <2>2, <2>4, <2>6, <2>7, Zenon DEF Wrap
<1>. QED
  BY <1>1, <1>4, <1>5, <1>6, Zenon DEF Middle, Wrap, U, e

\* A word is its number and, for a negative one, WordSize.
LEMMA WordSign ==
    ASSUME NEW a \in 0 .. WordSize - 1
    PROVE  /\ Sign(a) \in {0, 1} /\ Signed(a) \in Int /\ a = Signed(a) + WordSize * Sign(a)
           /\ Sign(a) = 1 <=> Signed(a) < 0
<1>1. WordSize \in Nat /\ Max \in Nat /\ WordSize = 2 * Max /\ a \in Nat
  BY FixedFacts
<1>. QED
  BY <1>1, SignFacts

LEMMA MulRounded ==
    ASSUME NEW a \in 0 .. WordSize - 1, NEW b \in 0 .. WordSize - 1
    PROVE  fxr_mul(a, b) = Wrap((Signed(a) * Signed(b)) \div One)
<1>. DEFINE p == a * b
            m == p \div WordSize
            l == Wrap(p)
            s == Sign(a)
            t == Sign(b)
            x == Signed(a)
            y == Signed(b)
            h == m - (IF t = 1 THEN a ELSE 0) - (IF s = 1 THEN b ELSE 0)
            j == h \div WordSize
            hi == h + WordSize * (s * t)
            k == -(s * t) - j
<1>1. WordSize \in Nat \ {0} /\ p \in Nat
  BY FixedFacts
<1>2. l \in 0 .. WordSize - 1 /\ m \in Int /\ p = WordSize * m + l
  <2>1. p \in Int
    BY <1>1
  <2>. HIDE DEF p
  <2>. QED  BY <2>1, WrapFacts, Zenon
<1>3. /\ s \in {0, 1} /\ x \in Int /\ a = x + WordSize * s
      /\ t \in {0, 1} /\ y \in Int /\ b = y + WordSize * t
  BY WordSign
<1>. HIDE DEF m, l, s, t, x, y
<1>4. h = m - t * a - s * b /\ h \in Int
  BY <1>2, <1>3
<1>5. j \in Int /\ Wrap(h) = h - WordSize * j
  <2>. HIDE DEF h
  <2>1. Wrap(h) \in 0 .. WordSize - 1 /\ j \in Int /\ h = WordSize * j + Wrap(h)
    BY <1>4, WrapFacts, Zenon
  <2>. HIDE DEF j
  <2>. QED  BY <1>1, <2>1
<1>6. x * y = WordSize * hi + l
  <2>1. \A u, v, w, c, d \in Int :
          u * v = (u + w * c) * (v + w * d) - w * (d * (u + w * c)) - w * (c * (v + w * d)) + w * (w * (c * d))
    OBVIOUS
  <2>2. x * y = a * b - WordSize * (t * a) - WordSize * (s * b) + WordSize * (WordSize * (s * t))
    BY <1>1, <1>3, <2>1
  <2>3. \A w, n, u, v, c, e \in Int : (w * n + e) - w * u - w * v + w * (w * c) = w * ((n - u - v) + w * c) + e
    OBVIOUS
  <2>4. t * a \in Int /\ s * b \in Int /\ s * t \in Int /\ WordSize \in Int /\ l \in Int
    BY <1>1, <1>2, <1>3
  <2>5. (WordSize * m + l) - WordSize * (t * a) - WordSize * (s * b) + WordSize * (WordSize * (s * t))
          = WordSize * ((m - t * a - s * b) + WordSize * (s * t)) + l
    BY <1>2, <2>3, <2>4
  <2>6. a * b = WordSize * m + l
    BY <1>2
  <2>. HIDE DEF h
  <2>7. (WordSize * m + l) - WordSize * (t * a) - WordSize * (s * b) + WordSize * (WordSize * (s * t)) = WordSize * hi + l
    BY <1>4, <2>5, Zenon
  <2>. QED  BY <2>2, <2>6, <2>7, Zenon
<1>7. hi \in Int /\ k \in Int /\ Wrap(h) = hi + WordSize * k
  <2>. HIDE DEF h, j
  <2>1. s * t \in Int
    BY <1>3
  <2>2. \A w, c, d, e \in Int : c - w * d = (c + w * e) + w * (-e - d)
    OBVIOUS
  <2>. QED  BY <1>1, <1>4, <1>5, <2>1, <2>2
<1>8. fxr_mul(a, b) = Middle(Wrap(h), l)
  BY DEF fxr_mul, m, l, s, t
<1>. HIDE DEF h, j, hi, k
<1>9. Middle(hi + WordSize * k, l) = Wrap((WordSize * hi + l) \div One)
  BY <1>2, <1>7, MiddleWord, Zenon
<1>. QED
  BY <1>6, <1>7, <1>8, <1>9, Zenon DEF x, y

LEMMA AbsWord ==
    ASSUME NEW a \in 0 .. WordSize - 1
    PROVE  fxr_abs(a) = Positive(Signed(a)) /\ fxr_abs(a) \in 0 .. Max
<1>1. WordSize \in Nat \ {0} /\ Max \in Nat \ {0} /\ WordSize = 2 * Max /\ a \in Nat
  BY FixedFacts
<1>2. CASE a < Max
  <2>1. Sign(a) = 0 /\ Signed(a) = a
    BY <1>2, SignFacts
  <2>. QED  BY <1>1, <1>2, <2>1 DEF fxr_abs, Positive
<1>3. CASE ~(a < Max)
  <2>1. Sign(a) = 1 /\ Signed(a) = a - WordSize
    BY <1>3, SignFacts
  <2>. DEFINE c == WordSize - a
  <2>2. c \in 0 .. WordSize - 1 /\ WordSize * (-1) + c = -a /\ -1 \in Int /\ c \in 0 .. Max
    BY <1>1, <1>3
  <2>3. Positive(Signed(a)) = c
    BY <1>1, <1>3, <2>1 DEF Positive
  <2>. HIDE DEF c
  <2>4. Wrap(-a) = c
    BY <2>2, WrapUnique
  <2>. QED  BY <2>1, <2>2, <2>3, <2>4 DEF fxr_abs, fxr_neg
<1>. QED
  BY <1>2, <1>3

LEMMA SqrRounded ==
    ASSUME NEW a \in 0 .. WordSize - 1
    PROVE  fxr_sqr(a) = Wrap((Signed(a) * Signed(a)) \div One)
<1>. DEFINE x == Signed(a)
            c == fxr_abs(a)
            p == c * c
            m == p \div WordSize
            l == Wrap(p)
<1>1. x \in Int /\ c = Positive(x) /\ c \in Nat
  BY SignFacts, AbsWord, FixedFacts
<1>. HIDE DEF x, c
<1>2. p = x * x /\ p \in Int
  BY <1>1 DEF Positive
<1>3. l \in 0 .. WordSize - 1 /\ m \in Int /\ p = WordSize * m + l /\ WordSize \in Nat
  <2>. HIDE DEF p
  <2>. QED  BY <1>2, WrapFacts, FixedFacts
<1>4. fxr_sqr(a) = Middle(m, l)
  BY DEF fxr_sqr, c
<1>. HIDE DEF p, m, l
<1>5. Middle(m + WordSize * 0, l) = Wrap((WordSize * m + l) \div One)
  <2>1. 0 \in Int
    OBVIOUS
  <2>. QED  BY <1>3, <2>1, MiddleWord, Zenon
<1>6. m + WordSize * 0 = m
  BY <1>3
<1>. QED
  BY <1>2, <1>3, <1>4, <1>5, <1>6, Zenon DEF x

-----------------------------------------------------------------------------
(* FndsaFixed: shifts.                                                     *)

LEMMA QuotientRepresentable ==
    ASSUME NEW v \in Int, Representable(v), NEW d \in Nat \ {0}
    PROVE  v \div d \in Int /\ Representable(v \div d)
<1>. DEFINE z == v \div d
            r == v % d
<1>1. z \in Int /\ r \in 0 .. d - 1 /\ v = d * z + r /\ Max \in Nat \ {0}
  BY DivMod, FixedFacts
<1>. HIDE DEF z, r
<1>2. -Max <= v /\ v < Max
  BY DEF Representable
<1>3. z < Max
  <2>. SUFFICES ASSUME z >= Max PROVE FALSE
    BY <1>1
  <2>1. d * z >= z
    BY <1>1
  <2>. QED  BY <1>1, <1>2, <2>1
<1>4. -Max <= z
  <2>. SUFFICES ASSUME z + 1 <= -Max PROVE FALSE
    BY <1>1
  <2>1. d * (z + 1) <= z + 1
    BY <1>1
  <2>2. d * (z + 1) = d * z + d
    BY <1>1
  <2>. QED  BY <1>1, <1>2, <2>1, <2>2
<1>. QED
  BY <1>1, <1>3, <1>4 DEF Representable, z

\* Half of the divisor is added before a division that rounds to nearest.
LEMMA HalfRound ==
    ASSUME NEW x \in Int, NEW h \in Nat \ {0}
    PROVE  (2 * x + 2 * h) \div (2 * (2 * h)) = (x + h) \div (2 * h)
<1>. DEFINE d == 2 * h
            v == x + h
            z == v \div d
            r == v % d
            w == 2 * v
            s == 2 * r
            e == 2 * d
<1>1. d \in Nat \ {0} /\ v \in Int /\ e \in Nat \ {0} /\ w \in Int /\ 2 * x + 2 * h = w
  OBVIOUS
<1>. HIDE DEF d, v
<1>2. z \in Int /\ r \in 0 .. d - 1 /\ v = d * z + r
  BY <1>1, DivMod
<1>. HIDE DEF z, r
<1>3. s \in 0 .. e - 1 /\ w = e * z + s
  BY <1>1, <1>2
<1>. HIDE DEF w, s, e
<1>4. w \div e = z
  BY <1>1, <1>2, <1>3, DivModUnique
<1>. QED
  BY <1>1, <1>4 DEF e, z, d, v

\* A representable sum of a word's number and a number is what its word stands for.
LEMMA AddWord ==
    ASSUME NEW a \in 0 .. WordSize - 1, NEW h \in Int, Representable(Signed(a) + h)
    PROVE  Signed(Wrap(a + h)) = Signed(a) + h
<1>. DEFINE x == Signed(a)
<1>1. PICK k \in Int : a = x + WordSize * k
  BY WordOf
<1>2. x \in Int /\ WordSize \in Nat
  BY SignFacts, FixedFacts
<1>. HIDE DEF x
<1>3. a + h = (x + h) + WordSize * k /\ x + h \in Int
  BY <1>1, <1>2
<1>4. Wrap((x + h) + WordSize * k) = Wrap(x + h)
  BY <1>3, WrapSame, Zenon
<1>5. Representable(x + h)
  BY DEF x
<1>6. Signed(Wrap(x + h)) = x + h
  BY <1>3, <1>5, SignedWrap, Zenon
<1>. QED
  BY <1>3, <1>4, <1>6, Zenon DEF x

LEMMA ShrinkRounded ==
    ASSUME NEW a \in 0 .. WordSize - 1, NEW e \in 1 .. H
    PROVE  /\ Representable(Signed(a) + (Pow2[e] \div 2)) =>
                  Signed(fxr_div2e(a, e)) = (2 * Signed(a) + Pow2[e]) \div (2 * Pow2[e])
           /\ Representable(Signed(a) + Pow2[H - 1]) =>
                  fxr_round(a) = (2 * Signed(a) + One) \div (2 * One)
<1>. DEFINE x == Signed(a)
<1>1. x \in Int /\ H \in Nat
  BY SignFacts, FixedFacts
<1>2. ASSUME Representable(x + (Pow2[e] \div 2))
      PROVE  Signed(fxr_div2e(a, e)) = (2 * x + Pow2[e]) \div (2 * Pow2[e])
  <2>. DEFINE d == Pow2[e]
              h == d \div 2
              v == x + h
              z == v \div d
  <2>1. e - 1 \in Nat /\ e \in Nat /\ (e - 1) + 1 = e
    BY <1>1
  <2>2. Pow2[e - 1] \in Nat \ {0} /\ d = 2 * Pow2[e - 1]
    <3>1. Pow2[(e - 1) + 1] = 2 * Pow2[e - 1]
      BY <2>1, Pow2Next, Zenon
    <3>. QED  BY <2>1, <3>1, Pow2Nat, Zenon
  <2>3. h \in Nat \ {0} /\ d = 2 * h /\ d \in Nat \ {0}
    <3>. HIDE DEF d
    <3>. QED  BY <2>2
  <2>. HIDE DEF d, h, x
  <2>4. Signed(Wrap(a + h)) = v /\ Representable(v) /\ v \in Int
    <3>1. Representable(Signed(a) + h) /\ h \in Int
      BY <1>2, <2>3 DEF x, h, d
    <3>2. Signed(Wrap(a + h)) = Signed(a) + h
      BY <3>1, AddWord, Zenon
    <3>. QED  BY <1>1, <2>3, <3>1, <3>2 DEF x
  <2>. HIDE DEF v
  <2>5. z \in Int /\ Representable(z)
    BY <2>3, <2>4, QuotientRepresentable, Zenon
  <2>. HIDE DEF z
  <2>6. Signed(Wrap(z)) = z
    BY <2>5, SignedWrap, Zenon
  <2>7. (2 * x + 2 * h) \div (2 * (2 * h)) = (x + h) \div (2 * h)
    BY <1>1, <2>3, HalfRound, Zenon
  <2>8. fxr_div2e(a, e) = Wrap(z)
    BY <2>4, Zenon DEF fxr_div2e, z, h, d
  <2>9. z = (2 * x + d) \div (2 * d)
    BY <2>3, <2>7, Zenon DEF z, v
  <2>. QED  BY <2>6, <2>8, <2>9, Zenon DEF d
<1>3. ASSUME Representable(x + Pow2[H - 1])
      PROVE  fxr_round(a) = (2 * x + One) \div (2 * One)
  <2>. DEFINE h == Pow2[H - 1]
  <2>1. h \in Nat \ {0} /\ One = 2 * h /\ h \in Int
    BY FixedFacts
  <2>. HIDE DEF h
  <2>2. Signed(Wrap(a + h)) = x + h
    BY <1>3, <2>1, AddWord, Zenon DEF h
  <2>. HIDE DEF x
  <2>3. (2 * x + 2 * h) \div (2 * (2 * h)) = (x + h) \div (2 * h)
    BY <1>1, <2>1, HalfRound, Zenon
  <2>. QED  BY <2>1, <2>2, <2>3, Zenon DEF fxr_round, h
<1>. QED
  BY <1>2, <1>3

-----------------------------------------------------------------------------
(* FndsaFixed: quotients.                                                  *)

\* The bit of the numerator that comes down when quotient bit i is next.
Down(a, i) == IF i > H THEN (a \div Pow2[i - H - 1]) % 2 ELSE 0

\* One step of the division, d of the bits with it.
DivStep(a, b, d, last) ==
    LET bit == Ready(last.num, b)
    IN  [q |-> last.q + bit * Pow2[2 * H - d],
         num |-> Wrap(2 * (last.num - bit * b) + Down(a, 2 * H - d))]

DivStart(a) == [q |-> 0, num |-> a \div Pow2[H - 1]]

DivState == [q : Int, num : Int]

LEMMA ReadyBit ==
    ASSUME NEW n \in Int, NEW b \in Int
    PROVE  Ready(n, b) \in {0, 1}
<1>1. n - b \in Int
  OBVIOUS
<1>2. Wrap(n - b) \in 0 .. WordSize - 1
  BY <1>1, WrapFacts, Zenon
<1>3. Sign(Wrap(n - b)) \in {0, 1}
  BY <1>2, WordSign, Zenon
<1>. QED
  BY <1>3 DEF Ready

LEMMA DownBit ==
    ASSUME NEW a \in Nat, NEW i \in Int
    PROVE  Down(a, i) \in {0, 1}
<1>1. CASE i > H
  <2>. DEFINE p == Pow2[i - H - 1]
  <2>1. i - H - 1 \in Nat
    BY <1>1, FixedFacts
  <2>2. p \in Nat \ {0}
    BY <2>1, Pow2Nat, Zenon
  <2>. HIDE DEF p
  <2>3. a \div p \in Nat
    BY <2>2, DivNat
  <2>. QED  BY <1>1, <2>3 DEF Down, p
<1>2. CASE ~(i > H)
  BY <1>2 DEF Down
<1>. QED
  BY <1>1, <1>2

LEMMA DivStepType ==
    ASSUME NEW a \in Nat, NEW b \in Nat, NEW d \in 1 .. 2 * H, NEW v \in DivState
    PROVE  DivStep(a, b, d, v) \in DivState
<1>. DEFINE n == v.num
            bit == Ready(n, b)
            i == 2 * H - d
            x == 2 * (n - bit * b) + Down(a, i)
<1>1. n \in Int /\ v.q \in Int /\ i \in Nat /\ b \in Int
  BY FixedFacts DEF DivState
<1>. HIDE DEF n, i
<1>2. bit \in {0, 1}
  BY <1>1, ReadyBit, Zenon
<1>3. Down(a, i) \in {0, 1}
  <2>1. i \in Int
    BY <1>1
  <2>. QED  BY <2>1, DownBit, Zenon
<1>4. Pow2[i] \in Nat
  BY <1>1, Pow2Nat, Zenon
<1>. HIDE DEF bit
<1>5. x \in Int
  BY <1>1, <1>2, <1>3
<1>. HIDE DEF x
<1>6. Wrap(x) \in 0 .. WordSize - 1
  BY <1>5, WrapFacts, Zenon
<1>7. v.q + bit * Pow2[i] \in Int
  BY <1>1, <1>2, <1>4
<1>8. DivStep(a, b, d, v) = [q |-> v.q + bit * Pow2[i], num |-> Wrap(x)]
  BY DEF DivStep, bit, x, n, i
<1>. QED
  BY <1>6, <1>7, <1>8 DEF DivState

\* The steps of the division, one after the other.
LEMMA DividingDef ==
    ASSUME NEW a \in Nat, NEW b \in Nat
    PROVE  /\ Dividing(a, b)[0] = DivStart(a)
           /\ \A d \in 1 .. 2 * H : Dividing(a, b)[d] = DivStep(a, b, d, Dividing(a, b)[d - 1])
<1>. DEFINE K == 2 * H
            g == [p \in Nat \X DivState |-> IF p[1] \in 1 .. K THEN DivStep(a, b, p[1], p[2]) ELSE p[2]]
<1>0. K \in Nat
  BY FixedFacts
<1>. HIDE DEF K
<1>1. \A d \in 1 .. K : \A v \in DivState : g[<<d, v>>] = DivStep(a, b, d, v)
  BY <1>0
<1>2. g \in [Nat \X DivState -> DivState]
  <2>. SUFFICES ASSUME NEW p \in Nat \X DivState
                PROVE  (IF p[1] \in 1 .. K THEN DivStep(a, b, p[1], p[2]) ELSE p[2]) \in DivState
    OBVIOUS
  <2>1. p[2] \in DivState
    OBVIOUS
  <2>2. ASSUME p[1] \in 1 .. K PROVE DivStep(a, b, p[1], p[2]) \in DivState
    BY <2>1, <2>2, DivStepType, Zenon DEF K
  <2>. QED  BY <2>1, <2>2
<1>. HIDE DEF g
<1>3. DivStart(a) \in DivState
  <2>. DEFINE p == Pow2[H - 1]
  <2>1. p \in Nat \ {0}
    BY FixedFacts
  <2>. HIDE DEF p
  <2>2. a \div p \in Nat
    BY <2>1, DivNat
  <2>. QED  BY <2>2 DEF DivStart, DivState, p
<1>4. PICK f \in [0 .. K -> DivState] : IsRec(f, K, DivStart(a), g)
  BY <1>0, <1>2, <1>3, RecExists, Zenon
<1>5. f[0] = DivStart(a) /\ \A d \in 1 .. K : f[d] = DivStep(a, b, d, f[d - 1])
  <2>1. f[0] = DivStart(a) /\ \A d \in 1 .. K : f[d] = g[<<d, f[d - 1]>>]
    BY <1>4 DEF IsRec
  <2>2. ASSUME NEW d \in 1 .. K PROVE f[d - 1] \in DivState
    BY <1>0
  <2>. QED  BY <1>1, <2>1, <2>2, Zenon
<1>6. f = [d \in 0 .. K |-> IF d = 0 THEN DivStart(a) ELSE DivStep(a, b, d, f[d - 1])]
  <2>1. ASSUME NEW d \in 0 .. K PROVE f[d] = IF d = 0 THEN DivStart(a) ELSE DivStep(a, b, d, f[d - 1])
    <3>1. d = 0 \/ d \in 1 .. K
      BY <1>0
    <3>2. \A x \in 1 .. K : x # 0
      BY <1>0
    <3>. QED  BY <1>5, <3>1, <3>2, Zenon
  <2>2. f = [d \in 0 .. K |-> f[d]]
    OBVIOUS
  <2>. QED  BY <2>1, <2>2, Zenon
<1>. DEFINE h == Dividing(a, b)
<1>7. h = [d \in 0 .. K |-> IF d = 0 THEN DivStart(a) ELSE DivStep(a, b, d, h[d - 1])]
  BY <1>6, Zenon DEF Dividing, DivStart, DivStep, Down, K
<1>. HIDE DEF h
<1>8. ASSUME NEW d \in 0 .. K PROVE h[d] = IF d = 0 THEN DivStart(a) ELSE DivStep(a, b, d, h[d - 1])
  BY <1>7, Zenon
<1>9. 0 \in 0 .. K /\ \A d \in 1 .. K : d \in 0 .. K /\ d # 0
  BY <1>0
<1>. QED
  BY <1>8, <1>9, Zenon DEF h, K


Numerator(a) == 2 * (a * One)

LEMMA NumeratorBit ==
    ASSUME NEW a \in Nat, NEW i \in 0 .. 2 * H - 1
    PROVE  /\ Numerator(a) \div Pow2[i] = 2 * (Numerator(a) \div Pow2[i + 1]) + Down(a, i)
           /\ Numerator(a) \div Pow2[i + 1] \in Nat
<1>. DEFINE M == Numerator(a)
            P == Pow2[i]
            c == M \div P
<1>1. i \in Nat /\ i + 1 \in Nat /\ H \in Nat /\ H + 1 \in Nat /\ One \in Nat
  BY FixedFacts
<1>2. P \in Nat \ {0} /\ Pow2[i + 1] = 2 * P
  BY <1>1, Pow2Nat, Pow2Next, Zenon
<1>3. M \in Nat
  BY <1>1 DEF Numerator
<1>. HIDE DEF M, P
<1>4. c \in Nat
  BY <1>2, <1>3, DivNat
<1>5. M \div Pow2[i + 1] = c \div 2
  <2>1. 2 \in Nat \ {0} /\ M \in Int
    BY <1>3
  <2>2. M \div (P * 2) = (M \div P) \div 2
    BY <1>2, <2>1, DivDiv, Zenon
  <2>3. P * 2 = 2 * P
    BY <1>2
  <2>. QED  BY <1>2, <2>2, <2>3, Zenon
<1>6. c % 2 = Down(a, i)
  <2>1. Pow2[H + 1] = 2 * One
    BY <1>1, Pow2Next, Zenon DEF One
  <2>2. M = a * Pow2[H + 1] /\ Pow2[H + 1] \in Nat \ {0}
    <3>1. \A x, y \in Nat : 2 * (x * y) = x * (2 * y)
      OBVIOUS
    <3>2. M = a * (2 * One)
      BY <1>1, <3>1, Zenon DEF M, Numerator
    <3>. QED  BY <1>1, <2>1, <3>2, Pow2Nat, Zenon
  <2>3. CASE i > H
    <3>. DEFINE k == i - H - 1
                p == Pow2[k]
                q == Pow2[H + 1]
    <3>1. k \in Nat /\ (H + 1) + k = i
      BY <1>1, <2>3
    <3>. HIDE DEF k
    <3>2. p \in Nat \ {0} /\ P = q * p
      <4>1. Pow2[(H + 1) + k] = Pow2[H + 1] * Pow2[k]
        BY <1>1, <3>1, Pow2Add, Zenon
      <4>. QED  BY <3>1, <4>1, Pow2Nat, Zenon DEF P
    <3>3. q \in Nat \ {0} /\ M = a * q /\ a \in Int
      BY <2>2
    <3>. HIDE DEF p, q
    <3>4. M \div q = a
      <4>1. 0 \in 0 .. q - 1 /\ a * q + 0 = a * q
        BY <3>3
      <4>2. (a * q + 0) \div q = a
        BY <3>3, <4>1, ShiftAdd, Zenon
      <4>. QED  BY <3>3, <4>1, <4>2, Zenon
    <3>5. M \div (q * p) = (M \div q) \div p
      <4>1. M \in Int
        BY <1>3
      <4>. QED  BY <3>2, <3>3, <4>1, DivDiv, Zenon
    <3>6. c = a \div p
      BY <3>2, <3>4, <3>5, Zenon
    <3>. HIDE DEF c
    <3>. QED  BY <2>3, <3>6 DEF Down, p, k
  <2>4. CASE ~(i > H)
    <3>. DEFINE k == H - i
                p == Pow2[k]
                q == Pow2[H + 1]
                e == 2 * (a * p)
    <3>1. k \in Nat /\ i + k = H
      BY <1>1, <2>4
    <3>. HIDE DEF k
    <3>2. p \in Nat /\ One = P * p
      <4>1. Pow2[i + k] = Pow2[i] * Pow2[k]
        BY <1>1, <3>1, Pow2Add, Zenon
      <4>. QED  BY <3>1, <4>1, Pow2Nat, Zenon DEF P, One
    <3>. HIDE DEF p
    <3>3. M = P * e + 0 /\ e \in Int /\ M \in Int /\ 0 \in 0 .. P - 1
      <4>1. \A x, y, z \in Nat : 2 * (x * (y * z)) = y * (2 * (x * z)) + 0
        OBVIOUS
      <4>2. M = 2 * (a * (P * p))
        BY <3>2, Zenon DEF M, Numerator
      <4>. QED  BY <1>2, <1>3, <3>2, <4>1, <4>2
    <3>4. e % 2 = 0
      <4>. DEFINE s == a * p
      <4>1. s \in Nat
        BY <3>2
      <4>. HIDE DEF s
      <4>2. (2 * s) % 2 = 0
        BY <4>1
      <4>. QED  BY <4>2 DEF s
    <3>. HIDE DEF e
    <3>5. c = e
      BY <1>2, <3>3, DivModUnique, Zenon
    <3>. HIDE DEF c
    <3>. QED  BY <2>4, <3>4, <3>5 DEF Down
  <2>. QED  BY <2>3, <2>4
<1>. HIDE DEF c
<1>7. c = 2 * (c \div 2) + (c % 2) /\ c \div 2 \in Nat
  <2>1. 2 \in Nat \ {0}
    OBVIOUS
  <2>. QED  BY <1>4, <2>1, NatDivMod, Zenon
<1>. QED
  BY <1>5, <1>6, <1>7, Zenon DEF c, M, P

LEMMA ReadyIs ==
    ASSUME NEW b \in 1 .. Max, NEW n \in 0 .. 2 * b - 1
    PROVE  Ready(n, b) = IF n >= b THEN 1 ELSE 0
<1>. DEFINE v == n - b
<1>1. v \in Int /\ Representable(v) /\ Max \in Nat /\ (v < 0 <=> ~(n >= b))
  BY FixedFacts DEF Representable
<1>. HIDE DEF v
<1>2. Sign(Wrap(v)) = IF v < 0 THEN 1 ELSE 0
  BY <1>1, SignedWrap, Zenon
<1>. QED
  BY <1>1, <1>2 DEF Ready, v

\* The quotient so far, and what is left of the upper bits of the numerator.
DivInv(a, b, d, v) ==
    \E Q \in Nat : /\ v.q = Q * Pow2[2 * H - d]
                   /\ (2 * b) * Q + v.num = Numerator(a) \div Pow2[2 * H - d]
                   /\ v.num \in 0 .. 2 * b - 1

LEMMA DivInvStep ==
    ASSUME NEW a \in Nat, NEW b \in 1 .. Max, NEW d \in 0 .. 2 * H - 1, NEW v, DivInv(a, b, d, v)
    PROVE  DivInv(a, b, d + 1, DivStep(a, b, d + 1, v))
<1>. DEFINE i == 2 * H - (d + 1)
            n == v.num
            bit == Ready(n, b)
            D == Numerator(a) \div Pow2[i]
            E == Numerator(a) \div Pow2[i + 1]
            w == Down(a, i)
            x == 2 * (n - bit * b) + w
            P == Pow2[i]
<1>1. H \in Nat /\ i \in 0 .. 2 * H - 1 /\ i + 1 = 2 * H - d /\ i \in Nat /\ b \in Nat /\ Max \in Nat
  BY FixedFacts
<1>. HIDE DEF i
<1>2. D = 2 * E + w /\ E \in Nat
  BY <1>1, NumeratorBit, Zenon
<1>3. w \in {0, 1}
  <2>1. i \in Int
    BY <1>1
  <2>. QED  BY <2>1, DownBit, Zenon
<1>4. P \in Nat /\ Pow2[i + 1] = 2 * P
  BY <1>1, Pow2Nat, Pow2Next, Zenon
<1>. HIDE DEF D, E, w, P
<1>5. PICK Q \in Nat : v.q = Q * (2 * P) /\ (2 * b) * Q + n = E /\ n \in 0 .. 2 * b - 1
  <2>1. Pow2[2 * H - d] = 2 * P
    BY <1>1, <1>4, Zenon
  <2>2. Numerator(a) \div Pow2[2 * H - d] = E
    BY <1>1, Zenon DEF E
  <2>. QED  BY <2>1, <2>2, Zenon DEF DivInv
<1>. HIDE DEF n
<1>6. bit = IF n >= b THEN 1 ELSE 0
  BY <1>5, ReadyIs, Zenon
<1>. HIDE DEF bit
<1>7. x \in 0 .. 2 * b - 1 /\ bit \in {0, 1}
  BY <1>1, <1>3, <1>5, <1>6
<1>8. Wrap(x) = x
  <2>1. x \in 0 .. WordSize - 1 /\ x \in Int
    BY <1>1, <1>7, FixedFacts
  <2>. HIDE DEF x
  <2>2. WordSize * 0 + x = x /\ 0 \in Int
    BY <2>1, FixedFacts
  <2>3. Wrap(WordSize * 0 + x) = x
    BY <2>1, <2>2, WrapUnique, Zenon
  <2>. QED  BY <2>2, <2>3, Zenon
<1>9. /\ 2 * Q + bit \in Nat
      /\ Q * (2 * P) + bit * P = (2 * Q + bit) * P
      /\ (2 * b) * (2 * Q + bit) + x = D
  <2>1. \A c, e, p \in Nat : c * (2 * p) + e * p = (2 * c + e) * p
    OBVIOUS
  <2>2. \A c, e, p, m, u \in Int : (2 * p) * (2 * c + e) + (2 * (m - e * p) + u) = 2 * ((2 * p) * c + m) + u
    OBVIOUS
  <2>3. (2 * b) * (2 * Q + bit) + x = 2 * ((2 * b) * Q + n) + w
    BY <1>1, <1>3, <1>5, <1>7, <2>2
  <2>. HIDE DEF x
  <2>. QED  BY <1>2, <1>4, <1>5, <1>7, <2>1, <2>3
<1>10. DivStep(a, b, d + 1, v) = [q |-> Q * (2 * P) + bit * P, num |-> Wrap(x)]
  BY <1>5 DEF DivStep, bit, n, w, P, i
<1>. HIDE DEF x
<1>. DEFINE z == DivStep(a, b, d + 1, v)
            S == 2 * Q + bit
<1>11. z.q = S * P /\ z.num = x /\ S \in Nat
  BY <1>8, <1>9, <1>10
<1>12. (2 * b) * S + z.num = D
  BY <1>9, <1>11
<1>13. z.num \in 0 .. 2 * b - 1
  BY <1>7, <1>11
<1>. HIDE DEF z, S
<1>. QED
  BY <1>11, <1>12, <1>13, Zenon DEF DivInv, D, P, i, z


LEMMA DivInvStart ==
    ASSUME NEW a \in Nat, NEW b \in 1 .. Max, Numerator(a) < b * WordSize
    PROVE  DivInv(a, b, 0, DivStart(a))
<1>. DEFINE M == Numerator(a)
            p == Pow2[H - 1]
            n == a \div p
<1>1. /\ H \in Nat /\ Max \in Nat /\ b \in Nat \ {0} /\ One \in Nat \ {0} /\ p \in Nat \ {0}
      /\ One = 2 * p /\ WordSize = One * One /\ WordSize \in Nat \ {0} /\ 2 * H - 0 = 2 * H
  BY FixedFacts
<1>. HIDE DEF p
<1>2. n \in Nat /\ a % p \in 0 .. p - 1 /\ a = p * n + (a % p)
  BY <1>1, NatDivMod
<1>3. M \in Nat
  BY <1>1 DEF Numerator
<1>. HIDE DEF n
<1>4. M \div WordSize = n
  <2>. DEFINE r == a % p
              s == (2 * One) * r
  <2>1. r \in Nat /\ r <= p - 1 /\ a = p * n + r
    BY <1>1, <1>2
  <2>. HIDE DEF r
  <2>2. M = WordSize * n + s
    <3>1. \A x, y, z \in Nat : 2 * ((x * y + z) * (2 * x)) = ((2 * x) * (2 * x)) * y + (2 * (2 * x)) * z
      OBVIOUS
    <3>2. M = 2 * ((p * n + r) * (2 * p))
      BY <1>1, <2>1, Zenon DEF M, Numerator
    <3>3. M = ((2 * p) * (2 * p)) * n + (2 * (2 * p)) * r
      BY <1>1, <1>2, <2>1, <3>1, <3>2
    <3>. QED  BY <1>1, <3>3, Zenon
  <2>3. s \in 0 .. WordSize - 1
    <3>1. \A x \in Nat : \A z \in 0 .. x - 1 : (2 * (2 * x)) * z \in Nat /\ (2 * (2 * x)) * z <= (2 * (2 * x)) * (x - 1)
      OBVIOUS
    <3>2. \A x \in Nat : (2 * (2 * x)) * (x - 1) = (2 * x) * (2 * x) - 4 * x
      OBVIOUS
    <3>3. r \in 0 .. p - 1
      BY <1>1, <2>1
    <3>4. s \in Nat /\ s <= (2 * (2 * p)) * (p - 1)
      BY <1>1, <3>1, <3>3
    <3>5. (2 * (2 * p)) * (p - 1) = WordSize - 4 * p
      BY <1>1, <3>2
    <3>. HIDE DEF s
    <3>. QED  BY <1>1, <3>4, <3>5
  <2>. HIDE DEF s, M
  <2>4. M \in Int /\ n \in Int
    BY <1>2, <1>3
  <2>. QED  BY <1>1, <2>2, <2>3, <2>4, DivModUnique, Zenon
<1>5. n < b
  <2>. SUFFICES ASSUME n >= b PROVE FALSE
    BY <1>1, <1>2
  <2>. DEFINE y == M \div WordSize
  <2>1. WordSize * y <= M /\ y = n
    BY <1>1, <1>3, <1>4, DivNat
  <2>. HIDE DEF y
  <2>2. WordSize * n >= WordSize * b
    BY <1>1, <1>2
  <2>3. WordSize * b = b * WordSize
    BY <1>1
  <2>. QED  BY <1>1, <1>2, <1>3, <2>1, <2>2, <2>3
<1>6. /\ 0 \in Nat /\ DivStart(a).q = 0 * Pow2[2 * H - 0]
      /\ DivStart(a).num = n
      /\ (2 * b) * 0 + DivStart(a).num = M \div Pow2[2 * H - 0]
      /\ DivStart(a).num \in 0 .. 2 * b - 1
  <2>1. DivStart(a).q = 0 /\ DivStart(a).num = n
    BY DEF DivStart, n, p
  <2>2. Pow2[2 * H - 0] = WordSize
    BY <1>1, Zenon DEF WordSize
  <2>. HIDE DEF M
  <2>. QED  BY <1>1, <1>2, <1>4, <1>5, <2>1, <2>2
<1>. QED
  BY <1>6, Zenon DEF DivInv

\* The quotient of absolute values is rounded to nearest, if it fits.
LEMMA QuotientNearest ==
    ASSUME NEW a \in Nat, NEW b \in 1 .. Max, (Numerator(a) + b) \div (2 * b) < Max
    PROVE  LET end == Dividing(a, b)[2 * H]
           IN  Round(end.q, end.num, b) = (Numerator(a) + b) \div (2 * b)
<1>. DEFINE M == Numerator(a)
            q == (M + b) \div (2 * b)
            K == 2 * H
            it == Dividing(a, b)
            S == {d \in 0 .. K : DivInv(a, b, d, it[d])}
<1>1. /\ H \in Nat /\ K \in Nat /\ Max \in Nat \ {0} /\ b \in Nat \ {0} /\ One \in Nat \ {0}
      /\ WordSize = 2 * Max
  BY FixedFacts
<1>2. M \in Nat
  BY <1>1 DEF Numerator
<1>. HIDE DEF M
<1>3. M < b * WordSize
  <2>. DEFINE r == (M + b) % (2 * b)
  <2>1. q \in Nat /\ r \in 0 .. 2 * b - 1 /\ M + b = (2 * b) * q + r
    <3>. DEFINE x == M + b
                y == 2 * b
    <3>1. x \in Nat /\ y \in Nat \ {0}
      BY <1>1, <1>2
    <3>. HIDE DEF x, y
    <3>2. x \div y \in Nat /\ x % y \in 0 .. y - 1 /\ x = y * (x \div y) + (x % y)
      BY <3>1, NatDivMod, Zenon
    <3>. QED  BY <3>2 DEF x, y
  <2>2. q <= Max - 1
    BY <1>1, <2>1 DEF M
  <2>. HIDE DEF q, r
  <2>3. (2 * b) * q <= (2 * b) * (Max - 1)
    BY <1>1, <2>1, <2>2
  <2>4. (2 * b) * (Max - 1) = b * (2 * Max) - 2 * b
    BY <1>1
  <2>5. (2 * b) * q \in Nat /\ b * (2 * Max) \in Nat
    BY <1>1, <2>1
  <2>. QED  BY <1>1, <1>2, <2>1, <2>3, <2>4, <2>5
<1>4. it[0] = DivStart(a) /\ \A d \in 1 .. K : it[d] = DivStep(a, b, d, it[d - 1])
  BY <1>1, DividingDef, Zenon
<1>. HIDE DEF it, K
<1>5. 0 \in S
  <2>1. DivInv(a, b, 0, DivStart(a))
    BY <1>3, DivInvStart, Zenon DEF M
  <2>. QED  BY <1>1, <1>4, <2>1
<1>6. ASSUME NEW d \in 0 .. K - 1, d \in S PROVE d + 1 \in S
  <2>1. d + 1 \in 1 .. K /\ d + 1 \in 0 .. K /\ (d + 1) - 1 = d
    BY <1>1
  <2>2. DivInv(a, b, d, it[d])
    BY <1>6
  <2>3. DivInv(a, b, d + 1, DivStep(a, b, d + 1, it[d]))
    BY <2>2, DivInvStep, Zenon DEF K
  <2>4. it[d + 1] = DivStep(a, b, d + 1, it[d])
    BY <1>4, <2>1, Zenon
  <2>. QED  BY <2>1, <2>3, <2>4
<1>7. K \in S
  <2>. HIDE DEF S
  <2>1. 0 .. K \subseteq S
    BY <1>1, <1>5, <1>6, InductionTo
  <2>. QED  BY <1>1, <2>1
<1>. DEFINE end == it[K]
            n == end.num
<1>8. PICK Q \in Nat : end.q = Q /\ (2 * b) * Q + n = M /\ n \in 0 .. 2 * b - 1
  <2>1. 2 * H - K = 0
    BY <1>1 DEF K
  <2>2. DivInv(a, b, K, end)
    BY <1>7
  <2>. HIDE DEF end
  <2>3. PICK Q \in Nat : end.q = Q * Pow2[0] /\ (2 * b) * Q + n = M \div Pow2[0] /\ n \in 0 .. 2 * b - 1
    BY <2>1, <2>2, Zenon DEF DivInv, M
  <2>4. Pow2[0] = 1
    BY Pow2Next
  <2>5. Q * 1 = Q /\ M \div 1 = M
    BY <1>2
  <2>. QED  BY <2>3, <2>4, <2>5
<1>. HIDE DEF n
<1>9. Ready(n, b) = IF n >= b THEN 1 ELSE 0
  BY <1>8, ReadyIs, Zenon
<1>10. Q + Ready(n, b) = q
  <2>. DEFINE R == Q + Ready(n, b)
              r == IF n >= b THEN n - b ELSE n + b
              x == M + b
              y == 2 * b
  <2>1. R \in Int /\ r \in 0 .. y - 1 /\ x \in Int /\ y \in Nat \ {0}
    BY <1>1, <1>2, <1>8, <1>9
  <2>2. (2 * b) * (Q + 1) = (2 * b) * Q + 2 * b /\ (2 * b) * (Q + 0) = (2 * b) * Q /\ (2 * b) * Q \in Nat
    BY <1>1, <1>8
  <2>3. x = y * R + r
    BY <1>1, <1>2, <1>8, <1>9, <2>2
  <2>. HIDE DEF R, r, x, y
  <2>4. x \div y = R
    BY <2>1, <2>3, DivModUnique, Zenon
  <2>. QED  BY <2>4 DEF R, x, y
<1>. QED
  BY <1>8, <1>10, Zenon DEF Round, n, it, K, M


LEMMA DivRounded ==
    ASSUME NEW u \in 0 .. WordSize - 1, NEW v \in 0 .. WordSize - 1, v # 0
    PROVE  LET num == Positive(Signed(u)) * One
               D == Positive(Signed(v))
               q == ((2 * num) + D) \div (2 * D)
           IN  q < Max => Signed(fxr_div(u, v)) = IF Sign(u) = Sign(v) THEN q ELSE -q
<1>. DEFINE a == Positive(Signed(u))
            b == Positive(Signed(v))
            q == (2 * (a * One) + b) \div (2 * b)
            end == Dividing(fxr_abs(u), fxr_abs(v))[2 * H]
            z == Wrap(Round(end.q, end.num, fxr_abs(v)))
<1>. SUFFICES ASSUME q < Max
              PROVE  Signed(fxr_div(u, v)) = IF Sign(u) = Sign(v) THEN q ELSE -q
  OBVIOUS
<1>1. Max \in Nat \ {0} /\ One \in Nat \ {0} /\ WordSize = 2 * Max
  BY FixedFacts
<1>2. fxr_abs(u) = a /\ fxr_abs(v) = b /\ a \in Nat /\ b \in 0 .. Max
  BY <1>1, AbsWord
<1>3. b # 0
  <2>1. Signed(v) \in Int /\ Sign(v) \in {0, 1} /\ v = Signed(v) + WordSize * Sign(v)
        /\ (Sign(v) = 1 <=> Signed(v) < 0)
    BY WordSign
  <2>2. Signed(v) # 0
    BY <1>1, <2>1
  <2>. QED  BY <2>1, <2>2 DEF Positive
<1>4. b \in 1 .. Max /\ b \in Nat \ {0}
  BY <1>1, <1>2, <1>3
<1>. HIDE DEF a, b
<1>5. q \in Nat
  <2>. DEFINE x == 2 * (a * One) + b
              y == 2 * b
  <2>1. x \in Nat /\ y \in Nat \ {0}
    BY <1>1, <1>2, <1>4
  <2>. HIDE DEF x, y
  <2>2. x \div y \in Nat
    BY <2>1, DivNat
  <2>. QED  BY <2>2 DEF x, y
<1>6. Round(end.q, end.num, fxr_abs(v)) = q
  <2>1. (Numerator(a) + b) \div (2 * b) < Max
    BY Zenon DEF Numerator
  <2>. DEFINE e == Dividing(a, b)[2 * H]
  <2>2. Round(e.q, e.num, b) = (Numerator(a) + b) \div (2 * b)
    BY <1>2, <1>4, <2>1, QuotientNearest
  <2>3. e = end
    BY <1>2, Zenon
  <2>. HIDE DEF e, end
  <2>. QED  BY <1>2, <2>2, <2>3, Zenon DEF Numerator
<1>. HIDE DEF q, end
<1>7. z = q /\ Signed(q) = q /\ q \in 0 .. WordSize - 1
  <2>1. q \in 0 .. WordSize - 1 /\ WordSize * 0 + q = q /\ 0 \in Int /\ q < Max
    BY <1>1, <1>5
  <2>2. Wrap(WordSize * 0 + q) = q
    BY <2>1, WrapUnique, Zenon
  <2>3. Signed(q) = q
    BY <2>1, SignFacts
  <2>. QED  BY <1>6, <2>1, <2>2, <2>3, Zenon
<1>8. Signed(Wrap(-q)) = -q
  <2>1. -q \in Int /\ Representable(-q)
    BY <1>1, <1>5 DEF Representable
  <2>. QED  BY <2>1, SignedWrap, Zenon
<1>9. fxr_div(u, v) = IF Sign(u) # Sign(v) THEN fxr_neg(z) ELSE z
  BY Zenon DEF fxr_div, z, end
<1>. HIDE DEF z
<1>. QED
  BY <1>7, <1>8, <1>9, Zenon DEF fxr_neg

-----------------------------------------------------------------------------
(* FndsaFixed: complex products.                                           *)

\* The sum or difference of words that stand for f and g up to multiples of WordSize.
LEMMA WrapWrap ==
    ASSUME NEW f \in Int, NEW g \in Int
    PROVE  /\ Wrap(Wrap(f) + Wrap(g)) = Wrap(f + g)
           /\ Wrap(Wrap(f) - Wrap(g)) = Wrap(f - g)
<1>. DEFINE x == Wrap(f)
            y == Wrap(g)
            j == f \div WordSize
            k == g \div WordSize
<1>1. /\ x \in 0 .. WordSize - 1 /\ j \in Int /\ f = WordSize * j + x
      /\ y \in 0 .. WordSize - 1 /\ k \in Int /\ g = WordSize * k + y
  BY WrapFacts
<1>2. WordSize \in Nat /\ x \in Int /\ y \in Int
  BY <1>1, FixedFacts
<1>. HIDE DEF x, y, j, k
<1>3. /\ f + g = (x + y) + WordSize * (j + k) /\ x + y \in Int /\ j + k \in Int
      /\ f - g = (x - y) + WordSize * (j - k) /\ x - y \in Int /\ j - k \in Int
  BY <1>1, <1>2
<1>4. Wrap((x + y) + WordSize * (j + k)) = Wrap(x + y)
  BY <1>3, WrapSame, Zenon
<1>5. Wrap((x - y) + WordSize * (j - k)) = Wrap(x - y)
  BY <1>3, WrapSame, Zenon
<1>. QED
  BY <1>3, <1>4, <1>5, Zenon DEF x, y

\* What is within d units of v and has the word w is what w stands for.
LEMMA NearWord ==
    ASSUME NEW v \in Int, NEW d \in Nat \ {0}, NEW f \in Int, NEW w,
           w = Wrap(f), -(d * One) < f * One - v, f * One - v < d * One
    PROVE  Near(w, v, d)
<1>. DEFINE z == v \div One
            r == v % One
<1>. SUFFICES ASSUME Representable(z - d), Representable(z + d)
              PROVE  Positive(Signed(w) * One - v) < d * One
  BY DEF Near
<1>1. One \in Nat \ {0} /\ Max \in Nat
  BY FixedFacts
<1>2. z \in Int /\ r \in 0 .. One - 1 /\ v = One * z + r
  BY <1>1, DivMod
<1>. HIDE DEF z, r
<1>3. z - d <= f /\ f <= z + d
  <2>1. f * One - v = (f - z) * One - r
    BY <1>1, <1>2
  <2>2. ASSUME f >= z + d + 1 PROVE FALSE
    <3>1. (f - z) * One >= (d + 1) * One
      BY <1>1, <1>2, <2>2
    <3>2. (d + 1) * One = d * One + One
      BY <1>1
    <3>3. (f - z) * One \in Int /\ d * One \in Int
      BY <1>1, <1>2
    <3>. QED  BY <1>1, <1>2, <2>1, <3>1, <3>2, <3>3
  <2>3. ASSUME f <= z - d - 1 PROVE FALSE
    <3>1. (f - z) * One <= (-d) * One
      BY <1>1, <1>2, <2>3
    <3>2. (-d) * One = -(d * One)
      BY <1>1
    <3>3. (f - z) * One \in Int /\ d * One \in Int
      BY <1>1, <1>2
    <3>. QED  BY <1>1, <1>2, <2>1, <3>1, <3>2, <3>3
  <2>. QED  BY <1>2, <2>2, <2>3
<1>4. Representable(f)
  BY <1>1, <1>2, <1>3 DEF Representable
<1>5. Signed(w) = f
  BY <1>4, SignedWrap, Zenon
<1>6. f * One \in Int /\ d * One \in Int
  BY <1>1
<1>. QED
  BY <1>5, <1>6 DEF Positive

\* A product rounded down.
LEMMA Floor ==
    ASSUME NEW p \in Int
    PROVE  p \div One \in Int /\ 0 <= p - (p \div One) * One /\ p - (p \div One) * One < One
<1>. DEFINE f == p \div One
            r == p % One
<1>1. One \in Nat \ {0}
  BY FixedFacts
<1>2. f \in Int /\ r \in 0 .. One - 1 /\ p = One * f + r
  BY <1>1, DivMod
<1>. HIDE DEF f, r
<1>3. One * f = f * One /\ One * f \in Int
  BY <1>1, <1>2
<1>. QED
  BY <1>1, <1>2, <1>3 DEF f

LEMMA ProductClose ==
    ASSUME NEW u \in 0 .. WordSize - 1, NEW ui \in 0 .. WordSize - 1,
           NEW v \in 0 .. WordSize - 1, NEW vi \in 0 .. WordSize - 1
    PROVE  LET a == Signed(u)  ai == Signed(ui)  b == Signed(v)  bi == Signed(vi)
               r == fxc_mul(u, ui, v, vi)
           IN  /\ Near(r[1], a * b - ai * bi, 1)
               /\ Representable(a + ai) /\ Representable(b + bi) => Near(r[2], a * bi + ai * b, 2)
<1>. DEFINE a == Signed(u)
            ai == Signed(ui)
            b == Signed(v)
            bi == Signed(vi)
            s == fxr_add(u, ui)
            t == fxr_add(v, vi)
            z0 == fxr_mul(u, v)
            z1 == fxr_mul(ui, vi)
            z2 == fxr_mul(s, t)
            r == fxc_mul(u, ui, v, vi)
            p0 == a * b
            p1 == ai * bi
            f0 == p0 \div One
            f1 == p1 \div One
<1>1. a \in Int /\ ai \in Int /\ b \in Int /\ bi \in Int /\ One \in Nat \ {0}
  BY SignFacts, FixedFacts
<1>2. z0 = Wrap(f0) /\ z1 = Wrap(f1)
  BY MulRounded
<1>3. r[1] = fxr_sub(z0, z1) /\ r[2] = fxr_sub(z2, fxr_add(z0, z1))
  BY DEF fxc_mul
<1>. HIDE DEF r, z0, z1
<1>4. p0 \in Int /\ p1 \in Int
  <2>. HIDE DEF a, ai, b, bi
  <2>. QED  BY <1>1
<1>. HIDE DEF p0, p1
<1>5. /\ f0 \in Int /\ 0 <= p0 - f0 * One /\ p0 - f0 * One < One
      /\ f1 \in Int /\ 0 <= p1 - f1 * One /\ p1 - f1 * One < One
  BY <1>4, Floor
<1>. HIDE DEF f0, f1
<1>6. Near(r[1], p0 - p1, 1)
  <2>. DEFINE f == f0 - f1
              p == p0 - p1
  <2>1. r[1] = Wrap(f)
    BY <1>2, <1>3, <1>5, WrapWrap, Zenon DEF fxr_sub
  <2>2. f * One = f0 * One - f1 * One /\ f0 * One \in Int /\ f1 * One \in Int /\ 1 * One = One
    BY <1>1, <1>5
  <2>3. f \in Int /\ p \in Int /\ 1 \in Nat \ {0}
    BY <1>4, <1>5
  <2>. HIDE DEF f
  <2>4. -(1 * One) < f * One - p /\ f * One - p < 1 * One
    BY <1>1, <1>4, <1>5, <2>2
  <2>. HIDE DEF p
  <2>5. Near(r[1], p, 1)
    BY <2>1, <2>3, <2>4, NearWord, Zenon
  <2>. QED  BY <2>5 DEF p
<1>7. ASSUME Representable(a + ai), Representable(b + bi)
      PROVE  Near(r[2], a * bi + ai * b, 2)
  <2>. DEFINE c == a + ai
              e == b + bi
              p2 == c * e
              f2 == p2 \div One
              p == a * bi + ai * b
              f == f2 - (f0 + f1)
  <2>1. Signed(s) = c /\ Signed(t) = e /\ s \in 0 .. WordSize - 1 /\ t \in 0 .. WordSize - 1
    <3>1. s = Wrap(a + ai) /\ t = Wrap(b + bi)
      BY WordSum DEF fxr_add
    <3>2. c \in Int /\ e \in Int
      BY <1>1
    <3>. QED  BY <1>7, <3>1, <3>2, SignedWrap, Zenon
  <2>. HIDE DEF s, t
  <2>2. z2 = Wrap(f2)
    <3>1. fxr_mul(s, t) = Wrap((Signed(s) * Signed(t)) \div One)
      BY <2>1, MulRounded, Zenon
    <3>. QED  BY <2>1, <3>1, Zenon
  <2>. HIDE DEF z2, a, ai, b, bi
  <2>3. p2 \in Int /\ p \in Int /\ p2 - (p0 + p1) = p
    <3>1. \A w, x, y, z \in Int : (w + x) * (y + z) - (w * y + x * z) = w * z + x * y
      OBVIOUS
    <3>. QED  BY <1>1, <3>1 DEF p0, p1
  <2>. HIDE DEF p2, p
  <2>4. f2 \in Int /\ 0 <= p2 - f2 * One /\ p2 - f2 * One < One
    BY <2>3, Floor, Zenon
  <2>. HIDE DEF f2
  <2>5. r[2] = Wrap(f)
    <3>1. fxr_add(z0, z1) = Wrap(f0 + f1) /\ f0 + f1 \in Int
      BY <1>2, <1>5, WrapWrap DEF fxr_add
    <3>2. Wrap(Wrap(f2) - Wrap(f0 + f1)) = Wrap(f2 - (f0 + f1))
      BY <2>4, <3>1, WrapWrap, Zenon
    <3>. QED  BY <1>3, <2>2, <3>1, <3>2, Zenon DEF fxr_sub
  <2>6. f * One = f2 * One - (f0 * One + f1 * One)
        /\ f0 * One \in Int /\ f1 * One \in Int /\ f2 * One \in Int
    BY <1>1, <1>5, <2>4
  <2>7. f \in Int /\ 2 \in Nat \ {0}
    BY <1>5, <2>4
  <2>. HIDE DEF f
  <2>8. -(2 * One) < f * One - p /\ f * One - p < 2 * One
    BY <1>1, <1>4, <1>5, <2>3, <2>4, <2>6
  <2>9. Near(r[2], p, 2)
    BY <2>3, <2>5, <2>7, <2>8, NearWord, Zenon
  <2>. QED  BY <2>9 DEF p
<1>. QED
  BY <1>6, <1>7, Zenon DEF p0, p1, a, ai, b, bi, r

-----------------------------------------------------------------------------
(* FndsaFixed: the invariant.                                              *)

\* Operands are words, and a result that is there is rounded as it should be.
FixedInv ==
    /\ lhs \in fxr /\ rhs \in fxr /\ lhs_im \in fxr /\ rhs_im \in fxr
    /\ FixedRounded

LEMMA FixedInductive ==
    /\ FixedInit => FixedInv
    /\ FixedInv /\ [FixedNext]_fixedVars => FixedInv'
<1>1. FixedInit => FixedInv
  BY FixedAssumption DEF FixedInit, FixedInv, FixedRounded, ProductRounded, QuotientRounded, ComplexClose
<1>2. ASSUME FixedInv, [FixedNext]_fixedVars PROVE FixedInv'
  <2>0. /\ lhs \in 0 .. WordSize - 1 /\ rhs \in 0 .. WordSize - 1
        /\ lhs_im \in 0 .. WordSize - 1 /\ rhs_im \in 0 .. WordSize - 1
    BY <1>2 DEF FixedInv, fxr
  <2>. SUFFICES ASSUME FixedNext PROVE FixedInv'
    <3>1. CASE UNCHANGED fixedVars
      BY <1>2, <3>1 DEF fixedVars, FixedInv, FixedRounded, ProductRounded, QuotientRounded, ComplexClose, Near
    <3>. QED  BY <1>2, <3>1
  <2>1. ASSUME NEW name, NEW r, Apply(name, r), (FixedRounded)'
        PROVE  FixedInv'
    BY <1>2, <2>1 DEF Apply, FixedInv
  <2>2. CASE Multiply
    <3>1. lhs' = lhs /\ rhs' = rhs /\ fxop' = "mul" /\ res' = <<fxr_mul(lhs, rhs)>>
      BY <2>2 DEF Multiply, Apply
    <3>2. fxr_mul(lhs, rhs) = Wrap((Signed(lhs) * Signed(rhs)) \div One)
      BY <2>0, MulRounded, Zenon
    <3>3. res'[1] = Wrap((Signed(lhs') * Signed(rhs')) \div One)
      BY <3>1, <3>2
    <3>4. FixedRounded'
      BY <3>1, <3>3 DEF FixedRounded, ProductRounded, QuotientRounded, ComplexClose
    <3>. QED  BY <2>1, <2>2, <3>4 DEF Multiply
  <2>3. CASE Square
    <3>1. lhs' = lhs /\ rhs' = rhs /\ fxop' = "sqr" /\ res' = <<fxr_sqr(lhs)>>
      BY <2>3 DEF Square, Apply
    <3>2. fxr_sqr(lhs) = Wrap((Signed(lhs) * Signed(lhs)) \div One)
      BY <2>0, SqrRounded, Zenon
    <3>3. res'[1] = Wrap((Signed(lhs') * Signed(lhs')) \div One)
      BY <3>1, <3>2
    <3>4. FixedRounded'
      BY <3>1, <3>3 DEF FixedRounded, ProductRounded, QuotientRounded, ComplexClose
    <3>. QED  BY <2>1, <2>3, <3>4 DEF Square
  <2>4. CASE Divide
    <3>. DEFINE D == fxr_div(lhs, rhs)
                Nearest(u, v, w) ==
                  LET num == Positive(Signed(u)) * One
                      d == Positive(Signed(v))
                      q == ((2 * num) + d) \div (2 * d)
                  IN  q < Max => Signed(w) = IF Sign(u) = Sign(v) THEN q ELSE -q
    <3>1. lhs' = lhs /\ rhs' = rhs /\ fxop' = "div" /\ res' = <<D>> /\ rhs # 0
      BY <2>4 DEF Divide, Apply
    <3>2. Nearest(lhs, rhs, D)
      BY <2>0, <3>1, DivRounded
    <3>. HIDE DEF D, Nearest
    <3>3. res'[1] = D
      BY <3>1
    <3>4. Nearest(lhs', rhs', res'[1])
      BY <3>1, <3>2, <3>3, Zenon
    <3>5. QuotientRounded'
      BY <3>1, <3>4 DEF QuotientRounded, Nearest
    <3>6. FixedRounded'
      BY <3>1, <3>5 DEF FixedRounded, ProductRounded, ComplexClose
    <3>. QED  BY <2>1, <2>4, <3>6 DEF Divide
  <2>5. CASE Shrink
    <3>. DEFINE d == fxr_div2e(lhs, rhs)
                f == fxr_round(lhs)
                Nearest(u, e, w, z) ==
                  /\ Representable(Signed(u) + (Pow2[e] \div 2)) =>
                         Signed(w) = (2 * Signed(u) + Pow2[e]) \div (2 * Pow2[e])
                  /\ Representable(Signed(u) + Pow2[H - 1]) =>
                         z = (2 * Signed(u) + One) \div (2 * One)
    <3>1. lhs' = lhs /\ rhs' = rhs /\ fxop' = "div2e" /\ res' = <<d, f>> /\ rhs \in 1 .. H
      BY <2>5 DEF Shrink, Apply
    <3>2. Nearest(lhs, rhs, d, f)
      BY <2>0, <3>1, ShrinkRounded
    <3>. HIDE DEF d, f, Nearest
    <3>3. res'[1] = d /\ res'[2] = f
      BY <3>1
    <3>4. Nearest(lhs', rhs', res'[1], res'[2])
      BY <3>1, <3>2, <3>3, Zenon
    <3>5. QuotientRounded'
      BY <3>1, <3>4 DEF QuotientRounded, Nearest
    <3>6. FixedRounded'
      BY <3>1, <3>5 DEF FixedRounded, ProductRounded, ComplexClose
    <3>. QED  BY <2>1, <2>5, <3>6 DEF Shrink
  <2>6. CASE Product
    <3>. DEFINE Close(u, ui, v, vi, w) ==
                  LET a == Signed(u)  ai == Signed(ui)  b == Signed(v)  bi == Signed(vi)
                  IN  /\ Near(w[1], a * b - ai * bi, 1)
                      /\ Representable(a + ai) /\ Representable(b + bi) => Near(w[2], a * bi + ai * b, 2)
    <3>1. /\ lhs' = lhs /\ rhs' = rhs /\ lhs_im' = lhs_im /\ rhs_im' = rhs_im
          /\ fxop' = "complex" /\ res' = fxc_mul(lhs, lhs_im, rhs, rhs_im)
      BY <2>6 DEF Product, Apply
    <3>2. Close(lhs, lhs_im, rhs, rhs_im, fxc_mul(lhs, lhs_im, rhs, rhs_im))
      BY <2>0, ProductClose
    <3>. HIDE DEF Close
    <3>3. Close(lhs', lhs_im', rhs', rhs_im', res')
      BY <3>1, <3>2, Zenon
    <3>4. ComplexClose'
      BY <3>1, <3>3, Zenon DEF ComplexClose, Close
    <3>5. FixedRounded'
      BY <3>1, <3>4 DEF FixedRounded, ProductRounded, QuotientRounded
    <3>. QED  BY <2>1, <2>6, <3>5 DEF Product
  <2>. QED  BY <2>2, <2>3, <2>4, <2>5, <2>6 DEF FixedNext
<1>. QED
  BY <1>1, <1>2

\* For every number of bits after the point, fixed-point products are the exact
\* ones rounded down, quotients and shifted numbers the nearest ones, and
\* complex products made of three real ones are within one and two units.
THEOREM FixedIsRounded == FixedSpec => []FixedRounded
<1>1. FixedSpec => []FixedInv
  BY FixedInductive, PTL DEF FixedSpec
<1>2. FixedInv => FixedRounded
  BY DEF FixedInv
<1>. QED
  BY <1>1, <1>2, PTL

-----------------------------------------------------------------------------
(* FndsaKeys: the widths of a coefficient and the bytes.                   *)

FieldWidths == {nb \in 5 .. 8 : (nb * N) % Byte = 0}

Octets == 0 .. Pow2[Byte] - 1

LEMMA SmallPowers ==
    /\ Pow2[0] = 1 /\ Pow2[1] = 2 /\ Pow2[2] = 4 /\ Pow2[3] = 8 /\ Pow2[4] = 16
    /\ Pow2[5] = 32 /\ Pow2[6] = 64 /\ Pow2[7] = 128 /\ Pow2[8] = 256
<1>1. Pow2[0] = 1
  BY Pow2Def
<1>2. Pow2[1] = 2
  BY <1>1, Pow2Def
<1>3. Pow2[2] = 4
  BY <1>2, Pow2Def
<1>4. Pow2[3] = 8
  BY <1>3, Pow2Def
<1>5. Pow2[4] = 16
  BY <1>4, Pow2Def
<1>6. Pow2[5] = 32
  BY <1>5, Pow2Def
<1>7. Pow2[6] = 64
  BY <1>6, Pow2Def
<1>8. Pow2[7] = 128
  BY <1>7, Pow2Def
<1>9. Pow2[8] = 256
  BY <1>8, Pow2Def
<1>. QED
  BY <1>1, <1>2, <1>3, <1>4, <1>5, <1>6, <1>7, <1>8, <1>9

LEMMA WidthFacts ==
    ASSUME NEW nb \in FieldWidths
    PROVE  /\ nb \in 5 .. 8 /\ Pow2[nb] \in Nat \ {0} /\ Pow2[nb - 1] \in Nat \ {0}
           /\ Pow2[nb] = 2 * Pow2[nb - 1]
           /\ N \in Nat \ {0} /\ AccWidth \in Nat /\ AccWidth >= 15 /\ Byte = 8
           /\ Needed(nb) \in Nat /\ nb * N = 8 * Needed(nb)
<1>1. nb \in 5 .. 8 /\ (nb * N) % 8 = 0 /\ N \in Nat \ {0}
  BY KeysAssumption DEF FieldWidths, Byte
<1>2. nb \in Nat /\ nb - 1 \in Nat /\ (nb - 1) + 1 = nb
  BY <1>1
<1>3. Pow2[nb] \in Nat \ {0} /\ Pow2[nb - 1] \in Nat \ {0} /\ Pow2[nb] = 2 * Pow2[nb - 1]
  <2>1. Pow2[(nb - 1) + 1] = 2 * Pow2[nb - 1]
    BY <1>2, Pow2Next, Zenon
  <2>. QED  BY <1>2, <2>1, Pow2Nat
<1>4. \A t \in Nat : t % 8 = 0 => (t + 7) \div 8 \in Nat /\ t = 8 * ((t + 7) \div 8)
  OBVIOUS
<1>5. nb * N \in Nat
  BY <1>1
<1>6. Needed(nb) \in Nat /\ nb * N = 8 * Needed(nb)
  <2>. DEFINE t == nb * N
  <2>1. t \in Nat /\ t % 8 = 0
    BY <1>1, <1>5
  <2>. HIDE DEF t
  <2>2. (t + 7) \div 8 \in Nat /\ t = 8 * ((t + 7) \div 8)
    BY <1>4, <2>1
  <2>. QED  BY <2>2 DEF Needed, Byte, t
<1>. QED
  BY <1>1, <1>3, <1>6, KeysAssumption DEF Byte

\* The fields of a polynomial, as the encoder truncates its coefficients.
Fields(p, nb) == [k \in 1 .. N |-> p[k] % Pow2[nb]]

LEMMA FieldsType ==
    ASSUME NEW nb \in FieldWidths, NEW p \in [1 .. N -> Int]
    PROVE  /\ Fields(p, nb) \in Seq(0 .. Pow2[nb] - 1) /\ Len(Fields(p, nb)) = N
           /\ \A k \in 1 .. N : Fields(p, nb)[k] = p[k] % Pow2[nb]
           /\ \A k \in 1 .. N : p[k] % Pow2[nb] \in 0 .. Pow2[nb] - 1
<1>. DEFINE B == Pow2[nb]
            S == 0 .. B - 1
            w == Fields(p, nb)
<1>1. B \in Nat \ {0} /\ N \in Nat
  BY WidthFacts
<1>. HIDE DEF B
<1>2. ASSUME NEW k \in 1 .. N PROVE p[k] % B \in S
  BY <1>1, DivMod
<1>3. w = [k \in 1 .. N |-> p[k] % B]
  BY DEF Fields, B
<1>. HIDE DEF w
<1>4. w \in [1 .. N -> S] /\ \A k \in 1 .. N : w[k] = p[k] % B
  BY <1>2, <1>3
<1>. HIDE DEF S
<1>5. w \in Seq(S) /\ Len(w) = N
  BY <1>1, <1>4
<1>. QED
  BY <1>2, <1>4, <1>5 DEF w, B, S

-----------------------------------------------------------------------------
(* FndsaKeys: the encoder.                                                 *)

EncStates == [acc : Nat, len : Nat, dst : Seq(Octets)]

\* What the accumulator and the bytes written so far stand for.
Written(st) == Digits(Pow2[Byte], st.dst)[Len(st.dst)] * Pow2[st.len] + (st.acc % Pow2[st.len])

\* One more coefficient: the state stays well formed, and as long as the
\* pending bits fit into the accumulator the number gets one more field.
LEMMA PutValue ==
    ASSUME NEW nb \in FieldWidths, NEW st \in EncStates, NEW x \in Int
    PROVE  LET v == Put(st, x, nb)
           IN  /\ v \in EncStates /\ v.len \in 0 .. 7
               /\ st.len \in 0 .. 7 =>
                    /\ 8 * Len(v.dst) + v.len = (8 * Len(st.dst) + st.len) + nb
                    /\ Written(v) = Written(st) * Pow2[nb] + (x % Pow2[nb])
<1>. DEFINE B == Pow2[nb]
            R == Pow2[Byte]
            W == Pow2[AccWidth]
            c == x % B
            a == (st.acc * B + c) % W
            alen == st.len + nb
            n == alen \div 8
            l == alen % 8
            u == st.dst \o Groups(a, alen, Byte, n)
            v == Put(st, x, nb)
<1>1. /\ nb \in 5 .. 8 /\ B \in Nat \ {0} /\ AccWidth \in Nat /\ AccWidth >= 15 /\ Byte = 8
      /\ R \in Nat \ {0} /\ W \in Nat \ {0}
  BY WidthFacts, Pow2Nat
<1>2. st.acc \in Nat /\ st.len \in Nat /\ st.dst \in Seq(0 .. R - 1)
  BY DEF EncStates, Octets
<1>3. c \in 0 .. B - 1
  <2>. HIDE DEF B
  <2>. QED  BY <1>1, DivMod
<1>4. a \in Nat
  <2>. HIDE DEF B, W, c
  <2>1. st.acc * B + c \in Int
    BY <1>1, <1>2, <1>3
  <2>2. a \in 0 .. W - 1
    BY <1>1, <2>1, DivMod, Zenon
  <2>. QED  BY <1>1, <2>2
<1>5. /\ alen \in Nat /\ n \in Nat /\ l \in 0 .. 7 /\ n * 8 <= alen /\ alen - n * 8 = l
      /\ alen = 8 * n + l
  <2>1. alen \in Nat
    BY <1>1, <1>2
  <2>. HIDE DEF alen
  <2>. QED  BY <2>1
<1>6. v = [acc |-> a, len |-> l, dst |-> u]
  BY DEF Put, Pack, Groups, Byte
<1>7. Continues(st.dst, u, R, n, a, alen, l)
  <2>1. Byte \in Nat /\ st.dst \in Seq(0 .. Pow2[Byte] - 1) /\ n * Byte <= alen /\ alen - n * Byte = l
    BY <1>1, <1>2, <1>5
  <2>. HIDE DEF a, alen, n, l
  <2>2. Continues(st.dst, st.dst \o Groups(a, alen, Byte, n), Pow2[Byte], n, a, alen, alen - n * Byte)
    BY <1>4, <1>5, <2>1, GroupsValue, Zenon
  <2>. QED  BY <2>1, <2>2, Zenon
<1>. HIDE DEF u, v
<1>8. /\ u \in Seq(0 .. R - 1) /\ Len(u) = Len(st.dst) + n
      /\ Digits(R, u)[Len(u)] * Pow2[l] + (a % Pow2[l])
           = Digits(R, st.dst)[Len(st.dst)] * Pow2[alen] + (a % Pow2[alen])
  BY <1>7, Zenon DEF Continues
<1>9. v \in EncStates /\ v.len = l /\ v.dst = u /\ v.acc = a
  <2>1. u \in Seq(Octets)
    BY <1>8, Zenon DEF Octets
  <2>. HIDE DEF a, l, R, alen, n
  <2>2. l \in Nat
    BY <1>5
  <2>. QED  BY <1>4, <1>6, <2>1, <2>2 DEF EncStates
<1>10. ASSUME st.len \in 0 .. 7
       PROVE  /\ 8 * Len(u) + l = (8 * Len(st.dst) + st.len) + nb
              /\ Written(v) = Written(st) * B + c
  <2>1. 8 * Len(u) + l = (8 * Len(st.dst) + st.len) + nb
    <3>1. Len(st.dst) \in Nat
      BY <1>2
    <3>2. Len(u) = Len(st.dst) + n
      BY <1>8, Zenon
    <3>. DEFINE y == Len(u)
                z == Len(st.dst)
                e == st.len
    <3>3. e \in Nat /\ e + nb = 8 * n + l /\ y = z + n /\ z \in Nat
      BY <1>2, <1>5, <3>1, <3>2
    <3>. HIDE DEF n, l, y, z, e
    <3>4. 8 * y + l = (8 * z + e) + nb
      BY <1>1, <1>5, <3>3
    <3>. QED  BY <3>4 DEF y, z, e
  <2>2. a % Pow2[alen] = (st.acc % Pow2[st.len]) * B + c
    <3>1. nb \in Nat /\ st.len + nb <= AccWidth
      BY <1>1, <1>10
    <3>. DEFINE e == st.len
                f == st.acc
    <3>2. /\ e \in Nat /\ f \in Nat /\ nb \in Nat /\ e + nb <= AccWidth
          /\ c \in 0 .. Pow2[nb] - 1 /\ AccWidth \in Nat
      BY <1>1, <1>2, <1>3, <3>1
    <3>. HIDE DEF c, e, f
    <3>3. Shifted(f, nb, c, AccWidth) % Pow2[e + nb] = (f % Pow2[e]) * Pow2[nb] + c
      BY <3>2, ShiftInLow
    <3>. QED  BY <3>3 DEF e, f, Shifted
  <2>3. Pow2[alen] = Pow2[st.len] * B
    <3>1. nb \in Nat
      BY <1>1
    <3>. QED  BY <1>2, <3>1, Pow2Add
  <2>. DEFINE y == Digits(R, st.dst)[Len(st.dst)]
              t == Pow2[st.len]
              r == st.acc % t
  <2>4. y \in Nat
    <3>1. st.dst \in Seq(Nat)
      <4>. HIDE DEF R
      <4>. QED  BY <1>1, <1>2, DigitsNat
    <3>2. Digits(R, st.dst) \in [0 .. Len(st.dst) -> Nat] /\ Len(st.dst) \in 0 .. Len(st.dst)
      <4>. DEFINE d == st.dst
      <4>1. d \in Seq(Nat) /\ Len(d) \in 0 .. Len(d)
        BY <3>1
      <4>. HIDE DEF R, d
      <4>2. Digits(R, d) \in [0 .. Len(d) -> Nat]
        BY <1>1, <4>1, DigitsDef, Zenon
      <4>. QED  BY <4>1, <4>2 DEF d
    <3>. QED  BY <3>2
  <2>5. t \in Nat \ {0}
    BY <1>2, Pow2Nat
  <2>6. r \in Nat
    <3>. HIDE DEF t
    <3>. QED  BY <1>2, <2>5, DivMod
  <2>7. Written(st) = y * t + r
    BY DEF Written
  <2>8. Written(v) = y * Pow2[alen] + (a % Pow2[alen])
    <3>. HIDE DEF y
    <3>1. Written(v) = Digits(R, u)[Len(u)] * Pow2[l] + (a % Pow2[l])
      BY <1>9, Zenon DEF Written
    <3>. QED  BY <1>8, <3>1, Zenon DEF y
  <2>. HIDE DEF y, t, r, c
  <2>10. y * (t * B) + (r * B + c) = (y * t + r) * B + c
    <3>1. B \in Nat /\ c \in Nat /\ t \in Nat
      BY <1>1, <1>3, <2>5
    <3>. HIDE DEF B
    <3>. QED  BY <2>4, <2>6, <3>1
  <2>. QED  BY <2>1, <2>2, <2>3, <2>7, <2>8, <2>10, Zenon DEF t, r
<1>. QED
  BY <1>5, <1>9, <1>10, Zenon DEF v, B, c

\* The encoder, one coefficient after the other.
LEMMA EncodingDef ==
    ASSUME NEW nb \in FieldWidths, NEW p \in [1 .. N -> Int]
    PROVE  /\ Encoding(p, nb)[0] = [acc |-> 0, len |-> 0, dst |-> <<>>]
           /\ \A k \in 1 .. N : Encoding(p, nb)[k] = Put(Encoding(p, nb)[k - 1], p[k], nb)
<1>. DEFINE c == [acc |-> 0, len |-> 0, dst |-> <<>>]
            g == [y \in Nat \X EncStates |-> IF y[1] \in 1 .. N THEN Put(y[2], p[y[1]], nb) ELSE y[2]]
<1>0. N \in Nat
  BY WidthFacts
<1>1. \A k \in 1 .. N : \A v \in EncStates : g[<<k, v>>] = Put(v, p[k], nb)
  BY <1>0
<1>2. g \in [Nat \X EncStates -> EncStates]
  <2>. SUFFICES ASSUME NEW y \in Nat \X EncStates
                PROVE  (IF y[1] \in 1 .. N THEN Put(y[2], p[y[1]], nb) ELSE y[2]) \in EncStates
    OBVIOUS
  <2>1. y[2] \in EncStates
    OBVIOUS
  <2>2. ASSUME y[1] \in 1 .. N PROVE Put(y[2], p[y[1]], nb) \in EncStates
    <3>1. p[y[1]] \in Int
      BY <2>2
    <3>. QED  BY <2>1, <3>1, PutValue, Zenon
  <2>. QED  BY <2>1, <2>2
<1>. HIDE DEF g
<1>3. c \in EncStates
  <2>1. <<>> \in Seq(Octets)
    OBVIOUS
  <2>. QED  BY <2>1 DEF EncStates
<1>. HIDE DEF c
<1>4. PICK f \in [0 .. N -> EncStates] : IsRec(f, N, c, g)
  BY <1>0, <1>2, <1>3, RecExists, Zenon
<1>5. f[0] = c /\ \A k \in 1 .. N : f[k] = Put(f[k - 1], p[k], nb)
  <2>1. f[0] = c /\ \A k \in 1 .. N : f[k] = g[<<k, f[k - 1]>>]
    BY <1>4 DEF IsRec
  <2>2. ASSUME NEW k \in 1 .. N PROVE f[k - 1] \in EncStates
    BY <1>0
  <2>. QED  BY <1>1, <2>1, <2>2, Zenon
<1>6. f = [k \in 0 .. N |-> IF k = 0 THEN c ELSE Put(f[k - 1], p[k], nb)]
  <2>1. ASSUME NEW k \in 0 .. N PROVE f[k] = IF k = 0 THEN c ELSE Put(f[k - 1], p[k], nb)
    <3>1. k = 0 \/ k \in 1 .. N
      BY <1>0
    <3>2. \A x \in 1 .. N : x # 0
      BY <1>0
    <3>. QED  BY <1>5, <3>1, <3>2, Zenon
  <2>2. f = [k \in 0 .. N |-> f[k]]
    OBVIOUS
  <2>. QED  BY <2>1, <2>2, Zenon
<1>. DEFINE h == Encoding(p, nb)
<1>7. h = [k \in 0 .. N |-> IF k = 0 THEN c ELSE Put(h[k - 1], p[k], nb)]
  BY <1>6, Zenon DEF Encoding, c
<1>. HIDE DEF h
<1>8. ASSUME NEW k \in 0 .. N PROVE h[k] = IF k = 0 THEN c ELSE Put(h[k - 1], p[k], nb)
  BY <1>7, Zenon
<1>9. 0 \in 0 .. N /\ \A k \in 1 .. N : k \in 0 .. N /\ k # 0
  BY <1>0
<1>. QED
  BY <1>8, <1>9, Zenon DEF h, c

\* The bytes of a polynomial stand for the same number as its fields.
LEMMA EncodeValue ==
    ASSUME NEW nb \in FieldWidths, NEW p \in [1 .. N -> Int]
    PROVE  LET e == trim_i8_encode(p, nb)
           IN  /\ e \in Seq(Octets) /\ Len(e) = Needed(nb)
               /\ Digits(Pow2[Byte], e)[Needed(nb)] = Digits(Pow2[nb], Fields(p, nb))[N]
<1>. DEFINE h == Encoding(p, nb)
            w == Fields(p, nb)
            B == Pow2[nb]
            v == Digits(B, w)
            T == {k \in 0 .. N : /\ h[k] \in EncStates /\ h[k].len \in 0 .. 7
                                 /\ 8 * Len(h[k].dst) + h[k].len = nb * k
                                 /\ Written(h[k]) = v[k]}
<1>1. /\ N \in Nat /\ B \in Nat \ {0} /\ nb \in 5 .. 8 /\ Byte = 8
      /\ Needed(nb) \in Nat /\ nb * N = 8 * Needed(nb)
  BY WidthFacts
<1>2. /\ h[0] = [acc |-> 0, len |-> 0, dst |-> <<>>]
      /\ \A k \in 1 .. N : h[k] = Put(h[k - 1], p[k], nb)
  BY EncodingDef, Zenon
<1>3. w \in Seq(0 .. B - 1) /\ Len(w) = N /\ \A k \in 1 .. N : w[k] = p[k] % B
  BY FieldsType, Zenon
<1>4. v \in [0 .. N -> Nat] /\ v[0] = 0 /\ \A k \in 1 .. N : v[k] = v[k - 1] * B + w[k]
  <2>. HIDE DEF B, w
  <2>1. w \in Seq(Nat)
    BY <1>1, <1>3, DigitsNat
  <2>. QED  BY <1>1, <1>3, <2>1, DigitsDef
<1>5. \A d \in Seq(Octets) : d \in Seq(Nat)
  BY WidthFacts, Pow2Nat, DigitsNat DEF Octets
<1>. HIDE DEF h, v, w
<1>6. 0 \in T
  <2>1. h[0] \in EncStates /\ h[0].len = 0 /\ h[0].acc = 0 /\ h[0].dst = <<>>
    <3>1. <<>> \in Seq(Octets)
      OBVIOUS
    <3>. QED  BY <1>2, <3>1 DEF EncStates
  <2>2. Written(h[0]) = 0
    <3>. DEFINE R == Pow2[Byte]
    <3>1. R \in Nat \ {0} /\ <<>> \in Seq(Nat) /\ Len(<<>>) = 0
      BY <1>1, Pow2Nat
    <3>. HIDE DEF R
    <3>2. Digits(R, <<>>)[0] = 0
      BY <3>1, DigitsDef
    <3>3. Written(h[0]) = Digits(R, <<>>)[0] * Pow2[0] + (0 % Pow2[0])
      BY <2>1, <3>1 DEF Written, R
    <3>. QED  BY <3>2, <3>3, SmallPowers
  <2>3. 8 * Len(h[0].dst) + h[0].len = nb * 0
    BY <1>1, <2>1
  <2>. QED  BY <1>1, <1>4, <2>1, <2>2, <2>3
<1>7. ASSUME NEW k \in 0 .. N - 1, k \in T PROVE k + 1 \in T
  <2>. DEFINE st == h[k]
              x == p[k + 1]
              y == Put(st, x, nb)
  <2>1. k + 1 \in 1 .. N /\ k + 1 \in 0 .. N /\ (k + 1) - 1 = k /\ x \in Int /\ k \in 0 .. N
    BY <1>1
  <2>2. h[k + 1] = y
    BY <1>2, <2>1
  <2>3. /\ st \in EncStates /\ st.len \in 0 .. 7
        /\ 8 * Len(st.dst) + st.len = nb * k /\ Written(st) = v[k]
    BY <1>7
  <2>. HIDE DEF st, x, T
  <2>4. /\ y \in EncStates /\ y.len \in 0 .. 7
        /\ 8 * Len(y.dst) + y.len = (8 * Len(st.dst) + st.len) + nb
        /\ Written(y) = Written(st) * B + (x % B)
    BY <2>1, <2>3, PutValue
  <2>. HIDE DEF y
  <2>5. v[k + 1] = v[k] * B + (x % B)
    BY <1>3, <1>4, <2>1 DEF x
  <2>6. nb * (k + 1) = nb * k + nb
    BY <1>1
  <2>. QED  BY <2>1, <2>2, <2>3, <2>4, <2>5, <2>6 DEF T
<1>8. N \in T
  <2>. HIDE DEF T
  <2>1. 0 .. N \subseteq T
    BY <1>1, <1>6, <1>7, InductionTo
  <2>. QED  BY <1>1, <2>1
<1>. DEFINE z == h[N].dst
            L == Len(z)
<1>9. h[N] \in EncStates /\ h[N].len \in 0 .. 7 /\ 8 * L + h[N].len = nb * N /\ Written(h[N]) = v[N]
  BY <1>8
<1>10. z \in Seq(Octets) /\ L \in Nat /\ h[N].acc \in Nat
  BY <1>9 DEF EncStates
<1>11. L = Needed(nb) /\ h[N].len = 0
  <2>. DEFINE y == nb * N
              e == h[N].len
              t == Needed(nb)
  <2>. HIDE DEF y, e, L, t
  <2>1. e \in 0 .. 7 /\ 8 * L + e = y /\ y = 8 * t /\ t \in Nat /\ L \in Nat
    BY <1>1, <1>9, <1>10 DEF y, e, t
  <2>2. L = t /\ e = 0
    BY <2>1
  <2>. QED  BY <2>2 DEF e, t
<1>12. Written(h[N]) = Digits(Pow2[Byte], z)[L]
  <2>. DEFINE y == Digits(Pow2[Byte], z)[L]
  <2>1. y \in Nat
    <3>1. z \in Seq(Nat) /\ Pow2[Byte] \in Nat \ {0}
      BY <1>1, <1>5, <1>10, Pow2Nat
    <3>. DEFINE R == Pow2[Byte]
    <3>. HIDE DEF R, z
    <3>2. Digits(R, z) \in [0 .. L -> Nat]
      BY <3>1, DigitsDef DEF R
    <3>. QED  BY <1>10, <3>2 DEF R
  <2>2. Written(h[N]) = y * Pow2[0] + (h[N].acc % Pow2[0])
    BY <1>11 DEF Written
  <2>. HIDE DEF y
  <2>. QED  BY <1>10, <2>1, <2>2, SmallPowers DEF y
<1>. QED
  BY <1>9, <1>10, <1>11, <1>12, Zenon DEF trim_i8_encode, h, v, w, B

-----------------------------------------------------------------------------
(* FndsaKeys: the decoder.                                                 *)

DecStates == {st \in [acc : Nat, len : Nat, p : Seq(Int), ok : BOOLEAN] : Len(st.p) <= N}

LEMMA SignExtendFacts ==
    ASSUME NEW nb \in FieldWidths
    PROVE  /\ \A w \in 0 .. Pow2[nb] - 1 :
                 SignExtend(w, nb) \in Int /\ SignExtend(w, nb) % Pow2[nb] = w
           /\ \A x \in Int : -Pow2[nb - 1] < x /\ x < Pow2[nb - 1] =>
                 SignExtend(x % Pow2[nb], nb) = x /\ ValidCoeff(x, nb)
<1>. DEFINE half == Pow2[nb - 1]
            B == Pow2[nb]
<1>1. half \in Nat \ {0} /\ B = 2 * half
  BY WidthFacts
<1>2. /\ \A w \in Int : SignExtend(w, nb) = IF w >= half THEN w - B ELSE w
      /\ \A x \in Int : ValidCoeff(x, nb) <=> x # -half
  BY DEF SignExtend, ValidCoeff
<1>. HIDE DEF half, B
<1>3. ASSUME NEW w \in 0 .. B - 1 PROVE SignExtend(w, nb) \in Int /\ SignExtend(w, nb) % B = w
  <2>1. w \in Int /\ w \in 0 .. B - 1 /\ B \in Nat \ {0} /\ w - B \in Int
    BY <1>1
  <2>2. w = B * 0 + w /\ w - B = B * (-1) + w /\ -1 \in Int /\ 0 \in Int
    BY <1>1
  <2>3. w % B = w
    BY <2>1, <2>2, DivModUnique, Zenon
  <2>4. (w - B) % B = w
    BY <2>1, <2>2, DivModUnique, Zenon
  <2>. QED  BY <1>2, <2>1, <2>3, <2>4
<1>4. ASSUME NEW x \in Int, -half < x, x < half
      PROVE  SignExtend(x % B, nb) = x /\ ValidCoeff(x, nb)
  <2>0. B \in Nat \ {0} /\ 0 \in Int /\ -1 \in Int
    BY <1>1
  <2>1. CASE x >= 0
    <3>1. x \in 0 .. B - 1 /\ x = B * 0 + x
      BY <1>1, <1>4, <2>1
    <3>2. x % B = x
      BY <2>0, <3>1, DivModUnique, Zenon
    <3>3. SignExtend(x, nb) = x /\ x # -half
      BY <1>1, <1>2, <1>4, <2>1
    <3>. QED  BY <1>2, <3>2, <3>3, Zenon
  <2>2. CASE x < 0
    <3>1. x + B \in 0 .. B - 1 /\ x = B * (-1) + (x + B) /\ x + B >= half
      BY <1>1, <1>4, <2>2
    <3>2. x % B = x + B
      BY <2>0, <3>1, DivModUnique, Zenon
    <3>3. x + B \in Int /\ x + B >= half /\ (x + B) - B = x /\ x # -half
      BY <1>1, <1>4, <3>1
    <3>4. SignExtend(x + B, nb) = x
      BY <1>2, <3>3, Zenon
    <3>. QED  BY <1>2, <3>2, <3>3, <3>4, Zenon
  <2>. QED  BY <2>1, <2>2
<1>. QED
  BY <1>3, <1>4 DEF half, B

\* A field whose coefficient is valid stands for one that has a code.
LEMMA ValidIsInside ==
    ASSUME NEW nb \in FieldWidths, NEW w \in 0 .. Pow2[nb] - 1, ValidCoeff(SignExtend(w, nb), nb)
    PROVE  -Pow2[nb - 1] < SignExtend(w, nb) /\ SignExtend(w, nb) < Pow2[nb - 1]
<1>. DEFINE half == Pow2[nb - 1]
            B == Pow2[nb]
<1>1. half \in Nat \ {0} /\ B = 2 * half /\ w \in 0 .. B - 1
  BY WidthFacts
<1>2. SignExtend(w, nb) = (IF w >= half THEN w - B ELSE w) /\ SignExtend(w, nb) # -half
  BY DEF SignExtend, ValidCoeff
<1>. HIDE DEF half, B
<1>3. -half < SignExtend(w, nb) /\ SignExtend(w, nb) < half
  BY <1>1, <1>2
<1>. QED
  BY <1>3 DEF half

\* The coefficients some fields stand for.
Extended(w, nb) == [k \in 1 .. Len(w) |-> SignExtend(w[k], nb)]

LEMMA ExtendedType ==
    ASSUME NEW nb \in FieldWidths, NEW w \in Seq(0 .. Pow2[nb] - 1)
    PROVE  /\ Extended(w, nb) \in Seq(Int) /\ Len(Extended(w, nb)) = Len(w)
           /\ \A k \in 1 .. Len(w) : Extended(w, nb)[k] = SignExtend(w[k], nb)
<1>. DEFINE B == Pow2[nb]
            z == Extended(w, nb)
<1>1. \A x \in 0 .. B - 1 : SignExtend(x, nb) \in Int
  BY SignExtendFacts
<1>2. Len(w) \in Nat /\ \A k \in 1 .. Len(w) : w[k] \in 0 .. B - 1
  <2>. DEFINE S == 0 .. B - 1
  <2>1. w \in Seq(S)
    OBVIOUS
  <2>. HIDE DEF S
  <2>2. Len(w) \in Nat /\ \A k \in 1 .. Len(w) : w[k] \in S
    BY <2>1
  <2>. QED  BY <2>2 DEF S
<1>. HIDE DEF B
<1>3. z \in [1 .. Len(w) -> Int] /\ \A k \in 1 .. Len(w) : z[k] = SignExtend(w[k], nb)
  BY <1>1, <1>2 DEF Extended
<1>. HIDE DEF z
<1>. QED
  BY <1>2, <1>3 DEF z

LEMMA ExtendedConcat ==
    ASSUME NEW nb \in FieldWidths, NEW w \in Seq(0 .. Pow2[nb] - 1), NEW u \in Seq(0 .. Pow2[nb] - 1)
    PROVE  Extended(w \o u, nb) = Extended(w, nb) \o Extended(u, nb)
<1>. DEFINE S == 0 .. Pow2[nb] - 1
            x == Extended(w, nb)
            y == Extended(u, nb)
            z == Extended(w \o u, nb)
<1>1. w \in Seq(S) /\ u \in Seq(S)
  OBVIOUS
<1>2. /\ x \in Seq(Int) /\ Len(x) = Len(w) /\ \A k \in 1 .. Len(w) : x[k] = SignExtend(w[k], nb)
      /\ y \in Seq(Int) /\ Len(y) = Len(u) /\ \A k \in 1 .. Len(u) : y[k] = SignExtend(u[k], nb)
  BY ExtendedType
<1>. HIDE DEF S, x, y
<1>3. /\ w \o u \in Seq(S) /\ Len(w \o u) = Len(w) + Len(u) /\ Len(w) \in Nat /\ Len(u) \in Nat
      /\ \A k \in 1 .. Len(w) : (w \o u)[k] = w[k]
      /\ \A k \in 1 .. Len(u) : (w \o u)[Len(w) + k] = u[k]
  BY <1>1
<1>4. /\ z \in Seq(Int) /\ Len(z) = Len(w) + Len(u)
      /\ \A k \in 1 .. Len(w) + Len(u) : z[k] = SignExtend((w \o u)[k], nb)
  <2>. DEFINE t == w \o u
  <2>1. t \in Seq(0 .. Pow2[nb] - 1) /\ Len(t) = Len(w) + Len(u)
    BY <1>3 DEF S
  <2>. HIDE DEF t
  <2>2. /\ Extended(t, nb) \in Seq(Int) /\ Len(Extended(t, nb)) = Len(t)
        /\ \A k \in 1 .. Len(t) : Extended(t, nb)[k] = SignExtend(t[k], nb)
    BY <2>1, ExtendedType
  <2>. QED  BY <2>1, <2>2, Zenon DEF t
<1>. HIDE DEF z
<1>5. \A k \in 1 .. Len(w) : z[k] = x[k]
  BY <1>2, <1>3, <1>4
<1>6. ASSUME NEW k \in 1 .. Len(u) PROVE z[Len(w) + k] = y[k]
  <2>1. Len(w) + k \in 1 .. Len(w) + Len(u)
    BY <1>3
  <2>. QED  BY <1>2, <1>3, <1>4, <2>1
<1>7. z = x \o y
  <2>1. x \in Seq(Int) /\ y \in Seq(Int) /\ z \in Seq(Int) /\ Len(z) = Len(x) + Len(y)
    BY <1>2, <1>4, Zenon
  <2>2. \A k \in 1 .. Len(x) : x[k] = z[k]
    BY <1>2, <1>5, Zenon
  <2>3. \A k \in 1 .. Len(y) : z[Len(x) + k] = y[k]
    BY <1>2, <1>6, Zenon
  <2>4. IsConcat(z, x, y, Int)
    BY <2>1, <2>2, <2>3, Zenon DEF IsConcat
  <2>. QED  BY <2>1, <2>4, ConcatUnique, Zenon
<1>. QED
  BY <1>7 DEF x, y, z


\* The fields decoded so far and the accumulator stand for y.
StandsFor(st, nb, y) ==
    \E w \in Seq(0 .. Pow2[nb] - 1) :
       /\ Len(w) = Len(st.p) /\ st.p = Extended(w, nb)
       /\ Digits(Pow2[nb], w)[Len(w)] * Pow2[st.len] + (st.acc % Pow2[st.len]) = y

AllValid(st, nb) == st.ok <=> \A k \in 1 .. Len(st.p) : ValidCoeff(st.p[k], nb)

\* One more byte: the accumulator before the fields are taken out, and how
\* many come out.
LEMMA TakeParts ==
    ASSUME NEW nb \in FieldWidths, NEW st \in DecStates, NEW b \in Octets
    PROVE  \E n \in Nat :
             LET a == Shifted(st.acc, Byte, b, AccWidth)
                 alen == st.len + 8
                 u == Groups(a, alen, nb, n)
             IN  /\ a \in Nat /\ alen \in Nat /\ n * nb <= alen
                 /\ n = IF Len(st.p) + (alen \div nb) > N THEN N - Len(st.p) ELSE alen \div nb
                 /\ Len(st.p) + n <= N
                 /\ u \in Seq(0 .. Pow2[nb] - 1) /\ Len(u) = n
                 /\ Take(st, b, nb) =
                      [acc |-> a, len |-> alen - n * nb, p |-> st.p \o Extended(u, nb),
                       ok |-> st.ok /\ \A k \in 1 .. n : ValidCoeff(Extended(u, nb)[k], nb)]
<1>. DEFINE W == Pow2[AccWidth]
            B == Pow2[nb]
            a == Shifted(st.acc, Byte, b, AccWidth)
            alen == st.len + 8
            some == alen \div nb
            L == Len(st.p)
            n == IF L + some > N THEN N - L ELSE some
            u == Groups(a, alen, nb, n)
<1>1. /\ nb \in 5 .. 8 /\ B \in Nat \ {0} /\ AccWidth \in Nat /\ Byte = 8 /\ N \in Nat
      /\ Pow2[Byte] \in Nat \ {0} /\ W \in Nat \ {0}
  BY WidthFacts, Pow2Nat
<1>2. st.acc \in Nat /\ st.len \in Nat /\ L \in Nat /\ L <= N /\ b \in Nat
  <2>1. b \in Nat
    BY <1>1 DEF Octets
  <2>. QED  BY <2>1 DEF DecStates
<1>3. a \in Nat
  <2>. DEFINE y == st.acc * Pow2[Byte] + b
  <2>1. y \in Int
    BY <1>1, <1>2
  <2>. HIDE DEF W, y
  <2>2. y % W \in 0 .. W - 1
    BY <1>1, <2>1, DivMod, Zenon
  <2>3. y % W \in Nat
    BY <1>1, <2>2
  <2>. QED  BY <2>3 DEF Shifted, W, y
<1>4. alen \in Nat /\ nb \in Nat \ {0}
  BY <1>1, <1>2
<1>5. some \in Nat /\ nb * some <= alen
  <2>. HIDE DEF alen
  <2>. QED  BY <1>4, DivNat
<1>6. n \in Nat /\ n <= some /\ L + n <= N
  <2>. HIDE DEF some, L
  <2>. QED  BY <1>1, <1>2, <1>5
<1>7. n * nb <= alen
  <2>. HIDE DEF n, some, alen
  <2>1. n * nb <= nb * some
    BY <1>4, <1>5, <1>6
  <2>. QED  BY <1>4, <1>5, <1>6, <2>1
<1>8. u \in Seq(0 .. B - 1) /\ Len(u) = n
  <2>. DEFINE S == 0 .. B - 1
  <2>1. ASSUME NEW k \in 1 .. n PROVE (a \div Pow2[alen - k * nb]) % B \in S
    <3>. DEFINE e == alen - k * nb
                z == Pow2[e]
    <3>1. e \in Nat
      <4>. HIDE DEF alen, n
      <4>1. k * nb <= n * nb /\ k * nb \in Nat /\ n * nb \in Nat
        BY <1>4, <1>6
      <4>. QED  BY <1>4, <1>7, <4>1
    <3>2. z \in Nat \ {0}
      BY <3>1, Pow2Nat
    <3>. HIDE DEF z, a, B
    <3>3. a \div z \in Int
      BY <1>3, <3>2, DivNat
    <3>4. (a \div z) % B \in 0 .. B - 1
      BY <1>1, <3>3, DivMod, Zenon
    <3>. QED  BY <3>4 DEF z
  <2>2. u \in [1 .. n -> S]
    BY <2>1 DEF Groups
  <2>. HIDE DEF u, n, S
  <2>3. u \in Seq(S) /\ Len(u) = n
    BY <1>6, <2>2
  <2>. QED  BY <2>3 DEF S
<1>9. Extended(u, nb) = [k \in 1 .. n |-> SignExtend((a \div Pow2[alen - k * nb]) % Pow2[nb], nb)]
  <2>1. Extended(u, nb) = [k \in 1 .. n |-> SignExtend(u[k], nb)]
    BY <1>8, Zenon DEF Extended
  <2>2. \A k \in 1 .. n : u[k] = (a \div Pow2[alen - k * nb]) % Pow2[nb]
    BY DEF Groups
  <2>. HIDE DEF u, a, alen, n
  <2>. QED  BY <2>1, <2>2, Zenon
<1>10. Take(st, b, nb) =
         [acc |-> a, len |-> alen - n * nb, p |-> st.p \o Extended(u, nb),
          ok |-> st.ok /\ \A k \in 1 .. n : ValidCoeff(Extended(u, nb)[k], nb)]
  BY <1>1, <1>9, Zenon DEF Take, Shifted
<1>. QED
  BY <1>3, <1>4, <1>6, <1>7, <1>8, <1>10, Zenon


LEMMA TakeValue ==
    ASSUME NEW nb \in FieldWidths, NEW st \in DecStates, NEW b \in Octets
    PROVE  LET v == Take(st, b, nb)
           IN  /\ v \in DecStates /\ (AllValid(st, nb) => AllValid(v, nb))
               /\ st.len \in 0 .. nb - 1 /\ (nb * Len(st.p) + st.len) + 8 <= nb * N =>
                    /\ v.len \in 0 .. nb - 1
                    /\ nb * Len(v.p) + v.len = (nb * Len(st.p) + st.len) + 8
                    /\ \A y \in Nat : StandsFor(st, nb, y) => StandsFor(v, nb, y * Pow2[Byte] + b)
<1>. DEFINE v == Take(st, b, nb)
            B == Pow2[nb]
            R == Pow2[Byte]
            a == Shifted(st.acc, Byte, b, AccWidth)
            e == st.len
            alen == e + 8
            q == st.p
            L == Len(q)
            U(n) == Groups(a, alen, nb, n)
            some == alen \div nb
<1>1. PICK n \in Nat :
         /\ a \in Nat /\ alen \in Nat /\ n * nb <= alen
         /\ n = IF L + some > N THEN N - L ELSE some
         /\ L + n <= N
         /\ U(n) \in Seq(0 .. B - 1) /\ Len(U(n)) = n
         /\ v = [acc |-> a, len |-> alen - n * nb, p |-> q \o Extended(U(n), nb),
                 ok |-> st.ok /\ \A k \in 1 .. n : ValidCoeff(Extended(U(n), nb)[k], nb)]
  BY TakeParts, Zenon
<1>. DEFINE u == U(n)
            x == Extended(u, nb)
<1>2. /\ nb \in 5 .. 8 /\ B \in Nat \ {0} /\ AccWidth \in Nat /\ AccWidth >= 15 /\ Byte = 8 /\ N \in Nat
      /\ R \in Nat \ {0}
  BY WidthFacts, Pow2Nat
<1>3. e \in Nat /\ L \in Nat /\ q \in Seq(Int) /\ st.ok \in BOOLEAN /\ st.acc \in Nat
  BY DEF DecStates
<1>4. u \in Seq(0 .. B - 1) /\ Len(u) = n
  BY <1>1
<1>5. x \in Seq(Int) /\ Len(x) = n
  <2>. HIDE DEF u
  <2>. QED  BY <1>4, ExtendedType
<1>6. v.acc = a /\ v.len = alen - n * nb /\ v.p = q \o x
      /\ v.ok = (st.ok /\ \A k \in 1 .. n : ValidCoeff(x[k], nb))
      /\ v = [acc |-> v.acc, len |-> v.len, p |-> v.p, ok |-> v.ok]
  <2>. HIDE DEF a, q, v, x, alen
  <2>. QED  BY <1>1 DEF x
<1>7. /\ q \o x \in Seq(Int) /\ Len(q \o x) = L + n
      /\ \A k \in 1 .. L : q[k] = (q \o x)[k]
      /\ \A k \in 1 .. n : (q \o x)[L + k] = x[k]
  <2>1. q \in Seq(Int) /\ x \in Seq(Int) /\ Len(q) = L /\ Len(x) = n
    BY <1>3, <1>5
  <2>. HIDE DEF q, x, L
  <2>2. IsConcat(q \o x, q, x, Int)
    BY <2>1, Concat
  <2>. QED  BY <2>1, <2>2, Zenon DEF IsConcat
<1>8. alen \in Nat /\ n * nb \in Nat /\ n * nb <= alen /\ a \in Nat /\ L + n <= N
  <2>1. n * nb \in Nat
    BY <1>2
  <2>. QED  BY <1>1, <2>1, Zenon
<1>9. v \in DecStates
  <2>1. v.ok \in BOOLEAN
    BY <1>6, Zenon
  <2>2. v.len \in Nat
    <3>. HIDE DEF alen, v
    <3>. QED  BY <1>6, <1>8
  <2>3. v.acc \in Nat /\ v.p \in Seq(Int) /\ Len(v.p) <= N
    BY <1>6, <1>7, <1>8, Zenon
  <2>. HIDE DEF v
  <2>. QED  BY <1>6, <2>1, <2>2, <2>3 DEF DecStates
<1>10. ASSUME AllValid(st, nb) PROVE AllValid(v, nb)
  <2>1. st.ok <=> \A k \in 1 .. L : ValidCoeff(q[k], nb)
    BY <1>10 DEF AllValid
  <2>2. v.ok <=> st.ok /\ \A k \in 1 .. n : ValidCoeff(x[k], nb)
    BY <1>6, Zenon
  <2>. DEFINE t == q \o x
              V(z) == ValidCoeff(z, nb)
  <2>. HIDE DEF t, x, q, V, L
  <2>3. (\A k \in 1 .. L + n : V(t[k])) <=> (\A k \in 1 .. L : V(q[k])) /\ \A k \in 1 .. n : V(x[k])
    <3>0. /\ \A k \in 1 .. L : q[k] = t[k]
          /\ \A k \in 1 .. n : t[L + k] = x[k]
      BY <1>7 DEF t
    <3>1. ASSUME \A k \in 1 .. L + n : V(t[k])
          PROVE  (\A k \in 1 .. L : V(q[k])) /\ \A k \in 1 .. n : V(x[k])
      <4>1. ASSUME NEW k \in 1 .. L PROVE V(q[k])
        <5>1. k \in 1 .. L + n
          BY <1>3
        <5>. QED  BY <3>0, <3>1, <5>1, Zenon
      <4>2. ASSUME NEW k \in 1 .. n PROVE V(x[k])
        <5>1. L + k \in 1 .. L + n
          BY <1>3
        <5>. QED  BY <3>0, <3>1, <5>1, Zenon
      <4>. QED  BY <4>1, <4>2, Zenon
    <3>2. ASSUME \A k \in 1 .. L : V(q[k]), \A k \in 1 .. n : V(x[k]), NEW k \in 1 .. L + n
          PROVE  V(t[k])
      <4>1. CASE k \in 1 .. L
        BY <3>0, <3>2, <4>1, Zenon
      <4>2. CASE k \notin 1 .. L
        <5>1. k - L \in 1 .. n /\ L + (k - L) = k
          BY <1>3, <4>2
        <5>. QED  BY <3>0, <3>2, <5>1, Zenon
      <4>. QED  BY <4>1, <4>2
    <3>. QED  BY <3>1, <3>2, Zenon
  <2>4. v.p = t /\ Len(v.p) = L + n
    BY <1>6, <1>7, Zenon DEF t
  <2>5. v.ok <=> \A k \in 1 .. Len(v.p) : V(v.p[k])
    BY <2>1, <2>2, <2>3, <2>4, Zenon DEF V
  <2>. QED  BY <2>5, Zenon DEF AllValid, V
<1>13. \A j, k \in Nat : nb * (j + k) = nb * j + nb * k /\ nb * k = k * nb
  BY <1>2
<1>11. ASSUME e \in 0 .. nb - 1, (nb * L + e) + 8 <= nb * N
       PROVE  /\ v.len \in 0 .. nb - 1
              /\ nb * Len(v.p) + v.len = (nb * L + e) + 8
              /\ \A y \in Nat : StandsFor(st, nb, y) => StandsFor(v, nb, y * R + b)
  <2>1. n = some
    <3>1. some \in Nat /\ nb * some <= alen
      <4>. HIDE DEF alen
      <4>. QED  BY <1>2, <1>8, DivNat
    <3>. HIDE DEF some
    <3>2. nb * (L + some) = nb * L + nb * some
      BY <1>3, <1>13, <3>1
    <3>. DEFINE y == nb * L
                z == nb * some
    <3>3. y \in Nat /\ z \in Nat /\ nb * N \in Nat
      BY <1>2, <1>3, <3>1
    <3>4. nb * (L + some) <= nb * N
      <4>1. alen = e + 8
        OBVIOUS
      <4>. HIDE DEF y, z, alen, L, e
      <4>2. y + z <= nb * N
        BY <1>11, <1>3, <3>1, <3>3, <4>1 DEF y, z
      <4>. QED  BY <3>2, <4>2 DEF y, z
    <3>5. \A j, k \in Nat : nb * j <= nb * k => j <= k
      BY <1>2
    <3>6. L + some \in Nat
      BY <1>3, <3>1
    <3>7. L + some <= N
      BY <1>2, <3>4, <3>5, <3>6, Zenon
    <3>. QED  BY <1>1, <1>2, <3>6, <3>7
  <2>2. v.len \in 0 .. nb - 1 /\ alen = n * nb + v.len
    <3>1. alen % nb \in 0 .. nb - 1 /\ alen = nb * some + (alen % nb)
      <4>1. alen \in Int /\ nb \in Nat \ {0}
        BY <1>2, <1>8
      <4>. HIDE DEF alen
      <4>. QED  BY <4>1, DivMod, Zenon
    <3>2. n * nb = nb * some
      BY <1>2, <2>1
    <3>. DEFINE r == alen % nb
                y == n * nb
    <3>. HIDE DEF r, y, alen, v
    <3>3. alen = y + r /\ v.len = alen - y /\ r \in 0 .. nb - 1 /\ y \in Nat /\ alen \in Nat
      BY <1>6, <1>8, <3>1, <3>2 DEF r, y
    <3>4. v.len = r
      BY <1>2, <3>3
    <3>. QED  BY <3>3, <3>4 DEF y
  <2>3. nb * Len(v.p) + v.len = (nb * L + e) + 8
    <3>1. Len(v.p) = L + n
      BY <1>6, <1>7, Zenon
    <3>2. nb * (L + n) = nb * L + n * nb
      BY <1>3, <1>13
    <3>3. alen = e + 8 /\ nb * L \in Nat /\ v.len \in Nat
      BY <1>2, <1>3, <2>2
    <3>. DEFINE y == nb * L
                z == n * nb
                f == v.len
    <3>. HIDE DEF y, z, f, alen, L, e
    <3>4. nb * Len(v.p) = y + z /\ alen = z + f /\ alen = e + 8 /\ y \in Nat /\ z \in Nat /\ f \in Nat
      BY <1>8, <2>2, <3>1, <3>2, <3>3 DEF y, z, f
    <3>5. (y + z) + f = (y + e) + 8
      BY <1>3, <3>4
    <3>. QED  BY <3>4, <3>5, Zenon DEF y, f
  <2>4. ASSUME NEW y \in Nat, StandsFor(st, nb, y) PROVE StandsFor(v, nb, y * R + b)
    <3>. DEFINE f == v.len
    <3>1. PICK w \in Seq(0 .. B - 1) :
             /\ Len(w) = L /\ q = Extended(w, nb)
             /\ Digits(B, w)[Len(w)] * Pow2[e] + (st.acc % Pow2[e]) = y
      BY <2>4 DEF StandsFor
    <3>. DEFINE t == w \o u
    <3>2. Continues(w, t, B, n, a, alen, f)
      <4>1. /\ nb \in Nat /\ w \in Seq(0 .. Pow2[nb] - 1) /\ a \in Nat /\ alen \in Nat /\ n \in Nat
            /\ n * nb <= alen
        BY <1>2, <1>8, <3>1
      <4>. HIDE DEF a, alen
      <4>2. Continues(w, w \o Groups(a, alen, nb, n), Pow2[nb], n, a, alen, alen - n * nb)
        BY <4>1, GroupsValue, Zenon
      <4>. QED  BY <1>6, <4>2, Zenon
    <3>3. /\ t \in Seq(0 .. B - 1) /\ Len(t) = Len(w) + n
          /\ Digits(B, t)[Len(t)] * Pow2[f] + (a % Pow2[f])
               = Digits(B, w)[Len(w)] * Pow2[alen] + (a % Pow2[alen])
      <4>. HIDE DEF t
      <4>. QED  BY <3>2, Zenon DEF Continues
    <3>4. a % Pow2[alen] = (st.acc % Pow2[e]) * R + b
      <4>. DEFINE m == st.acc
      <4>0. e + Byte <= AccWidth
        <5>. HIDE DEF e
        <5>. QED  BY <1>2, <1>3, <1>11
      <4>1. /\ m \in Nat /\ e \in Nat /\ Byte \in Nat /\ e + Byte <= AccWidth /\ AccWidth \in Nat
            /\ b \in 0 .. Pow2[Byte] - 1
        BY <1>2, <1>3, <4>0 DEF Octets
      <4>. HIDE DEF e, m
      <4>2. Shifted(m, Byte, b, AccWidth) % Pow2[e + Byte] = (m % Pow2[e]) * Pow2[Byte] + b
        BY <4>1, ShiftInLow
      <4>. QED  BY <1>2, <4>2, Zenon DEF m
    <3>5. Pow2[alen] = Pow2[e] * R
      <4>1. Byte \in Nat
        BY <1>2
      <4>2. Pow2[e + Byte] = Pow2[e] * R
        BY <1>3, <4>1, Pow2Add, Zenon
      <4>. QED  BY <1>2, <4>2, Zenon
    <3>6. Digits(B, t)[Len(t)] * Pow2[f] + (a % Pow2[f]) = y * R + b
      <4>. DEFINE z == Digits(B, w)[Len(w)]
                  g == Pow2[e]
                  m == st.acc % Pow2[e]
      <4>1. z \in Nat
        <5>. HIDE DEF B
        <5>1. w \in Seq(Nat)
          BY <1>2, DigitsNat
        <5>2. Digits(B, w) \in [0 .. Len(w) -> Nat] /\ Len(w) \in 0 .. Len(w)
          BY <1>2, <5>1, DigitsDef
        <5>. QED  BY <5>2
      <4>2. g \in Nat \ {0}
        BY <1>3, Pow2Nat
      <4>3. m \in Nat
        <5>. HIDE DEF g
        <5>1. st.acc % g \in Nat
          BY <1>3, <4>2, DivMod
        <5>. QED  BY <5>1 DEF g
      <4>4. b \in Nat
        BY <1>2 DEF Octets
      <4>5. z * g + m = y
        BY <3>1
      <4>6. Digits(B, t)[Len(t)] * Pow2[f] + (a % Pow2[f]) = z * (g * R) + (m * R + b)
        BY <3>3, <3>4, <3>5, Zenon
      <4>. HIDE DEF z, g, m, R
      <4>7. z * (g * R) + (m * R + b) = (z * g + m) * R + b
        BY <1>2, <4>1, <4>2, <4>3, <4>4
      <4>. QED  BY <4>5, <4>6, <4>7, Zenon
    <3>7. v.p = Extended(t, nb) /\ Len(t) = Len(v.p) /\ v.acc = a
      <4>1. Extended(t, nb) = Extended(w, nb) \o x
        <5>. HIDE DEF u
        <5>. QED  BY <1>4, <3>1, ExtendedConcat
      <4>2. Len(t) = Len(v.p)
        BY <1>6, <1>7, <3>1, <3>3, Zenon
      <4>. QED  BY <1>6, <3>1, <4>1, <4>2, Zenon
    <3>. HIDE DEF t, v, a
    <3>. QED  BY <3>3, <3>6, <3>7, Zenon DEF StandsFor
  <2>. QED  BY <2>2, <2>3, <2>4, Zenon
<1>. QED
  BY <1>9, <1>10, <1>11, Zenon


\* The decoder, one byte after the other.
LEMMA DecodingDef ==
    ASSUME NEW nb \in FieldWidths, NEW s \in Seq(Octets), Needed(nb) <= Len(s)
    PROVE  /\ Decoding(s, nb)[0] = [acc |-> 0, len |-> 0, p |-> <<>>, ok |-> TRUE]
           /\ \A j \in 1 .. Needed(nb) : Decoding(s, nb)[j] = Take(Decoding(s, nb)[j - 1], s[j], nb)
<1>. DEFINE K == Needed(nb)
            c == [acc |-> 0, len |-> 0, p |-> <<>>, ok |-> TRUE]
            g == [y \in Nat \X DecStates |-> IF y[1] \in 1 .. K THEN Take(y[2], s[y[1]], nb) ELSE y[2]]
<1>0. K \in Nat /\ N \in Nat /\ \A j \in 1 .. K : s[j] \in Octets
  <2>1. K \in Nat /\ N \in Nat /\ K <= Len(s)
    BY WidthFacts
  <2>. HIDE DEF K
  <2>. QED  BY <2>1
<1>. HIDE DEF K
<1>1. \A j \in 1 .. K : \A v \in DecStates : g[<<j, v>>] = Take(v, s[j], nb)
  BY <1>0
<1>2. g \in [Nat \X DecStates -> DecStates]
  <2>. SUFFICES ASSUME NEW y \in Nat \X DecStates
                PROVE  (IF y[1] \in 1 .. K THEN Take(y[2], s[y[1]], nb) ELSE y[2]) \in DecStates
    OBVIOUS
  <2>1. y[2] \in DecStates
    OBVIOUS
  <2>2. ASSUME y[1] \in 1 .. K PROVE Take(y[2], s[y[1]], nb) \in DecStates
    <3>1. s[y[1]] \in Octets
      BY <1>0, <2>2, Zenon
    <3>. QED  BY <2>1, <3>1, TakeValue, Zenon
  <2>. QED  BY <2>1, <2>2
<1>. HIDE DEF g
<1>3. c \in DecStates
  <2>1. <<>> \in Seq(Int) /\ Len(<<>>) = 0
    OBVIOUS
  <2>. QED  BY <1>0, <2>1 DEF DecStates
<1>. HIDE DEF c
<1>4. PICK f \in [0 .. K -> DecStates] : IsRec(f, K, c, g)
  BY <1>0, <1>2, <1>3, RecExists, Zenon
<1>5. f[0] = c /\ \A j \in 1 .. K : f[j] = Take(f[j - 1], s[j], nb)
  <2>1. f[0] = c /\ \A j \in 1 .. K : f[j] = g[<<j, f[j - 1]>>]
    BY <1>4 DEF IsRec
  <2>2. ASSUME NEW j \in 1 .. K PROVE f[j - 1] \in DecStates
    BY <1>0
  <2>. QED  BY <1>1, <2>1, <2>2, Zenon
<1>6. f = [j \in 0 .. K |-> IF j = 0 THEN c ELSE Take(f[j - 1], s[j], nb)]
  <2>1. ASSUME NEW j \in 0 .. K PROVE f[j] = IF j = 0 THEN c ELSE Take(f[j - 1], s[j], nb)
    <3>1. j = 0 \/ j \in 1 .. K
      BY <1>0
    <3>2. \A x \in 1 .. K : x # 0
      BY <1>0
    <3>. QED  BY <1>5, <3>1, <3>2, Zenon
  <2>2. f = [j \in 0 .. K |-> f[j]]
    OBVIOUS
  <2>. QED  BY <2>1, <2>2, Zenon
<1>. DEFINE h == Decoding(s, nb)
<1>7. h = [j \in 0 .. K |-> IF j = 0 THEN c ELSE Take(h[j - 1], s[j], nb)]
  BY <1>6, Zenon DEF Decoding, c, K
<1>. HIDE DEF h
<1>8. ASSUME NEW j \in 0 .. K PROVE h[j] = IF j = 0 THEN c ELSE Take(h[j - 1], s[j], nb)
  BY <1>7, Zenon
<1>9. 0 \in 0 .. K /\ \A j \in 1 .. K : j \in 0 .. K /\ j # 0
  BY <1>0
<1>. QED
  BY <1>8, <1>9, Zenon DEF h, c, K

\* The coefficients decoded stand for the same number as the bytes they are
\* decoded from, and no bits are left over.
LEMMA DecodeValue ==
    ASSUME NEW nb \in FieldWidths, NEW s \in Seq(Octets), Needed(nb) <= Len(s)
    PROVE  LET d == trim_i8_decode(s, nb)
           IN  /\ d.ok <=> \A k \in 1 .. N : ValidCoeff(d.p[k], nb)
               /\ \E w \in Seq(0 .. Pow2[nb] - 1) :
                    /\ Len(w) = N /\ d.p = Extended(w, nb)
                    /\ Digits(Pow2[nb], w)[N] = Digits(Pow2[Byte], s)[Needed(nb)]
<1>. DEFINE K == Needed(nb)
            h == Decoding(s, nb)
            B == Pow2[nb]
            R == Pow2[Byte]
            v == Digits(R, s)
            T == {j \in 0 .. K : /\ h[j] \in DecStates /\ h[j].len \in 0 .. nb - 1
                                 /\ nb * Len(h[j].p) + h[j].len = 8 * j
                                 /\ AllValid(h[j], nb) /\ StandsFor(h[j], nb, v[j])}
<1>1. /\ N \in Nat /\ B \in Nat \ {0} /\ nb \in 5 .. 8 /\ Byte = 8 /\ R \in Nat \ {0}
      /\ K \in Nat /\ nb * N = 8 * K
  BY WidthFacts, Pow2Nat
<1>2. /\ h[0] = [acc |-> 0, len |-> 0, p |-> <<>>, ok |-> TRUE]
      /\ \A j \in 1 .. K : h[j] = Take(h[j - 1], s[j], nb)
  BY DecodingDef, Zenon
<1>3. K <= Len(s) /\ Len(s) \in Nat /\ \A j \in 1 .. K : s[j] \in Octets
  <2>. HIDE DEF K
  <2>. QED  BY <1>1 DEF K
<1>4. v \in [0 .. Len(s) -> Nat] /\ v[0] = 0 /\ \A j \in 1 .. K : v[j] = v[j - 1] * R + s[j]
  <2>1. s \in Seq(0 .. R - 1)
    BY DEF Octets
  <2>. HIDE DEF R
  <2>2. s \in Seq(Nat)
    BY <1>1, <2>1, DigitsNat
  <2>3. v \in [0 .. Len(s) -> Nat] /\ v[0] = 0 /\ \A j \in 1 .. Len(s) : v[j] = v[j - 1] * R + s[j]
    BY <1>1, <2>2, DigitsDef
  <2>. QED  BY <1>1, <1>3, <2>3
<1>. HIDE DEF h, v
<1>5. 0 \in T
  <2>1. /\ h[0] \in DecStates /\ h[0].len = 0 /\ h[0].acc = 0 /\ h[0].p = <<>> /\ Len(h[0].p) = 0
        /\ h[0].ok = TRUE
    <3>1. <<>> \in Seq(Int) /\ Len(<<>>) = 0
      OBVIOUS
    <3>. QED  BY <1>1, <1>2, <3>1 DEF DecStates
  <2>2. AllValid(h[0], nb)
    BY <2>1 DEF AllValid
  <2>3. StandsFor(h[0], nb, 0)
    <3>1. B \in Nat \ {0} /\ <<>> \in Seq(Nat) /\ Len(<<>>) = 0 /\ <<>> \in Seq(0 .. B - 1)
      BY <1>1
    <3>2. <<>> = Extended(<<>>, nb)
      BY DEF Extended
    <3>. HIDE DEF B
    <3>3. Digits(B, <<>>)[0] = 0
      BY <3>1, DigitsDef
    <3>4. Digits(B, <<>>)[Len(<<>>)] * Pow2[0] + (0 % Pow2[0]) = 0
      BY <3>1, <3>3, SmallPowers
    <3>. QED  BY <2>1, <3>1, <3>2, <3>4 DEF StandsFor, B
  <2>4. nb * 0 + 0 = 8 * 0 /\ 0 \in 0 .. nb - 1 /\ 0 \in 0 .. K
    BY <1>1
  <2>. QED  BY <1>4, <2>1, <2>2, <2>3, <2>4
<1>6. ASSUME NEW j \in 0 .. K - 1, j \in T PROVE j + 1 \in T
  <2>. DEFINE st == h[j]
              b == s[j + 1]
              y == Take(st, b, nb)
  <2>1. j + 1 \in 1 .. K /\ j + 1 \in 0 .. K /\ (j + 1) - 1 = j /\ j \in 0 .. K
    BY <1>1
  <2>2. h[j + 1] = y /\ b \in Octets /\ v[j] \in Nat
    BY <1>1, <1>2, <1>3, <1>4, <2>1
  <2>3. /\ st \in DecStates /\ st.len \in 0 .. nb - 1
        /\ nb * Len(st.p) + st.len = 8 * j
        /\ AllValid(st, nb) /\ StandsFor(st, nb, v[j])
    BY <1>6
  <2>4. 8 * (j + 1) = 8 * j + 8 /\ 8 * j + 8 <= nb * N
    BY <1>1
  <2>. HIDE DEF st, b, T, R
  <2>5. /\ y \in DecStates /\ AllValid(y, nb) /\ y.len \in 0 .. nb - 1
        /\ nb * Len(y.p) + y.len = (nb * Len(st.p) + st.len) + 8
        /\ StandsFor(y, nb, v[j] * R + b)
    <3>1. (nb * Len(st.p) + st.len) + 8 <= nb * N
      BY <2>3, <2>4
    <3>. QED  BY <2>2, <2>3, <3>1, TakeValue, Zenon DEF R
  <2>. HIDE DEF y
  <2>6. v[j + 1] = v[j] * R + b
    BY <1>4, <2>1 DEF b
  <2>7. nb * Len(y.p) + y.len = 8 * (j + 1)
    BY <2>3, <2>4, <2>5
  <2>. QED  BY <2>1, <2>2, <2>5, <2>6, <2>7, Zenon DEF T
<1>7. K \in T
  <2>. HIDE DEF T
  <2>1. 0 .. K \subseteq T
    BY <1>1, <1>5, <1>6, InductionTo
  <2>. QED  BY <1>1, <2>1
<1>. DEFINE z == h[K].p
            L == Len(z)
<1>8. /\ h[K] \in DecStates /\ h[K].len \in 0 .. nb - 1 /\ nb * L + h[K].len = 8 * K
      /\ AllValid(h[K], nb) /\ StandsFor(h[K], nb, v[K])
  BY <1>7
<1>9. h[K].acc \in Nat /\ L \in Nat /\ h[K].ok \in BOOLEAN
  BY <1>8 DEF DecStates
<1>10. L = N /\ h[K].len = 0
  <2>. DEFINE e == h[K].len
  <2>1. e \in 0 .. nb - 1 /\ nb * L + e = nb * N /\ L \in Nat
    BY <1>1, <1>8, <1>9
  <2>. HIDE DEF e, L
  <2>2. L <= N
    <3>. SUFFICES ASSUME L >= N + 1 PROVE FALSE
      BY <1>1, <2>1
    <3>1. nb * L >= nb * (N + 1)
      BY <1>1, <2>1
    <3>2. nb * (N + 1) = nb * N + nb
      BY <1>1
    <3>. QED  BY <1>1, <2>1, <3>1, <3>2
  <2>3. L >= N
    <3>. SUFFICES ASSUME L + 1 <= N PROVE FALSE
      BY <1>1, <2>1
    <3>1. nb * (L + 1) <= nb * N
      BY <1>1, <2>1
    <3>2. nb * (L + 1) = nb * L + nb
      BY <1>1, <2>1
    <3>. QED  BY <1>1, <2>1, <3>1, <3>2
  <2>4. L = N /\ e = 0
    BY <1>1, <2>1, <2>2, <2>3
  <2>. QED  BY <2>4 DEF e
<1>11. h[K].acc % Pow2[h[K].len] = 0
  <2>1. \A x \in Nat : x % 1 = 0
    OBVIOUS
  <2>. QED  BY <1>9, <1>10, <2>1, SmallPowers
<1>. DEFINE d == trim_i8_decode(s, nb)
<1>12. d.p = z /\ (d.ok <=> h[K].ok)
  <2>1. ~(Len(s) < K)
    BY <1>1, <1>3
  <2>2. d = [ok |-> h[K].ok /\ h[K].acc % Pow2[h[K].len] = 0, p |-> h[K].p]
    BY <2>1, Zenon DEF trim_i8_decode, h
  <2>. HIDE DEF d
  <2>3. d.p = z /\ d.ok = (h[K].ok /\ h[K].acc % Pow2[h[K].len] = 0)
    BY <2>2, Zenon
  <2>. QED  BY <1>11, <2>3, Zenon
<1>13. d.ok <=> \A k \in 1 .. N : ValidCoeff(d.p[k], nb)
  <2>1. h[K].ok <=> \A k \in 1 .. N : ValidCoeff(z[k], nb)
    BY <1>8, <1>10, Zenon DEF AllValid
  <2>. QED  BY <1>12, <2>1, Zenon
<1>14. PICK w \in Seq(0 .. B - 1) :
         /\ Len(w) = L /\ z = Extended(w, nb)
         /\ Digits(B, w)[Len(w)] * Pow2[h[K].len] + (h[K].acc % Pow2[h[K].len]) = v[K]
  BY <1>8 DEF StandsFor
<1>15. Digits(B, w)[N] = v[K]
  <2>. DEFINE y == Digits(B, w)[N]
  <2>1. y \in Nat
    <3>. HIDE DEF B
    <3>1. w \in Seq(Nat)
      BY <1>1, <1>14, DigitsNat
    <3>2. Digits(B, w) \in [0 .. Len(w) -> Nat] /\ Len(w) = N
      BY <1>1, <1>10, <1>14, <3>1, DigitsDef
    <3>. QED  BY <1>1, <3>2
  <2>2. y * Pow2[0] + 0 = v[K]
    BY <1>10, <1>11, <1>14, Zenon
  <2>. HIDE DEF y
  <2>3. y = v[K]
    BY <2>1, <2>2, SmallPowers
  <2>. QED  BY <2>3 DEF y
<1>. QED
  BY <1>10, <1>12, <1>13, <1>14, <1>15, Zenon DEF v


-----------------------------------------------------------------------------
(* FndsaKeys: the decoder and the encoder undo each other.                 *)

Fits(nb) == {p \in [1 .. N -> Int] : \A k \in 1 .. N : -Pow2[nb - 1] < p[k] /\ p[k] < Pow2[nb - 1]}

\* The bytes s starts with.
StartsWith(s, e) == Len(e) <= Len(s) /\ \A k \in 1 .. Len(e) : e[k] = s[k]

LEMMA DecodeEncode ==
    ASSUME NEW nb \in FieldWidths, NEW p \in Fits(nb), NEW s \in Seq(Octets),
           StartsWith(s, trim_i8_encode(p, nb))
    PROVE  trim_i8_decode(s, nb).ok /\ trim_i8_decode(s, nb).p = p
<1>. DEFINE e == trim_i8_encode(p, nb)
            d == trim_i8_decode(s, nb)
            u == Fields(p, nb)
            K == Needed(nb)
            B == Pow2[nb]
            R == Pow2[Byte]
<1>1. B \in Nat \ {0} /\ N \in Nat /\ K \in Nat /\ R \in Nat \ {0}
  BY WidthFacts, Pow2Nat
<1>2. p \in [1 .. N -> Int] /\ \A k \in 1 .. N : -Pow2[nb - 1] < p[k] /\ p[k] < Pow2[nb - 1]
  BY DEF Fits
<1>3. e \in Seq(Octets) /\ Len(e) = K /\ Digits(R, e)[K] = Digits(B, u)[N]
  BY <1>2, EncodeValue, Zenon
<1>4. /\ u \in Seq(0 .. B - 1) /\ Len(u) = N
      /\ \A k \in 1 .. N : u[k] = p[k] % B
  BY <1>2, FieldsType, Zenon
<1>5. K <= Len(s) /\ \A k \in 1 .. K : e[k] = s[k]
  BY <1>3, Zenon DEF StartsWith
<1>. HIDE DEF e
<1>6. /\ d.ok <=> \A k \in 1 .. N : ValidCoeff(d.p[k], nb)
      /\ \E w \in Seq(0 .. B - 1) :
           /\ Len(w) = N /\ d.p = Extended(w, nb)
           /\ Digits(B, w)[N] = Digits(R, s)[K]
  BY <1>5, DecodeValue, Zenon
<1>7. PICK w \in Seq(0 .. B - 1) :
           /\ Len(w) = N /\ d.p = Extended(w, nb)
           /\ Digits(B, w)[N] = Digits(R, s)[K]
  BY <1>6, Zenon
<1>8. Digits(R, e)[K] = Digits(R, s)[K]
  <2>1. e \in Seq(0 .. R - 1) /\ s \in Seq(0 .. R - 1)
    BY <1>3 DEF Octets
  <2>. HIDE DEF R, K
  <2>2. e \in Seq(Nat) /\ s \in Seq(Nat)
    BY <1>1, <2>1, DigitsNat
  <2>3. \A k \in 0 .. Len(e) : Digits(R, e)[k] = Digits(R, s)[k]
    BY <1>1, <1>3, <1>5, <2>2, DigitsPrefix
  <2>. QED  BY <1>1, <1>3, <2>3
<1>9. w = u
  <2>1. Len(w) = Len(u) /\ Digits(B, w)[Len(w)] = Digits(B, u)[Len(u)]
    BY <1>3, <1>4, <1>7, <1>8, Zenon
  <2>. HIDE DEF B, u
  <2>. QED  BY <1>1, <1>4, <1>7, <2>1, DigitsInjective
<1>. HIDE DEF d
<1>10. ASSUME NEW k \in 1 .. N PROVE d.p[k] = p[k] /\ ValidCoeff(p[k], nb)
  <2>1. p[k] \in Int /\ -Pow2[nb - 1] < p[k] /\ p[k] < Pow2[nb - 1]
    BY <1>2
  <2>2. SignExtend(p[k] % B, nb) = p[k] /\ ValidCoeff(p[k], nb)
    BY <2>1, SignExtendFacts, Zenon
  <2>. HIDE DEF u, B
  <2>3. d.p[k] = SignExtend(w[k], nb)
    BY <1>7 DEF Extended
  <2>. QED  BY <1>4, <1>9, <2>2, <2>3, Zenon
<1>11. d.p = p
  <2>1. d.p = [k \in 1 .. N |-> SignExtend(w[k], nb)]
    BY <1>7, Zenon DEF Extended
  <2>2. d.p = [k \in 1 .. N |-> d.p[k]]
    BY <2>1
  <2>3. p = [k \in 1 .. N |-> p[k]]
    BY <1>2
  <2>. QED  BY <1>10, <2>2, <2>3, Zenon
<1>. QED
  BY <1>6, <1>10, <1>11, Zenon DEF d

LEMMA EncodeDecode ==
    ASSUME NEW nb \in FieldWidths, NEW s \in Seq(Octets), Needed(nb) <= Len(s)
    PROVE  LET p == trim_i8_decode(s, nb).p
           IN  p \in [1 .. N -> Int] /\ StartsWith(s, trim_i8_encode(p, nb))
<1>. DEFINE p == trim_i8_decode(s, nb).p
            e == trim_i8_encode(p, nb)
            u == Fields(p, nb)
            K == Needed(nb)
            B == Pow2[nb]
            R == Pow2[Byte]
            t == [k \in 1 .. K |-> s[k]]
<1>1. B \in Nat \ {0} /\ N \in Nat /\ K \in Nat /\ R \in Nat \ {0}
  BY WidthFacts, Pow2Nat
<1>2. PICK w \in Seq(0 .. B - 1) :
           /\ Len(w) = N /\ p = Extended(w, nb)
           /\ Digits(B, w)[N] = Digits(R, s)[K]
  BY DecodeValue, Zenon
<1>. HIDE DEF p
<1>3. p \in [1 .. N -> Int] /\ \A k \in 1 .. N : p[k] = SignExtend(w[k], nb)
  <2>1. p \in Seq(Int) /\ Len(p) = N /\ \A k \in 1 .. N : p[k] = SignExtend(w[k], nb)
    BY <1>2, ExtendedType, Zenon
  <2>. QED  BY <2>1
<1>4. /\ u \in Seq(0 .. B - 1) /\ Len(u) = N
      /\ \A k \in 1 .. N : u[k] = p[k] % B
  BY <1>3, FieldsType, Zenon
<1>5. e \in Seq(Octets) /\ Len(e) = K /\ Digits(R, e)[K] = Digits(B, u)[N]
  BY <1>3, EncodeValue, Zenon
<1>6. u = w
  <2>. DEFINE S == 0 .. B - 1
  <2>1. \A x \in S : SignExtend(x, nb) % B = x
    BY SignExtendFacts, Zenon
  <2>2. u \in Seq(S) /\ w \in Seq(S) /\ Len(u) = N /\ Len(w) = N
    BY <1>2, <1>4, Zenon
  <2>. HIDE DEF u, S, B
  <2>3. \A k \in 1 .. N : w[k] \in S
    BY <2>2
  <2>4. \A k \in 1 .. N : u[k] = w[k]
    BY <1>3, <1>4, <2>1, <2>3, Zenon
  <2>. QED  BY <2>2, <2>4
<1>. HIDE DEF e
<1>7. t \in Seq(Octets) /\ Len(t) = K /\ \A k \in 1 .. K : t[k] = s[k]
  <2>1. K <= Len(s)
    OBVIOUS
  <2>. HIDE DEF K
  <2>2. \A k \in 1 .. K : s[k] \in Octets
    BY <1>1, <2>1
  <2>3. t \in [1 .. K -> Octets] /\ \A k \in 1 .. K : t[k] = s[k]
    BY <2>2
  <2>. HIDE DEF t
  <2>. QED  BY <1>1, <2>3
<1>. HIDE DEF t
<1>8. Digits(R, t)[K] = Digits(R, s)[K]
  <2>1. t \in Seq(0 .. R - 1) /\ s \in Seq(0 .. R - 1)
    BY <1>7 DEF Octets
  <2>2. K <= Len(s)
    OBVIOUS
  <2>. HIDE DEF R, K
  <2>3. t \in Seq(Nat) /\ s \in Seq(Nat)
    BY <1>1, <2>1, DigitsNat
  <2>4. \A k \in 0 .. Len(t) : Digits(R, t)[k] = Digits(R, s)[k]
    BY <1>1, <1>7, <2>2, <2>3, DigitsPrefix
  <2>. QED  BY <1>1, <1>7, <2>4
<1>9. e = t
  <2>1. e \in Seq(0 .. R - 1) /\ t \in Seq(0 .. R - 1)
    BY <1>5, <1>7, Zenon DEF Octets
  <2>2. Len(e) = Len(t) /\ Digits(R, e)[Len(e)] = Digits(R, t)[Len(t)]
    BY <1>2, <1>5, <1>6, <1>7, <1>8, Zenon
  <2>. HIDE DEF R
  <2>. QED  BY <1>1, <2>1, <2>2, DigitsInjective
<1>10. StartsWith(s, e)
  <2>1. K <= Len(s)
    OBVIOUS
  <2>. QED  BY <1>7, <1>9, <2>1, Zenon DEF StartsWith
<1>. QED
  BY <1>3, <1>10, Zenon DEF p, e

\* What a decoder accepts has a code.
LEMMA DecodedFits ==
    ASSUME NEW nb \in FieldWidths, NEW s \in Seq(Octets), Needed(nb) <= Len(s),
           trim_i8_decode(s, nb).ok
    PROVE  trim_i8_decode(s, nb).p \in Fits(nb)
<1>. DEFINE p == trim_i8_decode(s, nb).p
            S == 0 .. Pow2[nb] - 1
<1>1. \A k \in 1 .. N : ValidCoeff(p[k], nb)
  BY DecodeValue, Zenon
<1>2. PICK w \in Seq(S) : Len(w) = N /\ p = Extended(w, nb)
  BY DecodeValue, Zenon
<1>. HIDE DEF p
<1>3. p \in Seq(Int) /\ Len(p) = N /\ \A k \in 1 .. N : p[k] = SignExtend(w[k], nb)
  BY <1>2, ExtendedType, Zenon
<1>. HIDE DEF S
<1>4. p \in [1 .. N -> Int]
  BY <1>3
<1>5. \A k \in 1 .. N : w[k] \in S
  BY <1>2
<1>6. ASSUME NEW k \in 1 .. N PROVE -Pow2[nb - 1] < p[k] /\ p[k] < Pow2[nb - 1]
  BY <1>1, <1>3, <1>5, ValidIsInside, Zenon DEF S
<1>. QED
  BY <1>4, <1>6 DEF Fits, p

-----------------------------------------------------------------------------
(* FndsaKeys: the signing key.                                             *)

\* A key is a header and three parts.
IsKey(key, h, a, b, c, S) ==
    /\ key \in Seq(S) /\ Len(key) = ((1 + Len(a)) + Len(b)) + Len(c) /\ key[1] = h
    /\ \A k \in 1 .. Len(a) : key[1 + k] = a[k]
    /\ \A k \in 1 .. Len(b) : key[(1 + Len(a)) + k] = b[k]
    /\ \A k \in 1 .. Len(c) : key[((1 + Len(a)) + Len(b)) + k] = c[k]

LEMMA KeyJoined ==
    ASSUME NEW S, NEW h \in S, NEW a \in Seq(S), NEW b \in Seq(S), NEW c \in Seq(S)
    PROVE  IsKey(<<h>> \o a \o b \o c, h, a, b, c, S)
<1>. DEFINE x == <<h>> \o a
            y == x \o b
            z == y \o c
            m == Len(a)
            n == Len(b)
            l == Len(c)
<1>1. <<h>> \in Seq(S) /\ Len(<<h>>) = 1 /\ <<h>>[1] = h /\ m \in Nat /\ n \in Nat /\ l \in Nat
  OBVIOUS
<1>2. IsConcat(x, <<h>>, a, S)
  BY <1>1, Concat
<1>3. x \in Seq(S) /\ Len(x) = 1 + m /\ x[1] = h /\ \A k \in 1 .. m : x[1 + k] = a[k]
  <2>. HIDE DEF x
  <2>1. 1 \in 1 .. Len(<<h>>)
    BY <1>1
  <2>. QED  BY <1>1, <1>2, <2>1, Zenon DEF IsConcat
<1>. HIDE DEF x
<1>4. IsConcat(y, x, b, S)
  BY <1>3, Concat
<1>. HIDE DEF y
<1>5. /\ y \in Seq(S) /\ Len(y) = (1 + m) + n /\ \A k \in 1 .. 1 + m : y[k] = x[k]
      /\ \A k \in 1 .. n : y[(1 + m) + k] = b[k]
  BY <1>3, <1>4, Zenon DEF IsConcat
<1>6. IsConcat(z, y, c, S)
  BY <1>5, Concat
<1>. HIDE DEF z
<1>7. /\ z \in Seq(S) /\ Len(z) = ((1 + m) + n) + l /\ \A k \in 1 .. (1 + m) + n : z[k] = y[k]
      /\ \A k \in 1 .. l : z[((1 + m) + n) + k] = c[k]
  BY <1>5, <1>6, Zenon DEF IsConcat
<1>8. z[1] = h
  <2>. HIDE DEF m, n
  <2>1. 1 \in 1 .. 1 + m /\ 1 \in 1 .. (1 + m) + n
    BY <1>1
  <2>2. z[1] = y[1] /\ y[1] = x[1]
    BY <1>5, <1>7, <2>1
  <2>. QED  BY <1>3, <2>2, Zenon
<1>9. ASSUME NEW k \in 1 .. m PROVE z[1 + k] = a[k]
  <2>. HIDE DEF m, n
  <2>1. 1 + k \in 1 .. 1 + m /\ 1 + k \in 1 .. (1 + m) + n
    BY <1>1
  <2>. QED  BY <1>3, <1>5, <1>7, <2>1, Zenon
<1>10. ASSUME NEW k \in 1 .. n PROVE z[(1 + m) + k] = b[k]
  <2>. HIDE DEF m, n
  <2>1. (1 + m) + k \in 1 .. (1 + m) + n
    BY <1>1
  <2>. QED  BY <1>5, <1>7, <2>1, Zenon
<1>11. IsKey(z, h, a, b, c, S)
  BY <1>7, <1>8, <1>9, <1>10, Zenon DEF IsKey
<1>. QED
  BY <1>11 DEF x, y, z

LEMMA KeyUnique ==
    ASSUME NEW S, NEW h \in S, NEW a \in Seq(S), NEW b \in Seq(S), NEW c \in Seq(S),
           NEW x, IsKey(x, h, a, b, c, S), NEW y, IsKey(y, h, a, b, c, S)
    PROVE  x = y
<1>. DEFINE m == Len(a)
            n == Len(b)
            l == Len(c)
            L == ((1 + m) + n) + l
<1>1. m \in Nat /\ n \in Nat /\ l \in Nat
  OBVIOUS
<1>2. /\ x \in Seq(S) /\ Len(x) = L /\ x[1] = h
      /\ \A k \in 1 .. m : x[1 + k] = a[k]
      /\ \A k \in 1 .. n : x[(1 + m) + k] = b[k]
      /\ \A k \in 1 .. l : x[((1 + m) + n) + k] = c[k]
  BY Zenon DEF IsKey
<1>3. /\ y \in Seq(S) /\ Len(y) = L /\ y[1] = h
      /\ \A k \in 1 .. m : y[1 + k] = a[k]
      /\ \A k \in 1 .. n : y[(1 + m) + k] = b[k]
      /\ \A k \in 1 .. l : y[((1 + m) + n) + k] = c[k]
  BY Zenon DEF IsKey
<1>. HIDE DEF m, n, l
<1>4. ASSUME NEW k \in 1 .. L PROVE x[k] = y[k]
  <2>1. CASE k = 1
    BY <1>2, <1>3, <2>1, Zenon
  <2>2. CASE k \in 2 .. 1 + m
    <3>. DEFINE j == k - 1
    <3>1. j \in 1 .. m /\ 1 + j = k
      BY <1>1, <2>2
    <3>. HIDE DEF j
    <3>. QED  BY <1>2, <1>3, <3>1, Zenon
  <2>3. CASE k \in 2 + m .. (1 + m) + n
    <3>. DEFINE j == k - (1 + m)
    <3>1. j \in 1 .. n /\ (1 + m) + j = k
      BY <1>1, <2>3
    <3>. HIDE DEF j
    <3>. QED  BY <1>2, <1>3, <3>1, Zenon
  <2>4. CASE k \in (2 + m) + n .. L
    <3>. DEFINE j == k - ((1 + m) + n)
    <3>1. j \in 1 .. l /\ ((1 + m) + n) + j = k
      BY <1>1, <2>4
    <3>. HIDE DEF j
    <3>. QED  BY <1>2, <1>3, <3>1, Zenon
  <2>. QED  BY <1>1, <2>1, <2>2, <2>3, <2>4
<1>. HIDE DEF L
<1>5. L \in Nat
  BY <1>1 DEF L
<1>. QED
  BY <1>2, <1>3, <1>4, <1>5

\* What the signer reads the three polynomials from.
LEMMA KeyParts ==
    ASSUME NEW S, NEW key \in Seq(S), NEW o \in Nat, 2 + o <= Len(key)
    PROVE  /\ Tail(key) \in Seq(S) /\ Len(Tail(key)) = Len(key) - 1
           /\ \A k \in 1 .. Len(key) - 1 : Tail(key)[k] = key[1 + k]
           /\ SubSeq(key, 2 + o, Len(key)) \in Seq(S)
           /\ Len(SubSeq(key, 2 + o, Len(key))) = Len(key) - (1 + o)
           /\ \A k \in 1 .. Len(key) - (1 + o) : SubSeq(key, 2 + o, Len(key))[k] = key[(1 + o) + k]
<1>. DEFINE L == Len(key)
            t == Tail(key)
            u == SubSeq(key, 2 + o, L)
<1>1. L \in Nat /\ key \in [1 .. L -> S] /\ key # <<>>
  OBVIOUS
<1>2. t \in Seq(S) /\ Len(t) = L - 1 /\ \A k \in 1 .. L - 1 : t[k] = key[1 + k]
  <2>1. t \in Seq(S) /\ Len(t) = L - 1
    BY <1>1
  <2>2. ASSUME NEW k \in 1 .. L - 1 PROVE t[k] = key[1 + k]
    BY <1>1
  <2>. QED  BY <2>1, <2>2
<1>3. u = [k \in 1 .. L - (1 + o) |-> key[(1 + o) + k]]
  OBVIOUS
<1>4. ASSUME NEW k \in 1 .. L - (1 + o) PROVE key[(1 + o) + k] \in S
  <2>1. (1 + o) + k \in 1 .. L
    BY <1>1
  <2>. QED  BY <1>1, <2>1
<1>5. u \in [1 .. L - (1 + o) -> S] /\ L - (1 + o) \in Nat /\ \A k \in 1 .. L - (1 + o) : u[k] = key[(1 + o) + k]
  <2>1. L - (1 + o) \in Nat
    BY <1>1
  <2>. HIDE DEF L, u
  <2>. QED  BY <1>3, <1>4, <2>1
<1>6. u \in Seq(S) /\ Len(u) = L - (1 + o)
  <2>. DEFINE n == L - (1 + o)
  <2>. HIDE DEF u, n
  <2>1. u \in [1 .. n -> S] /\ n \in Nat
    BY <1>5 DEF n
  <2>2. u \in Seq(S) /\ Len(u) = n
    BY <2>1
  <2>. QED  BY <2>2 DEF n
<1>. QED
  BY <1>2, <1>5, <1>6, Zenon


LEMMA DegreeFacts ==
    ASSUME NEW lg \in LogNs
    PROVE  /\ lg \in 2 .. 10 /\ nbits_fg(lg) \in FieldWidths /\ Byte \in FieldWidths /\ Needed(Byte) = N
           /\ 80 + lg \in Octets /\ (80 + lg) % 16 = lg /\ (80 + lg) \div 16 = 5
           /\ lg # 6 => \A x \in Int : InRange(x, lg) =>
                 -Pow2[nbits_fg(lg) - 1] < x /\ x < Pow2[nbits_fg(lg) - 1]
           /\ \A x \in Int : Abs(x) <= 127 => -Pow2[Byte - 1] < x /\ x < Pow2[Byte - 1]
<1>1. lg \in 2 .. 10 /\ (nbits_fg(lg) * N) % Byte = 0 /\ N \in Nat \ {0}
  BY KeysAssumption
<1>2. /\ lg \in 2 .. 5 => nbits_fg(lg) = 8
      /\ lg \in 6 .. 7 => nbits_fg(lg) = 7
      /\ lg \in 8 .. 9 => nbits_fg(lg) = 6
      /\ lg = 10 => nbits_fg(lg) = 5
  BY DEF nbits_fg
<1>3. nbits_fg(lg) \in FieldWidths
  <2>1. nbits_fg(lg) \in 5 .. 8
    BY <1>1, <1>2
  <2>. QED  BY <1>1, <2>1 DEF FieldWidths
<1>4. Byte \in FieldWidths /\ Needed(Byte) = N
  <2>1. \A x \in Nat : (8 * x) % 8 = 0 /\ (8 * x + 7) \div 8 = x
    OBVIOUS
  <2>. QED  BY <1>1, <2>1 DEF FieldWidths, Needed, Byte
<1>5. 80 + lg \in Octets /\ (80 + lg) % 16 = lg /\ (80 + lg) \div 16 = 5
  BY <1>1, SmallPowers DEF Octets, Byte
<1>6. ASSUME lg # 6, NEW x \in Int, InRange(x, lg)
      PROVE  -Pow2[nbits_fg(lg) - 1] < x /\ x < Pow2[nbits_fg(lg) - 1]
  <2>1. Abs(x) \in Nat /\ -Abs(x) <= x /\ x <= Abs(x)
    BY DEF Abs
  <2>2. Abs(x) <= 127 /\ Abs(x) <= zz(lg) * kmax(lg)
    BY <1>6 DEF InRange
  <2>3. CASE lg \in {2, 3, 4, 5}
    <3>1. nbits_fg(lg) - 1 = 7
      BY <1>2, <2>3
    <3>2. Pow2[nbits_fg(lg) - 1] = 128
      BY <3>1, SmallPowers
    <3>. QED  BY <2>1, <2>2, <3>2
  <2>4. CASE lg = 7
    <3>1. nbits_fg(lg) - 1 = 6 /\ zz(lg) = Pow2[1] /\ kmax(lg) = 24
      BY <1>2, <2>4 DEF zz, kmax
    <3>2. Pow2[nbits_fg(lg) - 1] = 64 /\ zz(lg) = 2
      BY <3>1, SmallPowers, Zenon
    <3>3. zz(lg) * kmax(lg) = 48
      BY <3>1, <3>2
    <3>. QED  BY <2>1, <2>2, <3>2, <3>3
  <2>5. CASE lg = 8
    <3>1. nbits_fg(lg) - 1 = 5 /\ zz(lg) = Pow2[0] /\ kmax(lg) = 24
      BY <1>2, <2>5 DEF zz, kmax
    <3>2. Pow2[nbits_fg(lg) - 1] = 32 /\ zz(lg) = 1
      BY <3>1, SmallPowers, Zenon
    <3>3. zz(lg) * kmax(lg) = 24
      BY <3>1, <3>2
    <3>. QED  BY <2>1, <2>2, <3>2, <3>3
  <2>6. CASE lg = 9
    <3>1. nbits_fg(lg) - 1 = 5 /\ zz(lg) = 1 /\ kmax(lg) = 17
      BY <1>2, <2>6 DEF zz, kmax
    <3>2. Pow2[nbits_fg(lg) - 1] = 32
      BY <3>1, SmallPowers, Zenon
    <3>. QED  BY <2>1, <2>2, <3>1, <3>2
  <2>7. CASE lg = 10
    <3>1. nbits_fg(lg) - 1 = 4 /\ zz(lg) = 1 /\ kmax(lg) = 12
      BY <1>2, <2>7 DEF zz, kmax
    <3>2. Pow2[nbits_fg(lg) - 1] = 16
      BY <3>1, SmallPowers, Zenon
    <3>. QED  BY <2>1, <2>2, <3>1, <3>2
  <2>. QED  BY <1>1, <1>6, <2>3, <2>4, <2>5, <2>6, <2>7
<1>7. ASSUME NEW x \in Int, Abs(x) <= 127 PROVE -Pow2[Byte - 1] < x /\ x < Pow2[Byte - 1]
  <2>1. Byte - 1 = 7
    BY DEF Byte
  <2>2. Pow2[Byte - 1] = 128
    BY <2>1, SmallPowers
  <2>. QED  BY <1>7, <2>2 DEF Abs
<1>. QED
  BY <1>1, <1>3, <1>4, <1>5, <1>6, <1>7

\* The parts of a signing key.
LEMMA SigningKeyParts ==
    ASSUME NEW lg \in LogNs, NEW p1 \in [1 .. N -> Int], NEW p2 \in [1 .. N -> Int], NEW p3 \in [1 .. N -> Int]
    PROVE  LET nb == nbits_fg(lg)
               e1 == trim_i8_encode(p1, nb)
               e2 == trim_i8_encode(p2, nb)
               e3 == trim_i8_encode(p3, Byte)
               key == SigningKey(lg, p1, p2, p3)
           IN  /\ e1 \in Seq(Octets) /\ e2 \in Seq(Octets) /\ e3 \in Seq(Octets)
               /\ Len(e1) = Needed(nb) /\ Len(e2) = Needed(nb) /\ Len(e3) = N
               /\ IsKey(key, 80 + lg, e1, e2, e3, Octets) /\ Len(key) = SigningKeySize(lg)
<1>. DEFINE nb == nbits_fg(lg)
            o == Needed(nb)
            e1 == trim_i8_encode(p1, nb)
            e2 == trim_i8_encode(p2, nb)
            e3 == trim_i8_encode(p3, Byte)
            key == SigningKey(lg, p1, p2, p3)
<1>1. nb \in FieldWidths /\ Byte \in FieldWidths /\ Needed(Byte) = N /\ 80 + lg \in Octets
  BY DegreeFacts
<1>2. o \in Nat /\ N \in Nat
  BY <1>1, WidthFacts
<1>3. /\ e1 \in Seq(Octets) /\ e2 \in Seq(Octets) /\ e3 \in Seq(Octets)
      /\ Len(e1) = o /\ Len(e2) = o /\ Len(e3) = N
  <2>1. e1 \in Seq(Octets) /\ Len(e1) = o
    BY <1>1, EncodeValue, Zenon
  <2>2. e2 \in Seq(Octets) /\ Len(e2) = o
    BY <1>1, EncodeValue, Zenon
  <2>3. e3 \in Seq(Octets) /\ Len(e3) = N
    BY <1>1, EncodeValue, Zenon
  <2>. QED  BY <2>1, <2>2, <2>3
<1>4. IsKey(key, 80 + lg, e1, e2, e3, Octets)
  BY <1>1, <1>3, KeyJoined, Zenon DEF SigningKey
<1>. HIDE DEF e1, e2, e3, key
<1>5. Len(key) = ((1 + o) + o) + N
  BY <1>3, <1>4, Zenon DEF IsKey
<1>6. Len(key) = SigningKeySize(lg)
  <2>1. SigningKeySize(lg) = 1 + 2 * o + N
    BY DEF SigningKeySize
  <2>. HIDE DEF o
  <2>. QED  BY <1>2, <1>5, <2>1
<1>. QED
  BY <1>3, <1>4, <1>6, Zenon DEF e1, e2, e3, key

\* What a signer decodes.
First(key, nb) == trim_i8_decode(Tail(key), nb)
Second(key, nb) == trim_i8_decode(SubSeq(key, 2 + Needed(nb), Len(key)), nb)
Third(key, nb) == trim_i8_decode(SubSeq(key, 2 + 2 * Needed(nb), Len(key)), Byte)

\* The parts of a key that has the length of its degree.
LEMMA SignerParts ==
    ASSUME NEW nb \in FieldWidths, NEW key \in Seq(Octets), Byte \in FieldWidths, Len(key) = 1 + 2 * Needed(nb) + N
    PROVE  LET o == Needed(nb)
               s1 == Tail(key)
               s2 == SubSeq(key, 2 + o, Len(key))
               s3 == SubSeq(key, 2 + 2 * o, Len(key))
           IN  /\ s1 \in Seq(Octets) /\ Len(s1) = o + (o + N) /\ \A k \in 1 .. o : s1[k] = key[1 + k]
               /\ s2 \in Seq(Octets) /\ Len(s2) = o + N /\ \A k \in 1 .. o : s2[k] = key[(1 + o) + k]
               /\ s3 \in Seq(Octets) /\ Len(s3) = N /\ \A k \in 1 .. N : s3[k] = key[((1 + o) + o) + k]
<1>. DEFINE o == Needed(nb)
            L == Len(key)
            s1 == Tail(key)
            s2 == SubSeq(key, 2 + o, L)
            s3 == SubSeq(key, 2 + 2 * o, L)
<1>1. o \in Nat /\ N \in Nat /\ N # 0 /\ L = 1 + 2 * o + N
  BY WidthFacts
<1>. HIDE DEF o
<1>2. /\ 2 + o \in Nat /\ 2 * o \in Nat /\ 2 + o <= L
      /\ L - 1 = o + (o + N) /\ L - (1 + o) = o + N /\ L - (1 + 2 * o) = N
      /\ 1 + 2 * o = (1 + o) + o /\ L \in Nat
  BY <1>1
<1>3. /\ s1 \in Seq(Octets) /\ Len(s1) = L - 1 /\ \A k \in 1 .. L - 1 : s1[k] = key[1 + k]
      /\ s2 \in Seq(Octets) /\ Len(s2) = L - (1 + o) /\ \A k \in 1 .. L - (1 + o) : s2[k] = key[(1 + o) + k]
  BY <1>1, <1>2, KeyParts, Zenon
<1>4. /\ s3 \in Seq(Octets) /\ Len(s3) = L - (1 + 2 * o)
      /\ \A k \in 1 .. L - (1 + 2 * o) : s3[k] = key[(1 + 2 * o) + k]
  <2>. DEFINE r == 2 * o
              x == SubSeq(key, 2 + r, L)
  <2>1. r \in Nat /\ 2 + r <= L
    BY <1>1
  <2>. HIDE DEF r
  <2>2. x \in Seq(Octets) /\ Len(x) = L - (1 + r) /\ \A k \in 1 .. L - (1 + r) : x[k] = key[(1 + r) + k]
    BY <2>1, KeyParts, Zenon
  <2>. QED  BY <2>2, Zenon DEF r
<1>5. \A k \in 1 .. o : k \in 1 .. L - 1 /\ k \in 1 .. L - (1 + o)
  BY <1>1, <1>2
<1>. HIDE DEF s1, s2, s3, L
<1>. QED
  BY <1>2, <1>3, <1>4, <1>5, Zenon DEF o, s1, s2, s3, L


\* A signer decodes what was generated.
LEMMA GeneratedDecoded ==
    ASSUME NEW lg \in LogNs, NEW p1 \in Fits(nbits_fg(lg)), NEW p2 \in Fits(nbits_fg(lg)), NEW p3 \in Fits(Byte)
    PROVE  LET nb == nbits_fg(lg)
               key == SigningKey(lg, p1, p2, p3)
           IN  /\ key \in Seq(Octets) /\ Len(key) = SigningKeySize(lg) /\ key # <<>> /\ key[1] = 80 + lg
               /\ First(key, nb).ok /\ First(key, nb).p = p1
               /\ Second(key, nb).ok /\ Second(key, nb).p = p2
               /\ Third(key, nb).ok /\ Third(key, nb).p = p3
<1>. DEFINE nb == nbits_fg(lg)
            o == Needed(nb)
            e1 == trim_i8_encode(p1, nb)
            e2 == trim_i8_encode(p2, nb)
            e3 == trim_i8_encode(p3, Byte)
            key == SigningKey(lg, p1, p2, p3)
            s1 == Tail(key)
            s2 == SubSeq(key, 2 + o, Len(key))
            s3 == SubSeq(key, 2 + 2 * o, Len(key))
<1>1. nb \in FieldWidths /\ Byte \in FieldWidths /\ o \in Nat /\ N \in Nat
  BY DegreeFacts, WidthFacts
<1>2. p1 \in [1 .. N -> Int] /\ p2 \in [1 .. N -> Int] /\ p3 \in [1 .. N -> Int]
  BY DEF Fits
<1>3. /\ Len(e1) = o /\ Len(e2) = o /\ Len(e3) = N
      /\ IsKey(key, 80 + lg, e1, e2, e3, Octets) /\ Len(key) = SigningKeySize(lg)
  BY <1>2, SigningKeyParts, Zenon
<1>. HIDE DEF e1, e2, e3, key
<1>4. /\ key \in Seq(Octets) /\ key[1] = 80 + lg
      /\ \A k \in 1 .. o : key[1 + k] = e1[k]
      /\ \A k \in 1 .. o : key[(1 + o) + k] = e2[k]
      /\ \A k \in 1 .. N : key[((1 + o) + o) + k] = e3[k]
  BY <1>3, Zenon DEF IsKey
<1>5. Len(key) = 1 + 2 * o + N
  BY <1>3 DEF SigningKeySize
<1>6. /\ s1 \in Seq(Octets) /\ Len(s1) = o + (o + N) /\ \A k \in 1 .. o : s1[k] = key[1 + k]
      /\ s2 \in Seq(Octets) /\ Len(s2) = o + N /\ \A k \in 1 .. o : s2[k] = key[(1 + o) + k]
      /\ s3 \in Seq(Octets) /\ Len(s3) = N /\ \A k \in 1 .. N : s3[k] = key[((1 + o) + o) + k]
  BY <1>1, <1>4, <1>5, SignerParts, Zenon
<1>7. key # <<>>
  <2>. HIDE DEF o
  <2>1. Len(key) # 0
    BY <1>1, <1>5
  <2>. QED  BY <2>1
<1>. HIDE DEF s1, s2, s3
<1>8. Len(e1) <= Len(s1) /\ Len(e2) <= Len(s2) /\ Len(e3) <= Len(s3)
  <2>. HIDE DEF o
  <2>. QED  BY <1>1, <1>3, <1>6
<1>9. StartsWith(s1, e1) /\ StartsWith(s2, e2) /\ StartsWith(s3, e3)
  BY <1>3, <1>4, <1>6, <1>8, Zenon DEF StartsWith
<1>10. trim_i8_decode(s1, nb).ok /\ trim_i8_decode(s1, nb).p = p1
  BY <1>1, <1>6, <1>9, DecodeEncode, Zenon DEF e1
<1>11. trim_i8_decode(s2, nb).ok /\ trim_i8_decode(s2, nb).p = p2
  BY <1>1, <1>6, <1>9, DecodeEncode, Zenon DEF e2
<1>12. trim_i8_decode(s3, Byte).ok /\ trim_i8_decode(s3, Byte).p = p3
  BY <1>1, <1>6, <1>9, DecodeEncode, Zenon DEF e3
<1>13. /\ First(key, nb).ok /\ First(key, nb).p = p1
       /\ Second(key, nb).ok /\ Second(key, nb).p = p2
       /\ Third(key, nb).ok /\ Third(key, nb).p = p3
  BY <1>10, <1>11, <1>12, Zenon DEF First, Second, Third, s1, s2, s3
<1>. QED
  BY <1>3, <1>4, <1>7, <1>13, Zenon DEF key

\* A key of the right length and header is the one the encoder writes for what
\* it is decoded to.
LEMMA DecodedCanonical ==
    ASSUME NEW lg \in LogNs, NEW key \in Seq(Octets), key[1] = 80 + lg, Len(key) = SigningKeySize(lg)
    PROVE  LET nb == nbits_fg(lg)
           IN  key = SigningKey(lg, First(key, nb).p, Second(key, nb).p, Third(key, nb).p)
<1>. DEFINE nb == nbits_fg(lg)
            o == Needed(nb)
            s1 == Tail(key)
            s2 == SubSeq(key, 2 + o, Len(key))
            s3 == SubSeq(key, 2 + 2 * o, Len(key))
            p1 == First(key, nb).p
            p2 == Second(key, nb).p
            p3 == Third(key, nb).p
            e1 == trim_i8_encode(p1, nb)
            e2 == trim_i8_encode(p2, nb)
            e3 == trim_i8_encode(p3, Byte)
            w == SigningKey(lg, p1, p2, p3)
<1>1. nb \in FieldWidths /\ Byte \in FieldWidths /\ o \in Nat /\ N \in Nat /\ Needed(Byte) = N /\ 80 + lg \in Octets
  BY DegreeFacts, WidthFacts
<1>2. Len(key) = 1 + 2 * o + N
  BY DEF SigningKeySize
<1>3. /\ s1 \in Seq(Octets) /\ Len(s1) = o + (o + N) /\ \A k \in 1 .. o : s1[k] = key[1 + k]
      /\ s2 \in Seq(Octets) /\ Len(s2) = o + N /\ \A k \in 1 .. o : s2[k] = key[(1 + o) + k]
      /\ s3 \in Seq(Octets) /\ Len(s3) = N /\ \A k \in 1 .. N : s3[k] = key[((1 + o) + o) + k]
  BY <1>1, <1>2, SignerParts, Zenon
<1>4. o <= Len(s1) /\ o <= Len(s2) /\ N <= Len(s3)
  <2>. HIDE DEF o, s1, s2, s3
  <2>. QED  BY <1>1, <1>3
<1>5. p1 = trim_i8_decode(s1, nb).p /\ p2 = trim_i8_decode(s2, nb).p /\ p3 = trim_i8_decode(s3, Byte).p
  BY DEF First, Second, Third
<1>. HIDE DEF s1, s2, s3, p1, p2, p3
<1>6. p1 \in [1 .. N -> Int] /\ StartsWith(s1, e1)
  BY <1>1, <1>3, <1>4, <1>5, EncodeDecode, Zenon
<1>7. p2 \in [1 .. N -> Int] /\ StartsWith(s2, e2)
  BY <1>1, <1>3, <1>4, <1>5, EncodeDecode, Zenon
<1>8. p3 \in [1 .. N -> Int] /\ StartsWith(s3, e3)
  BY <1>1, <1>3, <1>4, <1>5, EncodeDecode, Zenon
<1>9. /\ e1 \in Seq(Octets) /\ e2 \in Seq(Octets) /\ e3 \in Seq(Octets)
      /\ Len(e1) = o /\ Len(e2) = o /\ Len(e3) = N
      /\ IsKey(w, 80 + lg, e1, e2, e3, Octets)
  BY <1>6, <1>7, <1>8, SigningKeyParts, Zenon
<1>. HIDE DEF e1, e2, e3, w
<1>10. Len(key) = ((1 + o) + o) + N
  <2>. HIDE DEF o
  <2>. QED  BY <1>1, <1>2
<1>11. /\ \A k \in 1 .. o : key[1 + k] = e1[k]
       /\ \A k \in 1 .. o : key[(1 + o) + k] = e2[k]
       /\ \A k \in 1 .. N : key[((1 + o) + o) + k] = e3[k]
  BY <1>3, <1>6, <1>7, <1>8, <1>9, Zenon DEF StartsWith
<1>12. IsKey(key, 80 + lg, e1, e2, e3, Octets)
  BY <1>9, <1>10, <1>11, Zenon DEF IsKey
<1>13. key = w
  BY <1>1, <1>9, <1>12, KeyUnique, Zenon
<1>. QED
  BY <1>13, Zenon DEF w, p1, p2, p3


\* f or g before it is encoded: small enough for its fields, except for degree 64.
Sampled(p) == p \in [1 .. N -> Int] /\ (degree # 6 => p \in Fits(nbits_fg(degree)))

Ended == pc \in {"loaded", "refused"}

FGFit == kf \in Fits(nbits_fg(degree)) /\ kg \in Fits(nbits_fg(degree))

\* What a generated key is made of at each place, and what a file can hold.
KeysInv ==
    /\ degree \in LogNs /\ origin \in {"keygen", "file"}
    /\ origin = "keygen" =>
         /\ weak <=> degree <= 8
         /\ pc \in {"sample", "test", "encode", "load", "loaded", "refused"}
         /\ pc \in {"sample", "test", "encode"} => skey = <<>>
         /\ pc # "sample" => Sampled(kf) /\ Sampled(kg)
         /\ pc \notin {"sample", "test"} => kF \in Fits(Byte)
         /\ pc \notin {"sample", "test", "encode"} => skey = SigningKey(degree, kf, kg, kF)
         /\ Ended => (GeneratedDecodes <=> FGFit)
    /\ origin = "file" =>
         /\ pc = "load" \/ Ended
         /\ skey \in Seq(Octets) /\ (skey # <<>> => skey[1] % 16 = degree)
    /\ pc = "loaded" => skey = SigningKey(degree, loaded[1], loaded[2], loaded[3])

\* The coefficients fit exactly if both polynomials do.
LEMMA FitsIsKeyFits ==
    ASSUME degree \in LogNs, kf \in [1 .. N -> Int], kg \in [1 .. N -> Int]
    PROVE  KeyFits <=> FGFit
<1>. DEFINE half == Pow2[nbits_fg(degree) - 1]
<1>1. nbits_fg(degree) \in FieldWidths
  BY DegreeFacts
<1>2. half \in Nat
  BY <1>1, WidthFacts
<1>. HIDE DEF half
<1>3. \A x \in Int : Abs(x) < half <=> (-half < x /\ x < half)
  BY <1>2 DEF Abs
<1>4. \A k \in 1 .. N : kf[k] \in Int /\ kg[k] \in Int
  OBVIOUS
<1>5. KeyFits <=> \A k \in 1 .. N : Abs(kf[k]) < half /\ Abs(kg[k]) < half
  BY DEF KeyFits, half
<1>6. FGFit <=> /\ \A k \in 1 .. N : -half < kf[k] /\ kf[k] < half
                /\ \A k \in 1 .. N : -half < kg[k] /\ kg[k] < half
  BY DEF FGFit, Fits, half
<1>. QED
  BY <1>3, <1>4, <1>5, <1>6, Zenon

LEMMA KeysInvProperty == KeysInv => KeysRoundTrip
<1>. SUFFICES ASSUME KeysInv PROVE KeysRoundTrip
  OBVIOUS
<1>1. LoadedKeyIsCanonical
  BY DEF KeysInv, LoadedKeyIsCanonical
<1>2. KeyHasItsSize
  <2>. SUFFICES ASSUME origin = "keygen", skey # <<>> PROVE Len(skey) = SigningKeySize(degree)
    BY Zenon DEF KeyHasItsSize
  <2>1. /\ degree \in LogNs /\ Sampled(kf) /\ Sampled(kg) /\ kF \in Fits(Byte)
        /\ skey = SigningKey(degree, kf, kg, kF)
    BY DEF KeysInv
  <2>2. kf \in [1 .. N -> Int] /\ kg \in [1 .. N -> Int] /\ kF \in [1 .. N -> Int]
    BY <2>1 DEF Sampled, Fits
  <2>3. Len(SigningKey(degree, kf, kg, kF)) = SigningKeySize(degree)
    BY <2>1, <2>2, SigningKeyParts, Zenon
  <2>. QED  BY <2>1, <2>3, Zenon
<1>3. GeneratedKeyLoads
  <2>. SUFFICES ASSUME origin = "keygen", pc \in {"loaded", "refused"}
                PROVE  (GeneratedDecodes <=> KeyFits) /\ (degree # 6 => KeyFits)
    BY Zenon DEF GeneratedKeyLoads
  <2>1. degree \in LogNs /\ Sampled(kf) /\ Sampled(kg) /\ (GeneratedDecodes <=> FGFit)
    BY DEF KeysInv, Ended
  <2>2. kf \in [1 .. N -> Int] /\ kg \in [1 .. N -> Int] /\ (degree # 6 => FGFit)
    BY <2>1, Zenon DEF Sampled, FGFit
  <2>3. KeyFits <=> FGFit
    BY <2>1, <2>2, FitsIsKeyFits, Zenon
  <2>. QED  BY <2>1, <2>2, <2>3, Zenon
<1>. QED
  BY <1>1, <1>2, <1>3 DEF KeysRoundTrip

LEMMA KeysInitially == KeysInit => KeysInv
<1>. SUFFICES ASSUME KeysInit PROVE KeysInv
  OBVIOUS
<1>1. degree \in LogNs
  BY DEF KeysInit
<1>2. CASE origin = "keygen" /\ skey = <<>> /\ pc = "sample" /\ weak = (degree <= 8)
  <2>1. weak <=> degree <= 8
    BY <1>2, Zenon
  <2>. QED  BY <1>1, <1>2, <2>1 DEF KeysInv, Ended
<1>3. CASE /\ origin = "file" /\ pc = "load" /\ skey \in FileKeys
           /\ skey # <<>> => skey[1] % 16 = degree
  <2>1. Octets = 0 .. 255
    BY SmallPowers DEF Octets, Byte
  <2>2. skey \in Seq(Octets)
    BY <1>3, <2>1, KeysAssumption
  <2>. QED  BY <1>1, <1>3, <2>2 DEF KeysInv, Ended
<1>. QED
  BY <1>2, <1>3, Zenon DEF KeysInit

\* The steps of the generator up to its key.
LEMMA GeneratorSteps ==
    ASSUME KeysInv, Sample \/ TestFails \/ Solve \/ encode_keypair
    PROVE  KeysInv'
<1>. DEFINE nb == nbits_fg(degree)
<1>0. degree \in LogNs /\ origin \in {"keygen", "file"}
  BY DEF KeysInv
<1>1. CASE Sample
  <2>1. /\ pc = "sample" /\ pc' = "test" /\ degree' = degree /\ weak' = weak /\ origin' = origin
        /\ skey' = skey
        /\ kf' \in SmallPolys /\ kg' \in SmallPolys
        /\ \A k \in 1 .. N : InRange(kf'[k], degree) /\ InRange(kg'[k], degree)
    BY <1>1 DEF Sample, sample_f
  <2>2. origin = "keygen"
    BY <1>0, <2>1 DEF KeysInv, Ended
  <2>3. kf' \in [1 .. N -> Int] /\ kg' \in [1 .. N -> Int]
    BY <2>1, KeysAssumption
  <2>4. degree # 6 => \A x \in Int : InRange(x, degree) => -Pow2[nb - 1] < x /\ x < Pow2[nb - 1]
    BY <1>0, DegreeFacts, Zenon
  <2>5. ASSUME degree # 6 PROVE kf' \in Fits(nb) /\ kg' \in Fits(nb)
    <3>. HIDE DEF nb
    <3>1. \A k \in 1 .. N : kf'[k] \in Int /\ kg'[k] \in Int
      BY <2>3
    <3>2. /\ \A k \in 1 .. N : -Pow2[nb - 1] < kf'[k] /\ kf'[k] < Pow2[nb - 1]
          /\ \A k \in 1 .. N : -Pow2[nb - 1] < kg'[k] /\ kg'[k] < Pow2[nb - 1]
      BY <2>1, <2>4, <2>5, <3>1, Zenon
    <3>. QED  BY <2>3, <3>2 DEF Fits
  <2>6. Sampled(kf)' /\ Sampled(kg)'
    BY <2>1, <2>3, <2>5, Zenon DEF Sampled
  <2>7. (weak <=> degree <= 8) /\ skey = <<>>
    BY <2>1, <2>2 DEF KeysInv
  <2>8. /\ degree' \in LogNs /\ origin' = "keygen" /\ (weak' <=> degree' <= 8) /\ pc' = "test"
        /\ skey' = <<>>
    BY <1>0, <2>1, <2>2, <2>7, Zenon
  <2>. QED  BY <2>6, <2>8 DEF KeysInv, Ended
<1>2. CASE TestFails
  <2>1. /\ pc = "test" /\ pc' = "sample" /\ degree' = degree /\ weak' = weak /\ origin' = origin
        /\ skey' = skey
    BY <1>2 DEF TestFails
  <2>. QED  BY <2>1 DEF KeysInv, Ended
<1>3. CASE Solve
  <2>1. /\ pc = "test" /\ pc' = "encode" /\ degree' = degree /\ weak' = weak /\ origin' = origin
        /\ skey' = skey /\ kf' = kf /\ kg' = kg
        /\ kF' \in SmallPolys /\ \A k \in 1 .. N : Abs(kF'[k]) <= 127
    BY <1>3 DEF Solve
  <2>2. kF' \in Fits(Byte)
    <3>1. kF' \in [1 .. N -> Int]
      BY <2>1, KeysAssumption
    <3>2. \A x \in Int : Abs(x) <= 127 => -Pow2[Byte - 1] < x /\ x < Pow2[Byte - 1]
      BY <1>0, DegreeFacts, Zenon
    <3>3. \A k \in 1 .. N : kF'[k] \in Int
      BY <3>1
    <3>4. \A k \in 1 .. N : -Pow2[Byte - 1] < kF'[k] /\ kF'[k] < Pow2[Byte - 1]
      BY <2>1, <3>2, <3>3, Zenon
    <3>. QED  BY <3>1, <3>4 DEF Fits
  <2>. QED  BY <2>1, <2>2 DEF KeysInv, Sampled, Ended
<1>4. CASE encode_keypair
  <2>1. /\ pc = "encode" /\ pc' = "load" /\ degree' = degree /\ weak' = weak /\ origin' = origin
        /\ kf' = kf /\ kg' = kg /\ kF' = kF /\ skey' = SigningKey(degree, kf, kg, kF)
    BY <1>4 DEF encode_keypair
  <2>2. skey' = SigningKey(degree', kf', kg', kF')
    BY <2>1, Zenon
  <2>3. origin = "keygen"
    BY <1>0, <2>1 DEF KeysInv, Ended
  <2>. QED  BY <2>1, <2>2, <2>3 DEF KeysInv, Sampled, Ended
<1>. QED
  BY <1>1, <1>2, <1>3, <1>4

\* What a signer is given, generated or from a file: bytes with the degree in
\* their header.
LEMMA KeyToLoad ==
    ASSUME KeysInv, pc = "load"
    PROVE  skey \in Seq(Octets) /\ (skey # <<>> => skey[1] % 16 = degree)
<1>1. CASE origin = "file"
  BY <1>1 DEF KeysInv
<1>2. CASE origin = "keygen"
  <2>1. /\ degree \in LogNs /\ Sampled(kf) /\ Sampled(kg) /\ kF \in Fits(Byte)
        /\ skey = SigningKey(degree, kf, kg, kF)
    BY <1>2 DEF KeysInv
  <2>2. kf \in [1 .. N -> Int] /\ kg \in [1 .. N -> Int] /\ kF \in [1 .. N -> Int]
    BY <2>1 DEF Sampled, Fits
  <2>3. skey \in Seq(Octets) /\ skey[1] = 80 + degree
    <3>. DEFINE key == SigningKey(degree, kf, kg, kF)
                e1 == trim_i8_encode(kf, nbits_fg(degree))
                e2 == trim_i8_encode(kg, nbits_fg(degree))
                e3 == trim_i8_encode(kF, Byte)
    <3>1. IsKey(key, 80 + degree, e1, e2, e3, Octets)
      BY <2>1, <2>2, SigningKeyParts, Zenon
    <3>. HIDE DEF key, e1, e2, e3
    <3>2. key \in Seq(Octets) /\ key[1] = 80 + degree
      BY <3>1, Zenon DEF IsKey
    <3>3. skey = key
      BY <2>1, Zenon DEF key
    <3>. QED  BY <3>2, <3>3, Zenon
  <2>4. (80 + degree) % 16 = degree
    BY <2>1, DegreeFacts, Zenon
  <2>. QED  BY <2>3, <2>4, Zenon
<1>. QED
  BY <1>1, <1>2 DEF KeysInv

\* A signer that accepts its key has decoded the one the encoder writes, to
\* polynomials that have a code.
LEMMA AcceptedKey ==
    ASSUME NEW lg \in LogNs, NEW key \in Seq(Octets), key # <<>>, key[1] % 16 = lg,
           key[1] \div 16 = 5, Len(key) = SigningKeySize(lg),
           First(key, nbits_fg(lg)).ok, Second(key, nbits_fg(lg)).ok
    PROVE  LET nb == nbits_fg(lg)
           IN  /\ key = SigningKey(lg, First(key, nb).p, Second(key, nb).p, Third(key, nb).p)
               /\ First(key, nb).p \in Fits(nb) /\ Second(key, nb).p \in Fits(nb)
<1>. DEFINE nb == nbits_fg(lg)
            o == Needed(nb)
            s1 == Tail(key)
            s2 == SubSeq(key, 2 + o, Len(key))
<1>1. key[1] \in Int
  <2>1. 1 \in 1 .. Len(key)
    OBVIOUS
  <2>2. key[1] \in Octets
    BY <2>1
  <2>3. Octets \subseteq Int
    BY SmallPowers DEF Octets, Byte
  <2>. QED  BY <2>2, <2>3, Zenon
<1>2. key[1] = 80 + lg
  <2>1. \A x \in Int : x = 16 * (x \div 16) + (x % 16)
    OBVIOUS
  <2>2. key[1] = 16 * 5 + lg
    BY <1>1, <2>1, Zenon
  <2>3. lg \in Int
    BY DegreeFacts
  <2>. QED  BY <2>2, <2>3
<1>3. key = SigningKey(lg, First(key, nb).p, Second(key, nb).p, Third(key, nb).p)
  BY <1>2, DecodedCanonical, Zenon
<1>4. nb \in FieldWidths /\ Byte \in FieldWidths /\ o \in Nat /\ N \in Nat
  BY DegreeFacts, WidthFacts
<1>5. Len(key) = 1 + 2 * o + N
  BY DEF SigningKeySize
<1>6. /\ s1 \in Seq(Octets) /\ Len(s1) = o + (o + N)
      /\ s2 \in Seq(Octets) /\ Len(s2) = o + N
  BY <1>4, <1>5, SignerParts, Zenon
<1>7. o <= Len(s1) /\ o <= Len(s2)
  <2>. HIDE DEF o, s1, s2
  <2>. QED  BY <1>4, <1>6
<1>8. First(key, nb) = trim_i8_decode(s1, nb) /\ Second(key, nb) = trim_i8_decode(s2, nb)
  BY DEF First, Second
<1>9. trim_i8_decode(s1, nb).ok /\ trim_i8_decode(s2, nb).ok
  BY <1>8, Zenon
<1>. HIDE DEF s1, s2
<1>10. trim_i8_decode(s1, nb).p \in Fits(nb) /\ trim_i8_decode(s2, nb).p \in Fits(nb)
  BY <1>4, <1>6, <1>7, <1>9, DecodedFits, Zenon
<1>. QED
  BY <1>3, <1>8, <1>10, Zenon

LEMMA LoadStep ==
    ASSUME KeysInv, Load
    PROVE  KeysInv'
<1>. DEFINE nb == nbits_fg(degree)
            lg == skey[1] % 16
            ok == /\ skey # <<>>
                  /\ skey[1] \div 16 = 5
                  /\ lg \in (IF weak THEN 2 .. 8 ELSE 9 .. 10)
                  /\ SizeMatches(lg)
                  /\ First(skey, nbits_fg(lg)).ok /\ Second(skey, nbits_fg(lg)).ok
                  /\ Third(skey, nbits_fg(lg)).ok
            got == <<First(skey, nbits_fg(lg)).p, Second(skey, nbits_fg(lg)).p,
                     Third(skey, nbits_fg(lg)).p>>
            x == First(skey, nb).p
            y == Second(skey, nb).p
            z == Third(skey, nb).p
<1>0. degree \in LogNs /\ origin \in {"keygen", "file"}
  BY DEF KeysInv
<1>1. /\ pc = "load" /\ degree' = degree /\ weak' = weak /\ origin' = origin
      /\ kf' = kf /\ kg' = kg /\ kF' = kF /\ skey' = skey
  BY DEF Load
<1>2. (~ok /\ pc' = "refused") \/ (ok /\ pc' = "loaded" /\ loaded' = got)
  BY Zenon DEF Load, First, Second, Third
<1>3. skey \in Seq(Octets) /\ (skey # <<>> => lg = degree)
  BY <1>1, KeyToLoad
<1>4. ASSUME pc' = "loaded"
      PROVE  /\ ok /\ loaded' = <<x, y, z>>
             /\ skey = SigningKey(degree, x, y, z) /\ x \in Fits(nb) /\ y \in Fits(nb)
  <2>1. ok /\ loaded' = got
    <3>. HIDE DEF ok, got
    <3>1. "loaded" # "refused"
      OBVIOUS
    <3>. QED  BY <1>2, <1>4, <3>1, Zenon
  <2>2. skey # <<>> /\ skey[1] \div 16 = 5 /\ SizeMatches(lg) /\ lg = degree
    BY <1>3, <2>1, Zenon
  <2>3. First(skey, nb).ok /\ Second(skey, nb).ok
    BY <2>1, <2>2, Zenon
  <2>4. skey[1] % 16 = degree /\ Len(skey) = SigningKeySize(degree)
    BY <2>2, Zenon DEF SizeMatches
  <2>5. skey = SigningKey(degree, x, y, z) /\ x \in Fits(nb) /\ y \in Fits(nb)
    BY <1>0, <1>3, <2>2, <2>3, <2>4, AcceptedKey, Zenon
  <2>6. loaded' = <<x, y, z>>
    BY <2>1, <2>2, Zenon
  <2>. QED  BY <2>1, <2>5, <2>6, Zenon
<1>5. pc' = "loaded" => skey' = SigningKey(degree', loaded'[1], loaded'[2], loaded'[3])
  <2>. SUFFICES ASSUME pc' = "loaded"
                PROVE  skey = SigningKey(degree, loaded'[1], loaded'[2], loaded'[3])
    BY <1>1, Zenon
  <2>1. loaded' = <<x, y, z>> /\ skey = SigningKey(degree, x, y, z)
    BY <1>4
  <2>. HIDE DEF x, y, z
  <2>2. loaded'[1] = x /\ loaded'[2] = y /\ loaded'[3] = z
    BY <2>1
  <2>. QED  BY <2>1, <2>2, Zenon
<1>6. pc' \in {"loaded", "refused"}
  BY <1>2
<1>7. CASE origin = "file"
  <2>1. origin' = "file" /\ degree' \in LogNs /\ skey' \in Seq(Octets)
        /\ (skey' # <<>> => skey'[1] % 16 = degree')
    BY <1>0, <1>1, <1>3, <1>7, Zenon
  <2>. QED  BY <1>5, <1>6, <2>1 DEF KeysInv, Ended
<1>8. CASE origin = "keygen"
  <2>1. /\ Sampled(kf) /\ Sampled(kg) /\ kF \in Fits(Byte)
        /\ skey = SigningKey(degree, kf, kg, kF) /\ (weak <=> degree <= 8)
    BY <1>1, <1>8 DEF KeysInv
  <2>2. ASSUME FGFit PROVE pc' = "loaded" /\ loaded' = <<kf, kg, kF>>
    <3>1. /\ Len(skey) = SigningKeySize(degree) /\ skey # <<>> /\ skey[1] = 80 + degree
          /\ First(skey, nb).ok /\ First(skey, nb).p = kf
          /\ Second(skey, nb).ok /\ Second(skey, nb).p = kg
          /\ Third(skey, nb).ok /\ Third(skey, nb).p = kF
      <4>. DEFINE key == SigningKey(degree, kf, kg, kF)
      <4>1. /\ Len(key) = SigningKeySize(degree) /\ key # <<>> /\ key[1] = 80 + degree
            /\ First(key, nb).ok /\ First(key, nb).p = kf
            /\ Second(key, nb).ok /\ Second(key, nb).p = kg
            /\ Third(key, nb).ok /\ Third(key, nb).p = kF
        BY <1>0, <2>1, <2>2, GeneratedDecoded DEF FGFit
      <4>2. skey = key
        BY <2>1, Zenon
      <4>. HIDE DEF key
      <4>. QED  BY <4>1, <4>2, Zenon
    <3>2. lg = degree /\ skey[1] \div 16 = 5 /\ degree \in 2 .. 10
      BY <1>0, <3>1, DegreeFacts
    <3>3. degree \in (IF weak THEN 2 .. 8 ELSE 9 .. 10)
      BY <2>1, <3>2
    <3>4. ok
      BY <3>1, <3>2, <3>3, Zenon DEF SizeMatches
    <3>5. got = <<kf, kg, kF>>
      BY <3>1, <3>2, Zenon
    <3>. HIDE DEF ok, got
    <3>. QED  BY <1>2, <3>4, <3>5, Zenon
  <2>3. ASSUME pc' = "loaded", loaded' = <<kf, kg, kF>> PROVE FGFit
    <3>1. loaded' = <<x, y, z>> /\ x \in Fits(nb) /\ y \in Fits(nb)
      BY <1>4, <2>3
    <3>. HIDE DEF x, y, z
    <3>2. x = kf /\ y = kg
      BY <2>3, <3>1
    <3>. QED  BY <3>1, <3>2, Zenon DEF FGFit
  <2>4. (GeneratedDecodes <=> FGFit)'
    <3>1. FGFit' <=> FGFit
      BY <1>1, Zenon DEF FGFit
    <3>2. GeneratedDecodes' <=> pc' = "loaded" /\ loaded' = <<kf, kg, kF>>
      BY <1>1, Zenon DEF GeneratedDecodes
    <3>. QED  BY <2>2, <2>3, <3>1, <3>2, Zenon
  <2>5. Sampled(kf)' /\ Sampled(kg)'
    BY <1>1, <2>1, Zenon DEF Sampled
  <2>6. /\ kF' \in Fits(Byte) /\ skey' = SigningKey(degree', kf', kg', kF')
        /\ (weak' <=> degree' <= 8) /\ degree' \in LogNs /\ origin' = "keygen"
    BY <1>0, <1>1, <1>8, <2>1, Zenon
  <2>. QED  BY <1>5, <1>6, <2>4, <2>5, <2>6 DEF KeysInv, Ended
<1>. QED
  BY <1>0, <1>7, <1>8

LEMMA KeysStepInductive == KeysInv /\ [KeysNext]_keysVars => KeysInv'
<1>. SUFFICES ASSUME KeysInv, [KeysNext]_keysVars PROVE KeysInv'
  OBVIOUS
<1>1. CASE UNCHANGED keysVars
  BY <1>1 DEF KeysInv, keysVars, Ended, Sampled, GeneratedDecodes, FGFit
<1>2. CASE KeysNext
  BY <1>2, GeneratorSteps, LoadStep DEF KeysNext
<1>. QED
  BY <1>1, <1>2

\* For every number of coefficients, every set of the degrees KeyGen accepts and
\* every accumulator that holds a byte and a coefficient: a signing key fills its
\* buffer exactly, a signer loads the polynomials that were generated exactly if
\* they were not truncated, which only degree 64 allows, and a key it accepts is
\* the one the encoder writes for what it decoded.
THEOREM KeysAreCanonical == KeysSpec => []KeysRoundTrip
<1>1. KeysSpec => []KeysInv
  BY KeysInitially, KeysStepInductive, PTL DEF KeysSpec
<1>. QED
  BY <1>1, KeysInvProperty, PTL
=============================================================================
