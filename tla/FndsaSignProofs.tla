-------------------------- MODULE FndsaSignProofs ---------------------------
(***************************************************************************)
(* Verifying: the acceptance test is exact for every word size, modulus    *)
(* and degree that meet NormAssumption, except for s2 = 0.                 *)
(*                                                                         *)
(* The compressed signature: comp_encode and comp_decode undo each other.  *)
(* A string of bits is taken as a number, so that bytes and codes of       *)
(* coefficients can be compared: Val is the number of a string of bytes,   *)
(* Num the number of the codes of some coefficients.                       *)
(*                                                                         *)
(* Signing: for every key and every vector sampled that meet               *)
(* SignAssumption, what a signer returns verifies, and both signers return *)
(* the same.                                                               *)
(***************************************************************************)
EXTENDS FndsaNorm, FndsaCodec, FndsaSign, FndsaLemmas

-----------------------------------------------------------------------------
(* FndsaNorm.                                                              *)

\* A coefficient modulo q counts with the square of its distance to the
\* nearest multiple of q, and that square is below half a word.
LEMMA CenteredSquare ==
    ASSUME NEW x \in 1 .. Q
    PROVE  /\ Centered(x) \in Int /\ Distance(x) \in Nat
           /\ Centered(x) * Centered(x) = Distance(x) * Distance(x)
           /\ Distance(x) * Distance(x) \in 0 .. Half - 1
<1> DEFINE half == (Q - 1) \div 2
<1>1. Q = 2 * half + 1 /\ half \in Nat
  BY NormAssumption
<1>2. Centered(x) = (IF x > half THEN x - Q ELSE x) /\ Distance(x) = (IF x > half THEN Q - x ELSE x)
  BY <1>1 DEF Centered, Distance
<1>3. Distance(x) \in 0 .. half
  BY <1>1, <1>2
<1>4. \A y \in 0 .. half : y * y <= half * half /\ y * y >= 0
  BY <1>1
<1>5. half * half < Half /\ Half \in Nat
  BY NormAssumption
<1>6. Centered(x) = Distance(x) \/ Centered(x) = -Distance(x)
  BY <1>1, <1>2
<1>. HIDE DEF half
<1>7. Centered(x) * Centered(x) = Distance(x) * Distance(x)
  BY <1>6, <1>3, <1>1
<1>8. Distance(x) * Distance(x) \in 0 .. Half - 1
  BY <1>1, <1>3, <1>4, <1>5
<1>. QED
  BY <1>1, <1>3, <1>6, <1>7, <1>8

\* The squares of s2 fit a word together: one more coefficient adds at most
\* MaxS2 squared.
LEMMA SignedSquare ==
    ASSUME NEW x \in -MaxS2 .. MaxS2
    PROVE  x * x \in 0 .. MaxS2 * MaxS2
<1>1. MaxS2 \in Nat
  BY NormAssumption
<1>2. CASE x >= 0
  BY <1>1, <1>2
<1>3. CASE x < 0
  <2>1. x * x = (-x) * (-x)
    BY <1>1
  <2>2. -x \in 0 .. MaxS2
    BY <1>1, <1>3
  <2>. QED
    BY <2>1, <2>2, <1>1
<1>. QED
  BY <1>1, <1>2, <1>3

LEMMA RoomForS2 ==
    ASSUME NEW k \in 0 .. N
    PROVE  /\ k * (MaxS2 * MaxS2) < 2 * Half
           /\ (k + 1) * (MaxS2 * MaxS2) = k * (MaxS2 * MaxS2) + MaxS2 * MaxS2
<1> DEFINE B == MaxS2 * MaxS2
<1>1. B \in Nat /\ N \in Nat /\ Half \in Nat /\ N * B < 2 * Half
  BY NormAssumption
<1>. HIDE DEF B
<1>2. k * B <= N * B
  BY <1>1
<1>3. (k + 1) * B = k * B + B
  BY <1>1
<1>. QED
  BY <1>1, <1>2, <1>3 DEF B

\* Initially and after every coefficient the words hold the exact sums, or
\* the sticky bit says that they do not.
LEMMA Inductive ==
    /\ Init => TypeOK /\ LoopInv /\ NormSaturates
    /\ TypeOK /\ LoopInv /\ NormSaturates /\ [Next]_vars
         => (TypeOK /\ LoopInv /\ NormSaturates)'
<1> USE NormAssumption
<1>1. Init => TypeOK /\ LoopInv /\ NormSaturates
  <2>1. 0 <= 0 * (MaxS2 * MaxS2)
    OBVIOUS
  <2>. SUFFICES ASSUME Init PROVE TypeOK /\ LoopInv /\ NormSaturates
    OBVIOUS
  <2>2. TypeOK
    <3>1. 0 \in Word
      BY DEF Word
    <3>2. accepted \in BOOLEAN
      BY Zenon DEF Init
    <3>. QED
      BY <3>1, <3>2 DEF Init, TypeOK
  <2>3. exact2 <= i * (MaxS2 * MaxS2) /\ pc = "norm2" /\ ~accepted
    BY <2>1 DEF Init
  <2>4. LoopInv
    BY <2>3 DEF Init, LoopInv
  <2>. QED
    BY <2>2, <2>3, <2>4 DEF NormSaturates
<1>2. ASSUME TypeOK, LoopInv, NormSaturates, [Next]_vars
      PROVE  (TypeOK /\ LoopInv /\ NormSaturates)'
  <2>1. ASSUME NEW x \in -MaxS2 .. MaxS2, AddSigned(x)
        PROVE  (TypeOK /\ LoopInv /\ NormSaturates)'
    <3>1. x * x \in 0 .. MaxS2 * MaxS2
      BY SignedSquare
    <3>2. i \in 0 .. N /\ i < N /\ i + 1 \in 0 .. N
      BY <1>2, <2>1 DEF TypeOK, AddSigned
    <3>3. (i + 1) * (MaxS2 * MaxS2) < 2 * Half
      BY <3>2, RoomForS2
    <3>4. (i + 1) * (MaxS2 * MaxS2) = i * (MaxS2 * MaxS2) + MaxS2 * MaxS2
      BY <3>2, RoomForS2
    <3>5. exact2 + x * x \in 0 .. (i + 1) * (MaxS2 * MaxS2)
      BY <3>1, <3>2, <3>4, <1>2, <2>1 DEF LoopInv, TypeOK, AddSigned
    <3>6. s' = exact2' /\ exact2' = exact2 + x * x
      BY <3>3, <3>5, <1>2, <2>1 DEF AddSigned, Plus, LoopInv, TypeOK
    <3>7. exact2' \in Nat /\ s' \in Word
      <4>1. ASSUME NEW k \in Int, NEW v \in 0 .. k, k < 2 * Half
            PROVE  v \in Nat /\ v \in 0 .. 2 * Half - 1
        BY <4>1
      <4>2. (i + 1) * (MaxS2 * MaxS2) \in Int
        BY <3>2
      <4>. QED
        BY <3>6, <3>5, <3>3, <4>1, <4>2 DEF Word
    <3>8. LoopInv'
      BY <3>2, <3>5, <3>6, <1>2, <2>1 DEF LoopInv, AddSigned
    <3>. QED
      BY <3>2, <3>7, <3>8, <1>2, <2>1 DEF TypeOK, NormSaturates, AddSigned
  <2>2. CASE SignedDone
    BY <2>2, <1>2 DEF SignedDone, TypeOK, LoopInv, NormSaturates, Word
  <2>3. ASSUME NEW x \in 1 .. Q, AddModQ(x)
        PROVE  (TypeOK /\ LoopInv /\ NormSaturates)'
    <3> DEFINE sq == Centered(x) * Centered(x)
    <3>1. sq \in 0 .. Half - 1 /\ Distance(x) * Distance(x) = sq
      BY CenteredSquare
    <3>. HIDE DEF sq
    <3>2. s' = Plus(s, sq) /\ exact1' = exact1 + sq /\ sat' = Sticky(sat, s')
      BY <2>3, <3>1 DEF AddModQ, sq
    <3>3. s' \in Word /\ exact1' \in Nat /\ sat' \in {0, 1}
      BY <3>1, <3>2, <1>2 DEF TypeOK, Word, Plus, Sticky, Top
    <3>4. IF sat' = 0 THEN s' = exact1' /\ exact1' < Half ELSE exact1' >= Half
      BY <3>1, <3>2, <3>3, <1>2, <2>3 DEF LoopInv, TypeOK, Word, Plus, Sticky, Top, AddModQ
    <3>5. LoopInv'
      BY <3>4, <1>2, <2>3 DEF LoopInv, AddModQ
    <3>. QED
      BY <3>3, <3>5, <1>2, <2>3 DEF TypeOK, NormSaturates, AddModQ
  <2>4. CASE ModQDone
    BY <2>4, <1>2 DEF ModQDone, TypeOK, LoopInv, NormSaturates, Word
  <2>5. CASE Verdict
    <3>1. Acceptable(norm1, norm2) \in BOOLEAN
      BY DEF Acceptable
    <3>. QED
      BY <3>1, <2>5, <1>2 DEF Verdict, TypeOK, LoopInv, NormSaturates
  <2>6. CASE UNCHANGED vars
    BY <2>6, <1>2 DEF vars, TypeOK, LoopInv, NormSaturates, Acceptable
  <2>. QED
    BY <1>2, <2>1, <2>2, <2>3, <2>4, <2>5, <2>6 DEF Next
<1>. QED
  BY <1>1, <1>2

\* mqpoly_sqnorm returns the squared norm, or all ones when it reaches half
\* the word range, for every number of coefficients.
THEOREM Saturation == Spec => []NormSaturates
<1>. QED
  BY Inductive, PTL DEF Spec

\* A verification accepts no vector longer than the bound, and every shorter
\* one with a nonzero s2: no combination of wrapped words changes the verdict.
THEOREM VerdictExact == Spec => []VerdictIsExact
<1>1. TypeOK /\ LoopInv /\ NormSaturates => VerdictIsExact
  <2>. SUFFICES ASSUME TypeOK, LoopInv, NormSaturates, pc = "done"
                PROVE  /\ accepted => exact1 + exact2 <= SqBeta
                       /\ exact1 + exact2 <= SqBeta /\ exact2 # 0 => accepted
    BY DEF VerdictIsExact, AcceptedIsShort, ShortIsAccepted, LoopInv
  <2>1. /\ norm1 = IF exact1 >= Half THEN 2 * Half - 1 ELSE exact1
        /\ norm2 = exact2 /\ norm2 \in 0 .. 2 * Half - 1
        /\ exact1 \in Nat /\ Half \in Nat \ {0} /\ SqBeta \in 0 .. Half - 1
    BY NormAssumption DEF TypeOK, LoopInv, NormSaturates, Word
  <2>2. accepted <=> norm1 < Neg(norm2) /\ Plus(norm1, norm2) <= SqBeta
    BY DEF LoopInv, Acceptable
  <2>. QED
    BY <2>1, <2>2 DEF Neg, Plus
<1>. QED
  BY <1>1, Inductive, PTL DEF Spec

-----------------------------------------------------------------------------
(* FndsaSign: arithmetic modulo q.                                         *)

LEMMA SameResidue ==
    ASSUME NEW a \in Int, NEW b \in Int, NEW m \in Nat \ {0}, a % m = b % m
    PROVE  \E k \in Int : a = b + m * k
<1>1. /\ a \div m \in Int /\ a = m * (a \div m) + (a % m)
      /\ b \div m \in Int /\ b = m * (b \div m) + (b % m)
  BY DivMod
<1>2. ASSUME NEW x \in Int, NEW y \in Int, NEW r \in Int, a = m * x + r, b = m * y + r
      PROVE  a = b + m * (x - y)
  BY <1>2
<1>3. a = b + m * ((a \div m) - (b \div m))
  BY <1>1, <1>2, DivMod
<1>4. (a \div m) - (b \div m) \in Int
  BY <1>1
<1>. QED
  BY <1>3, <1>4, Zenon

LEMMA ResidueUnique ==
    ASSUME NEW m \in Nat \ {0}, NEW k \in Int, NEW r \in 0 .. m - 1
    PROVE  (m * k + r) % m = r
<1>. DEFINE a == m * k + r
            y == a \div m
            s_ == a % m
<1>1. a \in Int /\ y \in Int /\ s_ \in 0 .. m - 1 /\ a = m * y + s_
  BY DivMod
<1>2. m * (k - y) = s_ - r
  BY <1>1
<1>. HIDE DEF a, y, s_
<1>3. k - y \in Int
  BY <1>1
<1>4. ASSUME NEW z_ \in Int, m * z_ < m, m * z_ > -m PROVE z_ = 0
  <2>1. z_ >= 1 => m * z_ >= m
    OBVIOUS
  <2>2. z_ <= -1 => m * z_ <= -m
    OBVIOUS
  <2>. QED
    BY <1>4, <2>1, <2>2
<1>5. k - y = 0
  BY <1>1, <1>2, <1>3, <1>4
<1>6. s_ = r
  BY <1>1, <1>2, <1>5
<1>. QED
  BY <1>6 DEF a, s_

\* h = g/f, and it maps F to G as well.
LEMMA KeyRelation ==
    ASSUME SignAssumption
    PROVE  /\ h \in Int
           /\ \E a \in Int : h * f = g + Modulus * a
           /\ \E e \in Int : BigG - BigF * h = Modulus * e
<1>1. Modulus \in Nat \ {0} /\ Modulus > 1 /\ f \in Int /\ g \in Int /\ BigF \in Int /\ BigG \in Int
      /\ f * BigG - g * BigF = Modulus
  BY DEF SignAssumption
<1>2. PICK u \in 0 .. Modulus - 1 : (u * f) % Modulus = 1
  BY DEF SignAssumption
<1>3. PICK b \in Int : u * f = 1 + Modulus * b
  <2>1. 1 % Modulus = 1
    BY <1>1
  <2>. QED
    BY <1>1, <1>2, <2>1, SameResidue
<1>4. \E x \in 0 .. Modulus - 1 : (x * f) % Modulus = g % Modulus
  <2>. DEFINE x == (u * g) % Modulus
              y == (u * g) \div Modulus
  <2>1. x \in 0 .. Modulus - 1 /\ y \in Int /\ u * g = Modulus * y + x
    BY <1>1, <1>2, DivMod
  <2>2. x * f = Modulus * (b * g - y * f) + g
    <3>. HIDE DEF x, y
    <3>1. x = u * g - Modulus * y
      BY <2>1, <1>1, <1>2
    <3>2. x * f = (u * f) * g - (Modulus * y) * f
      BY <3>1, <2>1, <1>1, <1>2
    <3>3. (u * f) * g = g + (Modulus * b) * g
      BY <1>1, <1>3
    <3>. QED
      BY <3>2, <3>3, <2>1, <1>1, <1>3
  <2>3. PICK k \in Int : g = Modulus * k + (g % Modulus) /\ g % Modulus \in 0 .. Modulus - 1
    BY <1>1, DivMod
  <2>4. x * f = Modulus * ((b * g - y * f) + k) + (g % Modulus)
    <3>. HIDE DEF x, y
    <3>. QED
      BY <1>1, <1>3, <2>1, <2>2, <2>3
  <2>5. (b * g - y * f) + k \in Int
    BY <1>1, <1>3, <2>1, <2>3
  <2>6. (x * f) % Modulus = g % Modulus
    BY <1>1, <2>3, <2>4, <2>5, ResidueUnique
  <2>. QED
    BY <2>1, <2>6
<1>5. h \in 0 .. Modulus - 1 /\ (h * f) % Modulus = g % Modulus
  BY <1>4 DEF h
<1>. DEFINE hh == h
<1>6. hh \in Int
  BY <1>1, <1>5
<1>. HIDE DEF hh
<1>7. PICK a \in Int : hh * f = g + Modulus * a
  <2>1. hh * f \in Int /\ (hh * f) % Modulus = g % Modulus
    BY <1>1, <1>5, <1>6 DEF hh
  <2>. QED
    BY <1>1, <2>1, SameResidue
<1>8. BigG - BigF * hh = Modulus * (u * (1 - BigF * a) - b * (BigG - BigF * hh))
  <2>. DEFINE w == BigG - BigF * hh
  <2>1. f * w = Modulus * (1 - BigF * a)
    <3>1. f * w = f * BigG - BigF * (hh * f)
      BY <1>1, <1>6
    <3>2. BigF * (hh * f) = g * BigF + Modulus * (BigF * a)
      BY <1>1, <1>7
    <3>. QED
      BY <1>1, <1>7, <3>1, <3>2
  <2>2. w \in Int
    BY <1>1, <1>6
  <2>. HIDE DEF w
  <2>3. (u * f) * w = u * (Modulus * (1 - BigF * a))
    <3>1. (u * f) * w = u * (f * w)
      BY <1>1, <2>2
    <3>. QED
      BY <2>1, <3>1
  <2>4. (u * f) * w = w + Modulus * (b * w)
    BY <1>1, <1>3, <2>2
  <2>5. w = Modulus * (u * (1 - BigF * a) - b * w)
    <3>1. u * (Modulus * (1 - BigF * a)) = Modulus * (u * (1 - BigF * a))
      BY <1>1, <1>7
    <3>2. u * (1 - BigF * a) \in Int /\ b * w \in Int
      BY <1>1, <1>2, <1>3, <1>7, <2>2
    <3>3. ASSUME NEW v1 \in Int, NEW v2 \in Int PROVE Modulus * (v1 - v2) = Modulus * v1 - Modulus * v2
      BY <1>1
    <3>4. Modulus * (u * (1 - BigF * a)) \in Int /\ Modulus * (b * w) \in Int
      BY <1>1, <3>2
    <3>. QED
      BY <2>2, <2>3, <2>4, <3>1, <3>2, <3>3, <3>4
  <2>. QED
    BY <2>5 DEF w
<1>9. u * (1 - BigF * a) - b * (BigG - BigF * hh) \in Int
  BY <1>1, <1>2, <1>3, <1>6, <1>7
<1>. QED
  BY <1>6, <1>7, <1>8, <1>9 DEF hh

\* A vector of the lattice, shifted by the point, is what the verifier finds.
LEMMA VectorIsRecomputed ==
    ASSUME SignAssumption, NEW d \in Draws
    PROVE  /\ h \in Int /\ d.c \in Int /\ Vector1(d) \in Int /\ Vector2(d) \in Int
           /\ \E k \in Int : d.c - Vector2(d) * h = Vector1(d) + Modulus * k
<1>1. Modulus \in Nat \ {0} /\ f \in Int /\ g \in Int /\ BigF \in Int /\ BigG \in Int
      /\ d.c \in Int /\ d.z0 \in Int /\ d.z1 \in Int
  BY DEF SignAssumption, Draws
<1>2. Vector1(d) \in Int /\ Vector2(d) \in Int
  BY <1>1 DEF Vector1, Vector2
<1>. DEFINE hh == h
<1>3. hh \in Int
  BY KeyRelation
<1>. HIDE DEF hh
<1>4. PICK a \in Int : hh * f = g + Modulus * a
  BY KeyRelation DEF hh
<1>5. PICK e \in Int : BigG - BigF * hh = Modulus * e
  BY KeyRelation DEF hh
<1>. DEFINE z0 == d.z0
            z1 == d.z1
<1>6. z0 \in Int /\ z1 \in Int /\ Vector1(d) = d.c - (z0 * g + z1 * BigG)
      /\ Vector2(d) = z0 * f + z1 * BigF
  BY <1>1 DEF Vector1, Vector2
<1>. HIDE DEF z0, z1
<1>7. (z0 * f + z1 * BigF) * hh = (z0 * g + z1 * BigG) + Modulus * (z0 * a - z1 * e)
  <2>1. (z0 * f + z1 * BigF) * hh = z0 * (hh * f) + z1 * (BigF * hh)
    BY <1>1, <1>3, <1>6
  <2>2. z0 * (hh * f) = z0 * g + Modulus * (z0 * a)
    BY <1>1, <1>4, <1>6
  <2>3. z1 * (BigF * hh) = z1 * BigG - Modulus * (z1 * e)
    <3>1. BigF * hh = BigG - Modulus * e
      BY <1>1, <1>3, <1>5
    <3>. QED
      BY <1>1, <1>5, <1>6, <3>1
  <2>4. Modulus * (z0 * a - z1 * e) = Modulus * (z0 * a) - Modulus * (z1 * e)
    BY <1>1, <1>4, <1>5, <1>6
  <2>5. z0 * g \in Int /\ z1 * BigG \in Int /\ Modulus * (z0 * a) \in Int /\ Modulus * (z1 * e) \in Int
    BY <1>1, <1>4, <1>5, <1>6
  <2>. QED
    BY <2>1, <2>2, <2>3, <2>4, <2>5
<1>8. -(z0 * a - z1 * e) \in Int
  BY <1>4, <1>5, <1>6
<1>9. d.c - Vector2(d) * hh = Vector1(d) + Modulus * (-(z0 * a - z1 * e))
  <2>. DEFINE w == z0 * a - z1 * e
              x == z0 * g + z1 * BigG
  <2>1. w \in Int /\ x \in Int
    BY <1>1, <1>4, <1>5, <1>6
  <2>2. Vector2(d) * hh = x + Modulus * w /\ Vector1(d) = d.c - x
    BY <1>6, <1>7
  <2>. HIDE DEF w, x
  <2>3. d.c - Vector2(d) * hh = Vector1(d) + Modulus * (-w)
    BY <1>1, <2>1, <2>2
  <2>. QED
    BY <2>3 DEF w
<1>10. \E k \in Int : d.c - Vector2(d) * hh = Vector1(d) + Modulus * k
  BY <1>8, <1>9, Zenon
<1>. QED
  BY <1>1, <1>2, <1>3, <1>10 DEF hh

\* Squares grow with the distance to zero.
LEMMA SquareMonotone ==
    ASSUME NEW a \in Int, NEW b \in Int,
           (a <= b /\ -b <= a) \/ (a <= -b /\ b <= a)
    PROVE  a * a <= b * b
<1>1. ASSUME NEW x \in Nat, NEW y \in Nat, x <= y PROVE x * x <= y * y
  BY <1>1
<1>2. \E x \in Nat : (a = x \/ a = -x) /\ x * x = a * a
  <2>1. CASE a >= 0
    BY <2>1
  <2>2. CASE a < 0
    <3>1. -a \in Nat /\ a = -(-a) /\ (-a) * (-a) = a * a
      BY <2>2
    <3>. QED
      BY <3>1
  <2>. QED
    BY <2>1, <2>2
<1>3. \E y \in Nat : (b = y \/ b = -y) /\ y * y = b * b
  <2>1. CASE b >= 0
    BY <2>1
  <2>2. CASE b < 0
    <3>1. -b \in Nat /\ b = -(-b) /\ (-b) * (-b) = b * b
      BY <2>2
    <3>. QED
      BY <3>1
  <2>. QED
    BY <2>1, <2>2
<1>4. PICK x \in Nat : (a = x \/ a = -x) /\ x * x = a * a
  BY <1>2
<1>5. PICK y \in Nat : (b = y \/ b = -y) /\ y * y = b * b
  BY <1>3
<1>6. x <= y
  BY <1>4, <1>5
<1>. QED
  BY <1>1, <1>4, <1>5, <1>6

\* The representative that the verifier takes is the least.
LEMMA CenteredLeast ==
    ASSUME SignAssumption, NEW v \in Int, NEW k \in Int
    PROVE  /\ Symmetric(v + Modulus * k) \in Int
           /\ Symmetric(v + Modulus * k) * Symmetric(v + Modulus * k) <= v * v
<1>1. Modulus \in Nat \ {0}
  BY DEF SignAssumption
<1>. DEFINE a == v + Modulus * k
            r == a % Modulus
            y == Symmetric(a)
<1>2. a \in Int
  BY <1>1
<1>3. r \in 0 .. Modulus - 1 /\ \E l \in Int : a = Modulus * l + r
  BY <1>1, <1>2, DivMod
<1>4. y = IF 2 * r > Modulus THEN r - Modulus ELSE r
  BY DEF Symmetric
<1>5. y \in Int /\ 2 * y <= Modulus /\ -Modulus <= 2 * y
  <2>. HIDE DEF r, a, y
  <2>. QED
    BY <1>1, <1>3, <1>4
<1>6. \E n \in Int : v = y + Modulus * n
  <2>1. PICK l \in Int : a = Modulus * l + r
    BY <1>3
  <2>2. v = r + Modulus * (l - k)
    <3>1. v = a - Modulus * k
      BY <1>1
    <3>2. Modulus * (l - k) = Modulus * l - Modulus * k
      BY <1>1
    <3>3. Modulus * l \in Int /\ Modulus * k \in Int
      BY <1>1
    <3>. HIDE DEF a, r
    <3>. QED
      BY <2>1, <3>1, <3>2, <3>3, <1>3
  <2>3. v = (r - Modulus) + Modulus * ((l - k) + 1)
    <3>1. Modulus * ((l - k) + 1) = Modulus * (l - k) + Modulus
      BY <1>1
    <3>2. Modulus * (l - k) \in Int
      BY <1>1
    <3>. HIDE DEF r
    <3>. QED
      BY <1>1, <1>3, <2>2, <3>1, <3>2
  <2>4. l - k \in Int /\ (l - k) + 1 \in Int
    OBVIOUS
  <2>. HIDE DEF r, y
  <2>. QED
    BY <1>4, <2>2, <2>3, <2>4
<1>7. PICK n \in Int : v = y + Modulus * n
  BY <1>6
<1>. HIDE DEF a, r, y
<1>8. n >= 1 => Modulus * n >= Modulus
  BY <1>1
<1>9. n <= -1 => Modulus * n <= -Modulus
  BY <1>1
<1>10. n = 0 => Modulus * n = 0
  BY <1>1
<1>11. (y <= v /\ -v <= y) \/ (y <= -v /\ v <= y)
  <2>. DEFINE w == Modulus * n
  <2>1. w \in Int /\ v = y + w /\ (w >= Modulus \/ w <= -Modulus \/ w = 0)
    BY <1>1, <1>7, <1>8, <1>9, <1>10
  <2>. HIDE DEF w
  <2>. QED
    BY <1>1, <1>5, <2>1
<1>12. y * y <= v * v
  BY <1>5, <1>11, SquareMonotone
<1>. QED
  BY <1>5, <1>12 DEF y, a

\* A signature made of an acceptable vector passes the verifier.
LEMMA AcceptableVerifies ==
    ASSUME SignAssumption, NEW d \in Draws, Usable(d)
    PROVE  LET y == Symmetric(d.c - Vector2(d) * h)
           IN  y * y + Vector2(d) * Vector2(d) <= Bound
<1>. DEFINE v1 == Vector1(d)
            v2 == Vector2(d)
            y == Symmetric(d.c - v2 * h)
<1>1. v1 \in Int /\ v2 \in Int /\ Bound \in Nat
  BY VectorIsRecomputed DEF SignAssumption
<1>2. PICK k \in Int : d.c - v2 * h = v1 + Modulus * k
  BY VectorIsRecomputed
<1>3. y \in Int /\ y * y <= v1 * v1
  BY <1>1, <1>2, CenteredLeast
<1>4. v1 * v1 + v2 * v2 <= Bound
  BY DEF Usable, ShortVector
<1>. HIDE DEF v1, v2, y
<1>5. y * y \in Int /\ v1 * v1 \in Int /\ v2 * v2 \in Int
  BY <1>1, <1>3
<1>6. y * y + v2 * v2 <= Bound
  BY <1>1, <1>3, <1>4, <1>5
<1>. QED
  BY <1>6 DEF y, v2

-----------------------------------------------------------------------------
(* FndsaSign: the loops.                                                   *)

LEMMA Int16Fits ==
    ASSUME SignAssumption, NEW x \in -IntRange .. IntRange - 1
    PROVE  Int16(x) = x
<1>1. IntRange \in Nat \ {0} /\ x \in Int /\ x + IntRange \in 0 .. 2 * IntRange - 1
  BY DEF SignAssumption
<1>2. ASSUME NEW m \in Nat \ {0}, NEW y \in 0 .. m - 1 PROVE y % m = y
  BY <1>2
<1>3. 2 * IntRange \in Nat \ {0}
  BY <1>1
<1>4. (x + IntRange) % (2 * IntRange) = x + IntRange
  BY <1>1, <1>2, <1>3
<1>. QED
  BY <1>1, <1>4 DEF Int16

\* What Sample leaves in s1 and s2 is the vector of the draw.
LEMMA SampleIsVector ==
    ASSUME SignAssumption, NEW d \in Draws
    PROVE  /\ Int16(d.c - (d.z0 * g + d.z1 * BigG)) = Vector1(d)
           /\ Int16(-(d.z0 * (-f) + d.z1 * (-BigF))) = Vector2(d)
<1>1. Vector1(d) \in -IntRange .. IntRange - 1 /\ Vector2(d) \in -IntRange .. IntRange - 1
  BY DEF SignAssumption
<1>2. f \in Int /\ BigF \in Int /\ d.z0 \in Int /\ d.z1 \in Int
  BY DEF SignAssumption, Draws
<1>3. -(d.z0 * (-f) + d.z1 * (-BigF)) = d.z0 * f + d.z1 * BigF
  BY <1>2
<1>. QED
  BY <1>1, <1>3, Int16Fits DEF Vector1, Vector2

\* The words of the norm accept the short vectors and no other.
LEMMA ShortIsExact ==
    ASSUME SignAssumption, NEW a \in -IntRange .. IntRange - 1, NEW b \in -IntRange .. IntRange - 1
    PROVE  (LET sum == (a * a + b * b) % (2 * HalfWord)
            IN  a * a < HalfWord /\ sum < HalfWord /\ sum <= Bound) <=> a * a + b * b <= Bound
<1>1. /\ IntRange \in Nat \ {0} /\ HalfWord \in Nat /\ Bound \in Nat
      /\ IntRange * IntRange <= HalfWord /\ Bound < IntRange * IntRange /\ a \in Int /\ b \in Int
  BY DEF SignAssumption
<1>2. a * a <= IntRange * IntRange /\ b * b <= IntRange * IntRange
  <2>1. a <= IntRange /\ -IntRange <= a /\ b <= IntRange /\ -IntRange <= b
    BY <1>1
  <2>. QED
    BY <1>1, <2>1, SquareMonotone
<1>3. a * a >= 0 /\ b * b >= 0
  BY <1>1
<1>. DEFINE x == a * a
            y == b * b
            B == IntRange * IntRange
<1>4. x \in Nat /\ y \in Nat /\ B \in Nat /\ x <= B /\ y <= B /\ B <= HalfWord /\ Bound < B
  BY <1>1, <1>2, <1>3
<1>. HIDE DEF x, y, B
<1>5. ASSUME NEW m \in Nat \ {0}, NEW w \in 0 .. m - 1 PROVE w % m = w
  BY <1>5
<1>6. x < HalfWord => (x + y) % (2 * HalfWord) = x + y
  <2>. HAVE x < HalfWord
  <2>1. 2 * HalfWord \in Nat \ {0} /\ x + y \in 0 .. 2 * HalfWord - 1
    BY <1>1, <1>4
  <2>. QED
    BY <1>5, <2>1
<1>7. (x < HalfWord /\ (x + y) % (2 * HalfWord) < HalfWord /\ (x + y) % (2 * HalfWord) <= Bound) <=> x + y <= Bound
  <2>1. x + y <= Bound => x < HalfWord /\ x + y < HalfWord
    BY <1>1, <1>4
  <2>. QED
    BY <1>6, <2>1
<1>. QED
  BY <1>7 DEF x, y

Looping == {"hash", "sample", "norm", "encode"}
Returned == {"signed", "verified"}

SignTypes ==
    /\ req \in Requests /\ draw \in [0 .. MaxCounter -> Draws]
    /\ at \in [Signers -> Looping \cup Returned \cup {"error", "exhausted"}]
    /\ cnt \in [Signers -> 0 .. MaxCounter]
    /\ s1 = [p \in Signers |-> s1[p]]
    /\ s2 = [p \in Signers |-> s2[p]]
    /\ sig = [p \in Signers |-> sig[p]]
    /\ verdict = [p \in Signers |-> verdict[p]]

\* The draw of the round that signer p is in.
Draw(p) == draw[cnt[p]]

\* A signer gave up only rounds without an acceptable vector; it holds the vector
\* of its round, and what it returned is that vector with that round's nonce.
SignerInv(p) ==
    /\ at[p] = "error" => req \in Bad
    /\ at[p] \notin {"hash", "error"} => req \notin Bad
    /\ \A k \in 0 .. MaxCounter : k < cnt[p] => ~Usable(draw[k])
    /\ at[p] = "exhausted" => cnt[p] = MaxCounter /\ ~Usable(Draw(p))
    /\ at[p] \in {"norm", "encode"} \cup Returned =>
          s1[p] = Vector1(Draw(p)) /\ s2[p] = Vector2(Draw(p))
    /\ at[p] = "encode" => ShortVector(Draw(p))
    /\ at[p] \in Returned => /\ Usable(Draw(p))
                             /\ sig[p] = [nonce |-> cnt[p], s2 |-> Vector2(Draw(p))]
    /\ at[p] \notin Returned => sig[p] = NoSig
    /\ at[p] = "verified" /\ sig[p].s2 # 0 /\ verdict[p].under = req => verdict[p].valid

SignInv == SignTypes /\ \A p \in Signers : SignerInv(p)

LEMMA SignInvInit == ASSUME SignAssumption PROVE SignInit => SignInv
<1>. SUFFICES ASSUME SignInit PROVE SignInv
  OBVIOUS
<1>1. MaxCounter \in Nat
  BY DEF SignAssumption
<1>2. SignTypes
  BY <1>1 DEF SignInit, SignersStart, SignTypes, Looping, Returned
<1>3. ASSUME NEW p \in Signers PROVE SignerInv(p)
  <2>1. at[p] = "hash" /\ cnt[p] = 0 /\ sig[p] = NoSig
    BY DEF SignInit, SignersStart
  <2>. QED
    BY <1>1, <2>1 DEF SignerInv, Returned
<1>. QED
  BY <1>2, <1>3 DEF SignInv

\* Signer r takes no part in a step.
Rests(r) ==
    /\ at'[r] = at[r] /\ cnt'[r] = cnt[r] /\ s1'[r] = s1[r] /\ s2'[r] = s2[r]
    /\ sig'[r] = sig[r] /\ verdict'[r] = verdict[r]

LEMMA RestingSigner ==
    ASSUME NEW r, SignerInv(r), Rests(r), req' = req, draw' = draw
    PROVE  SignerInv(r)'
BY DEF SignerInv, Rests, Draw

\* Only signer p moves, and the input stays.
OnlyMoves(p) == req' = req /\ draw' = draw /\ \A r \in Signers \ {p} : Rests(r)

LEMMA MoveKeeps ==
    ASSUME SignInv, NEW p \in Signers, OnlyMoves(p), SignTypes', SignerInv(p)'
    PROVE  SignInv'
<1>1. ASSUME NEW r \in Signers PROVE SignerInv(r)'
  BY RestingSigner DEF SignInv, OnlyMoves
<1>. QED
  BY <1>1 DEF SignInv

\* A round that is given up had no acceptable vector: the next one begins, or
\* there is none.
LEMMA RetryKeeps ==
    ASSUME SignAssumption, SignInv, NEW p \in Signers, Retry(p),
           ~Usable(Draw(p)), at[p] \in {"norm", "encode"},
           UNCHANGED <<req, draw, s1, s2, sig, verdict>>
    PROVE  SignInv'
<1>1. /\ SignTypes /\ SignerInv(p) /\ MaxCounter \in Nat /\ cnt[p] \in 0 .. MaxCounter
  BY DEF SignInv, SignTypes, SignAssumption
<1>2. /\ at' = [at EXCEPT ![p] = IF cnt[p] < MaxCounter THEN "hash" ELSE "exhausted"]
      /\ cnt' = [cnt EXCEPT ![p] = IF cnt[p] < MaxCounter THEN cnt[p] + 1 ELSE cnt[p]]
  BY DEF Retry, MoveTo
<1>3. OnlyMoves(p)
  BY <1>1, <1>2 DEF OnlyMoves, Rests, SignTypes
<1>4. SignTypes'
  BY <1>1, <1>2 DEF SignTypes, Looping
<1>5. /\ cnt[p] < MaxCounter => at'[p] = "hash" /\ cnt'[p] = cnt[p] + 1
      /\ ~(cnt[p] < MaxCounter) => at'[p] = "exhausted" /\ cnt'[p] = cnt[p]
  BY <1>1, <1>2 DEF SignTypes
<1>6. /\ at'[p] \in {"hash", "exhausted"} /\ req \notin Bad /\ sig[p] = NoSig
  BY <1>1, <1>5 DEF SignerInv, Returned
<1>7. ASSUME NEW k \in 0 .. MaxCounter, k < cnt'[p] PROVE ~Usable(draw[k])
  <2>1. k < cnt[p] \/ k = cnt[p]
    BY <1>1, <1>5, <1>7
  <2>. QED
    BY <1>1, <2>1 DEF SignerInv, Draw
<1>8. at'[p] = "exhausted" => cnt'[p] = MaxCounter /\ ~Usable(draw[cnt'[p]])
  BY <1>1, <1>5 DEF Draw
<1>9. SignerInv(p)'
  BY <1>6, <1>7, <1>8 DEF SignerInv, Draw, Returned
<1>. QED
  BY <1>3, <1>4, <1>9, MoveKeeps

LEMMA SignInvStep == ASSUME SignAssumption PROVE SignInv /\ [SignNext]_signVars => SignInv'
<1>. SUFFICES ASSUME SignInv, [SignNext]_signVars PROVE SignInv'
  OBVIOUS
<1>1. ASSUME NEW p \in Signers, Step(p) PROVE SignInv'
  <2>0. /\ SignTypes /\ SignerInv(p) /\ cnt[p] \in 0 .. MaxCounter /\ Draw(p) \in Draws
    BY DEF SignInv, SignTypes, Draw
  <2>1. CASE HashToPoint(p)
    <3>1. /\ at[p] = "hash" /\ at' = [at EXCEPT ![p] = IF req \in Bad THEN "error" ELSE "sample"]
          /\ UNCHANGED <<req, draw, cnt, s1, s2, sig, verdict>>
      BY <2>1 DEF HashToPoint, MoveTo
    <3>2. OnlyMoves(p) /\ SignTypes' /\ at'[p] = IF req \in Bad THEN "error" ELSE "sample"
      BY <2>0, <3>1 DEF OnlyMoves, Rests, SignTypes, Looping
    <3>3. SignerInv(p)'
      BY <2>0, <3>1, <3>2 DEF SignerInv, Draw, Returned
    <3>. QED
      BY <3>2, <3>3, MoveKeeps
  <2>2. CASE Sample(p)
    <3>. DEFINE d == Draw(p)
    <3>1. /\ at[p] = "sample" /\ at' = [at EXCEPT ![p] = "norm"]
          /\ s1' = [s1 EXCEPT ![p] = Int16(d.c - (d.z0 * g + d.z1 * BigG))]
          /\ s2' = [s2 EXCEPT ![p] = Int16(-(d.z0 * (-f) + d.z1 * (-BigF)))]
          /\ UNCHANGED <<req, draw, cnt, sig, verdict>>
      BY <2>2 DEF Sample, Sampled, MoveTo, Draw
    <3>. DEFINE v1 == Vector1(d)
                v2 == Vector2(d)
    <3>2. /\ at' = [at EXCEPT ![p] = "norm"] /\ UNCHANGED <<req, draw, cnt, sig, verdict>>
          /\ s1' = [s1 EXCEPT ![p] = v1] /\ s2' = [s2 EXCEPT ![p] = v2]
      BY <2>0, <3>1, SampleIsVector
    <3>. HIDE DEF d, v1, v2
    <3>3. /\ OnlyMoves(p) /\ SignTypes' /\ at'[p] = "norm"
          /\ s1'[p] = v1 /\ s2'[p] = v2
      BY <2>0, <3>2 DEF OnlyMoves, Rests, SignTypes, Looping
    <3>4. SignerInv(p)'
      BY <2>0, <3>1, <3>3 DEF SignerInv, Draw, Returned, d, v1, v2
    <3>. QED
      BY <3>3, <3>4, MoveKeeps
  <2>3. CASE Norm(p)
    <3>1. at[p] = "norm" /\ UNCHANGED <<req, draw, s1, s2, sig, verdict>>
      BY <2>3 DEF Norm
    <3>2. s1[p] = Vector1(Draw(p)) /\ s2[p] = Vector2(Draw(p))
      BY <2>0, <3>1 DEF SignerInv
    <3>3. Short(p) <=> ShortVector(Draw(p))
      <4>1. {Vector1(Draw(p)), Vector2(Draw(p))} \subseteq -IntRange .. IntRange - 1
        BY <2>0 DEF SignAssumption
      <4>. QED
        BY <3>2, <4>1, ShortIsExact DEF Short, Sum, ShortVector
    <3>4. CASE Short(p) /\ MoveTo(p, "encode") /\ UNCHANGED cnt
      <4>1. OnlyMoves(p) /\ SignTypes' /\ at'[p] = "encode"
        BY <2>0, <3>1, <3>4 DEF MoveTo, OnlyMoves, Rests, SignTypes, Looping
      <4>2. SignerInv(p)'
        BY <2>0, <3>1, <3>2, <3>3, <3>4, <4>1 DEF SignerInv, Draw, Returned
      <4>. QED
        BY <4>1, <4>2, MoveKeeps
    <3>5. CASE ~Short(p) /\ Retry(p)
      <4>1. ~Usable(Draw(p))
        BY <3>3, <3>5 DEF Usable
      <4>. QED
        BY <3>1, <3>5, <4>1, RetryKeeps
    <3>. QED
      BY <2>3, <3>4, <3>5 DEF Norm
  <2>4. CASE Encode(p)
    <3>1. at[p] = "encode" /\ UNCHANGED <<req, draw, s1, s2, verdict>>
      BY <2>4 DEF Encode
    <3>2. /\ s1[p] = Vector1(Draw(p)) /\ s2[p] = Vector2(Draw(p))
          /\ ShortVector(Draw(p))
      BY <2>0, <3>1 DEF SignerInv
    <3>3. CASE /\ s2[p] \in -MaxCoeff .. MaxCoeff
               /\ sig' = [sig EXCEPT ![p] = [nonce |-> Nonce(p), s2 |-> s2[p]]]
               /\ MoveTo(p, "signed") /\ UNCHANGED cnt
      <4>1. OnlyMoves(p) /\ SignTypes' /\ at'[p] = "signed"
        BY <2>0, <3>1, <3>3 DEF MoveTo, OnlyMoves, Rests, SignTypes, Returned
      <4>2. sig'[p] = [nonce |-> cnt[p], s2 |-> Vector2(Draw(p))]
        BY <2>0, <3>2, <3>3 DEF Nonce, SignTypes
      <4>3. Usable(Draw(p))
        BY <3>2, <3>3 DEF Usable
      <4>4. SignerInv(p)'
        BY <2>0, <3>1, <3>2, <3>3, <4>1, <4>2, <4>3 DEF SignerInv, Draw, Returned
      <4>. QED
        BY <4>1, <4>4, MoveKeeps
    <3>4. CASE s2[p] \notin -MaxCoeff .. MaxCoeff /\ Retry(p) /\ UNCHANGED sig
      <4>1. ~Usable(Draw(p))
        BY <3>2, <3>4 DEF Usable
      <4>. QED
        BY <3>1, <3>4, <4>1, RetryKeeps
    <3>. QED
      BY <2>4, <3>3, <3>4 DEF Encode
  <2>5. ASSUME NEW under, Verify(p, under) PROVE SignInv'
    <3>1. /\ at[p] = "signed" /\ at' = [at EXCEPT ![p] = "verified"]
          /\ verdict' = [verdict EXCEPT ![p] =
                [under |-> under, valid |-> VerifyInner(under, sig[p].nonce, sig[p].s2)]]
          /\ UNCHANGED <<req, draw, cnt, s1, s2, sig>>
      BY <2>5 DEF Verify, MoveTo
    <3>2. /\ OnlyMoves(p) /\ SignTypes' /\ at'[p] = "verified"
          /\ verdict'[p] = [under |-> under, valid |-> VerifyInner(under, sig[p].nonce, sig[p].s2)]
      BY <2>0, <3>1 DEF OnlyMoves, Rests, SignTypes, Returned
    <3>3. /\ req \notin Bad /\ Usable(Draw(p))
          /\ sig[p].nonce = cnt[p] /\ sig[p].s2 = Vector2(Draw(p))
      BY <2>0, <3>1 DEF SignerInv, Returned
    <3>4. under = req /\ sig[p].s2 # 0 => VerifyInner(under, sig[p].nonce, sig[p].s2)
      <4>1. LET y == Symmetric(Draw(p).c - Vector2(Draw(p)) * h)
            IN  y * y + Vector2(Draw(p)) * Vector2(Draw(p)) <= Bound
        BY <2>0, <3>3, AcceptableVerifies
      <4>. QED
        BY <3>3, <4>1 DEF VerifyInner, Draw
    <3>5. sig[p].s2 # 0 /\ verdict'[p].under = req => verdict'[p].valid
      BY <3>2, <3>4
    <3>6. SignerInv(p)'
      BY <2>0, <3>1, <3>2, <3>5 DEF SignerInv, Draw, Returned
    <3>. QED
      BY <3>2, <3>6, MoveKeeps
  <2>. QED
    BY <1>1, <2>1, <2>2, <2>3, <2>4, <2>5 DEF Step
<1>2. CASE UNCHANGED signVars
  BY <1>2, RestingSigner DEF signVars, SignInv, SignTypes, Rests
<1>. QED
  BY <1>1, <1>2 DEF SignNext

\* Whatever vectors the sampler yields, the signature that either signer returns
\* verifies, both return the same one, and only rounds without an acceptable
\* vector are given up; for every key, bound and number of rounds.
THEOREM SignersAreCorrect ==
    ASSUME SignAssumption
    PROVE  SignSpec => []SignersCorrect
<1>1. SignInv => SignersCorrect
  <2>. SUFFICES ASSUME SignInv PROVE SignersCorrect
    OBVIOUS
  <2>1. SignedVerifies
    BY DEF SignInv, SignerInv, SignedVerifies
  <2>2. ASSUME NEW p \in Signers
        PROVE  /\ SignerInv(p) /\ cnt[p] \in 0 .. MaxCounter /\ MaxCounter \in Nat
               /\ sig[p] # NoSig => at[p] \in Returned
    BY DEF SignInv, SignTypes, SignerInv, SignAssumption
  <2>3. OnlyLongRefused
    <3>. SUFFICES ASSUME NEW k \in 0 .. MaxCounter, at["dynamic"] = "exhausted" \/ k < cnt["dynamic"]
                  PROVE  ~Usable(draw[k])
      BY DEF OnlyLongRefused
    <3>1. "dynamic" \in Signers
      BY DEF Signers
    <3>x. at["dynamic"] = "exhausted" => cnt["dynamic"] = MaxCounter
      BY <2>2, <3>1 DEF SignerInv
    <3>2. k < cnt["dynamic"] \/ (at["dynamic"] = "exhausted" /\ k = cnt["dynamic"])
      <4>1. cnt["dynamic"] \in 0 .. MaxCounter /\ MaxCounter \in Nat
        BY <2>2, <3>1
      <4>. QED
        BY <3>x, <4>1
    <3>. QED
      BY <2>2, <3>1, <3>2 DEF SignerInv, Draw
  <2>4. SignersAgree
    <3>. DEFINE a == "dynamic"
                b == "precomputed"
    <3>0. a \in Signers /\ b \in Signers /\ Signers = {a, b}
      BY DEF Signers
    <3>. HIDE DEF a, b
    <3>1. ASSUME sig[a] # NoSig, sig[b] # NoSig PROVE sig[a] = sig[b]
      <4>1. at[a] \in Returned /\ at[b] \in Returned
        BY <2>2, <3>0, <3>1
      <4>2. Usable(Draw(a)) /\ Usable(Draw(b))
        BY <2>2, <3>0, <4>1 DEF SignerInv
      <4>3. ~(cnt[a] < cnt[b]) /\ ~(cnt[b] < cnt[a])
        BY <2>2, <3>0, <4>2 DEF SignerInv, Draw
      <4>4. cnt[a] = cnt[b]
        BY <2>2, <3>0, <4>3
      <4>. QED
        BY <2>2, <3>0, <4>1, <4>4 DEF SignerInv, Draw
    <3>2. {at[p] : p \in Signers} # {"error", "verified"}
      <4>1. ASSUME NEW p \in Signers, NEW r \in Signers, at[p] = "error", at[r] = "verified"
            PROVE  FALSE
        BY <2>2, <4>1 DEF SignerInv
      <4>. QED
        BY <4>1
    <3>. QED
      BY <3>0, <3>1, <3>2 DEF SignersAgree, a, b
  <2>. QED
    BY <2>1, <2>3, <2>4 DEF SignersCorrect
<1>2. SignSpec => []SignInv
  BY SignInvInit, SignInvStep, PTL DEF SignSpec
<1>. QED
  BY <1>1, <1>2, PTL

-----------------------------------------------------------------------------
(* FndsaCodec: the numbers of byte strings and of codes.                   *)

Val(w) == Digits(Pow2[Byte], w)

LEMMA ByteFacts ==
    /\ Byte \in Nat \ {0} /\ Byte - 1 \in Nat /\ Low \in Nat \ {0}
    /\ Pow2[Byte] = 2 * Low /\ Pow2[Byte] \in Nat \ {0}
<1>1. Byte \in Nat \ {0} /\ Byte - 1 \in Nat /\ (Byte - 1) + 1 = Byte
  BY CodecAssumption
<1>2. Low \in Nat \ {0} /\ Pow2[Byte] = 2 * Low
  BY <1>1, Pow2Nat, Pow2Next DEF Low
<1>. QED
  BY <1>1, <1>2

LEMMA ValDef ==
    ASSUME NEW w \in Seq(Nat)
    PROVE  /\ Val(w) \in [0 .. Len(w) -> Nat] /\ Val(w)[0] = 0
           /\ \A k \in 1 .. Len(w) : Val(w)[k] = Val(w)[k - 1] * Pow2[Byte] + w[k]
<1>. DEFINE d == Pow2[Byte]
<1>1. d \in Nat \ {0}
  BY ByteFacts
<1>. HIDE DEF d
<1>2. /\ Digits(d, w) \in [0 .. Len(w) -> Nat] /\ Digits(d, w)[0] = 0
      /\ \A k \in 1 .. Len(w) : Digits(d, w)[k] = Digits(d, w)[k - 1] * d + w[k]
  BY <1>1, DigitsDef
<1>. QED
  BY <1>2, Zenon DEF Val, d

LEMMA ValPrefix ==
    ASSUME NEW w \in Seq(Nat), NEW u \in Seq(Nat), Len(w) <= Len(u),
           \A k \in 1 .. Len(w) : w[k] = u[k]
    PROVE  \A k \in 0 .. Len(w) : Val(w)[k] = Val(u)[k]
<1>. DEFINE d == Pow2[Byte]
<1>1. d \in Nat \ {0}
  BY ByteFacts
<1>. HIDE DEF d
<1>2. \A k \in 0 .. Len(w) : Digits(d, w)[k] = Digits(d, u)[k]
  BY <1>1, DigitsPrefix
<1>. QED
  BY <1>2, Zenon DEF Val, d

LEMMA ValInjective ==
    ASSUME NEW w \in Seq(Bytes), NEW u \in Seq(Bytes), Len(w) = Len(u),
           Val(w)[Len(w)] = Val(u)[Len(u)]
    PROVE  w = u
<1>. DEFINE d == Pow2[Byte]
<1>1. d \in Nat \ {0} /\ w \in Seq(0 .. d - 1) /\ u \in Seq(0 .. d - 1)
  BY ByteFacts DEF Bytes
<1>2. Digits(d, w)[Len(w)] = Digits(d, u)[Len(u)]
  BY DEF Val
<1>. HIDE DEF d
<1>. QED
  BY <1>1, <1>2, DigitsInjective

LEMMA ValAppend ==
    ASSUME NEW w \in Seq(Nat), NEW b \in Nat
    PROVE  Val(Append(w, b))[Len(w) + 1] = Val(w)[Len(w)] * Pow2[Byte] + b
<1>. DEFINE d == Pow2[Byte]
<1>1. d \in Nat \ {0}
  BY ByteFacts
<1>. HIDE DEF d
<1>2. Digits(d, Append(w, b))[Len(w) + 1] = Digits(d, w)[Len(w)] * d + b
  BY <1>1, DigitsAppend
<1>. QED
  BY <1>2, Zenon DEF Val, d

-----------------------------------------------------------------------------
\* The first bits of the code of a coefficient, and the length of the rest.
Front(x) == (IF x < 0 THEN Low ELSE 0) + (Abs(x) % Low)
High(x) == Abs(x) \div Low
Code(x) == Front(x) * Pow2[High(x) + 1] + 1

Num(p) == Horner(Len(p), [k \in 1 .. Len(p) |-> Pow2[CoeffBits(p[k])]],
                         [k \in 1 .. Len(p) |-> Code(p[k])])

LEMMA AbsFacts ==
    ASSUME NEW x \in Int
    PROVE  /\ Abs(x) \in Nat /\ High(x) \in Nat /\ Abs(x) % Low \in 0 .. Low - 1
           /\ Abs(x) = Low * High(x) + (Abs(x) % Low)
<1>1. Abs(x) \in Nat
  BY DEF Abs
<1>2. Abs(x) \div Low \in Nat
  BY <1>1, ByteFacts, DivNat
<1>3. Abs(x) % Low \in 0 .. Low - 1 /\ Abs(x) = Low * (Abs(x) \div Low) + (Abs(x) % Low)
  <2>1. Abs(x) \in Int /\ Low \in Nat \ {0}
    BY <1>1, ByteFacts
  <2>. QED  BY <2>1, DivMod, Zenon
<1>. QED
  BY <1>1, <1>2, <1>3 DEF High

LEMMA CodeFacts ==
    ASSUME NEW x \in Int
    PROVE  /\ High(x) \in Nat /\ Front(x) \in 0 .. Pow2[Byte] - 1
           /\ CoeffBits(x) = Byte + (High(x) + 1) /\ CoeffBits(x) \in Nat
           /\ Pow2[CoeffBits(x)] = Pow2[High(x) + 1] * Pow2[Byte]
           /\ Pow2[CoeffBits(x)] \in Nat \ {0} /\ Pow2[High(x) + 1] \in Nat \ {0, 1}
           /\ Code(x) \in 0 .. Pow2[CoeffBits(x)] - 1
<1>. DEFINE c == Pow2[High(x) + 1]
<1>1. High(x) \in Nat /\ High(x) + 1 \in Nat /\ Byte \in Nat
  BY AbsFacts, ByteFacts
<1>2. Front(x) \in 0 .. Pow2[Byte] - 1
  BY AbsFacts, ByteFacts DEF Front
<1>3. CoeffBits(x) = Byte + (High(x) + 1) /\ CoeffBits(x) \in Nat
  BY <1>1 DEF CoeffBits, High
<1>4. Pow2[CoeffBits(x)] = Pow2[Byte] * c
  BY <1>1, <1>3, Pow2Add
<1>5. c = 2 * Pow2[High(x)] /\ Pow2[High(x)] \in Nat \ {0}
  BY <1>1, Pow2Next, Pow2Nat
<1>6. c \in Nat \ {0, 1} /\ 1 \in 0 .. c - 1
  BY <1>5
<1>. HIDE DEF c
<1>7. c * Pow2[Byte] \in Nat \ {0} /\ c * Front(x) + 1 \in 0 .. c * Pow2[Byte] - 1
  BY <1>2, <1>6, ByteFacts, ProductBound
<1>8. Pow2[Byte] * c = c * Pow2[Byte] /\ c * Front(x) = Front(x) * c
  BY <1>2, <1>6, ByteFacts
<1>. QED
  BY <1>1, <1>2, <1>3, <1>4, <1>6, <1>7, <1>8 DEF Code, c

LEMMA CodeNat ==
    \A x \in Int : CoeffBits(x) \in Nat /\ Pow2[CoeffBits(x)] \in Nat /\ Code(x) \in Nat
<1>. SUFFICES ASSUME NEW x \in Int
              PROVE  CoeffBits(x) \in Nat /\ Pow2[CoeffBits(x)] \in Nat /\ Code(x) \in Nat
  OBVIOUS
<1>1. /\ CoeffBits(x) \in Nat /\ Pow2[CoeffBits(x)] \in Nat \ {0}
      /\ Code(x) \in 0 .. Pow2[CoeffBits(x)] - 1
  BY CodeFacts
<1>. QED
  BY <1>1

LEMMA NumDef ==
    ASSUME NEW p \in Seq(Int)
    PROVE  /\ Num(p) \in [0 .. Len(p) -> Nat] /\ Num(p)[0] = 0
           /\ \A k \in 1 .. Len(p) :
                 Num(p)[k] = Num(p)[k - 1] * Pow2[CoeffBits(p[k])] + Code(p[k])
<1>. DEFINE K == Len(p)
            a == [k \in 1 .. K |-> Pow2[CoeffBits(p[k])]]
            b == [k \in 1 .. K |-> Code(p[k])]
<1>1. \A k \in 1 .. K : a[k] = Pow2[CoeffBits(p[k])] /\ b[k] = Code(p[k])
  OBVIOUS
<1>2. K \in Nat /\ a \in [1 .. K -> Nat] /\ b \in [1 .. K -> Nat]
  <2>1. ASSUME NEW k \in 1 .. K PROVE Pow2[CoeffBits(p[k])] \in Nat /\ Code(p[k]) \in Nat
    <3>1. p[k] \in Int
      OBVIOUS
    <3>. QED  BY <3>1, CodeNat, Zenon
  <2>2. K \in Nat
    OBVIOUS
  <2>. HIDE DEF K
  <2>. QED  BY <2>1, <2>2
<1>3. Num(p) = Horner(K, a, b)
  BY DEF Num
<1>. HIDE DEF K, a, b
<1>4. /\ Horner(K, a, b) \in [0 .. K -> Nat] /\ Horner(K, a, b)[0] = 0
      /\ \A k \in 1 .. K : Horner(K, a, b)[k] = Horner(K, a, b)[k - 1] * a[k] + b[k]
  BY <1>2, HornerDef
<1>. QED
  BY <1>1, <1>3, <1>4 DEF K

LEMMA EndsDef ==
    ASSUME NEW p \in Seq(Int)
    PROVE  /\ Ends(p) \in [0 .. Len(p) -> Nat] /\ Ends(p)[0] = 0
           /\ \A k \in 1 .. Len(p) : Ends(p)[k] = Ends(p)[k - 1] + CoeffBits(p[k])
<1>. DEFINE K == Len(p)
            a == [k \in 1 .. K |-> 1]
            b == [k \in 1 .. K |-> CoeffBits(p[k])]
            fn == Horner(K, a, b)
            e == Ends(p)
            F(k) == IF k = 0 THEN 0 ELSE fn[k - 1] + CoeffBits(p[k])
            E(k) == IF k = 0 THEN 0 ELSE e[k - 1] + CoeffBits(p[k])
<1>1. ASSUME NEW k \in 1 .. K PROVE CoeffBits(p[k]) \in Nat
  <2>1. p[k] \in Int
    OBVIOUS
  <2>. QED  BY <2>1, CodeNat, Zenon
<1>2. /\ K \in Nat /\ a \in [1 .. K -> Nat] /\ b \in [1 .. K -> Nat]
      /\ \A k \in 1 .. K : a[k] = 1 /\ b[k] = CoeffBits(p[k])
  BY <1>1
<1>. HIDE DEF a, b
<1>3. /\ fn \in [0 .. K -> Nat] /\ fn[0] = 0
      /\ \A k \in 1 .. K : fn[k] = fn[k - 1] * a[k] + b[k]
  <2>. HIDE DEF K
  <2>. QED  BY <1>2, HornerDef
<1>. HIDE DEF fn
<1>4. ASSUME NEW k \in 1 .. K PROVE fn[k] = fn[k - 1] + CoeffBits(p[k])
  <2>1. fn[k - 1] \in Nat /\ fn[k] = fn[k - 1] * a[k] + b[k] /\ a[k] = 1 /\ b[k] = CoeffBits(p[k])
    BY <1>2, <1>3
  <2>. QED  BY <2>1, <1>1
<1>5. fn = [k \in 0 .. K |-> F(k)]
  <2>1. ASSUME NEW k \in 0 .. K PROVE fn[k] = F(k)
    BY <1>3, <1>4
  <2>. HIDE DEF F
  <2>. QED  BY <1>3, <2>1
<1>6. e = [k \in 0 .. K |-> E(k)]
  <2>. DEFINE IsEnds(hi) == hi = [k \in 0 .. K |-> IF k = 0 THEN 0 ELSE hi[k - 1] + CoeffBits(p[k])]
  <2>1. e = CHOOSE hi : IsEnds(hi)
    BY Zenon DEF Ends
  <2>2. IsEnds(fn)
    BY <1>5
  <2>3. IsEnds(CHOOSE hi : IsEnds(hi))
    BY <2>2, Zenon
  <2>. QED  BY <2>1, <2>3
<1>. HIDE DEF e
<1>7. e[0] = 0 /\ \A k \in 1 .. K : e[k] = e[k - 1] + CoeffBits(p[k])
  <2>1. ASSUME NEW k \in 0 .. K PROVE e[k] = E(k)
    <3>. HIDE DEF E
    <3>. QED  BY <1>6
  <2>2. 0 \in 0 .. K /\ \A k \in 1 .. K : k \in 0 .. K /\ k # 0
    BY <1>2
  <2>. QED  BY <2>1, <2>2
<1>8. Alike(e, fn, K)
  <2>1. ASSUME NEW k \in 0 .. K - 1, e[k] = fn[k] PROVE e[k + 1] = fn[k + 1]
    <3>1. k + 1 \in 1 .. K /\ (k + 1) - 1 = k
      OBVIOUS
    <3>2. e[k + 1] = e[k] + CoeffBits(p[k + 1])
      BY <1>7, <3>1
    <3>3. fn[k + 1] = fn[k] + CoeffBits(p[k + 1])
      BY <1>4, <3>1
    <3>. QED  BY <2>1, <3>2, <3>3
  <2>. QED  BY <1>3, <1>7, <2>1 DEF Alike
<1>9. \A k \in 0 .. K : e[k] = fn[k]
  <2>. HIDE DEF K
  <2>. QED  BY <1>2, <1>8, SameSteps
<1>10. e \in [0 .. K -> Nat]
  <2>1. \A k \in 0 .. K : e[k] \in Nat
    BY <1>3, <1>9
  <2>2. e = [k \in 0 .. K |-> e[k]]
    <3>. HIDE DEF E
    <3>. QED  BY <1>6
  <2>. QED  BY <2>1, <2>2
<1>. QED
  BY <1>7, <1>10 DEF K, e

LEMMA CodePrefix ==
    ASSUME NEW p \in Seq(Int), NEW r \in Seq(Int), Len(p) <= Len(r),
           \A k \in 1 .. Len(p) : p[k] = r[k]
    PROVE  \A k \in 0 .. Len(p) : Num(p)[k] = Num(r)[k] /\ Ends(p)[k] = Ends(r)[k]
<1>. DEFINE K == Len(p)
            L == Len(r)
            fn == Num(p)
            hi == Num(r)
            e == Ends(p)
            d == Ends(r)
<1>0. K \in Nat /\ L \in Nat /\ K <= L
  OBVIOUS
<1>1. fn[0] = 0 /\ \A k \in 1 .. K : fn[k] = fn[k - 1] * Pow2[CoeffBits(p[k])] + Code(p[k])
  BY NumDef
<1>2. hi[0] = 0 /\ \A k \in 1 .. L : hi[k] = hi[k - 1] * Pow2[CoeffBits(r[k])] + Code(r[k])
  BY NumDef
<1>3. e[0] = 0 /\ \A k \in 1 .. K : e[k] = e[k - 1] + CoeffBits(p[k])
  BY EndsDef
<1>4. d[0] = 0 /\ \A k \in 1 .. L : d[k] = d[k - 1] + CoeffBits(r[k])
  BY EndsDef
<1>5. \A k \in 1 .. K : p[k] = r[k]
  OBVIOUS
<1>. HIDE DEF K, L, fn, hi, e, d
<1>6. ASSUME NEW k \in 0 .. K - 1
      PROVE  /\ fn[k] = hi[k] => fn[k + 1] = hi[k + 1]
             /\ e[k] = d[k] => e[k + 1] = d[k + 1]
  <2>1. k + 1 \in 1 .. K /\ k + 1 \in 1 .. L /\ (k + 1) - 1 = k
    BY <1>0
  <2>2. fn[k + 1] = fn[k] * Pow2[CoeffBits(p[k + 1])] + Code(p[k + 1])
    BY <1>1, <2>1
  <2>3. hi[k + 1] = hi[k] * Pow2[CoeffBits(r[k + 1])] + Code(r[k + 1])
    BY <1>2, <2>1
  <2>4. e[k + 1] = e[k] + CoeffBits(p[k + 1]) /\ d[k + 1] = d[k] + CoeffBits(r[k + 1])
    BY <1>3, <1>4, <2>1
  <2>5. p[k + 1] = r[k + 1]
    BY <1>5, <2>1
  <2>. QED  BY <2>2, <2>3, <2>4, <2>5
<1>7. Alike(fn, hi, K) /\ Alike(e, d, K)
  BY <1>1, <1>2, <1>3, <1>4, <1>6 DEF Alike
<1>8. \A k \in 0 .. K : fn[k] = hi[k]
  <2>1. Alike(fn, hi, K) /\ K \in Nat
    BY <1>0, <1>7
  <2>. QED  BY <2>1, SameSteps
<1>9. \A k \in 0 .. K : e[k] = d[k]
  <2>1. Alike(e, d, K) /\ K \in Nat
    BY <1>0, <1>7
  <2>. QED  BY <2>1, SameSteps
<1>. QED
  BY <1>8, <1>9 DEF K, fn, hi, e, d

LEMMA CodeAppend ==
    ASSUME NEW p \in Seq(Int), NEW x \in Int
    PROVE  /\ Num(Append(p, x))[Len(p) + 1] = Num(p)[Len(p)] * Pow2[CoeffBits(x)] + Code(x)
           /\ Ends(Append(p, x))[Len(p) + 1] = Ends(p)[Len(p)] + CoeffBits(x)
<1>. DEFINE u == Append(p, x)
            K == Len(p)
<1>1. /\ u \in Seq(Int) /\ Len(u) = K + 1 /\ K \in Nat /\ u[K + 1] = x
      /\ \A k \in 1 .. K : p[k] = u[k]
  OBVIOUS
<1>. HIDE DEF u
<1>2. \A k \in 0 .. K : Num(p)[k] = Num(u)[k] /\ Ends(p)[k] = Ends(u)[k]
  BY <1>1, CodePrefix
<1>3. \A k \in 1 .. Len(u) : Num(u)[k] = Num(u)[k - 1] * Pow2[CoeffBits(u[k])] + Code(u[k])
  BY <1>1, NumDef
<1>4. \A k \in 1 .. Len(u) : Ends(u)[k] = Ends(u)[k - 1] + CoeffBits(u[k])
  BY <1>1, EndsDef
<1>5. K + 1 \in 1 .. Len(u) /\ (K + 1) - 1 = K /\ K \in 0 .. K
  BY <1>1
<1>6. Num(u)[K + 1] = Num(u)[K] * Pow2[CoeffBits(u[K + 1])] + Code(u[K + 1])
  BY <1>3, <1>5
<1>7. Ends(u)[K + 1] = Ends(u)[K] + CoeffBits(u[K + 1])
  BY <1>4, <1>5
<1>. QED
  BY <1>1, <1>2, <1>5, <1>6, <1>7 DEF u

LEMMA EndsMonotone ==
    ASSUME NEW p \in Seq(Int)
    PROVE  \A k \in 0 .. Len(p) : Ends(p)[k] <= Ends(p)[Len(p)]
<1>. DEFINE K == Len(p)
            e == Ends(p)
            T == {k \in 0 .. K : e[k] <= e[K]}
<1>1. K \in Nat /\ e \in [0 .. K -> Nat] /\ \A k \in 1 .. K : e[k] = e[k - 1] + CoeffBits(p[k])
  BY EndsDef
<1>2. ASSUME NEW k \in 1 .. K PROVE CoeffBits(p[k]) \in Nat
  <2>1. p[k] \in Int
    OBVIOUS
  <2>. QED  BY <2>1, CodeNat, Zenon
<1>. HIDE DEF K, e
<1>3. K \in T
  BY <1>1
<1>4. ASSUME NEW k \in 0 .. K - 1, k + 1 \in T PROVE k \in T
  <2>1. k + 1 \in 1 .. K /\ k \in 0 .. K /\ k + 1 \in 0 .. K /\ K \in 0 .. K /\ (k + 1) - 1 = k
    BY <1>1
  <2>2. e[k + 1] = e[k] + CoeffBits(p[k + 1]) /\ CoeffBits(p[k + 1]) \in Nat
    BY <1>1, <1>2, <2>1
  <2>3. e[k] \in Nat /\ e[k + 1] \in Nat /\ e[K] \in Nat /\ e[k + 1] <= e[K]
    BY <1>1, <1>4, <2>1
  <2>. QED  BY <2>1, <2>2, <2>3
<1>5. 0 .. K \subseteq T
  <2>. HIDE DEF T
  <2>. QED  BY <1>1, <1>3, <1>4, InductionDown
<1>. QED
  BY <1>5 DEF K, e

-----------------------------------------------------------------------------
(* The encoder.                                                            *)

\* Zeros at the end multiply the number.
LEMMA ValPadded ==
    ASSUME NEW w \in Seq(Nat), NEW K \in Nat, K <= Len(w),
           \A k \in K + 1 .. Len(w) : w[k] = 0
    PROVE  Val(w)[Len(w)] = Val(w)[K] * Pow2[Byte * (Len(w) - K)]
<1>. DEFINE L == Len(w)
            v == Val(w)
            D == L - K
            T == {k \in 0 .. D : v[K + k] = v[K] * Pow2[Byte * k]}
<1>1. /\ L \in Nat /\ D \in Nat /\ v \in [0 .. L -> Nat]
      /\ \A k \in 1 .. L : v[k] = v[k - 1] * Pow2[Byte] + w[k]
  BY ValDef
<1>2. \A k \in K + 1 .. L : w[k] = 0
  OBVIOUS
<1>. HIDE DEF v
<1>3. 0 \in T
  <2>1. v[K] \in Nat
    BY <1>1
  <2>2. Byte * 0 = 0 /\ K + 0 = K
    BY ByteFacts
  <2>3. v[K + 0] = v[K] * Pow2[Byte * 0]
    <3>1. Pow2[Byte * 0] = 1
      BY <2>2, Pow2Next, Zenon
    <3>2. v[K] * 1 = v[K]
      BY <2>1
    <3>. QED  BY <2>2, <3>1, <3>2, Zenon
  <2>. HIDE DEF D
  <2>. QED  BY <1>1, <2>3
<1>4. ASSUME NEW k \in 0 .. D - 1, k \in T PROVE k + 1 \in T
  <2>1. K + (k + 1) \in 1 .. L /\ K + (k + 1) \in K + 1 .. L /\ (K + (k + 1)) - 1 = K + k
    BY <1>1
  <2>2. v[K + (k + 1)] = v[K + k] * Pow2[Byte] + w[K + (k + 1)]
    BY <1>1, <2>1
  <2>3. w[K + (k + 1)] = 0
    BY <1>2, <2>1
  <2>4. Byte * k \in Nat /\ Byte * (k + 1) = Byte * k + Byte
    BY ByteFacts
  <2>5. Pow2[Byte * (k + 1)] = Pow2[Byte * k] * Pow2[Byte]
    BY <2>4, ByteFacts, Pow2Add
  <2>6. v[K + k] = v[K] * Pow2[Byte * k] /\ v[K] \in Nat /\ v[K + k] \in Nat
    <3>1. K \in 0 .. L /\ K + k \in 0 .. L
      BY <1>1
    <3>2. v[K] \in Nat /\ v[K + k] \in Nat
      BY <1>1, <3>1
    <3>. HIDE DEF D, L
    <3>. QED  BY <1>4, <3>2
  <2>7. Pow2[Byte * k] \in Nat /\ Pow2[Byte] \in Nat
    BY <2>4, ByteFacts, Pow2Nat
  <2>8. \A x, y, z \in Nat : (x * y) * z + 0 = x * (y * z)
    OBVIOUS
  <2>9. v[K + (k + 1)] = v[K] * Pow2[Byte * (k + 1)]
    BY <2>2, <2>3, <2>5, <2>6, <2>7, <2>8
  <2>. QED  BY <1>4, <2>9
<1>5. 0 .. D \subseteq T
  <2>. HIDE DEF T, D
  <2>. QED  BY <1>1, <1>3, <1>4, InductionTo
<1>6. D \in T /\ K + D = L
  <2>1. K + D = L /\ D \in 0 .. D
    BY <1>1
  <2>. HIDE DEF T, D
  <2>. QED  BY <1>5, <2>1
<1>7. v[K + D] = v[K] * Pow2[Byte * D]
  <2>. HIDE DEF D
  <2>. QED  BY <1>6
<1>8. v[L] = v[K] * Pow2[Byte * (L - K)]
  BY <1>6, <1>7, Zenon
<1>. QED
  BY <1>8 DEF v

LEMMA BytesNat == \A w \in Seq(Bytes) : w \in Seq(Nat)
<1>1. Bytes \subseteq Nat
  BY ByteFacts DEF Bytes
<1>2. ASSUME NEW w \in Seq(Bytes) PROVE w \in Seq(Nat)
  <2>1. w \in [1 .. Len(w) -> Bytes] /\ Len(w) \in Nat
    OBVIOUS
  <2>2. w \in [1 .. Len(w) -> Nat]
    BY <1>1, <2>1
  <2>. QED  BY <2>1, <2>2
<1>. QED
  BY <1>2

\* The bits below a power of two, one byte at a time.
LEMMA FullBytesValue ==
    ASSUME NEW w \in Seq(Bytes), NEW a \in Nat, NEW alen \in Nat
    PROVE  LET u == w \o FullBytes(a, alen)
               l == alen % Byte
           IN  /\ u \in Seq(Bytes) /\ Len(u) = Len(w) + (alen \div Byte)
               /\ Val(u)[Len(u)] * Pow2[l] + (a % Pow2[l])
                    = Val(w)[Len(w)] * Pow2[alen] + (a % Pow2[alen])
<1>. DEFINE n == alen \div Byte
            l == alen % Byte
            d == Pow2[Byte]
            full == FullBytes(a, alen)
            u == w \o full
<1>1. Byte \in Nat \ {0} /\ alen = Byte * n + l /\ n \in Nat /\ l \in Nat
  BY ByteFacts, NatDivMod, Zenon
<1>2. full = Groups(a, alen, Byte, n)
  BY DEF FullBytes, Groups
<1>. HIDE DEF n, l, full
<1>3. n * Byte <= alen /\ alen - n * Byte = l
  <2>1. Byte * n = n * Byte /\ n * Byte \in Nat
    BY <1>1
  <2>. QED  BY <1>1, <2>1
<1>4. w \in Seq(0 .. d - 1)
  BY DEF Bytes
<1>5. /\ u \in Seq(0 .. d - 1) /\ Len(u) = Len(w) + n
      /\ Digits(d, u)[Len(u)] * Pow2[alen - n * Byte] + (a % Pow2[alen - n * Byte])
           = Digits(d, w)[Len(w)] * Pow2[alen] + (a % Pow2[alen])
  <2>1. Byte \in Nat /\ w \in Seq(0 .. Pow2[Byte] - 1)
    BY <1>1, <1>4
  <2>2. Continues(w, w \o Groups(a, alen, Byte, n), Pow2[Byte], n, a, alen, alen - n * Byte)
    BY <1>1, <1>3, <2>1, GroupsValue, Zenon
  <2>. QED  BY <1>2, <2>2, Zenon DEF Continues
<1>. QED
  BY <1>3, <1>5, Zenon DEF Val, Bytes, n, l, full

\* Shifting into the accumulator keeps the pending bits, as long as they fit.
LEMMA ShiftInValue ==
    ASSUME NEW a \in Nat, NEW bits \in Nat, NEW alen \in Nat, NEW x \in 0 .. Pow2[bits] - 1,
           alen + bits <= AccWidth
    PROVE  /\ ShiftIn(a, bits, x) \in Nat
           /\ ShiftIn(a, bits, x) % Pow2[alen + bits] = (a % Pow2[alen]) * Pow2[bits] + x
BY CodecAssumption, ShiftInLow DEF ShiftIn, Shifted

LEMMA DivMonotone ==
    ASSUME NEW a \in Nat, NEW b \in Nat, a <= b, NEW d \in Nat \ {0}
    PROVE  a \div d <= b \div d
<1>. DEFINE x == a \div d
            y == b \div d
<1>1. x \in Nat /\ a % d \in 0 .. d - 1 /\ a = d * x + (a % d)
  BY NatDivMod, Zenon
<1>2. y \in Nat /\ b % d \in 0 .. d - 1 /\ b = d * y + (b % d)
  BY NatDivMod, Zenon
<1>. HIDE DEF x, y
<1>3. SUFFICES ASSUME x >= y + 1 PROVE FALSE
  BY <1>1, <1>2 DEF x, y
<1>4. d * x >= d * (y + 1) /\ d * (y + 1) = d * y + d
  BY <1>1, <1>2, <1>3
<1>. QED
  BY <1>1, <1>2, <1>4

LEMMA CoeffFits ==
    ASSUME NEW x \in InRange, NEW alen \in 0 .. Byte - 1
    PROVE  x \in Int /\ alen + CoeffBits(x) <= AccWidth
<1>1. x \in Int /\ Abs(x) \in Nat /\ Abs(x) <= MaxAbs /\ MaxAbs \in Nat /\ Abs(MaxAbs) = MaxAbs
  BY CodecAssumption DEF InRange, Abs
<1>2. Abs(x) \div Low <= MaxAbs \div Low
  BY <1>1, ByteFacts, DivMonotone
<1>3. Abs(x) \div Low \in Nat /\ MaxAbs \div Low \in Nat
  BY <1>1, ByteFacts, DivNat
<1>. QED
  BY <1>1, <1>2, <1>3, ByteFacts, CodecAssumption DEF CoeffBits

LEMMA PutCoeffValue ==
    ASSUME NEW a \in Nat, NEW alen \in 0 .. Byte - 1, NEW x \in InRange
    PROVE  /\ PutCoeff(a, x) \in Nat
           /\ PutCoeff(a, x) % Pow2[alen + CoeffBits(x)]
                = (a % Pow2[alen]) * Pow2[CoeffBits(x)] + Code(x)
<1>. DEFINE hi == High(x) + 1
            c == Pow2[hi]
            B == Pow2[Byte]
            t == a % Pow2[alen]
            b == ShiftIn(a, Byte, Front(x))
<1>1. x \in Int /\ alen + CoeffBits(x) <= AccWidth
  BY CoeffFits
<1>2. /\ hi \in Nat /\ Front(x) \in 0 .. B - 1 /\ CoeffBits(x) = Byte + hi
      /\ Pow2[CoeffBits(x)] = c * B /\ c \in Nat \ {0, 1} /\ Code(x) = Front(x) * c + 1
  BY <1>1, CodeFacts DEF Code
<1>3. Byte \in Nat /\ alen \in Nat /\ B \in Nat \ {0} /\ AccWidth \in Nat
  BY ByteFacts, CodecAssumption
<1>4. PutCoeff(a, x) = ShiftIn(b, hi, 1)
  BY DEF PutCoeff, High, Front
<1>5. alen + Byte <= AccWidth /\ (alen + Byte) + hi <= AccWidth /\ alen + Byte \in Nat
      /\ (alen + Byte) + hi = alen + CoeffBits(x)
  BY <1>1, <1>2, <1>3
<1>6. b \in Nat /\ b % Pow2[alen + Byte] = t * B + Front(x)
  <2>. DEFINE y == Front(x)
  <2>1. y \in 0 .. Pow2[Byte] - 1
    BY <1>2
  <2>. HIDE DEF y
  <2>2. ShiftIn(a, Byte, y) \in Nat /\ ShiftIn(a, Byte, y) % Pow2[alen + Byte] = t * B + y
    <3>1. Byte \in Nat /\ alen \in Nat /\ alen + Byte <= AccWidth
      BY <1>3, <1>5
    <3>. QED  BY <2>1, <3>1, ShiftInValue, Zenon
  <2>. QED  BY <2>2 DEF y
<1>7. t \in Nat
  <2>1. Pow2[alen] \in Nat \ {0}
    BY <1>3, Pow2Nat
  <2>. QED  BY <2>1, NatDivMod, Zenon
<1>8. 1 \in 0 .. Pow2[hi] - 1
  <2>1. c \in Nat \ {0, 1}
    BY <1>2
  <2>. HIDE DEF hi
  <2>. QED  BY <2>1
<1>. HIDE DEF b, hi
<1>9. /\ ShiftIn(b, hi, 1) \in Nat
      /\ ShiftIn(b, hi, 1) % Pow2[(alen + Byte) + hi] = (b % Pow2[alen + Byte]) * Pow2[hi] + 1
  BY <1>2, <1>5, <1>6, <1>8, ShiftInValue
<1>. HIDE DEF t, c, B
<1>10. (t * B + Front(x)) * c + 1 = t * (c * B) + (Front(x) * c + 1)
  BY <1>2, <1>3, <1>7
<1>. QED
  BY <1>2, <1>4, <1>5, <1>6, <1>9, <1>10 DEF c, t

\* The bytes w and the al pending bits of a are the code of k coefficients.
Pending(w, a, al, p, k) ==
    /\ w \in Seq(Bytes) /\ a \in Nat /\ al \in 0 .. Byte - 1
    /\ Byte * Len(w) + al = Ends(p)[k]
    /\ Val(w)[Len(w)] * Pow2[al] + (a % Pow2[al]) = Num(p)[k]

\* The bytes w are the code of p, padded with zeros to n bytes.
Encodes(w, n, p) ==
    /\ w \in Seq(Bytes) /\ Len(w) = n /\ CodeLength(p) <= Byte * n
    /\ Val(w)[n] = Num(p)[Len(p)] * Pow2[Byte * n - CodeLength(p)]

LEMMA EncodeStep ==
    ASSUME NEW w, NEW a, NEW al, NEW p \in Seq(Int), NEW k \in 0 .. Len(p) - 1,
           Pending(w, a, al, p, k), p[k + 1] \in InRange
    PROVE  LET b == PutCoeff(a, p[k + 1])
               l == al + CoeffBits(p[k + 1])
           IN  Pending(w \o FullBytes(b, l), b, l % Byte, p, k + 1)
<1>. DEFINE x == p[k + 1]
            b == PutCoeff(a, x)
            c == CoeffBits(x)
            l == al + c
            u == w \o FullBytes(b, l)
            v == Val(w)[Len(w)]
            t == a % Pow2[al]
<1>1. /\ w \in Seq(Bytes) /\ a \in Nat /\ al \in 0 .. Byte - 1 /\ al \in Nat
      /\ Byte * Len(w) + al = Ends(p)[k] /\ v * Pow2[al] + t = Num(p)[k]
  BY ByteFacts DEF Pending
<1>2. x \in Int /\ x \in InRange /\ c \in Nat /\ l \in Nat
  <2>1. x \in Int
    OBVIOUS
  <2>2. c \in Nat
    BY <2>1, CodeNat, Zenon
  <2>. QED  BY <1>1, <2>1, <2>2
<1>3. b \in Nat /\ b % Pow2[l] = t * Pow2[c] + Code(x)
  <2>. HIDE DEF x
  <2>. QED  BY <1>1, <1>2, PutCoeffValue
<1>. HIDE DEF x, b, c
<1>4. /\ u \in Seq(Bytes) /\ Len(u) = Len(w) + (l \div Byte)
      /\ Val(u)[Len(u)] * Pow2[l % Byte] + (b % Pow2[l % Byte]) = v * Pow2[l] + (b % Pow2[l])
  BY <1>1, <1>2, <1>3, FullBytesValue
<1>5. /\ l % Byte \in 0 .. Byte - 1 /\ l \div Byte \in Nat /\ l = Byte * (l \div Byte) + (l % Byte)
  <2>. HIDE DEF l
  <2>. QED  BY <1>2, ByteFacts, NatDivMod, Zenon
<1>6. k + 1 \in 1 .. Len(p) /\ (k + 1) - 1 = k
  OBVIOUS
<1>7. /\ Num(p)[k + 1] = Num(p)[k] * Pow2[c] + Code(x)
      /\ Ends(p)[k + 1] = Ends(p)[k] + c
  <2>1. \A nr \in 1 .. Len(p) : Num(p)[nr] = Num(p)[nr - 1] * Pow2[CoeffBits(p[nr])] + Code(p[nr])
    BY NumDef
  <2>2. \A nr \in 1 .. Len(p) : Ends(p)[nr] = Ends(p)[nr - 1] + CoeffBits(p[nr])
    BY EndsDef
  <2>. QED  BY <1>6, <2>1, <2>2 DEF x, c
<1>8. Byte * Len(u) + (l % Byte) = Ends(p)[k + 1]
  <2>. DEFINE e == l \div Byte
              r == l % Byte
              L == Len(w)
  <2>1. e \in Nat /\ r \in Nat /\ L \in Nat /\ Byte \in Nat /\ Len(u) = L + e /\ al + c = Byte * e + r
    BY <1>1, <1>4, <1>5, ByteFacts
  <2>2. Byte * L + al = Ends(p)[k]
    BY <1>1
  <2>. HIDE DEF e, r, L, u
  <2>3. Byte * (L + e) = Byte * L + Byte * e /\ Byte * L \in Nat /\ Byte * e \in Nat
    BY <2>1
  <2>4. Byte * (L + e) + r = (Byte * L + al) + c
    BY <1>1, <1>2, <2>1, <2>3
  <2>5. Byte * Len(u) + r = Ends(p)[k + 1]
    BY <1>7, <2>1, <2>2, <2>4
  <2>. QED  BY <2>5 DEF r
<1>9. v * Pow2[l] + (b % Pow2[l]) = Num(p)[k + 1]
  <2>. DEFINE fn == Pow2[al]
              gn == Pow2[c]
              y == Code(x)
  <2>1. fn \in Nat \ {0} /\ gn \in Nat \ {0} /\ Pow2[l] = fn * gn
    BY <1>1, <1>2, Pow2Nat, Pow2Add
  <2>2. t \in Nat
    BY <1>1, <2>1, NatDivMod, Zenon
  <2>3. y \in Nat
    BY <1>2, CodeNat, Zenon
  <2>4. v \in Nat
    <3>1. w \in Seq(Nat)
      BY <1>1, BytesNat
    <3>2. Val(w) \in [0 .. Len(w) -> Nat] /\ Len(w) \in 0 .. Len(w)
      BY <3>1, ValDef
    <3>. QED  BY <3>2
  <2>5. b % Pow2[l] = t * gn + y /\ v * fn + t = Num(p)[k]
    BY <1>1, <1>3
  <2>6. Num(p)[k + 1] = Num(p)[k] * gn + y
    BY <1>7
  <2>. HIDE DEF fn, gn, y, t, v
  <2>7. v * (fn * gn) + (t * gn + y) = (v * fn + t) * gn + y
    BY <2>1, <2>2, <2>3, <2>4
  <2>8. v * Pow2[l] = v * (fn * gn)
    BY <2>1
  <2>. QED  BY <2>5, <2>6, <2>7, <2>8
<1>10. Pending(u, b, l % Byte, p, k + 1)
  <2>. HIDE DEF u, l
  <2>. QED  BY <1>3, <1>4, <1>5, <1>8, <1>9 DEF Pending
<1>. QED
  BY <1>10, Zenon DEF b, c, x

Zeros(n) == [k \in 1 .. n |-> 0]

LEMMA ZerosFacts ==
    ASSUME NEW n \in Nat
    PROVE  Zeros(n) \in Seq(Bytes) /\ Len(Zeros(n)) = n /\ \A k \in 1 .. n : Zeros(n)[k] = 0
<1>1. 0 \in Bytes
  BY ByteFacts DEF Bytes
<1>2. Zeros(n) \in [1 .. n -> Bytes] /\ \A k \in 1 .. n : Zeros(n)[k] = 0
  BY <1>1 DEF Zeros
<1>. QED
  BY <1>2

\* Zeros to the end of the slice.
LEMMA PadStep ==
    ASSUME NEW w \in Seq(Bytes), NEW n \in Nat, Len(w) <= n
    PROVE  LET z == w \o Zeros(n - Len(w))
           IN  /\ z \in Seq(Bytes) /\ Len(z) = n
               /\ Val(z)[n] = Val(w)[Len(w)] * Pow2[Byte * (n - Len(w))]
<1>. DEFINE L == Len(w)
            o == Zeros(n - L)
            z == w \o o
<1>1. L \in Nat /\ n - L \in Nat /\ L <= n
  OBVIOUS
<1>2. o \in Seq(Bytes) /\ Len(o) = n - L /\ \A k \in 1 .. n - L : o[k] = 0
  BY <1>1, ZerosFacts
<1>. HIDE DEF o
<1>3. /\ z \in Seq(Bytes) /\ Len(z) = L + Len(o)
      /\ \A k \in 1 .. L : w[k] = z[k] /\ \A j \in 1 .. Len(o) : z[L + j] = o[j]
  BY <1>2, Concat DEF IsConcat
<1>4. \A k \in 1 .. Len(o) : z[L + k] = o[k]
  BY <1>2, Concat DEF IsConcat
<1>. HIDE DEF z
<1>5. Len(z) = n /\ w \in Seq(Nat) /\ z \in Seq(Nat) /\ L <= Len(z)
  BY <1>1, <1>2, <1>3, BytesNat
<1>6. Val(w)[L] = Val(z)[L]
  <2>1. \A k \in 0 .. L : Val(w)[k] = Val(z)[k]
    BY <1>3, <1>5, ValPrefix
  <2>. QED  BY <1>1, <2>1
<1>7. ASSUME NEW k \in L + 1 .. Len(z) PROVE z[k] = 0
  <2>1. k - L \in 1 .. n - L /\ L + (k - L) = k
    BY <1>1, <1>5
  <2>. QED  BY <1>2, <1>4, <2>1
<1>8. Val(z)[Len(z)] = Val(z)[L] * Pow2[Byte * (Len(z) - L)]
  <2>. HIDE DEF L
  <2>. QED  BY <1>1, <1>5, <1>7, ValPadded
<1>. QED
  BY <1>3, <1>5, <1>6, <1>8, Zenon DEF z, o

\* The last bits, shifted to the top of a byte of their own.
LEMMA LastByte ==
    ASSUME NEW w, NEW a, NEW al, NEW p \in Seq(Int), Pending(w, a, al, p, Len(p)), al > 0
    PROVE  LET b == (a * Pow2[Byte - al]) % Pow2[Byte]
           IN  /\ w \o <<b>> \in Seq(Bytes) /\ Len(w \o <<b>>) = Len(w) + 1
               /\ Val(w \o <<b>>)[Len(w) + 1] = Num(p)[Len(p)] * Pow2[Byte - al]
<1>. DEFINE d == Pow2[Byte - al]
            fn == Pow2[al]
            t == a % fn
            b == (a * d) % Pow2[Byte]
            v == Val(w)[Len(w)]
<1>1. /\ w \in Seq(Bytes) /\ a \in Nat /\ al \in Nat /\ Byte - al \in Nat
      /\ v * fn + t = Num(p)[Len(p)]
  BY ByteFacts DEF Pending
<1>2. d \in Nat \ {0} /\ fn \in Nat \ {0}
  BY <1>1, Pow2Nat
<1>3. Pow2[Byte] = d * fn
  <2>1. Byte = (Byte - al) + al
    BY <1>1, ByteFacts
  <2>. QED  BY <1>1, <2>1, Pow2Add
<1>4. t \in Nat
  BY <1>1, <1>2, NatDivMod, Zenon
<1>5. w \in Seq(Nat) /\ v \in Nat
  <2>1. w \in Seq(Nat)
    BY <1>1, BytesNat
  <2>2. Val(w) \in [0 .. Len(w) -> Nat] /\ Len(w) \in 0 .. Len(w)
    BY <2>1, ValDef
  <2>. QED  BY <2>1, <2>2
<1>6. b \in Bytes
  <2>1. a * d \in Nat
    BY <1>1, <1>2
  <2>2. b \in 0 .. Pow2[Byte] - 1
    BY <2>1, ByteFacts, NatDivMod, Zenon
  <2>. QED  BY <2>2 DEF Bytes
<1>. HIDE DEF d, fn, t, v
<1>7. b = d * t
  <2>1. (a * d + 0) % (d * fn) = d * (a % fn) + 0
    <3>1. 0 \in 0 .. d - 1 /\ a \in Int
      BY <1>1, <1>2
    <3>. QED  BY <1>2, <3>1, ShiftMod, Zenon
  <2>2. a * d + 0 = a * d /\ d * t + 0 = d * t
    BY <1>1, <1>2, <1>4
  <2>. QED  BY <1>3, <2>1, <2>2 DEF t
<1>. HIDE DEF b
<1>8. w \o <<b>> = Append(w, b) /\ b \in Nat
  BY <1>1, <1>2, <1>4, <1>6, <1>7
<1>9. Val(Append(w, b))[Len(w) + 1] = v * Pow2[Byte] + b
  BY <1>5, <1>8, ValAppend DEF v
<1>10. v * (d * fn) + d * t = (v * fn + t) * d
  BY <1>2, <1>4, <1>5
<1>11. Val(Append(w, b))[Len(w) + 1] = Num(p)[Len(p)] * d
  BY <1>1, <1>3, <1>7, <1>9, <1>10
<1>12. Append(w, b) \in Seq(Bytes) /\ Len(Append(w, b)) = Len(w) + 1
  BY <1>1, <1>6
<1>. QED
  BY <1>8, <1>11, <1>12 DEF b, d

LEMMA FlushStep ==
    ASSUME NEW w, NEW a, NEW al, NEW p \in Seq(Int), Pending(w, a, al, p, Len(p)),
           NEW u, u = w \o (IF al > 0 THEN <<(a * Pow2[Byte - al]) % Pow2[Byte]>> ELSE <<>>),
           NEW n \in Nat, Len(u) <= n
    PROVE  Encodes(u \o Zeros(n - Len(u)), n, p)
<1>. DEFINE z == u \o Zeros(n - Len(u))
            e == CodeLength(p)
            c == Num(p)[Len(p)]
            L == Len(u)
<1>1. /\ w \in Seq(Bytes) /\ a \in Nat /\ al \in 0 .. Byte - 1 /\ al \in Nat
      /\ Byte * Len(w) + al = e /\ Val(w)[Len(w)] * Pow2[al] + (a % Pow2[al]) = c
      /\ Len(w) \in Nat /\ Byte \in Nat
  BY ByteFacts DEF Pending, CodeLength
<1>2. c \in Nat
  BY NumDef
<1>3. /\ u \in Seq(Bytes) /\ L \in Nat /\ Byte * L - e \in Nat
      /\ Val(u)[L] = c * Pow2[Byte * L - e]
  <2>1. CASE al > 0
    <3>1. u = w \o <<(a * Pow2[Byte - al]) % Pow2[Byte]>>
      BY <2>1
    <3>2. u \in Seq(Bytes) /\ L = Len(w) + 1 /\ Val(u)[Len(w) + 1] = c * Pow2[Byte - al]
      <4>. DEFINE b == (a * Pow2[Byte - al]) % Pow2[Byte]
      <4>1. /\ w \o <<b>> \in Seq(Bytes) /\ Len(w \o <<b>>) = Len(w) + 1
            /\ Val(w \o <<b>>)[Len(w) + 1] = c * Pow2[Byte - al]
        BY <2>1, LastByte, Zenon
      <4>. QED  BY <3>1, <4>1, Zenon
    <3>3. Byte * (Len(w) + 1) = Byte * Len(w) + Byte
      BY <1>1
    <3>4. Byte * L - e = Byte - al /\ Byte - al \in Nat
      BY <1>1, <3>2, <3>3
    <3>. QED  BY <1>1, <3>2, <3>4
  <2>2. CASE al = 0
    <3>1. u = w
      BY <1>1, <2>2
    <3>2. Byte * L - e = 0
      BY <1>1, <2>2, <3>1
    <3>3. Pow2[al] = 1 /\ Pow2[Byte * L - e] = 1
      BY <2>2, <3>2, Pow2Next
    <3>4. Val(w)[Len(w)] \in Nat
      <4>1. w \in Seq(Nat)
        BY <1>1, BytesNat
      <4>2. Val(w) \in [0 .. Len(w) -> Nat] /\ Len(w) \in 0 .. Len(w)
        BY <4>1, ValDef
      <4>. QED  BY <4>2
    <3>5. a % 1 = 0
      BY <1>1
    <3>6. Val(w)[Len(w)] = c
      <4>1. Val(w)[Len(w)] * 1 + 0 = c
        BY <1>1, <3>3, <3>5
      <4>. QED  BY <3>4, <4>1
    <3>7. c * 1 = c
      BY <1>2
    <3>8. Val(u)[L] = c * Pow2[Byte * L - e]
      BY <3>1, <3>3, <3>6, <3>7, Zenon
    <3>9. Byte * L - e \in Nat /\ u \in Seq(Bytes)
      BY <1>1, <3>1, <3>2
    <3>. QED  BY <1>1, <3>1, <3>8, <3>9
  <2>. QED  BY <1>1, <2>1, <2>2
<1>4. z \in Seq(Bytes) /\ Len(z) = n /\ Val(z)[n] = Val(u)[L] * Pow2[Byte * (n - L)]
  BY <1>3, PadStep
<1>. HIDE DEF z, c, L
<1>5. n - L \in Nat /\ Byte * (n - L) \in Nat /\ Byte * (n - L) = Byte * n - Byte * L
      /\ Byte * n \in Nat /\ Byte * L \in Nat
  <2>1. L <= n /\ L \in Nat /\ Byte \in Nat
    BY <1>1, <1>3 DEF L
  <2>2. ASSUME NEW x \in Nat, NEW y \in Nat, NEW b \in Nat, x <= y
        PROVE  /\ y - x \in Nat /\ b * (y - x) \in Nat /\ b * (y - x) = b * y - b * x
               /\ b * y \in Nat /\ b * x \in Nat
    BY <2>2
  <2>. QED  BY <2>1, <2>2
<1>6. e \in Nat
  <2>1. Ends(p) \in [0 .. Len(p) -> Nat] /\ Len(p) \in 0 .. Len(p)
    BY EndsDef
  <2>. QED  BY <2>1 DEF CodeLength
<1>. HIDE DEF e
<1>7. e <= Byte * n /\ Byte * n - e = (Byte * L - e) + Byte * (n - L)
  BY <1>3, <1>5, <1>6
<1>8. Pow2[Byte * n - e] = Pow2[Byte * L - e] * Pow2[Byte * (n - L)]
  BY <1>3, <1>5, <1>7, Pow2Add
<1>9. Val(z)[n] = c * Pow2[Byte * n - e]
  <2>. DEFINE fn == Pow2[Byte * L - e]
              gn == Pow2[Byte * (n - L)]
  <2>1. fn \in Nat /\ gn \in Nat
    BY <1>3, <1>5, Pow2Nat
  <2>2. Val(z)[n] = (c * fn) * gn /\ Pow2[Byte * n - e] = fn * gn
    BY <1>3, <1>4, <1>8
  <2>. HIDE DEF fn, gn
  <2>3. (c * fn) * gn = c * (fn * gn)
    BY <1>2, <2>1
  <2>. QED  BY <2>2, <2>3
<1>10. Encodes(z, n, p)
  BY <1>4, <1>7, <1>9 DEF Encodes, e, c
<1>. QED
  BY <1>10 DEF z, L

-----------------------------------------------------------------------------
(* The decoder.                                                            *)

\* The first nr bytes of w are the e bits of the number c, and then al bits that
\* are still in the accumulator a.
Read(w, nr, a, al, c, e) ==
    /\ w \in Seq(Bytes) /\ nr \in 0 .. Len(w) /\ a \in Nat /\ al \in Nat
    /\ c \in Nat /\ e \in Nat /\ Byte * nr = e + al
    /\ Val(w)[nr] = c * Pow2[al] + (a % Pow2[al])

LEMMA ReadByte ==
    ASSUME NEW w, NEW nr, NEW a, NEW al, NEW c, NEW e, Read(w, nr, a, al, c, e),
           nr < Len(w), al < Byte
    PROVE  Read(w, nr + 1, ShiftIn(a, Byte, w[nr + 1]), al + Byte, c, e)
<1>. DEFINE x == w[nr + 1]
            b == ShiftIn(a, Byte, x)
            B == Pow2[Byte]
            d == Pow2[al]
            t == a % d
            v == Val(w)
<1>1. /\ w \in Seq(Bytes) /\ nr \in Nat /\ a \in Nat /\ al \in Nat /\ Byte * nr = e + al
      /\ c \in Nat /\ e \in Nat /\ v[nr] = c * d + t /\ nr + 1 \in 1 .. Len(w) /\ (nr + 1) - 1 = nr
  BY DEF Read
<1>2. x \in 0 .. B - 1 /\ x \in Nat /\ B \in Nat \ {0} /\ d \in Nat \ {0} /\ Byte \in Nat
  <2>1. B \in Nat \ {0} /\ d \in Nat \ {0} /\ Byte \in Nat
    BY <1>1, ByteFacts, Pow2Nat
  <2>2. x \in Bytes
    BY <1>1
  <2>. QED  BY <2>1, <2>2 DEF Bytes
<1>3. al + Byte <= AccWidth
  <2>1. MaxAbs \in Int /\ AccWidth \in Nat /\ AccWidth >= (Byte - 1) + CoeffBits(MaxAbs)
    BY CodecAssumption
  <2>2. CoeffBits(MaxAbs) = Byte + (High(MaxAbs) + 1) /\ High(MaxAbs) \in Nat
    BY <2>1, CodeFacts
  <2>. QED  BY <1>1, <1>2, <2>1, <2>2
<1>4. b \in Nat /\ b % Pow2[al + Byte] = t * B + x
  <2>. HIDE DEF x
  <2>. QED  BY <1>1, <1>2, <1>3, ShiftInValue
<1>5. v[nr + 1] = v[nr] * B + x
  <2>1. w \in Seq(Nat)
    BY <1>1, BytesNat
  <2>2. \A k \in 1 .. Len(w) : v[k] = v[k - 1] * B + w[k]
    BY <2>1, ValDef
  <2>. QED  BY <1>1, <2>2
<1>6. Pow2[al + Byte] = d * B
  BY <1>1, <1>2, Pow2Add
<1>7. t \in Nat
  BY <1>1, <1>2, NatDivMod, Zenon
<1>. HIDE DEF x, b, B, d, t, v
<1>8. (c * d + t) * B + x = c * (d * B) + (t * B + x)
  BY <1>1, <1>2, <1>7
<1>9. v[nr + 1] = c * Pow2[al + Byte] + (b % Pow2[al + Byte])
  BY <1>1, <1>4, <1>5, <1>6, <1>8
<1>10. Byte * (nr + 1) = e + (al + Byte)
  <2>1. Byte * (nr + 1) = Byte * nr + Byte
    BY <1>1, <1>2
  <2>. QED  BY <1>1, <1>2, <2>1
<1>11. nr + 1 \in 0 .. Len(w) /\ al + Byte \in Nat
  BY <1>1, <1>2
<1>12. Read(w, nr + 1, b, al + Byte, c, e)
  BY <1>1, <1>4, <1>9, <1>10, <1>11 DEF Read, v
<1>. QED
  BY <1>12 DEF b, x

\* Bits at the top of the pending ones move to the number.
LEMMA TakeBits ==
    ASSUME NEW w, NEW nr, NEW a, NEW al \in Nat, NEW n \in Nat, NEW c, NEW e,
           Read(w, nr, a, al + n, c, e)
    PROVE  Read(w, nr, a, al, c * Pow2[n] + ((a \div Pow2[al]) % Pow2[n]), e + n)
<1>. DEFINE d == Pow2[al]
            fn == Pow2[n]
            y == (a \div d) % fn
            t == a % d
<1>1. /\ w \in Seq(Bytes) /\ nr \in 0 .. Len(w) /\ a \in Nat /\ Byte * nr = e + (al + n)
      /\ c \in Nat /\ e \in Nat /\ Val(w)[nr] = c * Pow2[al + n] + (a % Pow2[al + n])
  BY DEF Read
<1>2. d \in Nat \ {0} /\ fn \in Nat \ {0} /\ Pow2[al + n] = d * fn
  BY Pow2Nat, Pow2Add
<1>3. a \div d \in Nat /\ t \in Nat
  BY <1>1, <1>2, NatDivMod, Zenon
<1>4. y \in Nat
  BY <1>2, <1>3, NatDivMod, Zenon
<1>5. a % (d * fn) = d * y + t
  <2>1. a \in Int
    BY <1>1
  <2>. QED  BY <1>2, <2>1, DivDiv, Zenon
<1>. HIDE DEF d, fn, y, t
<1>6. c * (d * fn) + (d * y + t) = (c * fn + y) * d + t
  BY <1>1, <1>2, <1>3, <1>4
<1>7. Val(w)[nr] = (c * fn + y) * d + t
  BY <1>1, <1>2, <1>5, <1>6
<1>8. c * fn + y \in Nat /\ e + n \in Nat /\ Byte * nr = (e + n) + al
  BY <1>1, <1>2, <1>4
<1>9. Read(w, nr, a, al, c * fn + y, e + n)
  BY <1>1, <1>7, <1>8 DEF Read, d, t
<1>. QED
  BY <1>9 DEF fn, y, d

\* Sign and low bits of a byte of the code.
LEMMA SignAndLow ==
    ASSUME NEW a \in Nat, NEW al \in Nat
    PROVE  LET sg == (a \div Pow2[al + Byte - 1]) % 2
               m == (a \div Pow2[al]) % Low
           IN  /\ sg \in 0 .. 1 /\ m \in 0 .. Low - 1
               /\ (a \div Pow2[al]) % Pow2[Byte] = sg * Low + m
<1>. DEFINE d == Pow2[al]
            y == a \div d
            z == y \div Low
            sg == z % 2
            m == y % Low
<1>1. d \in Nat \ {0} /\ Low \in Nat \ {0} /\ a \in Int /\ Byte - 1 \in Nat /\ Pow2[Byte] = 2 * Low
  BY ByteFacts, Pow2Nat
<1>2. y \in Nat /\ y \in Int
  <2>1. y \in Nat
    BY <1>1, NatDivMod, Zenon
  <2>. QED  BY <2>1
<1>3. Pow2[al + Byte - 1] = d * Low
  <2>1. al + Byte - 1 = al + (Byte - 1)
    BY <1>1
  <2>. QED  BY <1>1, <2>1, Pow2Add DEF Low
<1>4. a \div (d * Low) = z
  BY <1>1, DivDiv, Zenon
<1>5. z \in Nat /\ m \in 0 .. Low - 1
  BY <1>1, <1>2, NatDivMod, Zenon
<1>. HIDE DEF y, z, d
<1>6. sg \in 0 .. 1
  BY <1>5
<1>7. y % (Low * 2) = Low * (z % 2) + m
  <2>1. 2 \in Nat \ {0}
    OBVIOUS
  <2>. QED  BY <1>1, <1>2, <2>1, DivDiv, Zenon DEF z
<1>8. Low * 2 = Pow2[Byte] /\ Low * sg = sg * Low
  BY <1>1, <1>6
<1>9. y % Pow2[Byte] = sg * Low + m
  BY <1>7, <1>8
<1>. QED
  BY <1>3, <1>4, <1>5, <1>6, <1>9 DEF y, d

\* The number c followed by a sign, low bits and zeros of the unary part.
Partial(c, sg, m) == (c * Pow2[Byte] + (sg * Low + (m % Low))) * Pow2[m \div Low]

LEMMA PartialFacts ==
    ASSUME NEW c \in Nat, NEW sg \in 0 .. 1, NEW m \in Nat
    PROVE  /\ Partial(c, sg, m) \in Nat
           /\ Partial(c, sg, m + Low) = Partial(c, sg, m) * 2
           /\ (m + Low) \div Low = (m \div Low) + 1 /\ (m + Low) % Low = m % Low
<1>. DEFINE y == m \div Low
            r == m % Low
            fn == Pow2[y]
            hi == c * Pow2[Byte] + (sg * Low + r)
<1>1. Low \in Nat \ {0} /\ Pow2[Byte] \in Nat
  BY ByteFacts
<1>2. y \in Nat /\ r \in Nat /\ r \in 0 .. Low - 1 /\ m = Low * y + r
  BY <1>1, NatDivMod, Zenon
<1>3. fn \in Nat /\ Pow2[y + 1] = 2 * fn
  BY <1>2, Pow2Nat, Pow2Next
<1>4. hi \in Nat
  <2>1. c * Pow2[Byte] \in Nat /\ sg * Low \in Nat
    BY <1>1
  <2>. QED  BY <1>2, <2>1
<1>5. (m + Low) \div Low = y + 1 /\ (m + Low) % Low = r
  <2>. HIDE DEF y, r
  <2>1. m + Low \in Int /\ y + 1 \in Int
    BY <1>1, <1>2
  <2>2. Low * (y + 1) = Low * y + Low
    BY <1>1, <1>2
  <2>3. Low * y \in Nat
    BY <1>1, <1>2
  <2>4. m + Low = Low * (y + 1) + r
    BY <1>1, <1>2, <2>2, <2>3
  <2>. QED  BY <1>1, <1>2, <2>1, <2>4, DivModUnique, Zenon
<1>6. Partial(c, sg, m) = hi * fn
  BY DEF Partial
<1>7. Partial(c, sg, m + Low) = hi * Pow2[y + 1]
  BY <1>5, Zenon DEF Partial
<1>. HIDE DEF hi, fn, y
<1>8. hi * (2 * fn) = (hi * fn) * 2 /\ hi * fn \in Nat
  BY <1>3, <1>4
<1>. QED
  BY <1>3, <1>5, <1>6, <1>7, <1>8 DEF y

\* The final one completes the code, except that of "minus zero".
LEMMA PartialEnds ==
    ASSUME NEW c \in Nat, NEW sg \in 0 .. 1, NEW m \in Nat, ~(sg = 1 /\ m = 0)
    PROVE  LET x == IF sg = 1 THEN -m ELSE m
           IN  /\ x \in Int /\ Abs(x) = m /\ High(x) = m \div Low /\ Front(x) = sg * Low + (m % Low)
               /\ CoeffBits(x) = (Byte + (m \div Low)) + 1
               /\ Partial(c, sg, m) * 2 + 1 = c * Pow2[CoeffBits(x)] + Code(x)
<1>. DEFINE x == IF sg = 1 THEN -m ELSE m
            y == m \div Low
            hi == Front(x)
            fn == Pow2[y]
            B == Pow2[Byte]
<1>1. x \in Int /\ Abs(x) = m /\ (x < 0 <=> sg = 1)
  BY DEF Abs
<1>. HIDE DEF x
<1>2. Low \in Nat \ {0} /\ Byte \in Nat /\ B \in Nat
  BY ByteFacts
<1>3. y \in Nat /\ m % Low \in Nat
  BY <1>2, NatDivMod, Zenon
<1>4. High(x) = y
  BY <1>1 DEF High
<1>5. hi = sg * Low + (m % Low)
  <2>1. hi = (IF x < 0 THEN Low ELSE 0) + (m % Low)
    BY <1>1 DEF Front
  <2>2. (IF x < 0 THEN Low ELSE 0) = sg * Low
    BY <1>1, <1>2
  <2>. QED  BY <2>1, <2>2
<1>6. /\ CoeffBits(x) = Byte + (y + 1) /\ Pow2[CoeffBits(x)] = Pow2[y + 1] * B
      /\ Code(x) = hi * Pow2[y + 1] + 1 /\ hi \in Nat
  BY <1>1, <1>4, CodeFacts DEF Code
<1>7. fn \in Nat /\ Pow2[y + 1] = 2 * fn
  BY <1>3, Pow2Nat, Pow2Next
<1>8. Partial(c, sg, m) = (c * B + hi) * fn
  BY <1>5 DEF Partial
<1>. HIDE DEF y, hi, fn, B
<1>9. ((c * B + hi) * fn) * 2 + 1 = c * ((2 * fn) * B) + (hi * (2 * fn) + 1)
  BY <1>2, <1>6, <1>7
<1>10. Partial(c, sg, m) * 2 + 1 = c * Pow2[CoeffBits(x)] + Code(x)
  BY <1>6, <1>7, <1>8, <1>9
<1>11. CoeffBits(x) = (Byte + y) + 1
  BY <1>2, <1>3, <1>6
<1>. QED
  BY <1>1, <1>4, <1>5, <1>10, <1>11 DEF x, y, hi

\* If only zeros are left, the bytes are those of the encoder.
LEMMA ReadPadded ==
    ASSUME NEW w, NEW nr, NEW a, NEW al, NEW p \in Seq(Int),
           Read(w, nr, a, al, Num(p)[Len(p)], CodeLength(p)),
           a % Pow2[al] = 0, \A k \in nr + 1 .. Len(w) : w[k] = 0
    PROVE  Encodes(w, Len(w), p)
<1>. DEFINE c == Num(p)[Len(p)]
            e == CodeLength(p)
            n == Len(w)
            fn == Pow2[al]
            gn == Pow2[Byte * (n - nr)]
            v == Val(w)
<1>1. /\ w \in Seq(Bytes) /\ nr \in Nat /\ n \in Nat /\ nr <= n /\ al \in Nat /\ Byte * nr = e + al
      /\ c \in Nat /\ e \in Nat /\ v[nr] = c * fn + 0
  BY DEF Read
<1>2. Byte * (n - nr) \in Nat /\ Byte * (n - nr) = Byte * n - Byte * nr /\ Byte * n \in Nat
  <2>1. Byte \in Nat
    BY ByteFacts
  <2>2. ASSUME NEW x \in Nat, NEW y \in Nat, NEW b \in Nat, x <= y
        PROVE  b * (y - x) \in Nat /\ b * (y - x) = b * y - b * x /\ b * y \in Nat
    BY <2>2
  <2>. QED  BY <1>1, <2>1, <2>2
<1>3. v[n] = v[nr] * gn
  <2>1. w \in Seq(Nat)
    BY <1>1, BytesNat
  <2>. QED  BY <1>1, <2>1, ValPadded
<1>4. fn \in Nat /\ gn \in Nat
  BY <1>1, <1>2, Pow2Nat
<1>5. Byte * n - e = al + Byte * (n - nr) /\ e <= Byte * n
  BY <1>1, <1>2
<1>6. Pow2[Byte * n - e] = fn * gn
  BY <1>1, <1>2, <1>5, Pow2Add
<1>. HIDE DEF c, e, n, fn, gn, v
<1>7. (c * fn + 0) * gn = c * (fn * gn)
  BY <1>1, <1>4
<1>8. v[n] = c * Pow2[Byte * n - e]
  BY <1>1, <1>3, <1>6, <1>7
<1>. QED
  BY <1>1, <1>5, <1>8 DEF Encodes, c, e, n, v

LEMMA EncodesUnique ==
    ASSUME NEW w, NEW u, NEW n, NEW p, Encodes(w, n, p), Encodes(u, n, p)
    PROVE  w = u
BY ValInjective DEF Encodes

-----------------------------------------------------------------------------
(* What the decoder finds in the bytes of the encoder.                     *)

LEMMA DivPow ==
    ASSUME NEW x \in Nat, NEW sg \in Nat, NEW t \in Nat
    PROVE  /\ x \div Pow2[sg + t] = (x \div Pow2[sg]) \div Pow2[t]
           /\ x \div Pow2[sg] \in Nat
<1>1. Pow2[sg] \in Nat \ {0} /\ Pow2[t] \in Nat \ {0} /\ Pow2[sg + t] = Pow2[sg] * Pow2[t] /\ x \in Int
  BY Pow2Nat, Pow2Add
<1>2. x \div (Pow2[sg] * Pow2[t]) = (x \div Pow2[sg]) \div Pow2[t]
  BY <1>1, DivDiv, Zenon
<1>3. x \div Pow2[sg] \in Nat
  BY <1>1, NatDivMod, Zenon
<1>. QED
  BY <1>1, <1>2, <1>3, Zenon

\* The first e of b bits.
Prefix(x, b, e) == x \div Pow2[b - e]

LEMMA PrefixOfPrefix ==
    ASSUME NEW x \in Nat, NEW b \in Nat, NEW d \in Nat, NEW e \in Nat, d <= e, e <= b
    PROVE  Prefix(x, b, d) = Prefix(x, b, e) \div Pow2[e - d] /\ Prefix(x, b, d) \in Nat
<1>1. b - e \in Nat /\ e - d \in Nat /\ b - d \in Nat /\ b - d = (b - e) + (e - d)
  OBVIOUS
<1>. QED
  BY <1>1, DivPow DEF Prefix

LEMMA ValIsPrefix ==
    ASSUME NEW w \in Seq(Bytes)
    PROVE  \A nr \in 0 .. Len(w) :
              /\ Byte * nr \in Nat /\ Byte * nr <= Byte * Len(w)
              /\ Val(w)[nr] = Prefix(Val(w)[Len(w)], Byte * Len(w), Byte * nr)
<1>. DEFINE n == Len(w)
            v == Val(w)
            X == v[n]
            b == Byte * n
            B == Pow2[Byte]
            T == {nr \in 0 .. n : v[nr] = Prefix(X, b, Byte * nr)}
<1>0. n \in Nat /\ Byte \in Nat \ {0} /\ B \in Nat \ {0}
  BY ByteFacts
<1>1. v \in [0 .. n -> Nat] /\ \A k \in 1 .. n : v[k] = v[k - 1] * B + w[k]
  <2>1. w \in Seq(Nat)
    BY BytesNat
  <2>. QED  BY <2>1, ValDef
<1>2. \A k \in 1 .. n : w[k] \in 0 .. B - 1
  <2>1. \A k \in 1 .. n : w[k] \in Bytes
    OBVIOUS
  <2>. QED  BY <2>1, Zenon DEF Bytes
<1>. HIDE DEF n, v
<1>3. ASSUME NEW nr \in 0 .. n PROVE Byte * nr \in Nat /\ Byte * nr <= b /\ b \in Nat
  BY <1>0
<1>4. X \in Nat
  BY <1>0, <1>1
<1>. HIDE DEF b
<1>5. n \in T
  <2>0. Pow2[0] = 1
    BY Pow2Next
  <2>1. b - Byte * n = 0 /\ Pow2[0] = 1 /\ X \div 1 = X
    <3>1. b - Byte * n = 0
      BY <1>0 DEF b
    <3>2. X \div 1 = X
      <4>. HIDE DEF X
      <4>. QED  BY <1>4
    <3>. QED  BY <2>0, <3>1, <3>2
  <2>2. Prefix(X, b, Byte * n) = X
    BY <2>1, Zenon DEF Prefix
  <2>. QED  BY <1>0, <2>2
<1>6. ASSUME NEW nr \in 0 .. n - 1, nr + 1 \in T PROVE nr \in T
  <2>1. nr \in 0 .. n /\ nr + 1 \in 1 .. n /\ nr + 1 \in 0 .. n /\ (nr + 1) - 1 = nr
    BY <1>0
  <2>2. v[nr + 1] = v[nr] * B + w[nr + 1] /\ w[nr + 1] \in 0 .. B - 1 /\ v[nr] \in Int
    BY <1>1, <1>2, <2>1
  <2>3. v[nr + 1] \div B = v[nr]
    <3>. DEFINE y == v[nr]
                r == w[nr + 1]
    <3>1. y \in Int /\ r \in 0 .. B - 1 /\ v[nr + 1] = y * B + r
      BY <2>2
    <3>. HIDE DEF y, r, B
    <3>2. (y * B + r) \div B = y
      BY <1>0, <3>1, ShiftAdd
    <3>. QED  BY <3>1, <3>2 DEF y
  <2>4. Byte * nr \in Nat /\ Byte * (nr + 1) \in Nat /\ Byte * (nr + 1) - Byte * nr = Byte
        /\ Byte * nr <= Byte * (nr + 1) /\ Byte * (nr + 1) <= b /\ b \in Nat
    <3>1. Byte * (nr + 1) = Byte * nr + Byte
      BY <1>0
    <3>2. Byte * nr \in Nat /\ Byte * (nr + 1) <= b /\ b \in Nat
      BY <1>3, <2>1
    <3>. QED  BY <1>0, <3>1, <3>2
  <2>5. Prefix(X, b, Byte * nr) = Prefix(X, b, Byte * (nr + 1)) \div B
    <3>. DEFINE d == Byte * nr
                e == Byte * (nr + 1)
    <3>1. d \in Nat /\ e \in Nat /\ d <= e /\ e <= b /\ e - d = Byte
      BY <2>4
    <3>. HIDE DEF d, e, X
    <3>2. Prefix(X, b, d) = Prefix(X, b, e) \div Pow2[e - d]
      <4>1. b \in Nat
        BY <2>4
      <4>2. \A y, hi, fn, gn \in Nat : fn <= gn /\ gn <= hi =>
                Prefix(y, hi, fn) = Prefix(y, hi, gn) \div Pow2[gn - fn]
        BY PrefixOfPrefix
      <4>. QED  BY <1>4, <4>1, <3>1, <4>2
    <3>. QED  BY <3>1, <3>2, Zenon DEF d, e
  <2>6. v[nr + 1] = Prefix(X, b, Byte * (nr + 1))
    BY <1>6
  <2>. QED  BY <2>1, <2>3, <2>5, <2>6
<1>7. 0 .. n \subseteq T
  <2>. HIDE DEF T
  <2>. QED  BY <1>0, <1>5, <1>6, InductionDown
<1>8. ASSUME NEW nr \in 0 .. n PROVE v[nr] = Prefix(X, b, Byte * nr)
  BY <1>7
<1>. QED
  BY <1>3, <1>8 DEF n, v, b

LEMMA ReadIsPrefix ==
    ASSUME NEW w, NEW nr, NEW a, NEW al, NEW c, NEW e, Read(w, nr, a, al, c, e)
    PROVE  e <= Byte * Len(w) /\ c = Prefix(Val(w)[Len(w)], Byte * Len(w), e)
<1>. DEFINE n == Len(w)
            X == Val(w)[n]
            b == Byte * n
            j == Byte * nr
            d == Pow2[al]
            t == a % d
<1>1. /\ w \in Seq(Bytes) /\ nr \in 0 .. n /\ a \in Nat /\ al \in Nat /\ j = e + al
      /\ c \in Nat /\ e \in Nat /\ Val(w)[nr] = c * d + t
  BY DEF Read
<1>2. j \in Nat /\ j <= b /\ Val(w)[nr] = Prefix(X, b, j)
  BY <1>1, ValIsPrefix
<1>3. d \in Nat \ {0}
  BY <1>1, Pow2Nat
<1>4. t \in 0 .. d - 1
  BY <1>1, <1>3, NatDivMod, Zenon
<1>5. (c * d + t) \div d = c
  <2>. HIDE DEF t, d
  <2>1. c \in Int
    BY <1>1
  <2>. QED  BY <1>3, <1>4, <2>1, ShiftAdd
<1>6. X \in Nat /\ b \in Nat
  <2>1. w \in Seq(Nat)
    BY <1>1, BytesNat
  <2>2. Val(w) \in [0 .. n -> Nat] /\ n \in 0 .. n /\ n \in Nat
    BY <2>1, ValDef
  <2>3. X \in Nat
    BY <2>2
  <2>4. b \in Nat
    BY <2>2, ByteFacts
  <2>. QED  BY <2>3, <2>4
<1>. HIDE DEF X, b, j, n
<1>7. e <= j /\ j - e = al
  BY <1>1, <1>2
<1>8. Prefix(X, b, e) = Prefix(X, b, j) \div Pow2[j - e]
  BY <1>1, <1>2, <1>6, <1>7, PrefixOfPrefix
<1>9. c = Prefix(X, b, e)
  BY <1>1, <1>2, <1>5, <1>7, <1>8
<1>10. e <= b
  BY <1>1, <1>2, <1>6, <1>7
<1>. QED
  BY <1>9, <1>10 DEF X, b, n

LEMMA NumIsPrefix ==
    ASSUME NEW w, NEW n \in Nat, NEW p \in Seq(Int), Encodes(w, n, p)
    PROVE  \A k \in 0 .. Len(p) :
              /\ Ends(p)[k] \in Nat /\ Ends(p)[k] <= Byte * n /\ Num(p)[k] \in Nat
              /\ Num(p)[k] = Prefix(Val(w)[n], Byte * n, Ends(p)[k])
<1>. DEFINE K == Len(p)
            X == Val(w)[n]
            b == Byte * n
            fn == Num(p)
            e == Ends(p)
            T == {k \in 0 .. K : fn[k] = Prefix(X, b, e[k])}
<1>1. /\ K \in Nat /\ fn \in [0 .. K -> Nat]
      /\ \A k \in 1 .. K : fn[k] = fn[k - 1] * Pow2[CoeffBits(p[k])] + Code(p[k])
  BY NumDef
<1>2. e \in [0 .. K -> Nat] /\ \A k \in 1 .. K : e[k] = e[k - 1] + CoeffBits(p[k])
  BY EndsDef
<1>3. e[K] <= b /\ X = fn[K] * Pow2[b - e[K]] /\ b \in Nat
  BY ByteFacts DEF Encodes, CodeLength
<1>4. \A k \in 0 .. K : e[k] <= e[K]
  BY EndsMonotone
<1>5. \A k \in 1 .. K : p[k] \in Int
  OBVIOUS
<1>. HIDE DEF K, b, X, fn, e
<1>6. ASSUME NEW k \in 0 .. K PROVE e[k] \in Nat /\ e[k] <= b /\ fn[k] \in Nat
  <2>1. e[k] \in Nat /\ e[K] \in Nat /\ fn[k] \in Nat
    BY <1>1, <1>2
  <2>. QED  BY <1>3, <1>4, <2>1
<1>7. K \in T /\ X \in Nat
  <2>. DEFINE d == Pow2[b - e[K]]
              y == fn[K]
  <2>1. K \in 0 .. K /\ y \in Nat /\ b - e[K] \in Nat
    BY <1>1, <1>3, <1>6
  <2>2. d \in Nat \ {0}
    BY <2>1, Pow2Nat
  <2>3. X = y * d
    BY <1>3
  <2>4. Prefix(X, b, e[K]) = X \div d
    BY DEF Prefix
  <2>. HIDE DEF d, y
  <2>5. (y * d + 0) \div d = y
    <3>1. y \in Int /\ 0 \in 0 .. d - 1
      BY <2>1, <2>2
    <3>. QED  BY <2>2, <3>1, ShiftAdd
  <2>6. y * d + 0 = y * d /\ y * d \in Nat
    BY <2>1, <2>2
  <2>7. fn[K] = Prefix(X, b, e[K])
    BY <2>3, <2>4, <2>5, <2>6 DEF y
  <2>. QED  BY <2>1, <2>3, <2>6, <2>7
<1>8. ASSUME NEW k \in 0 .. K - 1, k + 1 \in T PROVE k \in T
  <2>. DEFINE x == p[k + 1]
              c == CoeffBits(x)
              d == Pow2[c]
              gn == e[k]
              hi == e[k + 1]
              y == fn[k]
              r == Code(x)
  <2>1. k \in 0 .. K /\ k + 1 \in 1 .. K /\ k + 1 \in 0 .. K /\ (k + 1) - 1 = k
    BY <1>1
  <2>2. x \in Int
    BY <1>5, <2>1
  <2>3. fn[k + 1] = y * d + r /\ hi = gn + c
    BY <1>1, <1>2, <2>1
  <2>4. c \in Nat /\ d \in Nat \ {0} /\ r \in 0 .. d - 1
    <3>. HIDE DEF x
    <3>. QED  BY <2>2, CodeFacts
  <2>5. gn \in Nat /\ hi \in Nat /\ hi <= b /\ y \in Nat /\ b \in Nat
    BY <1>3, <1>6, <2>1
  <2>. HIDE DEF x, c, gn, hi, y, r
  <2>6. gn <= hi /\ hi - gn = c
    BY <2>3, <2>4, <2>5
  <2>7. Prefix(X, b, gn) = Prefix(X, b, hi) \div Pow2[hi - gn]
    <3>1. \A u, v, q, z \in Nat : q <= z /\ z <= v =>
              Prefix(u, v, q) = Prefix(u, v, z) \div Pow2[z - q]
      BY PrefixOfPrefix
    <3>2. X \in Nat
      BY <1>7
    <3>. HIDE DEF X, b, d
    <3>. QED  BY <2>5, <2>6, <3>1, <3>2
  <2>8. (y * d + r) \div d = y
    <3>1. y \in Int
      BY <2>5
    <3>. HIDE DEF d
    <3>. QED  BY <2>4, <3>1, ShiftAdd
  <2>9. fn[k + 1] = Prefix(X, b, hi)
    BY <1>8 DEF hi
  <2>10. y = Prefix(X, b, gn)
    BY <2>3, <2>6, <2>7, <2>8, <2>9
  <2>. QED  BY <2>1, <2>10 DEF y, gn
<1>9. 0 .. K \subseteq T
  <2>. HIDE DEF T
  <2>. QED  BY <1>1, <1>7, <1>8, InductionDown
<1>10. ASSUME NEW k \in 0 .. K PROVE fn[k] = Prefix(X, b, e[k])
  BY <1>9
<1>. QED
  BY <1>6, <1>10 DEF K, b, X, fn, e

\* What has been read after j zeros of the unary part of a coefficient.
LEMMA ReadCode ==
    ASSUME NEW w, NEW n \in Nat, NEW p \in Seq(Int), Encodes(w, n, p),
           NEW nr, NEW a, NEW al, NEW c, NEW e, Read(w, nr, a, al, c, e)
    PROVE  \A k \in 0 .. Len(p) - 1 : \A j \in 0 .. High(p[k + 1]) :
              e = Ends(p)[k] + (Byte + j) =>
                  c = (Num(p)[k] * Pow2[Byte] + Front(p[k + 1])) * Pow2[j]
<1>. DEFINE X == Val(w)[n]
            b == Byte * n
<1>1. Len(w) = n
  BY DEF Encodes
<1>2. e <= b /\ c = Prefix(X, b, e) /\ e \in Nat
  <2>1. e <= Byte * Len(w) /\ c = Prefix(Val(w)[Len(w)], Byte * Len(w), e)
    BY ReadIsPrefix
  <2>2. e \in Nat
    BY DEF Read
  <2>. QED  BY <1>1, <2>1, <2>2, Zenon
<1>3. ASSUME NEW k \in 0 .. Len(p)
      PROVE  Ends(p)[k] \in Nat /\ Ends(p)[k] <= b /\ Num(p)[k] \in Nat
             /\ Num(p)[k] = Prefix(X, b, Ends(p)[k])
  BY NumIsPrefix
<1>4. X \in Nat /\ b \in Nat
  <2>1. w \in Seq(Nat)
    BY BytesNat DEF Encodes
  <2>2. Val(w) \in [0 .. n -> Nat] /\ n \in 0 .. n
    <3>1. Val(w) \in [0 .. Len(w) -> Nat]
      BY <2>1, ValDef
    <3>. QED  BY <1>1, <3>1
  <2>3. X \in Nat
    BY <2>2
  <2>4. b \in Nat
    BY ByteFacts
  <2>. QED  BY <2>3, <2>4
<1>. HIDE DEF X, b
<1>5. ASSUME NEW k \in 0 .. Len(p) - 1, NEW j \in 0 .. High(p[k + 1]),
             e = Ends(p)[k] + (Byte + j)
      PROVE  c = (Num(p)[k] * Pow2[Byte] + Front(p[k + 1])) * Pow2[j]
  <2>. DEFINE x == p[k + 1]
              gn == Ends(p)[k + 1]
              hi == High(x)
              y == Num(p)[k]
              B == Pow2[Byte]
              sg == Front(x)
              d == (hi + 1) - j
              D == Pow2[d]
              J == Pow2[j]
  <2>1. k \in 0 .. Len(p) /\ k + 1 \in 0 .. Len(p) /\ k + 1 \in 1 .. Len(p) /\ (k + 1) - 1 = k
    OBVIOUS
  <2>2. x \in Int
    OBVIOUS
  <2>3. /\ hi \in Nat /\ sg \in Nat /\ B \in Nat \ {0} /\ Byte \in Nat
        /\ CoeffBits(x) = Byte + (hi + 1) /\ Pow2[CoeffBits(x)] = Pow2[hi + 1] * B
        /\ Code(x) = sg * Pow2[hi + 1] + 1
    <3>. HIDE DEF x
    <3>1. /\ hi \in Nat /\ sg \in 0 .. B - 1 /\ CoeffBits(x) = Byte + (hi + 1)
          /\ Pow2[CoeffBits(x)] = Pow2[hi + 1] * B
      BY <2>2, CodeFacts
    <3>. QED  BY <3>1, ByteFacts DEF Code
  <2>4. /\ Num(p)[k + 1] = y * Pow2[CoeffBits(x)] + Code(x)
        /\ gn = Ends(p)[k] + CoeffBits(x)
    <3>1. \A l \in 1 .. Len(p) : Num(p)[l] = Num(p)[l - 1] * Pow2[CoeffBits(p[l])] + Code(p[l])
      BY NumDef
    <3>2. \A l \in 1 .. Len(p) : Ends(p)[l] = Ends(p)[l - 1] + CoeffBits(p[l])
      BY EndsDef
    <3>. QED  BY <2>1, <3>1, <3>2
  <2>5. gn \in Nat /\ gn <= b /\ y \in Nat /\ Num(p)[k + 1] = Prefix(X, b, gn) /\ Ends(p)[k] \in Nat
    BY <1>3, <2>1
  <2>6. j \in Nat /\ j <= hi /\ e = Ends(p)[k] + (Byte + j)
    BY <1>5, <2>3
  <2>. HIDE DEF x, gn, hi, y, sg
  <2>7. d \in Nat /\ d - 1 \in Nat /\ hi + 1 = d + j /\ e <= gn /\ gn - e = d
    <3>. DEFINE z == Ends(p)[k]
    <3>1. z \in Nat /\ gn = z + (Byte + (hi + 1)) /\ e = z + (Byte + j)
      BY <2>3, <2>4, <2>5, <2>6
    <3>2. hi \in Nat /\ Byte \in Nat /\ j \in Nat /\ j <= hi
      BY <2>3, <2>6
    <3>. HIDE DEF z
    <3>3. /\ z + (Byte + j) <= z + (Byte + (hi + 1))
          /\ (z + (Byte + (hi + 1))) - (z + (Byte + j)) = (hi + 1) - j
      BY <3>1, <3>2
    <3>4. e <= gn /\ gn - e = d
      BY <3>1, <3>3, Zenon
    <3>5. d \in Nat /\ d - 1 \in Nat /\ hi + 1 = d + j
      BY <3>2
    <3>. QED  BY <3>4, <3>5
  <2>8. D \in Nat \ {0, 1} /\ J \in Nat /\ Pow2[hi + 1] = D * J
    <3>1. Pow2[(d - 1) + 1] = 2 * Pow2[d - 1] /\ Pow2[d - 1] \in Nat \ {0} /\ (d - 1) + 1 = d
      <4>1. (d - 1) + 1 = d
        BY <2>7
      <4>. HIDE DEF d
      <4>2. Pow2[(d - 1) + 1] = 2 * Pow2[d - 1]
        BY <2>7, Pow2Next, Zenon
      <4>3. Pow2[d - 1] \in Nat \ {0}
        BY <2>7, Pow2Nat, Zenon
      <4>. QED  BY <4>1, <4>2, <4>3
    <3>2. J \in Nat /\ Pow2[d + j] = D * J
      BY <2>6, <2>7, Pow2Nat, Pow2Add
    <3>3. D = 2 * Pow2[d - 1]
      BY <3>1, Zenon
    <3>4. Pow2[hi + 1] = D * J
      BY <2>7, <3>2, Zenon
    <3>5. D \in Nat \ {0, 1}
      <4>. DEFINE q == Pow2[d - 1]
      <4>1. q \in Nat \ {0} /\ D = 2 * q
        BY <3>1, <3>3
      <4>. HIDE DEF D, q
      <4>. QED  BY <4>1
    <3>. QED  BY <3>2, <3>4, <3>5
  <2>9. c = Prefix(X, b, gn) \div D
    <3>1. Prefix(X, b, e) = Prefix(X, b, gn) \div Pow2[gn - e]
      <4>1. \A u, v, fn, z \in Nat : fn <= z /\ z <= v =>
                Prefix(u, v, fn) = Prefix(u, v, z) \div Pow2[z - fn]
        BY PrefixOfPrefix
      <4>. HIDE DEF d
      <4>. QED  BY <1>2, <1>4, <2>5, <2>7, <4>1
    <3>. QED  BY <1>2, <2>7, <3>1
  <2>. HIDE DEF D, J, d, B
  <2>10. y * ((D * J) * B) + (sg * (D * J) + 1) = ((y * B + sg) * J) * D + 1
    BY <2>3, <2>5, <2>8
  <2>11. ((y * B + sg) * J) * D + 1 = Prefix(X, b, gn)
    BY <2>3, <2>4, <2>5, <2>8, <2>10
  <2>12. (((y * B + sg) * J) * D + 1) \div D = (y * B + sg) * J
    <3>. DEFINE z == (y * B + sg) * J
    <3>1. z \in Int /\ 1 \in 0 .. D - 1 /\ D \in Nat \ {0}
      BY <2>3, <2>5, <2>8
    <3>. HIDE DEF z
    <3>2. (z * D + 1) \div D = z
      BY <3>1, ShiftAdd
    <3>. QED  BY <3>2 DEF z
  <2>13. c = (y * B + sg) * J
    BY <2>9, <2>11, <2>12, Zenon
  <2>. QED  BY <2>13 DEF y, B, sg, J, x
<1>. QED
  BY <1>5

-----------------------------------------------------------------------------
(* The invariant of a round trip.                                          *)

\* comp_encode has put k coefficients of p into the bytes w and the accumulator.
Encoding(p, w, a, al, k, n) ==
    /\ p \in Seq(Int) /\ Len(p) = NCoeffs /\ n \in Nat
    /\ k \in 0 .. NCoeffs /\ Len(w) <= n
    /\ \A j \in 1 .. k : p[j] \in InRange
    /\ Pending(w, a, al, p, k)

\* comp_decode has read the coefficients d from the first nr bytes of w.
Between(w, n, d, nr, a, al) ==
    /\ d \in Seq(InRange) /\ Len(d) <= NCoeffs /\ n \in Nat /\ Len(w) = n /\ al < Byte
    /\ Read(w, nr, a, al, Num(d)[Len(d)], CodeLength(d))

\* ... and the sign sg and m of the absolute value of the next one.
Inside(w, n, d, nr, a, al, sg, m) ==
    /\ d \in Seq(InRange) /\ Len(d) < NCoeffs /\ n \in Nat /\ Len(w) = n /\ al < Byte
    /\ sg \in 0 .. 1 /\ m \in 0 .. MaxAbs
    /\ Read(w, nr, a, al, Partial(Num(d)[Len(d)], sg, m), CodeLength(d) + (Byte + (m \div Low)))

\* The bytes w are what comp_encode wrote for p.
Encoded(p, w, n) == p \in Seq(InRange) /\ Len(p) = NCoeffs /\ Encodes(w, n, p)

\* The coefficients read so far are those of p ...
Follows(d, p) == \A k \in 1 .. Len(d) : d[k] = p[k]

\* ... and so is what is known of the next one.
FollowsInside(d, p, sg, m) ==
    LET x == p[Len(d) + 1]
    IN  /\ sg = (IF x < 0 THEN 1 ELSE 0)
        /\ m % Low = Abs(x) % Low /\ m \div Low <= High(x)

Encodable(p, n) ==
    (\A k \in 1 .. NCoeffs : p[k] \in InRange) /\ CodeLength(p) <= Byte * n

\* Encode, then decode.
ThereAndBack ==
    /\ poly \in Polynomials
    /\ phase \in {"coeff", "byte", "unary", "refused", "done"}
    /\ phase = "coeff" => Encoding(poly, src, acc, acc_len, idx, len) /\ out = <<>>
    /\ phase = "byte" =>
          /\ Encoded(poly, src, len)
          /\ Between(src, len, out, idx, acc, acc_len) /\ Follows(out, poly)
    /\ phase = "unary" =>
          /\ Encoded(poly, src, len)
          /\ Inside(src, len, out, idx, acc, acc_len, neg, mag)
          /\ Follows(out, poly) /\ FollowsInside(out, poly, neg, mag)
    /\ phase = "refused" => ~Encodable(poly, len)
    /\ phase = "done" => out = poly /\ Encodable(poly, len)

\* Decode, then encode.
BackAndThere ==
    /\ phase \in {"byte", "unary", "rejected", "coeff", "done"}
    /\ phase = "byte" => Between(src, len, poly, idx, acc, acc_len) /\ out = <<>>
    /\ phase = "unary" => Inside(src, len, poly, idx, acc, acc_len, neg, mag) /\ out = <<>>
    /\ phase = "coeff" =>
          Encoded(poly, src, len) /\ Encoding(poly, out, acc, acc_len, idx, len)
    /\ phase = "done" => out = src

CodecInv ==
    /\ first \in {"encode", "decode"} /\ len \in Lengths
    /\ first = "encode" => ThereAndBack
    /\ first = "decode" => BackAndThere

-----------------------------------------------------------------------------
(* The steps of comp_encode.                                               *)

LEMMA InRangeInt == InRange \subseteq Int /\ \A d \in Seq(InRange) : d \in Seq(Int)
<1>1. InRange \subseteq Int
  BY CodecAssumption DEF InRange
<1>2. ASSUME NEW d \in Seq(InRange) PROVE d \in Seq(Int)
  <2>1. d \in [1 .. Len(d) -> InRange] /\ Len(d) \in Nat
    OBVIOUS
  <2>2. d \in [1 .. Len(d) -> Int]
    BY <1>1, <2>1
  <2>. QED  BY <2>1, <2>2
<1>. QED
  BY <1>1, <1>2

LEMMA MoreBytes ==
    ASSUME NEW L \in Nat, NEW n \in Nat, L > n
    PROVE  Byte * L > Byte * n
<1>. DEFINE d == L - n
<1>1. d \in Nat \ {0} /\ L = n + d /\ Byte \in Nat \ {0}
  BY ByteFacts
<1>. HIDE DEF d
<1>2. Byte * (n + d) = Byte * n + Byte * d /\ Byte * d > 0 /\ Byte * n \in Nat
  BY <1>1
<1>. QED
  BY <1>1, <1>2

LEMMA EncodingStep ==
    ASSUME NEW p, NEW w, NEW a, NEW al, NEW k, NEW n, Encoding(p, w, a, al, k, n), k < NCoeffs,
           p[k + 1] \in InRange,
           NEW b, b = PutCoeff(a, p[k + 1]),
           NEW l, l = al + CoeffBits(p[k + 1]),
           NEW u, u = w \o FullBytes(b, l)
    PROVE  /\ Len(u) <= n => Encoding(p, u, b, l % Byte, k + 1, n)
           /\ ~(Len(u) <= n) => ~Encodable(p, n)
<1>1. /\ p \in Seq(Int) /\ Len(p) = NCoeffs /\ n \in Nat /\ k \in 0 .. NCoeffs
      /\ \A j \in 1 .. k : p[j] \in InRange
      /\ Pending(w, a, al, p, k)
  BY DEF Encoding
<1>2. k \in 0 .. Len(p) - 1 /\ k + 1 \in 0 .. NCoeffs /\ k + 1 \in 0 .. Len(p) /\ NCoeffs \in Nat
  BY <1>1, CodecAssumption
<1>3. Pending(u, b, l % Byte, p, k + 1)
  <2>1. Pending(w \o FullBytes(PutCoeff(a, p[k + 1]), al + CoeffBits(p[k + 1])),
                PutCoeff(a, p[k + 1]), (al + CoeffBits(p[k + 1])) % Byte, p, k + 1)
    BY <1>1, <1>2, EncodeStep
  <2>. QED  BY <2>1, Zenon
<1>4. \A j \in 1 .. k + 1 : p[j] \in InRange
  BY <1>1, <1>2
<1>5. ASSUME Len(u) <= n PROVE Encoding(p, u, b, l % Byte, k + 1, n)
  BY <1>1, <1>2, <1>3, <1>4, <1>5 DEF Encoding
<1>6. ASSUME ~(Len(u) <= n) PROVE ~Encodable(p, n)
  <2>. DEFINE L == Len(u)
              r == l % Byte
              E == Ends(p)[k + 1]
              C == CodeLength(p)
  <2>1. L \in Nat /\ L > n /\ r \in Nat /\ Byte * L + r = E
    <3>1. u \in Seq(Bytes) /\ r \in 0 .. Byte - 1 /\ Byte * L + r = E
      BY <1>3, Zenon DEF Pending
    <3>2. L \in Nat /\ L > n
      BY <1>1, <1>6, <3>1
    <3>. QED  BY <3>1, <3>2, ByteFacts
  <2>2. E <= C /\ E \in Nat /\ C \in Nat
    <3>1. \A j \in 0 .. Len(p) : Ends(p)[j] <= Ends(p)[Len(p)]
      BY <1>1, EndsMonotone
    <3>2. Ends(p) \in [0 .. Len(p) -> Nat] /\ Len(p) \in 0 .. Len(p)
      BY <1>1, EndsDef
    <3>. QED  BY <1>2, <3>1, <3>2 DEF CodeLength
  <2>. HIDE DEF L, r, E, C
  <2>3. Byte * L > Byte * n /\ Byte * L \in Nat /\ Byte * n \in Nat
    BY <1>1, <2>1, MoreBytes, ByteFacts
  <2>4. ~(C <= Byte * n)
    BY <2>1, <2>2, <2>3
  <2>. QED  BY <2>4 DEF C, Encodable
<1>. QED
  BY <1>5, <1>6

LEMMA FlushRefused ==
    ASSUME NEW p, NEW w, NEW a, NEW al, NEW n, Encoding(p, w, a, al, NCoeffs, n),
           NEW u, u = w \o (IF al > 0 THEN <<(a * Pow2[Byte - al]) % Pow2[Byte]>> ELSE <<>>),
           ~(Len(u) <= n)
    PROVE  ~Encodable(p, n)
<1>1. /\ p \in Seq(Int) /\ Len(p) = NCoeffs /\ n \in Nat /\ Len(w) <= n
      /\ w \in Seq(Bytes) /\ al \in 0 .. Byte - 1 /\ Byte * Len(w) + al = CodeLength(p)
  BY DEF Encoding, Pending, CodeLength
<1>2. al > 0 /\ Len(u) = Len(w) + 1
  <2>1. CASE al > 0
    <3>. DEFINE y == (a * Pow2[Byte - al]) % Pow2[Byte]
    <3>1. u = w \o <<y>>
      BY <2>1
    <3>. HIDE DEF y
    <3>2. Len(w \o <<y>>) = Len(w) + 1
      BY <1>1
    <3>. QED  BY <2>1, <3>1, <3>2
  <2>2. CASE ~(al > 0)
    <3>1. u = w \o <<>>
      BY <2>2
    <3>2. Len(w \o <<>>) = Len(w)
      BY <1>1
    <3>. QED  BY <1>1, <3>1, <3>2
  <2>. QED  BY <2>1, <2>2
<1>3. Len(w) = n
  BY <1>1, <1>2
<1>4. Byte * n + al = CodeLength(p) /\ Byte * n \in Nat /\ al \in Nat
  BY <1>1, <1>3, ByteFacts
<1>. QED
  BY <1>2, <1>4 DEF Encodable

-----------------------------------------------------------------------------
(* The steps of comp_decode.                                               *)

LEMMA CodeOfDecoded ==
    ASSUME NEW d \in Seq(InRange)
    PROVE  /\ d \in Seq(Int) /\ Num(d)[Len(d)] \in Nat /\ CodeLength(d) \in Nat
<1>1. d \in Seq(Int)
  BY InRangeInt
<1>2. Num(d) \in [0 .. Len(d) -> Nat] /\ Ends(d) \in [0 .. Len(d) -> Nat] /\ Len(d) \in 0 .. Len(d)
  BY <1>1, NumDef, EndsDef
<1>. QED
  BY <1>1, <1>2 DEF CodeLength

LEMMA BelowLow == \A m \in 0 .. Low - 1 : m \div Low = 0 /\ m % Low = m
<1>. SUFFICES ASSUME NEW m \in 0 .. Low - 1 PROVE m \div Low = 0 /\ m % Low = m
  OBVIOUS
<1>1. Low \in Nat \ {0} /\ m \in Int /\ m = Low * 0 + m /\ 0 \in Int
  BY ByteFacts
<1>. QED
  BY <1>1, DivModUnique, Zenon

\* The sign and the low bits.
LEMMA StartCoefficient ==
    ASSUME NEW w, NEW n, NEW d, NEW nr, NEW a, NEW al, Between(w, n, d, nr, a, al),
           Len(d) < NCoeffs, nr < n,
           NEW b, b = ShiftIn(a, Byte, w[nr + 1]),
           NEW sg, sg = (b \div Pow2[al + Byte - 1]) % 2,
           NEW m, m = (b \div Pow2[al]) % Low
    PROVE  Inside(w, n, d, nr + 1, b, al, sg, m) /\ m \in 0 .. Low - 1
<1>. DEFINE c == Num(d)[Len(d)]
            e == CodeLength(d)
            v == (b \div Pow2[al]) % Pow2[Byte]
<1>1. /\ d \in Seq(InRange) /\ n \in Nat /\ Len(w) = n /\ al < Byte
      /\ Read(w, nr, a, al, c, e)
  BY DEF Between
<1>2. c \in Nat /\ e \in Nat
  BY <1>1, CodeOfDecoded, Zenon
<1>3. al \in Nat /\ nr \in 0 .. n
  BY <1>1 DEF Read
<1>. HIDE DEF c, e, v
<1>4. Read(w, nr + 1, b, al + Byte, c, e)
  <2>1. Read(w, nr + 1, ShiftIn(a, Byte, w[nr + 1]), al + Byte, c, e)
    BY <1>1, ReadByte
  <2>. QED  BY <2>1, Zenon
<1>5. Byte \in Nat /\ b \in Nat
  BY <1>4, ByteFacts DEF Read
<1>6. Read(w, nr + 1, b, al, c * Pow2[Byte] + v, e + Byte)
  BY <1>3, <1>4, <1>5, TakeBits DEF v
<1>7. sg \in 0 .. 1 /\ m \in 0 .. Low - 1 /\ v = sg * Low + m
  BY <1>3, <1>5, SignAndLow, Zenon DEF v
<1>8. m \div Low = 0 /\ m % Low = m
  BY <1>7, BelowLow, Zenon
<1>9. Partial(c, sg, m) = c * Pow2[Byte] + v /\ e + (Byte + (m \div Low)) = e + Byte
  <2>1. Pow2[m \div Low] = 1
    BY <1>8, Pow2Next
  <2>2. Partial(c, sg, m) = (c * Pow2[Byte] + v) * 1
    BY <1>7, <1>8, <2>1, Zenon DEF Partial
  <2>3. c * Pow2[Byte] + v \in Nat
    BY <1>6 DEF Read
  <2>4. (c * Pow2[Byte] + v) * 1 = c * Pow2[Byte] + v
    BY <2>3
  <2>5. e + (Byte + (m \div Low)) = e + Byte
    BY <1>2, <1>5, <1>8
  <2>. QED  BY <2>2, <2>4, <2>5
<1>10. Read(w, nr + 1, b, al, Partial(c, sg, m), e + (Byte + (m \div Low)))
  BY <1>6, <1>9, Zenon
<1>11. m \in 0 .. MaxAbs
  BY <1>7, ByteFacts, CodecAssumption
<1>. QED
  BY <1>1, <1>7, <1>10, <1>11 DEF Inside, c, e

\* The next bit of the unary part, from a new byte if none is pending.
LEMMA NextBit ==
    ASSUME NEW w, NEW n, NEW d, NEW nr, NEW a, NEW al, NEW sg, NEW m,
           Inside(w, n, d, nr, a, al, sg, m), al = 0 => nr < n,
           NEW b, b = (IF al = 0 THEN ShiftIn(a, Byte, w[nr + 1]) ELSE a),
           NEW bl, bl = (IF al = 0 THEN Byte ELSE al) - 1,
           NEW j, j = IF al = 0 THEN nr + 1 ELSE nr
    PROVE  LET t == (b \div Pow2[bl]) % 2
           IN  /\ bl \in Nat /\ bl < Byte /\ t \in 0 .. 1
               /\ Read(w, j, b, bl, Partial(Num(d)[Len(d)], sg, m) * 2 + t,
                       (CodeLength(d) + (Byte + (m \div Low))) + 1)
<1>. DEFINE c == Partial(Num(d)[Len(d)], sg, m)
            e == CodeLength(d) + (Byte + (m \div Low))
            t == (b \div Pow2[bl]) % 2
<1>1. n \in Nat /\ Len(w) = n /\ al < Byte /\ Read(w, nr, a, al, c, e)
  BY DEF Inside
<1>2. al \in Nat /\ nr \in 0 .. n /\ Byte \in Nat \ {0}
  BY <1>1, ByteFacts DEF Read
<1>. HIDE DEF c, e
<1>3. bl \in Nat /\ bl < Byte /\ bl + 1 = (IF al = 0 THEN Byte ELSE al)
  BY <1>1, <1>2
<1>4. Read(w, j, b, bl + 1, c, e)
  <2>1. CASE al = 0
    <3>1. Read(w, nr + 1, ShiftIn(a, Byte, w[nr + 1]), al + Byte, c, e)
      BY <1>1, <2>1, ReadByte
    <3>2. j = nr + 1 /\ b = ShiftIn(a, Byte, w[nr + 1]) /\ bl + 1 = al + Byte
      BY <1>2, <1>3, <2>1
    <3>. QED  BY <3>1, <3>2, Zenon
  <2>2. CASE al # 0
    <3>1. j = nr /\ b = a /\ bl + 1 = al
      BY <1>3, <2>2, Zenon
    <3>. QED  BY <1>1, <3>1, Zenon
  <2>. QED  BY <2>1, <2>2
<1>5. Pow2[1] = 2 /\ Pow2[bl] \in Nat \ {0}
  <2>1. Pow2[0 + 1] = 2 * Pow2[0] /\ Pow2[0] = 1
    BY Pow2Next
  <2>2. Pow2[bl] \in Nat \ {0}
    BY <1>3, Pow2Nat, Zenon
  <2>. QED  BY <2>1, <2>2
<1>6. Read(w, j, b, bl, c * Pow2[1] + ((b \div Pow2[bl]) % Pow2[1]), e + 1)
  BY <1>3, <1>4, TakeBits
<1>7. Read(w, j, b, bl, c * 2 + t, e + 1)
  BY <1>5, <1>6, Zenon
<1>8. t \in 0 .. 1
  <2>. DEFINE y == b \div Pow2[bl]
  <2>1. b \in Nat
    BY <1>4 DEF Read
  <2>2. y \in Nat
    BY <1>5, <2>1, NatDivMod, Zenon
  <2>. HIDE DEF y
  <2>3. y % 2 \in 0 .. 1
    BY <2>2
  <2>. QED  BY <2>3 DEF y
<1>. QED
  BY <1>3, <1>7, <1>8 DEF c, e

\* A zero: the absolute value grows.
LEMMA BitZero ==
    ASSUME NEW w, NEW n, NEW d, NEW nr, NEW a, NEW al, NEW sg, NEW m,
           Inside(w, n, d, nr, a, al, sg, m), m + Low <= MaxAbs,
           NEW b, NEW bl \in Nat, bl < Byte, NEW j,
           Read(w, j, b, bl, Partial(Num(d)[Len(d)], sg, m) * 2 + 0,
                (CodeLength(d) + (Byte + (m \div Low))) + 1)
    PROVE  Inside(w, n, d, j, b, bl, sg, m + Low)
<1>. DEFINE c == Num(d)[Len(d)]
            e == CodeLength(d)
            k == m \div Low
<1>1. /\ d \in Seq(InRange) /\ Len(d) < NCoeffs /\ n \in Nat /\ Len(w) = n
      /\ sg \in 0 .. 1 /\ m \in 0 .. MaxAbs
  BY DEF Inside
<1>2. c \in Nat /\ e \in Nat
  BY <1>1, CodeOfDecoded, Zenon
<1>3. m \in Nat /\ Low \in Nat \ {0} /\ Byte \in Nat /\ MaxAbs \in Nat
  BY <1>1, ByteFacts, CodecAssumption
<1>4. k \in Nat
  BY <1>3, NatDivMod, Zenon
<1>. HIDE DEF c, e, k
<1>5. Partial(c, sg, m) \in Nat /\ Partial(c, sg, m + Low) = Partial(c, sg, m) * 2 /\ (m + Low) \div Low = k + 1
  BY <1>1, <1>2, <1>3, PartialFacts DEF k
<1>6. Partial(c, sg, m) * 2 + 0 = Partial(c, sg, m + Low)
  BY <1>5
<1>7. (e + (Byte + k)) + 1 = e + (Byte + ((m + Low) \div Low))
  <2>1. (e + (Byte + k)) + 1 = e + (Byte + (k + 1))
    BY <1>2, <1>3, <1>4
  <2>. QED  BY <1>5, <2>1, Zenon
<1>8. Read(w, j, b, bl, Partial(c, sg, m) * 2 + 0, (e + (Byte + k)) + 1)
  BY DEF c, e, k
<1>9. Read(w, j, b, bl, Partial(c, sg, m + Low), e + (Byte + ((m + Low) \div Low)))
  BY <1>6, <1>7, <1>8, Zenon
<1>10. m + Low \in 0 .. MaxAbs
  BY <1>3
<1>. QED
  BY <1>1, <1>9, <1>10 DEF Inside, c, e

\* A one: the coefficient is complete.
LEMMA BitOne ==
    ASSUME NEW w, NEW n, NEW d, NEW nr, NEW a, NEW al, NEW sg, NEW m,
           Inside(w, n, d, nr, a, al, sg, m), ~(sg = 1 /\ m = 0),
           NEW b, NEW bl \in Nat, bl < Byte, NEW j,
           Read(w, j, b, bl, Partial(Num(d)[Len(d)], sg, m) * 2 + 1,
                (CodeLength(d) + (Byte + (m \div Low))) + 1)
    PROVE  Between(w, n, Append(d, IF sg = 1 THEN -m ELSE m), j, b, bl)
<1>. DEFINE c == Num(d)[Len(d)]
            e == CodeLength(d)
            k == m \div Low
            x == IF sg = 1 THEN -m ELSE m
            z == Append(d, x)
<1>1. /\ d \in Seq(InRange) /\ Len(d) < NCoeffs /\ n \in Nat /\ Len(w) = n
      /\ sg \in 0 .. 1 /\ m \in 0 .. MaxAbs
  BY DEF Inside
<1>2. c \in Nat /\ e \in Nat /\ d \in Seq(Int)
  BY <1>1, CodeOfDecoded, Zenon
<1>3. m \in Nat /\ Low \in Nat \ {0} /\ Byte \in Nat /\ MaxAbs \in Nat
  BY <1>1, ByteFacts, CodecAssumption
<1>4. k \in Nat
  BY <1>3, NatDivMod, Zenon
<1>5. x \in InRange /\ x \in Int
  BY <1>1, <1>3 DEF InRange
<1>6. CoeffBits(x) = (Byte + k) + 1 /\ Partial(c, sg, m) * 2 + 1 = c * Pow2[CoeffBits(x)] + Code(x)
  <2>. HIDE DEF c
  <2>. QED  BY <1>1, <1>2, <1>3, PartialEnds, Zenon
<1>. HIDE DEF x
<1>7. z \in Seq(InRange) /\ Len(z) = Len(d) + 1 /\ Len(z) <= NCoeffs
  BY <1>1, <1>5, CodecAssumption
<1>8. /\ Num(z)[Len(d) + 1] = c * Pow2[CoeffBits(x)] + Code(x)
      /\ Ends(z)[Len(d) + 1] = Ends(d)[Len(d)] + CoeffBits(x)
  BY <1>2, <1>5, CodeAppend
<1>9. Num(z)[Len(z)] = Partial(c, sg, m) * 2 + 1
  BY <1>6, <1>7, <1>8, Zenon
<1>10. CodeLength(z) = (e + (Byte + k)) + 1
  <2>1. CodeLength(z) = e + ((Byte + k) + 1)
    BY <1>6, <1>7, <1>8, Zenon DEF CodeLength
  <2>. HIDE DEF e, k
  <2>. QED  BY <1>2, <1>3, <1>4, <2>1
<1>11. Read(w, j, b, bl, Num(z)[Len(z)], CodeLength(z))
  BY <1>9, <1>10, Zenon
<1>12. Between(w, n, z, j, b, bl)
  <2>. HIDE DEF z
  <2>. QED  BY <1>1, <1>7, <1>11 DEF Between
<1>. QED
  BY <1>12 DEF x

-----------------------------------------------------------------------------
(* The steps of comp_decode on what comp_encode has written.               *)

\* The code read so far is a part of the code of p.
LEMMA FollowsCode ==
    ASSUME NEW p, NEW w, NEW n \in Nat, NEW d, Encoded(p, w, n), d \in Seq(InRange),
           Len(d) <= NCoeffs, Follows(d, p)
    PROVE  /\ p \in Seq(Int) /\ Len(d) \in 0 .. Len(p)
           /\ Num(d)[Len(d)] = Num(p)[Len(d)] /\ CodeLength(d) = Ends(p)[Len(d)]
<1>1. p \in Seq(InRange) /\ Len(p) = NCoeffs
  BY DEF Encoded
<1>2. p \in Seq(Int) /\ d \in Seq(Int)
  BY <1>1, InRangeInt
<1>3. Len(d) <= Len(p) /\ Len(d) \in 0 .. Len(p) /\ Len(d) \in 0 .. Len(d)
  BY <1>1, <1>2
<1>4. \A k \in 1 .. Len(d) : d[k] = p[k]
  BY DEF Follows
<1>5. \A k \in 0 .. Len(d) : Num(d)[k] = Num(p)[k] /\ Ends(d)[k] = Ends(p)[k]
  BY <1>2, <1>3, <1>4, CodePrefix
<1>. QED
  BY <1>2, <1>3, <1>5 DEF CodeLength

\* ... and the next coefficient of p is within its bytes.
LEMMA FollowsNext ==
    ASSUME NEW p, NEW w, NEW n \in Nat, NEW d, Encoded(p, w, n), d \in Seq(InRange),
           Len(d) < NCoeffs, Follows(d, p)
    PROVE  LET x == p[Len(d) + 1]
           IN  /\ x \in InRange /\ x \in Int /\ High(x) \in Nat
               /\ Len(d) \in 0 .. Len(p) - 1 /\ Len(d) + 1 \in 0 .. Len(p)
               /\ Ends(p)[Len(d) + 1] = CodeLength(d) + (Byte + (High(x) + 1))
               /\ CodeLength(d) + (Byte + (High(x) + 1)) <= Byte * n
               /\ Num(p)[Len(d) + 1] = Num(d)[Len(d)] * Pow2[CoeffBits(x)] + Code(x)
<1>. DEFINE x == p[Len(d) + 1]
            K == Len(d)
<1>1. /\ p \in Seq(Int) /\ Num(d)[K] = Num(p)[K] /\ CodeLength(d) = Ends(p)[K]
  BY FollowsCode, CodecAssumption
<1>2. p \in Seq(InRange) /\ Len(p) = NCoeffs /\ Encodes(w, n, p) /\ K \in Nat
  BY DEF Encoded
<1>3. K \in 0 .. Len(p) - 1 /\ K + 1 \in 0 .. Len(p) /\ K + 1 \in 1 .. Len(p) /\ (K + 1) - 1 = K
  BY <1>2, CodecAssumption
<1>4. x \in InRange /\ x \in Int
  BY <1>1, <1>2, <1>3
<1>. HIDE DEF x, K
<1>5. High(x) \in Nat /\ CoeffBits(x) = Byte + (High(x) + 1)
  BY <1>4, CodeFacts
<1>6. /\ Num(p)[K + 1] = Num(p)[K] * Pow2[CoeffBits(x)] + Code(x)
      /\ Ends(p)[K + 1] = Ends(p)[K] + CoeffBits(x)
  <2>1. \A l \in 1 .. Len(p) : Num(p)[l] = Num(p)[l - 1] * Pow2[CoeffBits(p[l])] + Code(p[l])
    BY <1>1, NumDef
  <2>2. \A l \in 1 .. Len(p) : Ends(p)[l] = Ends(p)[l - 1] + CoeffBits(p[l])
    BY <1>1, EndsDef
  <2>. QED  BY <1>3, <2>1, <2>2 DEF x, K
<1>7. Ends(p)[K + 1] <= Byte * n
  BY <1>1, <1>2, <1>3, NumIsPrefix
<1>. QED
  BY <1>1, <1>3, <1>4, <1>5, <1>6, <1>7 DEF x, K

LEMMA StartFollows ==
    ASSUME NEW p, NEW w, NEW n, NEW d, NEW nr, NEW a, NEW al, Between(w, n, d, nr, a, al),
           Encoded(p, w, n), Follows(d, p), Len(d) < NCoeffs
    PROVE  /\ nr < n
           /\ \A b, sg, m : Inside(w, n, d, nr + 1, b, al, sg, m) /\ m \in 0 .. Low - 1
                             => FollowsInside(d, p, sg, m)
<1>. DEFINE x == p[Len(d) + 1]
            hi == High(x)
            e == CodeLength(d)
            c == Num(d)[Len(d)]
<1>1. d \in Seq(InRange) /\ n \in Nat /\ Len(w) = n /\ al < Byte /\ Read(w, nr, a, al, c, e)
  BY DEF Between
<1>2. /\ x \in InRange /\ x \in Int /\ hi \in Nat
      /\ Len(d) \in 0 .. Len(p) - 1
      /\ e + (Byte + (hi + 1)) <= Byte * n
  BY <1>1, FollowsNext
<1>3. c \in Nat /\ e \in Nat
  BY <1>1, CodeOfDecoded, Zenon
<1>4. nr \in 0 .. n /\ al \in Nat /\ Byte * nr = e + al /\ Byte \in Nat
  BY <1>1, ByteFacts DEF Read
<1>5. p \in Seq(Int) /\ c = Num(p)[Len(d)] /\ e = Ends(p)[Len(d)]
  BY <1>1, FollowsCode, CodecAssumption
<1>. HIDE DEF x, hi, e, c
<1>6. nr < n
  <2>. SUFFICES ASSUME nr = n PROVE FALSE
    BY <1>1, <1>4
  <2>1. e + al = Byte * n
    BY <1>4
  <2>. QED  BY <1>1, <1>2, <1>3, <1>4, <2>1
<1>7. ASSUME NEW b, NEW sg, NEW m, Inside(w, n, d, nr + 1, b, al, sg, m), m \in 0 .. Low - 1
      PROVE  FollowsInside(d, p, sg, m)
  <2>1. /\ sg \in 0 .. 1 /\ m \in 0 .. MaxAbs
        /\ Read(w, nr + 1, b, al, Partial(c, sg, m), e + (Byte + (m \div Low)))
    BY <1>7 DEF Inside, c, e
  <2>2. m \div Low = 0 /\ m % Low = m
    BY <1>7, BelowLow, Zenon
  <2>3. Partial(c, sg, m) = (c * Pow2[Byte] + Front(x)) * Pow2[0]
    <3>1. Encodes(w, n, p)
      BY DEF Encoded
    <3>2. Read(w, nr + 1, b, al, Partial(c, sg, m), e + (Byte + 0))
      BY <2>1, <2>2, Zenon
    <3>. DEFINE P == Partial(c, sg, m)
                E == e + (Byte + 0)
    <3>3. Read(w, nr + 1, b, al, P, E) /\ E = Ends(p)[Len(d)] + (Byte + 0)
      BY <1>5, <3>2, Zenon
    <3>4. 0 \in 0 .. High(p[Len(d) + 1])
      BY <1>2 DEF hi, x
    <3>. HIDE DEF P, E
    <3>5. \A k \in 0 .. Len(p) - 1 : \A j \in 0 .. High(p[k + 1]) :
             E = Ends(p)[k] + (Byte + j) =>
                 P = (Num(p)[k] * Pow2[Byte] + Front(p[k + 1])) * Pow2[j]
      BY <1>1, <1>5, <3>1, <3>3, ReadCode
    <3>6. P = (Num(p)[Len(d)] * Pow2[Byte] + Front(p[Len(d) + 1])) * Pow2[0]
      BY <1>2, <3>3, <3>4, <3>5, Zenon
    <3>. QED  BY <1>5, <3>6, Zenon DEF P, x
  <2>4. Partial(c, sg, m) = (c * Pow2[Byte] + (sg * Low + m)) * Pow2[0]
    BY <2>2, Zenon DEF Partial
  <2>5. Front(x) \in Nat /\ Abs(x) % Low \in 0 .. Low - 1
    <3>. DEFINE r == Abs(x) % Low
    <3>1. r \in 0 .. Low - 1
      BY <1>2, AbsFacts
    <3>2. Front(x) = (IF x < 0 THEN Low ELSE 0) + r
      BY DEF Front
    <3>. HIDE DEF r
    <3>3. Front(x) \in Nat
      BY <3>1, <3>2, ByteFacts
    <3>. QED  BY <3>1, <3>3 DEF r
  <2>6. sg * Low + m = Front(x)
    <3>. DEFINE y == c * Pow2[Byte]
                u == sg * Low + m
                v == Front(x)
    <3>1. y \in Nat /\ u \in Nat /\ v \in Nat
      BY <1>3, <1>7, <2>1, <2>5, ByteFacts
    <3>2. (y + u) * 1 = (y + v) * 1
      BY <2>3, <2>4, Pow2Next, Zenon
    <3>. HIDE DEF y, u, v
    <3>3. u = v
      BY <3>1, <3>2
    <3>. QED  BY <3>3 DEF u, v
  <2>7. sg = (IF x < 0 THEN 1 ELSE 0) /\ m = Abs(x) % Low
    <3>. DEFINE r == Abs(x) % Low
    <3>1. sg * Low + m = (IF x < 0 THEN Low ELSE 0) + r
      BY <2>6 DEF Front
    <3>2. sg = 0 \/ sg = 1
      BY <2>1
    <3>3. r \in 0 .. Low - 1
      BY <2>5
    <3>. HIDE DEF r
    <3>4. sg = (IF x < 0 THEN 1 ELSE 0) /\ m = r
      BY <1>7, <3>1, <3>2, <3>3, ByteFacts
    <3>. QED  BY <3>4 DEF r
  <2>. QED
    BY <1>2, <2>2, <2>7 DEF FollowsInside, x, hi
<1>. QED
  BY <1>6, <1>7

LEMMA BitFollows ==
    ASSUME NEW p, NEW w, NEW n, NEW d, NEW nr, NEW a, NEW al, NEW sg, NEW m,
           Inside(w, n, d, nr, a, al, sg, m), Encoded(p, w, n), Follows(d, p),
           FollowsInside(d, p, sg, m)
    PROVE  LET x == p[Len(d) + 1]
           IN  /\ al = 0 => nr < n
               /\ \A j, b, bl, t : 
                     /\ t \in 0 .. 1
                     /\ Read(w, j, b, bl, Partial(Num(d)[Len(d)], sg, m) * 2 + t,
                             (CodeLength(d) + (Byte + (m \div Low))) + 1)
                     => t = (IF m \div Low < High(x) THEN 0 ELSE 1)
<1>. DEFINE x == p[Len(d) + 1]
            hi == High(x)
            e == CodeLength(d)
            c == Num(d)[Len(d)]
            k == m \div Low
            P == Partial(c, sg, m)
<1>1. /\ d \in Seq(InRange) /\ Len(d) < NCoeffs /\ n \in Nat /\ Len(w) = n
      /\ sg \in 0 .. 1 /\ m \in 0 .. MaxAbs /\ Read(w, nr, a, al, P, e + (Byte + k))
  BY DEF Inside
<1>2. /\ x \in InRange /\ x \in Int /\ hi \in Nat
      /\ Len(d) \in 0 .. Len(p) - 1 /\ Len(d) + 1 \in 0 .. Len(p)
      /\ Ends(p)[Len(d) + 1] = e + (Byte + (hi + 1))
      /\ e + (Byte + (hi + 1)) <= Byte * n
      /\ Num(p)[Len(d) + 1] = c * Pow2[CoeffBits(x)] + Code(x)
  BY <1>1, FollowsNext
<1>3. c \in Nat /\ e \in Nat
  BY <1>1, CodeOfDecoded, Zenon
<1>4. p \in Seq(Int) /\ c = Num(p)[Len(d)] /\ e = Ends(p)[Len(d)]
  BY <1>1, FollowsCode, CodecAssumption
<1>5. Byte \in Nat /\ m \in Nat /\ k \in Nat
  <2>1. m \in Nat /\ Low \in Nat \ {0} /\ Byte \in Nat
    BY <1>1, ByteFacts, CodecAssumption
  <2>2. k \in Nat
    BY <2>1, NatDivMod, Zenon
  <2>. QED  BY <2>1, <2>2
<1>6. sg = (IF x < 0 THEN 1 ELSE 0) /\ m % Low = Abs(x) % Low /\ k <= hi
  BY DEF FollowsInside
<1>7. P = (c * Pow2[Byte] + Front(x)) * Pow2[k]
  <2>1. sg * Low = (IF x < 0 THEN Low ELSE 0)
    BY <1>6, ByteFacts
  <2>2. sg * Low + (m % Low) = Front(x)
    BY <1>6, <2>1, Zenon DEF Front
  <2>. QED  BY <2>2, Zenon DEF Partial
<1>8. Encodes(w, n, p)
  BY DEF Encoded
<1>. DEFINE fn == Front(x)
            B == Pow2[Byte]
            J == Pow2[k]
<1>9. fn \in Nat /\ B \in Nat /\ J \in Nat
  <2>1. fn \in 0 .. Pow2[Byte] - 1
    <3>. HIDE DEF x
    <3>. QED  BY <1>2, CodeFacts
  <2>2. B \in Nat
    BY ByteFacts
  <2>3. J \in Nat
    BY <1>5, Pow2Nat, Zenon
  <2>. QED  BY <2>1, <2>2, <2>3
<1>10. P = (c * B + fn) * J
  BY <1>7
<1>11. al = 0 => nr < n
  <2>. SUFFICES ASSUME al = 0, nr = n PROVE FALSE
    BY <1>1 DEF Read
  <2>1. Byte * n = (e + (Byte + k)) + 0
    BY <1>1 DEF Read
  <2>. HIDE DEF e, k, hi, x
  <2>. QED  BY <1>1, <1>2, <1>3, <1>5, <1>6, <2>1
<1>12. ASSUME NEW j, NEW b, NEW bl, NEW t \in 0 .. 1, Read(w, j, b, bl, P * 2 + t, (e + (Byte + k)) + 1)
       PROVE  t = IF k < hi THEN 0 ELSE 1
  <2>. DEFINE R == P * 2 + t
              E == (e + (Byte + k)) + 1
  <2>1. Read(w, j, b, bl, R, E)
    BY <1>12
  <2>. HIDE DEF R, E
  <2>2. \A v \in 0 .. Len(p) : E = Ends(p)[v] => R = Num(p)[v]
    <3>1. ASSUME NEW v \in 0 .. Len(p), E = Ends(p)[v] PROVE R = Num(p)[v]
      <4>1. R = Prefix(Val(w)[Len(w)], Byte * Len(w), E)
        BY <2>1, ReadIsPrefix
      <4>2. Num(p)[v] = Prefix(Val(w)[n], Byte * n, Ends(p)[v])
        BY <1>1, <1>4, <1>8, NumIsPrefix
      <4>. QED  BY <1>1, <3>1, <4>1, <4>2, Zenon
    <3>. QED  BY <3>1
  <2>3. \A v \in 0 .. Len(p) - 1 : \A u \in 0 .. High(p[v + 1]) :
           E = Ends(p)[v] + (Byte + u) =>
               R = (Num(p)[v] * Pow2[Byte] + Front(p[v + 1])) * Pow2[u]
    BY <1>1, <1>4, <1>8, <2>1, ReadCode
  <2>4. CASE k < hi
    <3>1. k + 1 \in 0 .. hi
      <4>. HIDE DEF k, hi
      <4>. QED  BY <1>2, <1>5, <2>4
    <3>2. E = e + (Byte + (k + 1))
      <4>. HIDE DEF e, k
      <4>. QED  BY <1>3, <1>5 DEF E
    <3>3. E = Ends(p)[Len(d)] + (Byte + (k + 1))
      BY <1>4, <3>2, Zenon
    <3>4. R = (Num(p)[Len(d)] * Pow2[Byte] + Front(p[Len(d) + 1])) * Pow2[k + 1]
      <4>. HIDE DEF k
      <4>. QED  BY <1>2, <2>3, <3>1, <3>3, Zenon DEF hi, x
    <3>5. Pow2[k + 1] = 2 * J
      BY <1>5, Pow2Next, Zenon
    <3>6. R = (c * B + fn) * (2 * J)
      BY <1>4, <3>4, <3>5, Zenon
    <3>. HIDE DEF c, B, fn, J, P, k, hi
    <3>7. (c * B + fn) * (2 * J) = ((c * B + fn) * J) * 2 /\ (c * B + fn) * J \in Nat
      BY <1>3, <1>9
    <3>8. t = 0
      BY <1>10, <3>6, <3>7 DEF R
    <3>. QED  BY <2>4, <3>8
  <2>5. CASE k = hi
    <3>1. E = e + (Byte + (hi + 1))
      <4>. HIDE DEF e, k, hi
      <4>. QED  BY <1>3, <1>5, <2>5 DEF E
    <3>2. R = c * Pow2[CoeffBits(x)] + Code(x)
      BY <1>2, <2>2, <3>1, Zenon
    <3>3. Pow2[CoeffBits(x)] = Pow2[hi + 1] * B
      <4>. HIDE DEF x
      <4>. QED  BY <1>2, CodeFacts
    <3>4. Pow2[hi + 1] = 2 * Pow2[hi]
      BY <1>2, Pow2Next, Zenon
    <3>5. R = c * ((2 * J) * B) + (fn * (2 * J) + 1)
      <4>1. Pow2[hi + 1] = 2 * J
        BY <2>5, <3>4, Zenon
      <4>2. Code(x) = fn * (2 * J) + 1
        BY <4>1, Zenon DEF Code
      <4>. QED  BY <3>2, <3>3, <4>1, <4>2, Zenon
    <3>. HIDE DEF c, B, fn, J, P, k, hi
    <3>6. c * ((2 * J) * B) + (fn * (2 * J) + 1) = ((c * B + fn) * J) * 2 + 1 /\ (c * B + fn) * J \in Nat
      BY <1>3, <1>9
    <3>7. t = 1
      BY <1>10, <3>5, <3>6 DEF R
    <3>. QED  BY <1>2, <2>5, <3>7
  <2>6. k < hi \/ k = hi
    <3>. HIDE DEF k, hi
    <3>. QED  BY <1>2, <1>5, <1>6
  <2>. QED  BY <2>4, <2>5, <2>6
<1>. HIDE DEF P, e, k, hi
<1>13. \A j, b, bl, t : t \in 0 .. 1 /\ Read(w, j, b, bl, P * 2 + t, (e + (Byte + k)) + 1)
                          => t = IF k < hi THEN 0 ELSE 1
  BY <1>12
<1>. QED
  BY <1>11, <1>13 DEF P, e, k, hi

\* The decoder reads on while the encoder wrote zeros, within the range.
LEMMA ZeroFollows ==
    ASSUME NEW p, NEW w, NEW n, NEW d, NEW nr, NEW a, NEW al, NEW sg, NEW m,
           Inside(w, n, d, nr, a, al, sg, m), Encoded(p, w, n), Follows(d, p),
           FollowsInside(d, p, sg, m), m \div Low < High(p[Len(d) + 1])
    PROVE  m + Low <= MaxAbs /\ FollowsInside(d, p, sg, m + Low)
<1>. DEFINE x == p[Len(d) + 1]
            hi == High(x)
            k == m \div Low
            r == m % Low
<1>1. d \in Seq(InRange) /\ Len(d) < NCoeffs /\ n \in Nat /\ sg \in 0 .. 1 /\ m \in 0 .. MaxAbs
  BY DEF Inside
<1>2. x \in InRange /\ x \in Int /\ hi \in Nat
  BY <1>1, FollowsNext
<1>3. sg = (IF x < 0 THEN 1 ELSE 0) /\ r = Abs(x) % Low /\ k < hi
  BY DEF FollowsInside
<1>4. m \in Nat /\ Low \in Nat \ {0}
  BY <1>1, ByteFacts, CodecAssumption
<1>5. k \in Nat /\ r \in Nat /\ m = Low * k + r
  BY <1>4, NatDivMod, DivMod
<1>6. (m + Low) \div Low = k + 1 /\ (m + Low) % Low = r
  BY <1>1, <1>4, PartialFacts
<1>7. Abs(x) \in Nat /\ Abs(x) = Low * hi + r /\ Abs(x) <= MaxAbs
  <2>1. Abs(x) \in Nat /\ Abs(x) = Low * hi + (Abs(x) % Low)
    <3>. HIDE DEF x
    <3>. QED  BY <1>2, AbsFacts
  <2>2. Abs(x) <= MaxAbs
    <3>. HIDE DEF x
    <3>. QED  BY <1>2, CodecAssumption DEF Abs, InRange
  <2>. QED  BY <1>3, <2>1, <2>2
<1>8. m + Low <= MaxAbs
  <2>. DEFINE y == Abs(x)
  <2>1. y \in Nat /\ y = Low * hi + r /\ y <= MaxAbs /\ MaxAbs \in Nat
    BY <1>7, CodecAssumption
  <2>. HIDE DEF y, hi, k, r
  <2>. DEFINE z == hi - (k + 1)
  <2>2. z \in Nat /\ hi = (k + 1) + z
    BY <1>2, <1>3, <1>5
  <2>. HIDE DEF z
  <2>3. Low * ((k + 1) + z) = (Low * k + Low) + Low * z /\ Low * z \in Nat /\ Low * k \in Nat
    BY <1>4, <1>5, <2>2
  <2>. QED  BY <1>4, <1>5, <2>1, <2>2, <2>3
<1>9. k + 1 <= hi
  <2>. HIDE DEF k, hi
  <2>. QED  BY <1>2, <1>3, <1>5
<1>. QED
  BY <1>3, <1>6, <1>8, <1>9 DEF FollowsInside

\* The one at the end completes the coefficient of the encoder.
LEMMA OneFollows ==
    ASSUME NEW p, NEW w, NEW n, NEW d, NEW nr, NEW a, NEW al, NEW sg, NEW m,
           Inside(w, n, d, nr, a, al, sg, m), Encoded(p, w, n), Follows(d, p),
           FollowsInside(d, p, sg, m), ~(m \div Low < High(p[Len(d) + 1]))
    PROVE  ~(sg = 1 /\ m = 0) /\ Follows(Append(d, IF sg = 1 THEN -m ELSE m), p)
<1>. DEFINE x == p[Len(d) + 1]
            hi == High(x)
            k == m \div Low
            r == m % Low
            z == IF sg = 1 THEN -m ELSE m
<1>1. d \in Seq(InRange) /\ Len(d) < NCoeffs /\ n \in Nat /\ sg \in 0 .. 1 /\ m \in 0 .. MaxAbs
  BY DEF Inside
<1>2. x \in InRange /\ x \in Int /\ hi \in Nat
  BY <1>1, FollowsNext
<1>3. sg = (IF x < 0 THEN 1 ELSE 0) /\ r = Abs(x) % Low /\ k <= hi /\ ~(k < hi)
  BY DEF FollowsInside
<1>4. m \in Nat /\ Low \in Nat \ {0}
  BY <1>1, ByteFacts, CodecAssumption
<1>5. k \in Nat /\ r \in Nat /\ m = Low * k + r
  BY <1>4, NatDivMod, DivMod
<1>6. Abs(x) = Low * hi + (Abs(x) % Low)
  <2>. HIDE DEF x
  <2>. QED  BY <1>2, AbsFacts
<1>7. k = hi
  <2>. HIDE DEF k, hi
  <2>. QED  BY <1>2, <1>3, <1>5
<1>8. m = Abs(x)
  BY <1>3, <1>5, <1>6, <1>7, Zenon
<1>9. z = x /\ ~(sg = 1 /\ m = 0)
  <2>1. sg = (IF x < 0 THEN 1 ELSE 0)
    BY <1>3
  <2>. HIDE DEF x
  <2>. QED  BY <1>2, <1>8, <2>1 DEF Abs
<1>. HIDE DEF z
<1>10. \A j \in 1 .. Len(d) : d[j] = p[j]
  BY DEF Follows
<1>11. ASSUME NEW j \in 1 .. Len(Append(d, z)) PROVE Append(d, z)[j] = p[j]
  <2>1. j \in 1 .. Len(d) + 1
    BY <1>1
  <2>2. CASE j \in 1 .. Len(d)
    <3>1. Append(d, z)[j] = d[j]
      BY <1>1, <2>2
    <3>. QED  BY <1>10, <2>2, <3>1
  <2>3. CASE j = Len(d) + 1
    <3>1. Append(d, z)[Len(d) + 1] = z
      BY <1>1
    <3>. QED  BY <1>9, <2>3, <3>1
  <2>. QED  BY <1>1, <2>1, <2>2, <2>3
<1>12. Follows(Append(d, z), p)
  BY <1>11 DEF Follows
<1>. QED
  BY <1>9, <1>12 DEF z

\* After the last coefficient only zeros are left.
LEMMA PaddingFollows ==
    ASSUME NEW p, NEW w, NEW n, NEW d, NEW nr, NEW a, NEW al, Between(w, n, d, nr, a, al),
           Encoded(p, w, n), Follows(d, p), Len(d) = NCoeffs
    PROVE  /\ d = p /\ a % Pow2[al] = 0
           /\ \A k \in nr + 1 .. n : w[k] = 0
<1>. DEFINE c == Num(p)[Len(p)]
            e == CodeLength(p)
            X == Val(w)[n]
            v == Val(w)[nr]
            t == Byte * (n - nr)
            D == Pow2[t]
            A == Pow2[al]
            q == a % Pow2[al]
<1>1. d \in Seq(InRange) /\ n \in Nat /\ Len(w) = n
  BY DEF Between
<1>2. p \in Seq(InRange) /\ Len(p) = NCoeffs /\ Encodes(w, n, p)
  BY DEF Encoded
<1>3. d = p
  <2>1. \A k \in 1 .. Len(d) : d[k] = p[k]
    BY DEF Follows
  <2>. QED  BY <1>1, <1>2, <2>1
<1>4. Read(w, nr, a, al, c, e)
  BY <1>3 DEF Between
<1>5. /\ w \in Seq(Bytes) /\ nr \in 0 .. n /\ a \in Nat /\ al \in Nat /\ c \in Nat /\ e \in Nat
      /\ Byte * nr = e + al /\ v = c * A + q
  BY <1>1, <1>4 DEF Read
<1>6. A \in Nat \ {0} /\ t \in Nat /\ n - nr \in Nat /\ Byte \in Nat
  <2>1. n - nr \in Nat /\ Byte \in Nat
    BY <1>1, <1>5, ByteFacts
  <2>2. A \in Nat \ {0}
    BY <1>5, Pow2Nat, Zenon
  <2>. QED  BY <2>1, <2>2
<1>7. D \in Nat \ {0} /\ q \in Nat
  BY <1>5, <1>6, Pow2Nat, NatDivMod, Zenon
<1>8. Byte * n - Byte * nr = t /\ Byte * n - e = al + t /\ Byte * n \in Nat
  <2>. DEFINE j == n - nr
  <2>1. j \in Nat /\ n = nr + j /\ nr \in Nat
    BY <1>1, <1>5, <1>6
  <2>2. Byte * nr \in Nat
    BY <1>6, <2>1
  <2>. HIDE DEF j
  <2>3. Byte * (nr + j) = Byte * nr + Byte * j /\ Byte * j \in Nat
    BY <1>6, <2>1
  <2>4. Byte * n = Byte * nr + t
    BY <2>1, <2>3 DEF j
  <2>. DEFINE y == Byte * nr
              z == Byte * n
  <2>5. y \in Nat /\ z = y + t /\ y = e + al /\ t \in Nat /\ e \in Nat /\ al \in Nat
    BY <1>5, <1>6, <2>2, <2>4
  <2>. HIDE DEF t, e, y, z
  <2>6. z - y = t /\ z - e = al + t /\ z \in Nat
    BY <2>5
  <2>. QED  BY <2>6 DEF y, z
<1>9. X = (c * A) * D
  <2>1. X = c * Pow2[Byte * n - e]
    BY <1>2 DEF Encodes
  <2>2. Pow2[al + t] = A * D
    BY <1>5, <1>6, Pow2Add, Zenon
  <2>3. X = c * (A * D)
    BY <1>8, <2>1, <2>2, Zenon
  <2>. HIDE DEF c, A, D
  <2>4. c * (A * D) = (c * A) * D
    BY <1>5, <1>6, <1>7
  <2>. QED  BY <2>3, <2>4
<1>10. v = X \div D
  <2>1. \A j \in 0 .. Len(w) : Val(w)[j] = Prefix(Val(w)[Len(w)], Byte * Len(w), Byte * j)
    BY <1>5, ValIsPrefix
  <2>2. v = Prefix(X, Byte * n, Byte * nr)
    BY <1>1, <1>5, <2>1
  <2>. QED  BY <1>8, <2>2, Zenon DEF Prefix
<1>11. v = c * A
  <2>. DEFINE y == c * A
  <2>1. y \in Int /\ 0 \in 0 .. D - 1
    <3>. HIDE DEF c, A, D
    <3>. QED  BY <1>5, <1>6, <1>7
  <2>2. X = y * D + 0
    <3>. HIDE DEF D, y
    <3>. QED  BY <1>7, <1>9, <2>1 DEF y
  <2>. HIDE DEF y, D
  <2>3. (y * D + 0) \div D = y
    BY <1>7, <2>1, ShiftAdd
  <2>. QED  BY <1>10, <2>2, <2>3, Zenon DEF y
<1>12. q = 0
  <2>. DEFINE y == c * A
  <2>1. y \in Nat /\ y = y + q
    BY <1>5, <1>6, <1>11
  <2>. HIDE DEF y, q
  <2>. QED  BY <1>7, <2>1
<1>13. \A k \in nr + 1 .. n : w[k] = 0
  <2>. DEFINE u == [k \in 1 .. nr |-> w[k]]
              z == u \o Zeros(n - nr)
  <2>1. u \in Seq(Bytes) /\ Len(u) = nr /\ \A k \in 1 .. nr : u[k] = w[k]
    <3>1. u \in [1 .. nr -> Bytes] /\ nr \in Nat
      BY <1>1, <1>5
    <3>. QED  BY <3>1
  <2>. HIDE DEF u
  <2>2. z \in Seq(Bytes) /\ Len(z) = n /\ Val(z)[n] = Val(u)[nr] * D
    <3>1. z \in Seq(Bytes) /\ Len(z) = n /\ Val(z)[n] = Val(u)[Len(u)] * Pow2[Byte * (n - Len(u))]
      <4>1. Len(u) <= n
        BY <1>5, <2>1
      <4>2. /\ u \o Zeros(n - Len(u)) \in Seq(Bytes) /\ Len(u \o Zeros(n - Len(u))) = n
            /\ Val(u \o Zeros(n - Len(u)))[n] = Val(u)[Len(u)] * Pow2[Byte * (n - Len(u))]
        BY <1>1, <2>1, <4>1, PadStep
      <4>. QED  BY <2>1, <4>2, Zenon
    <3>. QED  BY <2>1, <3>1, Zenon
  <2>3. Val(u)[nr] = v
    <3>1. u \in Seq(Nat) /\ w \in Seq(Nat) /\ Len(u) <= Len(w) /\ nr \in 0 .. Len(u)
      BY <1>1, <1>5, <2>1, BytesNat
    <3>2. \A k \in 1 .. Len(u) : u[k] = w[k]
      BY <2>1
    <3>3. \A k \in 0 .. Len(u) : Val(u)[k] = Val(w)[k]
      BY <3>1, <3>2, ValPrefix
    <3>. QED  BY <3>1, <3>3
  <2>4. Val(z)[Len(z)] = Val(w)[Len(w)]
    BY <1>1, <1>9, <1>11, <2>2, <2>3, Zenon
  <2>5. w = z
    <3>1. Len(z) = Len(w)
      BY <1>1, <2>2
    <3>. HIDE DEF z
    <3>. QED  BY <1>5, <2>2, <2>4, <3>1, ValInjective
  <2>6. ASSUME NEW k \in nr + 1 .. n PROVE w[k] = 0
    <3>. DEFINE o == Zeros(n - nr)
                j == k - nr
    <3>1. o \in Seq(Bytes) /\ Len(o) = n - nr /\ \A l \in 1 .. n - nr : o[l] = 0
      BY <1>6, ZerosFacts
    <3>. HIDE DEF o
    <3>2. \A l \in 1 .. Len(o) : (u \o o)[Len(u) + l] = o[l]
      BY <2>1, <3>1, Concat DEF IsConcat
    <3>3. j \in 1 .. n - nr /\ k = nr + j
      BY <1>1, <1>5
    <3>. HIDE DEF j
    <3>4. (u \o o)[nr + j] = 0
      BY <2>1, <3>1, <3>2, <3>3
    <3>. QED  BY <2>5, <3>3, <3>4 DEF o
  <2>. QED  BY <2>6
<1>. QED
  BY <1>3, <1>12, <1>13

-----------------------------------------------------------------------------
(* The invariant holds.                                                    *)

LEMMA PolynomialSeq == \A p \in Polynomials : p \in Seq(Int) /\ Len(p) = NCoeffs
<1>. SUFFICES ASSUME NEW p \in Polynomials PROVE p \in Seq(Int) /\ Len(p) = NCoeffs
  OBVIOUS
<1>1. NCoeffs \in Nat /\ p \in [1 .. NCoeffs -> Int]
  BY CodecAssumption DEF Polynomials
<1>. QED
  BY <1>1

LEMMA EncodedEncodable ==
    ASSUME NEW p, NEW w, NEW n, Encoded(p, w, n)
    PROVE  /\ Encodable(p, n) /\ p \in Seq(Int) /\ Len(p) = NCoeffs
           /\ \A k \in 1 .. NCoeffs : p[k] \in InRange
<1>1. p \in Seq(InRange) /\ Len(p) = NCoeffs /\ Encodes(w, n, p)
  BY DEF Encoded
<1>2. p \in Seq(Int)
  BY <1>1, InRangeInt
<1>3. \A k \in 1 .. NCoeffs : p[k] \in InRange
  BY <1>1
<1>4. CodeLength(p) <= Byte * n
  BY <1>1 DEF Encodes
<1>. QED
  BY <1>1, <1>2, <1>3, <1>4 DEF Encodable

LEMMA EmptyValues == Val(<<>>)[0] = 0 /\ Num(<<>>)[0] = 0 /\ CodeLength(<<>>) = 0 /\ 0 % Pow2[0] = 0
<1>1. Len(<<>>) = 0 /\ <<>> \in Seq(Nat) /\ <<>> \in Seq(Int)
  OBVIOUS
<1>2. Val(<<>>)[0] = 0 /\ Num(<<>>)[0] = 0 /\ Ends(<<>>)[0] = 0
  BY <1>1, ValDef, NumDef, EndsDef
<1>3. 0 % 1 = 0
  OBVIOUS
<1>. QED
  BY <1>1, <1>2, <1>3, Pow2Next DEF CodeLength

LEMMA EncodingStarts ==
    ASSUME NEW p \in Seq(Int), Len(p) = NCoeffs, NEW n \in Nat
    PROVE  Encoding(p, <<>>, 0, 0, 0, n)
<1>1. <<>> \in Seq(Bytes) /\ Len(<<>>) = 0 /\ 0 \in 0 .. Byte - 1 /\ NCoeffs \in Nat
  BY ByteFacts, CodecAssumption
<1>2. Num(p)[0] = 0 /\ Ends(p)[0] = 0
  BY NumDef, EndsDef
<1>3. Byte * Len(<<>>) + 0 = Ends(p)[0]
  BY <1>1, <1>2, ByteFacts
<1>4. Val(<<>>)[Len(<<>>)] * Pow2[0] + (0 % Pow2[0]) = Num(p)[0]
  <2>1. 0 * 1 + 0 = 0
    OBVIOUS
  <2>. QED  BY <1>1, <1>2, <2>1, EmptyValues, Pow2Next, Zenon
<1>5. Pending(<<>>, 0, 0, p, 0)
  BY <1>1, <1>3, <1>4 DEF Pending
<1>. QED
  BY <1>1, <1>5 DEF Encoding

LEMMA DecodingStarts ==
    ASSUME NEW w \in Seq(Bytes), NEW n \in Nat, Len(w) = n
    PROVE  Between(w, n, <<>>, 0, 0, 0)
<1>1. <<>> \in Seq(InRange) /\ Len(<<>>) = 0 /\ 0 < Byte /\ 0 <= NCoeffs
  BY ByteFacts, CodecAssumption
<1>2. Val(w)[0] = 0
  BY BytesNat, ValDef
<1>3. Byte * 0 = 0 + 0 /\ 0 = 0 * 1 + 0
  BY ByteFacts
<1>4. Read(w, 0, 0, 0, 0, 0)
  <2>1. 0 \in 0 .. Len(w)
    OBVIOUS
  <2>2. Val(w)[0] = 0 * Pow2[0] + (0 % Pow2[0])
    BY <1>2, <1>3, EmptyValues, Pow2Next, Zenon
  <2>. QED  BY <1>3, <2>1, <2>2 DEF Read
<1>5. Read(w, 0, 0, 0, Num(<<>>)[Len(<<>>)], CodeLength(<<>>))
  BY <1>1, <1>4, EmptyValues, Zenon
<1>. QED
  BY <1>1, <1>5 DEF Between

LEMMA CodecInitInv == CodecInit => CodecInv
<1>. SUFFICES ASSUME CodecInit PROVE CodecInv
  OBVIOUS
<1>1. len \in Lengths /\ len \in Nat
  BY CodecAssumption DEF CodecInit
<1>2. acc = 0 /\ acc_len = 0 /\ idx = 0 /\ out = <<>>
  BY DEF CodecInit
<1>3. CASE first = "encode"
  <2>1. phase = "coeff" /\ poly \in Polynomials /\ src = <<>>
    BY <1>3 DEF CodecInit
  <2>2. Encoding(poly, <<>>, 0, 0, 0, len)
    BY <1>1, <2>1, PolynomialSeq, EncodingStarts
  <2>3. Encoding(poly, src, acc, acc_len, idx, len)
    BY <1>2, <2>1, <2>2, Zenon
  <2>. QED  BY <1>1, <1>2, <1>3, <2>1, <2>3 DEF CodecInv, ThereAndBack
<1>4. CASE first = "decode"
  <2>1. phase = "byte" /\ src \in [1 .. len -> Bytes] /\ poly = <<>>
    BY <1>4 DEF CodecInit
  <2>2. src \in Seq(Bytes) /\ Len(src) = len
    BY <1>1, <2>1
  <2>3. Between(src, len, <<>>, 0, 0, 0)
    BY <1>1, <2>2, DecodingStarts
  <2>4. Between(src, len, poly, idx, acc, acc_len)
    BY <1>2, <2>1, <2>3, Zenon
  <2>. QED  BY <1>1, <1>2, <1>4, <2>1, <2>4 DEF CodecInv, BackAndThere
<1>. QED
  BY <1>3, <1>4 DEF CodecInit

LEMMA EncodeCoeffInv == CodecInv /\ EncodeCoeff => CodecInv'
<1>. SUFFICES ASSUME CodecInv, EncodeCoeff PROVE CodecInv'
  OBVIOUS
<1>. DEFINE x == poly[idx + 1]
            a == PutCoeff(acc, x)
            l == acc_len + CoeffBits(x)
            u == Written \o FullBytes(a, l)
<1>1. /\ phase = "coeff" /\ idx < NCoeffs
      /\ \/ x \notin InRange /\ Refuse
         \/ x \in InRange /\ ~(Len(u) <= len) /\ Refuse
         \/ /\ x \in InRange /\ Len(u) <= len /\ Write(u)
            /\ acc' = a /\ acc_len' = l % Byte /\ idx' = idx + 1
            /\ UNCHANGED <<first, phase, poly, neg, mag, len>>
  BY Zenon DEF EncodeCoeff, Fits
<1>2. /\ first' = first /\ len' = len /\ poly' = poly /\ first \in {"encode", "decode"}
      /\ len \in Lengths
  BY <1>1 DEF Refuse, CodecInv
<1>3. Encoding(poly, Written, acc, acc_len, idx, len)
  BY <1>1, <1>2 DEF CodecInv, ThereAndBack, BackAndThere, Written
<1>4. ASSUME x \in InRange
      PROVE  /\ Len(u) <= len => Encoding(poly, u, a, l % Byte, idx + 1, len)
             /\ ~(Len(u) <= len) => ~Encodable(poly, len)
  BY <1>1, <1>3, <1>4, EncodingStep
<1>5. ASSUME x \notin InRange PROVE ~Encodable(poly, len)
  <2>1. idx + 1 \in 1 .. NCoeffs
    BY <1>1, <1>3 DEF Encoding
  <2>. QED  BY <1>5, <2>1 DEF Encodable
<1>. HIDE DEF x, a, l, u
<1>6. ASSUME Refuse, ~Encodable(poly, len) PROVE CodecInv'
  <2>1. first = "encode"
    <3>. SUFFICES ASSUME first = "decode" PROVE FALSE
      BY <1>2
    <3>1. Encoded(poly, src, len)
      BY <1>1 DEF CodecInv, BackAndThere
    <3>. QED  BY <1>6, <3>1, EncodedEncodable
  <2>2. phase' = "refused" /\ poly \in Polynomials
    BY <1>1, <1>6, <2>1 DEF Refuse, CodecInv, ThereAndBack
  <2>. QED  BY <1>2, <1>6, <2>1, <2>2 DEF CodecInv, ThereAndBack
<1>7. ASSUME Encoding(poly, u, a, l % Byte, idx + 1, len), Write(u),
             acc' = a, acc_len' = l % Byte, idx' = idx + 1,
             UNCHANGED <<first, phase, poly, neg, mag, len>>
      PROVE  CodecInv'
  <2>1. phase' = "coeff"
    BY <1>1, <1>7
  <2>2. CASE first = "encode"
    <3>1. src' = u /\ out' = out /\ out = <<>> /\ poly \in Polynomials
      BY <1>1, <1>7, <2>2 DEF Write, CodecInv, ThereAndBack
    <3>2. Encoding(poly', src', acc', acc_len', idx', len')
      BY <1>2, <1>7, <3>1, Zenon
    <3>. QED  BY <1>2, <2>1, <2>2, <3>1, <3>2 DEF CodecInv, ThereAndBack
  <2>3. CASE first = "decode"
    <3>1. out' = u /\ src' = src /\ Encoded(poly, src, len)
      BY <1>1, <1>7, <2>3 DEF Write, CodecInv, BackAndThere
    <3>2. Encoding(poly', out', acc', acc_len', idx', len') /\ Encoded(poly', src', len')
      BY <1>2, <1>7, <3>1, Zenon
    <3>. QED  BY <1>2, <2>1, <2>3, <3>2 DEF CodecInv, BackAndThere
  <2>. QED  BY <1>2, <2>2, <2>3
<1>. QED
  BY <1>1, <1>4, <1>5, <1>6, <1>7

LEMMA FlushInv == CodecInv /\ Flush => CodecInv'
<1>. SUFFICES ASSUME CodecInv, Flush PROVE CodecInv'
  OBVIOUS
<1>. DEFINE u == Written \o (IF acc_len > 0 THEN <<(acc * Pow2[Byte - acc_len]) % Pow2[Byte]>> ELSE <<>>)
            z == u \o Zeros(len - Len(u))
<1>1. /\ phase = "coeff" /\ idx = NCoeffs
      /\ \/ ~(Len(u) <= len) /\ Refuse
         \/ /\ Len(u) <= len /\ Write(z) /\ Reset
            /\ phase' = (IF first = "encode" THEN "byte" ELSE "done")
            /\ UNCHANGED <<first, poly, len>>
  BY Zenon DEF Flush, Fits, Zeros
<1>2. /\ first' = first /\ len' = len /\ poly' = poly /\ first \in {"encode", "decode"}
      /\ len \in Lengths
  BY <1>1 DEF Refuse, CodecInv
<1>3. Encoding(poly, Written, acc, acc_len, NCoeffs, len)
  BY <1>1, <1>2 DEF CodecInv, ThereAndBack, BackAndThere, Written
<1>4. /\ poly \in Seq(Int) /\ Len(poly) = NCoeffs /\ len \in Nat
      /\ \A j \in 1 .. NCoeffs : poly[j] \in InRange
      /\ Pending(Written, acc, acc_len, poly, Len(poly))
  BY <1>3 DEF Encoding
<1>5. Len(u) <= len => Encodes(z, len, poly)
  <2>. HIDE DEF z
  <2>. SUFFICES ASSUME Len(u) <= len PROVE Encodes(z, len, poly)
    OBVIOUS
  <2>1. Encodes(u \o Zeros(len - Len(u)), len, poly)
    BY <1>4, FlushStep
  <2>. QED  BY <2>1 DEF z
<1>6. ~(Len(u) <= len) => ~Encodable(poly, len)
  BY <1>3, FlushRefused
<1>. HIDE DEF u, z
<1>7. ASSUME Refuse, ~Encodable(poly, len) PROVE CodecInv'
  <2>1. first = "encode"
    <3>. SUFFICES ASSUME first = "decode" PROVE FALSE
      BY <1>2
    <3>1. Encoded(poly, src, len)
      BY <1>1 DEF CodecInv, BackAndThere
    <3>. QED  BY <1>7, <3>1, EncodedEncodable
  <2>2. phase' = "refused" /\ poly \in Polynomials
    BY <1>1, <1>7, <2>1 DEF Refuse, CodecInv, ThereAndBack
  <2>. QED  BY <1>2, <1>7, <2>1, <2>2 DEF CodecInv, ThereAndBack
<1>8. ASSUME Encodes(z, len, poly), Write(z), Reset,
             phase' = (IF first = "encode" THEN "byte" ELSE "done")
      PROVE  CodecInv'
  <2>1. acc' = 0 /\ acc_len' = 0 /\ idx' = 0
    BY <1>8 DEF Reset
  <2>2. CASE first = "encode"
    <3>1. /\ src' = z /\ out' = <<>> /\ poly \in Polynomials /\ phase' = "byte"
      BY <1>1, <1>8, <2>2 DEF Write, CodecInv, ThereAndBack
    <3>2. Encoded(poly, z, len)
      <4>1. poly \in Seq(InRange)
        BY <1>4
      <4>. QED  BY <1>4, <1>8, <4>1 DEF Encoded
    <3>3. Between(z, len, <<>>, 0, 0, 0)
      <4>1. z \in Seq(Bytes) /\ Len(z) = len
        BY <1>8 DEF Encodes
      <4>. QED  BY <1>4, <4>1, DecodingStarts
    <3>4. Follows(<<>>, poly)
      BY DEF Follows
    <3>5. /\ Encoded(poly', src', len') /\ Between(src', len', out', idx', acc', acc_len')
          /\ Follows(out', poly')
      BY <1>2, <2>1, <3>1, <3>2, <3>3, <3>4, Zenon
    <3>. QED  BY <1>2, <2>2, <3>1, <3>5 DEF CodecInv, ThereAndBack
  <2>3. CASE first = "decode"
    <3>1. out' = z /\ src' = src /\ Encoded(poly, src, len) /\ phase' = "done"
      BY <1>1, <1>8, <2>3 DEF Write, CodecInv, BackAndThere
    <3>2. z = src
      <4>1. Encodes(src, len, poly)
        BY <3>1 DEF Encoded
      <4>. QED  BY <1>8, <4>1, EncodesUnique
    <3>. QED  BY <1>2, <2>3, <3>1, <3>2 DEF CodecInv, BackAndThere
  <2>. QED  BY <1>2, <2>2, <2>3
<1>. QED
  BY <1>1, <1>5, <1>6, <1>7, <1>8

LEMMA DecodeByteInv == CodecInv /\ DecodeByte => CodecInv'
<1>. SUFFICES ASSUME CodecInv, DecodeByte PROVE CodecInv'
  OBVIOUS
<1>. DEFINE a == ShiftIn(acc, Byte, src[idx + 1])
            sg == (a \div Pow2[acc_len + Byte - 1]) % 2
            m == (a \div Pow2[acc_len]) % Low
<1>1. /\ phase = "byte" /\ Len(Decoded) < NCoeffs
      /\ \/ idx >= len /\ Reject
         \/ /\ idx < len /\ acc' = a /\ idx' = idx + 1 /\ neg' = sg /\ mag' = m
            /\ phase' = "unary"
            /\ UNCHANGED <<first, poly, src, out, acc_len, len>>
  BY Zenon DEF DecodeByte
<1>2. /\ first' = first /\ len' = len /\ poly' = poly /\ src' = src /\ out' = out
      /\ acc_len' = acc_len /\ first \in {"encode", "decode"} /\ len \in Lengths
  BY <1>1 DEF Reject, CodecInv
<1>3. Between(src, len, Decoded, idx, acc, acc_len)
  BY <1>1, <1>2 DEF CodecInv, ThereAndBack, BackAndThere, Decoded
<1>4. idx \in Nat /\ len \in Nat
  BY <1>3 DEF Between, Read
<1>5. ASSUME idx < len
      PROVE  Inside(src, len, Decoded, idx + 1, a, acc_len, sg, m) /\ m \in 0 .. Low - 1
  BY <1>1, <1>3, <1>5, StartCoefficient
<1>6. ASSUME first = "encode"
      PROVE  /\ Encoded(poly, src, len) /\ Follows(Decoded, poly) /\ idx < len
             /\ FollowsInside(Decoded, poly, sg, m)
  <2>1. Encoded(poly, src, len) /\ Follows(Decoded, poly)
    BY <1>1, <1>6 DEF CodecInv, ThereAndBack, Decoded
  <2>. HIDE DEF a, sg, m
  <2>2. /\ idx < len
        /\ \A b, r, t : Inside(src, len, Decoded, idx + 1, b, acc_len, r, t) /\ t \in 0 .. Low - 1
                          => FollowsInside(Decoded, poly, r, t)
    BY <1>1, <1>3, <2>1, StartFollows
  <2>. QED  BY <1>5, <2>1, <2>2
<1>. HIDE DEF a, sg, m
<1>7. ASSUME idx < len, acc' = a, idx' = idx + 1, neg' = sg, mag' = m, phase' = "unary"
      PROVE  CodecInv'
  <2>1. CASE first = "encode"
    <3>1. Decoded = out /\ poly \in Polynomials
      BY <1>1, <2>1 DEF Decoded, CodecInv, ThereAndBack
    <3>2. /\ Encoded(poly', src', len')
          /\ Inside(src', len', out', idx', acc', acc_len', neg', mag')
          /\ Follows(out', poly') /\ FollowsInside(out', poly', neg', mag')
      BY <1>2, <1>5, <1>6, <1>7, <2>1, <3>1, Zenon
    <3>. QED  BY <1>2, <1>7, <2>1, <3>1, <3>2 DEF CodecInv, ThereAndBack
  <2>2. CASE first = "decode"
    <3>1. Decoded = poly /\ out = <<>>
      BY <1>1, <2>2 DEF Decoded, CodecInv, BackAndThere
    <3>2. Inside(src', len', poly', idx', acc', acc_len', neg', mag')
      BY <1>2, <1>5, <1>7, <3>1, Zenon
    <3>. QED  BY <1>2, <1>7, <2>2, <3>1, <3>2 DEF CodecInv, BackAndThere
  <2>. QED  BY <1>2, <2>1, <2>2
<1>8. ASSUME idx >= len, Reject PROVE CodecInv'
  <2>1. first = "decode"
    BY <1>2, <1>4, <1>6, <1>8
  <2>2. phase' = "rejected"
    BY <1>8 DEF Reject
  <2>. QED  BY <1>2, <2>1, <2>2 DEF CodecInv, BackAndThere
<1>. QED
  BY <1>1, <1>7, <1>8

LEMMA DecodeUnaryInv == CodecInv /\ DecodeUnary => CodecInv'
<1>. SUFFICES ASSUME CodecInv, DecodeUnary PROVE CodecInv'
  OBVIOUS
<1>. DEFINE d == Decoded
            a == IF acc_len = 0 THEN ShiftIn(acc, Byte, src[idx + 1]) ELSE acc
            l == (IF acc_len = 0 THEN Byte ELSE acc_len) - 1
            j == IF acc_len = 0 THEN idx + 1 ELSE idx
            t == (a \div Pow2[l]) % 2
            z == IF neg = 1 THEN -mag ELSE mag
            R == Partial(Num(d)[Len(d)], neg, mag) * 2
            E == (CodeLength(d) + (Byte + (mag \div Low))) + 1
<1>1. /\ phase = "unary"
      /\ \/ acc_len = 0 /\ idx >= len /\ Reject
         \/ /\ acc_len = 0 => idx < len
            /\ acc' = a /\ acc_len' = l /\ idx' = j
            /\ \/ t = 1 /\ Deliver(neg, mag) /\ UNCHANGED mag
               \/ /\ t = 0 /\ mag' = mag + Low
                  /\ phase' = (IF mag + Low > MaxAbs THEN "rejected" ELSE "unary")
                  /\ UNCHANGED <<poly, out>>
            /\ UNCHANGED <<first, src, neg, len>>
  BY Zenon DEF DecodeUnary
<1>2. /\ first' = first /\ len' = len /\ src' = src /\ neg' = neg
      /\ first \in {"encode", "decode"} /\ len \in Lengths
  BY <1>1 DEF Reject, CodecInv
<1>3. Inside(src, len, d, idx, acc, acc_len, neg, mag)
  BY <1>1, <1>2 DEF CodecInv, ThereAndBack, BackAndThere, Decoded
<1>4. idx \in Nat /\ len \in Nat /\ mag \in Nat /\ Low \in Nat /\ MaxAbs \in Nat
  <2>1. idx \in Nat /\ len \in Nat /\ mag \in 0 .. MaxAbs
    BY <1>3 DEF Inside, Read
  <2>. QED  BY <2>1, ByteFacts, CodecAssumption
<1>5. ASSUME acc_len = 0 => idx < len
      PROVE  l \in Nat /\ l < Byte /\ t \in 0 .. 1 /\ Read(src, j, a, l, R + t, E)
  <2>. HIDE DEF d
  <2>. QED  BY <1>3, <1>5, NextBit
<1>6. ASSUME first = "encode"
      PROVE  /\ poly \in Polynomials /\ Encoded(poly, src, len) /\ Follows(d, poly) /\ d = out
             /\ FollowsInside(d, poly, neg, mag)
  BY <1>1, <1>6 DEF CodecInv, ThereAndBack, Decoded
<1>7. ASSUME first = "decode" PROVE d = poly /\ out = <<>>
  BY <1>1, <1>7 DEF CodecInv, BackAndThere, Decoded
<1>. HIDE DEF d, a, l, j
<1>8. ASSUME first = "encode"
      PROVE  /\ acc_len = 0 => idx < len
             /\ t = IF mag \div Low < High(poly[Len(d) + 1]) THEN 0 ELSE 1
  <2>1. /\ acc_len = 0 => idx < len
        /\ \A nr, b, bl, r : r \in 0 .. 1 /\ Read(src, nr, b, bl, R + r, E)
                => r = IF mag \div Low < High(poly[Len(d) + 1]) THEN 0 ELSE 1
    BY <1>3, <1>6, <1>8, BitFollows
  <2>2. t \in 0 .. 1 /\ Read(src, j, a, l, R + t, E)
    BY <1>5, <2>1
  <2>. HIDE DEF t, R, E
  <2>. QED  BY <2>1, <2>2
<1>. HIDE DEF t, z, R, E
<1>9. ASSUME acc_len = 0, idx >= len, Reject PROVE CodecInv'
  <2>1. first = "decode"
    BY <1>2, <1>4, <1>8, <1>9
  <2>2. phase' = "rejected"
    BY <1>9 DEF Reject
  <2>. QED  BY <1>2, <2>1, <2>2 DEF CodecInv, BackAndThere
<1>10. ASSUME acc_len = 0 => idx < len, acc' = a, acc_len' = l, idx' = j, t = 1,
              Deliver(neg, mag)
       PROVE  CodecInv'
  <2>1. CASE neg = 1 /\ mag = 0
    <3>1. phase' = "rejected"
      BY <1>10, <2>1 DEF Deliver
    <3>2. first = "decode"
      <4>. SUFFICES ASSUME first = "encode" PROVE FALSE
        BY <1>2
      <4>1. ~(mag \div Low < High(poly[Len(d) + 1]))
        BY <1>8, <1>10
      <4>. QED  BY <1>3, <1>6, <2>1, <4>1, OneFollows
    <3>. QED  BY <1>2, <3>1, <3>2 DEF CodecInv, BackAndThere
  <2>2. CASE ~(neg = 1 /\ mag = 0)
    <3>1. phase' = "byte" /\ Decode(Append(d, z))
      BY <1>10, <2>2, Zenon DEF Deliver, d, z
    <3>2. Between(src, len, Append(d, z), j, a, l)
      <4>1. l \in Nat /\ l < Byte /\ Read(src, j, a, l, R + 1, E)
        BY <1>5, <1>10
      <4>. QED  BY <1>3, <2>2, <4>1, BitOne DEF R, E, z
    <3>3. CASE first = "encode"
      <4>1. ~(mag \div Low < High(poly[Len(d) + 1]))
        BY <1>8, <1>10, <3>3
      <4>2. Follows(Append(d, z), poly)
        BY <1>3, <1>6, <3>3, <4>1, OneFollows DEF z
      <4>3. out' = Append(d, z) /\ poly' = poly
        BY <3>1, <3>3 DEF Decode
      <4>4. /\ Encoded(poly', src', len') /\ Between(src', len', out', idx', acc', acc_len')
            /\ Follows(out', poly')
        BY <1>2, <1>6, <1>10, <3>2, <3>3, <4>2, <4>3, Zenon
      <4>. QED  BY <1>2, <1>6, <3>1, <3>3, <4>3, <4>4 DEF CodecInv, ThereAndBack
    <3>4. CASE first = "decode"
      <4>1. poly' = Append(d, z) /\ out' = <<>>
        BY <1>7, <3>1, <3>4 DEF Decode
      <4>2. Between(src', len', poly', idx', acc', acc_len')
        BY <1>2, <1>10, <3>2, <4>1, Zenon
      <4>. QED  BY <1>2, <3>1, <3>4, <4>1, <4>2 DEF CodecInv, BackAndThere
    <3>. QED  BY <1>2, <3>3, <3>4
  <2>. QED  BY <2>1, <2>2
<1>11. ASSUME acc_len = 0 => idx < len, acc' = a, acc_len' = l, idx' = j, t = 0,
              mag' = mag + Low, UNCHANGED <<poly, out>>,
              phase' = (IF mag + Low > MaxAbs THEN "rejected" ELSE "unary")
       PROVE  CodecInv'
  <2>1. ASSUME first = "encode"
        PROVE  mag + Low <= MaxAbs /\ FollowsInside(d, poly, neg, mag + Low)
    <3>1. mag \div Low < High(poly[Len(d) + 1])
      BY <1>8, <1>11, <2>1
    <3>. QED  BY <1>3, <1>6, <2>1, <3>1, ZeroFollows
  <2>2. CASE mag + Low > MaxAbs
    <3>1. first = "decode" /\ phase' = "rejected"
      BY <1>2, <1>4, <1>11, <2>1, <2>2
    <3>. QED  BY <1>2, <3>1 DEF CodecInv, BackAndThere
  <2>3. CASE mag + Low <= MaxAbs
    <3>1. phase' = "unary"
      BY <1>4, <1>11, <2>3
    <3>2. Inside(src, len, d, j, a, l, neg, mag + Low)
      <4>1. l \in Nat /\ l < Byte /\ Read(src, j, a, l, R + 0, E)
        BY <1>5, <1>11
      <4>. QED  BY <1>3, <2>3, <4>1, BitZero DEF R, E
    <3>3. CASE first = "encode"
      <4>1. /\ Encoded(poly', src', len')
            /\ Inside(src', len', out', idx', acc', acc_len', neg', mag')
            /\ Follows(out', poly') /\ FollowsInside(out', poly', neg', mag')
        <5>1. poly' = poly /\ out' = d
          BY <1>6, <1>11, <3>3
        <5>. QED  BY <1>2, <1>6, <1>11, <2>1, <3>2, <3>3, <5>1, Zenon
      <4>. QED  BY <1>2, <1>6, <1>11, <3>1, <3>3, <4>1 DEF CodecInv, ThereAndBack
    <3>4. CASE first = "decode"
      <4>1. poly' = d /\ out' = <<>>
        BY <1>7, <1>11, <3>4
      <4>2. Inside(src', len', poly', idx', acc', acc_len', neg', mag')
        BY <1>2, <1>11, <3>2, <4>1, Zenon
      <4>. QED  BY <1>2, <3>1, <3>4, <4>1, <4>2 DEF CodecInv, BackAndThere
    <3>. QED  BY <1>2, <3>3, <3>4
  <2>. QED  BY <1>4, <2>2, <2>3
<1>. QED
  BY <1>1, <1>9, <1>10, <1>11

LEMMA DecodePaddingInv == CodecInv /\ DecodePadding => CodecInv'
<1>. SUFFICES ASSUME CodecInv, DecodePadding PROVE CodecInv'
  OBVIOUS
<1>1. /\ phase = "byte" /\ Len(Decoded) = NCoeffs
      /\ \/ ~PaddingIsZero /\ Reject
         \/ /\ PaddingIsZero /\ Reset
            /\ phase' = (IF first = "encode" THEN "done" ELSE "coeff")
            /\ UNCHANGED <<first, poly, src, out, len>>
  BY Zenon DEF DecodePadding
<1>2. /\ first' = first /\ len' = len /\ poly' = poly /\ src' = src /\ out' = out
      /\ first \in {"encode", "decode"} /\ len \in Lengths
  BY <1>1 DEF Reject, CodecInv
<1>3. Between(src, len, Decoded, idx, acc, acc_len)
  BY <1>1, <1>2 DEF CodecInv, ThereAndBack, BackAndThere, Decoded
<1>4. CASE first = "encode"
  <2>1. Encoded(poly, src, len) /\ Follows(out, poly) /\ Decoded = out /\ poly \in Polynomials
    BY <1>1, <1>4 DEF CodecInv, ThereAndBack, Decoded
  <2>2. out = poly /\ acc % Pow2[acc_len] = 0 /\ \A k \in idx + 1 .. len : src[k] = 0
    BY <1>1, <1>3, <2>1, PaddingFollows
  <2>3. phase' = "done"
    BY <1>1, <1>4, <2>2 DEF PaddingIsZero
  <2>4. Encodable(poly, len)
    BY <2>1, EncodedEncodable
  <2>. QED  BY <1>2, <1>4, <2>1, <2>2, <2>3, <2>4 DEF CodecInv, ThereAndBack
<1>5. CASE first = "decode"
  <2>1. Decoded = poly /\ out = <<>>
    BY <1>1, <1>5 DEF CodecInv, BackAndThere, Decoded
  <2>2. CASE ~PaddingIsZero
    <3>1. phase' = "rejected"
      BY <1>1, <2>2 DEF Reject
    <3>. QED  BY <1>2, <1>5, <3>1 DEF CodecInv, BackAndThere
  <2>3. CASE PaddingIsZero
    <3>1. phase' = "coeff" /\ acc' = 0 /\ acc_len' = 0 /\ idx' = 0
      BY <1>1, <1>5, <2>3 DEF Reset
    <3>2. /\ poly \in Seq(InRange) /\ Len(poly) = NCoeffs /\ len \in Nat /\ Len(src) = len
          /\ Read(src, idx, acc, acc_len, Num(poly)[Len(poly)], CodeLength(poly))
      BY <1>1, <1>3, <2>1 DEF Between
    <3>3. poly \in Seq(Int)
      BY <3>2, InRangeInt
    <3>4. acc % Pow2[acc_len] = 0 /\ \A k \in idx + 1 .. Len(src) : src[k] = 0
      BY <2>3, <3>2 DEF PaddingIsZero
    <3>5. Encodes(src, Len(src), poly)
      BY <3>2, <3>3, <3>4, ReadPadded
    <3>6. Encoded(poly, src, len)
      BY <3>2, <3>5 DEF Encoded
    <3>7. Encoding(poly, <<>>, 0, 0, 0, len)
      BY <3>2, <3>3, EncodingStarts
    <3>8. Encoded(poly', src', len') /\ Encoding(poly', out', acc', acc_len', idx', len')
      BY <1>2, <2>1, <3>1, <3>6, <3>7, Zenon
    <3>. QED  BY <1>2, <1>5, <3>1, <3>8 DEF CodecInv, BackAndThere
  <2>. QED  BY <2>2, <2>3
<1>. QED
  BY <1>2, <1>4, <1>5

LEMMA CodecNextInv == CodecInv /\ [CodecNext]_codecVars => CodecInv'
<1>. SUFFICES ASSUME CodecInv, [CodecNext]_codecVars PROVE CodecInv'
  OBVIOUS
<1>1. CASE EncodeCoeff
  BY <1>1, EncodeCoeffInv
<1>2. CASE Flush
  BY <1>2, FlushInv
<1>3. CASE DecodeByte
  BY <1>3, DecodeByteInv
<1>4. CASE DecodeUnary
  BY <1>4, DecodeUnaryInv
<1>5. CASE DecodePadding
  BY <1>5, DecodePaddingInv
<1>6. CASE UNCHANGED codecVars
  BY <1>6 DEF codecVars, CodecInv, ThereAndBack, BackAndThere
<1>. QED
  BY <1>1, <1>2, <1>3, <1>4, <1>5, <1>6 DEF CodecNext

\* comp_encode and comp_decode are inverse to each other: the bytes written are
\* read back as the polynomial, the bytes accepted are the ones that are written
\* for the polynomial read, and a polynomial is refused only if it is out of
\* range or too long.
THEOREM CodecIsCanonical == CodecSpec => []CodecCanonical
<1>1. CodecInv => CodecCanonical
  <2>. SUFFICES ASSUME CodecInv PROVE CodecCanonical
    OBVIOUS
  <2>1. EncodedDecodes
    BY DEF CodecInv, ThereAndBack, EncodedDecodes
  <2>2. DecodedIsCanonical
    BY DEF CodecInv, BackAndThere, DecodedIsCanonical
  <2>3. RefusesWhatDoesNotFit
    BY DEF CodecInv, ThereAndBack, Encodable, RefusesWhatDoesNotFit
  <2>. QED  BY <2>1, <2>2, <2>3 DEF CodecCanonical
<1>. QED
  BY <1>1, CodecInitInv, CodecNextInv, PTL DEF CodecSpec
=============================================================================
