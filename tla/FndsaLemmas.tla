---------------------------- MODULE FndsaLemmas -----------------------------
(***************************************************************************)
(* What the proofs about the arithmetic of FN-DSA rest on: induction over  *)
(* the natural numbers, for a set instead of a predicate; functions that   *)
(* are defined by recursion; quotients, remainders and powers of two;      *)
(* sequences of digits and the numbers they stand for.                     *)
(***************************************************************************)
EXTENDS Powers, Sequences, WellFoundedInduction, TLAPS

-----------------------------------------------------------------------------
(* Induction and recursion.                                                *)

LEMMA Smallest ==
    ASSUME NEW S, S \subseteq Nat, S # {}
    PROVE  \E m \in S : \A k \in S : m <= k
<1>. DEFINE R == {ss \in Nat \X Nat : ss[1] < ss[2]}
<1>1. IsWellFoundedOn(R, Nat)
  BY NatLessThanWellFounded, Zenon DEF OpToRel
<1>2. \A x, y \in Nat : y < x => <<y, x>> \in R
  OBVIOUS
<1>. HIDE DEF R
<1>3. PICK m \in S : \A k \in S : ~(<<k, m>> \in R)
  BY <1>1, WFMin
<1>4. \A k \in S : ~(k < m)
  BY <1>2, <1>3
<1>. QED
  BY <1>4

LEMMA Induction ==
    ASSUME NEW S, 0 \in S, \A n \in Nat : n \in S => n + 1 \in S
    PROVE  Nat \subseteq S
<1>. SUFFICES ASSUME ~(Nat \subseteq S) PROVE FALSE
  OBVIOUS
<1>. DEFINE T == {n \in Nat : n \notin S}
<1>1. T \subseteq Nat /\ T # {}
  OBVIOUS
<1>2. PICK m \in T : \A k \in T : m <= k
  BY <1>1, Smallest
<1>3. m # 0 /\ m - 1 \in Nat /\ m - 1 \notin T
  BY <1>2
<1>. QED
  BY <1>3, <1>2

\* Induction up to a bound.
LEMMA InductionTo ==
    ASSUME NEW K \in Nat, NEW S, 0 \in S, \A n \in 0 .. K - 1 : n \in S => n + 1 \in S
    PROVE  0 .. K \subseteq S
<1>. DEFINE T == {n \in Nat : n <= K => n \in S}
<1>1. 0 \in T
  OBVIOUS
<1>2. ASSUME NEW n \in Nat, n \in T PROVE n + 1 \in T
  BY <1>2
<1>3. Nat \subseteq T
  <2>. HIDE DEF T
  <2>. QED  BY <1>1, <1>2, Induction
<1>. QED
  BY <1>3

\* Induction downwards.
LEMMA InductionDown ==
    ASSUME NEW K \in Nat, NEW S, K \in S, \A n \in 0 .. K - 1 : n + 1 \in S => n \in S
    PROVE  0 .. K \subseteq S
<1>. DEFINE T == {n \in 0 .. K : K - n \in S}
<1>1. 0 \in T
  OBVIOUS
<1>2. ASSUME NEW n \in 0 .. K - 1, n \in T PROVE n + 1 \in T
  <2>1. K - (n + 1) \in 0 .. K - 1 /\ (K - (n + 1)) + 1 = K - n /\ n + 1 \in 0 .. K
    OBVIOUS
  <2>. QED  BY <1>2, <2>1
<1>3. 0 .. K \subseteq T
  <2>. HIDE DEF T
  <2>. QED  BY <1>1, <1>2, InductionTo
<1>4. ASSUME NEW n \in 0 .. K PROVE n \in S
  <2>1. K - n \in 0 .. K /\ K - (K - n) = n
    OBVIOUS
  <2>. QED  BY <1>3, <2>1
<1>. QED
  BY <1>4

\* The equation of a function defined by recursion, up to a bound.
IsRec(f, K, c, g) == f[0] = c /\ \A n \in 1 .. K : f[n] = g[<<n, f[n - 1]>>]

LEMMA RecExists ==
    ASSUME NEW K \in Nat, NEW V, NEW c \in V, NEW g \in [Nat \X V -> V]
    PROVE  \E f \in [0 .. K -> V] : IsRec(f, K, c, g)
<1>. DEFINE S == {k \in Nat : \E f \in [0 .. k -> V] : IsRec(f, k, c, g)}
<1>1. 0 \in S
  <2>. DEFINE f == [n \in 0 .. 0 |-> c]
  <2>1. f \in [0 .. 0 -> V] /\ IsRec(f, 0, c, g)
    BY DEF IsRec
  <2>. HIDE DEF f
  <2>. QED  BY <2>1
<1>2. ASSUME NEW k \in Nat, k \in S PROVE k + 1 \in S
  <2>1. PICK f \in [0 .. k -> V] : IsRec(f, k, c, g)
    BY <1>2
  <2>. DEFINE h == [n \in 0 .. k + 1 |-> IF n <= k THEN f[n] ELSE g[<<k + 1, f[k]>>]]
  <2>2. f[0] = c /\ \A n \in 1 .. k : f[n] = g[<<n, f[n - 1]>>]
    BY <2>1 DEF IsRec
  <2>3. h \in [0 .. k + 1 -> V]
    OBVIOUS
  <2>4. h[0] = c
    BY <2>2
  <2>5. ASSUME NEW n \in 1 .. k + 1 PROVE h[n] = g[<<n, h[n - 1]>>]
    <3>1. CASE n \in 1 .. k
      <4>1. n - 1 \in 0 .. k + 1 /\ n - 1 <= k /\ h[n - 1] = f[n - 1] /\ h[n] = f[n]
        BY <3>1
      <4>. QED  BY <2>2, <3>1, <4>1
    <3>2. CASE n = k + 1
      BY <3>2
    <3>. QED  BY <3>1, <3>2
  <2>. HIDE DEF h
  <2>6. IsRec(h, k + 1, c, g)
    BY <2>4, <2>5 DEF IsRec
  <2>. QED  BY <2>3, <2>6
<1>3. Nat \subseteq S
  <2>. HIDE DEF S
  <2>. QED  BY <1>1, <1>2, Induction
<1>. QED
  BY <1>3

\* Two functions with the same equation agree where both are defined.
LEMMA RecUnique ==
    ASSUME NEW K \in Nat, NEW L \in Nat, K <= L, NEW c, NEW g,
           NEW f, IsRec(f, K, c, g), NEW h, IsRec(h, L, c, g)
    PROVE  \A n \in 0 .. K : f[n] = h[n]
<1>. DEFINE T == {n \in 0 .. K : f[n] = h[n]}
<1>0. h[0] = c /\ \A n \in 1 .. L : h[n] = g[<<n, h[n - 1]>>]
  BY DEF IsRec
<1>1. f[0] = c /\ \A n \in 1 .. K : f[n] = g[<<n, f[n - 1]>>]
  BY DEF IsRec
<1>2. 0 \in T
  BY <1>0, <1>1
<1>3. ASSUME NEW n \in 0 .. K - 1, n \in T PROVE n + 1 \in T
  <2>1. n + 1 \in 1 .. K /\ n + 1 \in 1 .. L /\ n + 1 \in 0 .. K /\ (n + 1) - 1 = n
    OBVIOUS
  <2>2. f[n + 1] = g[<<n + 1, f[n]>>]
    BY <1>1, <2>1
  <2>3. h[n + 1] = g[<<n + 1, h[n]>>]
    BY <1>0, <2>1
  <2>. QED  BY <1>3, <2>1, <2>2, <2>3
<1>4. 0 .. K \subseteq T
  <2>. HIDE DEF T
  <2>. QED  BY <1>2, <1>3, InductionTo
<1>. QED
  BY <1>4

\* The same on all natural numbers.
IsRecNat(f, c, g) == \A n \in Nat : f[n] = IF n = 0 THEN c ELSE g[<<n, f[n - 1]>>]

LEMMA RecNat ==
    ASSUME NEW V, NEW c \in V, NEW g \in [Nat \X V -> V]
    PROVE  \E f \in [Nat -> V] : IsRecNat(f, c, g)
<1>. DEFINE G(k) == CHOOSE f \in [0 .. k -> V] : IsRec(f, k, c, g)
            F == [n \in Nat |-> G(n)[n]]
<1>1. ASSUME NEW k \in Nat PROVE G(k) \in [0 .. k -> V] /\ IsRec(G(k), k, c, g)
  <2>1. \E f \in [0 .. k -> V] : IsRec(f, k, c, g)
    BY RecExists
  <2>. QED  BY <2>1, Zenon
<1>. HIDE DEF G
<1>2. ASSUME NEW n \in Nat PROVE F[n] = IF n = 0 THEN c ELSE g[<<n, F[n - 1]>>]
  <2>1. G(n) \in [0 .. n -> V] /\ IsRec(G(n), n, c, g)
    BY <1>1
  <2>2. G(n)[0] = c /\ \A k \in 1 .. n : G(n)[k] = g[<<k, G(n)[k - 1]>>]
    BY <2>1 DEF IsRec
  <2>3. CASE n = 0
    BY <2>2, <2>3
  <2>4. CASE n # 0
    <3>1. n - 1 \in Nat /\ n - 1 \in 0 .. n - 1 /\ n \in 1 .. n /\ n - 1 <= n
      BY <2>4
    <3>2. IsRec(G(n - 1), n - 1, c, g)
      BY <1>1, <3>1
    <3>3. \A k \in 0 .. n - 1 : G(n - 1)[k] = G(n)[k]
      <4>. DEFINE u == G(n - 1)
                  v == G(n)
                  j == n - 1
      <4>1. IsRec(u, j, c, g) /\ IsRec(v, n, c, g) /\ j \in Nat /\ j <= n
        BY <2>1, <3>1, <3>2
      <4>. HIDE DEF u, v, j
      <4>2. \A k \in 0 .. j : u[k] = v[k]
        BY <4>1, RecUnique
      <4>. QED  BY <4>2 DEF u, v, j
    <3>4. G(n - 1)[n - 1] = G(n)[n - 1]
      BY <3>1, <3>3
    <3>5. G(n)[n] = g[<<n, G(n)[n - 1]>>]
      BY <2>2, <3>1
    <3>. QED  BY <2>4, <3>1, <3>4, <3>5
  <2>. QED  BY <2>3, <2>4
<1>3. F \in [Nat -> V]
  <2>. SUFFICES ASSUME NEW n \in Nat PROVE G(n)[n] \in V
    OBVIOUS
  <2>. QED  BY <1>1
<1>. HIDE DEF F
<1>4. IsRecNat(F, c, g)
  BY <1>2 DEF IsRecNat
<1>. QED
  BY <1>3, <1>4

-----------------------------------------------------------------------------
(* Powers of two.                                                          *)

LEMMA Pow2Def == \A n \in Nat : Pow2[n] = IF n = 0 THEN 1 ELSE 2 * Pow2[n - 1]
<1>. DEFINE g == [p \in Nat \X Nat |-> 2 * p[2]]
<1>1. g \in [Nat \X Nat -> Nat] /\ \A n, v \in Nat : g[<<n, v>>] = 2 * v
  OBVIOUS
<1>. HIDE DEF g
<1>2. PICK f \in [Nat -> Nat] : IsRecNat(f, 1, g)
  <2>1. 1 \in Nat
    OBVIOUS
  <2>. QED  BY <1>1, <2>1, RecNat, Zenon
<1>3. ASSUME NEW n \in Nat PROVE f[n] = IF n = 0 THEN 1 ELSE 2 * f[n - 1]
  <2>1. CASE n = 0
    BY <1>2, <2>1 DEF IsRecNat
  <2>2. CASE n # 0
    <3>1. n - 1 \in Nat /\ f[n - 1] \in Nat
      BY <2>2
    <3>2. f[n] = g[<<n, f[n - 1]>>]
      BY <1>2, <2>2 DEF IsRecNat
    <3>. QED  BY <1>1, <2>2, <3>1, <3>2
  <2>. QED  BY <2>1, <2>2
<1>4. f = [n \in Nat |-> IF n = 0 THEN 1 ELSE 2 * f[n - 1]]
  <2>1. f = [n \in Nat |-> f[n]]
    OBVIOUS
  <2>. QED  BY <1>3, <2>1, Zenon
<1>5. Pow2 = [n \in Nat |-> IF n = 0 THEN 1 ELSE 2 * Pow2[n - 1]]
  BY <1>4, Zenon DEF Pow2
<1>. QED
  BY <1>5

LEMMA Pow2Nat == \A n \in Nat : Pow2[n] \in Nat \ {0}
<1>. DEFINE S == {n \in Nat : Pow2[n] \in Nat \ {0}}
<1>1. 0 \in S
  BY Pow2Def
<1>2. ASSUME NEW n \in Nat, n \in S PROVE n + 1 \in S
  BY <1>2, Pow2Def
<1>3. Nat \subseteq S
  <2>. HIDE DEF S
  <2>. QED  BY <1>1, <1>2, Induction
<1>. QED
  BY <1>3

LEMMA Pow2Next == Pow2[0] = 1 /\ \A n \in Nat : Pow2[n + 1] = 2 * Pow2[n]
BY Pow2Def

LEMMA Pow2Add == \A a, b \in Nat : Pow2[a + b] = Pow2[a] * Pow2[b]
<1>. SUFFICES ASSUME NEW a \in Nat PROVE \A b \in Nat : Pow2[a + b] = Pow2[a] * Pow2[b]
  OBVIOUS
<1>. DEFINE S == {b \in Nat : Pow2[a + b] = Pow2[a] * Pow2[b]}
<1>1. 0 \in S
  BY Pow2Next, Pow2Nat
<1>2. ASSUME NEW b \in Nat, b \in S PROVE b + 1 \in S
  <2>1. Pow2[a + (b + 1)] = 2 * Pow2[a + b] /\ Pow2[b + 1] = 2 * Pow2[b]
    <3>1. a + (b + 1) = (a + b) + 1 /\ a + b \in Nat
      OBVIOUS
    <3>. QED  BY <3>1, Pow2Next
  <2>2. Pow2[a] \in Nat /\ Pow2[b] \in Nat
    BY Pow2Nat
  <2>3. ASSUME NEW x \in Nat, NEW y \in Nat PROVE 2 * (x * y) = x * (2 * y)
    OBVIOUS
  <2>. QED  BY <1>2, <2>1, <2>2, <2>3
<1>3. Nat \subseteq S
  <2>. HIDE DEF S
  <2>. QED  BY <1>1, <1>2, Induction
<1>. QED
  BY <1>3

-----------------------------------------------------------------------------
(* Quotients and remainders.                                               *)

LEMMA DivMod ==
    ASSUME NEW a \in Int, NEW d \in Nat \ {0}
    PROVE  a % d \in 0 .. d - 1 /\ a \div d \in Int /\ a = d * (a \div d) + (a % d)
OBVIOUS

LEMMA DivModUnique ==
    ASSUME NEW a \in Int, NEW d \in Nat \ {0}, NEW y \in Int, NEW r \in 0 .. d - 1,
           a = d * y + r
    PROVE  a \div d = y /\ a % d = r
<1>. DEFINE e == a \div d
            s == a % d
<1>1. s \in 0 .. d - 1 /\ e \in Int /\ a = d * e + s
  BY DivMod
<1>. HIDE DEF e, s
<1>2. ASSUME NEW u \in Int, u >= 1 PROVE d * u >= d
  BY <1>2
<1>3. e = y
  <2>1. d * (e - y) = r - s /\ d * (y - e) = s - r
    BY <1>1
  <2>2. CASE e > y
    BY <1>1, <1>2, <2>1, <2>2
  <2>3. CASE y > e
    BY <1>1, <1>2, <2>1, <2>3
  <2>. QED  BY <1>1, <2>2, <2>3
<1>4. s = r
  BY <1>1, <1>3
<1>. QED
  BY <1>3, <1>4 DEF e, s

LEMMA DivNat ==
    ASSUME NEW a \in Nat, NEW d \in Nat \ {0}
    PROVE  a \div d \in Nat /\ a \div d <= a /\ d * (a \div d) <= a
<1>. DEFINE e == a \div d
<1>1. a % d \in 0 .. d - 1 /\ e \in Int /\ a = d * e + (a % d)
  BY DivMod
<1>. HIDE DEF e
<1>2. e >= 0
  <2>. SUFFICES ASSUME e <= -1 PROVE FALSE
    BY <1>1
  <2>1. d * e <= -d
    BY <1>1
  <2>. QED  BY <1>1, <2>1
<1>3. e <= d * e
  BY <1>1, <1>2
<1>. QED
  BY <1>1, <1>2, <1>3 DEF e

LEMMA NatDivMod ==
    \A a \in Nat : \A d \in Nat \ {0} :
        /\ a \div d \in Nat /\ a % d \in Nat /\ a % d \in 0 .. d - 1
        /\ a = d * (a \div d) + (a % d)
<1>. SUFFICES ASSUME NEW a \in Nat, NEW d \in Nat \ {0}
              PROVE  /\ a \div d \in Nat /\ a % d \in Nat /\ a % d \in 0 .. d - 1
                     /\ a = d * (a \div d) + (a % d)
  OBVIOUS
<1>1. a \div d \in Nat
  BY DivNat
<1>2. a % d \in 0 .. d - 1 /\ a = d * (a \div d) + (a % d)
  BY DivMod
<1>. QED
  BY <1>1, <1>2

\* What is shifted up and then completed with low bits.
LEMMA ShiftAdd ==
    ASSUME NEW a \in Int, NEW d \in Nat \ {0}, NEW r \in 0 .. d - 1
    PROVE  (a * d + r) \div d = a /\ (a * d + r) % d = r
<1>1. a * d + r = d * a + r /\ a * d + r \in Int
  OBVIOUS
<1>. QED
  BY <1>1, DivModUnique

LEMMA ProductBound ==
    ASSUME NEW p \in Nat \ {0}, NEW q \in Nat \ {0}, NEW u \in 0 .. q - 1, NEW r \in 0 .. p - 1
    PROVE  p * q \in Nat \ {0} /\ p * u + r \in 0 .. p * q - 1
<1>1. p * q \in Nat \ {0} /\ p * u \in Nat
  OBVIOUS
<1>2. p * u <= p * (q - 1)
  OBVIOUS
<1>3. p * (q - 1) = p * q - p
  OBVIOUS
<1>. QED
  BY <1>1, <1>2, <1>3

\* Dividing twice, and the remainder by a product.
LEMMA DivDiv ==
    ASSUME NEW a \in Int, NEW p \in Nat \ {0}, NEW q \in Nat \ {0}
    PROVE  /\ a \div (p * q) = (a \div p) \div q
           /\ a % (p * q) = p * ((a \div p) % q) + (a % p)
<1>. DEFINE e == a \div p
            r == a % p
            b == e \div q
            u == e % q
            d == p * q
            s == p * u + r
<1>1. e \in Int /\ r \in 0 .. p - 1 /\ a = p * e + r
  BY DivMod
<1>2. b \in Int /\ u \in 0 .. q - 1 /\ e = q * b + u
  BY <1>1, DivMod
<1>. HIDE DEF e, r, b, u
<1>3. d \in Nat \ {0} /\ s \in 0 .. d - 1
  BY <1>1, <1>2, ProductBound
<1>4. a = d * b + s
  <2>1. p * (q * b + u) + r = (p * q) * b + (p * u + r)
    BY <1>1, <1>2
  <2>. QED  BY <1>1, <1>2, <2>1
<1>. HIDE DEF d, s
<1>5. a \div d = b /\ a % d = s
  BY <1>2, <1>3, <1>4, DivModUnique
<1>. QED
  BY <1>5 DEF d, s, e, r, b, u

\* A remainder by a product determines the one by a factor and the bits above.
LEMMA ModMod ==
    ASSUME NEW a \in Int, NEW p \in Nat \ {0}, NEW q \in Nat \ {0}
    PROVE  (a % (p * q)) % p = a % p /\ (a % (p * q)) \div p = (a \div p) % q
<1>. DEFINE e == (a \div p) % q
            r == a % p
<1>1. e \in 0 .. q - 1 /\ r \in 0 .. p - 1
  BY DivMod
<1>2. a % (p * q) = p * e + r
  BY DivDiv
<1>. HIDE DEF e, r
<1>3. (p * e + r) \div p = e /\ (p * e + r) % p = r
  <2>1. p * e + r \in Int /\ e \in Int
    BY <1>1
  <2>. QED  BY <1>1, <2>1, DivModUnique
<1>. QED
  BY <1>2, <1>3 DEF e, r

\* Bits shifted in below leave those above in place.
LEMMA ShiftMod ==
    ASSUME NEW a \in Int, NEW p \in Nat \ {0}, NEW q \in Nat \ {0}, NEW r \in 0 .. p - 1
    PROVE  (a * p + r) % (p * q) = p * (a % q) + r
<1>1. (a * p + r) \div p = a /\ (a * p + r) % p = r
  BY ShiftAdd
<1>2. a * p + r \in Int
  OBVIOUS
<1>. QED
  BY <1>1, <1>2, DivDiv

-----------------------------------------------------------------------------
(* Numbers from their digits, of any base each.                            *)

\* h[k] = h[k - 1] * a[k] + b[k].
Horner(K, a, b) ==
    LET h[k \in 0 .. K] == IF k = 0 THEN 0 ELSE h[k - 1] * a[k] + b[k] IN h

LEMMA MulAddNat == \A x, y, z \in Nat : x * y + z \in Nat
OBVIOUS

LEMMA HornerDef ==
    ASSUME NEW K \in Nat, NEW a \in [1 .. K -> Nat], NEW b \in [1 .. K -> Nat]
    PROVE  /\ Horner(K, a, b) \in [0 .. K -> Nat]
           /\ Horner(K, a, b)[0] = 0
           /\ \A k \in 1 .. K : Horner(K, a, b)[k] = Horner(K, a, b)[k - 1] * a[k] + b[k]
<1>. DEFINE g == [p \in Nat \X Nat |-> IF p[1] \in 1 .. K THEN p[2] * a[p[1]] + b[p[1]] ELSE 0]
<1>1. \A k \in 1 .. K, v \in Nat : g[<<k, v>>] = v * a[k] + b[k]
  OBVIOUS
<1>2. g \in [Nat \X Nat -> Nat]
  <2>. SUFFICES ASSUME NEW p \in Nat \X Nat
                PROVE  (IF p[1] \in 1 .. K THEN p[2] * a[p[1]] + b[p[1]] ELSE 0) \in Nat
    OBVIOUS
  <2>1. ASSUME p[1] \in 1 .. K PROVE p[2] * a[p[1]] + b[p[1]] \in Nat
    <3>1. p[2] \in Nat /\ a[p[1]] \in Nat /\ b[p[1]] \in Nat
      BY <2>1
    <3>. QED  BY <3>1, MulAddNat, Zenon
  <2>. QED  BY <2>1
<1>. HIDE DEF g
<1>3. PICK f \in [0 .. K -> Nat] : IsRec(f, K, 0, g)
  <2>1. 0 \in Nat
    OBVIOUS
  <2>. QED  BY <1>2, <2>1, RecExists
<1>4. f[0] = 0 /\ \A k \in 1 .. K : f[k] = f[k - 1] * a[k] + b[k]
  <2>1. f[0] = 0 /\ \A k \in 1 .. K : f[k] = g[<<k, f[k - 1]>>]
    BY <1>3 DEF IsRec
  <2>2. ASSUME NEW k \in 1 .. K PROVE f[k - 1] \in Nat
    OBVIOUS
  <2>. QED  BY <1>1, <2>1, <2>2
<1>5. f = [k \in 0 .. K |-> IF k = 0 THEN 0 ELSE f[k - 1] * a[k] + b[k]]
  <2>1. ASSUME NEW k \in 0 .. K PROVE f[k] = IF k = 0 THEN 0 ELSE f[k - 1] * a[k] + b[k]
    BY <1>4
  <2>2. f = [k \in 0 .. K |-> f[k]]
    OBVIOUS
  <2>. QED  BY <2>1, <2>2, Zenon
<1>. DEFINE h == Horner(K, a, b)
<1>6. h = [k \in 0 .. K |-> IF k = 0 THEN 0 ELSE h[k - 1] * a[k] + b[k]]
  BY <1>5, Zenon DEF Horner
<1>. HIDE DEF h
<1>7. h[0] = 0 /\ \A k \in 1 .. K : h[k] = h[k - 1] * a[k] + b[k]
  <2>1. ASSUME NEW k \in 0 .. K PROVE h[k] = IF k = 0 THEN 0 ELSE h[k - 1] * a[k] + b[k]
    BY <1>6, Zenon
  <2>2. 0 \in 0 .. K /\ \A k \in 1 .. K : k \in 0 .. K /\ k # 0
    OBVIOUS
  <2>. QED  BY <2>1, <2>2
<1>8. \A k \in 0 .. K : h[k] = f[k]
  <2>. DEFINE T == {k \in 0 .. K : h[k] = f[k]}
  <2>1. 0 \in T
    BY <1>4, <1>7
  <2>2. ASSUME NEW k \in 0 .. K - 1, k \in T PROVE k + 1 \in T
    <3>1. k + 1 \in 1 .. K /\ k + 1 \in 0 .. K /\ (k + 1) - 1 = k
      OBVIOUS
    <3>2. h[k + 1] = h[k] * a[k + 1] + b[k + 1] /\ f[k + 1] = f[k] * a[k + 1] + b[k + 1]
      BY <1>4, <1>7, <3>1
    <3>. QED  BY <2>2, <3>1, <3>2
  <2>3. 0 .. K \subseteq T
    <3>. HIDE DEF T
    <3>. QED  BY <2>1, <2>2, InductionTo
  <2>. QED  BY <2>3
<1>9. h = f
  <2>. DEFINE E(k) == IF k = 0 THEN 0 ELSE h[k - 1] * a[k] + b[k]
  <2>1. h = [k \in 0 .. K |-> E(k)]
    BY <1>6
  <2>. HIDE DEF E
  <2>. QED  BY <1>8, <2>1
<1>. QED
  BY <1>4, <1>9 DEF h

\* Functions that start alike and take the same steps are alike.
Alike(f, h, K) == f[0] = h[0] /\ \A k \in 0 .. K - 1 : f[k] = h[k] => f[k + 1] = h[k + 1]

LEMMA SameSteps ==
    ASSUME NEW K \in Nat, NEW f, NEW h, Alike(f, h, K)
    PROVE  \A k \in 0 .. K : f[k] = h[k]
<1>. DEFINE T == {k \in 0 .. K : f[k] = h[k]}
<1>1. 0 \in T
  BY DEF Alike
<1>2. ASSUME NEW k \in 0 .. K - 1, k \in T PROVE k + 1 \in T
  <2>1. k + 1 \in 0 .. K
    OBVIOUS
  <2>. QED  BY <1>2, <2>1 DEF Alike
<1>3. 0 .. K \subseteq T
  <2>. HIDE DEF T
  <2>. QED  BY <1>1, <1>2, InductionTo
<1>. QED
  BY <1>3

\* Digits below the base are determined by the value.
LEMMA HornerInjective ==
    ASSUME NEW K \in Nat, NEW d \in Nat \ {0},
           NEW b \in [1 .. K -> 0 .. d - 1], NEW c \in [1 .. K -> 0 .. d - 1],
           Horner(K, [k \in 1 .. K |-> d], b)[K] = Horner(K, [k \in 1 .. K |-> d], c)[K]
    PROVE  b = c
<1>. DEFINE a == [k \in 1 .. K |-> d]
            f == Horner(K, a, b)
            h == Horner(K, a, c)
            T == {k \in 0 .. K : f[k] = h[k]}
<1>0. a \in [1 .. K -> Nat] /\ b \in [1 .. K -> Nat] /\ c \in [1 .. K -> Nat]
      /\ \A k \in 1 .. K : a[k] = d
  OBVIOUS
<1>. HIDE DEF a
<1>1. f \in [0 .. K -> Nat] /\ \A k \in 1 .. K : f[k] = f[k - 1] * a[k] + b[k]
  BY <1>0, HornerDef
<1>2. h \in [0 .. K -> Nat] /\ \A k \in 1 .. K : h[k] = h[k - 1] * a[k] + c[k]
  BY <1>0, HornerDef
<1>3. K \in T
  BY DEF a
<1>. HIDE DEF f, h
<1>4. ASSUME NEW k \in 0 .. K - 1, k + 1 \in T PROVE k \in T /\ b[k + 1] = c[k + 1]
  <2>1. k + 1 \in 1 .. K /\ k \in 0 .. K /\ (k + 1) - 1 = k
    OBVIOUS
  <2>2. f[k + 1] = f[k] * d + b[k + 1] /\ h[k + 1] = h[k] * d + c[k + 1]
    BY <1>0, <1>1, <1>2, <2>1
  <2>3. f[k] \in Int /\ h[k] \in Int /\ b[k + 1] \in 0 .. d - 1 /\ c[k + 1] \in 0 .. d - 1
    BY <1>1, <1>2, <2>1
  <2>0. \A x \in Int : \A y \in 0 .. d - 1 : (x * d + y) \div d = x /\ (x * d + y) % d = y
    BY ShiftAdd
  <2>4. (f[k] * d + b[k + 1]) \div d = f[k] /\ (f[k] * d + b[k + 1]) % d = b[k + 1]
    BY <2>3, <2>0, Zenon
  <2>5. (h[k] * d + c[k + 1]) \div d = h[k] /\ (h[k] * d + c[k + 1]) % d = c[k + 1]
    BY <2>3, <2>0, Zenon
  <2>6. f[k + 1] = h[k + 1]
    BY <1>4
  <2>. QED  BY <2>1, <2>2, <2>4, <2>5, <2>6
<1>5. 0 .. K \subseteq T
  <2>. HIDE DEF T
  <2>. QED  BY <1>3, <1>4, InductionDown
<1>6. ASSUME NEW k \in 1 .. K PROVE b[k] = c[k]
  <2>1. k - 1 \in 0 .. K - 1 /\ (k - 1) + 1 = k /\ k \in T
    BY <1>5
  <2>. QED  BY <1>4, <2>1
<1>. QED
  BY <1>6

-----------------------------------------------------------------------------
(* Sequences of digits.                                                    *)

IsConcat(z, w, u, S) ==
    /\ z \in Seq(S) /\ Len(z) = Len(w) + Len(u)
    /\ \A k \in 1 .. Len(w) : w[k] = z[k]
    /\ \A k \in 1 .. Len(u) : z[Len(w) + k] = u[k]

LEMMA Concat == ASSUME NEW S, NEW w \in Seq(S), NEW u \in Seq(S) PROVE IsConcat(w \o u, w, u, S)
BY DEF IsConcat

LEMMA ConcatUnique ==
    ASSUME NEW S, NEW w \in Seq(S), NEW u \in Seq(S), NEW z, IsConcat(z, w, u, S)
    PROVE  z = w \o u
<1>. DEFINE t == w \o u
            m == Len(w)
            n == Len(u)
<1>1. /\ t \in Seq(S) /\ Len(t) = m + n /\ m \in Nat /\ n \in Nat
      /\ \A k \in 1 .. m : w[k] = t[k]
      /\ \A k \in 1 .. n : t[m + k] = u[k]
  OBVIOUS
<1>2. /\ z \in Seq(S) /\ Len(z) = m + n
      /\ (\A k \in 1 .. m : w[k] = z[k]) /\ \A k \in 1 .. n : z[m + k] = u[k]
  BY DEF IsConcat
<1>. HIDE DEF t, m, n
<1>3. ASSUME NEW k \in 1 .. m + n PROVE z[k] = t[k]
  <2>1. CASE k \in 1 .. m
    BY <1>1, <1>2, <2>1
  <2>2. CASE k \notin 1 .. m
    <3>1. k - m \in 1 .. n /\ m + (k - m) = k
      BY <1>1, <2>2
    <3>. QED  BY <1>1, <1>2, <3>1
  <2>. QED  BY <2>1, <2>2
<1>4. z = t
  BY <1>1, <1>2, <1>3
<1>. QED
  BY <1>4 DEF t

\* The numbers of the first digits of w, in base d.
Digits(d, w) == Horner(Len(w), [k \in 1 .. Len(w) |-> d], w)

LEMMA DigitsDef ==
    ASSUME NEW d \in Nat \ {0}, NEW w \in Seq(Nat)
    PROVE  /\ Digits(d, w) \in [0 .. Len(w) -> Nat] /\ Digits(d, w)[0] = 0
           /\ \A k \in 1 .. Len(w) : Digits(d, w)[k] = Digits(d, w)[k - 1] * d + w[k]
<1>. DEFINE K == Len(w)
            a == [k \in 1 .. K |-> d]
<1>1. K \in Nat /\ w \in [1 .. K -> Nat]
  OBVIOUS
<1>2. a \in [1 .. K -> Nat] /\ \A k \in 1 .. K : a[k] = d
  OBVIOUS
<1>3. Digits(d, w) = Horner(K, a, w)
  BY DEF Digits
<1>. HIDE DEF K, a
<1>4. /\ Horner(K, a, w) \in [0 .. K -> Nat] /\ Horner(K, a, w)[0] = 0
      /\ \A k \in 1 .. K : Horner(K, a, w)[k] = Horner(K, a, w)[k - 1] * a[k] + w[k]
  BY <1>1, <1>2, HornerDef
<1>. QED
  BY <1>2, <1>3, <1>4 DEF K

LEMMA DigitsPrefix ==
    ASSUME NEW d \in Nat \ {0}, NEW w \in Seq(Nat), NEW u \in Seq(Nat), Len(w) <= Len(u),
           \A k \in 1 .. Len(w) : w[k] = u[k]
    PROVE  \A k \in 0 .. Len(w) : Digits(d, w)[k] = Digits(d, u)[k]
<1>. DEFINE K == Len(w)
            fn == Digits(d, w)
            hi == Digits(d, u)
<1>1. fn[0] = 0 /\ \A k \in 1 .. K : fn[k] = fn[k - 1] * d + w[k]
  BY DigitsDef
<1>2. hi[0] = 0 /\ \A k \in 1 .. Len(u) : hi[k] = hi[k - 1] * d + u[k]
  BY DigitsDef
<1>. HIDE DEF fn, hi
<1>3. ASSUME NEW k \in 0 .. K - 1, fn[k] = hi[k] PROVE fn[k + 1] = hi[k + 1]
  <2>1. k + 1 \in 1 .. K /\ k + 1 \in 1 .. Len(u) /\ (k + 1) - 1 = k
    OBVIOUS
  <2>2. fn[k + 1] = fn[k] * d + w[k + 1]
    BY <1>1, <2>1
  <2>3. hi[k + 1] = hi[k] * d + u[k + 1]
    BY <1>2, <2>1
  <2>. QED  BY <1>3, <2>1, <2>2, <2>3
<1>4. K \in Nat /\ Alike(fn, hi, K)
  BY <1>1, <1>2, <1>3 DEF Alike
<1>. HIDE DEF K
<1>5. \A k \in 0 .. K : fn[k] = hi[k]
  BY <1>4, SameSteps
<1>. QED
  BY <1>5 DEF K, fn, hi

LEMMA DigitsInjective ==
    ASSUME NEW d \in Nat \ {0}, NEW w \in Seq(0 .. d - 1), NEW u \in Seq(0 .. d - 1), Len(w) = Len(u),
           Digits(d, w)[Len(w)] = Digits(d, u)[Len(u)]
    PROVE  w = u
<1>. DEFINE K == Len(w)
<1>1. K \in Nat /\ d \in Nat \ {0} /\ w \in [1 .. K -> 0 .. d - 1] /\ u \in [1 .. K -> 0 .. d - 1]
  OBVIOUS
<1>2. Horner(K, [k \in 1 .. K |-> d], w)[K] = Horner(K, [k \in 1 .. K |-> d], u)[K]
  BY DEF Digits
<1>. HIDE DEF K
<1>. QED
  BY <1>1, <1>2, HornerInjective

LEMMA DigitsAppend ==
    ASSUME NEW d \in Nat \ {0}, NEW w \in Seq(Nat), NEW b \in Nat
    PROVE  Digits(d, Append(w, b))[Len(w) + 1] = Digits(d, w)[Len(w)] * d + b
<1>. DEFINE u == Append(w, b)
            K == Len(w)
<1>1. /\ u \in Seq(Nat) /\ Len(u) = K + 1 /\ K \in Nat /\ u[K + 1] = b
      /\ \A k \in 1 .. K : w[k] = u[k]
  OBVIOUS
<1>. HIDE DEF u
<1>2. \A k \in 0 .. K : Digits(d, w)[k] = Digits(d, u)[k]
  BY <1>1, DigitsPrefix
<1>3. \A k \in 1 .. Len(u) : Digits(d, u)[k] = Digits(d, u)[k - 1] * d + u[k]
  BY <1>1, DigitsDef
<1>4. K + 1 \in 1 .. Len(u) /\ (K + 1) - 1 = K /\ K \in 0 .. K
  BY <1>1
<1>5. Digits(d, u)[K + 1] = Digits(d, u)[K] * d + b
  BY <1>1, <1>3, <1>4
<1>. QED
  BY <1>2, <1>4, <1>5 DEF u

LEMMA DigitsNat == \A d \in Nat \ {0} : \A w \in Seq(0 .. d - 1) : w \in Seq(Nat)
<1>. SUFFICES ASSUME NEW d \in Nat \ {0}, NEW w \in Seq(0 .. d - 1) PROVE w \in Seq(Nat)
  OBVIOUS
<1>1. 0 .. d - 1 \subseteq Nat
  OBVIOUS
<1>2. w \in [1 .. Len(w) -> 0 .. d - 1] /\ Len(w) \in Nat
  OBVIOUS
<1>3. w \in [1 .. Len(w) -> Nat]
  BY <1>1, <1>2
<1>. QED
  BY <1>2, <1>3

\* The bits of a below bit top, from the highest, in m groups of b bits.
Groups(a, top, b, m) == [k \in 1 .. m |-> (a \div Pow2[top - k * b]) % Pow2[b]]

\* The sequence u continues w with m digits, which stand for the bits of a
\* from top down to l.
Continues(w, u, d, m, a, top, l) ==
    /\ u \in Seq(0 .. d - 1) /\ Len(u) = Len(w) + m
    /\ Digits(d, u)[Len(u)] * Pow2[l] + (a % Pow2[l])
         = Digits(d, w)[Len(w)] * Pow2[top] + (a % Pow2[top])

\* The bits below a power of two, one group at a time.
LEMMA GroupsValue ==
    ASSUME NEW b \in Nat, NEW w \in Seq(0 .. Pow2[b] - 1), NEW a \in Nat, NEW top \in Nat,
           NEW m \in Nat, m * b <= top
    PROVE  Continues(w, w \o Groups(a, top, b, m), Pow2[b], m, a, top, top - m * b)
<1>. DEFINE L == Len(w)
            full == Groups(a, top, b, m)
            u == w \o full
            B == Pow2[b]
            v == Digits(B, u)
            S == 0 .. B - 1
            R(k) == top - k * b
            X == Digits(B, w)[L] * Pow2[top] + (a % Pow2[top])
            T == {k \in 0 .. m : v[L + k] * Pow2[R(k)] + (a % Pow2[R(k)]) = X}
<1>1. L \in Nat /\ B \in Nat \ {0}
  BY Pow2Nat
<1>2. ASSUME NEW k \in 0 .. m PROVE R(k) \in Nat /\ Pow2[R(k)] \in Nat \ {0}
  <2>1. k * b <= m * b
    OBVIOUS
  <2>2. R(k) \in Nat
    BY <2>1
  <2>. QED  BY <2>2, Pow2Nat
<1>3. \A k \in 1 .. m : full[k] = (a \div Pow2[R(k)]) % B
  BY DEF Groups
<1>4. ASSUME NEW k \in 1 .. m PROVE (a \div Pow2[R(k)]) % B \in S
  <2>. DEFINE e == Pow2[R(k)]
  <2>1. e \in Nat \ {0}
    BY <1>2
  <2>. HIDE DEF e
  <2>2. a \div e \in Int
    BY <2>1, DivNat
  <2>3. (a \div e) % B \in 0 .. B - 1
    BY <1>1, <2>2, DivMod, Zenon
  <2>. QED  BY <2>3 DEF e
<1>5. full \in Seq(S) /\ Len(full) = m
  <2>1. full \in [1 .. m -> S]
    BY <1>4 DEF Groups
  <2>. HIDE DEF full, S
  <2>. QED  BY <2>1
<1>. HIDE DEF full
<1>6. /\ u \in Seq(S) /\ Len(u) = L + m
      /\ \A k \in 1 .. L : w[k] = u[k]
      /\ \A k \in 1 .. m : u[L + k] = full[k]
  <2>1. w \in Seq(S)
    OBVIOUS
  <2>. HIDE DEF S
  <2>2. /\ w \o full \in Seq(S) /\ Len(w \o full) = Len(w) + Len(full)
        /\ \A k \in 1 .. Len(w) : w[k] = (w \o full)[k]
        /\ \A k \in 1 .. Len(full) : (w \o full)[Len(w) + k] = full[k]
    BY <1>5, <2>1
  <2>. QED  BY <1>5, <2>2, Zenon
<1>7. w \in Seq(Nat) /\ u \in Seq(Nat)
  BY <1>1, <1>6, DigitsNat
<1>. HIDE DEF u
<1>8. v \in [0 .. L + m -> Nat] /\ \A k \in 1 .. L + m : v[k] = v[k - 1] * B + u[k]
  <2>. HIDE DEF B
  <2>. QED  BY <1>1, <1>6, <1>7, DigitsDef
<1>9. v[L] = Digits(B, w)[L]
  <2>. HIDE DEF B
  <2>1. \A k \in 0 .. L : Digits(B, w)[k] = Digits(B, u)[k]
    <3>1. L <= Len(u)
      BY <1>1, <1>6
    <3>. QED  BY <3>1, <1>1, <1>6, <1>7, DigitsPrefix
  <2>. QED  BY <1>1, <2>1
<1>. HIDE DEF v
<1>10. 0 \in T
  <2>1. R(0) = top /\ L + 0 = L
    BY <1>1
  <2>. HIDE DEF R
  <2>. QED  BY <1>1, <1>9, <2>1
<1>11. ASSUME NEW k \in 0 .. m - 1, k \in T PROVE k + 1 \in T
  <2>. DEFINE e == Pow2[R(k + 1)]
              c == (a \div e) % B
  <2>1. k \in 0 .. m /\ k + 1 \in 1 .. m /\ k + 1 \in 0 .. m /\ R(k) = R(k + 1) + b
    BY <1>1
  <2>2. R(k + 1) \in Nat /\ e \in Nat \ {0} /\ R(k) \in Nat
    BY <1>2, <2>1
  <2>3. Pow2[R(k)] = e * B
    BY <1>1, <2>1, <2>2, Pow2Add
  <2>. HIDE DEF e, B
  <2>4. c \in Nat /\ a % e \in Nat
    <3>1. a \div e \in Int
      BY <2>2, DivNat
    <3>2. c \in 0 .. B - 1
      BY <1>1, <3>1, DivMod, Zenon
    <3>0. a \in Int
      OBVIOUS
    <3>3. a % e \in 0 .. e - 1
      BY <2>2, <3>0, DivMod, Zenon
    <3>. HIDE DEF c
    <3>. QED  BY <1>1, <2>2, <3>2, <3>3
  <2>5. a % (e * B) = e * c + (a % e)
    <3>1. a \in Int
      OBVIOUS
    <3>. QED  BY <1>1, <2>2, <3>1, DivDiv, Zenon
  <2>. HIDE DEF c, R
  <2>6. v[L + (k + 1)] = v[L + k] * B + c
    <3>1. L + (k + 1) \in 1 .. L + m /\ (L + (k + 1)) - 1 = L + k
      BY <1>1
    <3>2. v[L + (k + 1)] = v[L + k] * B + u[L + (k + 1)]
      BY <1>8, <3>1
    <3>3. u[L + (k + 1)] = c
      BY <1>3, <1>6, <2>1 DEF c, e
    <3>. QED  BY <3>2, <3>3
  <2>7. v[L + k] \in Nat
    BY <1>1, <1>8
  <2>8. v[L + k] * (e * B) + (a % (e * B)) = X
    <3>1. v[L + k] * Pow2[R(k)] + (a % Pow2[R(k)]) = X
      BY <1>11
    <3>. QED  BY <2>3, <3>1
  <2>. HIDE DEF X
  <2>9. ASSUME NEW x \in Nat, NEW y \in Nat, NEW z \in Nat, NEW f \in Nat, NEW r \in Nat
        PROVE  (x * y + z) * f + r = x * (f * y) + (f * z + r)
    OBVIOUS
  <2>10. (v[L + k] * B + c) * e + (a % e) = v[L + k] * (e * B) + (e * c + (a % e))
    <3>1. B \in Nat /\ e \in Nat
      BY <1>1, <2>2
    <3>. DEFINE x == v[L + k]
                r == a % e
    <3>2. x \in Nat /\ r \in Nat
      BY <2>4, <2>7
    <3>. HIDE DEF x, r
    <3>3. (x * B + c) * e + r = x * (e * B) + (e * c + r)
      BY <2>4, <2>9, <3>1, <3>2
    <3>. QED  BY <3>3 DEF x, r
  <2>11. v[L + (k + 1)] * Pow2[R(k + 1)] + (a % Pow2[R(k + 1)]) = X
    BY <2>5, <2>6, <2>8, <2>10 DEF e
  <2>. QED  BY <2>1, <2>11
<1>12. m \in T
  <2>1. 0 .. m \subseteq T
    <3>. HIDE DEF T
    <3>. QED  BY <1>10, <1>11, InductionTo
  <2>. HIDE DEF T
  <2>. QED  BY <2>1
<1>13. v[L + m] * Pow2[R(m)] + (a % Pow2[R(m)]) = X
  <2>. HIDE DEF R, X
  <2>. QED  BY <1>12
<1>14. Digits(B, u)[Len(u)] * Pow2[R(m)] + (a % Pow2[R(m)]) = X
  BY <1>6, <1>13, Zenon DEF v
<1>. QED
  BY <1>6, <1>14, Zenon DEF Continues, u, full

\* An accumulator of some width after bits more bits.
Shifted(a, bits, x, width) == (a * Pow2[bits] + x) % Pow2[width]

\* Shifting into the accumulator keeps the pending bits, as long as they fit.
LEMMA ShiftInLow ==
    ASSUME NEW a \in Nat, NEW width \in Nat, NEW bits \in Nat, NEW alen \in Nat, NEW x \in 0 .. Pow2[bits] - 1,
           alen + bits <= width
    PROVE  /\ Shifted(a, bits, x, width) \in Nat
           /\ Shifted(a, bits, x, width) % Pow2[alen + bits] = (a % Pow2[alen]) * Pow2[bits] + x
<1>. DEFINE p == Pow2[bits]
            r == Pow2[alen]
            y == a * p + x
            rest == width - (alen + bits)
            e == Pow2[rest]
            d == p * r
<1>1. rest \in Nat /\ width = (alen + bits) + rest /\ alen + bits = bits + alen
  OBVIOUS
<1>2. p \in Nat \ {0} /\ r \in Nat \ {0} /\ e \in Nat \ {0}
  BY <1>1, Pow2Nat
<1>3. Pow2[alen + bits] = d
  BY <1>1, Pow2Add
<1>4. Pow2[width] = Pow2[alen + bits] * e
  <2>1. alen + bits \in Nat
    OBVIOUS
  <2>. QED  BY <1>1, <2>1, Pow2Add
<1>5. Shifted(a, bits, x, width) = y % (d * e)
  BY <1>3, <1>4 DEF Shifted
<1>. HIDE DEF p, r, e, rest
<1>6. y \in Int /\ x \in 0 .. p - 1 /\ d \in Nat \ {0}
  BY <1>2 DEF p
<1>7. d * e \in Nat \ {0}
  BY <1>2, <1>6
<1>8. y % (d * e) \in Nat
  <2>1. y % (d * e) \in 0 .. (d * e) - 1
    BY <1>6, <1>7, DivMod, Zenon
  <2>. QED  BY <1>7, <2>1
<1>9. (y % (d * e)) % d = y % d
  BY <1>2, <1>6, ModMod, Zenon
<1>10. y % d = p * (a % r) + x
  <2>1. a \in Int
    OBVIOUS
  <2>. QED  BY <1>2, <1>6, <2>1, ShiftMod, Zenon
<1>11. a % r \in Nat
  BY <1>2, DivMod
<1>12. p * (a % r) = (a % r) * p
  BY <1>2, <1>11
<1>. QED
  BY <1>3, <1>5, <1>8, <1>9, <1>10, <1>12 DEF p, r

=============================================================================
