----------------------------- MODULE FndsaKeys ------------------------------
(***************************************************************************)
(* FN-DSA keys from the generator to the signer: keygen_inner samples f    *)
(* and g until they pass its tests, encode_keypair packs f, g and F into a *)
(* signing key with a number of bits that depends on the degree, and a     *)
(* signer decodes it.  A key may also come from a file: any byte string.   *)
(*                                                                         *)
(* Bits, tables and bounds are the program's for every degree; a           *)
(* polynomial has N coefficients instead of 2^logn, so its size in bytes   *)
(* is that of N coefficients.  The tests of keygen_inner that need the     *)
(* whole polynomial (invertible, orthogonalized norm, NTRU equation) may   *)
(* go either way.                                                          *)
(*                                                                         *)
(* degree      logarithm of the degree asked for, or in the key's header   *)
(* weak        the signer is one for weak keys                             *)
(* origin      "keygen" or "file"                                          *)
(* kf, kg, kF  the secret polynomials generated                            *)
(* skey        the signing key                                             *)
(* loaded      what the signer decoded: f, g and F                         *)
(* pc          where the generation or the decoding is, or how it ended    *)
(***************************************************************************)
EXTENDS Powers, Sequences

CONSTANTS
    N,          \* coefficients of a polynomial
    LogNs,      \* degrees asked for
    SmallPolys, \* polynomials f, g and F are chosen from
    FileKeys,   \* byte strings a key file can hold
    AccWidth    \* bits of the accumulator: 32

VARIABLES degree, weak, origin, kf, kg, kF, skey, loaded, pc

keysVars == <<degree, weak, origin, kf, kg, kF, skey, loaded, pc>>

-----------------------------------------------------------------------------
Byte == 8

nbits_fg(lg) == CASE lg \in 2 .. 5 -> 8 [] lg \in 6 .. 7 -> 7
                  [] lg \in 8 .. 9 -> 6 [] OTHER -> 5

\* Half the length of the table: 24, 17 and 12.
kmax(lg) == CASE lg = 9 -> 17 [] lg = 10 -> 12 [] OTHER -> 24

\* Samples of the table for degree 256 that are added up.
zz(lg) == IF lg \in {9, 10} THEN 1 ELSE Pow2[8 - lg]

\* (nbits * n) / 8, rounded up by the decoder.
Needed(nbits) == (nbits * N + 7) \div Byte

SigningKeySize(lg) == 1 + 2 * Needed(nbits_fg(lg)) + N

\* Polynomials fill whole bytes, as 2^logn coefficients do, and an accumulator
\* holds what is left of one byte or coefficient and the next.
ASSUME KeysAssumption ==
    /\ N \in Nat \ {0} /\ LogNs \subseteq 2 .. 10
    /\ \A lg \in LogNs : (nbits_fg(lg) * N) % Byte = 0
    /\ SmallPolys \subseteq [1 .. N -> Int]
    /\ FileKeys \subseteq Seq(0 .. 255)
    /\ AccWidth \in Nat /\ AccWidth >= 15

\* The full bytes in an accumulator of alen bits.
Pack(a, alen) == [k \in 1 .. alen \div Byte |-> (a \div Pow2[alen - k * Byte]) % Pow2[Byte]]

\* One more coefficient; its value is truncated to nbits.
Put(st, x, nbits) ==
    LET a == (st.acc * Pow2[nbits] + (x % Pow2[nbits])) % Pow2[AccWidth]
        alen == st.len + nbits
    IN  [acc |-> a, len |-> alen % Byte, dst |-> st.dst \o Pack(a, alen)]

\* The encoder after i coefficients.
Encoding(p, nbits) ==
    LET st[i \in 0 .. N] == IF i = 0 THEN [acc |-> 0, len |-> 0, dst |-> <<>>]
                            ELSE Put(st[i - 1], p[i], nbits)
    IN  st

trim_i8_encode(p, nbits) == Encoding(p, nbits)[N].dst

\* The coefficient a decoded field stands for.
SignExtend(w, nbits) == IF w >= Pow2[nbits - 1] THEN w - Pow2[nbits] ELSE w

ValidCoeff(x, nbits) == x # -Pow2[nbits - 1]

\* The fields the accumulator yields after one more byte, at most N in all.
Take(st, b, nbits) ==
    LET a == (st.acc * Pow2[Byte] + b) % Pow2[AccWidth]
        alen == st.len + Byte
        some == alen \div nbits
        count == IF Len(st.p) + some > N THEN N - Len(st.p) ELSE some
        fields == [k \in 1 .. count |->
                      SignExtend((a \div Pow2[alen - k * nbits]) % Pow2[nbits], nbits)]
    IN  [acc |-> a, len |-> alen - count * nbits, p |-> st.p \o fields,
         ok |-> st.ok /\ \A k \in 1 .. count : ValidCoeff(fields[k], nbits)]

\* The decoder after j bytes.
Decoding(s, nbits) ==
    LET st[j \in 0 .. Needed(nbits)] ==
            IF j = 0 THEN [acc |-> 0, len |-> 0, p |-> <<>>, ok |-> TRUE]
            ELSE Take(st[j - 1], s[j], nbits)
    IN  st

trim_i8_decode(s, nbits) ==
    LET end == Decoding(s, nbits)[Needed(nbits)]
    IN  IF Len(s) < Needed(nbits) THEN [ok |-> FALSE, p |-> <<>>]
        ELSE [ok |-> end.ok /\ end.acc % Pow2[end.len] = 0, p |-> end.p]

-----------------------------------------------------------------------------
Abs(x) == IF x < 0 THEN -x ELSE x

Total(p) == LET s[i \in 0 .. N] == IF i = 0 THEN 0 ELSE s[i - 1] + p[i] IN s[N]
SqNorm(p) == Total([i \in 1 .. N |-> p[i] * p[i]])

Unset == <<>>

\* Variant: the sampled value is used as it is.
InRangeAny(x, lg) == Abs(x) <= zz(lg) * kmax(lg)

\* What a sum of zz samples can be, less the values that are skipped.
InRange(x, lg) == Abs(x) <= zz(lg) * kmax(lg) /\ Abs(x) <= 127

KeysInit ==
    /\ kf = Unset /\ kg = Unset /\ kF = Unset /\ loaded = Unset
    /\ degree \in LogNs
    /\ \/ origin = "keygen" /\ skey = <<>> /\ pc = "sample" /\ weak = (degree <= 8)
       \/ /\ origin = "file" /\ pc = "load" /\ weak \in BOOLEAN
          /\ skey \in FileKeys
          /\ skey # <<>> => skey[1] % 16 = degree

\* sample_f: loop until the parity is odd.
sample_f(p) == /\ \A k \in 1 .. N : InRange(p[k], degree)
               /\ Total(p) % 2 = 1

Sample ==
    /\ pc = "sample"
    /\ kf' \in {p \in SmallPolys : sample_f(p)}
    /\ kg' \in {p \in SmallPolys : sample_f(p)}
    /\ pc' = "test"
    /\ UNCHANGED <<degree, weak, origin, kF, skey, loaded>>

\* The norm, the invertibility of f, the orthogonalized norm.
TestFails ==
    /\ pc = "test"
    /\ kf' = Unset /\ kg' = Unset
    /\ pc' = "sample"
    /\ UNCHANGED <<degree, weak, origin, kF, skey, loaded>>

\* The NTRU equation has a solution with F and G in [-127, 127].
Solve ==
    /\ pc = "test"
    /\ SqNorm(kf) + SqNorm(kg) < 16823
    /\ kF' \in {p \in SmallPolys : \A k \in 1 .. N : Abs(p[k]) <= 127}
    /\ pc' = "encode"
    /\ UNCHANGED <<degree, weak, origin, kf, kg, skey, loaded>>

SigningKey(lg, f, g, F) ==
    <<80 + lg>> \o trim_i8_encode(f, nbits_fg(lg)) \o trim_i8_encode(g, nbits_fg(lg))
                \o trim_i8_encode(F, Byte)

encode_keypair ==
    /\ pc = "encode"
    /\ skey' = SigningKey(degree, kf, kg, kF)
    /\ pc' = "load"
    /\ UNCHANGED <<degree, weak, origin, kf, kg, kF, loaded>>

SizeMatches(lg) == Len(skey) = SigningKeySize(lg)

\* The signer on a key: header, degree and length, then the polynomials.
\* newPrecomputedSignerInner makes the same checks in the same order.
Load ==
    LET lg == skey[1] % 16
        off == Needed(nbits_fg(lg))
        df == trim_i8_decode(Tail(skey), nbits_fg(lg))
        dg == trim_i8_decode(SubSeq(skey, 2 + off, Len(skey)), nbits_fg(lg))
        dF == trim_i8_decode(SubSeq(skey, 2 + 2 * off, Len(skey)), Byte)
        accepted == /\ skey # <<>>
                    /\ skey[1] \div 16 = 5
                    /\ lg \in (IF weak THEN 2 .. 8 ELSE 9 .. 10)
                    /\ SizeMatches(lg)
                    /\ df.ok /\ dg.ok /\ dF.ok
    IN  /\ pc = "load"
        /\ \/ ~accepted /\ pc' = "refused" /\ UNCHANGED loaded
           \/ accepted /\ pc' = "loaded" /\ loaded' = <<df.p, dg.p, dF.p>>
        /\ UNCHANGED <<degree, weak, origin, kf, kg, kF, skey>>

KeysNext == Sample \/ TestFails \/ Solve \/ encode_keypair \/ Load

KeysSpec == KeysInit /\ [][KeysNext]_keysVars

-----------------------------------------------------------------------------
(* Properties.                                                             *)

\* A signing key has one length per degree; the buffers made with that length
\* are filled, not overrun.
KeyHasItsSize ==
    origin = "keygen" /\ skey # <<>> => Len(skey) = SigningKeySize(degree)

\* The coefficients of f and g have a code in the bits of the degree.
KeyFits ==
    \A c \in 1 .. N : LET bound == Pow2[nbits_fg(degree) - 1]
                      IN  Abs(kf[c]) < bound /\ Abs(kg[c]) < bound

\* The signer decodes a generated key to the f, g and F that were generated.
GeneratedDecodes == pc = "loaded" /\ loaded = <<kf, kg, kF>>

\* A generated key is decoded to what was generated exactly if f and g were not
\* truncated; and only for degree 64, where a sum of four samples reaches 96 and
\* a field holds 63, does the generator leave them too large.
GeneratedKeyLoads ==
    origin = "keygen" /\ pc \in {"loaded", "refused"} =>
        /\ GeneratedDecodes <=> KeyFits
        /\ degree # 6 => KeyFits

\* KeyGen, of every degree it takes: "Degree has been checked and a 32-byte seed
\* has been obtained; now, the process cannot fail."  The key pair it returns is
\* that of the polynomials it generated.
KeyGenCannotFail ==
    origin = "keygen" /\ pc \in {"loaded", "refused"} => GeneratedDecodes

\* Two different signing keys are never decoded to the same polynomials: a key
\* a signer accepts is the one the encoder writes for what was decoded.
LoadedKeyIsCanonical ==
    pc = "loaded" => skey = SigningKey(degree, loaded[1], loaded[2], loaded[3])

\* A signing key fills its buffer, a signer loads the key that was generated
\* unless it was truncated, and accepts only keys in the form the encoder writes.
KeysRoundTrip == KeyHasItsSize /\ GeneratedKeyLoads /\ LoadedKeyIsCanonical
=============================================================================
