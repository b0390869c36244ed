----------------------------- MODULE FndsaCodec -----------------------------
(***************************************************************************)
(* The compressed (Golomb-Rice) format of a signature polynomial, with the *)
(* accumulator of comp_encode and comp_decode.  A behaviour is a round     *)
(* trip: either a polynomial is encoded and what was written is decoded,   *)
(* or a byte string is decoded and what was read is encoded again.         *)
(*                                                                         *)
(* The program has bytes of 8 bits, an accumulator of 32, coefficients up  *)
(* to 2047 and 512 of them; here these are parameters.                     *)
(*                                                                         *)
(* first          which half of the round trip comes first                 *)
(* phase          where the call is, or how it ended                       *)
(* poly           the coefficients: source of the encoder, or those the    *)
(*                decoder has produced                                     *)
(* src            the byte string: written by the encoder, read by decoder *)
(* out            what the second half has produced so far                 *)
(* acc, acc_len   the accumulator and its number of pending bits           *)
(* idx            coefficients encoded or bytes read so far                *)
(* neg, mag       sign and absolute value of the coefficient being decoded *)
(* len            length of the slice                                      *)
(***************************************************************************)
EXTENDS Powers, Sequences

CONSTANTS
    Byte,       \* bits in a byte: 8
    AccWidth,   \* bits in the accumulator: 32
    MaxAbs,     \* largest encodable absolute value: 2047
    NCoeffs,    \* coefficients of a polynomial
    Lengths     \* lengths of the destination or source slice

VARIABLES first, phase, poly, src, out, acc, acc_len, idx, neg, mag, len

codecVars == <<first, phase, poly, src, out, acc, acc_len, idx, neg, mag, len>>

-----------------------------------------------------------------------------
Low == Pow2[Byte - 1]       \* the low bits kept next to the sign: 0x80

Bytes == 0 .. Pow2[Byte] - 1

Abs(x) == IF x < 0 THEN -x ELSE x

\* Shift left and or, truncated to the accumulator's width.
ShiftIn(a, bits, x) == (a * Pow2[bits] + x) % Pow2[AccWidth]

\* dst[j] = uint8(acc >> acc_len), for every full byte in the accumulator.
FullBytes(a, alen) ==
    [k \in 1 .. alen \div Byte |-> (a \div Pow2[alen - k * Byte]) % Pow2[Byte]]

\* Sign bit, low bits, then a unary high part ended by a one.
CoeffBits(x) == Byte + Abs(x) \div Low + 1

PutCoeff(a, x) ==
    ShiftIn(ShiftIn(a, Byte, (IF x < 0 THEN Low ELSE 0) + (Abs(x) % Low)),
            Abs(x) \div Low + 1, 1)

\* A byte and the longest code fit the accumulator after the pending bits, as
\* the comment in comp_encode says: 7 + 24 <= 32.
ASSUME CodecAssumption ==
    /\ Byte \in Nat \ {0, 1} /\ NCoeffs \in Nat \ {0} /\ Lengths \subseteq Nat \ {0}
    /\ MaxAbs \in Nat /\ MaxAbs >= Low - 1
    /\ AccWidth \in Nat /\ AccWidth >= (Byte - 1) + CoeffBits(MaxAbs)

-----------------------------------------------------------------------------
InRange == -MaxAbs .. MaxAbs

\* One value past either end of the encodable range is enough to be refused.
Polynomials == [1 .. NCoeffs -> -(MaxAbs + 1) .. MaxAbs + 1]

CodecInit ==
    /\ len \in Lengths
    /\ acc = 0 /\ acc_len = 0 /\ idx = 0 /\ neg = 0 /\ mag = 0
    /\ out = <<>>
    /\ \/ first = "encode" /\ phase = "coeff" /\ poly \in Polynomials /\ src = <<>>
       \/ first = "decode" /\ phase = "byte" /\ src \in [1 .. len -> Bytes] /\ poly = <<>>

\* The encoder writes src in the first half and out in the second; the
\* decoder fills poly in the first half and out in the second.
Written == IF first = "encode" THEN src ELSE out
Write(w) == IF first = "encode" THEN src' = w /\ UNCHANGED out
                                ELSE out' = w /\ UNCHANGED src
Decoded == IF first = "encode" THEN out ELSE poly
Decode(f) == IF first = "encode" THEN out' = f /\ UNCHANGED poly
                                 ELSE poly' = f /\ UNCHANGED out

\* Not (j >= len(dst)) for any byte of w.
Fits(w) == Len(w) <= len

Reset == acc' = 0 /\ acc_len' = 0 /\ idx' = 0 /\ neg' = 0 /\ mag' = 0

Refuse == /\ phase' = "refused"
          /\ UNCHANGED <<first, poly, src, out, acc, acc_len, idx, neg, mag, len>>

\* comp_encode, one coefficient: range check, accumulate, output full bytes.
EncodeCoeff ==
    LET x == poly[idx + 1]
        a == PutCoeff(acc, x)
        alen == acc_len + CoeffBits(x)
        full == FullBytes(a, alen)
    IN  /\ phase = "coeff" /\ idx < NCoeffs
        /\ \/ x \notin InRange /\ Refuse
           \/ x \in InRange /\ ~Fits(Written \o full) /\ Refuse
           \/ /\ x \in InRange /\ Fits(Written \o full)
              /\ Write(Written \o full)
              /\ acc' = a /\ acc_len' = alen % Byte /\ idx' = idx + 1
              /\ UNCHANGED <<first, phase, poly, neg, mag, len>>

\* comp_encode, after the loop: flush the pending bits and pad with zeros.
Flush ==
    LET last == IF acc_len > 0 THEN <<(acc * Pow2[Byte - acc_len]) % Pow2[Byte]>> ELSE <<>>
        w == Written \o last
    IN  /\ phase = "coeff" /\ idx = NCoeffs
        /\ \/ ~Fits(w) /\ Refuse
           \/ /\ Fits(w)
              /\ Write(w \o [k \in 1 .. len - Len(w) |-> 0])
              /\ Reset
              /\ phase' = IF first = "encode" THEN "byte" ELSE "done"
              /\ UNCHANGED <<first, poly, len>>

Reject == /\ phase' = "rejected"
          /\ UNCHANGED <<first, poly, src, out, acc, acc_len, idx, neg, mag, len>>

\* comp_decode, start of a coefficient: the sign and the low bits.
DecodeByte ==
    LET a == ShiftIn(acc, Byte, src[idx + 1])
    IN  /\ phase = "byte" /\ Len(Decoded) < NCoeffs
        /\ \/ idx >= len /\ Reject
           \/ /\ idx < len
              /\ acc' = a /\ idx' = idx + 1
              /\ neg' = (a \div Pow2[acc_len + Byte - 1]) % 2
              /\ mag' = (a \div Pow2[acc_len]) % Low
              /\ phase' = "unary"
              /\ UNCHANGED <<first, poly, src, out, acc_len, len>>

\* Variant: minus zero is read as zero.
DeliverMinusZero(sign, abs) ==
    phase' = "byte" /\ Decode(Append(Decoded, IF sign = 1 THEN -abs ELSE abs))

\* A complete coefficient: "minus zero" is rejected.
Deliver(sign, abs) ==
    IF sign = 1 /\ abs = 0
    THEN phase' = "rejected" /\ UNCHANGED <<poly, out>>
    ELSE phase' = "byte" /\ Decode(Append(Decoded, IF sign = 1 THEN -abs ELSE abs))

\* comp_decode, the loop over the unary part: one round per bit.
DecodeUnary ==
    LET refill == acc_len = 0
        a == IF refill THEN ShiftIn(acc, Byte, src[idx + 1]) ELSE acc
        alen == (IF refill THEN Byte ELSE acc_len) - 1
    IN  /\ phase = "unary"
        /\ \/ refill /\ idx >= len /\ Reject
           \/ /\ refill => idx < len
              /\ acc' = a /\ acc_len' = alen
              /\ idx' = IF refill THEN idx + 1 ELSE idx
              /\ \/ /\ (a \div Pow2[alen]) % 2 = 1
                    /\ Deliver(neg, mag)
                    /\ UNCHANGED mag
                 \/ /\ (a \div Pow2[alen]) % 2 = 0
                    /\ mag' = mag + Low
                    /\ phase' = IF mag + Low > MaxAbs THEN "rejected" ELSE "unary"
                    /\ UNCHANGED <<poly, out>>
              /\ UNCHANGED <<first, src, neg, len>>

\* The unused bits of the accumulator and the unread bytes are all zero.
PaddingIsZero ==
    /\ acc % Pow2[acc_len] = 0
    /\ \A k \in idx + 1 .. len : src[k] = 0

DecodePadding ==
    /\ phase = "byte" /\ Len(Decoded) = NCoeffs
    /\ \/ ~PaddingIsZero /\ Reject
       \/ /\ PaddingIsZero
          /\ Reset
          /\ phase' = IF first = "encode" THEN "done" ELSE "coeff"
          /\ UNCHANGED <<first, poly, src, out, len>>

CodecNext == EncodeCoeff \/ Flush \/ DecodeByte \/ DecodeUnary \/ DecodePadding

CodecSpec == CodecInit /\ [][CodecNext]_codecVars

-----------------------------------------------------------------------------
(* Properties.                                                             *)

\* What comp_encode wrote decodes to the polynomial it was given: no bit is
\* lost in the accumulator, the padding is recognised as such.
EncodedDecodes ==
    first = "encode" =>
        /\ phase # "rejected"
        /\ phase = "done" => out = poly

\* "each such integer has a unique valid encoding": whatever bytes comp_decode
\* accepts are the ones comp_encode writes for the polynomial it returned, so
\* a signature cannot be rewritten into another accepted one.
DecodedIsCanonical ==
    first = "decode" =>
        /\ phase # "refused"
        /\ phase = "done" => out = src

\* Where the code of each coefficient ends.
Ends(p) ==
    LET e[k \in 0 .. Len(p)] == IF k = 0 THEN 0 ELSE e[k - 1] + CoeffBits(p[k]) IN e

CodeLength(p) == Ends(p)[Len(p)]

\* comp_encode refuses exactly the polynomials that are out of range or whose
\* code does not fit the slice, wherever in the slice the overflow is noticed.
RefusesWhatDoesNotFit ==
    LET fits == /\ \A k \in 1 .. NCoeffs : poly[k] \in InRange
                /\ CodeLength(poly) <= Byte * len
    IN  first = "encode" =>
            /\ phase = "refused" => ~fits
            /\ phase = "done" => fits

\* comp_encode and comp_decode lose nothing, accept one encoding of each
\* polynomial, and refuse exactly what is out of range or does not fit.
CodecCanonical == EncodedDecodes /\ DecodedIsCanonical /\ RefusesWhatDoesNotFit
=============================================================================
