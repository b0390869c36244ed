----------------------------- MODULE FndsaSign ------------------------------
(***************************************************************************)
(* Signing and verifying.  Two signers, the dynamic one and the one with   *)
(* precomputed key material, sign the same message from the same seed and  *)
(* run concurrently; each loops until it has a short vector that can be    *)
(* encoded.  What either returns is then verified.                         *)
(*                                                                         *)
(* The lattice is the program's for degree 1: f, g, F, G are integers with *)
(* f*G - g*F = q.  The hash and the sampler are fixed by seed and counter  *)
(* but otherwise arbitrary: whatever integers z0, z1 the Fourier sampling  *)
(* yields, the rest of the loop must produce a signature that verifies.    *)
(* The floating point computation of z0*b0 + z1*b1 is taken to be exact.   *)
(*                                                                         *)
(* req        how the message is hashed                                    *)
(* draw       per counter: the hashed point c, and what the sampler yields *)
(* at, cnt    per signer: next step, loop counter                          *)
(* s1, s2     per signer: the candidate vector                             *)
(* sig        per signer: the signature returned                           *)
(* verdict    per signer: what verify_inner said of it                     *)
(***************************************************************************)
EXTENDS Integers

CONSTANTS
    Modulus,                \* q
    f, g, BigF, BigG,       \* key
    Points, Samples,        \* hashed points, and integers sampled
    MaxCounter,             \* bound on the loop counter
    Bound,                  \* sqbeta[logn], the bound on the squared norm
    HalfWord,               \* half the range of a word: 2^31
    IntRange,               \* half the range of an int16: 2^15
    MaxCoeff                \* largest coefficient that fits the signature

-----------------------------------------------------------------------------
Draws == [c : Points, z0 : Samples, z1 : Samples]

\* The vector that a draw stands for.
Vector1(d) == d.c - (d.z0 * g + d.z1 * BigG)
Vector2(d) == d.z0 * f + d.z1 * BigF

\* The key solves the equation, f is invertible modulo q (key generation sees to
\* both), and the bound is below the range of an int16 squared.  Nothing in the
\* program checks that the vectors fit an int16: that is up to the sampler.
SignAssumption ==
    /\ Modulus \in Nat \ {0, 1} /\ {f, g, BigF, BigG} \subseteq Int
    /\ Points \subseteq Int /\ Samples \subseteq Int /\ MaxCounter \in Nat /\ MaxCoeff \in Nat
    /\ f * BigG - g * BigF = Modulus
    /\ \E u \in 0 .. Modulus - 1 : (u * f) % Modulus = 1
    /\ HalfWord \in Nat /\ IntRange \in Nat \ {0} /\ IntRange * IntRange <= HalfWord
    /\ Bound \in Nat /\ Bound < IntRange * IntRange
    /\ \A d \in Draws : {Vector1(d), Vector2(d)} \subseteq -IntRange .. IntRange - 1

Signers == {"dynamic", "precomputed"}

\* Hashing fails for an oversized context and an unknown pre-hash function.
Requests == {"original", "raw", "prehash", "long_context", "unknown_hash"}
Bad == {"long_context", "unknown_hash"}

VARIABLES req, draw, at, cnt, s1, s2, sig, verdict

signVars == <<req, draw, at, cnt, s1, s2, sig, verdict>>

-----------------------------------------------------------------------------
h == CHOOSE x \in 0 .. Modulus - 1 : (x * f) % Modulus = g % Modulus

NoSig == [nonce |-> -1, s2 |-> 0]

SignersStart ==
    /\ at = [p \in Signers |-> "hash"]
    /\ cnt = [p \in Signers |-> 0]
    /\ s1 = [p \in Signers |-> 0] /\ s2 = [p \in Signers |-> 0]
    /\ sig = [p \in Signers |-> NoSig]
    /\ verdict = [p \in Signers |-> [under |-> req, valid |-> FALSE]]

SignInit ==
    /\ req \in Requests
    /\ draw \in [0 .. MaxCounter -> Draws]
    /\ SignersStart

MoveTo(p, l) == at' = [at EXCEPT ![p] = l]

\* The nonce and sub-seed of this round, then the hashed message.
HashToPoint(p) ==
    /\ at[p] = "hash"
    /\ MoveTo(p, IF req \in Bad THEN "error" ELSE "sample")
    /\ UNCHANGED <<req, draw, cnt, s1, s2, sig, verdict>>

Int16(x) == ((x + IntRange) % (2 * IntRange)) - IntRange

\* ffsamp_fft, or ffsamp_fft_precomputed on the stored tree.
Sampled(p) == LET d == draw[cnt[p]] IN <<d.z0, d.z1>>

\* Sampling, and the lattice point back in the standard basis:
\* [[g, -f], [G, -F]] applied to (z0, z1), subtracted from (c, 0).
Sample(p) ==
    LET z == Sampled(p)
        t0 == z[1] * g + z[2] * BigG
        t1 == z[1] * (-f) + z[2] * (-BigF)
    IN  /\ at[p] = "sample"
        /\ s1' = [s1 EXCEPT ![p] = Int16(draw[cnt[p]].c - t0)]
        /\ s2' = [s2 EXCEPT ![p] = Int16(-t1)]
        /\ MoveTo(p, "norm")
        /\ UNCHANGED <<req, draw, cnt, sig, verdict>>

\* continue: the next counter, with a nonce and a point of its own.
Retry(p) ==
    /\ MoveTo(p, IF cnt[p] < MaxCounter THEN "hash" ELSE "exhausted")
    /\ cnt' = [cnt EXCEPT ![p] = IF @ < MaxCounter THEN @ + 1 ELSE @]

Sum(p) == (s1[p] * s1[p] + s2[p] * s2[p]) % (2 * HalfWord)

\* The saturated squared norm is acceptable.
Short(p) == /\ s1[p] * s1[p] < HalfWord /\ Sum(p) < HalfWord
            /\ Sum(p) <= Bound

Norm(p) ==
    /\ at[p] = "norm"
    /\ \/ Short(p) /\ MoveTo(p, "encode") /\ UNCHANGED cnt
       \/ ~Short(p) /\ Retry(p)
    /\ UNCHANGED <<req, draw, s1, s2, sig, verdict>>

\* Variant: the nonce of the first round.
NonceFirst(p) == 0

\* The nonce written is the one this round's point was hashed with.
Nonce(p) == cnt[p]

\* The candidate must be encodable in the signature's size.
Encode(p) ==
    /\ at[p] = "encode"
    /\ \/ /\ s2[p] \in -MaxCoeff .. MaxCoeff
          /\ sig' = [sig EXCEPT ![p] = [nonce |-> Nonce(p), s2 |-> s2[p]]]
          /\ MoveTo(p, "signed")
          /\ UNCHANGED cnt
       \/ s2[p] \notin -MaxCoeff .. MaxCoeff /\ Retry(p) /\ UNCHANGED sig
    /\ UNCHANGED <<req, draw, s1, s2, verdict>>

Symmetric(x) == LET r == x % Modulus IN IF 2 * r > Modulus THEN r - Modulus ELSE r

\* verify_inner on (nonce, s2): s1 = c - s2 * h.  The error of hash_to_point
\* is not looked at: c is then what the buffer held, s2 itself.
VerifyInner(under, nonce, x) ==
    LET c == IF under \in Bad THEN x ELSE draw[nonce].c
        y == Symmetric(c - x * h)
    IN  x # 0 /\ y * y + x * x <= Bound

\* The verifier is called with the signer's parameters, or with some that
\* cannot be hashed.
Verify(p, under) ==
    /\ at[p] = "signed"
    /\ verdict' = [verdict EXCEPT ![p] =
          [under |-> under, valid |-> VerifyInner(under, sig[p].nonce, sig[p].s2)]]
    /\ MoveTo(p, "verified")
    /\ UNCHANGED <<req, draw, cnt, s1, s2, sig>>

Step(p) == \/ HashToPoint(p) \/ Sample(p) \/ Norm(p) \/ Encode(p)
           \/ \E under \in Bad \cup {req} : Verify(p, under)

SignNext == \E p \in Signers : Step(p)

SignSpec == SignInit /\ [][SignNext]_signVars

-----------------------------------------------------------------------------
(* Properties.                                                             *)

\* Whatever vector the sampler yields, a signature that is returned verifies: the
\* point, the nonce and the vector in it are of the same round.  (The
\* verifier refuses every vector with s2 = 0.)
SignedVerifies ==
    \A p \in Signers :
        at[p] = "verified" /\ sig[p].s2 # 0 /\ verdict[p].under = req
            => verdict[p].valid

\* The precomputed signer returns what the dynamic one returns for the seed.
SignersAgree ==
    /\ NoSig \notin {sig[p] : p \in Signers}
         => sig["dynamic"] = sig["precomputed"]
    /\ {at[p] : p \in Signers} # {"error", "verified"}

ShortVector(d) == Vector1(d) * Vector1(d) + Vector2(d) * Vector2(d) <= Bound

Usable(d) == ShortVector(d) /\ Vector2(d) \in -MaxCoeff .. MaxCoeff

\* A round of the dynamic signer is given up only if its vector is long or cannot
\* be encoded, however the words of the norm wrapped: a call that runs out of
\* rounds drew no other.  SignersAgree carries it over to the precomputed one.
OnlyLongRefused ==
    \A k \in 0 .. MaxCounter :
        at["dynamic"] = "exhausted" \/ k < cnt["dynamic"] => ~Usable(draw[k])

\* A signature that is returned verifies, the precomputed signer returns what
\* the dynamic one returns, and rounds are given up only for long vectors.
SignersCorrect == SignedVerifies /\ SignersAgree /\ OnlyLongRefused
=============================================================================
