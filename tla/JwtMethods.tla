----------------------------- MODULE JwtMethods -----------------------------
(***************************************************************************)
(* The signing methods of the jwt package and the functions that read      *)
(* their keys from PEM files.  A party loads its private key and another   *)
(* its public key, each under the algorithm it believes the file is for;   *)
(* tokens are signed, carried, and verified by the method the header names *)
(* if the verifier allows it.                                              *)
(*                                                                         *)
(* A method is [kind, size]; kind "fndsaPre" is the precomputed signer,    *)
(* which is registered under no name.  A key is a Go type and the material *)
(* in it: family, parameter set, half, identity, and whether the material  *)
(* was made for that family, parameter set and half.                       *)
(***************************************************************************)
EXTENDS Integers, FiniteSets

CONSTANTS
    Files,          \* key files
    KeyIds,         \* tell keys of one kind apart
    Texts,          \* header and claims, as signed
    Linked          \* hash functions linked into the build

VARIABLES
    allowed,        \* the algorithms the verifier allows
    priv, pub,      \* the keys loaded
    signer,         \* SigningMethodFNDSAPrecomputed.signer of the two methods
    tok,            \* the token in transit
    verdict         \* what the verifier made of it

methodVars == <<allowed, priv, pub, signer, tok, verdict>>

Sizes == {"256", "384", "512"}
Slh128 == {"SHA2-128f", "SHA2-128s", "SHAKE-128f", "SHAKE-128s"}
Slh192 == {"SHA2-192f", "SHA2-192s", "SHAKE-192f", "SHAKE-192s"}
Slh256 == {"SHA2-256f", "SHA2-256s", "SHAKE-256f", "SHAKE-256s"}
FnDegrees == {"512", "1024"}

\* Parameter sets: the sizes above, the curves, and one size of RSA keys.
Params == {"-", "2048", "256", "384", "521", "44", "65", "87"} \cup Slh128 \cup Slh192
            \cup Slh256 \cup FnDegrees

Formats == {"pkcs1", "pkcs8", "sec1", "pkix", "cert", "raw", "secret"}

\* The material of a key, the bytes of which are the key itself or an encoding
\* of it, and the files it is kept in.
AsIs == <<"raw", FALSE>>
Material == [fam : {"rsa", "ecdsa", "ed25519", "mldsa", "slhdsa", "fndsa", "hmac"},
             param : Params, half : {"priv", "pub", "sym"}, id : KeyIds, genuine : BOOLEAN,
             form : Formats \X BOOLEAN]

KeyFiles == [pem : BOOLEAN, fmt : Formats, enc : BOOLEAN, mat : Material]

ASSUME FilesAssumption == Files \subseteq KeyFiles

Method(kinds, sizes) == [kind : kinds, size : sizes]

HMACMethods == Method({"hmac"}, Sizes)
RSAMethods == Method({"rsa"}, Sizes)
RSAPSSMethods == Method({"pss"}, Sizes)
ECDSAMethods == Method({"ecdsa"}, Sizes)
Ed25519Methods == Method({"eddsa"}, {"-"})
MLDSAMethods == Method({"mldsa"}, {"44", "65", "87"})
SLHDSAMethods == Method({"slhdsa"}, Slh128 \cup Slh192 \cup Slh256)
FNDSAMethods == Method({"fndsa"}, FnDegrees)
NoneMethods == Method({"none"}, {"-"})

\* The methods registered under their name, and those that are not.
RegisteredMethods ==
    HMACMethods \cup RSAMethods \cup RSAPSSMethods \cup ECDSAMethods \cup Ed25519Methods
      \cup MLDSAMethods \cup SLHDSAMethods \cup FNDSAMethods \cup NoneMethods
PrecomputedMethods == Method({"fndsaPre"}, FnDegrees)

Methods == RegisteredMethods \cup PrecomputedMethods

Alg(m) == IF m.kind = "fndsaPre" THEN [m EXCEPT !.kind = "fndsa"] ELSE m

GetSigningMethod(alg) == CHOOSE m \in RegisteredMethods : Alg(m) = alg

Mat(fam, param, half, id) ==
    [fam |-> fam, param |-> param, half |-> half, id |-> id, genuine |-> TRUE, form |-> AsIs]
None == Mat("none", "-", "none", "none")

\* Go values passed as a key.
Key(type, mat) == [type |-> type, mat |-> mat]
NilKey == Key("nil", None)
Magic == Key("unsafeNoneMagicConstant", None)

NoAlg == [kind |-> "none", size |-> "-"]
NoSig == [prim |-> "empty", hash |-> "-", mat |-> None, text |-> <<>>, len |-> 0]
NoTok == [text |-> <<>>, sig |-> NoSig, by |-> NilKey, with |-> NoAlg]

Ok(v) == [err |-> "nil", val |-> v]
Fail(err) == [err |-> err, val |-> NilKey]
SigFail(err) == [err |-> err, val |-> NoSig]

-----------------------------------------------------------------------------
(* Key files: [pem, fmt, enc, mat].  External: what crypto/x509 and the    *)
(* unmarshalers of circl accept.                                           *)

\* The number of bytes of a raw key.
RawLen(mat) ==
    LET len == CASE mat.param = "44" -> <<1312, 2560>>
                 [] mat.param = "65" -> <<1952, 4032>>
                 [] mat.param = "87" -> <<2592, 4896>>
                 [] mat.param \in Slh128 -> <<32, 64>>
                 [] mat.param \in Slh192 -> <<48, 96>>
                 [] mat.param \in Slh256 -> <<64, 128>>
                 [] mat.fam = "fndsa" /\ mat.param = "512" -> <<897, 1281>>
                 [] mat.fam = "fndsa" /\ mat.param = "1024" -> <<1793, 2305>>
                 [] OTHER -> <<1, 1>>
    IN  IF mat.half = "pub" THEN len[1] ELSE len[2]

\* A raw key read for another purpose is other material.
Unmarshal(fam, param, half, mat) ==
    [mat EXCEPT !.fam = fam, !.param = param, !.half = half,
                !.genuine = mat.genuine /\ mat.fam = fam /\ mat.param = param /\ mat.half = half]

Parses(file, fmt, half) == ~file.enc /\ file.fmt = fmt /\ file.mat.half = half

\* pem.Decode, then the formats in the order they are tried; the first one the
\* bytes parse as decides, and its key must be of the family asked for.
FromPEM(file, formats, half, fam) ==
    IF ~file.pem THEN Fail("notPEM")
    ELSE IF \A f \in formats : ~Parses(file, f, half) THEN Fail("format")
    ELSE IF file.mat.fam # fam THEN Fail("family")
    ELSE Ok(Key(fam, file.mat))

ParseRSAPrivateKeyFromPEM(file) == FromPEM(file, {"pkcs1", "pkcs8"}, "priv", "rsa")

\* With the right or the wrong password.
ParseRSAPrivateKeyFromPEMWithPassword(file, right) ==
    IF ~file.pem THEN Fail("notPEM")
    ELSE IF ~file.enc \/ ~right THEN Fail("password")
    ELSE FromPEM([file EXCEPT !.enc = FALSE], {"pkcs1", "pkcs8"}, "priv", "rsa")

ParseRSAPublicKeyFromPEM(file) == FromPEM(file, {"pkix", "cert", "pkcs1"}, "pub", "rsa")

ParseECPrivateKeyFromPEM(file) == FromPEM(file, {"sec1", "pkcs8"}, "priv", "ecdsa")
ParseECPublicKeyFromPEM(file) == FromPEM(file, {"pkix", "cert"}, "pub", "ecdsa")

ParseEdPrivateKeyFromPEM(file) == FromPEM(file, {"pkcs8"}, "priv", "ed25519")
ParseEdPublicKeyFromPEM(file) == FromPEM(file, {"pkix"}, "pub", "ed25519")

\* The bytes are a key of the parameter set if there are as many as it asks for.
Raw(file, fam, param, half) ==
    IF ~file.pem THEN Fail("notPEM")
    ELSE IF file.enc \/ file.fmt # "raw" \/ RawLen(file.mat) # RawLen(Mat(fam, param, half, "any"))
    THEN Fail("size")
    ELSE Ok(Key(fam, Unmarshal(fam, param, half, file.mat)))

ParseMLDSAPrivateKeyFromPEM(alg, file) == Raw(file, "mldsa", alg.size, "priv")
ParseMLDSAPublicKeyFromPEM(alg, file) == Raw(file, "mldsa", alg.size, "pub")
ParseSLHDSAPrivateKeyFromPEM(alg, file) == Raw(file, "slhdsa", alg.size, "priv")
ParseSLHDSAPublicKeyFromPEM(alg, file) == Raw(file, "slhdsa", alg.size, "pub")

\* The bytes of a block are the key where it is kept as it is.
Block(file) ==
    IF file.fmt \in {"raw", "secret"} /\ ~file.enc THEN file.mat
    ELSE [file.mat EXCEPT !.form = <<file.fmt, file.enc>>]

\* The block as it is: FN-DSA keys are byte strings, looked at when used.
ParseFNDSAKeyFromPEM(file) ==
    IF ~file.pem THEN Fail("notPEM") ELSE Ok(Key("bytes", Block(file)))

\* loadHMAC takes any block for the secret, by the decoder of FN-DSA keys.
LoadPrivate(alg, file, right) ==
    CASE alg.kind \in {"rsa", "pss"} ->
           IF file.enc THEN ParseRSAPrivateKeyFromPEMWithPassword(file, right)
                       ELSE ParseRSAPrivateKeyFromPEM(file)
      [] alg.kind = "ecdsa" -> ParseECPrivateKeyFromPEM(file)
      [] alg.kind = "eddsa" -> ParseEdPrivateKeyFromPEM(file)
      [] alg.kind = "mldsa" -> ParseMLDSAPrivateKeyFromPEM(alg, file)
      [] alg.kind = "slhdsa" -> ParseSLHDSAPrivateKeyFromPEM(alg, file)
      [] alg.kind \in {"fndsa", "hmac"} -> ParseFNDSAKeyFromPEM(file)
      [] OTHER -> Fail("keyType")

LoadPublic(alg, file) ==
    CASE alg.kind \in {"rsa", "pss"} -> ParseRSAPublicKeyFromPEM(file)
      [] alg.kind = "ecdsa" -> ParseECPublicKeyFromPEM(file)
      [] alg.kind = "eddsa" -> ParseEdPublicKeyFromPEM(file)
      [] alg.kind = "mldsa" -> ParseMLDSAPublicKeyFromPEM(alg, file)
      [] alg.kind = "slhdsa" -> ParseSLHDSAPublicKeyFromPEM(alg, file)
      [] alg.kind \in {"fndsa", "hmac"} -> ParseFNDSAKeyFromPEM(file)
      [] alg.kind = "none" -> Ok(Magic)

-----------------------------------------------------------------------------
(* Signatures.  External: the primitives.                                  *)

Sig(prim, hash, mat, text, len) ==
    [prim |-> prim, hash |-> hash, mat |-> mat, text |-> text, len |-> len]

\* sig is one of the primitive over text by the other half of the key.
Valid(prim, hash, key, text, sig) ==
    /\ sig.prim = prim /\ sig.hash = hash /\ sig.text = text
    /\ key.mat.half = "pub" /\ sig.mat = [key.mat EXCEPT !.half = "priv"]
    /\ key.mat.genuine

FnKey(key, half) == key.mat.fam = "fndsa" /\ key.mat.half = half /\ key.mat.form = AsIs

-----------------------------------------------------------------------------
(* Sign and Verify of every method.                                        *)

Is(key, type, half) == key.type = type /\ key.mat.half = half

CurveBits(size) == IF size = "512" THEN "521" ELSE size
KeySize(size) == CASE size = "256" -> 32 [] size = "384" -> 48 [] size = "512" -> 66
keyBytes(curve) == CASE curve = "256" -> 32 [] curve = "384" -> 48 [] curve = "521" -> 66

SignHMAC(m, text, key) ==
    IF key.type # "bytes" THEN SigFail("keyType")
    ELSE IF m.size \notin Linked THEN SigFail("hash")
    ELSE Ok(Sig("hmac", m.size, key.mat, text, 0))

VerifyHMAC(m, text, sig, key) ==
    IF key.type # "bytes" THEN "keyType"
    ELSE IF m.size \notin Linked THEN "hash"
    ELSE IF sig # Sig("hmac", m.size, key.mat, text, 0) THEN "signature" ELSE "nil"

SignRSA(m, text, key) ==
    IF ~Is(key, "rsa", "priv") THEN SigFail("keyType")
    ELSE IF m.size \notin Linked THEN SigFail("hash")
    ELSE Ok(Sig("pkcs1", m.size, key.mat, text, 0))

VerifyRSA(m, text, sig, key) ==
    IF ~Is(key, "rsa", "pub") THEN "keyType"
    ELSE IF m.size \notin Linked THEN "hash"
    ELSE IF Valid("pkcs1", m.size, key, text, sig) THEN "nil" ELSE "signature"

SignRSAPSS(m, text, key) ==
    IF ~Is(key, "rsa", "priv") THEN SigFail("keyType")
    ELSE IF m.size \notin Linked THEN SigFail("hash")
    ELSE Ok(Sig("pss", m.size, key.mat, text, 0))

VerifyRSAPSS(m, text, sig, key) ==
    IF ~Is(key, "rsa", "pub") THEN "keyType"
    ELSE IF m.size \notin Linked THEN "hash"
    ELSE IF Valid("pss", m.size, key, text, sig) THEN "nil" ELSE "signature"

\* Variant: the curve of the key is not compared with that of the algorithm.
SignECDSAAnyCurve(m, text, key) ==
    IF ~Is(key, "ecdsa", "priv") THEN SigFail("keyType")
    ELSE IF m.size \notin Linked THEN SigFail("hash")
    ELSE Ok(Sig("ecdsa", m.size, key.mat, text, 2 * keyBytes(key.mat.param)))

SignECDSA(m, text, key) ==
    IF ~Is(key, "ecdsa", "priv") THEN SigFail("keyType")
    ELSE IF m.size \notin Linked THEN SigFail("hash")
    ELSE IF key.mat.param # CurveBits(m.size) THEN SigFail("key")
    ELSE Ok(Sig("ecdsa", m.size, key.mat, text, 2 * keyBytes(key.mat.param)))

VerifyECDSA(m, text, sig, key) ==
    IF ~Is(key, "ecdsa", "pub") THEN "keyType"
    ELSE IF sig.len # 2 * KeySize(m.size) THEN "signature"
    ELSE IF m.size \notin Linked THEN "hash"
    ELSE IF Valid("ecdsa", m.size, key, text, sig) THEN "nil" ELSE "signature"

\* Every private key but the byte strings is a crypto.Signer.
SignEd25519(m, text, key) ==
    IF key.mat.half # "priv" \/ key.type \in {"bytes", "signer"} THEN SigFail("keyType")
    ELSE IF key.type # "ed25519" THEN SigFail("key")
    ELSE Ok(Sig("ed25519", "-", key.mat, text, 0))

VerifyEd25519(m, text, sig, key) ==
    IF ~Is(key, "ed25519", "pub") THEN "keyType"
    ELSE IF Valid("ed25519", "-", key, text, sig) THEN "nil" ELSE "signature"

SignMLDSA(m, text, key) ==
    IF ~Is(key, "mldsa", "priv") \/ key.mat.param # m.size THEN SigFail("keyType")
    ELSE Ok(Sig("mldsa", "-", key.mat, text, 0))

VerifyMLDSA(m, text, sig, key) ==
    IF ~Is(key, "mldsa", "pub") \/ key.mat.param # m.size THEN "keyType"
    ELSE IF Valid("mldsa", "-", key, text, sig) THEN "nil" ELSE "signature"

\* The parameter set is that of the key, whatever the algorithm is called.
SignSLHDSA(m, text, key) ==
    IF ~Is(key, "slhdsa", "priv") THEN SigFail("keyType")
    ELSE Ok(Sig("slhdsa", "-", key.mat, text, 0))

VerifySLHDSA(m, text, sig, key) ==
    IF ~Is(key, "slhdsa", "pub") THEN "keyType"
    ELSE IF Valid("slhdsa", "-", key, text, sig) THEN "nil" ELSE "signature"

\* The degree is that of the key, whatever the algorithm is called.
SignFNDSA(m, text, key) ==
    IF key.type # "bytes" THEN SigFail("keyType")
    ELSE IF ~FnKey(key, "priv") THEN SigFail("decode")
    ELSE Ok(Sig("fndsa", "-", key.mat, text, 0))

VerifyFNDSA(m, text, sig, key) ==
    IF key.type # "bytes" THEN "keyType"
    ELSE IF Valid("fndsa", "-", key, text, sig) /\ FnKey(key, "pub") THEN "nil" ELSE "signature"

\* The precomputed signer: the key's, or without a key the one set before.
signerForKey(m, key) ==
    CASE key.type = "nil" -> IF signer[m.size].type = "nil" THEN Fail("keyType") ELSE Ok(signer[m.size])
      [] key.type = "bytes" -> IF FnKey(key, "priv") THEN Ok(Key("signer", key.mat)) ELSE Fail("key")
      [] key.type = "signer" -> Ok(key)
      [] OTHER -> Fail("keyType")

SignFNDSAPre(m, text, key) ==
    LET s == signerForKey(m, key)
    IN  IF s.err # "nil" THEN SigFail(s.err)
        ELSE IF s.val.mat.param # m.size THEN SigFail("key")
        ELSE Ok(Sig("fndsa", "-", s.val.mat, text, 0))

VerifyFNDSAPre(m, text, sig, key) ==
    IF key.type # "bytes" THEN "keyType"
    ELSE IF ~FnKey(key, "pub") \/ key.mat.param # m.size THEN "key"
    ELSE IF Valid("fndsa", "-", key, text, sig) THEN "nil" ELSE "signature"

SignNone(m, text, key) == IF key = Magic THEN Ok(NoSig) ELSE SigFail("none")

VerifyNone(m, text, sig, key) ==
    IF key # Magic THEN "none" ELSE IF sig # NoSig THEN "none" ELSE "nil"

SignWith(m, text, key) ==
    CASE m.kind = "hmac" -> SignHMAC(m, text, key)
      [] m.kind = "rsa" -> SignRSA(m, text, key)
      [] m.kind = "pss" -> SignRSAPSS(m, text, key)
      [] m.kind = "ecdsa" -> SignECDSA(m, text, key)
      [] m.kind = "eddsa" -> SignEd25519(m, text, key)
      [] m.kind = "mldsa" -> SignMLDSA(m, text, key)
      [] m.kind = "slhdsa" -> SignSLHDSA(m, text, key)
      [] m.kind = "fndsa" -> SignFNDSA(m, text, key)
      [] m.kind = "fndsaPre" -> SignFNDSAPre(m, text, key)
      [] m.kind = "none" -> SignNone(m, text, key)

VerifyWith(m, text, sig, key) ==
    CASE m.kind = "hmac" -> VerifyHMAC(m, text, sig, key)
      [] m.kind = "rsa" -> VerifyRSA(m, text, sig, key)
      [] m.kind = "pss" -> VerifyRSAPSS(m, text, sig, key)
      [] m.kind = "ecdsa" -> VerifyECDSA(m, text, sig, key)
      [] m.kind = "eddsa" -> VerifyEd25519(m, text, sig, key)
      [] m.kind = "mldsa" -> VerifyMLDSA(m, text, sig, key)
      [] m.kind = "slhdsa" -> VerifySLHDSA(m, text, sig, key)
      [] m.kind = "fndsa" -> VerifyFNDSA(m, text, sig, key)
      [] m.kind = "fndsaPre" -> VerifyFNDSAPre(m, text, sig, key)
      [] m.kind = "none" -> VerifyNone(m, text, sig, key)

-----------------------------------------------------------------------------
(* Signer, token, verifier.                                                *)

MethodsInit ==
    /\ allowed = {}
    /\ priv = NilKey /\ pub = NilKey
    /\ signer = [n \in FnDegrees |-> NilKey]
    /\ tok = NoTok
    /\ verdict = "none"

\* A party reads a key file for an algorithm; it may be the wrong file.
LoadPriv(alg, file, right) ==
    /\ priv = NilKey /\ tok = NoTok /\ alg.kind # "none"
    /\ LET k == LoadPrivate(alg, file, right)
       IN  /\ k.err = "nil"
           /\ priv' = k.val
           /\ allowed' = {alg}
    /\ UNCHANGED <<pub, signer, tok, verdict>>

\* loadFNDSAPrecomputed hands the signer of the key to the method.
SetPrecomputedSigner(n) ==
    /\ priv.type = "bytes" /\ FnKey(priv, "priv") /\ tok = NoTok
    /\ signer' = [signer EXCEPT ![n] = Key("signer", priv.mat)]
    /\ UNCHANGED <<allowed, priv, pub, tok, verdict>>

\* SignedString; the header names the method.
SignedString(m, key, claims) ==
    /\ priv # NilKey /\ tok = NoTok
    /\ LET text == <<Alg(m), claims>>
           s == SignWith(m, text, key)
       IN  /\ s.err = "nil"
           /\ tok' = [text |-> text, sig |-> s.val, by |-> s.val.mat, with |-> m]
    /\ priv' = NilKey /\ allowed' = {}
    /\ signer' = [n \in FnDegrees |-> NilKey]
    /\ UNCHANGED <<pub, verdict>>

\* The verifier reads its key file and allows the algorithm it is for.
LoadPub(alg, file) ==
    /\ tok # NoTok /\ pub = NilKey
    /\ LET k == LoadPublic(alg, file)
       IN  /\ k.err = "nil"
           /\ pub' = k.val
    /\ allowed' = {alg}
    /\ UNCHANGED <<priv, signer, tok, verdict>>

\* Variant: the parser was given no list of methods.
ParseTokenAnyMethod(claims) ==
    /\ pub # NilKey /\ verdict = "none"
    /\ LET alg == tok.text[1]
       IN  verdict' = VerifyWith(GetSigningMethod(alg), <<alg, claims>>, tok.sig, pub)
    /\ UNCHANGED <<allowed, priv, pub, signer, tok>>

\* ParseWithClaims: the claims may have been replaced on the way.
ParseToken(claims) ==
    /\ pub # NilKey /\ verdict = "none"
    /\ LET alg == tok.text[1]
       IN  verdict' = IF alg \notin allowed THEN "method"
                      ELSE VerifyWith(GetSigningMethod(alg), <<alg, claims>>, tok.sig, pub)
    /\ UNCHANGED <<allowed, priv, pub, signer, tok>>

MethodsNext ==
    \/ \E alg \in RegisteredMethods, file \in Files, right \in BOOLEAN : LoadPriv(alg, file, right)
    \/ \E n \in FnDegrees : SetPrecomputedSigner(n)
    \/ \E m \in Methods, key \in {priv, NilKey, Magic}, claims \in Texts : SignedString(m, key, claims)
    \/ \E alg \in RegisteredMethods, file \in Files : LoadPub(alg, file)
    \/ \E claims \in Texts : ParseToken(claims)

MethodsSpec == MethodsInit /\ [][MethodsNext]_methodVars

-----------------------------------------------------------------------------
(* Properties.                                                             *)

OtherHalf(mat) == IF mat.half = "priv" THEN [mat EXCEPT !.half = "pub"] ELSE mat

\* The key to verify with, for one to sign with.
VerifyKey(m, mat) ==
    IF m.kind = "hmac" THEN Key("bytes", mat)
    ELSE Key(IF mat.fam = "fndsa" THEN "bytes" ELSE mat.fam, OtherHalf(mat))

\* The token was signed with what the verifier read its key to be: with the
\* same bytes if it read them as a shared secret, and otherwise with the
\* private half of its key.
SignedForKey ==
    IF tok.text[1].kind = "hmac" THEN allowed = {tok.text[1]} /\ pub.mat = tok.by
    ELSE tok.by.half # "pub" /\ pub.mat = OtherHalf(tok.by)

\* A token is accepted only if the holder of the private half of the
\* verifier's key signed exactly these claims, or the holder of the secret where
\* the verifier read its file as one, or if the verifier asked for unsigned
\* tokens: keys of different methods share the type []byte, any block can be
\* read as a secret, and files of one size as keys of another kind.
AcceptedIsSigned ==
    verdict = "nil" =>
        \/ pub = Magic /\ tok.sig = NoSig
        \/ SignedForKey /\ tok.sig.text = tok.text

\* What a method signs, the method the header names verifies with the public
\* half of the key: the precomputed and the dynamic signers of FN-DSA produce
\* the same signatures, and no signature has a length the verifier refuses.
SignedVerifies ==
    tok # NoTok /\ tok.by.genuine /\ tok.by.half # "pub" /\ tok.sig # NoSig =>
        VerifyWith(GetSigningMethod(tok.text[1]), tok.text, tok.sig, VerifyKey(tok.with, tok.by)) = "nil"

\* A token by a method that knows its parameter set is signed with a key of it;
\* the methods of SLH-DSA and the dynamic one of FN-DSA take any.
SignerNamesItself ==
    tok # NoTok =>
        /\ tok.with.kind \in {"mldsa", "fndsaPre"} => tok.by.param = tok.with.size
        /\ tok.with.kind = "ecdsa" => tok.by.param = CurveBits(tok.with.size)

\* A key that was read from a file without an error is never refused for its
\* type by the method it was read for.
LoadedKeyFits ==
    /\ priv # NilKey => \A alg \in allowed : \A t \in Texts :
          SignWith(GetSigningMethod(alg), <<alg, t>>, priv).err # "keyType"
    /\ pub # NilKey => \A alg \in allowed :
          VerifyWith(GetSigningMethod(alg), tok.text, tok.sig, pub) # "keyType"

\* What a method signs with a key it takes, the method of the header verifies
\* with the other half; keys that load are taken; and a method that knows its
\* parameter set signs with no other.
MethodsFitKeys == SignedVerifies /\ LoadedKeyFits /\ SignerNamesItself
=============================================================================
