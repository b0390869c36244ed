---------------------------- MODULE TokenProofs -----------------------------
(***************************************************************************)
(* Tokens: the profiles they are signed and verified with, and the jwt     *)
(* library, for every set of profiles, allow-lists, key files, texts and   *)
(* linked hash functions, and for every token and configuration of the     *)
(* parser.                                                                 *)
(*                                                                         *)
(* Profiles: the header algorithm and the key pair of a profile determine  *)
(* each other, so any configuration the map range may stop at carries the  *)
(* key of the token.                                                       *)
(*                                                                         *)
(* Signing methods: SignedAs says what Sign promises of a signature,       *)
(* LoadedPriv and LoadedPub what a key file read for an algorithm yields;  *)
(* Sign, Verify and the Parse functions are looked into once, in the       *)
(* lemmas that establish these.                                            *)
(*                                                                         *)
(* The parser: Passed says what the steps before validation ask of a call, *)
(* Causes is compared with Fits claim by claim.                            *)
(***************************************************************************)
EXTENDS TokenProfiles, JwtMethods, JwtParser, SequenceTheorems, TLAPS

-----------------------------------------------------------------------------
(* Profiles.                                                               *)

\* loadFNDSAOriginal and loadFNDSAPrecomputed read the same key files, and
\* every other profile has a header algorithm and a key file of its own.
LEMMA HeaderDeterminesKey ==
    ASSUME NEW alg \in Profiles
    PROVE  /\ LoadAlgConfig(alg).alg = LoadAlgConfig(alg).key
           /\ LoadAlgConfig(alg).key = KeyFile(alg)
BY DEF LoadAlgConfig, HeaderAlgForConfigAlg, KeyFile

\* Sign returns only what LoadAlgConfig can produce, and only for known names.
LEMMA SignYieldsTokens ==
    ASSUME NEW loaded \in SUBSET Profiles, NEW alg
    PROVE  /\ Sign(loaded, alg) \subseteq Tokens
           /\ Sign(loaded, alg) # {} => alg \in Profiles
<1>1. configForHeaderAlg(loaded, alg) \subseteq Tokens
  BY DEF configForHeaderAlg, Tokens
<1>2. ASSUME configForHeaderAlg(loaded, alg) # {}
      PROVE  alg \in Profiles
  <2>1. PICK p \in loaded : LoadAlgConfig(p).alg = alg
    BY <1>2 DEF configForHeaderAlg
  <2>2. HeaderAlgForConfigAlg(p) \in Profiles
    BY ProfilesAssumption DEF HeaderAlgForConfigAlg
  <2> QED BY <2>1, <2>2 DEF LoadAlgConfig
<1> QED BY <1>1, <1>2 DEF Sign, configForSignAlg, Tokens

\* configForHeaderAlg's random choice does not matter: Parse has exactly one
\* outcome, and a token is refused only when its key is not loaded.
LEMMA ParseIsDecided ==
    ASSUME NEW loaded \in SUBSET Profiles, NEW token \in Tokens
    PROVE  /\ FALSE \in Parse(loaded, token) => NotLoaded(loaded, token)
           /\ TRUE \in Parse(loaded, token) => token.alg \in allowedHeaderAlgs(loaded)
<1> PICK q \in Profiles : token = LoadAlgConfig(q)
  BY DEF Tokens
<1>1. token.alg = token.key
  BY HeaderDeterminesKey
<1>2. CASE token.alg \in allowedHeaderAlgs(loaded)
  <2>1. \A cfg \in configForHeaderAlg(loaded, token.alg) : cfg.key = token.key
    BY <1>1, HeaderDeterminesKey DEF configForHeaderAlg
  <2> QED BY <1>2, <2>1 DEF Parse
<1>3. CASE token.alg \notin allowedHeaderAlgs(loaded)
  <2>1. \A p \in loaded : LoadAlgConfig(p).alg # token.alg
    BY <1>3 DEF allowedHeaderAlgs
  <2>2. \A p \in loaded : KeyFile(p) # token.key
    BY <1>1, <2>1, HeaderDeterminesKey
  <2> QED BY <1>3, <2>2 DEF Parse, NotLoaded
<1> QED BY <1>2, <1>3

\* A header algorithm that passes the allow-list has a signer.
LEMMA AllowedIsSignable ==
    ASSUME NEW loaded \in SUBSET Profiles, NEW token \in Tokens,
           token.alg \in allowedHeaderAlgs(loaded)
    PROVE  Sign(loaded, token.alg) # {}
<1> PICK q \in Profiles : token = LoadAlgConfig(q)
  BY DEF Tokens
<1>1. token.alg = HeaderAlgForConfigAlg(token.alg)
  BY ProfilesAssumption DEF LoadAlgConfig, HeaderAlgForConfigAlg
<1>2. configForHeaderAlg(loaded, token.alg) # {}
  BY DEF allowedHeaderAlgs, configForHeaderAlg
<1> QED BY <1>1, <1>2 DEF Sign, configForSignAlg

IInv == TypeOK /\ RefreshFindsSigner /\ RefusedOnlyIfNotLoaded

\* Both services come up with some allow-list and no session.
LEMMA InitEstablishes == Init => IInv
BY DEF Init, IInv, TypeOK, RefreshFindsSigner, RefusedOnlyIfNotLoaded, Quiet

\* Sign-ins, refreshes, checks and restarts.
LEMMA StepPreserves == IInv /\ [Next]_vars => IInv'
<1> SUFFICES ASSUME IInv, [Next]_vars PROVE IInv'
  OBVIOUS
<1> USE DEF IInv
<1>0. auth \in SUBSET Profiles /\ gateway \in SUBSET Profiles
  BY DEF TypeOK, AllowLists
<1>1. ASSUME NEW algorithm \in Profiles \cup {Empty, Unsupported}, SignIn(algorithm)
      PROVE  IInv'
  <2> DEFINE alg == IF algorithm = Empty THEN default ELSE algorithm
  <2>1. CASE SignTokenPair(alg, alg) /\ Answer("signin", "OK")
    <3>1. session' \in [asked : Profiles, access : Tokens, refresh : Tokens]
      BY <1>0, <2>1, SignYieldsTokens DEF SignTokenPair
    <3> QED BY <1>1, <2>1, <3>1
            DEF SignIn, Answer, TypeOK, RefreshFindsSigner, RefusedOnlyIfNotLoaded
  <2>2. CASE Answer("signin", "Internal") /\ UNCHANGED session
    BY <1>1, <2>2 DEF SignIn, Answer, TypeOK, RefreshFindsSigner, RefusedOnlyIfNotLoaded
  <2> QED BY <1>1, <2>1, <2>2 DEF SignIn
<1>2. ASSUME RefreshToken PROVE IInv'
  <2> DEFINE alg == AlgorithmFromToken(session.refresh)
  <2>0. /\ session \in [asked : Profiles, access : Tokens, refresh : Tokens]
        /\ UNCHANGED <<auth, gateway, default>>
    BY <1>2 DEF RefreshToken, TypeOK
  <2>1. CASE /\ FALSE \in Parse(auth, session.refresh)
             /\ Answer("refresh", "Unauthenticated") /\ UNCHANGED session
    <3>1. NotLoaded(auth, session.refresh)
      BY <1>0, <2>0, <2>1, ParseIsDecided
    <3> QED BY <2>0, <2>1, <3>1
            DEF Answer, TypeOK, RefreshFindsSigner, RefusedOnlyIfNotLoaded, NotLoaded
  <2>2. CASE SignTokenPair(session.asked, alg) /\ Answer("refresh", "OK")
    <3>1. session' \in [asked : Profiles, access : Tokens, refresh : Tokens]
      BY <1>0, <2>0, <2>2, SignYieldsTokens DEF SignTokenPair
    <3> QED BY <2>0, <2>2, <3>1
            DEF Answer, TypeOK, RefreshFindsSigner, RefusedOnlyIfNotLoaded
  <2>3. ~ (TRUE \in Parse(auth, session.refresh) /\ Sign(auth, alg) = {})
    BY <1>0, <2>0, ParseIsDecided, AllowedIsSignable DEF AlgorithmFromToken
  <2> QED BY <1>2, <2>1, <2>2, <2>3 DEF RefreshToken
<1>3. ASSUME Handle PROVE IInv'
  <2>0. session \in [asked : Profiles, access : Tokens, refresh : Tokens]
    BY <1>3 DEF Handle, TypeOK
  <2>1. PICK ok \in Parse(gateway, session.access) :
           Answer("enter", IF ok THEN "OK" ELSE "Unauthenticated")
    BY <1>3 DEF Handle
  <2>2. ok \in BOOLEAN
    BY <2>1 DEF Parse
  <2>3. ok = FALSE => NotLoaded(gateway, session.access)
    BY <1>0, <2>0, <2>1, ParseIsDecided
  <2> QED BY <1>3, <2>1, <2>2, <2>3
          DEF Handle, Answer, TypeOK, RefreshFindsSigner, RefusedOnlyIfNotLoaded, NotLoaded
<1>4. ASSUME NEW algs \in AllowLists, RestartAuth(algs) PROVE IInv'
  BY <1>4 DEF RestartAuth, Quiet, TypeOK, RefreshFindsSigner, RefusedOnlyIfNotLoaded
<1>5. ASSUME NEW algs \in AllowLists, RestartGateway(algs) PROVE IInv'
  BY <1>5 DEF RestartGateway, Quiet, TypeOK, RefreshFindsSigner, RefusedOnlyIfNotLoaded
<1>6. CASE UNCHANGED vars
  BY <1>6 DEF vars, TypeOK, RefreshFindsSigner, RefusedOnlyIfNotLoaded, NotLoaded
<1> QED BY <1>1, <1>2, <1>3, <1>4, <1>5, <1>6 DEF Next

\* The allow-lists, the default and the tokens of a session keep their types.
THEOREM TypeCorrect == Spec => []TypeOK
<1>1. IInv => TypeOK
  BY DEF IInv
<1> QED BY <1>1, InitEstablishes, StepPreserves, PTL DEF Spec

\* RefreshToken never answers Internal for want of a signer.
THEOREM RefreshSigns == Spec => []RefreshFindsSigner
<1>1. IInv => RefreshFindsSigner
  BY DEF IInv
<1> QED BY <1>1, InitEstablishes, StepPreserves, PTL DEF Spec

\* Parse refuses an issued token only when its key is not loaded.
THEOREM ProfilesInteroperate == Spec => []RefusedOnlyIfNotLoaded
<1>1. IInv => RefusedOnlyIfNotLoaded
  BY DEF IInv
<1> QED BY <1>1, InitEstablishes, StepPreserves, PTL DEF Spec

-----------------------------------------------------------------------------
(* Methods and their names.                                                *)

Kinds == {"hmac", "rsa", "pss", "ecdsa", "eddsa", "mldsa", "slhdsa", "fndsa", "none"}

LEMMA RegisteredKinds ==
    ASSUME NEW m \in RegisteredMethods
    PROVE  /\ m.kind \in Kinds /\ m = [kind |-> m.kind, size |-> m.size]
           /\ m.kind = "ecdsa" => m.size \in Sizes
           /\ Alg(m) = m
<1>1. m.kind \in Kinds
  BY DEF RegisteredMethods, Kinds, Method, HMACMethods, RSAMethods, RSAPSSMethods, ECDSAMethods,
         Ed25519Methods, MLDSAMethods, SLHDSAMethods, FNDSAMethods, NoneMethods
<1>2. m = [kind |-> m.kind, size |-> m.size]
  BY DEF RegisteredMethods, Method, HMACMethods, RSAMethods, RSAPSSMethods, ECDSAMethods,
         Ed25519Methods, MLDSAMethods, SLHDSAMethods, FNDSAMethods, NoneMethods
<1>3. m.kind = "ecdsa" => m.size \in Sizes
  BY DEF RegisteredMethods, Method, HMACMethods, RSAMethods, RSAPSSMethods, ECDSAMethods,
         Ed25519Methods, MLDSAMethods, SLHDSAMethods, FNDSAMethods, NoneMethods
<1>4. Alg(m) = m
  BY <1>1 DEF Alg, Kinds
<1>. QED
  BY <1>1, <1>2, <1>3, <1>4

\* The method of a name is the one that has it.
LEMMA MethodOfName ==
    ASSUME NEW m \in RegisteredMethods
    PROVE  GetSigningMethod(m) = m
<1>1. \A x \in RegisteredMethods : Alg(x) = x
  BY RegisteredKinds
<1>. QED
  BY <1>1, Zenon DEF GetSigningMethod

\* The header of every method names a registered one.
LEMMA AlgRegistered ==
    ASSUME NEW m \in Methods
    PROVE  /\ Alg(m) \in RegisteredMethods
           /\ m.kind # "fndsaPre" => m \in RegisteredMethods /\ Alg(m) = m
           /\ m.kind = "fndsaPre" => Alg(m).kind = "fndsa"
<1>1. CASE m \in RegisteredMethods
  <2>1. m.kind # "fndsaPre" /\ Alg(m) = m
    BY <1>1, RegisteredKinds DEF Kinds
  <2>. QED
    BY <1>1, <2>1
<1>2. CASE m \in PrecomputedMethods
  <2>1. m.kind = "fndsaPre" /\ m.size \in FnDegrees /\ m = [kind |-> m.kind, size |-> m.size]
    BY <1>2 DEF PrecomputedMethods, Method
  <2>2. Alg(m) = [kind |-> "fndsa", size |-> m.size]
    BY <2>1 DEF Alg
  <2>3. Alg(m) \in FNDSAMethods
    BY <2>1, <2>2 DEF FNDSAMethods, Method
  <2>. QED
    BY <2>1, <2>2, <2>3 DEF RegisteredMethods
<1>. QED
  BY <1>1, <1>2 DEF Methods

-----------------------------------------------------------------------------
(* Keys.                                                                   *)

Families == {"rsa", "ecdsa", "ed25519", "mldsa", "slhdsa"}

\* A Go value that is a key holds material of its type.
KeyTyped(k) ==
    /\ k.mat \in Material
    /\ k.type \in Families \cup {"bytes", "signer"}
    /\ k.type \in Families => k.mat.fam = k.type
    /\ k.type = "signer" => k.mat.fam = "fndsa" /\ k.mat.half = "priv" /\ k.mat.form = AsIs

\* What a private key file read for alg yields, whatever the file.
LoadedPriv(alg, k) ==
    /\ KeyTyped(k) /\ k.type # "signer"
    /\ alg.kind \in {"rsa", "pss"} => Is(k, "rsa", "priv")
    /\ alg.kind = "ecdsa" => Is(k, "ecdsa", "priv")
    /\ alg.kind = "eddsa" => Is(k, "ed25519", "priv")
    /\ alg.kind = "mldsa" => Is(k, "mldsa", "priv") /\ k.mat.param = alg.size
    /\ alg.kind = "slhdsa" => Is(k, "slhdsa", "priv")
    /\ alg.kind \in {"fndsa", "hmac"} => k.type = "bytes"

\* And a public key file.
LoadedPub(alg, k) ==
    IF alg.kind = "none" THEN k = Magic
    ELSE /\ KeyTyped(k)
         /\ alg.kind \in {"rsa", "pss"} => Is(k, "rsa", "pub")
         /\ alg.kind = "ecdsa" => Is(k, "ecdsa", "pub")
         /\ alg.kind = "eddsa" => Is(k, "ed25519", "pub")
         /\ alg.kind = "mldsa" => Is(k, "mldsa", "pub") /\ k.mat.param = alg.size
         /\ alg.kind = "slhdsa" => Is(k, "slhdsa", "pub")
         /\ alg.kind \in {"fndsa", "hmac"} => k.type = "bytes"

LEMMA PEMKeys ==
    ASSUME NEW file \in KeyFiles,
           NEW formats, NEW half, NEW fam \in Families,
           FromPEM(file, formats, half, fam).err = "nil"
    PROVE  LET k == FromPEM(file, formats, half, fam).val
           IN  KeyTyped(k) /\ Is(k, fam, half)
<1>1. /\ \E f \in formats : Parses(file, f, half)
      /\ file.mat.fam = fam
      /\ FromPEM(file, formats, half, fam).val = Key(fam, file.mat)
  BY DEF FromPEM, Fail, Ok
<1>2. file.mat.half = half /\ file.mat \in Material
  BY <1>1 DEF Parses, KeyFiles
<1>3. Key(fam, file.mat).type = fam /\ Key(fam, file.mat).mat = file.mat
  BY DEF Key
<1>. QED
  BY <1>1, <1>2, <1>3 DEF KeyTyped, Is, Families

LEMMA RawKeys ==
    ASSUME NEW file \in KeyFiles,
           NEW half \in {"priv", "pub"}, NEW fam \in Families, NEW param \in Params,
           Raw(file, fam, param, half).err = "nil"
    PROVE  LET k == Raw(file, fam, param, half).val
           IN  KeyTyped(k) /\ Is(k, fam, half) /\ k.mat.param = param
<1>. DEFINE mat == Unmarshal(fam, param, half, file.mat)
<1>1. Raw(file, fam, param, half).val = Key(fam, mat)
  BY DEF Raw, Fail, Ok
<1>2. mat \in Material /\ mat.fam = fam /\ mat.half = half /\ mat.param = param
  <2>. DEFINE g == file.mat.genuine /\ file.mat.fam = fam /\ file.mat.param = param /\ file.mat.half = half
  <2>0. g \in BOOLEAN
    BY Zenon
  <2>. HIDE DEF g
  <2>1. file.mat \in Material
    BY DEF KeyFiles
  <2>2. mat = [file.mat EXCEPT !.fam = fam, !.param = param, !.half = half, !.genuine = g]
    BY DEF Unmarshal, g
  <2>. HIDE DEF mat
  <2>. QED
    BY <2>0, <2>1, <2>2 DEF Material, Families
<1>3. Key(fam, mat).type = fam /\ Key(fam, mat).mat = mat
  BY DEF Key
<1>. HIDE DEF mat
<1>. QED
  BY <1>1, <1>2, <1>3 DEF KeyTyped, Is, Families

LEMMA SizesAreParams ==
    ASSUME NEW m \in RegisteredMethods, m.kind \in {"mldsa", "slhdsa"}
    PROVE  m.size \in Params
BY DEF RegisteredMethods, Method, HMACMethods, RSAMethods, RSAPSSMethods, ECDSAMethods,
       Ed25519Methods, MLDSAMethods, SLHDSAMethods, FNDSAMethods, NoneMethods, Params

\* A block taken as it is.
LEMMA ByteKeys ==
    ASSUME NEW file \in KeyFiles
    PROVE  LET k == Key("bytes", Block(file)) IN KeyTyped(k) /\ k.type = "bytes"
<1>1. file.mat \in Material /\ <<file.fmt, file.enc>> \in Formats \X BOOLEAN
  BY DEF KeyFiles
<1>2. Block(file) \in Material
  BY <1>1 DEF Block, Material
<1>3. Key("bytes", Block(file)).type = "bytes" /\ Key("bytes", Block(file)).mat = Block(file)
  BY DEF Key
<1>. QED
  BY <1>2, <1>3 DEF KeyTyped, Families

LEMMA PrivateFiles ==
    ASSUME NEW alg \in RegisteredMethods, NEW file \in Files, NEW right \in BOOLEAN,
           alg.kind # "none", LoadPrivate(alg, file, right).err = "nil"
    PROVE  LoadedPriv(alg, LoadPrivate(alg, file, right).val)
<1>. DEFINE r == LoadPrivate(alg, file, right)
            k == r.val
<1>0. file \in KeyFiles /\ alg.kind \in Kinds
  BY FilesAssumption, RegisteredKinds
<1>1. CASE alg.kind \in {"rsa", "pss"}
  <2>1. PICK f \in KeyFiles : r = FromPEM(f, {"pkcs1", "pkcs8"}, "priv", "rsa")
    <3>1. [file EXCEPT !.enc = FALSE] \in KeyFiles
      BY <1>0 DEF KeyFiles
    <3>2. r = IF file.enc THEN ParseRSAPrivateKeyFromPEMWithPassword(file, right)
                          ELSE ParseRSAPrivateKeyFromPEM(file)
      BY <1>1 DEF LoadPrivate
    <3>3. file.enc => r = FromPEM([file EXCEPT !.enc = FALSE], {"pkcs1", "pkcs8"}, "priv", "rsa")
      <4>1. SUFFICES ASSUME file.enc, r = ParseRSAPrivateKeyFromPEMWithPassword(file, right)
                     PROVE  r = FromPEM([file EXCEPT !.enc = FALSE], {"pkcs1", "pkcs8"}, "priv", "rsa")
        BY <3>2
      <4>2. Fail("notPEM").err # "nil" /\ Fail("password").err # "nil"
        BY DEF Fail
      <4>. QED
        BY <4>1, <4>2, Zenon DEF ParseRSAPrivateKeyFromPEMWithPassword
    <3>. QED
      BY <1>0, <3>1, <3>2, <3>3 DEF ParseRSAPrivateKeyFromPEM
  <2>2. KeyTyped(k) /\ Is(k, "rsa", "priv")
    BY <2>1, PEMKeys DEF Families
  <2>. QED
    BY <1>1, <2>2 DEF LoadedPriv, Is
<1>2. CASE alg.kind = "ecdsa"
  <2>1. r = FromPEM(file, {"sec1", "pkcs8"}, "priv", "ecdsa")
    BY <1>2 DEF LoadPrivate, ParseECPrivateKeyFromPEM
  <2>2. KeyTyped(k) /\ Is(k, "ecdsa", "priv")
    BY <1>0, <2>1, PEMKeys DEF Families
  <2>. QED
    BY <1>2, <2>2 DEF LoadedPriv, Is
<1>3. CASE alg.kind = "eddsa"
  <2>1. r = FromPEM(file, {"pkcs8"}, "priv", "ed25519")
    BY <1>3 DEF LoadPrivate, ParseEdPrivateKeyFromPEM
  <2>2. KeyTyped(k) /\ Is(k, "ed25519", "priv")
    BY <1>0, <2>1, PEMKeys DEF Families
  <2>. QED
    BY <1>3, <2>2 DEF LoadedPriv, Is
<1>4. CASE alg.kind = "mldsa"
  <2>1. r = Raw(file, "mldsa", alg.size, "priv")
    BY <1>4 DEF LoadPrivate, ParseMLDSAPrivateKeyFromPEM
  <2>2. KeyTyped(k) /\ Is(k, "mldsa", "priv") /\ k.mat.param = alg.size
    BY <1>0, <1>4, <2>1, RawKeys, SizesAreParams DEF Families
  <2>. QED
    BY <1>4, <2>2 DEF LoadedPriv, Is
<1>5. CASE alg.kind = "slhdsa"
  <2>1. r = Raw(file, "slhdsa", alg.size, "priv")
    BY <1>5 DEF LoadPrivate, ParseSLHDSAPrivateKeyFromPEM
  <2>2. KeyTyped(k) /\ Is(k, "slhdsa", "priv")
    BY <1>0, <1>5, <2>1, RawKeys, SizesAreParams DEF Families
  <2>. QED
    BY <1>5, <2>2 DEF LoadedPriv, Is
<1>6. CASE alg.kind \in {"fndsa", "hmac"}
  <2>1. k = Key("bytes", Block(file))
    BY <1>6 DEF LoadPrivate, ParseFNDSAKeyFromPEM, Ok, Fail
  <2>2. KeyTyped(k) /\ k.type = "bytes"
    BY <1>0, <2>1, ByteKeys
  <2>. QED
    BY <1>6, <2>2 DEF LoadedPriv
<1>. QED
  BY <1>0, <1>1, <1>2, <1>3, <1>4, <1>5, <1>6 DEF Kinds

LEMMA PublicFiles ==
    ASSUME NEW alg \in RegisteredMethods, NEW file \in Files, LoadPublic(alg, file).err = "nil"
    PROVE  LoadedPub(alg, LoadPublic(alg, file).val)
<1>. DEFINE r == LoadPublic(alg, file)
            k == r.val
<1>0. file \in KeyFiles /\ alg.kind \in Kinds
  BY FilesAssumption, RegisteredKinds
<1>1. CASE alg.kind \in {"rsa", "pss"}
  <2>1. r = FromPEM(file, {"pkix", "cert", "pkcs1"}, "pub", "rsa")
    BY <1>1 DEF LoadPublic, ParseRSAPublicKeyFromPEM
  <2>2. KeyTyped(k) /\ Is(k, "rsa", "pub")
    BY <1>0, <2>1, PEMKeys DEF Families
  <2>. QED
    BY <1>1, <2>2 DEF LoadedPub, Is
<1>2. CASE alg.kind = "ecdsa"
  <2>1. r = FromPEM(file, {"pkix", "cert"}, "pub", "ecdsa")
    BY <1>2 DEF LoadPublic, ParseECPublicKeyFromPEM
  <2>2. KeyTyped(k) /\ Is(k, "ecdsa", "pub")
    BY <1>0, <2>1, PEMKeys DEF Families
  <2>. QED
    BY <1>2, <2>2 DEF LoadedPub, Is
<1>3. CASE alg.kind = "eddsa"
  <2>1. r = FromPEM(file, {"pkix"}, "pub", "ed25519")
    BY <1>3 DEF LoadPublic, ParseEdPublicKeyFromPEM
  <2>2. KeyTyped(k) /\ Is(k, "ed25519", "pub")
    BY <1>0, <2>1, PEMKeys DEF Families
  <2>. QED
    BY <1>3, <2>2 DEF LoadedPub, Is
<1>4. CASE alg.kind = "mldsa"
  <2>1. r = Raw(file, "mldsa", alg.size, "pub")
    BY <1>4 DEF LoadPublic, ParseMLDSAPublicKeyFromPEM
  <2>2. KeyTyped(k) /\ Is(k, "mldsa", "pub") /\ k.mat.param = alg.size
    BY <1>0, <1>4, <2>1, RawKeys, SizesAreParams DEF Families
  <2>. QED
    BY <1>4, <2>2 DEF LoadedPub, Is
<1>5. CASE alg.kind = "slhdsa"
  <2>1. r = Raw(file, "slhdsa", alg.size, "pub")
    BY <1>5 DEF LoadPublic, ParseSLHDSAPublicKeyFromPEM
  <2>2. KeyTyped(k) /\ Is(k, "slhdsa", "pub")
    BY <1>0, <1>5, <2>1, RawKeys, SizesAreParams DEF Families
  <2>. QED
    BY <1>5, <2>2 DEF LoadedPub, Is
<1>6. CASE alg.kind \in {"fndsa", "hmac"}
  <2>1. k = Key("bytes", Block(file))
    BY <1>6 DEF LoadPublic, ParseFNDSAKeyFromPEM, Ok, Fail
  <2>2. KeyTyped(k) /\ k.type = "bytes"
    BY <1>0, <2>1, ByteKeys
  <2>. QED
    BY <1>6, <2>2 DEF LoadedPub
<1>7. CASE alg.kind = "none"
  BY <1>7 DEF LoadPublic, LoadedPub, Ok
<1>. QED
  BY <1>0, <1>1, <1>2, <1>3, <1>4, <1>5, <1>6, <1>7 DEF Kinds

-----------------------------------------------------------------------------
(* Signatures.                                                             *)

SignersTyped(sg) ==
    \A n \in FnDegrees : sg[n] = NilKey \/ (KeyTyped(sg[n]) /\ sg[n].type = "signer")

\* s signs text with the private half of key material of the family fam.
ByPrivate(s, prim, hash, fam, text) ==
    /\ s.mat \in Material /\ s.mat.fam = fam /\ s.mat.half = "priv"
    /\ s = Sig(prim, hash, s.mat, text, s.len)

\* What Sign of method m promises of its signature of text.
SignedAs(m, s, text) ==
    /\ m.kind = "hmac" => m.size \in Linked /\ s.mat \in Material
                           /\ s = Sig("hmac", m.size, s.mat, text, 0)
    /\ m.kind = "rsa" => m.size \in Linked /\ ByPrivate(s, "pkcs1", m.size, "rsa", text)
    /\ m.kind = "pss" => m.size \in Linked /\ ByPrivate(s, "pss", m.size, "rsa", text)
    /\ m.kind = "ecdsa" => /\ m.size \in Linked /\ ByPrivate(s, "ecdsa", m.size, "ecdsa", text)
                           /\ s.mat.param = CurveBits(m.size) /\ s.len = 2 * KeySize(m.size)
    /\ m.kind = "eddsa" => ByPrivate(s, "ed25519", "-", "ed25519", text)
    /\ m.kind = "mldsa" => ByPrivate(s, "mldsa", "-", "mldsa", text) /\ s.mat.param = m.size
    /\ m.kind = "slhdsa" => ByPrivate(s, "slhdsa", "-", "slhdsa", text)
    /\ m.kind \in {"fndsa", "fndsaPre"} =>
          ByPrivate(s, "fndsa", "-", "fndsa", text) /\ s.mat.form = AsIs
    /\ m.kind = "fndsaPre" => s.mat.param = m.size
    /\ m.kind = "none" => s = NoSig

LEMMA SigFields ==
    ASSUME NEW prim, NEW hash, NEW mat, NEW text, NEW len
    PROVE  LET s == Sig(prim, hash, mat, text, len)
           IN  /\ s.prim = prim /\ s.hash = hash /\ s.mat = mat /\ s.text = text /\ s.len = len
               /\ s = Sig(s.prim, s.hash, s.mat, s.text, s.len)
               /\ (prim # "empty" => s # NoSig)
BY DEF Sig, NoSig

\* A key of a family signs: the common part of most methods.
LEMMA PrivateSigns ==
    ASSUME NEW key, KeyTyped(key), key.mat.half = "priv", NEW prim, NEW hash, NEW text, NEW len
    PROVE  LET s == Sig(prim, hash, key.mat, text, len)
           IN  ByPrivate(s, prim, hash, key.mat.fam, text) /\ s.mat = key.mat /\ s.len = len
<1>. DEFINE s == Sig(prim, hash, key.mat, text, len)
<1>1. s.mat = key.mat /\ s.len = len
  BY SigFields
<1>2. s = Sig(prim, hash, s.mat, text, s.len)
  BY <1>1, Zenon
<1>. HIDE DEF s
<1>3. ByPrivate(s, prim, hash, key.mat.fam, text)
  BY <1>1, <1>2 DEF ByPrivate, KeyTyped
<1>. QED
  BY <1>1, <1>3 DEF s

\* Failures carry an error.
LEMMA SigFailures ==
    /\ \A v : Ok(v).err = "nil" /\ Ok(v).val = v
    /\ \A e \in {"keyType", "hash", "key", "decode", "none", "format", "size", "notPEM"} :
          SigFail(e).err # "nil" /\ SigFail(e).err = e /\ Fail(e).err # "nil" /\ Fail(e).err = e
BY DEF Ok, SigFail, Fail

\* Sign of every method, with a key of any type.
LEMMA SignContract ==
    ASSUME NEW m \in Methods, NEW key, KeyTyped(key) \/ key \in {NilKey, Magic},
           SignersTyped(signer), NEW text, SignWith(m, text, key).err = "nil"
    PROVE  SignedAs(m, SignWith(m, text, key).val, text)
<1>. DEFINE r == SignWith(m, text, key)
            s == r.val
<1>0. m.kind \in Kinds \cup {"fndsaPre"} /\ (m.kind = "ecdsa" => m.size \in Sizes)
      /\ (m.kind = "fndsaPre" => m.size \in FnDegrees)
  <2>1. m \in RegisteredMethods => m.kind \in Kinds /\ (m.kind = "ecdsa" => m.size \in Sizes)
    BY RegisteredKinds
  <2>2. m \in PrecomputedMethods => m.kind = "fndsaPre" /\ m.size \in FnDegrees
    BY DEF PrecomputedMethods, Method
  <2>. QED
    BY <2>1, <2>2 DEF Methods, Kinds
<1>n. NilKey.type = "nil" /\ Magic.type = "unsafeNoneMagicConstant"
      /\ NilKey.mat.half = "none" /\ Magic.mat.half = "none"
  BY DEF NilKey, Magic, Key, None, Mat
<1>k. key.type \in Families \cup {"bytes", "signer"} => KeyTyped(key)
  BY <1>n DEF Families
<1>1. CASE m.kind = "hmac"
  <2>1. r = SignHMAC(m, text, key)
    BY <1>1 DEF SignWith
  <2>2. key.type = "bytes" /\ m.size \in Linked /\ s = Sig("hmac", m.size, key.mat, text, 0)
    BY <2>1, SigFailures DEF SignHMAC
  <2>3. s.mat = key.mat /\ key.mat \in Material
    BY <1>k, <2>2, SigFields DEF KeyTyped
  <2>. QED
    BY <1>1, <2>2, <2>3 DEF SignedAs
<1>2. CASE m.kind \in {"rsa", "pss"}
  <2>. DEFINE prim == IF m.kind = "rsa" THEN "pkcs1" ELSE "pss"
  <2>1. r = IF m.kind = "rsa" THEN SignRSA(m, text, key) ELSE SignRSAPSS(m, text, key)
    BY <1>2 DEF SignWith
  <2>2. Is(key, "rsa", "priv") /\ m.size \in Linked /\ s = Sig(prim, m.size, key.mat, text, 0)
    BY <2>1, SigFailures DEF SignRSA, SignRSAPSS
  <2>3. KeyTyped(key) /\ key.mat.half = "priv" /\ key.mat.fam = "rsa"
    BY <1>k, <2>2 DEF Is, KeyTyped, Families
  <2>4. ByPrivate(s, prim, m.size, "rsa", text)
    BY <2>2, <2>3, PrivateSigns
  <2>. QED
    BY <1>2, <2>2, <2>4 DEF SignedAs
<1>3. CASE m.kind = "ecdsa"
  <2>1. r = SignECDSA(m, text, key)
    BY <1>3 DEF SignWith
  <2>2. /\ Is(key, "ecdsa", "priv") /\ m.size \in Linked /\ key.mat.param = CurveBits(m.size)
        /\ s = Sig("ecdsa", m.size, key.mat, text, 2 * keyBytes(key.mat.param))
    BY <2>1, SigFailures DEF SignECDSA
  <2>3. KeyTyped(key) /\ key.mat.half = "priv" /\ key.mat.fam = "ecdsa"
    BY <1>k, <2>2 DEF Is, KeyTyped, Families
  <2>4. keyBytes(CurveBits(m.size)) = KeySize(m.size)
    BY <1>0, <1>3 DEF keyBytes, CurveBits, KeySize, Sizes
  <2>5. /\ ByPrivate(s, "ecdsa", m.size, "ecdsa", text) /\ s.mat = key.mat
        /\ s.len = 2 * KeySize(m.size)
    BY <2>2, <2>3, <2>4, PrivateSigns
  <2>. QED
    BY <1>3, <2>2, <2>5 DEF SignedAs
<1>4. CASE m.kind = "eddsa"
  <2>1. r = SignEd25519(m, text, key)
    BY <1>4 DEF SignWith
  <2>2. key.mat.half = "priv" /\ key.type = "ed25519" /\ s = Sig("ed25519", "-", key.mat, text, 0)
    BY <2>1, SigFailures DEF SignEd25519
  <2>3. KeyTyped(key) /\ key.mat.fam = "ed25519"
    BY <1>k, <2>2 DEF KeyTyped, Families
  <2>4. ByPrivate(s, "ed25519", "-", "ed25519", text)
    BY <2>2, <2>3, PrivateSigns
  <2>. QED
    BY <1>4, <2>4 DEF SignedAs
<1>5. CASE m.kind = "mldsa"
  <2>1. r = SignMLDSA(m, text, key)
    BY <1>5 DEF SignWith
  <2>2. /\ Is(key, "mldsa", "priv") /\ key.mat.param = m.size
        /\ s = Sig("mldsa", "-", key.mat, text, 0)
    BY <2>1, SigFailures DEF SignMLDSA
  <2>3. KeyTyped(key) /\ key.mat.half = "priv" /\ key.mat.fam = "mldsa"
    BY <1>k, <2>2 DEF Is, KeyTyped, Families
  <2>4. ByPrivate(s, "mldsa", "-", "mldsa", text) /\ s.mat = key.mat
    BY <2>2, <2>3, PrivateSigns
  <2>. QED
    BY <1>5, <2>2, <2>4 DEF SignedAs
<1>6. CASE m.kind = "slhdsa"
  <2>1. r = SignSLHDSA(m, text, key)
    BY <1>6 DEF SignWith
  <2>2. Is(key, "slhdsa", "priv") /\ s = Sig("slhdsa", "-", key.mat, text, 0)
    BY <2>1, SigFailures DEF SignSLHDSA
  <2>3. KeyTyped(key) /\ key.mat.half = "priv" /\ key.mat.fam = "slhdsa"
    BY <1>k, <2>2 DEF Is, KeyTyped, Families
  <2>4. ByPrivate(s, "slhdsa", "-", "slhdsa", text)
    BY <2>2, <2>3, PrivateSigns
  <2>. QED
    BY <1>6, <2>4 DEF SignedAs
<1>7. CASE m.kind = "fndsa"
  <2>1. r = SignFNDSA(m, text, key)
    BY <1>7 DEF SignWith
  <2>2. key.type = "bytes" /\ FnKey(key, "priv") /\ s = Sig("fndsa", "-", key.mat, text, 0)
    BY <2>1, SigFailures DEF SignFNDSA
  <2>3. KeyTyped(key) /\ key.mat.half = "priv" /\ key.mat.fam = "fndsa" /\ key.mat.form = AsIs
    BY <1>k, <2>2 DEF FnKey
  <2>4. ByPrivate(s, "fndsa", "-", "fndsa", text) /\ s.mat.form = AsIs
    BY <2>2, <2>3, PrivateSigns
  <2>. QED
    BY <1>7, <2>4 DEF SignedAs
<1>8. CASE m.kind = "fndsaPre"
  <2>. DEFINE sk == signerForKey(m, key)
  <2>1. r = SignFNDSAPre(m, text, key)
    BY <1>8 DEF SignWith
  <2>2. sk.err = "nil" /\ sk.val.mat.param = m.size /\ s = Sig("fndsa", "-", sk.val.mat, text, 0)
    BY <2>1, SigFailures DEF SignFNDSAPre, SigFail
  <2>3. /\ KeyTyped(sk.val) /\ sk.val.mat.half = "priv" /\ sk.val.mat.fam = "fndsa"
        /\ sk.val.mat.form = AsIs
    <3>1. CASE key.type = "nil"
      <4>1. sk = IF signer[m.size].type = "nil" THEN Fail("keyType") ELSE Ok(signer[m.size])
        BY <3>1 DEF signerForKey
      <4>2. sk.val = signer[m.size] /\ signer[m.size].type # "nil"
        BY <2>2, <4>1, SigFailures
      <4>3. KeyTyped(signer[m.size]) /\ signer[m.size].type = "signer"
        BY <1>0, <1>8, <1>n, <4>2 DEF SignersTyped
      <4>. QED
        BY <4>2, <4>3 DEF KeyTyped
    <3>2. CASE key.type = "bytes"
      <4>1. sk = IF FnKey(key, "priv") THEN Ok(Key("signer", key.mat)) ELSE Fail("key")
        BY <3>2 DEF signerForKey
      <4>2. FnKey(key, "priv") /\ sk.val = Key("signer", key.mat)
        BY <2>2, <4>1, SigFailures
      <4>3. sk.val.type = "signer" /\ sk.val.mat = key.mat
        BY <4>2 DEF Key
      <4>. QED
        BY <1>k, <3>2, <4>2, <4>3 DEF KeyTyped, FnKey, Families
    <3>3. CASE key.type = "signer"
      <4>1. sk = Ok(key)
        BY <3>3 DEF signerForKey
      <4>. QED
        BY <1>k, <3>3, <4>1, SigFailures DEF KeyTyped
    <3>4. CASE key.type \notin {"nil", "bytes", "signer"}
      <4>1. sk = Fail("keyType")
        BY <3>4 DEF signerForKey
      <4>. QED
        BY <2>2, <4>1, SigFailures
    <3>. QED
      BY <3>1, <3>2, <3>3, <3>4
  <2>4. ByPrivate(s, "fndsa", "-", "fndsa", text) /\ s.mat = sk.val.mat /\ s.mat.form = AsIs
    BY <2>2, <2>3, PrivateSigns
  <2>. HIDE DEF sk
  <2>. QED
    BY <1>8, <2>2, <2>4 DEF SignedAs
<1>9. CASE m.kind = "none"
  <2>1. r = SignNone(m, text, key)
    BY <1>9 DEF SignWith
  <2>2. s = NoSig
    BY <2>1, SigFailures DEF SignNone
  <2>. QED
    BY <1>9, <2>2 DEF SignedAs
<1>. QED
  BY <1>0, <1>1, <1>2, <1>3, <1>4, <1>5, <1>6, <1>7, <1>8, <1>9 DEF Kinds

\* The halves of a key pair.
LEMMA PairHalves ==
    ASSUME NEW mat \in Material
    PROVE  /\ mat.half = "pub" => OtherHalf([mat EXCEPT !.half = "priv"]) = mat
           /\ mat.half = "priv" =>
                 /\ OtherHalf(mat) \in Material /\ OtherHalf(mat).half = "pub"
                 /\ OtherHalf(mat).fam = mat.fam /\ OtherHalf(mat).param = mat.param
                 /\ OtherHalf(mat).genuine = mat.genuine /\ OtherHalf(mat).form = mat.form
                 /\ [OtherHalf(mat) EXCEPT !.half = "priv"] = mat
<1>1. ASSUME mat.half = "pub" PROVE OtherHalf([mat EXCEPT !.half = "priv"]) = mat
  <2>. DEFINE p == [mat EXCEPT !.half = "priv"]
  <2>1. p \in Material /\ p.half = "priv"
    BY DEF Material
  <2>2. [p EXCEPT !.half = "pub"] = mat
    BY <1>1 DEF Material
  <2>. HIDE DEF p
  <2>3. OtherHalf(p) = mat
    BY <2>1, <2>2 DEF OtherHalf
  <2>. QED
    BY <2>3 DEF p
<1>2. ASSUME mat.half = "priv"
      PROVE  /\ OtherHalf(mat) \in Material /\ OtherHalf(mat).half = "pub"
             /\ OtherHalf(mat).fam = mat.fam /\ OtherHalf(mat).param = mat.param
             /\ OtherHalf(mat).genuine = mat.genuine /\ OtherHalf(mat).form = mat.form
             /\ [OtherHalf(mat) EXCEPT !.half = "priv"] = mat
  <2>1. OtherHalf(mat) = [mat EXCEPT !.half = "pub"]
    BY <1>2 DEF OtherHalf
  <2>. QED
    BY <1>2, <2>1 DEF Material
<1>. QED
  BY <1>1, <1>2

\* A signature by a private key passes Valid with the other half.
LEMMA PrivateVerifies ==
    ASSUME NEW s, NEW prim, NEW hash, NEW fam, NEW text, ByPrivate(s, prim, hash, fam, text),
           s.mat.genuine, NEW type
    PROVE  Valid(prim, hash, Key(type, OtherHalf(s.mat)), text, s)
<1>. DEFINE k == Key(type, OtherHalf(s.mat))
<1>1. s.prim = prim /\ s.hash = hash /\ s.text = text /\ s.mat \in Material /\ s.mat.half = "priv"
  BY SigFields DEF ByPrivate
<1>2. k.mat = OtherHalf(s.mat)
  BY DEF Key
<1>3. k.mat.half = "pub" /\ s.mat = [k.mat EXCEPT !.half = "priv"] /\ k.mat.genuine
  BY <1>1, <1>2, PairHalves
<1>. HIDE DEF k
<1>4. Valid(prim, hash, k, text, s)
  BY <1>1, <1>3 DEF Valid
<1>. QED
  BY <1>4 DEF k

\* What passes Valid was signed by the other half.
LEMMA ValidSigned ==
    ASSUME NEW s, NEW prim, NEW hash, NEW k, KeyTyped(k), NEW text, Valid(prim, hash, k, text, s),
           prim # "empty"
    PROVE  s.mat.half # "pub" /\ k.mat = OtherHalf(s.mat) /\ s.text = text /\ s # NoSig
<1>1. /\ s.prim = prim /\ s.text = text /\ k.mat.half = "pub" /\ s.mat = [k.mat EXCEPT !.half = "priv"]
      /\ k.mat \in Material
  BY DEF Valid, KeyTyped
<1>2. s.mat.half = "priv"
  BY <1>1 DEF Material
<1>3. k.mat = OtherHalf(s.mat)
  BY <1>1, PairHalves
<1>4. NoSig.prim = "empty"
  BY DEF NoSig
<1>. QED
  BY <1>1, <1>2, <1>3, <1>4

\* Verify of every registered method, with the key loaded for it.
LEMMA VerifyContract ==
    ASSUME NEW alg \in RegisteredMethods, NEW k, LoadedPub(alg, k), NEW text, NEW s,
           VerifyWith(alg, text, s, k) = "nil"
    PROVE  \/ k = Magic /\ s = NoSig
           \/ /\ s.text = text /\ s # NoSig
              /\ IF alg.kind = "hmac" THEN k.mat = s.mat
                 ELSE s.mat.half # "pub" /\ k.mat = OtherHalf(s.mat)
<1>. DEFINE Fine == s.mat.half # "pub" /\ k.mat = OtherHalf(s.mat) /\ s.text = text /\ s # NoSig
<1>0. alg.kind \in Kinds /\ (alg.kind # "none" => KeyTyped(k))
  BY RegisteredKinds DEF LoadedPub
<1>1. CASE alg.kind = "hmac"
  <2>1. VerifyWith(alg, text, s, k) = VerifyHMAC(alg, text, s, k)
    BY <1>1 DEF VerifyWith
  <2>2. s = Sig("hmac", alg.size, k.mat, text, 0)
    BY <2>1 DEF VerifyHMAC
  <2>3. s.mat = k.mat /\ s.text = text /\ s # NoSig
    BY <2>2, SigFields
  <2>. QED
    BY <1>1, <2>3
<1>2. CASE alg.kind = "rsa"
  <2>1. VerifyWith(alg, text, s, k) = VerifyRSA(alg, text, s, k)
    BY <1>2 DEF VerifyWith
  <2>2. Valid("pkcs1", alg.size, k, text, s)
    BY <2>1 DEF VerifyRSA
  <2>3. Fine
    BY <1>0, <1>2, <2>2, ValidSigned
  <2>. QED
    BY <1>1, <2>3
<1>3. CASE alg.kind = "pss"
  <2>1. VerifyWith(alg, text, s, k) = VerifyRSAPSS(alg, text, s, k)
    BY <1>3 DEF VerifyWith
  <2>2. Valid("pss", alg.size, k, text, s)
    BY <2>1 DEF VerifyRSAPSS
  <2>3. Fine
    BY <1>0, <1>3, <2>2, ValidSigned
  <2>. QED
    BY <1>3, <2>3
<1>4. CASE alg.kind = "ecdsa"
  <2>1. VerifyWith(alg, text, s, k) = VerifyECDSA(alg, text, s, k)
    BY <1>4 DEF VerifyWith
  <2>2. Valid("ecdsa", alg.size, k, text, s)
    BY <2>1 DEF VerifyECDSA
  <2>3. Fine
    BY <1>0, <1>4, <2>2, ValidSigned
  <2>. QED
    BY <1>4, <2>3
<1>5. CASE alg.kind = "eddsa"
  <2>1. VerifyWith(alg, text, s, k) = VerifyEd25519(alg, text, s, k)
    BY <1>5 DEF VerifyWith
  <2>2. Valid("ed25519", "-", k, text, s)
    BY <2>1 DEF VerifyEd25519
  <2>3. Fine
    BY <1>0, <1>5, <2>2, ValidSigned
  <2>. QED
    BY <1>5, <2>3
<1>6. CASE alg.kind = "mldsa"
  <2>1. VerifyWith(alg, text, s, k) = VerifyMLDSA(alg, text, s, k)
    BY <1>6 DEF VerifyWith
  <2>2. Valid("mldsa", "-", k, text, s)
    BY <2>1 DEF VerifyMLDSA
  <2>3. Fine
    BY <1>0, <1>6, <2>2, ValidSigned
  <2>. QED
    BY <1>6, <2>3
<1>7. CASE alg.kind = "slhdsa"
  <2>1. VerifyWith(alg, text, s, k) = VerifySLHDSA(alg, text, s, k)
    BY <1>7 DEF VerifyWith
  <2>2. Valid("slhdsa", "-", k, text, s)
    BY <2>1 DEF VerifySLHDSA
  <2>3. Fine
    BY <1>0, <1>7, <2>2, ValidSigned
  <2>. QED
    BY <1>7, <2>3
<1>8. CASE alg.kind = "fndsa"
  <2>1. VerifyWith(alg, text, s, k) = VerifyFNDSA(alg, text, s, k)
    BY <1>8 DEF VerifyWith
  <2>2. Valid("fndsa", "-", k, text, s)
    BY <2>1 DEF VerifyFNDSA
  <2>3. Fine
    BY <1>0, <1>8, <2>2, ValidSigned
  <2>. QED
    BY <1>8, <2>3
<1>9. CASE alg.kind = "none"
  <2>1. VerifyWith(alg, text, s, k) = VerifyNone(alg, text, s, k)
    BY <1>9 DEF VerifyWith
  <2>. QED
    BY <2>1 DEF VerifyNone
<1>. QED
  BY <1>0, <1>1, <1>2, <1>3, <1>4, <1>5, <1>6, <1>7, <1>8, <1>9 DEF Kinds

\* What Sign promises is what Verify of the method in the header asks for.
LEMMA SignedThenVerified ==
    ASSUME NEW m \in Methods, NEW text, NEW s, SignedAs(m, s, text),
           s.mat.genuine, s # NoSig
    PROVE  VerifyWith(Alg(m), text, s, VerifyKey(m, s.mat)) = "nil"
<1>. DEFINE k == VerifyKey(m, s.mat)
            a == Alg(m)
<1>0. m.kind \in Kinds \cup {"fndsaPre"} /\ (m.kind # "fndsaPre" => a = m)
      /\ (m.kind = "fndsaPre" => a.kind = "fndsa")
  <2>1. m \in RegisteredMethods => m.kind \in Kinds
    BY RegisteredKinds
  <2>. QED
    BY <2>1, AlgRegistered
<1>1. CASE m.kind = "hmac"
  <2>1. k = Key("bytes", s.mat)
    BY <1>1 DEF VerifyKey
  <2>2. k.type = "bytes" /\ k.mat = s.mat
    BY <2>1 DEF Key
  <2>3. m.size \in Linked /\ s = Sig("hmac", m.size, k.mat, text, 0)
    BY <1>1, <2>2 DEF SignedAs
  <2>4. VerifyHMAC(m, text, s, k) = "nil"
    BY <2>2, <2>3 DEF VerifyHMAC
  <2>. QED
    BY <1>0, <1>1, <2>4 DEF VerifyWith
<1>2. ASSUME NEW prim, NEW hash, NEW fam \in Families \cup {"fndsa"}, m.kind # "hmac",
             ByPrivate(s, prim, hash, fam, text)
      PROVE  /\ k.type = (IF fam = "fndsa" THEN "bytes" ELSE fam) /\ k.mat.half = "pub"
             /\ k.mat.fam = fam /\ k.mat.param = s.mat.param /\ k.mat.form = s.mat.form
             /\ Valid(prim, hash, k, text, s)
  <2>1. s.mat.fam = fam /\ s.mat \in Material /\ s.mat.half = "priv"
    BY <1>2 DEF ByPrivate
  <2>. DEFINE type == IF fam = "fndsa" THEN "bytes" ELSE fam
  <2>2. k = Key(type, OtherHalf(s.mat))
    BY <1>2, <2>1 DEF VerifyKey
  <2>3. k.type = type /\ k.mat = OtherHalf(s.mat)
    BY <2>2 DEF Key
  <2>4. Valid(prim, hash, k, text, s)
    BY <1>2, <2>2, PrivateVerifies
  <2>. HIDE DEF type
  <2>5. /\ k.mat.half = "pub" /\ k.mat.fam = fam /\ k.mat.param = s.mat.param
        /\ k.mat.form = s.mat.form
    BY <2>1, <2>3, PairHalves
  <2>. QED
    BY <2>3, <2>4, <2>5 DEF type
<1>3. CASE m.kind = "rsa"
  <2>1. m.size \in Linked /\ Is(k, "rsa", "pub") /\ Valid("pkcs1", m.size, k, text, s)
    BY <1>2, <1>3 DEF SignedAs, Is, Families
  <2>2. VerifyRSA(m, text, s, k) = "nil"
    BY <2>1 DEF VerifyRSA
  <2>. QED
    BY <1>0, <1>3, <2>2 DEF VerifyWith
<1>4. CASE m.kind = "pss"
  <2>1. m.size \in Linked /\ Is(k, "rsa", "pub") /\ Valid("pss", m.size, k, text, s)
    BY <1>2, <1>4 DEF SignedAs, Is, Families
  <2>2. VerifyRSAPSS(m, text, s, k) = "nil"
    BY <2>1 DEF VerifyRSAPSS
  <2>. QED
    BY <1>0, <1>4, <2>2 DEF VerifyWith
<1>5. CASE m.kind = "ecdsa"
  <2>1. /\ m.size \in Linked /\ Is(k, "ecdsa", "pub") /\ Valid("ecdsa", m.size, k, text, s)
        /\ s.len = 2 * KeySize(m.size)
    BY <1>2, <1>5 DEF SignedAs, Is, Families
  <2>2. VerifyECDSA(m, text, s, k) = "nil"
    BY <2>1 DEF VerifyECDSA
  <2>. QED
    BY <1>0, <1>5, <2>2 DEF VerifyWith
<1>6. CASE m.kind = "eddsa"
  <2>1. Is(k, "ed25519", "pub") /\ Valid("ed25519", "-", k, text, s)
    BY <1>2, <1>6 DEF SignedAs, Is, Families
  <2>2. VerifyEd25519(m, text, s, k) = "nil"
    BY <2>1 DEF VerifyEd25519
  <2>. QED
    BY <1>0, <1>6, <2>2 DEF VerifyWith
<1>7. CASE m.kind = "mldsa"
  <2>1. Is(k, "mldsa", "pub") /\ Valid("mldsa", "-", k, text, s) /\ k.mat.param = m.size
    BY <1>2, <1>7 DEF SignedAs, Is, Families
  <2>2. VerifyMLDSA(m, text, s, k) = "nil"
    BY <2>1 DEF VerifyMLDSA
  <2>. QED
    BY <1>0, <1>7, <2>2 DEF VerifyWith
<1>8. CASE m.kind = "slhdsa"
  <2>1. Is(k, "slhdsa", "pub") /\ Valid("slhdsa", "-", k, text, s)
    BY <1>2, <1>8 DEF SignedAs, Is, Families
  <2>2. VerifySLHDSA(m, text, s, k) = "nil"
    BY <2>1 DEF VerifySLHDSA
  <2>. QED
    BY <1>0, <1>8, <2>2 DEF VerifyWith
<1>9. CASE m.kind \in {"fndsa", "fndsaPre"}
  <2>1. k.type = "bytes" /\ FnKey(k, "pub") /\ Valid("fndsa", "-", k, text, s)
    BY <1>2, <1>9 DEF SignedAs, FnKey, Families
  <2>2. VerifyFNDSA(a, text, s, k) = "nil"
    BY <2>1 DEF VerifyFNDSA
  <2>3. a.kind = "fndsa"
    BY <1>0, <1>9
  <2>. HIDE DEF a
  <2>4. VerifyWith(a, text, s, k) = "nil"
    BY <2>2, <2>3 DEF VerifyWith
  <2>. QED
    BY <2>4 DEF a
<1>10. CASE m.kind = "none"
  BY <1>10 DEF SignedAs
<1>. QED
  BY <1>0, <1>1, <1>3, <1>4, <1>5, <1>6, <1>7, <1>8, <1>9, <1>10 DEF Kinds

-----------------------------------------------------------------------------
(* Keys that load are taken.                                               *)

LEMMA PrivateTaken ==
    ASSUME NEW alg \in RegisteredMethods, NEW k, LoadedPriv(alg, k), NEW text, alg.kind # "none"
    PROVE  SignWith(alg, text, k).err # "keyType"
<1>0. alg.kind \in Kinds
  BY RegisteredKinds
<1>e. /\ \A v : Ok(v).err # "keyType"
      /\ SigFail("hash").err # "keyType" /\ SigFail("key").err # "keyType"
      /\ SigFail("decode").err # "keyType"
  BY DEF Ok, SigFail
<1>1. CASE alg.kind = "hmac"
  <2>1. SignWith(alg, text, k) = SignHMAC(alg, text, k) /\ k.type = "bytes"
    BY <1>1 DEF SignWith, LoadedPriv
  <2>. QED
    BY <1>e, <2>1 DEF SignHMAC
<1>2. CASE alg.kind = "rsa"
  <2>1. SignWith(alg, text, k) = SignRSA(alg, text, k) /\ Is(k, "rsa", "priv")
    BY <1>2 DEF SignWith, LoadedPriv
  <2>. QED
    BY <1>e, <2>1 DEF SignRSA
<1>3. CASE alg.kind = "pss"
  <2>1. SignWith(alg, text, k) = SignRSAPSS(alg, text, k) /\ Is(k, "rsa", "priv")
    BY <1>3 DEF SignWith, LoadedPriv
  <2>. QED
    BY <1>e, <2>1 DEF SignRSAPSS
<1>4. CASE alg.kind = "ecdsa"
  <2>1. SignWith(alg, text, k) = SignECDSA(alg, text, k) /\ Is(k, "ecdsa", "priv")
    BY <1>4 DEF SignWith, LoadedPriv
  <2>. QED
    BY <1>e, <2>1 DEF SignECDSA
<1>5. CASE alg.kind = "eddsa"
  <2>1. SignWith(alg, text, k) = SignEd25519(alg, text, k) /\ Is(k, "ed25519", "priv")
    BY <1>5 DEF SignWith, LoadedPriv
  <2>. QED
    BY <1>e, <2>1 DEF SignEd25519, Is
<1>6. CASE alg.kind = "mldsa"
  <2>1. /\ SignWith(alg, text, k) = SignMLDSA(alg, text, k) /\ Is(k, "mldsa", "priv")
        /\ k.mat.param = alg.size
    BY <1>6 DEF SignWith, LoadedPriv
  <2>. QED
    BY <1>e, <2>1 DEF SignMLDSA
<1>7. CASE alg.kind = "slhdsa"
  <2>1. SignWith(alg, text, k) = SignSLHDSA(alg, text, k) /\ Is(k, "slhdsa", "priv")
    BY <1>7 DEF SignWith, LoadedPriv
  <2>. QED
    BY <1>e, <2>1 DEF SignSLHDSA
<1>8. CASE alg.kind = "fndsa"
  <2>1. SignWith(alg, text, k) = SignFNDSA(alg, text, k) /\ k.type = "bytes"
    BY <1>8 DEF SignWith, LoadedPriv
  <2>. QED
    BY <1>e, <2>1 DEF SignFNDSA
<1>. QED
  BY <1>0, <1>1, <1>2, <1>3, <1>4, <1>5, <1>6, <1>7, <1>8 DEF Kinds

LEMMA PublicTaken ==
    ASSUME NEW alg \in RegisteredMethods, NEW k, LoadedPub(alg, k), NEW text, NEW s
    PROVE  VerifyWith(alg, text, s, k) # "keyType"
<1>0. alg.kind \in Kinds
  BY RegisteredKinds
<1>1. CASE alg.kind = "hmac"
  BY <1>1 DEF VerifyWith, VerifyHMAC, LoadedPub
<1>2. CASE alg.kind = "rsa"
  BY <1>2 DEF VerifyWith, VerifyRSA, LoadedPub
<1>3. CASE alg.kind = "pss"
  BY <1>3 DEF VerifyWith, VerifyRSAPSS, LoadedPub
<1>4. CASE alg.kind = "ecdsa"
  BY <1>4 DEF VerifyWith, VerifyECDSA, LoadedPub
<1>5. CASE alg.kind = "eddsa"
  BY <1>5 DEF VerifyWith, VerifyEd25519, LoadedPub
<1>6. CASE alg.kind = "mldsa"
  BY <1>6 DEF VerifyWith, VerifyMLDSA, LoadedPub
<1>7. CASE alg.kind = "slhdsa"
  BY <1>7 DEF VerifyWith, VerifySLHDSA, LoadedPub
<1>8. CASE alg.kind = "fndsa"
  BY <1>8 DEF VerifyWith, VerifyFNDSA, LoadedPub
<1>9. CASE alg.kind = "none"
  BY <1>9 DEF VerifyWith, VerifyNone, LoadedPub
<1>. QED
  BY <1>0, <1>1, <1>2, <1>3, <1>4, <1>5, <1>6, <1>7, <1>8, <1>9 DEF Kinds

-----------------------------------------------------------------------------
(* The inductive invariant.                                                *)

PrivLoaded ==
    priv # NilKey => /\ tok = NoTok
                     /\ \E alg \in RegisteredMethods :
                           alg.kind # "none" /\ allowed = {alg} /\ LoadedPriv(alg, priv)

PubLoaded ==
    pub # NilKey => /\ tok # NoTok
                    /\ \E alg \in RegisteredMethods : allowed = {alg} /\ LoadedPub(alg, pub)

TokSigned ==
    tok # NoTok => /\ tok.with \in Methods /\ tok.text[1] = Alg(tok.with)
                   /\ SignedAs(tok.with, tok.sig, tok.text) /\ tok.by = tok.sig.mat

MethodsInv ==
    /\ PrivLoaded /\ PubLoaded /\ TokSigned /\ SignersTyped(signer)
    /\ verdict # "none" => pub # NilKey
    /\ AcceptedIsSigned

LEMMA MethodsInvInit == MethodsInit => MethodsInv
BY DEF MethodsInit, MethodsInv, PrivLoaded, PubLoaded, TokSigned, SignersTyped, AcceptedIsSigned

\* A signature that SignedAs describes is of this text, if it is one at all.
LEMMA SignedText ==
    ASSUME NEW m \in Methods, NEW s, NEW text, SignedAs(m, s, text), s # NoSig
    PROVE  s.text = text
<1>1. m.kind \in Kinds \cup {"fndsaPre"}
  BY RegisteredKinds DEF Methods, PrecomputedMethods, Method
<1>2. ASSUME NEW prim, NEW hash, NEW fam, ByPrivate(s, prim, hash, fam, text)
      PROVE  s.text = text
  BY <1>2, SigFields DEF ByPrivate
<1>3. m.kind = "hmac" => s.text = text
  BY SigFields DEF SignedAs
<1>4. m.kind \in Kinds \cup {"fndsaPre"} /\ m.kind \notin {"hmac", "none"} =>
          \E prim, hash, fam : ByPrivate(s, prim, hash, fam, text)
  BY Zenon DEF SignedAs, Kinds
<1>5. m.kind # "none"
  BY DEF SignedAs
<1>. QED
  BY <1>1, <1>2, <1>3, <1>4, <1>5

LEMMA MethodsStep == MethodsInv /\ [MethodsNext]_methodVars => MethodsInv'
<1>. SUFFICES ASSUME MethodsInv, [MethodsNext]_methodVars PROVE MethodsInv'
  OBVIOUS
<1>1. ASSUME NEW alg \in RegisteredMethods, NEW file \in Files, NEW right \in BOOLEAN,
             LoadPriv(alg, file, right)
      PROVE  MethodsInv'
  <2>1. /\ tok = NoTok /\ allowed' = {alg} /\ UNCHANGED <<pub, signer, tok, verdict>>
        /\ LoadedPriv(alg, priv') /\ alg.kind # "none"
    BY <1>1, PrivateFiles DEF LoadPriv
  <2>2. pub = NilKey
    BY <2>1 DEF MethodsInv, PubLoaded
  <2>. QED
    BY <2>1, <2>2 DEF MethodsInv, PrivLoaded, PubLoaded, TokSigned, AcceptedIsSigned
<1>2. ASSUME NEW n \in FnDegrees, SetPrecomputedSigner(n)
      PROVE  MethodsInv'
  <2>1. /\ priv.type = "bytes" /\ FnKey(priv, "priv")
        /\ signer' = [signer EXCEPT ![n] = Key("signer", priv.mat)]
        /\ UNCHANGED <<allowed, priv, pub, tok, verdict>>
    BY <1>2 DEF SetPrecomputedSigner
  <2>2. priv # NilKey
    BY <2>1 DEF NilKey, Key
  <2>3. KeyTyped(priv)
    BY <2>2 DEF MethodsInv, PrivLoaded, LoadedPriv
  <2>. DEFINE k == Key("signer", priv.mat)
  <2>4. k.type = "signer" /\ k.mat = priv.mat
    BY DEF Key
  <2>5. KeyTyped(k)
    BY <2>1, <2>3, <2>4 DEF KeyTyped, FnKey, Families
  <2>. HIDE DEF k
  <2>6. SignersTyped(signer')
    BY <2>1, <2>4, <2>5 DEF MethodsInv, SignersTyped, k
  <2>. QED
    BY <2>1, <2>6 DEF MethodsInv, PrivLoaded, PubLoaded, TokSigned, AcceptedIsSigned, SignedForKey
<1>3. ASSUME NEW m \in Methods, NEW key \in {priv, NilKey, Magic}, NEW claims \in Texts,
             SignedString(m, key, claims)
      PROVE  MethodsInv'
  <2>. DEFINE text == <<Alg(m), claims>>
              s == SignWith(m, text, key)
  <2>1. /\ priv # NilKey /\ tok = NoTok /\ s.err = "nil"
        /\ tok' = [text |-> text, sig |-> s.val, by |-> s.val.mat, with |-> m]
        /\ priv' = NilKey /\ signer' = [n \in FnDegrees |-> NilKey]
        /\ UNCHANGED <<pub, verdict>>
    BY <1>3 DEF SignedString
  <2>2. KeyTyped(key) \/ key \in {NilKey, Magic}
    BY <2>1 DEF MethodsInv, PrivLoaded, LoadedPriv
  <2>3. SignedAs(m, s.val, text)
    BY <2>1, <2>2, SignContract DEF MethodsInv
  <2>4. text[1] = Alg(m)
    OBVIOUS
  <2>. HIDE DEF text, s
  <2>5. tok'.with = m /\ tok'.text = text /\ tok'.sig = s.val /\ tok'.by = s.val.mat
    BY <2>1
  <2>6. TokSigned'
    BY <2>3, <2>4, <2>5 DEF TokSigned
  <2>7. pub = NilKey /\ verdict = "none"
    BY <2>1 DEF MethodsInv, PubLoaded
  <2>8. SignersTyped(signer')
    BY <2>1 DEF SignersTyped
  <2>. QED
    BY <2>1, <2>6, <2>7, <2>8 DEF MethodsInv, PrivLoaded, PubLoaded, AcceptedIsSigned, SignersTyped
<1>4. ASSUME NEW alg \in RegisteredMethods, NEW file \in Files, LoadPub(alg, file)
      PROVE  MethodsInv'
  <2>1. /\ tok # NoTok /\ pub = NilKey /\ allowed' = {alg} /\ UNCHANGED <<priv, signer, tok, verdict>>
        /\ LoadedPub(alg, pub')
    BY <1>4, PublicFiles DEF LoadPub
  <2>2. priv = NilKey /\ verdict = "none"
    BY <2>1 DEF MethodsInv, PrivLoaded
  <2>. QED
    BY <2>1, <2>2 DEF MethodsInv, PrivLoaded, PubLoaded, TokSigned, AcceptedIsSigned, SignersTyped
<1>5. ASSUME NEW claims \in Texts, ParseToken(claims)
      PROVE  MethodsInv'
  <2>. DEFINE a == tok.text[1]
              text == <<a, claims>>
  <2>1. /\ pub # NilKey /\ UNCHANGED <<allowed, priv, pub, signer, tok>>
        /\ verdict' = IF a \notin allowed THEN "method"
                      ELSE VerifyWith(GetSigningMethod(a), text, tok.sig, pub)
    BY <1>5 DEF ParseToken
  <2>2. PICK alg \in RegisteredMethods : allowed = {alg} /\ LoadedPub(alg, pub)
    BY <2>1 DEF MethodsInv, PubLoaded
  <2>3. ASSUME verdict' = "nil"
        PROVE  \/ pub = Magic /\ tok.sig = NoSig
               \/ SignedForKey /\ tok.sig.text = tok.text
    <3>1. a = alg /\ VerifyWith(GetSigningMethod(a), text, tok.sig, pub) = "nil"
      BY <2>1, <2>2, <2>3
    <3>2. GetSigningMethod(a) = alg
      BY <3>1, MethodOfName
    <3>. HIDE DEF a, text
    <3>3. \/ pub = Magic /\ tok.sig = NoSig
          \/ /\ tok.sig # NoSig
             /\ IF alg.kind = "hmac" THEN pub.mat = tok.sig.mat
                ELSE tok.sig.mat.half # "pub" /\ pub.mat = OtherHalf(tok.sig.mat)
      BY <2>2, <3>1, <3>2, VerifyContract
    <3>4. /\ tok.by = tok.sig.mat /\ tok.with \in Methods
          /\ SignedAs(tok.with, tok.sig, tok.text)
      BY <2>1 DEF MethodsInv, PubLoaded, TokSigned
    <3>5. tok.sig # NoSig => tok.sig.text = tok.text
      BY <3>4, SignedText
    <3>6. tok.text[1] = alg /\ allowed = {alg}
      BY <2>2, <3>1 DEF a
    <3>. QED
      BY <3>3, <3>4, <3>5, <3>6 DEF SignedForKey
  <2>4. AcceptedIsSigned'
    BY <2>1, <2>3 DEF AcceptedIsSigned, SignedForKey
  <2>. HIDE DEF a, text
  <2>5. UNCHANGED <<allowed, priv, pub, signer, tok>> /\ pub # NilKey
    BY <2>1
  <2>. QED
    <3>1. PrivLoaded' /\ TokSigned' /\ SignersTyped(signer)'
      BY <2>5 DEF MethodsInv, PrivLoaded, TokSigned, SignersTyped
    <3>2. PubLoaded'
      BY <2>5 DEF MethodsInv, PubLoaded
    <3>. QED
      BY <2>4, <2>5, <3>1, <3>2 DEF MethodsInv
<1>6. CASE UNCHANGED methodVars
  BY <1>6 DEF methodVars, MethodsInv, PrivLoaded, PubLoaded, TokSigned, AcceptedIsSigned, SignedForKey,
              SignersTyped
<1>. QED
  BY <1>1, <1>2, <1>3, <1>4, <1>5, <1>6 DEF MethodsNext

\* Parser and Verify accept a token only if the holder of the private half of the
\* verifier's key signed exactly these claims, or the holder of the secret where
\* the verifier read its file as one, or if the verifier asked for unsigned
\* tokens: whatever files the two parties read, for whatever algorithms, with
\* whatever hash functions linked.
THEOREM AcceptedTokensSigned == MethodsSpec => []AcceptedIsSigned
<1>1. MethodsInv => AcceptedIsSigned
  BY DEF MethodsInv
<1>. QED
  BY <1>1, MethodsInvInit, MethodsStep, PTL DEF MethodsSpec

\* Sign, Verify and the Parse functions of every method agree on keys: what one
\* signs the one the header names verifies, a key that loads is taken, and a
\* method that knows its parameter set signs with no other.
THEOREM MethodsAgree == MethodsSpec => []MethodsFitKeys
<1>1. ASSUME MethodsInv PROVE SignedVerifies
  <2>. SUFFICES ASSUME tok # NoTok, tok.by.genuine, tok.sig # NoSig
                PROVE  VerifyWith(GetSigningMethod(tok.text[1]), tok.text, tok.sig,
                                  VerifyKey(tok.with, tok.by)) = "nil"
    BY DEF SignedVerifies
  <2>1. /\ tok.with \in Methods /\ tok.text[1] = Alg(tok.with)
        /\ SignedAs(tok.with, tok.sig, tok.text) /\ tok.by = tok.sig.mat
    BY <1>1 DEF MethodsInv, TokSigned
  <2>2. GetSigningMethod(tok.text[1]) = Alg(tok.with)
    BY <2>1, AlgRegistered, MethodOfName
  <2>. QED
    BY <2>1, <2>2, SignedThenVerified
<1>2. ASSUME MethodsInv PROVE LoadedKeyFits
  <2>1. ASSUME priv # NilKey, NEW alg \in allowed, NEW t \in Texts
        PROVE  SignWith(GetSigningMethod(alg), <<alg, t>>, priv).err # "keyType"
    <3>1. alg \in RegisteredMethods /\ alg.kind # "none" /\ LoadedPriv(alg, priv)
      BY <1>2, <2>1 DEF MethodsInv, PrivLoaded
    <3>. QED
      BY <3>1, MethodOfName, PrivateTaken
  <2>2. ASSUME pub # NilKey, NEW alg \in allowed
        PROVE  VerifyWith(GetSigningMethod(alg), tok.text, tok.sig, pub) # "keyType"
    <3>1. alg \in RegisteredMethods /\ LoadedPub(alg, pub)
      BY <1>2, <2>2 DEF MethodsInv, PubLoaded
    <3>. QED
      BY <3>1, MethodOfName, PublicTaken
  <2>. QED
    BY <2>1, <2>2 DEF LoadedKeyFits
<1>3. ASSUME MethodsInv PROVE SignerNamesItself
  BY <1>3 DEF MethodsInv, TokSigned, SignedAs, SignerNamesItself
<1>4. MethodsInv => MethodsFitKeys
  BY <1>1, <1>2, <1>3 DEF MethodsFitKeys
<1>. QED
  BY <1>4, MethodsInvInit, MethodsStep, PTL DEF MethodsSpec
-----------------------------------------------------------------------------
(* ParseWithClaims.  Each step of the call asks one question of its input; *)
(* the invariant says which were answered with yes, and that an error is   *)
(* the answer no to one of them.                                           *)

NoClaims == [exp |-> Absent, nbf |-> Absent, iat |-> Absent,
             aud |-> Absent, iss |-> Absent, sub |-> Absent]

Extracted == in.header # "" \/ in.argument # ""
SplitInThree == in.header # "bare" /\ in.segments = 3
HeaderRead == /\ Decodes(in.headerEnc) /\ rejectDuplicateTopLevelJSONKeys(in.headerBody)
              /\ Unmarshals(in.headerBody, FALSE)
ClaimsRead == /\ Decodes(in.claimsEnc) /\ rejectDuplicateTopLevelJSONKeys(in.claimsBody)
              /\ Unmarshals(in.claimsBody, in.useJSONNumber)
              /\ TypesDecode \/ in.claimsBody = "null"
MethodFound == in.headerBody # "null" /\ in.alg \in Registered
SignatureRead == Decodes(in.sigEnc)
MethodAllowed == ~in.methodsGiven \/ in.alg \in in.validMethods
KeyGiven == in.keyfunc \notin {"nil", "error"} /\ (in.keyfunc = "set" => in.keys # <<>>)
Verified == \E k \in DOMAIN in.keys : Verifies(in.keys[k])
Skipped == in.skipClaimsValidation

Decoded ==
    parsed = IF in.claimsBody = "null" THEN NoClaims
             ELSE [exp |-> DecodedExp, nbf |-> in.nbf, iat |-> in.iat,
                   aud |-> in.aud, iss |-> in.iss, sub |-> in.sub]

Passed ==
    /\ Extracted /\ SplitInThree /\ HeaderRead /\ ClaimsRead /\ MethodFound
    /\ SignatureRead /\ MethodAllowed /\ KeyGiven /\ Verified

Steps == {"extract", "split", "header", "claims", "method", "signature", "allowed", "keyfunc",
          "verify", "validate", "accept", "done"}
Reading == {"extract", "split", "header", "claims"}
Checking == {"signature", "allowed", "keyfunc", "verify", "validate", "accept"}

\* What the call knows when it is at a step.
OnTheWay ==
    /\ pc \notin {"extract", "done"} => Extracted
    /\ pc \notin {"extract", "split", "done"} => SplitInThree
    /\ pc \notin {"extract", "split", "header", "done"} => HeaderRead
    /\ pc \notin Reading \cup {"done"} => ClaimsRead /\ Decoded
    /\ pc \in Checking => MethodFound
    /\ pc \in Checking \ {"signature"} => SignatureRead
    /\ pc \in Checking \ {"signature", "allowed"} => MethodAllowed
    /\ pc \in {"verify", "validate", "accept"} => KeyGiven
    /\ pc \in {"validate", "accept"} => Verified
    /\ pc = "validate" => ~Skipped
    /\ pc = "accept" => Skipped \/ Causes = {}

\* How it ended.
Succeeded == res.valid /\ res.err = "nil" /\ Passed /\ Decoded /\ (Skipped \/ Causes = {})
Misfit ==
    /\ ~res.valid /\ res.err = "invalidClaims" /\ Passed /\ Decoded
    /\ ~Skipped /\ Causes # {} /\ res.causes = Causes
Failed == ~res.valid /\ res.err \notin {"nil", "invalidClaims"} /\ ~Passed

ParserInv ==
    /\ in \in Inputs /\ pc \in Steps
    /\ pc \in Reading => parsed = NoClaims
    /\ OnTheWay
    /\ pc # "done" => res = NoResult
    /\ pc = "done" => Succeeded \/ Misfit \/ Failed

LEMMA ParserInvInit == ParserInit => ParserInv
BY DEF ParserInit, ParserInv, NoClaims, OnTheWay, Steps, Reading, Checking

\* The answers depend on the input alone, which no step changes.
SameAnswers ==
    /\ Extracted' = Extracted /\ SplitInThree' = SplitInThree /\ HeaderRead' = HeaderRead
    /\ ClaimsRead' = ClaimsRead /\ MethodFound' = MethodFound /\ SignatureRead' = SignatureRead
    /\ MethodAllowed' = MethodAllowed /\ KeyGiven' = KeyGiven /\ Verified' = Verified
    /\ Skipped' = Skipped

LEMMA AnswersSame == ASSUME in' = in PROVE SameAnswers
<1>1. /\ Extracted' = Extracted /\ SplitInThree' = SplitInThree /\ MethodFound' = MethodFound
      /\ MethodAllowed' = MethodAllowed /\ KeyGiven' = KeyGiven /\ Skipped' = Skipped
  BY DEF Extracted, SplitInThree, MethodFound, MethodAllowed, KeyGiven, Skipped
<1>2. HeaderRead' = HeaderRead /\ SignatureRead' = SignatureRead
  BY DEF HeaderRead, SignatureRead, Decodes, rejectDuplicateTopLevelJSONKeys, Unmarshals
<1>3. ClaimsRead' = ClaimsRead
  BY DEF ClaimsRead, Decodes, rejectDuplicateTopLevelJSONKeys, Unmarshals, TypesDecode
<1>4. Verified' = Verified
  BY DEF Verified, Verifies
<1>. QED
  BY <1>1, <1>2, <1>3, <1>4 DEF SameAnswers

\* The causes, claim by claim.
CausesNamed ==
    /\ Causes \subseteq ClaimNames
    /\ "exp" \in Causes <=> ~verifyExpiresAt
    /\ "nbf" \in Causes <=> ~verifyNotBefore
    /\ "iat" \in Causes <=> ~verifyIssuedAt
    /\ "aud" \in Causes <=> ~verifyAudience
    /\ "iss" \in Causes <=> ~verifyIssuer
    /\ "sub" \in Causes <=> ~verifySubject
    /\ "custom" \in Causes <=> in.custom = "fails"

LEMMA CausesAre == CausesNamed /\ CausesNamed'
BY DEF CausesNamed, Causes, ClaimNames

LEMMA CausesSame ==
    ASSUME in' = in, parsed' = parsed
    PROVE  Causes' = Causes /\ Decoded' = Decoded
<1>1. \A j : Date(j)' = Date(j)
  BY DEF Date, parseNumericDate, RegisteredDate, newNumericDateFromSeconds,
         NewNumericDate, Truncate, Unset, At, Wrong
<1>2. \A j : Strings(j)' = Strings(j) /\ String(j)' = String(j)
  BY DEF Strings, parseClaimsString, RegisteredStrings, List, String
<1>3. /\ verifyExpiresAt' <=> verifyExpiresAt
      /\ verifyNotBefore' <=> verifyNotBefore
      /\ verifyIssuedAt' <=> verifyIssuedAt
  BY <1>1 DEF verifyExpiresAt, verifyNotBefore, verifyIssuedAt
<1>4. /\ verifyAudience' <=> verifyAudience
      /\ verifyIssuer' <=> verifyIssuer
      /\ verifySubject' <=> verifySubject
  BY <1>2 DEF verifyAudience, verifyIssuer, verifySubject
<1>5. \A c \in ClaimNames : c \in Causes' <=> c \in Causes
  BY <1>3, <1>4, CausesAre DEF CausesNamed, ClaimNames
<1>6. Causes' = Causes
  <2>1. Causes \subseteq ClaimNames /\ Causes' \subseteq ClaimNames
    BY CausesAre DEF CausesNamed, ClaimNames
  <2>. QED
    BY <1>5, <2>1
<1>7. Decoded' = Decoded
  BY DEF Decoded, DecodedExp, Json, NoClaims, Absent
<1>. QED
  BY <1>6, <1>7

\* A step that checks ok: the call goes on to the step next, or fails.
GoesOn(ok, next) ==
    \/ ok /\ pc' = next /\ res' = res
    \/ /\ ~ok /\ pc' = "done" /\ ~res'.valid /\ res'.err \notin {"nil", "invalidClaims"}

LEMMA ParserInvStep == ParserInv /\ [ParserNext]_parserVars => ParserInv'
<1>. SUFFICES ASSUME ParserInv, [ParserNext]_parserVars PROVE ParserInv'
  OBVIOUS
<1>. USE DEF Steps, Reading, Checking
<1>u. ASSUME in' = in PROVE SameAnswers /\ Passed' = Passed
  <2>1. SameAnswers
    BY <1>u, AnswersSame
  <2>. QED
    BY <2>1 DEF SameAnswers, Passed
<1>c. ASSUME in' = in, parsed' = parsed PROVE Causes' = Causes /\ Decoded' = Decoded
  BY <1>c, CausesSame
<1>1. CASE ExtractToken
  <2>1. Check("extract", Extracted, "noToken", "split")
    BY <1>1 DEF ExtractToken, Extracted
  <2>2. pc = "extract" /\ in' = in /\ parsed' = parsed /\ GoesOn(Extracted, "split")
    BY <2>1 DEF Check, Goto, Return, GoesOn
  <2>. QED
    BY <2>2, <1>u, <1>c DEF ParserInv, OnTheWay, GoesOn, SameAnswers, Failed, Passed
<1>2. CASE splitToken
  <2>1. Check("split", SplitInThree, "malformed", "header")
    BY <1>2 DEF splitToken, SplitInThree
  <2>2. pc = "split" /\ in' = in /\ parsed' = parsed /\ GoesOn(SplitInThree, "header")
    BY <2>1 DEF Check, Goto, Return, GoesOn
  <2>. QED
    BY <2>2, <1>u, <1>c DEF ParserInv, OnTheWay, GoesOn, SameAnswers, Failed, Passed
<1>3. CASE Header
  <2>1. Check("header", HeaderRead, "malformed", "claims")
    BY <1>3 DEF Header, HeaderRead
  <2>2. pc = "header" /\ in' = in /\ parsed' = parsed /\ GoesOn(HeaderRead, "claims")
    BY <2>1 DEF Check, Goto, Return, GoesOn
  <2>. QED
    BY <2>2, <1>u, <1>c DEF ParserInv, OnTheWay, GoesOn, SameAnswers, Failed, Passed
<1>4. CASE Claims
  <2>1. /\ pc = "claims" /\ in' = in
        /\ \/ ClaimsRead /\ pc' = "method" /\ res' = res /\ parsed' = IF in.claimsBody = "null" THEN parsed
                      ELSE [exp |-> DecodedExp, nbf |-> in.nbf, iat |-> in.iat,
                            aud |-> in.aud, iss |-> in.iss, sub |-> in.sub]
           \/ ~ClaimsRead /\ GoesOn(FALSE, "method")
    <3>1. /\ pc = "claims"
          /\ IF ClaimsRead
             THEN /\ pc' = "method" /\ UNCHANGED <<in, res>>
                  /\ parsed' = IF in.claimsBody = "null" THEN parsed
                      ELSE [exp |-> DecodedExp, nbf |-> in.nbf, iat |-> in.iat,
                            aud |-> in.aud, iss |-> in.iss, sub |-> in.sub]
             ELSE Return("malformed", {})
      BY <1>4 DEF Claims, ClaimsRead
    <3>. QED
      BY <3>1 DEF Return, GoesOn
  <2>2. CASE ~ClaimsRead
    BY <2>1, <2>2, <1>u DEF ParserInv, OnTheWay, GoesOn, SameAnswers, Failed, Passed
  <2>3. CASE ClaimsRead
    <3>1. Decoded'
      BY <2>1, <2>3 DEF Decoded, ParserInv, DecodedExp, Json, NoClaims, Absent
    <3>. QED
      BY <2>1, <2>3, <3>1, <1>u DEF ParserInv, OnTheWay, SameAnswers
  <2>. QED
    BY <2>2, <2>3
<1>5. CASE LookupMethod
  <2>1. Check("method", MethodFound, "unverifiable", "signature")
    BY <1>5 DEF LookupMethod, MethodFound
  <2>2. pc = "method" /\ in' = in /\ parsed' = parsed /\ GoesOn(MethodFound, "signature")
    BY <2>1 DEF Check, Goto, Return, GoesOn
  <2>. QED
    BY <2>2, <1>u, <1>c DEF ParserInv, OnTheWay, GoesOn, SameAnswers, Failed, Passed
<1>6. CASE Signature
  <2>1. Check("signature", SignatureRead, "malformed", "allowed")
    BY <1>6 DEF Signature, SignatureRead
  <2>2. pc = "signature" /\ in' = in /\ parsed' = parsed /\ GoesOn(SignatureRead, "allowed")
    BY <2>1 DEF Check, Goto, Return, GoesOn
  <2>. QED
    BY <2>2, <1>u, <1>c DEF ParserInv, OnTheWay, GoesOn, SameAnswers, Failed, Passed
<1>7. CASE ValidMethods
  <2>1. Check("allowed", MethodAllowed, "signatureInvalid", "keyfunc")
    BY <1>7 DEF ValidMethods, MethodAllowed
  <2>2. pc = "allowed" /\ in' = in /\ parsed' = parsed /\ GoesOn(MethodAllowed, "keyfunc")
    BY <2>1 DEF Check, Goto, Return, GoesOn
  <2>. QED
    BY <2>2, <1>u, <1>c DEF ParserInv, OnTheWay, GoesOn, SameAnswers, Failed, Passed
<1>8. CASE Keyfunc
  <2>1. Check("keyfunc", KeyGiven, "unverifiable", "verify")
    BY <1>8 DEF Keyfunc, KeyGiven
  <2>2. pc = "keyfunc" /\ in' = in /\ parsed' = parsed /\ GoesOn(KeyGiven, "verify")
    BY <2>1 DEF Check, Goto, Return, GoesOn
  <2>. QED
    BY <2>2, <1>u, <1>c DEF ParserInv, OnTheWay, GoesOn, SameAnswers, Failed, Passed
<1>9. CASE Verify
  <2>1. Check("verify", Verified, "signatureInvalid", IF in.skipClaimsValidation THEN "accept" ELSE "validate")
    BY <1>9 DEF Verify, Verified
  <2>2. pc = "verify" /\ in' = in /\ parsed' = parsed /\ GoesOn(Verified, IF in.skipClaimsValidation THEN "accept" ELSE "validate")
    BY <2>1 DEF Check, Goto, Return, GoesOn
  <2>. QED
    BY <2>2, <1>u, <1>c DEF ParserInv, OnTheWay, GoesOn, SameAnswers, Failed, Passed, Skipped
<1>10. CASE Validate
  <2>1. /\ pc = "validate" /\ in' = in /\ parsed' = parsed
        /\ \/ Causes = {} /\ pc' = "accept" /\ res' = res
           \/ /\ Causes # {} /\ pc' = "done"
              /\ res' = [err |-> "invalidClaims", causes |-> Causes, valid |-> FALSE]
    BY <1>10 DEF Validate, Goto, Return
  <2>2. CASE pc' = "accept"
    BY <2>1, <2>2, <1>u, <1>c DEF ParserInv, OnTheWay, SameAnswers
  <2>3. CASE pc' = "done"
    <3>1. Misfit'
      BY <2>1, <2>3, <1>u, <1>c DEF ParserInv, OnTheWay, SameAnswers, Misfit, Passed
    <3>. QED
      BY <2>1, <2>3, <3>1, <1>u, <1>c DEF ParserInv, OnTheWay
  <2>. QED
    BY <2>1, <2>2, <2>3
<1>11. CASE Accept
  <2>1. /\ pc = "accept" /\ in' = in /\ parsed' = parsed /\ pc' = "done"
        /\ res' = [NoResult EXCEPT !.valid = TRUE]
    BY <1>11 DEF Accept
  <2>2. res'.valid /\ res'.err = "nil"
    BY <2>1 DEF NoResult
  <2>3. Succeeded'
    BY <2>1, <2>2, <1>u, <1>c DEF ParserInv, OnTheWay, SameAnswers, Succeeded, Passed
  <2>. QED
    BY <2>1, <2>3, <1>u, <1>c DEF ParserInv, OnTheWay
<1>12. CASE UNCHANGED parserVars
  <2>1. in' = in /\ parsed' = parsed /\ pc' = pc /\ res' = res
    BY <1>12 DEF parserVars
  <2>2. NoClaims' = NoClaims /\ NoResult' = NoResult
    BY DEF NoClaims, Absent, Json, NoResult
  <2>. QED
    BY <2>1, <2>2, <1>u, <1>c DEF ParserInv, OnTheWay, SameAnswers, Succeeded, Misfit, Failed
<1>. QED
  BY <1>1, <1>2, <1>3, <1>4, <1>5, <1>6, <1>7, <1>8, <1>9, <1>10, <1>11, <1>12 DEF ParserNext

LEMMA ParserInvariant == ParserSpec => []ParserInv
BY ParserInvInit, ParserInvStep, PTL DEF ParserSpec

\* A call that passes every check has an authentic token.
LEMMA PassedIsAuthentic ==
    ASSUME InputsAssumption, in \in Inputs, Passed
    PROVE  Authentic
<1>1. in.keyfunc \in {"key", "set"}
  BY DEF InputsAssumption, Passed, KeyGiven
<1>2. in.alg # "none" /\ \E k \in DOMAIN in.keys : in.sigBy = in.keys[k]
  BY DEF Passed, Verified, Verifies
<1>3. in.sigBy \in Keys
  BY <1>1, <1>2 DEF Keys, Range
<1>4. in.segments = 3 /\ in.alg \in Registered /\ (in.methodsGiven => in.alg \in in.validMethods)
  BY DEF Passed, SplitInThree, MethodFound, MethodAllowed
<1>. QED
  BY <1>2, <1>3, <1>4 DEF Authentic

\* ParseWithClaims judges no claim, and finds no token valid, unless the token was
\* signed with one of the caller's keys by a method the caller allows; for every
\* set of inputs and registered methods.
THEOREM ParserJudgesAuthentic ==
    ASSUME InputsAssumption
    PROVE  ParserSpec => []JudgedIsAuthentic
<1>1. ParserInv => JudgedIsAuthentic
  <2>. SUFFICES ASSUME ParserInv, res.valid \/ res.err = "invalidClaims" PROVE Authentic
    BY DEF JudgedIsAuthentic
  <2>1. pc = "done"
    BY DEF ParserInv, NoResult
  <2>2. Passed /\ in \in Inputs
    BY <2>1 DEF ParserInv, Succeeded, Misfit, Failed
  <2>. QED
    BY <2>2, PassedIsAuthentic
<1>. QED
  BY <1>1, ParserInvariant, PTL

\* With claims of the right types and no doubled names, the checks before the
\* claims are judged are passed by the well-formed, authentic tokens.
LEMMA PassedIff ==
    ASSUME InputsAssumption, in \in Inputs, Typed,
           in.claimsBody \notin {"null", "folded", "trailing"}
    PROVE  Passed <=> WellFormed /\ Authentic
<1>1. ASSUME Passed PROVE WellFormed
  <2>1. in.headerBody \in {"object", "folded"}
    BY <1>1 DEF Passed, HeaderRead, MethodFound, rejectDuplicateTopLevelJSONKeys, Unmarshals
  <2>2. in.claimsBody = "object"
    BY <1>1 DEF Passed, ClaimsRead, rejectDuplicateTopLevelJSONKeys, Unmarshals
  <2>. QED
    BY <1>1, <2>1, <2>2
       DEF WellFormed, Passed, Extracted, SplitInThree, HeaderRead, ClaimsRead, SignatureRead
<1>2. TypesDecode
  <2>1. /\ in.exp.t \in {"absent", "num"} /\ in.nbf.t \in {"absent", "num"} /\ in.iat.t \in {"absent", "num"}
        /\ in.aud.t \in {"absent", "str", "list"}
        /\ in.iss.t \in {"absent", "str"} /\ in.sub.t \in {"absent", "str"}
    BY DEF Typed, Plain
  <2>. QED
    BY <2>1 DEF TypesDecode
<1>3. ASSUME WellFormed, Authentic PROVE Passed
  <2>1. /\ Extracted /\ SplitInThree /\ MethodFound /\ SignatureRead /\ MethodAllowed
    BY <1>3 DEF WellFormed, Authentic, Extracted, SplitInThree, MethodFound, SignatureRead, MethodAllowed
  <2>2. HeaderRead /\ ClaimsRead
    BY <1>2, <1>3 DEF WellFormed, HeaderRead, ClaimsRead,
                      rejectDuplicateTopLevelJSONKeys, Unmarshals
  <2>3. in.keyfunc \in {"key", "set"} /\ \E k \in DOMAIN in.keys : in.sigBy = in.keys[k]
    BY <1>3 DEF Authentic, Keys, Range
  <2>4. in.alg # "none"
    BY <1>3 DEF Authentic
  <2>. QED
    BY <2>1, <2>2, <2>3, <2>4 DEF Passed, KeyGiven, Verified, Verifies
<1>. QED
  BY <1>1, <1>3, PassedIsAuthentic

-----------------------------------------------------------------------------
(* What the validation of one claim comes to.                              *)

\* Integer division: a time is truncated down, by less than the precision.
LEMMA Truncated ==
    ASSUME NEW t \in Int, Precision \in Nat \ {0}
    PROVE  /\ Truncate(t) \in Int /\ Truncate(t) <= t /\ t - Truncate(t) < Precision
BY DEF Truncate

LEMMA TruncatedOnce ==
    ASSUME NEW t \in Int, Precision \in Nat \ {0}
    PROVE  Truncate(Truncate(t)) = Truncate(t)
<1>1. Truncate(t) = Precision * (t \div Precision)
  BY DEF Truncate
<1>2. ASSUME NEW q \in Int PROVE (Precision * q) % Precision = 0
  OBVIOUS
<1>. QED
  BY <1>1, <1>2 DEF Truncate

\* A date of the right type is read as it is written, whatever the type of the
\* claims and however numbers are decoded.
LEMMA DateRead ==
    ASSUME NEW j, Plain(j)
    PROVE  /\ Date(j).err = FALSE
           /\ j.t = "num" => Date(j) = At(Truncate(j.n))
           /\ j.t # "num" => Date(j) = Unset
<1>1. j.t = "num" => Date(j) = At(Truncate(j.n))
  BY DEF Plain, Date, parseNumericDate, RegisteredDate, newNumericDateFromSeconds,
         NewNumericDate
<1>2. j.t # "num" => Date(j) = Unset
  BY DEF Plain, Date, parseNumericDate, RegisteredDate
<1>. QED
  BY <1>1, <1>2 DEF At, Unset

LEMMA DateFields ==
    ASSUME NEW d
    PROVE  /\ At(d).err = FALSE /\ At(d).set = TRUE /\ At(d).at = d
           /\ Unset.err = FALSE /\ Unset.set = FALSE
BY DEF At, Unset

\* The claims that are judged are the ones that were sent.
LEMMA DecodedPlain ==
    ASSUME Decoded, in.claimsBody = "object"
    PROVE  /\ parsed.exp = in.exp /\ parsed.nbf = in.nbf /\ parsed.iat = in.iat
           /\ parsed.aud = in.aud /\ parsed.iss = in.iss /\ parsed.sub = in.sub
BY DEF Decoded, DecodedExp

LEMMA DatesFit ==
    ASSUME InputsAssumption, in \in Inputs, Typed, Decoded, in.claimsBody = "object"
    PROVE  /\ verifyExpiresAt <=> Fits("exp")
           /\ verifyNotBefore <=> Fits("nbf")
           /\ verifyIssuedAt <=> Fits("iat")
<1>1. /\ Now \in Int /\ in.leeway \in Int /\ Precision \in Nat \ {0}
      /\ in.exp.t = "num" => in.exp.n \in Int
      /\ in.nbf.t = "num" => in.nbf.n \in Int
      /\ in.iat.t = "num" => in.iat.n \in Int
  BY DEF InputsAssumption, JsonValue
<1>2. ASSUME NEW d \in Int PROVE Now >= d - in.leeway <=> Now + in.leeway >= d
  BY <1>1
<1>t. ASSUME NEW j, Plain(j)
      PROVE  LET d == Date(j)
             IN  ~d.err /\ (d.set <=> j.t = "num") /\ (j.t = "num" => d.at = Truncate(j.n))
  <2>1. CASE j.t = "num"
    <3>1. Date(j) = At(Truncate(j.n))
      BY <1>t, <2>1, DateRead
    <3>2. Date(j).set /\ ~Date(j).err /\ Date(j).at = Truncate(j.n)
      BY <3>1, DateFields, Zenon
    <3>. QED
      BY <2>1, <3>2
  <2>2. CASE j.t # "num"
    BY <1>t, <2>2, DateRead, DateFields
  <2>. QED
    BY <2>1, <2>2
<1>p. Plain(in.exp) /\ Plain(in.nbf) /\ Plain(in.iat)
  BY DEF Typed
<1>i. /\ in.exp.t = "num" => Truncate(in.exp.n) \in Int
      /\ in.nbf.t = "num" => Truncate(in.nbf.n) \in Int
      /\ in.iat.t = "num" => Truncate(in.iat.n) \in Int
  BY <1>1, Truncated
<1>3. verifyExpiresAt <=> Fits("exp")
  BY <1>p, <1>t, DecodedPlain DEF verifyExpiresAt, Fits
<1>4. verifyNotBefore <=> Fits("nbf")
  BY <1>i, <1>2, <1>p, <1>t, DecodedPlain DEF verifyNotBefore, Fits
<1>5. verifyIssuedAt <=> Fits("iat")
  BY <1>i, <1>2, <1>p, <1>t, DecodedPlain DEF verifyIssuedAt, Fits
<1>. QED
  BY <1>3, <1>4, <1>5

LEMMA StringsFit ==
    ASSUME InputsAssumption, in \in Inputs, Typed, Decoded, in.claimsBody = "object"
    PROVE  /\ verifyAudience <=> Fits("aud")
           /\ verifyIssuer <=> Fits("iss")
           /\ verifySubject <=> Fits("sub")
<1>1. /\ JsonValue(in.aud) /\ JsonValue(in.iss) /\ JsonValue(in.sub)
      /\ in.expectedAud \in Seq(STRING)
  BY DEF InputsAssumption
<1>2. ASSUME NEW j, JsonValue(j), j.t \in {"absent", "str"}, NEW asked, asked # ""
      PROVE  String(j) = [err |-> FALSE, s |-> asked] <=> j.s = <<asked>>
  <2>0. ASSUME NEW x, NEW y, [err |-> FALSE, s |-> x] = [err |-> FALSE, s |-> y] PROVE x = y
    <3>1. [err |-> FALSE, s |-> x].s = x /\ [err |-> FALSE, s |-> y].s = y
      OBVIOUS
    <3>. QED
      BY <2>0, <3>1, Zenon
  <2>1. CASE j.t = "absent"
    <3>1. String(j) = [err |-> FALSE, s |-> ""]
      BY <2>1 DEF String
    <3>2. String(j) # [err |-> FALSE, s |-> asked]
      BY <1>2, <2>0, <3>1, Zenon
    <3>3. j.s # <<asked>>
      <4>1. j.s = <<>>
        BY <1>2, <2>1 DEF JsonValue
      <4>2. <<>> # <<asked>>
        OBVIOUS
      <4>. QED
        BY <4>1, <4>2
    <3>. QED
      BY <3>2, <3>3
  <2>2. CASE j.t = "str"
    <3>1. j.s = <<j.s[1]>>
      <4>1. j.s \in Seq(STRING) /\ Len(j.s) = 1
        BY <1>2, <2>2 DEF JsonValue
      <4>2. j.s[1] \in STRING
        BY <4>1, ElementOfSeq
      <4>3. <<j.s[1]>> \in Seq(STRING) /\ Len(<<j.s[1]>>) = 1 /\ <<j.s[1]>>[1] = j.s[1]
        BY <4>2
      <4>. QED
        BY <4>1, <4>3, SeqEqual
    <3>2. String(j) = [err |-> FALSE, s |-> j.s[1]]
      BY <2>2 DEF String
    <3>3. <<j.s[1]>> = <<asked>> <=> j.s[1] = asked
      OBVIOUS
    <3>. QED
      BY <2>0, <3>1, <3>2, <3>3, Zenon
  <2>. QED
    BY <1>2, <2>1, <2>2
<1>3. verifyIssuer <=> Fits("iss")
  <2>1. Fits("iss") <=> (in.expectedIss # "" => in.iss.s = <<in.expectedIss>>)
    BY DEF Fits
  <2>2. in.iss.t \in {"absent", "str"} /\ parsed.iss = in.iss
    BY DecodedPlain DEF Typed
  <2>. QED
    BY <1>1, <1>2, <2>1, <2>2, Zenon DEF verifyIssuer
<1>4. verifySubject <=> Fits("sub")
  <2>1. Fits("sub") <=> (in.expectedSub # "" => in.sub.s = <<in.expectedSub>>)
    BY DEF Fits
  <2>2. in.sub.t \in {"absent", "str"} /\ parsed.sub = in.sub
    BY DecodedPlain DEF Typed
  <2>. QED
    BY <1>1, <1>2, <2>1, <2>2, Zenon DEF verifySubject
<1>5. Strings(in.aud) = List(in.aud.s)
  BY <1>1 DEF Typed, JsonValue, Strings, parseClaimsString, RegisteredStrings
<1>6. ASSUME NEW s \in Seq(STRING) PROVE Range(s) = {} <=> s = <<>>
  BY DEF Range
<1>7. in.aud.s \in Seq(STRING)
  BY <1>1 DEF JsonValue
<1>8. verifyAudience <=>
        (in.expectedAud # <<>> =>
          /\ in.aud.s \notin {<<>>, <<"">>}
          /\ IF in.expectAllAud THEN Range(in.expectedAud) \subseteq Range(in.aud.s)
             ELSE Range(in.expectedAud) \cap Range(in.aud.s) # {})
  <2>1. Strings(parsed.aud) = List(in.aud.s)
    BY <1>5, DecodedPlain
  <2>2. ~List(in.aud.s).err /\ List(in.aud.s).s = in.aud.s
    BY DEF List
  <2>. QED
    BY <2>1, <2>2, Zenon DEF verifyAudience
<1>9. Fits("aud") <=>
        \/ Range(in.expectedAud) = {}
        \/ /\ in.aud.s # <<"">>
           /\ IF in.expectAllAud
              THEN Range(in.expectedAud) \cap Range(in.aud.s) = Range(in.expectedAud)
              ELSE Range(in.expectedAud) \cap Range(in.aud.s) # {}
  BY DEF Fits, AudOf
<1>. DEFINE A == Range(in.expectedAud)
            B == Range(in.aud.s)
<1>10. (A \subseteq B <=> A \cap B = A) /\ (B = {} => A \cap B = {})
  OBVIOUS
<1>11. (A = {} <=> in.expectedAud = <<>>) /\ (B = {} <=> in.aud.s = <<>>)
  BY <1>1, <1>6, <1>7
<1>. HIDE DEF A, B
<1>12. verifyAudience <=> Fits("aud")
  BY <1>8, <1>9, <1>10, <1>11 DEF A, B
<1>. QED
  BY <1>3, <1>4, <1>12

\* The causes are the claims that do not fit.
LEMMA CausesMisfit ==
    ASSUME InputsAssumption, in \in Inputs, Typed, Decoded, in.claimsBody = "object"
    PROVE  \A c \in ClaimNames : c \in Causes <=> ~Fits(c)
<1>1. in.custom = "fails" <=> ~Fits("custom")
  BY DEF Fits
<1>. QED
  BY <1>1, DatesFit, StringsFit, CausesAre DEF CausesNamed, ClaimNames

LEMMA WrittenReadsBack ==
    ASSUME InputsAssumption, in \in Inputs
    PROVE  ReadsBack
<1>1. ASSUME in.exp.t = "num"
      PROVE  LET d == newNumericDateFromSeconds(MarshalDate(NewNumericDate(in.exp.n)))
             IN  d <= in.exp.n /\ in.exp.n - d < Precision
  <2>1. in.exp.n \in Int /\ Precision \in Nat \ {0}
    BY <1>1 DEF InputsAssumption, JsonValue
  <2>. DEFINE t == Truncate(in.exp.n)
  <2>2. t \in Int /\ t <= in.exp.n /\ in.exp.n - t < Precision
    BY <2>1, Truncated
  <2>3. Truncate(t) = t
    BY <2>1, TruncatedOnce
  <2>4. newNumericDateFromSeconds(MarshalDate(NewNumericDate(in.exp.n)))
          = Truncate(Truncate(t))
    BY DEF newNumericDateFromSeconds, MarshalDate, NewNumericDate, Json
  <2>. QED
    BY <2>2, <2>3, <2>4
<1>2. ASSUME NEW asArray \in BOOLEAN
      PROVE  Strings(MarshalStrings(in.aud.s, asArray)) = List(in.aud.s)
  BY DEF Strings, MarshalStrings, Json, parseClaimsString, RegisteredStrings
<1>. QED
  BY <1>1, <1>2 DEF ReadsBack

\* ParseWithClaims accepts exactly the authentic, well-formed tokens whose claims
\* fit what the caller asks, names every claim that does not, and reads a date or
\* an audience back as it was written; for every input, time and precision.
THEOREM ParserJudgesClaims ==
    ASSUME InputsAssumption
    PROVE  ParserSpec => []ClaimsJudged
<1>1. ParserInv => ClaimsJudged
  <2>. SUFFICES ASSUME ParserInv PROVE ClaimsJudged
    OBVIOUS
  <2>0. in \in Inputs
    BY DEF ParserInv
  <2>1. ReadsBack
    BY <2>0, WrittenReadsBack
  <2>2. AllCausesNamed
    <3>. SUFFICES ASSUME res.err = "invalidClaims", Typed, in.claimsBody = "object"
                  PROVE  res.causes = {c \in ClaimNames : ~Fits(c)}
      BY DEF AllCausesNamed
    <3>1. pc = "done"
      BY DEF ParserInv, NoResult
    <3>2. Misfit
      BY <3>1 DEF ParserInv, Succeeded, Misfit, Failed
    <3>3. \A c \in ClaimNames : c \in Causes <=> ~Fits(c)
      BY <2>0, <3>2, CausesMisfit DEF Misfit
    <3>4. Causes \subseteq ClaimNames
      BY CausesAre DEF CausesNamed
    <3>5. res.causes = Causes
      BY <3>2 DEF Misfit
    <3>. QED
      BY <3>3, <3>4, <3>5
  <2>3. AcceptedIffFits
    <3>. SUFFICES ASSUME pc = "done", Typed, in.claimsBody \notin {"null", "folded", "trailing"}
                  PROVE  res.valid <=> /\ WellFormed /\ Authentic
                                       /\ in.skipClaimsValidation \/ \A c \in ClaimNames : Fits(c)
      BY DEF AcceptedIffFits
    <3>1. Passed <=> WellFormed /\ Authentic
      BY <2>0, PassedIff
    <3>2. Succeeded \/ Misfit \/ Failed
      BY DEF ParserInv
    <3>3. res.valid <=> Passed /\ (Skipped \/ Causes = {})
      BY <3>2, Zenon DEF Succeeded, Misfit, Failed
    <3>4. ASSUME Passed PROVE Causes = {} <=> \A c \in ClaimNames : Fits(c)
      <4>1. in.claimsBody = "object"
        BY <3>1, <3>4 DEF WellFormed
      <4>2. Decoded
        BY <3>2, <3>4 DEF Succeeded, Misfit, Failed
      <4>3. \A c \in ClaimNames : c \in Causes <=> ~Fits(c)
        BY <2>0, <4>1, <4>2, CausesMisfit
      <4>4. Causes \subseteq ClaimNames
        BY CausesAre DEF CausesNamed
      <4>. QED
        BY <4>3, <4>4
    <3>. QED
      BY <3>1, <3>3, <3>4 DEF Skipped
  <2>. QED
    BY <2>1, <2>2, <2>3 DEF ClaimsJudged
<1>. QED
  BY <1>1, ParserInvariant, PTL
=============================================================================
