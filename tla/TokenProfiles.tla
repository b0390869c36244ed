--------------------------- MODULE TokenProfiles ---------------------------
(***************************************************************************)
(* Which signer signs a token and which key checks it.  Several profiles   *)
(* share the header algorithm FN-DSA-512: the header says how to verify,   *)
(* not who signed.  The auth-service and the gateway each load an allow-   *)
(* list of profiles and may be restarted with another one while sessions   *)
(* live; the utility looks a configuration up by profile name, else by     *)
(* header algorithm in a Go map, whose order is random.                    *)
(*                                                                         *)
(* auth, gateway  the profiles each service has loaded                     *)
(* default        JWT_DEFAULT_ALG of the auth-service                      *)
(* session        the profile a client asked for and its current tokens    *)
(* last           the last call on the session and its answer              *)
(***************************************************************************)
CONSTANTS
    Profiles,       \* names LoadAlgConfig accepts
    FnDsa,          \* those of the FN-DSA family
    Precomputed,    \* those with the precomputed signer
    Canonical,      \* AlgFNDSA512
    Unsupported,    \* a name LoadAlgConfig does not know
    Empty,          \* a sign-in without an algorithm
    NoSession

ASSUME ProfilesAssumption ==
    /\ Precomputed \subseteq FnDsa /\ FnDsa \subseteq Profiles
    /\ Canonical \in FnDsa \ Precomputed
    /\ Unsupported \notin Profiles
    /\ Empty \notin Profiles

VARIABLES auth, gateway, default, session, last

vars == <<auth, gateway, default, session, last>>

-----------------------------------------------------------------------------
HeaderAlgForConfigAlg(alg) == IF alg \in FnDsa THEN Canonical ELSE alg

\* The implementation behind a profile.
Signer(alg) == IF alg \in FnDsa
               THEN IF alg \in Precomputed THEN "precomputed" ELSE "dynamic"
               ELSE alg

\* Variant: a key pair per profile.
KeyFilePerProfile(alg) == alg

\* Every FN-DSA profile reads the same FNDSA-512 key pair.
KeyFile(alg) == IF alg \in FnDsa THEN Canonical ELSE alg

LoadAlgConfig(alg) ==
    [alg |-> HeaderAlgForConfigAlg(alg), signer |-> Signer(alg), key |-> KeyFile(alg)]

allowedHeaderAlgs(loaded) == {LoadAlgConfig(alg).alg : alg \in loaded}

\* The configurations the range over the map may stop at.
configForHeaderAlg(loaded, header) ==
    {cfg \in {LoadAlgConfig(alg) : alg \in loaded} : cfg.alg = header}

\* Variant: no fallback to the header algorithm.
configForSignAlgExact(loaded, alg) ==
    IF alg \in loaded THEN {LoadAlgConfig(alg)} ELSE {}

configForSignAlg(loaded, alg) ==
    IF alg \in loaded THEN {LoadAlgConfig(alg)}
    ELSE IF alg = HeaderAlgForConfigAlg(alg) THEN configForHeaderAlg(loaded, alg)
    ELSE {}

\* The tokens Sign may return; none when it reports an unsupported algorithm.
Sign(loaded, alg) == configForSignAlg(loaded, alg)

\* What Parse may say of a token: the header algorithm must be allowed, and
\* the key found for it must be the one the token was signed with.
Parse(loaded, token) ==
    IF token.alg \in allowedHeaderAlgs(loaded)
    THEN {cfg.key = token.key : cfg \in configForHeaderAlg(loaded, token.alg)}
    ELSE {FALSE}

AlgorithmFromToken(token) == token.alg

-----------------------------------------------------------------------------
AllowLists == SUBSET Profiles \ {{}}

Quiet == [op |-> "none", code |-> "none"]

\* Bootstrap of the two services; an empty allow-list stands for all.
Init ==
    /\ auth \in AllowLists
    /\ gateway \in AllowLists
    /\ default \in Profiles
    /\ session = NoSession
    /\ last = Quiet

Answer(op, code) == last' = [op |-> op, code |-> code]

\* signTokenPair signs the access and the refresh token in two calls, each
\* with a lookup of its own.
SignTokenPair(asked, alg) ==
    \E access, refresh \in Sign(auth, alg) :
        session' = [asked |-> asked, access |-> access, refresh |-> refresh]

SignIn(algorithm) ==
    LET alg == IF algorithm = Empty THEN default ELSE algorithm
    IN  /\ \/ SignTokenPair(alg, alg) /\ Answer("signin", "OK")
           \/ /\ Sign(auth, alg) = {}
              /\ Answer("signin", "Internal")
              /\ UNCHANGED session
        /\ UNCHANGED <<auth, gateway, default>>

RefreshToken ==
    /\ session # NoSession
    /\ LET alg == AlgorithmFromToken(session.refresh)
       IN  \/ /\ FALSE \in Parse(auth, session.refresh)
              /\ Answer("refresh", "Unauthenticated")
              /\ UNCHANGED session
           \/ /\ TRUE \in Parse(auth, session.refresh)
              /\ SignTokenPair(session.asked, alg)
              /\ Answer("refresh", "OK")
           \/ /\ TRUE \in Parse(auth, session.refresh)
              /\ Sign(auth, alg) = {}
              /\ Answer("refresh", "Internal")
              /\ UNCHANGED session
    /\ UNCHANGED <<auth, gateway, default>>

\* The gateway's AuthMiddleware on the access token.
Handle ==
    /\ session # NoSession
    /\ \E ok \in Parse(gateway, session.access) :
          Answer("enter", IF ok THEN "OK" ELSE "Unauthenticated")
    /\ UNCHANGED <<auth, gateway, default, session>>

\* A service comes back with another allow-list.
RestartAuth(algs) ==
    /\ auth' = algs
    /\ default' \in Profiles
    /\ last' = Quiet
    /\ UNCHANGED <<gateway, session>>

RestartGateway(algs) ==
    /\ gateway' = algs
    /\ last' = Quiet
    /\ UNCHANGED <<auth, default, session>>

Next ==
    \/ \E algorithm \in Profiles \cup {Empty, Unsupported} : SignIn(algorithm)
    \/ RefreshToken
    \/ Handle
    \/ \E algs \in AllowLists : RestartAuth(algs)
    \/ \E algs \in AllowLists : RestartGateway(algs)

Spec == Init /\ [][Next]_vars

-----------------------------------------------------------------------------
(* Properties.                                                             *)

Tokens == {LoadAlgConfig(alg) : alg \in Profiles}

\* Sessions hold tokens some configuration can produce, and both services
\* have something loaded.
TypeOK ==
    /\ auth \in AllowLists
    /\ gateway \in AllowLists
    /\ default \in Profiles
    /\ session \in [asked : Profiles, access : Tokens, refresh : Tokens]
                   \cup {NoSession}
    /\ last \in [op : {"none", "signin", "refresh", "enter"},
                 code : {"none", "OK", "Internal", "Unauthenticated"}]

\* A refresh token that passes verification can be signed anew: the header
\* algorithm is enough for Sign to find a signer, whatever profile it was
\* signed with and whichever allow-list the service was restarted with.
RefreshFindsSigner == last.op = "refresh" => last.code # "Internal"

\* No loaded profile has the key the token was signed with.
NotLoaded(loaded, token) == \A alg \in loaded : KeyFile(alg) # token.key

\* A token is refused only when its key is not loaded: neither the choice
\* among the profiles sharing a header algorithm, nor loading different ones
\* in the two services, makes a token invalid.
RefusedOnlyIfNotLoaded ==
    last.code = "Unauthenticated" =>
        \/ last.op = "refresh" /\ NotLoaded(auth, session.refresh)
        \/ last.op = "enter" /\ NotLoaded(gateway, session.access)

\* README on JWT_ALLOWED_ALGS: a profile that was not loaded fails.
UnloadedProfileFails ==
    last.op = "signin" /\ last.code = "OK" => session.asked \in auth

\* README on JWT_ALLOWED_ALGS: a loaded profile is not silently measured with
\* another signer.
LoadedProfileMeasured ==
    last.op \in {"signin", "refresh"} /\ last.code = "OK" /\ session.asked \in auth
        => session.access.signer = Signer(session.asked)
=============================================================================
