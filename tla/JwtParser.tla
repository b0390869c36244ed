----------------------------- MODULE JwtParser ------------------------------
(***************************************************************************)
(* ParseWithClaims of the jwt package, from the request that carries the   *)
(* token to the validated claims.  A behaviour is one call; its input is   *)
(* what arrives (the token and its JSON) and what the caller configured.   *)
(*                                                                         *)
(* Times are in ticks, Precision of them to a second.  A JSON value is     *)
(* [t, n, s]: absent, null, of the wrong type, a number n, a number beyond *)
(* int64 ("huge") or float64 ("inf"), a string s[1], a list s of strings,  *)
(* a list with another element.                                            *)
(*                                                                         *)
(* in      the input                                                       *)
(* pc      the step of the call                                            *)
(* parsed  Token: the claims as decoded                                    *)
(* res     the error returned, the causes joined to it, Valid              *)
(***************************************************************************)
EXTENDS Integers, Sequences, FiniteSets, SequencesExt

CONSTANTS
    Inputs,         \* tokens and parser configurations
    Registered,     \* the names of the registered signing methods
    Now,            \* the time of validation
    Precision,      \* TimePrecision, in ticks
    FarPast,        \* what a number beyond int64 is converted to
    FarFuture       \* an expiry that a second member can put in place of exp

VARIABLES in, pc, parsed, res

\* A JSON value as it is written above.
JsonValue(j) ==
    /\ j.t = "num" => j.n \in Int
    /\ j.t = "absent" => j.s = <<>>
    /\ j.t = "str" => Len(j.s) = 1
    /\ j.s \in Seq(STRING)

\* What the keyfunc returns is nothing, an error, one key or a set of keys; the
\* times are numbers.
InputsAssumption ==
    /\ Now \in Int /\ Precision \in Nat \ {0}
    /\ \A i \in Inputs :
          /\ i.keyfunc \in {"nil", "error", "key", "set"}
          /\ i.keyfunc # "set" => Len(i.keys) = 1
          /\ i.leeway \in Int /\ i.expectedAud \in Seq(STRING)
          /\ \A c \in {i.exp, i.nbf, i.iat, i.aud, i.iss, i.sub} : JsonValue(c)

parserVars == <<in, pc, parsed, res>>

Json(t, n, s) == [t |-> t, n |-> n, s |-> s]
Absent == Json("absent", 0, <<>>)
NoResult == [err |-> "nil", causes |-> {}, valid |-> FALSE]

ParserInit ==
    /\ in \in Inputs
    /\ pc = "extract"
    /\ parsed = [exp |-> Absent, nbf |-> Absent, iat |-> Absent,
              aud |-> Absent, iss |-> Absent, sub |-> Absent]
    /\ res = NoResult

Goto(next) == pc' = next /\ UNCHANGED <<in, parsed, res>>

Return(err, causes) ==
    /\ pc' = "done"
    /\ res' = [err |-> err, causes |-> causes, valid |-> FALSE]
    /\ UNCHANGED <<in, parsed>>

\* A step that fails with an error or goes on.
Check(at, ok, err, next) ==
    /\ pc = at
    /\ IF ok THEN Goto(next) ELSE Return(err, {})

-----------------------------------------------------------------------------
(* Claims: numbers, strings and their JSON.                                *)

Truncate(t) == t - (t % Precision)

NewNumericDate(t) == Truncate(t)

\* MarshalJSON of a date.
MarshalDate(d) == Json("num", Truncate(d), <<>>)

\* Out of the range of int64 the conversion yields the least value, on amd64,
\* or the greatest, to which the offset of year 1 is added modulo 2^64.
newNumericDateFromSeconds(j) == IF j.t = "num" THEN NewNumericDate(j.n) ELSE FarPast

Unset == [err |-> FALSE, set |-> FALSE, at |-> 0]
At(d) == [err |-> FALSE, set |-> TRUE, at |-> d]
Wrong == [err |-> TRUE, set |-> FALSE, at |-> 0]

\* MapClaims: a zero is no date, unless numbers are kept as text.
parseNumericDate(j) ==
    CASE j.t = "absent" -> Unset
      [] j.t = "num" /\ j.n = 0 /\ ~in.useJSONNumber -> Unset
      [] j.t \in {"num", "huge", "inf"} -> At(newNumericDateFromSeconds(j))
      [] OTHER -> Wrong

\* RegisteredClaims, decoded before: the rest did not decode.
RegisteredDate(j) ==
    IF j.t \in {"absent", "null"} THEN Unset ELSE At(newNumericDateFromSeconds(j))

Date(j) == IF in.ctype = "map" THEN parseNumericDate(j) ELSE RegisteredDate(j)

List(s) == [err |-> FALSE, s |-> s]

\* MapClaims: a value of another type is an empty list.
parseClaimsString(j) ==
    CASE j.t \in {"str", "list"} -> List(j.s)
      [] j.t = "badlist" -> [err |-> TRUE, s |-> <<>>]
      [] OTHER -> List(<<>>)

\* ClaimStrings.UnmarshalJSON.
RegisteredStrings(j) ==
    CASE j.t \in {"str", "list"} -> List(j.s)
      [] OTHER -> List(<<>>)

Strings(j) == IF in.ctype = "map" THEN parseClaimsString(j) ELSE RegisteredStrings(j)

\* ClaimStrings.MarshalJSON, for both values of MarshalSingleStringAsArray.
MarshalStrings(s, asArray) ==
    Json(IF Len(s) = 1 /\ ~asArray THEN "str" ELSE "list", 0, s)

\* MapClaims.parseString; in RegisteredClaims null is the empty string.
String(j) ==
    CASE j.t = "str" -> [err |-> FALSE, s |-> j.s[1]]
      [] j.t = "absent" \/ (j.t = "null" /\ in.ctype # "map") -> [err |-> FALSE, s |-> ""]
      [] OTHER -> [err |-> TRUE, s |-> ""]

-----------------------------------------------------------------------------
(* Extraction and parsing.                                                 *)

\* OAuth2Extractor: the Authorization header, with or without "Bearer ", then
\* the access_token argument.  ParseFromRequest.  A header that is "Bearer " and
\* no more ("bare") is an empty token: the argument is not looked at.
ExtractToken == Check("extract", in.header # "" \/ in.argument # "", "noToken", "split")

splitToken == Check("split", in.header # "bare" /\ in.segments = 3, "malformed", "header")

\* Base64url without padding; DecodeSegment.
Decodes(enc) ==
    \/ enc = "ok"
    \/ enc = "padded" /\ in.paddingAllowed
    \/ enc = "loose" /\ ~in.strict

\* Variant: names that occur twice are not looked for.
DuplicatesAccepted(body) == body # "broken"

rejectDuplicateTopLevelJSONKeys(body) == body \notin {"broken", "dup"}

\* json.Unmarshal into a map or a struct; a decoder that reads one value leaves
\* what follows it alone.
Unmarshals(body, oneValue) ==
    \/ body \in {"object", "dup", "folded", "null"}
    \/ body = "trailing" /\ oneValue

Header ==
    Check("header", Decodes(in.headerEnc) /\ rejectDuplicateTopLevelJSONKeys(in.headerBody)
                      /\ Unmarshals(in.headerBody, FALSE), "malformed", "claims")

\* The types the fields of RegisteredClaims take, or a float64 for a number.
TypesDecode ==
    LET dates == {in.exp.t, in.nbf.t, in.iat.t}
    IN  IF in.ctype = "map" THEN in.useJSONNumber \/ "inf" \notin dates
        ELSE /\ dates \cap {"wrong", "inf"} = {}
             /\ in.aud.t \notin {"badlist", "wrong"}
             /\ in.iss.t # "wrong" /\ in.sub.t # "wrong"

\* The members of a struct are found whatever the case of their names, and the
\* last one counts.
DecodedExp ==
    IF in.claimsBody = "folded" /\ in.ctype # "map" THEN Json("num", FarFuture, <<>>) ELSE in.exp

Claims ==
    /\ pc = "claims"
    /\ IF /\ Decodes(in.claimsEnc)
          /\ rejectDuplicateTopLevelJSONKeys(in.claimsBody)
          /\ Unmarshals(in.claimsBody, in.useJSONNumber)
          /\ TypesDecode \/ in.claimsBody = "null"
       THEN /\ pc' = "method"
            /\ parsed' = IF in.claimsBody = "null" THEN parsed
                      ELSE [exp |-> DecodedExp, nbf |-> in.nbf, iat |-> in.iat,
                            aud |-> in.aud, iss |-> in.iss, sub |-> in.sub]
            /\ UNCHANGED <<in, res>>
       ELSE Return("malformed", {})

LookupMethod ==
    Check("method", in.headerBody # "null" /\ in.alg \in Registered, "unverifiable", "signature")

Signature == Check("signature", Decodes(in.sigEnc), "malformed", "allowed")

-----------------------------------------------------------------------------
(* Verification.                                                           *)

\* Any name if no list was given; an empty list allows none.
ValidMethods ==
    Check("allowed", ~in.methodsGiven \/ in.alg \in in.validMethods, "signatureInvalid", "keyfunc")

\* Variant: an empty set is not refused, and no key of it fails.
KeyfuncEmptySet ==
    Check("keyfunc", in.keyfunc \notin {"nil", "error"}, "unverifiable",
          IF in.keys = <<>> THEN "validate" ELSE "verify")

Keyfunc ==
    Check("keyfunc", in.keyfunc \notin {"nil", "error"} /\ (in.keyfunc = "set" => in.keys # <<>>),
          "unverifiable", "verify")

\* External: the method's Verify.  No key here allows unsigned tokens.
Verifies(key) == in.alg # "none" /\ in.sigBy = key

\* One key, or the keys of a set until one fits.
Verify ==
    Check("verify", \E k \in DOMAIN in.keys : Verifies(in.keys[k]), "signatureInvalid",
          IF in.skipClaimsValidation THEN "accept" ELSE "validate")

-----------------------------------------------------------------------------
(* Validation: one function for each claim, TRUE if it returns no error.   *)

verifyExpiresAt ==
    LET d == Date(parsed.exp)
    IN  ~d.err /\ IF d.set THEN Now < d.at + in.leeway ELSE ~in.requireExp

verifyNotBefore ==
    LET d == Date(parsed.nbf)
    IN  ~d.err /\ IF d.set THEN Now >= d.at - in.leeway ELSE ~in.requireNbf

verifyIssuedAt ==
    LET d == Date(parsed.iat)
    IN  in.verifyIat => ~d.err /\ (d.set => Now >= d.at - in.leeway)

verifyAudience ==
    LET a == Strings(parsed.aud)
        cmp == Range(in.expectedAud)
    IN  in.expectedAud # <<>> =>
          /\ ~a.err
          /\ a.s \notin {<<>>, <<"">>}
          /\ IF in.expectAllAud THEN cmp \subseteq Range(a.s) ELSE cmp \cap Range(a.s) # {}

verifyIssuer == in.expectedIss # "" => String(parsed.iss) = [err |-> FALSE, s |-> in.expectedIss]
verifySubject == in.expectedSub # "" => String(parsed.sub) = [err |-> FALSE, s |-> in.expectedSub]

\* All errors are collected.
Causes ==
    {c \in {"exp", "nbf", "iat", "aud", "iss", "sub", "custom"} :
        CASE c = "exp" -> ~verifyExpiresAt
          [] c = "nbf" -> ~verifyNotBefore
          [] c = "iat" -> ~verifyIssuedAt
          [] c = "aud" -> ~verifyAudience
          [] c = "iss" -> ~verifyIssuer
          [] c = "sub" -> ~verifySubject
          [] c = "custom" -> in.custom = "fails"}

Validate ==
    /\ pc = "validate"
    /\ IF Causes = {} THEN Goto("accept") ELSE Return("invalidClaims", Causes)

Accept ==
    /\ pc = "accept"
    /\ pc' = "done"
    /\ res' = [NoResult EXCEPT !.valid = TRUE]
    /\ UNCHANGED <<in, parsed>>

ParserNext ==
    \/ ExtractToken \/ splitToken \/ Header \/ Claims \/ LookupMethod \/ Signature
    \/ ValidMethods \/ Keyfunc \/ Verify \/ Validate \/ Accept

ParserSpec == ParserInit /\ [][ParserNext]_parserVars

-----------------------------------------------------------------------------
(* Properties.                                                             *)

\* The keys the keyfunc gave.
Keys == IF in.keyfunc \in {"key", "set"} THEN Range(in.keys) ELSE {}

\* The token was signed with one of the keys, by a method the caller allows.
Authentic ==
    /\ in.segments = 3 /\ in.alg \in Registered \ {"none"}
    /\ in.methodsGiven => in.alg \in in.validMethods
    /\ in.sigBy \in Keys

\* No token is valid, and no claim of one is judged, unless it is authentic:
\* the claims are decoded first but say nothing before the signature does.
JudgedIsAuthentic == res.valid \/ res.err = "invalidClaims" => Authentic

\* A date that Validate reads as it is written.
Plain(j) == j.t = "absent" \/ (j.t = "num" /\ j.n # 0)

\* The claims are of the types RFC 7519 gives them.
Typed ==
    /\ Plain(in.exp) /\ Plain(in.nbf) /\ Plain(in.iat)
    /\ in.aud.t \in {"absent", "str", "list"}
    /\ in.iss.t \in {"absent", "str"} /\ in.sub.t \in {"absent", "str"}

AudOf(j) == Range(j.s)

\* What the caller asks of the claims, claim by claim.
Fits(c) ==
    CASE c = "exp" -> IF in.exp.t = "num" THEN Now < Truncate(in.exp.n) + in.leeway ELSE ~in.requireExp
      [] c = "nbf" -> IF in.nbf.t = "num" THEN Now + in.leeway >= Truncate(in.nbf.n) ELSE ~in.requireNbf
      [] c = "iat" -> in.verifyIat /\ in.iat.t = "num" => Now + in.leeway >= Truncate(in.iat.n)
      [] c = "aud" -> LET asked == Range(in.expectedAud)
                          found == asked \cap AudOf(in.aud)
                      IN  \/ asked = {}
                          \/ /\ in.aud.s # <<"">>     \* which counts as none
                             /\ IF in.expectAllAud THEN found = asked ELSE found # {}
      [] c = "iss" -> in.expectedIss # "" => in.iss.s = <<in.expectedIss>>
      [] c = "sub" -> in.expectedSub # "" => in.sub.s = <<in.expectedSub>>
      [] c = "custom" -> in.custom # "fails"

ClaimNames == {"exp", "nbf", "iat", "aud", "iss", "sub", "custom"}

\* What arrives is three segments of base64url and JSON objects.
WellFormed ==
    /\ in.header # "bare" /\ (in.header # "" \/ in.argument # "")
    /\ Decodes(in.headerEnc) /\ Decodes(in.claimsEnc) /\ Decodes(in.sigEnc)
    /\ in.headerBody \in {"object", "folded"} /\ in.claimsBody = "object"

\* With claims of the right types and no doubled names, a call accepts exactly
\* the authentic, well-formed tokens whose claims fit, whichever type the caller
\* decodes the claims into and however it has numbers decoded.
AcceptedIffFits ==
    pc = "done" /\ Typed /\ in.claimsBody \notin {"null", "folded", "trailing"} =>
        (res.valid <=> /\ WellFormed /\ Authentic
                       /\ in.skipClaimsValidation \/ \A c \in ClaimNames : Fits(c))

\* An error about claims names every claim that does not fit.
AllCausesNamed ==
    res.err = "invalidClaims" /\ Typed /\ in.claimsBody = "object" =>
        res.causes = {c \in ClaimNames : ~Fits(c)}

\* A date or audience that was put into a token reads back as it was, the date
\* to the precision of the library and never later than asked.
ReadsBack ==
    /\ in.exp.t = "num" =>
          LET d == newNumericDateFromSeconds(MarshalDate(NewNumericDate(in.exp.n)))
          IN  d <= in.exp.n /\ in.exp.n - d < Precision
    /\ in.aud.t = "list" =>
          \A asArray \in BOOLEAN : Strings(MarshalStrings(in.aud.s, asArray)) = List(in.aud.s)

\* ParseWithClaims accepts exactly the authentic, well-formed tokens whose claims
\* fit, names every claim that does not, and reads dates and audiences as they
\* were written.
ClaimsJudged == AcceptedIffFits /\ AllCausesNamed /\ ReadsBack
=============================================================================
