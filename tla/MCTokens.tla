------------------------------ MODULE MCTokens ------------------------------
(* A behaviour is one of TokenProfiles, JwtMethods, JwtParser or           *)
(* RuntimeStats: the lookup of a profile, a signature and its check, the   *)
(* parsing of a token, and the statistics reported with a token pair share *)
(* no state.  What does not take part rests.                               *)
EXTENDS MCTokenProfiles, JwtMethods, JwtParser, RuntimeStats

VARIABLE part

ASSUME ProcsAssumption
ASSUME InputsAssumption

-----------------------------------------------------------------------------
(* Key files of every family: one pair, or two where another parameter set  *)
(* or another key of the same set matters.                                 *)

File(fmt, mat) == [pem |-> TRUE, fmt |-> fmt, enc |-> FALSE, mat |-> mat]

Halves(fam, param, id, privFmts, pubFmts) ==
    {File(f, Mat(fam, param, "priv", id)) : f \in privFmts}
      \cup {File(f, Mat(fam, param, "pub", id)) : f \in pubFmts}

MCFiles ==
    Halves("rsa", "2048", "k1", {"pkcs1", "pkcs8"}, {"pkix", "pkcs1"})
      \cup {[File("pkcs1", Mat("rsa", "2048", "priv", "k1")) EXCEPT !.enc = TRUE]}
      \cup Halves("ecdsa", "256", "k1", {"sec1"}, {"pkix", "cert"})
      \cup Halves("ecdsa", "521", "k1", {"sec1"}, {"pkix"})
      \cup Halves("ed25519", "-", "k1", {"pkcs8"}, {"pkix", "cert"})
      \cup Halves("mldsa", "44", "k1", {"raw"}, {"raw"})
      \cup Halves("mldsa", "65", "k1", {"raw"}, {"raw"})
      \cup Halves("slhdsa", "SHA2-128f", "k1", {"raw"}, {"raw"})
      \cup Halves("fndsa", "512", "k1", {"raw"}, {"raw"})
      \cup Halves("fndsa", "512", "k2", {}, {"raw"})
      \cup Halves("fndsa", "1024", "k1", {"raw"}, {"raw"})
      \cup {File("secret", Mat("hmac", "-", "sym", "k1"))}
      \cup {[File("raw", Mat("fndsa", "512", "priv", "k1")) EXCEPT !.pem = FALSE]}

-----------------------------------------------------------------------------
(* A good call of the parser, and every call that differs from it in at    *)
(* most two fields, or in three where one is the type the claims are       *)
(* decoded into.                                                           *)

MCFarPast == -1000

Claim(t, n, s) == [t |-> t, n |-> n, s |-> s]
Num(n) == Claim("num", n, <<>>)
Bare(t) == Claim(t, 0, <<>>)
Str(x) == Claim("str", 0, <<x>>)
Listed(s) == Claim("list", 0, s)

Good ==
    [header |-> "bearer", argument |-> "", segments |-> 3,
     headerEnc |-> "ok", claimsEnc |-> "ok", sigEnc |-> "ok",
     headerBody |-> "object", claimsBody |-> "object",
     alg |-> "A", sigBy |-> "k1", keyfunc |-> "key", keys |-> <<"k1">>,
     methodsGiven |-> TRUE, validMethods |-> {"A"},
     ctype |-> "registered", useJSONNumber |-> FALSE, skipClaimsValidation |-> FALSE,
     paddingAllowed |-> FALSE, strict |-> FALSE, leeway |-> 0,
     requireExp |-> FALSE, requireNbf |-> FALSE, verifyIat |-> FALSE,
     expectedAud |-> <<>>, expectAllAud |-> FALSE, expectedIss |-> "", expectedSub |-> "",
     custom |-> "none",
     exp |-> Num(10), nbf |-> Num(8), iat |-> Num(8),
     aud |-> Listed(<<"a", "b">>), iss |-> Str("x"), sub |-> Str("x")]

Enc == {"padded", "loose", "bad"}
Body == {"dup", "folded", "null", "other", "broken", "trailing"}
Dates == {Bare("absent"), Bare("null"), Bare("wrong"), Bare("huge"), Bare("inf"), Num(0),
          Num(8), Num(9), Num(10), Num(11), Num(20)}
Names == {Bare("absent"), Bare("null"), Bare("wrong"), Str(""), Str("y")}

\* The other values of each field.
Other ==
    [header |-> {"", "bare"}, argument |-> {"token"}, segments |-> {2, 4},
     headerEnc |-> Enc, claimsEnc |-> Enc, sigEnc |-> Enc,
     headerBody |-> Body, claimsBody |-> Body,
     alg |-> {"absent", "wrong", "unknown", "B", "none"}, sigBy |-> {"k2", "none"},
     keyfunc |-> {"nil", "error", "set"},
     keys |-> {<<"k2">>, <<"k1", "k2">>, <<"k2", "k1">>, <<>>},
     methodsGiven |-> {FALSE}, validMethods |-> {{}, {"A", "B"}, {"A", "none"}},
     ctype |-> {"map"}, useJSONNumber |-> {TRUE}, skipClaimsValidation |-> {TRUE},
     paddingAllowed |-> {TRUE}, strict |-> {TRUE}, leeway |-> {2},
     requireExp |-> {TRUE}, requireNbf |-> {TRUE}, verifyIat |-> {TRUE},
     expectedAud |-> {<<"a">>, <<"c">>, <<"a", "c">>, <<"b", "a">>}, expectAllAud |-> {TRUE},
     expectedIss |-> {"x", "y"}, expectedSub |-> {"x", "y"}, custom |-> {"fits", "fails"},
     exp |-> Dates, nbf |-> Dates, iat |-> Dates,
     aud |-> {Bare("absent"), Bare("null"), Bare("wrong"), Bare("badlist"), Str("a"),
              Str(""), Listed(<<>>), Listed(<<"c">>)},
     iss |-> Names, sub |-> Names]

\* A key without a set is one key.
Sound(i) == i.keyfunc # "set" => Len(i.keys) = 1

Change == UNION {{f} \X Other[f] : f \in DOMAIN Good}
Changed(calls) == {[c EXCEPT ![x[1]] = x[2]] : c \in calls, x \in Change}

Once == {Good} \cup Changed({Good})
Twice == Once \cup Changed(Once)

MCInputs == {i \in Twice \cup Changed({c \in Twice : c.ctype = "map"}) : Sound(i)}

-----------------------------------------------------------------------------
MCInit ==
    /\ part \in {"profiles", "methods", "parser", "runtime"}
    /\ IF part = "profiles" THEN Init
       ELSE /\ auth = Profiles /\ gateway = Profiles /\ default = Canonical
            /\ session = NoSession /\ last = Quiet
    /\ MethodsInit
    /\ IF part = "parser" THEN ParserInit
       ELSE in = Good /\ pc = "rest" /\ parsed = <<>> /\ res = NoResult
    /\ RuntimeInit

ProfileStep == part = "profiles" /\ Next /\ UNCHANGED <<part, methodVars, parserVars, runtimeVars>>
MethodStep == part = "methods" /\ MethodsNext /\ UNCHANGED <<part, vars, parserVars, runtimeVars>>
ParserStep == part = "parser" /\ ParserNext /\ UNCHANGED <<part, vars, methodVars, runtimeVars>>
RuntimeStep == part = "runtime" /\ RuntimeNext /\ UNCHANGED <<part, vars, methodVars, parserVars>>

MCSpec ==
    MCInit /\ [][ProfileStep \/ MethodStep \/ ParserStep \/ RuntimeStep]_
                    <<part, vars, methodVars, parserVars, runtimeVars>>

=============================================================================
