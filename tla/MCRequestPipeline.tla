------------------------- MODULE MCRequestPipeline -------------------------
(* Values of the constants of RequestPipeline for TLC. *)
EXTENDS RequestPipeline, TLC

CONSTANTS t1, t2

MCThreads == {t1, t2}
MCKids == {"k1", "k2"}
MCMaterials == {"m1", "m2", "m3"}

Key(use, ops, kty, kid, material) ==
  [use |-> use, kty |-> kty, kid |-> kid, material |-> material, key_ops |-> ops]

\* A key set with a key for encryption; its successor, with keys to be skipped and an
\* id that is there twice; and one with a key OpenSSL does not take.
MCKeySets ==
  {<<Key("sig", "absent", "RSA", "k1", "m1"), Key("enc", "absent", "RSA", "k2", "m2")>>,
   <<Key("sig", "absent", "EC", "k1", "m1"), Key("sig", "absent", "RSA", "", "m2"),
     Key("sig", "absent", "RSA", "k1", "absent"),
     Key("sig", "absent", "RSA", "k2", "m1"), Key("absent", "verify", "RSA", "k2", "m3")>>,
   <<Key("sig", "absent", "RSA", "k2", "m3"), Key("sig", "absent", "RSA", "k1", "garbled")>>}

Signed(kid, material) ==
  [kid |-> kid, prefix |-> TRUE, header |-> TRUE, alg |-> RS256, typ |-> "JWT",
   signer |-> material, issuer |-> TRUE, audience |-> TRUE, unexpired |-> TRUE,
   claim |-> "string"]

Good == Signed("k1", "m1")

\* Tokens signed with the right key, another one, one for encryption, and none at all;
\* and good tokens with one defect each.
MCTokens ==
  {Good, Signed("k1", "m2"), Signed("k2", "m2"), Signed("k2", "m3"), Signed("k1", "nobody"),
   Signed("", "m2"), NoToken,
   [Good EXCEPT !.prefix = FALSE], [Good EXCEPT !.header = FALSE],
   [Good EXCEPT !.alg = "other"], [Good EXCEPT !.typ = "absent"],
   [Good EXCEPT !.issuer = FALSE], [Good EXCEPT !.audience = FALSE],
   [Good EXCEPT !.unexpired = FALSE],
   [Good EXCEPT !.claim = "absent"], [Good EXCEPT !.claim = "other"]}

Req(op, id, body, token, traced) ==
  [op |-> op, id |-> id, body |-> body, token |-> token, traced |-> traced]

\* Every token with one request, and every shape of a request with a good token.
MCRequests ==
  {Req("get", <<"a">>, <<>>, token, TRUE) : token \in MCTokens}
    \cup {Req("get", id, <<>>, Good, FALSE) : id \in {<<>>, <<"b">>, <<"a", "b">>}}
    \cup {Req("set", <<"b">>, body, Good, TRUE) : body \in {Malformed, <<"a">>, <<"b">>}}
    \cup {Req("set", <<"a", "b">>, body, Good, FALSE) : body \in {<<"b">>, <<"a", "b">>}}
    \cup {Req("set", <<>>, <<>>, Good, FALSE)}

\* A good token, but for the optional typ, which is missing.
MCWithoutTyp == {Req("get", <<"a">>, <<>>, [Good EXCEPT !.typ = "absent"], TRUE)}

MCSymmetry == Permutations(MCThreads)
=============================================================================
