----------------------------- MODULE TokenAuth -----------------------------
(***************************************************************************)
(* The decisions of security-jwt-auth that keep no state: which keys of a  *)
(* key set are used (impl/key_conversion.cpp), and whether a token lets a  *)
(* request in (jwt-auth-request-hook.cpp and the TokenAuthRequestHook it   *)
(* derives from).                                                          *)
(*                                                                         *)
(* Strings are abstracted to what the code asks of them.  "absent" stands  *)
(* for a member that is missing or has another JSON type, "" for an empty  *)
(* string.  The key material stands for modulus, exponent and PEM text.    *)
(***************************************************************************)
EXTENDS Naturals, Sequences

CONSTANTS
  Kids,       \* key ids, without "" and "absent"
  Materials,  \* key material OpenSSL accepts
  NoToken     \* the token of a request without authorization metadata

NoKey == ""                     \* what a key provider returns for an unknown key
RS256 == "RS256"                \* the algorithm main.cpp has a key provider for
Optional == {"absent", ""}

ASSUME NamesAssumption ==
  /\ Optional \cap Kids = {}
  /\ (Optional \cup {"garbled"}) \cap Materials = {}

-----------------------------------------------------------------------------
(* Key sets *)

Jwk == [use: {"sig", "enc", "absent"},
        key_ops: {"sign", "verify", "encrypt", "absent"},   \* an array counts as absent
        kty: {"RSA", "EC"},
        kid: Kids \cup Optional,
        material: Materials \cup Optional \cup {"garbled"}]

ForSignatures(jwk) == jwk.use = "sig" \/ jwk.key_ops \in {"sign", "verify"}

\* Keys of other kinds, and keys without id, modulus or exponent, are skipped.
Usable(jwk) ==
  /\ ForSignatures(jwk)
  /\ jwk.kty = "RSA"
  /\ jwk.kid \notin Optional
  /\ jwk.material \notin Optional

\* The keys that are taken, as positions in the key set.
parse_RS256Keys(jwks) == {i \in DOMAIN jwks : Usable(jwks[i])}

AlwaysConvertible(jwks) == TRUE   \* mutant: a key that does not convert is kept as it is

\* toPEM_PubKey throws when OpenSSL does not take the key, and with it the whole
\* key set is lost.
Convertible(jwks) == \A i \in parse_RS256Keys(jwks) : jwks[i].material \in Materials

\* The map from key ids to keys: of two keys with one id the later one stays.
extractPubKeysPEM(jwks) ==
  LET keys == parse_RS256Keys(jwks)
      last(k) == CHOOSE i \in keys : /\ jwks[i].kid = k
                                     /\ \A j \in keys : jwks[j].kid = k => j <= i
  IN [k \in {jwks[i].kid : i \in keys} |-> jwks[last(k)].material]

-----------------------------------------------------------------------------
(* Tokens *)

\* A token in the metadata: its prefix, what its header says, the key its
\* signature was made with, and its claims.
Token == [prefix: BOOLEAN,                  \* "Bearer "
          header: BOOLEAN,                  \* decodable, and alg is a string; a typ of
                                            \* another kind does not decode
          alg: {RS256, "other"},
          typ: {"JWT", "absent"},
          kid: Kids \cup Optional,
          signer: Materials \cup {"nobody"},
          issuer: BOOLEAN, audience: BOOLEAN, unexpired: BOOLEAN,   \* as required?
          claim: {"string", "other", "absent"}]                     \* the required claim

\* TokenAuthRequestHook and decode_token up to the key provider.
BeforeKey(token) ==
  CASE token = NoToken    -> "refused"
    [] ~token.prefix      -> "refused"
    [] ~token.header      -> "refused"
    [] token.typ = "absent" -> "thrown"   \* value() of the empty optional
    [] token.alg # RS256  -> "refused"
    [] OTHER              -> "needsKey"

KeyId(token) == IF token.kid = "absent" THEN "" ELSE token.kid

\* mutant: the errors jwt::decode leaves to verify_token are forgotten
AfterKeyUnverified(token, key) ==
  CASE key = NoKey                 -> "refused"
    [] key # token.signer          -> "refused"
    [] token.claim = "absent"      -> "refused"
    [] token.claim = "other"       -> "thrown"
    [] OTHER                       -> "passed"

\* The rest of decode_token, verify_token and the required claims: a claim that is
\* no string makes get_claim_value throw.
AfterKey(token, key) ==
  CASE key = NoKey                 -> "refused"
    [] key # token.signer          -> "refused"
    [] ~(token.issuer /\ token.audience /\ token.unexpired) -> "refused"
    [] token.claim = "absent"      -> "refused"
    [] token.claim = "other"       -> "thrown"
    [] OTHER                       -> "passed"

-----------------------------------------------------------------------------
(* What is asked of them *)

\* The keys of a key set a token may be signed with.
SigningKeys(jwks) ==
  {<<jwks[i].kid, jwks[i].material>> : i \in
     {j \in DOMAIN jwks : /\ jwks[j].use = "sig" \/ jwks[j].key_ops \in {"sign", "verify"}
                         /\ jwks[j].kty = "RSA"
                         /\ jwks[j].kid \in Kids
                         /\ jwks[j].material \in Materials}}

\* What README.md asks of a token: "verifaction of the signature, the audience,
\* the expiration, the presence of required claims, and the issuer".
Valid(token, keys) ==
  /\ token # NoToken
  /\ <<token.kid, token.signer>> \in keys
  /\ token.issuer /\ token.audience /\ token.unexpired
  /\ token.claim # "absent"

\* What else a token needs to be one for this service.  A typ is not among it: it is
\* optional in a header ("see https://www.rfc-editor.org/rfc/rfc7515", and JWTHeader), and
\* so is not the type of a required claim, which only has to be present.
Wellformed(token) == token.prefix /\ token.header /\ token.alg = RS256
=============================================================================
