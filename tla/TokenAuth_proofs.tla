-------------------------- MODULE TokenAuth_proofs --------------------------
(* What the decisions of TokenAuth guarantee, for key sets and tokens of any kind. *)
EXTENDS TokenAuth, WellFoundedInduction, TLAPS

\* Of the positions with a property there is a latest one.
LEMMA LatestPosition ==
  ASSUME NEW jwks \in Seq(Jwk), NEW S, S \subseteq DOMAIN jwks, S # {}
  PROVE  \E i \in S : \A j \in S : j <= i
<1> DEFINE T == {Len(jwks) - i : i \in S}
<1>1. \A i \in S : i \in Nat /\ i <= Len(jwks)
  OBVIOUS
<1>2. T \subseteq Nat /\ T # {}
  BY <1>1
<1>3. PICK x \in T : \A y \in T : ~(<<y, x>> \in OpToRel(<, Nat))
  BY <1>2, NatLessThanWellFounded, WFMin, Zenon
<1>4. ASSUME NEW y \in T PROVE x <= y
  <2>1. y \in Nat /\ x \in Nat
    BY <1>2
  <2>2. CASE y < x
    <3>1. <<y, x>> \in OpToRel(<, Nat)
      BY <2>1, <2>2 DEF OpToRel
    <3> QED
      BY <1>3, <3>1
  <2> QED
    BY <2>1, <2>2
<1>5. PICK i \in S : x = Len(jwks) - i
  BY <1>3
<1>6. \A j \in S : j <= i
  <2> SUFFICES ASSUME NEW j \in S PROVE j <= i
    OBVIOUS
  <2>1. Len(jwks) - j \in T
    OBVIOUS
  <2>2. Len(jwks) - i <= Len(jwks) - j
    BY <1>4, <1>5, <2>1
  <2>3. Len(jwks) \in Nat /\ i \in Nat /\ j \in Nat
    BY <1>1
  <2> QED
    BY <2>2, <2>3
<1> QED
  BY <1>6

\* Every key in the map is the material of a key that is taken, with this id.
LEMMA KeysAreTaken ==
  ASSUME NEW jwks \in Seq(Jwk), NEW k \in DOMAIN extractPubKeysPEM(jwks)
  PROVE  \E i \in parse_RS256Keys(jwks) :
           jwks[i].kid = k /\ jwks[i].material = extractPubKeysPEM(jwks)[k]
<1> DEFINE keys == parse_RS256Keys(jwks)
           same == {i \in keys : jwks[i].kid = k}
           latest == CHOOSE i \in keys : /\ jwks[i].kid = k
                                         /\ \A j \in keys : jwks[j].kid = k => j <= i
<1>1. same # {} /\ same \subseteq DOMAIN jwks
  BY DEF extractPubKeysPEM, parse_RS256Keys
<1>2. \E i \in same : \A j \in same : j <= i
  BY <1>1, LatestPosition
<1>3. \E i \in keys : jwks[i].kid = k /\ \A j \in keys : jwks[j].kid = k => j <= i
  BY <1>2
<1>4. latest \in keys /\ jwks[latest].kid = k
  BY <1>3
<1>5. extractPubKeysPEM(jwks)[k] = jwks[latest].material
  BY DEF extractPubKeysPEM
<1> QED
  BY <1>4, <1>5

\* extractPubKeysPEM keeps keys for signatures only: whatever is in the map of a key
\* set that converts is one of its signing keys, under its own id.
THEOREM ExtractedKeysSign ==
  ASSUME NEW jwks \in Seq(Jwk), Convertible(jwks), NEW k \in DOMAIN extractPubKeysPEM(jwks)
  PROVE  <<k, extractPubKeysPEM(jwks)[k]>> \in SigningKeys(jwks)
<1>1. PICK i \in parse_RS256Keys(jwks) :
        jwks[i].kid = k /\ jwks[i].material = extractPubKeysPEM(jwks)[k]
  BY KeysAreTaken
<1>2. i \in DOMAIN jwks /\ jwks[i] \in Jwk
  BY <1>1 DEF parse_RS256Keys
<1>3. jwks[i].kid \in Kids /\ jwks[i].material \in Materials
  BY <1>2 DEF parse_RS256Keys, Usable, Convertible, Jwk
<1> QED
  BY <1>1, <1>3 DEF SigningKeys, parse_RS256Keys, Usable, ForSignatures

\* No signing key of a key set that converts is lost: its id is in the map, with a signing
\* key of that id.  One key that does not convert takes all the others with it.
THEOREM SigningKeysAreExtracted ==
  ASSUME NEW jwks \in Seq(Jwk), Convertible(jwks), NEW key \in SigningKeys(jwks)
  PROVE  /\ key[1] \in DOMAIN extractPubKeysPEM(jwks)
         /\ <<key[1], extractPubKeysPEM(jwks)[key[1]]>> \in SigningKeys(jwks)
<1>1. PICK i \in DOMAIN jwks :
        /\ jwks[i].use = "sig" \/ jwks[i].key_ops \in {"sign", "verify"}
        /\ jwks[i].kty = "RSA"
        /\ jwks[i].kid \in Kids
        /\ jwks[i].material \in Materials
        /\ key = <<jwks[i].kid, jwks[i].material>>
  BY DEF SigningKeys
<1>2. i \in parse_RS256Keys(jwks)
  BY <1>1, NamesAssumption DEF parse_RS256Keys, Usable, ForSignatures
<1>3. key[1] \in DOMAIN extractPubKeysPEM(jwks)
  BY <1>1, <1>2 DEF extractPubKeysPEM
<1> QED
  BY <1>3, ExtractedKeysSign

\* A token that passes with a key from a cache of ids and materials is signed with
\* that key and has everything README.md asks for.
THEOREM PassingIsValid ==
  ASSUME NEW token, NEW keys, NEW key,
         BeforeKey(token) = "needsKey", AfterKey(token, key) = "passed",
         KeyId(token) \in Kids, <<KeyId(token), key>> \in keys
  PROVE  Valid(token, keys)
<1>1. token # NoToken
  BY DEF BeforeKey
<1>2. key = token.signer /\ token.issuer /\ token.audience /\ token.unexpired
  BY DEF AfterKey
<1>3. token.claim # "absent"
  BY DEF AfterKey
<1>4. KeyId(token) = token.kid
  BY NamesAssumption DEF KeyId, Optional
<1> QED
  BY <1>1, <1>2, <1>3, <1>4 DEF Valid

\* What becomes of a valid token, whatever its typ and its claims are: it is never refused,
\* passes with the key it is signed with, and is not decided about, because the code throws,
\* exactly when its typ is missing (before its key is asked for) or a required claim is no
\* string (after that).
THEOREM ValidIsNotRefused ==
  ASSUME NEW token \in Token, NEW keys, Valid(token, keys), Wellformed(token),
         token.signer \in Materials
  PROVE  /\ BeforeKey(token) = IF token.typ = "absent" THEN "thrown" ELSE "needsKey"
         /\ AfterKey(token, token.signer) = IF token.claim = "other" THEN "thrown" ELSE "passed"
<1>1. token.signer # NoKey
  BY NamesAssumption DEF NoKey, Optional
<1>2. BeforeKey(token) = IF token.typ = "absent" THEN "thrown" ELSE "needsKey"
  BY DEF Valid, Wellformed, BeforeKey
<1>3. AfterKey(token, token.signer) = IF token.claim = "other" THEN "thrown" ELSE "passed"
  BY <1>1 DEF Valid, Wellformed, AfterKey
<1> QED
  BY <1>2, <1>3
=============================================================================
