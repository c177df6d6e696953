------------------------ MODULE OpenIdConfiguration ------------------------
(***************************************************************************)
(* OpenID::CreateFromJson (security-openid): which documents of an         *)
(* identity provider make a Configuration.  A document says of every       *)
(* member which JSON type it has; the contents of members are left out.    *)
(***************************************************************************)

RequiredStrings == {"issuer", "authorization_endpoint", "jwks_uri"}

RequiredLists == {"response_types_supported", "subject_types_supported",
                  "id_token_signing_alg_values_supported"}

Required == RequiredStrings \cup RequiredLists

OptionalStrings == {"token_endpoint", "userinfo_endpoint", "registration_endpoint",
  "service_documentation", "op_policy_uri", "op_tos_uri"}

OptionalLists == {"scopes_supported", "response_modes_supported", "grant_types_supported",
  "acr_values_supported", "id_token_encryption_alg_values_supported",
  "id_token_encryption_enc_values_supported", "userinfo_signing_alg_values_supported",
  "userinfo_encryption_alg_values_supported", "userinfo_encryption_enc_values_supported",
  "request_object_signing_alg_values_supported",
  "request_object_encryption_alg_values_supported",
  "request_object_encryption_enc_values_supported", "token_endpoint_auth_methods_supported",
  "token_endpoint_auth_signing_alg_values_supported", "display_values_supported",
  "claim_types_supported", "claims_supported", "claims_locales_supported",
  "ui_locales_supported"}

OptionalBools == {"claims_parameter_supported", "request_parameter_supported",
  "request_uri_parameter_supported", "require_request_uri_registration"}

Fields == Required \cup OptionalStrings \cup OptionalLists \cup OptionalBools

Json == [Fields -> {"absent", "string", "array", "boolean", "other"}]

\* extractString, extractStrings, extractBool: std::nullopt also for a member of another
\* type.
extract(json, f) ==
  IF json[f] = IF f \in RequiredStrings \cup OptionalStrings THEN "string"
               ELSE IF f \in OptionalBools THEN "boolean" ELSE "array"
  THEN "value" ELSE "nullopt"

OnlyStrings == RequiredStrings                    \* mutant: value_or for the lists
AllStrings == Required \cup OptionalStrings        \* mutant: value() of optional members
ValueTaken == Required               \* the optionals whose value() is taken

\* A required member that is missing is a std::bad_optional_access.
Throws(json) == \E f \in ValueTaken : extract(json, f) = "nullopt"

CreateFromJson(json) == [f \in Fields |-> extract(json, f)]
=============================================================================
