---------------------------- MODULE MCLifecycle ----------------------------
(* Documents of an identity provider for Lifecycle. *)
EXTENDS Lifecycle

Complete ==
  [f \in Fields |->
     IF f \in RequiredStrings THEN "string"
     ELSE IF f \in RequiredLists THEN "array"
     ELSE IF f = "op_tos_uri" THEN "other" ELSE "absent"]

\* Complete, without jwks_uri, with a string for a list, and an error page in JSON.
MCDocuments ==
  {Complete,
   [Complete EXCEPT !["jwks_uri"] = "absent"],
   [Complete EXCEPT !["subject_types_supported"] = "string"],
   [f \in Fields |-> "absent"]}
=============================================================================
