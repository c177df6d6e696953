------------------------- MODULE MCJwksKeyProvider -------------------------
(* The configurations of the runs. *)
EXTENDS JwksKeyProvider

Made(uri, throws) == [uriConstructor |-> uri, throwOnError |-> throws]

\* Both constructors with both arguments; what main.cpp makes; the one that should only log.
Any == {Made(uri, throws) : uri, throws \in BOOLEAN}
Main == {Made(TRUE, TRUE)}
LoggingFromUri == {Made(TRUE, FALSE)}
=============================================================================
