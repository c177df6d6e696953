--------------------------- MODULE MCPostgresRepo ---------------------------
(* The handler threads of one replica.                                     *)
EXTENDS PostgresRepo, TLC

CONSTANTS m1, t1, t2

OneReplica == (t1 :> m1) @@ (t2 :> m1)
=============================================================================
