---------------------------- MODULE MCPostgresJobs ----------------------------
(* Two rows of one key, the first with an attempt to spare. *)
EXTENDS PostgresJobs, TLC

CONSTANTS k1, j1, j2

KeyMC == j1 :> k1 @@ j2 :> k1
TriesMC == j1 :> 2 @@ j2 :> 1
=============================================================================
