------------------------------ MODULE MCJobQueue ------------------------------
(* A request that asks for two jobs of one key, one of which cannot run,   *)
(* and a caller of the backend.                                            *)
EXTENDS JobQueue, TLC

CONSTANTS j1, j2, j3, r1, k1

ViaMC == j1 :> r1 @@ j2 :> r1 @@ j3 :> Direct
KeyMC == j1 :> k1 @@ j2 :> k1 @@ j3 :> NoKey
DeclaredMC == j1 :> 2 @@ j2 :> 1 @@ j3 :> 2
=============================================================================
