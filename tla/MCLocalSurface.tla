--------------------------- MODULE MCLocalSurface ---------------------------
(* Two gated calls and two questions in two turns, and surfaces that come *)
(* and go.                                                                *)
EXTENDS LocalSurface, TLC
=============================================================================
