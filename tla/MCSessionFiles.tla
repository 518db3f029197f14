--------------------------- MODULE MCSessionFiles ---------------------------
(* Instances of SessionFiles for TLC. *)
EXTENDS SessionFiles, TLC

CONSTANTS s1, s2, s3

MCSession == {s1, s2, s3}
MCUnreadable == {s3}
=============================================================================
