------------------------- MODULE MCHitlCorrelation -------------------------
(* Two calls side by side, then the others one by one.                     *)
EXTENDS HitlCorrelation

RoundsMC == [c \in 1 .. NCalls |-> IF c <= 2 THEN 1 ELSE c - 1]
=============================================================================
