--------------------------- MODULE MCHumanApproval ---------------------------
(* Two calls paused side by side under different gates. *)
EXTENDS HumanApproval, TLC

CONSTANTS c1, c2

OnTimeoutMC == c1 :> "proceed" @@ c2 :> "retry"
=============================================================================
