------------------------- MODULE MCResumableStream -------------------------
(* Instances of ResumableStream for TLC. *)
EXTENDS ResumableStream, TLC

(* Clients are interchangeable, and so are run ids. *)
Sym == Permutations(Client) \cup Permutations(Run)
=============================================================================
