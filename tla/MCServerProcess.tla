-------------------------- MODULE MCServerProcess --------------------------
(* Instances of ServerProcess for TLC. *)
EXTENDS ServerProcess, TLC

CONSTANTS r1, r2, c1, c2, p1

MCRequest == {r1, r2}

(* Each its own id, and room for one span; or one trace, and room for two. *)
MCMapConfigs == {<<[r \in MCRequest |-> r], 1>>, <<[r \in MCRequest |-> r1], 2>>}

MCWeb == {r2}
MCJob == {c1, c2}
MCForbid == {c1}
MCPool == {p1}
=============================================================================
