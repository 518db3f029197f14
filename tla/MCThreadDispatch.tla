-------------------------- MODULE MCThreadDispatch --------------------------
(* Small instances of ThreadDispatch for TLC. *)
EXTENDS ThreadDispatch, TLC

CONSTANTS t1, c1, m1, m2, m3, r1, r2, r3

MCMessage == {m1, m2, m3}
MCRun == {r1, r2, r3}

(* Every client watches the first thread. *)
AllWatchT1 == [c \in Client |-> t1]

(* Messages, and runs, are interchangeable: they are taken in this order. *)
Canonical ==
  /\ accepted[t1] = SubSeq(<<m1, m2, m3>>, 1, Len(accepted[t1]))
  /\ log[t1] = SubSeq(<<r1, r2, r3>>, 1, Len(log[t1]))
=============================================================================
