---------------------------- MODULE SessionFiles ----------------------------
(***************************************************************************)
(* The transcripts of one project on disk: the list of sessions, the        *)
(* resumable pointer and the writer leases (session-lifecycle.ts), a sweep  *)
(* that plans and applies (gc/transcript-gc.ts), and a deletion, while      *)
(* surfaces go on opening sessions.  Sweep and deletion wait for a registry *)
(* between what they read and what they unlink.                             *)
(***************************************************************************)
EXTENDS Integers, Sequences, FiniteSets

CONSTANTS Session,
          NoSession,
          KeepLast,   \* the newest that a sweep keeps
          Unreadable  \* sessions whose transcript does not tell their id

ASSUME SessionAssumption ==
  NoSession \notin Session /\ KeepLast \in Nat \ {0} /\ Unreadable \subseteq Session

VARIABLES transcripts, \* sessions with a transcript, newest first
          old,         \* those past maxAgeDays
          pointer,     \* the last-session file, or NoSession
          lease,       \* sessions with a writer
          sweep,       \* "idle", "planned" or "registry"
          candidates,  \* what the sweep still has to collect, in order
          deletion,    \* [at |-> "idle" or "registry", of, force]
          returned     \* sessions opened, written or pointed at since apply began

sweepVars == <<sweep, candidates>>
surfaceVars == <<pointer, lease>>
sessionVars == <<transcripts, old, surfaceVars, sweepVars, deletion, returned>>

Listed(q) == {q[i] : i \in DOMAIN q}
Files == Listed(transcripts)
NoDeletion == [at |-> "idle", of |-> NoSession, force |-> FALSE]

SessionTypeOK ==
  /\ transcripts \in Seq(Session) /\ old \subseteq Files
  /\ pointer \in Session \cup {NoSession} /\ lease \subseteq Session
  /\ sweep \in {"idle", "planned", "registry"} /\ candidates \in Seq(Session)
  /\ deletion \in [at : {"idle", "registry"}, of : Session \cup {NoSession}, force : BOOLEAN]
  /\ returned \subseteq Session

SessionInit ==
  /\ transcripts = <<>> /\ old = {} /\ pointer = NoSession /\ lease = {}
  /\ sweep = "idle" /\ candidates = <<>> /\ deletion = NoDeletion /\ returned = {}

(* protectedTranscriptPaths: the pointer's target, the most recent session, *)
(* and every session with a writer.                                         *)
Protected ==
  {s \in Files : s = pointer \/ s = transcripts[1] \/ s \in lease}

Live(s) == s = pointer \/ s \in lease

(* The one list of the sessions of kept in the order they have in q.        *)
InOrderOf(q, kept) ==
  LET place(s) == CHOOSE i \in DOMAIN q : q[i] = s
  IN  {t \in [1 .. Cardinality(kept) -> kept] :
         /\ \A i, j \in DOMAIN t : i < j => place(t[i]) < place(t[j])
         /\ kept \subseteq Listed(t)}

Write(s) ==
  /\ \E others \in InOrderOf(transcripts, Files \ {s}) : transcripts' = <<s>> \o others
  /\ old' = old \ {s}

Unlink(gone) ==
  /\ transcripts' \in InOrderOf(transcripts, Files \ gone)
  /\ old' = old \ gone

Returns(s) ==
  returned' = IF sweep = "registry" THEN returned \cup {s} ELSE returned

(***************************************************************************)
(* Surfaces                                                                *)
(***************************************************************************)
Open(s) ==
  /\ s \notin lease /\ lease' = lease \cup {s} /\ Returns(s)
  /\ UNCHANGED <<transcripts, old, pointer, sweepVars, deletion>>

Extend(s) ==
  /\ s \in lease /\ Write(s) /\ Returns(s)
  /\ UNCHANGED <<surfaceVars, sweepVars, deletion>>

PersistSessionId(s) ==
  /\ s \in lease /\ pointer' = s /\ Returns(s)
  /\ UNCHANGED <<transcripts, old, lease, sweepVars, deletion>>

Close(s) ==
  /\ s \in lease /\ lease' = lease \ {s}
  /\ UNCHANGED <<transcripts, old, pointer, sweepVars, deletion, returned>>

(* Days pass: the oldest transcript that is not old yet becomes old. *)
Age ==
  /\ \E i \in DOMAIN transcripts :
       /\ transcripts[i] \notin old /\ \A k \in DOMAIN transcripts : k > i => transcripts[k] \in old
       /\ old' = old \cup {transcripts[i]}
  /\ UNCHANGED <<transcripts, surfaceVars, sweepVars, deletion, returned>>

(* forkBeforeUserTurn: the copy is written over whatever newId names.  The  *)
(* guard of forkTranscript is fed paths that were mapped to paths a second  *)
(* time, and matches nothing.                                               *)
Fork(src, dst) ==
  /\ src \in Files /\ src # dst /\ Write(dst) /\ Returns(dst)
  /\ UNCHANGED <<surfaceVars, sweepVars, deletion>>

(***************************************************************************)
(* The sweep                                                               *)
(***************************************************************************)
PlanTranscriptGC ==
  /\ sweep = "idle" /\ sweep' = "planned"
  /\ LET keeps == {transcripts[i] : i \in DOMAIN transcripts \cap 1 .. KeepLast} \cup Protected IN
     candidates' \in InOrderOf(transcripts, old \ keeps)
  /\ UNCHANGED <<transcripts, old, surfaceVars, deletion, returned>>

\* Mutant of ProtectedNow: apply trusts the plan.
ProtectedThen == {}

ProtectedNow == Protected

(* The loop over what is left, q, when the transcripts of gone are unlinked: *)
(* a candidate whose id cannot be read is unlinked at once, and the first    *)
(* one with an id is asked of the registry.                                  *)
Proceed(q, gone) ==
  LET asked == {i \in DOMAIN q : q[i] \notin Unreadable}
      first == CHOOSE i \in asked : \A k \in asked : i <= k
      rest == IF asked = {} THEN <<>> ELSE SubSeq(q, first, Len(q))
  IN /\ Unlink(gone \cup (Listed(q) \ Listed(rest)))
     /\ candidates' = rest
     /\ sweep' = IF rest = <<>> THEN "idle" ELSE "registry"
     /\ returned' = IF rest = <<>> THEN {} ELSE returned
     /\ UNCHANGED <<surfaceVars, deletion>>

(* Apply reads the protection once. *)
RunTranscriptGC ==
  /\ sweep = "planned"
  /\ \E q \in InOrderOf(candidates, Listed(candidates) \ ProtectedNow) : Proceed(q, {})

Released == sweep = "registry" /\ Proceed(Tail(candidates), {Head(candidates)})

\* Mutant of Expires: the wait is unbounded unless a bound is asked for.
ExpiresNever == FALSE

Expires == TRUE

(* The registry throws, or does not answer in time: the transcript is kept. *)
NotReleased == sweep = "registry" /\ Proceed(Tail(candidates), {})

(***************************************************************************)
(* deleteSession                                                           *)
(***************************************************************************)
DeleteSession(s, force) ==
  /\ deletion.at = "idle" /\ (force \/ s \notin Protected)
  /\ deletion' = [at |-> "registry", of |-> s, force |-> force]
  /\ UNCHANGED <<transcripts, old, surfaceVars, sweepVars, returned>>

\* Mutant of Rechecks: the protection read first is the one that counts.
RechecksNot == FALSE

Rechecks == ~deletion.force

(* The registry answers; what is protected by now is kept. *)
RegistryAnswers ==
  /\ deletion.at = "registry" /\ deletion' = NoDeletion
  /\ IF Rechecks /\ deletion.of \in Protected THEN UNCHANGED <<transcripts, old>>
                                             ELSE Unlink({deletion.of})
  /\ UNCHANGED <<surfaceVars, sweepVars, returned>>

RegistryFails ==
  /\ deletion.at = "registry" /\ deletion' = NoDeletion
  /\ UNCHANGED <<transcripts, old, surfaceVars, sweepVars, returned>>

SessionNext ==
  \/ \E s \in Session : \/ Open(s) \/ Extend(s) \/ PersistSessionId(s) \/ Close(s)
                        \/ \E d \in Session : Fork(s, d)
                        \/ \E force \in BOOLEAN : DeleteSession(s, force)
  \/ Age \/ PlanTranscriptGC \/ RunTranscriptGC \/ Released \/ NotReleased
  \/ RegistryAnswers \/ RegistryFails

(* Fairness: the timer of the wait.  The registry may never answer, and     *)
(* surfaces do as they like.                                                *)
SessionSpec == SessionInit /\ [][SessionNext]_sessionVars
SessionFairSpec == SessionSpec /\ WF_sessionVars(Expires /\ NotReleased)

(***************************************************************************)
(* Properties                                                              *)
(***************************************************************************)
Unlinks(s) == s \in Files /\ s \notin Files'

(* A sweep takes the transcript of a live session only if the session was   *)
(* returned to after apply had read what is protected.                      *)
SweepSparesLive ==
  [][\A s \in Session : UNCHANGED deletion /\ Unlinks(s) /\ Live(s) => s \in returned]_sessionVars

(* A deletion that is not forced spares what is protected by the time the   *)
(* registry has answered, whoever wrote or opened what meanwhile.           *)
DeleteSparesProtected ==
  [][\A s \in Session : UNCHANGED sweepVars /\ Unlinks(s) /\ s \in Protected => deletion.force]_sessionVars

(* A sweep ends though the registry never answers. *)
SweepEnds == sweep = "registry" ~> sweep = "idle"

(* Refuted: an active writer lease protects its transcript from a sweep     *)
(* (transcript-gc.ts, invariants 3 and 4).  The protection is read once,    *)
(* before the first of the waits.                                           *)
LeaseProtects == [][\A s \in Session : UNCHANGED deletion /\ Unlinks(s) => s \notin lease]_sessionVars
=============================================================================
