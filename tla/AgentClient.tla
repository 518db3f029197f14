---------------------------- MODULE AgentClient ----------------------------
(***************************************************************************)
(* The client a surface talks to (agent-client.ts) over HttpTransport      *)
(* (http-transport.ts): turns that are sent, cut, resumed and committed to *)
(* the history, the drives that read their streams, and the snapshot that  *)
(* is shown.  A drive is one call of #drive.  The server is what RunFeed   *)
(* promises of it: the run of turn t is a feed of chunks.  A page may be   *)
(* reloaded; a connection may break at any moment.                         *)
(***************************************************************************)
EXTENDS Integers, Sequences, FiniteSets

CONSTANTS MaxTurns,   \* bound on the turns sent
          MaxDrives,  \* bound on the drives opened
          MaxChunks,  \* bound on the chunks of a run
          Coalescing, \* emitIntervalMs > 0
          Durable     \* the RunIdStore outlives the page

Turn == 1 .. MaxTurns
Drive == 1 .. MaxDrives
None == 0
Nothing == [run |-> None, upTo |-> 0]   \* no assistant message

ASSUME ClientAssumption ==
  /\ MaxTurns \in Nat \ {0} /\ MaxDrives \in Nat \ {0} /\ MaxChunks \in Nat \ {0}
  /\ Coalescing \in BOOLEAN /\ Durable \in BOOLEAN

VARIABLES status, messages, user, committed, \* the store's fields
          controller, \* the drive of #controller while it is open, or None
          timer,      \* an emission is scheduled
          shown,      \* the snapshot the subscribers were given last
          turns,      \* turns sent so far
          drives,     \* drives opened so far
          drive,      \* drive[d]: an open drive, or Spare
          runId,      \* the RunIdStore
          feed, closed, evicted, \* the runs: chunks, finish sent, unknown
          causes      \* why the turn on screen may not be its whole answer

storeVars  == <<status, messages, user, committed>>
screenVars == <<timer, shown>>
driveVars  == <<controller, drives, drive>>
serverVars == <<feed, closed, evicted>>
vars == <<storeVars, screenVars, driveVars, turns, runId, serverVars, causes>>

Answer == [run : Turn \cup {None}, upTo : 0 .. MaxChunks]
Cause == {"aborted", "unknown", "overlapped", "rejoined"}
Spare == [phase |-> "over", run |-> None, read |-> 0, resumes |-> FALSE, aborted |-> FALSE]

View == [status |-> status, messages |-> messages, user |-> user, committed |-> committed]

TypeOK ==
  /\ status \in {"idle", "streaming", "done", "error"}
  /\ messages \in Answer /\ user \in Turn \cup {None}
  /\ committed \in Seq([turn : Turn, answer : Answer, causes : SUBSET Cause])
  /\ controller \in Drive \cup {None}
  /\ timer \in BOOLEAN /\ DOMAIN shown = DOMAIN View
  /\ turns \in 0 .. MaxTurns /\ drives \in 0 .. MaxDrives
  /\ drive \in [Drive -> [phase : {"opening", "reading", "over"}, run : Turn \cup {None},
                          read : 0 .. MaxChunks, resumes : BOOLEAN, aborted : BOOLEAN]]
  /\ runId \in Turn \cup {None}
  /\ feed \in [Turn -> 0 .. MaxChunks] /\ closed \subseteq Turn /\ evicted \subseteq Turn
  /\ causes \subseteq Cause

Init ==
  /\ status = "idle" /\ messages = Nothing /\ user = None /\ committed = <<>>
  /\ timer = FALSE /\ shown = View
  /\ controller = None /\ drive = [d \in Drive |-> Spare]
  /\ turns = 0 /\ drives = 0 /\ runId = None
  /\ feed = [t \in Turn |-> 0] /\ closed = {} /\ evicted = {}
  /\ causes = {}

(* #emit clears the timer and rebuilds the snapshot; #scheduleEmit leaves a *)
(* timer that is already armed alone.                                       *)
Emit == timer' = FALSE /\ shown' = View'
\* Mutant of ScheduleEmit: a chunk is left for the next emission to show.
ScheduleEmitUnarmed == IF Coalescing THEN UNCHANGED screenVars ELSE Emit

ScheduleEmit == IF Coalescing THEN timer' = TRUE /\ UNCHANGED shown ELSE Emit

EmitTimer ==
  /\ timer
  /\ UNCHANGED <<storeVars, driveVars, turns, runId, serverVars, causes>>
  /\ Emit

(***************************************************************************)
(* The calls of the surface                                                *)
(***************************************************************************)
Open(d) == drive[d].phase # "over"

\* Mutant of Heeded: the drive does not look at its signal.
HeededAlways(d) == Open(d)

Heeded(d) == Open(d) /\ ~drive[d].aborted

(* The drives with the controller aborted, and those still heeded then. *)
Cut == [d \in Drive |-> IF d = controller THEN [drive[d] EXCEPT !.aborted = TRUE] ELSE drive[d]]
Overlapped == IF \E d \in Drive \ {controller} : Heeded(d) THEN {"overlapped"} ELSE {}

\* Mutants: any turn is committed; an aborted turn keeps its status.
CommitsAny == user # None
AfterAbortLeft == status

Commits == status = "done" /\ user # None
AfterAbort == IF status # "streaming" THEN status
              ELSE IF committed # <<>> \/ messages # Nothing THEN "done" ELSE "idle"

Start(others, run, resumes) ==
  /\ drives < MaxDrives
  /\ drives' = drives + 1 /\ controller' = drives + 1
  /\ drive' = [others EXCEPT ![drives + 1] = [phase |-> "opening", run |-> run, read |-> 0,
                                              resumes |-> resumes, aborted |-> FALSE]]

Send ==
  /\ turns < MaxTurns
  /\ committed' = IF Commits
                  THEN Append(committed, [turn |-> user, answer |-> messages, causes |-> causes])
                  ELSE committed
  /\ turns' = turns + 1 /\ user' = turns + 1
  /\ messages' = Nothing /\ status' = "streaming"
  /\ Start(Cut, turns + 1, FALSE)
  /\ causes' = Overlapped
  /\ Emit /\ UNCHANGED <<runId, serverVars>>

(* The earlier controller is dropped, not aborted; the run is the one whose *)
(* id the store holds.                                                      *)
Reconnect ==
  /\ status' = "streaming" /\ UNCHANGED <<messages, user, committed>>
  /\ Start(drive, runId, TRUE)
  /\ causes' = causes \cup {"rejoined"}
               \cup (IF \E d \in Drive : Heeded(d) THEN {"overlapped"} ELSE {})
  /\ Emit /\ UNCHANGED <<turns, runId, serverVars>>

Abort ==
  /\ controller # None
  /\ drive' = Cut /\ controller' = None /\ UNCHANGED drives
  /\ status' = AfterAbort /\ UNCHANGED <<messages, user, committed>>
  /\ causes' = IF status = "streaming" THEN causes \cup {"aborted"} ELSE causes
  /\ IF status = "streaming" THEN Emit ELSE UNCHANGED screenVars
  /\ UNCHANGED <<turns, runId, serverVars>>

Clear ==
  /\ status' = "idle" /\ messages' = Nothing /\ user' = None /\ committed' = <<>>
  /\ controller' = None /\ Emit

Reset ==
  /\ drive' = Cut /\ Clear
  /\ causes' = Overlapped
  /\ UNCHANGED <<turns, drives, runId, serverVars>>

(* A reload of the page: a new client and transport, no drive of the old. *)
Reload ==
  /\ turns > 0
  /\ drive' = [d \in Drive |-> Spare] /\ Clear
  /\ runId' = IF Durable THEN runId ELSE None
  /\ causes' = {}
  /\ UNCHANGED <<turns, drives, serverVars>>

(***************************************************************************)
(* The drives: each step is guarded by the signal of its own controller    *)
(***************************************************************************)
Terminated(d) == drive[d].run \in closed /\ drive[d].read = feed[drive[d].run]
Unknown(d) == drive[d].resumes /\ drive[d].run \in evicted \cup {None}

(* The POST answers with the id of its run, the GET with its stream. *)
Opened(d) ==
  /\ drive[d].phase = "opening" /\ Heeded(d) /\ ~Unknown(d)
  /\ drive' = [drive EXCEPT ![d].phase = "reading"]
  /\ runId' = IF drive[d].resumes THEN runId ELSE drive[d].run
  /\ UNCHANGED <<storeVars, screenVars, controller, drives, turns, serverVars, causes>>

Over(d) ==
  /\ drive' = [drive EXCEPT ![d] = Spare]
  /\ controller' = IF controller = d THEN None ELSE controller
  /\ UNCHANGED <<turns, drives, runId, serverVars>>

Settle(d, s) ==
  /\ Over(d)
  /\ status' = s /\ UNCHANGED <<messages, user, committed>>
  /\ Emit

(* No run id, or a 404: the transport answers null. *)
OpenedNull(d) ==
  /\ drive[d].phase = "opening" /\ Heeded(d) /\ Unknown(d)
  /\ causes' = causes \cup {"unknown"}
  /\ Settle(d, IF messages # Nothing THEN "done" ELSE "idle")

Chunk(d) ==
  /\ drive[d].phase = "reading" /\ Heeded(d)
  /\ drive[d].read < feed[drive[d].run]
  /\ drive' = [drive EXCEPT ![d].read = @ + 1]
  /\ messages' = [run |-> drive[d].run, upTo |-> drive[d].read + 1]
  /\ UNCHANGED <<status, user, committed>>
  /\ ScheduleEmit
  /\ UNCHANGED <<controller, turns, drives, runId, serverVars, causes>>

(* The stream ends: behind its finish chunk, or short of it. *)
StreamEnds(d) ==
  /\ drive[d].phase = "reading" /\ Heeded(d)
  /\ Settle(d, IF Terminated(d) THEN "done" ELSE "error")
  /\ UNCHANGED causes

(* A refused request, a broken connection or an error chunk: it throws. *)
Breaks(d) ==
  /\ Heeded(d) /\ drive[d].run # None
  /\ Settle(d, "error")
  /\ UNCHANGED causes

(* What an aborted drive reads, or is refused, it drops. *)
Discard(d) ==
  /\ Open(d) /\ ~Heeded(d)
  /\ Over(d)
  /\ UNCHANGED <<storeVars, screenVars, causes>>

(***************************************************************************)
(* The server                                                              *)
(***************************************************************************)
Write(t) ==
  /\ t <= turns /\ t \notin closed /\ feed[t] < MaxChunks
  /\ feed' = [feed EXCEPT ![t] = @ + 1]
  /\ UNCHANGED <<closed, evicted>>

Finish(t) ==
  /\ t <= turns /\ t \notin closed
  /\ closed' = closed \cup {t}
  /\ UNCHANGED <<feed, evicted>>

Evict(t) ==
  /\ t \in closed \ evicted
  /\ evicted' = evicted \cup {t}
  /\ UNCHANGED <<feed, closed>>

Server(t) ==
  /\ Write(t) \/ Finish(t) \/ Evict(t)
  /\ UNCHANGED <<storeVars, screenVars, driveVars, turns, runId, causes>>

Next ==
  \/ Send \/ Reconnect \/ Abort \/ Reset \/ Reload \/ EmitTimer
  \/ \E d \in Drive : Opened(d) \/ OpenedNull(d) \/ Chunk(d) \/ StreamEnds(d)
                        \/ Breaks(d) \/ Discard(d)
  \/ \E t \in Turn : Server(t)

Spec == Init /\ [][Next]_vars

(* Requests are answered, streams are read, runs finish and timers fire;  *)
(* nothing need break and nobody need call anything.                      *)
FairSpec ==
  /\ Spec /\ WF_vars(EmitTimer)
  /\ \A d \in Drive : WF_vars(Opened(d) \/ OpenedNull(d) \/ Chunk(d) \/ (Terminated(d) /\ StreamEnds(d)))
  /\ \A t \in Turn : WF_vars(Finish(t) /\ Server(t))

(***************************************************************************)
(* Properties                                                              *)
(***************************************************************************)
Whole(a, t) == t \in closed /\ a.upTo = feed[t] /\ (a.run = t \/ feed[t] = 0)

(* The history holds whole answers: what send() commits is every chunk of a *)
(* run that sent its finish, unless the turn was aborted, its run was no    *)
(* longer known to reconnect(), or an earlier drive was still reading.  The *)
(* second excuse covers a turn that ended in error, too: the 404 makes it   *)
(* 'done' and the next send() commits it (agent-client.ts:375, 414).        *)
CommittedIsWhole ==
  \A i \in DOMAIN committed :
    \/ committed[i].causes \cap {"aborted", "unknown", "overlapped"} # {}
    \/ \E t \in Turn : Whole(committed[i].answer, t)

(* A question keeps its answer: neither on screen nor in the history does a *)
(* turn show chunks of another run, unless reconnect() was called in it or  *)
(* left a drive behind.                                                     *)
AnswersItsQuestion ==
  /\ causes \cap {"rejoined", "overlapped"} = {} => messages.run \in {None, user}
  /\ \A i \in DOMAIN committed :
       \/ committed[i].causes \cap {"rejoined", "overlapped"} # {}
       \/ committed[i].answer.run \in {None, committed[i].turn}

(* What is shown lags behind the store only while a timer is armed to catch *)
(* up, and never in its status, its history or its question.                *)
ScreenCatchesUp ==
  shown # View => timer /\ [shown EXCEPT !.messages = messages] = View

(* The screen is told that a turn is over, however it ended. *)
TurnSettles == shown.status = "streaming" ~> shown.status # "streaming"

(* Refuted: an aborted turn is dropped from the history (agent-client.ts:414). *)
AbortedTurnIsDropped == \A i \in DOMAIN committed : "aborted" \notin committed[i].causes
=============================================================================
