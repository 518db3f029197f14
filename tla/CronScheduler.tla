--------------------------- MODULE CronScheduler ---------------------------
(***************************************************************************)
(* The in-process cron scheduler (cron-runtime-node.ts): one timer, one    *)
(* in-flight flag and one abort controller for each job.  Handlers run     *)
(* detached.  A run of a job is a number; time is a timer that fires.      *)
(***************************************************************************)
EXTENDS Integers

CONSTANTS Job,     \* the definitions
          Forbid,  \* those with concurrency 'forbid'
          MaxRuns  \* bound on the handlers of a job that run at once

Run == 1 .. MaxRuns
NoRun == 0

ASSUME CronAssumption == Forbid \subseteq Job /\ MaxRuns \in Nat \ {0}

VARIABLES started,
          timer,      \* timer[j]: its timer is armed
          inFlight,   \* inFlight[j]: the flag
          controller, \* controller[j]: the run abortController belongs to, or NoRun
          running,    \* running[j]: runs whose handler has not settled
          signalled   \* signalled[j]: those whose signal is aborted

cronVars == <<started, timer, inFlight, controller, running, signalled>>

CronTypeOK ==
  /\ started \in BOOLEAN
  /\ timer \in [Job -> BOOLEAN] /\ inFlight \in [Job -> BOOLEAN]
  /\ controller \in [Job -> Run \cup {NoRun}]
  /\ running \in [Job -> SUBSET Run] /\ signalled \in [Job -> SUBSET Run]

CronInit ==
  /\ started = FALSE
  /\ timer = [j \in Job |-> FALSE] /\ inFlight = [j \in Job |-> FALSE]
  /\ controller = [j \in Job |-> NoRun]
  /\ running = [j \in Job |-> {}] /\ signalled = [j \in Job |-> {}]

CronStart ==
  /\ ~started /\ started' = TRUE
  /\ timer' = [j \in Job |-> TRUE]
  /\ UNCHANGED <<inFlight, controller, running, signalled>>

(* stop() clears the timers and aborts the run each controller belongs to;  *)
(* the flags are left to the handlers.                                      *)
CronStop ==
  /\ started' = FALSE
  /\ timer' = [j \in Job |-> FALSE]
  /\ signalled' = [j \in Job |-> signalled[j] \cup (running[j] \cap {controller[j]})]
  /\ controller' = [j \in Job |-> NoRun]
  /\ UNCHANGED <<inFlight, running>>

\* Mutant of Skips: a job that allows overlaps is the one that skips.
SkipsAllowed(j) == inFlight[j] /\ j \notin Forbid

Skips(j) == inFlight[j] /\ j \in Forbid

(* A tick starts a handler, or skips, and arms the next one. *)
Fire(j) ==
  /\ timer[j]
  /\ timer' = [timer EXCEPT ![j] = started] /\ UNCHANGED started
  /\ IF Skips(j)
     THEN UNCHANGED <<inFlight, controller, running, signalled>>
     ELSE \E r \in Run \ running[j] :
            /\ \A s \in Run \ running[j] : r <= s \* a run is named by the least free number
            /\ inFlight' = [inFlight EXCEPT ![j] = TRUE]
            /\ controller' = [controller EXCEPT ![j] = r]
            /\ running' = [running EXCEPT ![j] = @ \cup {r}]
            /\ UNCHANGED signalled

(* A handler settles; its finally clears the flag of the job. *)
HandlerSettles(j, r) ==
  /\ r \in running[j]
  /\ running' = [running EXCEPT ![j] = @ \ {r}]
  /\ signalled' = [signalled EXCEPT ![j] = @ \ {r}]
  /\ controller' = [controller EXCEPT ![j] = IF @ = r THEN NoRun ELSE @]
  /\ inFlight' = [inFlight EXCEPT ![j] = FALSE]
  /\ UNCHANGED <<started, timer>>

CronNext ==
  \/ CronStart \/ CronStop
  \/ \E j \in Job : Fire(j) \/ \E r \in Run : HandlerSettles(j, r)

CronSpec == CronInit /\ [][CronNext]_cronVars

(***************************************************************************)
(* Properties                                                              *)
(***************************************************************************)
(* Handlers of a job that forbids overlaps never overlap, whatever ticks    *)
(* are skipped while one outlives its period.                               *)
ForbidNeverOverlaps == \A j \in Forbid : \A r, s \in running[j] : r = s

(* When the scheduler is stopped, every such handler still running has had  *)
(* its signal aborted.                                                      *)
StoppedIsSignalled == ~started => \A j \in Forbid : running[j] \subseteq signalled[j]
=============================================================================
