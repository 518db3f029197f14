--------------------------- MODULE ServerProcess ---------------------------
(***************************************************************************)
(* The process of `theokit start` (cli/commands/start): it starts the cron  *)
(* scheduler, refuses to listen or listens, serves requests, and on a       *)
(* signal drains what the storage manager holds and exits                   *)
(* (graceful-shutdown.ts, storage-manager.ts).  Handlers of requests and of *)
(* crons open pools meanwhile.  Nothing stops the scheduler.                *)
(***************************************************************************)
EXTENDS RequestPipeline, CronScheduler

CONSTANTS Pool

VARIABLES phase,    \* where boot or shutdown stands
          disposed, \* StorageManager.#disposed
          pools,    \* #dbPools
          open,     \* pools that hold connections
          unended   \* pools the drain did not end

processVars == <<phase, disposed, pools, open, unended>>
poolVars == <<disposed, pools, open, unended>>
vars == <<pipelineVars, cronVars, processVars>>

Phases == {"boot", "listening", "refused", "evicting", "draining", "ending", "flushing",
           "waiting", "hung", "exited"}

TypeOK ==
  /\ PipelineTypeOK /\ CronTypeOK
  /\ phase \in Phases /\ disposed \in BOOLEAN
  /\ pools \subseteq Pool /\ open \subseteq Pool /\ unended \subseteq Pool

Init ==
  /\ PipelineInit /\ CronInit
  /\ phase = "boot" /\ disposed = FALSE
  /\ pools = {} /\ open = {} /\ unended = {}

(***************************************************************************)
(* Boot                                                                    *)
(***************************************************************************)
(* The scheduler is started first, when the build left definitions. *)
Boot ==
  /\ phase = "boot" /\ phase' \in {"listening", "refused"}
  /\ CronStart \/ UNCHANGED cronVars
  /\ UNCHANGED <<pipelineVars, poolVars>>

(* A refused start returns; the process ends when nothing keeps it alive.   *)
RunsDry ==
  /\ phase = "refused" /\ \A j \in Job : ~timer[j] /\ running[j] = {}
  /\ phase' = "exited"
  /\ UNCHANGED <<pipelineVars, cronVars, poolVars>>

(***************************************************************************)
(* Requests and crons, and the pools they open                             *)
(***************************************************************************)
(* Connections are accepted until server.close(). *)
Accept(r) ==
  /\ phase \notin {"boot", "refused", "waiting", "exited"}
  /\ Arrive(r)
  /\ UNCHANGED <<cronVars, processVars>>

(* usePostgres opens a pool, hands out the one there is, or throws. *)
UsePostgres(p) ==
  /\ ~disposed
  /\ pools' = pools \cup {p} /\ open' = open \cup ({p} \ pools)
  /\ UNCHANGED <<phase, disposed, unended>>

ServeRequest(r) ==
  /\ phase # "exited"
  /\ Stage(r) \/ \E result \in {"value", "stream", "throws"} : Handle(r, result)
  /\ UNCHANGED <<cronVars, processVars>>

RequestUsesPool(r, p) ==
  /\ phase # "exited" /\ stage[r] = "handler"
  /\ \/ UsePostgres(p) /\ UNCHANGED pipelineVars
     \/ disposed /\ Handle(r, "throws") /\ UNCHANGED processVars
  /\ UNCHANGED cronVars

CronStep(j) ==
  /\ phase # "exited"
  /\ Fire(j) \/ \E n \in Run : HandlerSettles(j, n)
  /\ UNCHANGED <<pipelineVars, processVars>>

CronUsesPool(j, p) ==
  /\ phase # "exited"
  /\ \E n \in running[j] : \/ UsePostgres(p) /\ UNCHANGED cronVars
                           \/ disposed /\ HandlerSettles(j, n) /\ UNCHANGED processVars
  /\ UNCHANGED pipelineVars

(***************************************************************************)
(* Graceful shutdown                                                       *)
(***************************************************************************)
outside == <<pipelineVars, cronVars>>

(* The first signal starts it; later ones are ignored. *)
Signal ==
  /\ phase = "listening" /\ phase' = "evicting"
  /\ UNCHANGED <<outside, poolVars>>

\* Mutant: nothing refuses a new pool once the drain has begun.
DisposesLate == UNCHANGED disposed

Disposes == disposed' = TRUE

(* The agents are evicted; dispose() begins and drains the adapters. *)
Evicted ==
  /\ phase = "evicting" /\ phase' = "draining" /\ Disposes
  /\ UNCHANGED <<outside, pools, open, unended>>

(* The pools of that moment are asked to end; what an end() rejects with is *)
(* logged, and its pool stays as it is.                                     *)
AdaptersDrained ==
  /\ phase = "draining" /\ phase' = "ending"
  /\ \E failed \in SUBSET pools :
       open' = (open \ pools) \cup (open \cap failed) /\ unended' = failed
  /\ UNCHANGED <<outside, disposed, pools>>

(* The dispose of an adapter throws, not rejects: dispose() rejects, which  *)
(* the shutdown logs, and no pool is ended.                                 *)
DisposeThrows ==
  /\ phase = "draining" /\ phase' = "flushing"
  /\ unended' = pools
  /\ UNCHANGED <<outside, disposed, pools, open>>

PoolsEnded ==
  /\ phase = "ending" /\ phase' = "flushing" /\ pools' = {}
  /\ UNCHANGED <<outside, disposed, open, unended>>

(* Telemetry is flushed; then the server closes and the timer is armed. *)
Flushed ==
  /\ phase = "flushing" /\ phase' = "waiting"
  /\ UNCHANGED <<outside, poolVars>>

(* Nothing bounds the eviction, an adapter's dispose, the end of a pool one *)
(* of whose clients a request holds, or the flush.                          *)
Hang ==
  /\ phase \in {"evicting", "draining", "ending", "flushing"} /\ phase' = "hung"
  /\ UNCHANGED <<outside, poolVars>>

\* Mutant: no timer is armed.
TimerArmedNever == FALSE

TimerArmed == phase = "waiting"

(* server.close calls back when the last request is over, or 25 s pass. *)
Exit ==
  /\ phase = "waiting" /\ (TimerArmed \/ \A r \in Request : ~InFlight(r))
  /\ phase' = "exited"
  /\ UNCHANGED <<outside, poolVars>>

Drains == Evicted \/ AdaptersDrained \/ DisposeThrows \/ PoolsEnded \/ Flushed

Next ==
  \/ Boot \/ RunsDry
  \/ \E r \in Request : Accept(r) \/ ServeRequest(r) \/ \E p \in Pool : RequestUsesPool(r, p)
  \/ \E j \in Job : CronStep(j) \/ \E p \in Pool : CronUsesPool(j, p)
  \/ Signal \/ Drains \/ Hang \/ Exit

Spec == Init /\ [][Next]_vars

(* An await of the shutdown comes back unless it hangs, and the armed timer *)
(* goes off.  Requests may hang and a body may never end.                   *)
FairSpec == Spec /\ WF_vars(Drains) /\ WF_vars(Exit)

(* A process whose crons step on, and which ends when nothing is left. *)
StartSpec == Spec /\ WF_vars(RunsDry) /\ \A j \in Job : WF_vars(CronStep(j))

(***************************************************************************)
(* Properties                                                              *)
(***************************************************************************)
(* Once the storage manager has drained, the pools that are open are those  *)
(* its drain failed to end: none opens behind it, though handlers of        *)
(* requests and of crons go on until the exit.                              *)
NoPoolLeaks == phase \in {"flushing", "waiting", "exited"} => open \subseteq unended

(* A signalled process exits, whatever its requests do, when everything the *)
(* shutdown awaits in front of its timer comes back.                        *)
ShutdownExits == phase = "evicting" ~> phase \in {"exited", "hung"}

(* Refuted: the whole shutdown is wrapped in a timer that forces the exit   *)
(* (storage-manager.ts:153).  It is armed behind the awaits, any of which   *)
(* may hang (graceful-shutdown.ts:74).                                      *)
ShutdownIsBounded == phase = "evicting" ~> phase = "exited"

(* Refuted: a start that is refused ends the process, with its exit code    *)
(* (start/index.ts:214, "an orchestrator restarting this container must see *)
(* a failure").  The scheduler started before it keeps the process alive.   *)
RefusedStartExits == phase = "refused" ~> phase = "exited"
=============================================================================
