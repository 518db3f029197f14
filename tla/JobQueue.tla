------------------------------- MODULE JobQueue -------------------------------
(***************************************************************************)
(* Background jobs: the per-request outbox that holds what a handler       *)
(* enqueues until its response is committed (outbox.ts, queue-client.ts,   *)
(* wired in http/execute.ts), the in-memory backend (job-backend-memory.ts)*)
(* and the runner that leases jobs and calls their handlers                *)
(* (job-runner.ts).  Workers are tick() loops; time is a lease or a        *)
(* deduplication window that is over at some moment.                       *)
(***************************************************************************)
EXTENDS Integers, FiniteSets, Sequences

CONSTANTS Job,        \* jobs asked for
          Request,    \* requests whose handlers ask for them
          Direct,     \* asked of the backend itself, past any outbox
          Via,        \* Via[j]: the request that asks for j, or Direct
          Key,        \* Key[j]: its idempotency key, or NoKey
          NoKey,
          Declared,   \* Declared[j]: maxAttempts of its definition
          Later,      \* jobs asked for with delaySeconds
          Unfit,      \* jobs with no definition, or whose input is invalid
          Worker,     \* concurrent tick() loops
          MaxPending, \* capacity of the backend
          BatchSize,
          MaxLeases,  \* bound on the leases of a job
          NoJob, NoLease

Keys == {Key[j] : j \in Job} \ {NoKey}
Lease == Job \X (1 .. MaxLeases)

ASSUME JobAssumption ==
  /\ IsFiniteSet(Job)
  /\ Direct \notin Request /\ Via \in [Job -> Request \cup {Direct}]
  /\ Declared \in [Job -> Nat \ {0}]
  /\ Unfit \subseteq Job /\ Later \subseteq Job
  /\ MaxPending \in Nat \ {0} /\ BatchSize \in Nat \ {0} /\ MaxLeases \in Nat \ {0}
  /\ NoJob \notin Job /\ NoLease \notin Lease
  /\ DOMAIN Key = Job

VARIABLES response, \* response[r]: "open", "ok", "error" or "closed"
          outbox,   \* outbox[r]: entries not dispatched, in order
          flushing, \* flushing[r]: entries being dispatched, in order
          pending,  \* the jobs the backend holds
          place,    \* place[j]: when j was inserted, 0 if never
          idem,     \* idem[k]: the job of an open deduplication window
          attempts, \* attempts[j]: leases of j so far
          locked,   \* jobs whose lockExpiresAt is set
          delayed,  \* pending jobs not available yet
          over,     \* leases not settled whose time is over
          leases,   \* leases[w]: leases of the tick not started yet
          running,  \* running[w]: the lease whose handler runs
          answer,   \* answer[j]: the job id answered for j, or NoJob
          fate      \* fate[j]: what became of j and its attempts

requestVars == <<response, outbox, flushing>>
storeVars   == <<pending, place, idem, attempts, locked, delayed>>
workerVars  == <<over, leases, running>>
vars == <<requestVars, storeVars, workerVars, answer, fate>>

Fates == {"called", "succeeded", "failed", "fatal", "evicted"}

TypeOK ==
  /\ response \in [Request -> {"open", "ok", "error", "closed"}]
  /\ outbox \in [Request -> Seq(Job)] /\ flushing \in [Request -> Seq(Job)]
  /\ pending \in SUBSET Job
  /\ place \in [Job -> Nat]
  /\ idem \in [Keys -> Job \cup {NoJob}]
  /\ attempts \in [Job -> 0 .. MaxLeases]
  /\ locked \in SUBSET Job /\ delayed \in SUBSET Job
  /\ over \in SUBSET Lease
  /\ leases \in [Worker -> SUBSET Lease]
  /\ running \in [Worker -> Lease \cup {NoLease}]
  /\ answer \in [Job -> Job \cup {NoJob}]
  /\ fate \in [Job -> SUBSET Fates]

Init ==
  /\ response = [r \in Request |-> "open"]
  /\ outbox = [r \in Request |-> <<>>] /\ flushing = [r \in Request |-> <<>>]
  /\ pending = {} /\ locked = {} /\ delayed = {}
  /\ place = [j \in Job |-> 0]
  /\ idem = [k \in Keys |-> NoJob]
  /\ attempts = [j \in Job |-> 0]
  /\ over = {}
  /\ leases = [w \in Worker |-> {}]
  /\ running = [w \in Worker |-> NoLease]
  /\ answer = [j \in Job |-> NoJob]
  /\ fate = [j \in Job |-> {}]

-----------------------------------------------------------------------------
(* The request and its outbox *)

Unasked(j) ==
  /\ answer[j] = NoJob
  /\ \A r \in Request : \A q \in {outbox[r], flushing[r]} :
       \A i \in 1 .. Len(q) : q[i] # j

(* ctx.queue.enqueue: buffered, even if the response is already gone. *)
Push(r, j) ==
  /\ Via[j] = r /\ Unasked(j) /\ response[r] \in {"open", "ok"}
  /\ outbox' = [outbox EXCEPT ![r] = Append(@, j)]
  /\ UNCHANGED <<response, flushing, storeVars, workerVars, answer, fate>>

\* Mutant of Commits: the status code is not looked at.
CommitsAny(code) == code # "closed"

Commits(code) == code = "ok"

(* The response finishes with its status ('finish'), or its connection is  *)
(* lost before ('close'): the outbox is taken for dispatch, or discarded.  *)
Respond(r, code) ==
  /\ response[r] = "open"
  /\ response' = [response EXCEPT ![r] = code]
  /\ flushing' = [flushing EXCEPT ![r] = IF Commits(code) THEN outbox[r] ELSE <<>>]
  /\ outbox' = [outbox EXCEPT ![r] = <<>>]
  /\ UNCHANGED <<storeVars, workerVars, answer, fate>>

-----------------------------------------------------------------------------
(* The backend *)

(* Insertion order. *)
Oldest(S) == CHOOSE j \in S : \A i \in S : place[j] <= place[i]
Newest == Cardinality({j \in Job : place[j] > 0})

Full == Cardinality(pending) >= MaxPending

(* What an overflow drops: the oldest entry, whoever runs it, and even if  *)
(* the new one turns out to be a duplicate.                                *)
Overflow == IF Full THEN {Oldest(pending)} ELSE {}

Duplicate(j) == Key[j] # NoKey /\ idem[Key[j]] # NoJob

JobId(j) == IF Duplicate(j) THEN idem[Key[j]] ELSE j

(* enqueue() *)
Enqueue(j) ==
  LET dropped == Overflow
      new == IF Duplicate(j) THEN {} ELSE {j}
  IN  /\ pending' = (pending \ dropped) \cup new
      /\ locked' = locked \ dropped
      /\ delayed' = (delayed \ dropped) \cup (new \cap Later)
      /\ place' = IF Duplicate(j) THEN place ELSE [place EXCEPT ![j] = Newest + 1]
      /\ idem' = IF Key[j] = NoKey \/ Duplicate(j) THEN idem
                 ELSE [idem EXCEPT ![Key[j]] = j]
      /\ answer' = [answer EXCEPT ![j] = JobId(j)]
      /\ fate' = [i \in Job |-> IF i \in dropped THEN fate[i] \cup {"evicted"} ELSE fate[i]]
      /\ UNCHANGED <<attempts, workerVars>>

(* outbox.flush(): one entry after another, each awaited. *)
Dispatch(r) ==
  /\ flushing[r] # <<>>
  /\ flushing' = [flushing EXCEPT ![r] = Tail(@)]
  /\ Enqueue(Head(flushing[r]))
  /\ UNCHANGED <<response, outbox>>

(* A caller of the backend's own enqueue(). *)
EnqueueDirect(j) ==
  /\ Via[j] = Direct /\ Unasked(j)
  /\ Enqueue(j)
  /\ UNCHANGED requestVars

(* The maxAttempts of an entry: a caller of the backend may give one, the  *)
(* queue client gives none, and enqueue() takes 1.                         *)
MaxAttempts(j) == IF Via[j] = Direct THEN Declared[j] ELSE 1

DelayOver(j) ==
  /\ j \in delayed
  /\ delayed' = delayed \ {j}
  /\ UNCHANGED <<requestVars, pending, place, idem, attempts, locked, workerVars,
                 answer, fate>>

(* Sixty seconds after it opened, whatever became of the job. *)
WindowOver(k) ==
  /\ idem[k] # NoJob
  /\ idem' = [idem EXCEPT ![k] = NoJob]
  /\ UNCHANGED <<requestVars, pending, place, attempts, locked, delayed, workerVars,
                 answer, fate>>

\* Mutant of Lockable: dequeue() does not look at the lock.
LockableAlways(j) == TRUE

(* Unlocked, or locked by a lease whose time is over. *)
Lockable(j) == j \in locked => <<j, attempts[j]>> \in over

Eligible == {j \in pending \ delayed : Lockable(j)}

(* The first eligible entries in insertion order, up to the batch size. *)
Batches ==
  {B \in SUBSET Eligible :
     /\ Cardinality(B) <= BatchSize
     /\ Cardinality(B) = BatchSize \/ B = Eligible
     /\ \A i \in B, j \in Eligible \ B : place[i] < place[j]}

(* ack(): by job id, whoever holds the lease now. *)
Ack(j) ==
  /\ pending' = pending \ {j}
  /\ locked' = locked \ {j}
  /\ delayed' = delayed \ {j}
  /\ UNCHANGED <<place, idem, attempts>>

\* Mutant of Exhausted: the attempt that just failed is not counted.
ExhaustedEarly(j) == attempts[j] + 1 >= MaxAttempts(j)

Exhausted(j) == attempts[j] >= MaxAttempts(j)

(* nack(): an entry that may be retried only loses its lock. *)
Nack(j, nonRetryable) ==
  /\ pending' = IF nonRetryable \/ Exhausted(j) THEN pending \ {j} ELSE pending
  /\ delayed' = delayed \cap pending'
  /\ locked' = locked \ {j}
  /\ UNCHANGED <<place, idem, attempts>>

-----------------------------------------------------------------------------
(* The runner *)

(* entry.attempts += 1 *)
Bumped(j) == attempts[j] + 1

(* tick(): lease a batch, then one lease after another. *)
Tick(w) ==
  /\ leases[w] = {} /\ running[w] = NoLease
  /\ \E B \in Batches :
       /\ B # {} /\ \A j \in B : attempts[j] < MaxLeases
       /\ attempts' = [j \in Job |-> IF j \in B THEN Bumped(j) ELSE attempts[j]]
       /\ locked' = locked \cup B
       /\ leases' = [leases EXCEPT ![w] = {<<j, Bumped(j)>> : j \in B}]
  /\ UNCHANGED <<requestVars, pending, place, idem, delayed, over, running,
                 answer, fate>>

(* The lease of the tick that comes next. *)
NextLease(w) == CHOOSE l \in leases[w] : \A m \in leases[w] : place[l[1]] <= place[m[1]]

\* Mutant of Rest: the tick gives up behind a job it cannot run.
RestNone(w) == IF NextLease(w)[1] \in Unfit THEN {} ELSE leases[w] \ {NextLease(w)}

Rest(w) == leases[w] \ {NextLease(w)}

(* runOne() of a job this runner cannot run: nack for good. *)
Refuse(w) ==
  /\ leases[w] # {} /\ running[w] = NoLease
  /\ NextLease(w)[1] \in Unfit
  /\ leases' = [leases EXCEPT ![w] = Rest(w)]
  /\ over' = over \ {NextLease(w)}
  /\ Nack(NextLease(w)[1], TRUE)
  /\ fate' = [fate EXCEPT ![NextLease(w)[1]] = @ \cup {"fatal"}]
  /\ UNCHANGED <<requestVars, running, answer>>

(* runOne() calls the handler, even if the lease is already over: then its *)
(* abort timer fires at once.                                              *)
Begin(w) ==
  /\ leases[w] # {} /\ running[w] = NoLease
  /\ NextLease(w)[1] \notin Unfit
  /\ leases' = [leases EXCEPT ![w] = Rest(w)]
  /\ running' = [running EXCEPT ![w] = NextLease(w)]
  /\ fate' = [fate EXCEPT ![NextLease(w)[1]] = @ \cup {"called"}]
  /\ UNCHANGED <<requestVars, storeVars, over, answer>>

(* The handler returns: ack.  It throws: nack, for good if it threw a      *)
(* NonRetryableError.                                                      *)
Finish(w, outcome) ==
  LET j == running[w][1]
  IN  /\ running[w] # NoLease
      /\ running' = [running EXCEPT ![w] = NoLease]
      /\ fate' = [fate EXCEPT ![j] = @ \cup {outcome}]
      /\ over' = over \ {running[w]}
      /\ IF outcome = "succeeded" THEN Ack(j) ELSE Nack(j, outcome = "fatal")
      /\ UNCHANGED <<requestVars, leases, answer>>

(* The clock passes the end of a lease. *)
LeaseOver(l) ==
  /\ l \notin over
  /\ \E w \in Worker : l \in leases[w] \cup {running[w]}
  /\ over' = over \cup {l}
  /\ UNCHANGED <<requestVars, storeVars, leases, running, answer, fate>>

(* One step of a worker: its tick, or what comes next in it. *)
Work(w) ==
  \/ Tick(w) \/ Refuse(w) \/ Begin(w)
  \/ \E outcome \in {"succeeded", "failed", "fatal"} : Finish(w, outcome)

-----------------------------------------------------------------------------
Next ==
  \/ \E r \in Request :
       \/ \E j \in Job : Push(r, j)
       \/ \E code \in {"ok", "error", "closed"} : Respond(r, code)
       \/ Dispatch(r)
  \/ \E j \in Job : DelayOver(j) \/ EnqueueDirect(j)
  \/ \E k \in Keys : WindowOver(k)
  \/ \E w \in Worker : Work(w)
  \/ \E l \in Lease : LeaseOver(l)

Spec == Init /\ [][Next]_vars

(* Fair: a flush goes on, a delay passes, the application calls tick() in  *)
(* a loop, and handlers return.                                            *)
FairSpec ==
  /\ Spec
  /\ \A r \in Request : WF_vars(Dispatch(r))
  /\ \A j \in Later : WF_vars(DelayOver(j))
  /\ \A w \in Worker : WF_vars(Work(w))

-----------------------------------------------------------------------------
(* What the queue promises *)

(* "Outbox NEVER dispatches before commit": a job asked for by a request   *)
(* reaches the backend, or a worker, only behind a successful response.    *)
CommitFirst ==
  \A j \in Job : answer[j] # NoJob /\ Via[j] # Direct => response[Via[j]] = "ok"

(* A job the backend took and holds no longer ran to its end, cannot run,  *)
(* used up its attempts, or was dropped at the queue's limit: none is lost *)
(* between two workers, a late ack and an overflow.                        *)
GoneForAReason ==
  \A j \in Job : place[j] > 0 /\ j \notin pending =>
    \/ fate[j] \cap {"succeeded", "fatal", "evicted"} # {}
    \/ "failed" \in fate[j] /\ attempts[j] >= MaxAttempts(j)

(* Two workers run a job at once only if the first one's lease is over, or *)
(* the job was given back by an attempt that failed.                       *)
OverlapHasCause ==
  \A v, w \in Worker :
    LET l == running[v]
        m == running[w]
    IN  l # NoLease /\ m # NoLease /\ l[1] = m[1] /\ l[2] < m[2] =>
          l \in over \/ "failed" \in fate[l[1]]

(* Refuted: "maxAttempts ... read from JobDefinition by the queue client",  *)
(* so a job is tried as often as its definition says before it is given up. *)
RetriesAsDeclared ==
  \A j \in Job : fate[j] = {"called", "failed"} /\ j \notin pending => attempts[j] >= Declared[j]

(* A job that was accepted is called, refused or dropped. *)
EveryJobIsTried ==
  \A j \in Job : j \in pending ~> fate[j] \cap {"called", "fatal", "evicted"} # {}
=============================================================================
