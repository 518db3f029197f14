----------------------------- MODULE PostgresJobs -----------------------------
(***************************************************************************)
(* The Postgres job backend (job-backend-postgres.ts) under concurrent     *)
(* enqueuers and workers.  Every query runs on the pool in a transaction   *)
(* of its own, so the row locks of a SELECT FOR UPDATE SKIP LOCKED are     *)
(* gone when it returns, and other sessions run between the two statements *)
(* of enqueue(), dequeue() and nack().  The UNIQUE index rejects a second  *)
(* row of a key.                                                           *)
(***************************************************************************)
EXTENDS Integers, FiniteSets

CONSTANTS Job,      \* ids of the rows callers try to insert
          Key,      \* Key[j]: its (name, idempotency_key), or NoKey
          NoKey,
          MaxTries, \* MaxTries[j]: max_attempts
          Worker,
          MaxLeases,\* bound on the leases of a job
          NoJob

VARIABLES caller,   \* caller[j]: "idle", "selected", then "inserted", "found" or "failed"
          rows,     \* the rows of the table
          locked,   \* rows whose locked_until is set
          over,     \* locked rows whose locked_until is in the past
          attempts, \* attempts[j]
          worker,   \* worker[w]: "idle", "selected", "running", "nacking"
          job,      \* job[w]: the row worker w is at, or NoJob
          lapsed,   \* workers whose lease is over
          giveUp    \* giveUp[w]: what the nack of w read: no attempt is left

vars == <<caller, rows, locked, over, attempts, worker, job, lapsed, giveUp>>

TypeOK ==
  /\ caller \in [Job -> {"idle", "selected", "inserted", "found", "failed"}]
  /\ rows \in SUBSET Job /\ locked \in SUBSET Job /\ over \in SUBSET Job
  /\ attempts \in [Job -> 0 .. MaxLeases]
  /\ worker \in [Worker -> {"idle", "selected", "running", "nacking"}]
  /\ job \in [Worker -> Job \cup {NoJob}]
  /\ lapsed \in SUBSET Worker
  /\ giveUp \in [Worker -> BOOLEAN]

Init ==
  /\ caller = [j \in Job |-> "idle"]
  /\ rows = {} /\ locked = {} /\ over = {} /\ lapsed = {}
  /\ attempts = [j \in Job |-> 0]
  /\ worker = [w \in Worker |-> "idle"]
  /\ job = [w \in Worker |-> NoJob]
  /\ giveUp = [w \in Worker |-> FALSE]

workerVars == <<worker, job, lapsed, giveUp>>

-----------------------------------------------------------------------------
(* enqueue() *)

Taken(j) == Key[j] # NoKey /\ \E i \in rows : Key[i] = Key[j]

SelectKey(j) ==
  /\ caller[j] = "idle"
  /\ caller' = [caller EXCEPT ![j] = IF Taken(j) THEN "found" ELSE "selected"]
  /\ UNCHANGED <<rows, locked, over, attempts, workerVars>>

(* The INSERT, or the error of the unique index, which nobody catches. *)
Insert(j) ==
  /\ caller[j] = "selected"
  /\ caller' = [caller EXCEPT ![j] = IF Taken(j) THEN "failed" ELSE "inserted"]
  /\ rows' = IF Taken(j) THEN rows ELSE rows \cup {j}
  /\ UNCHANGED <<locked, over, attempts, workerVars>>

-----------------------------------------------------------------------------
(* dequeue(), one row at a time *)

Claimable == {j \in rows : j \in locked => j \in over}

SelectRow(w) ==
  /\ worker[w] = "idle"
  /\ \E j \in Claimable : job' = [job EXCEPT ![w] = j]
  /\ worker' = [worker EXCEPT ![w] = "selected"]
  /\ UNCHANGED <<caller, rows, locked, over, attempts, lapsed, giveUp>>

(* The UPDATE goes by id alone; a row deleted meanwhile is not returned. *)
LockRow(w) ==
  LET j == job[w]
  IN  /\ worker[w] = "selected"
      /\ IF j \in rows
         THEN /\ attempts[j] < MaxLeases
              /\ attempts' = [attempts EXCEPT ![j] = @ + 1]
              /\ locked' = locked \cup {j} /\ over' = over \ {j}
              /\ worker' = [worker EXCEPT ![w] = "running"]
              /\ UNCHANGED job
         ELSE /\ worker' = [worker EXCEPT ![w] = "idle"]
              /\ job' = [job EXCEPT ![w] = NoJob]
              /\ UNCHANGED <<attempts, locked, over>>
      /\ UNCHANGED <<caller, rows, lapsed, giveUp>>

(* A lease ends; the row's lock ends with the last lease taken on it. *)
LeaseOver(w) ==
  /\ worker[w] = "running" /\ w \notin lapsed
  /\ lapsed' = lapsed \cup {w}
  /\ over' = IF \A v \in Worker \ {w} : worker[v] = "running" /\ job[v] = job[w] => v \in lapsed
             THEN over \cup ({job[w]} \cap locked) ELSE over
  /\ UNCHANGED <<caller, rows, locked, attempts, worker, job, giveUp>>

-----------------------------------------------------------------------------
(* ack() and nack(), by id *)

Release(w) ==
  /\ worker' = [worker EXCEPT ![w] = "idle"]
  /\ job' = [job EXCEPT ![w] = NoJob]
  /\ lapsed' = lapsed \ {w}

DeleteRow(w) ==
  /\ rows' = rows \ {job[w]} /\ locked' = locked \ {job[w]} /\ over' = over \ {job[w]}

(* The handler returned, or threw for good. *)
Settle(w) ==
  /\ worker[w] = "running"
  /\ DeleteRow(w) /\ Release(w)
  /\ UNCHANGED <<caller, attempts, giveUp>>

(* The handler threw: nack() reads the attempts, unless the row is gone. *)
SelectAttempts(w) ==
  /\ worker[w] = "running"
  /\ IF job[w] \in rows
     THEN /\ worker' = [worker EXCEPT ![w] = "nacking"]
          /\ giveUp' = [giveUp EXCEPT ![w] = attempts[job[w]] >= MaxTries[job[w]]]
          /\ UNCHANGED <<job, lapsed>>
     ELSE Release(w) /\ UNCHANGED giveUp
  /\ UNCHANGED <<caller, rows, locked, over, attempts>>

Nack(w) ==
  /\ worker[w] = "nacking"
  /\ IF giveUp[w] THEN DeleteRow(w)
     ELSE locked' = locked \ {job[w]} /\ over' = over \ {job[w]} /\ UNCHANGED rows
  /\ Release(w)
  /\ UNCHANGED <<caller, attempts, giveUp>>

-----------------------------------------------------------------------------
Next ==
  \/ \E j \in Job : SelectKey(j) \/ Insert(j)
  \/ \E w \in Worker : \/ SelectRow(w) \/ LockRow(w) \/ LeaseOver(w)
                       \/ Settle(w) \/ SelectAttempts(w) \/ Nack(w)

Spec == Init /\ [][Next]_vars

-----------------------------------------------------------------------------
(* "Concurrent workers never race for the same job": no two workers run a  *)
(* job at once, each within its lease.                                     *)
NeverRace ==
  \A v, w \in Worker : v # w /\ worker[v] = "running" /\ worker[w] = "running" =>
    job[v] # job[w] \/ v \in lapsed \/ w \in lapsed

(* The unique index holds whatever the race of two callers: a key has one  *)
(* row, and the caller that lost is told.                                  *)
OneRowPerKey ==
  \A i, j \in rows : i # j => Key[i] # Key[j] \/ Key[i] = NoKey
=============================================================================
