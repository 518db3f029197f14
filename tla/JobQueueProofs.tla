--------------------------- MODULE JobQueueProofs ---------------------------
(***************************************************************************)
(* Proofs about the background jobs, for any number of requests, jobs and  *)
(* workers, any capacity and batch size, and any moments at which leases,  *)
(* delays and windows are over.                                            *)
(***************************************************************************)
EXTENDS JobQueue, FiniteSetTheorems, SequenceTheorems, TLAPS

(* What waits in an outbox or in a flush was asked for by that request, once, *)
(* and has no answer; and only a committed request has a flush.               *)
OutboxInv ==
  \A r \in Request :
    /\ \A q \in {outbox[r], flushing[r]} : \A i \in 1 .. Len(q) :
         /\ Via[q[i]] = r /\ answer[q[i]] = NoJob
         /\ \A k \in 1 .. Len(q) : q[i] = q[k] => i = k
    /\ \A i \in 1 .. Len(outbox[r]), k \in 1 .. Len(flushing[r]) : outbox[r][i] # flushing[r][k]
    /\ flushing[r] # <<>> => response[r] = "ok"

(* The leases a worker has to settle. *)
Held(w) == {l \in Lease : l \in leases[w] \/ l = running[w]}

Failed(j) == "failed" \in fate[j]

(* A lease is held by one worker, is of an answered job, and unless its time *)
(* is over, an attempt has failed or the job is gone, it is the latest lease *)
(* of the job and locks it.                                                  *)
LeaseInv ==
  /\ \A v, w \in Worker : v # w => Held(v) \cap Held(w) = {}
  /\ \A w \in Worker : running[w] \notin leases[w]
  /\ \A w \in Worker : \A l \in Held(w) :
       /\ l[2] <= attempts[l[1]] /\ answer[l[1]] # NoJob
       /\ \/ l \in over \/ Failed(l[1]) \/ l[1] \notin pending
          \/ l[2] = attempts[l[1]] /\ l[1] \in locked

(* Of two leases of a job that are held, the earlier is over or one failed. *)
OverlapInv ==
  \A v, w \in Worker : \A l \in Held(v), m \in Held(w) :
    l[1] = m[1] /\ l[2] < m[2] => l \in over \/ Failed(l[1])

Answered == \A j \in pending : answer[j] # NoJob

IInv == TypeOK /\ OutboxInv /\ CommitFirst /\ Answered /\ LeaseInv /\ OverlapInv /\ GoneForAReason

LEMMA InitInv == Init => IInv
  BY JobAssumption
  DEF Init, IInv, TypeOK, OutboxInv, CommitFirst, Answered, LeaseInv, OverlapInv, GoneForAReason,
      Held, Lease, Keys

(***************************************************************************)
(* Requests: what waits, and what is answered                              *)
(***************************************************************************)
(* The part of the invariant that no step of a request disturbs. *)
StoreInv == Answered /\ LeaseInv /\ OverlapInv /\ GoneForAReason

LEMMA StoreUnchanged ==
  ASSUME StoreInv, UNCHANGED <<storeVars, workerVars, answer, fate>> PROVE StoreInv'
  BY DEF StoreInv, Answered, LeaseInv, OverlapInv, GoneForAReason, Held, Failed, MaxAttempts,
         storeVars, workerVars

LEMMA PushKeeps == ASSUME IInv, NEW r \in Request, NEW j \in Job, Push(r, j) PROVE IInv'
  <1>1. StoreInv'
    BY StoreUnchanged DEF IInv, StoreInv, Push
  <1>2. /\ outbox[r] \in Seq(Job)
        /\ outbox' = [outbox EXCEPT ![r] = Append(outbox[r], j)]
        /\ Append(outbox[r], j) \in Seq(Job)
        /\ Len(Append(outbox[r], j)) = Len(outbox[r]) + 1
        /\ \A i \in 1 .. Len(outbox[r]) : Append(outbox[r], j)[i] = outbox[r][i]
        /\ Append(outbox[r], j)[Len(outbox[r]) + 1] = j
    BY AppendProperties DEF Push, IInv, TypeOK
  <1>3. TypeOK'
    BY <1>2 DEF Push, IInv, TypeOK, storeVars, workerVars
  <1>4. Len(outbox[r]) \in Nat
    BY <1>2
  <1>5. OutboxInv'
    <2> SUFFICES ASSUME NEW s \in Request
                 PROVE  (/\ \A q \in {outbox[s], flushing[s]} : \A i \in 1 .. Len(q) :
                              /\ Via[q[i]] = s /\ answer[q[i]] = NoJob
                              /\ \A k \in 1 .. Len(q) : q[i] = q[k] => i = k
                         /\ \A i \in 1 .. Len(outbox[s]), k \in 1 .. Len(flushing[s]) :
                              outbox[s][i] # flushing[s][k]
                         /\ flushing[s] # <<>> => response[s] = "ok")'
      BY DEF OutboxInv
    <2>1. flushing' = flushing /\ response' = response /\ answer' = answer
      BY DEF Push
    <2>2. CASE s # r
      BY <1>2, <2>1, <2>2 DEF IInv, TypeOK, OutboxInv
    <2>3. CASE s = r
      <3>1. outbox'[s] = Append(outbox[r], j)
        BY <1>2, <2>3 DEF IInv, TypeOK
      <3>2. Via[j] = r /\ Unasked(j)
        BY DEF Push
      <3> DEFINE p == Append(outbox[r], j)
      <3>3. \A i \in 1 .. Len(p) :
              /\ Via[p[i]] = r /\ answer[p[i]] = NoJob
              /\ \A k \in 1 .. Len(p) : p[i] = p[k] => i = k
              /\ \A k \in 1 .. Len(flushing[r]) : p[i] # flushing[r][k]
        <4>1. \A i \in 1 .. Len(p) : i \in 1 .. Len(outbox[r]) \/ i = Len(outbox[r]) + 1
          BY <1>2, <1>4
        <4>2. \A i \in 1 .. Len(outbox[r]) : p[i] = outbox[r][i] /\ outbox[r][i] # j
          BY <1>2, <3>2 DEF Unasked
        <4>3. p[Len(outbox[r]) + 1] = j /\ \A k \in 1 .. Len(flushing[r]) : flushing[r][k] # j
          BY <1>2, <3>2 DEF Unasked
        <4> HIDE DEF p
        <4>4. QED
          BY <4>1, <4>2, <4>3, <3>2 DEF IInv, OutboxInv, Unasked
      <3> HIDE DEF p
      <3>4. QED
        BY <2>1, <2>3, <3>1, <3>3 DEF IInv, OutboxInv, p
    <2>4. QED
      BY <2>2, <2>3
  <1>6. CommitFirst'
    BY DEF Push, IInv, CommitFirst
  <1>7. QED
    BY <1>1, <1>3, <1>5, <1>6 DEF IInv, StoreInv

LEMMA RespondKeeps ==
  ASSUME IInv, NEW r \in Request, NEW code \in {"ok", "error", "closed"}, Respond(r, code) PROVE IInv'
  <1>1. StoreInv'
    BY StoreUnchanged DEF IInv, StoreInv, Respond
  <1>2. TypeOK'
    BY DEF Respond, IInv, TypeOK, storeVars, workerVars
  <1>3. OutboxInv'
    <2> SUFFICES ASSUME NEW s \in Request
                 PROVE  (/\ \A q \in {outbox[s], flushing[s]} : \A i \in 1 .. Len(q) :
                              /\ Via[q[i]] = s /\ answer[q[i]] = NoJob
                              /\ \A k \in 1 .. Len(q) : q[i] = q[k] => i = k
                         /\ \A i \in 1 .. Len(outbox[s]), k \in 1 .. Len(flushing[s]) :
                              outbox[s][i] # flushing[s][k]
                         /\ flushing[s] # <<>> => response[s] = "ok")'
      BY DEF OutboxInv
    <2>1. answer' = answer
      BY DEF Respond
    <2>2. CASE s # r
      BY <2>1, <2>2 DEF Respond, IInv, TypeOK, OutboxInv
    <2>3. CASE s = r
      <3>1. outbox'[s] = <<>> /\ Len(<<>>) = 0
        BY <2>3 DEF Respond, IInv, TypeOK
      <3>2. flushing'[s] = <<>> \/ (flushing'[s] = outbox[s] /\ response'[s] = "ok")
        BY <2>3 DEF Respond, Commits, IInv, TypeOK
      <3>3. QED
        BY <2>1, <3>1, <3>2 DEF IInv, OutboxInv
    <2>4. QED
      BY <2>2, <2>3
  <1>4. CommitFirst'
    <2> SUFFICES ASSUME NEW j \in Job, answer[j] # NoJob, Via[j] # Direct PROVE response'[Via[j]] = "ok"
      BY DEF Respond, CommitFirst
    <2>1. Via[j] \in Request /\ response[Via[j]] = "ok" /\ response[r] = "open"
      BY JobAssumption DEF Respond, IInv, CommitFirst
    <2>2. QED
      BY <2>1 DEF Respond, IInv, TypeOK
  <1>5. QED
    BY <1>1, <1>2, <1>3, <1>4 DEF IInv, StoreInv

(***************************************************************************)
(* The backend's enqueue                                                   *)
(***************************************************************************)
(* What a step may do to the store without the workers: jobs leave it, and  *)
(* only jobs nobody was answered for enter.                                 *)
LEMMA LeasesUndisturbed ==
  ASSUME LeaseInv, OverlapInv, UNCHANGED workerVars, attempts' = attempts,
         \A j \in Job : answer[j] # NoJob => answer'[j] # NoJob,
         \A j \in Job : fate[j] \subseteq fate'[j],
         \A j \in Job : answer[j] # NoJob /\ j \in pending' =>
                          j \in pending /\ (j \in locked => j \in locked')
  PROVE  LeaseInv' /\ OverlapInv'
  <1>1. \A w \in Worker : Held(w)' = Held(w)
    BY DEF Held, workerVars
  <1>2. \A l \in Lease : l[1] \in Job
    BY DEF Lease
  <1>3. over' = over /\ running' = running /\ leases' = leases
    BY DEF workerVars
  <1>4. LeaseInv'
    BY <1>1, <1>2, <1>3 DEF LeaseInv, Held, Failed
  <1>5. OverlapInv'
    BY <1>1, <1>2, <1>3 DEF OverlapInv, Held, Failed
  <1>6. QED
    BY <1>4, <1>5

LEMMA EnqueueKeeps ==
  ASSUME IInv, NEW j \in Job, answer[j] = NoJob, Enqueue(j)
  PROVE  /\ TypeOK => /\ pending' \in SUBSET Job /\ locked' \in SUBSET Job
                      /\ delayed' \in SUBSET Job /\ place' \in [Job -> Nat]
                      /\ idem' \in [Keys -> Job \cup {NoJob}]
                      /\ answer' \in [Job -> Job \cup {NoJob}]
                      /\ fate' \in [Job -> SUBSET Fates]
         /\ answer'[j] # NoJob /\ \A i \in Job \ {j} : answer'[i] = answer[i]
         /\ StoreInv'
  <1> DEFINE dropped == Overflow
             new == IF Duplicate(j) THEN {} ELSE {j}
  <1>1. /\ pending' = (pending \ dropped) \cup new
        /\ locked' = locked \ dropped
        /\ delayed' = (delayed \ dropped) \cup (new \cap Later)
        /\ place' = IF Duplicate(j) THEN place ELSE [place EXCEPT ![j] = Newest + 1]
        /\ idem' = IF Key[j] = NoKey \/ Duplicate(j) THEN idem ELSE [idem EXCEPT ![Key[j]] = j]
        /\ answer' = [answer EXCEPT ![j] = JobId(j)]
        /\ fate' = [i \in Job |-> IF i \in dropped THEN fate[i] \cup {"evicted"} ELSE fate[i]]
        /\ UNCHANGED <<attempts, workerVars>>
    BY DEF Enqueue
  <1>2. JobId(j) \in Job /\ JobId(j) # NoJob
    BY JobAssumption DEF JobId, Duplicate, Keys, IInv, TypeOK
  <1>3. Newest \in Nat
    <2>1. IsFiniteSet({i \in Job : place[i] > 0})
      BY JobAssumption, FS_Subset
    <2>2. QED
      BY <2>1, FS_CardinalityType DEF Newest
  <1> HIDE DEF dropped, new
  <1>4. new \subseteq {j}
    BY DEF new
  <1>5. /\ pending' \in SUBSET Job /\ locked' \in SUBSET Job /\ delayed' \in SUBSET Job
        /\ place' \in [Job -> Nat] /\ fate' \in [Job -> SUBSET Fates]
    BY <1>1, <1>3, <1>4 DEF IInv, TypeOK, Fates
  <1>6. idem' \in [Keys -> Job \cup {NoJob}]
    BY <1>1, JobAssumption DEF IInv, TypeOK, Keys
  <1>7. answer' \in [Job -> Job \cup {NoJob}] /\ answer'[j] # NoJob
        /\ \A i \in Job \ {j} : answer'[i] = answer[i]
    BY <1>1, <1>2 DEF IInv, TypeOK
  <1>8. Answered'
    BY <1>1, <1>4, <1>7 DEF IInv, Answered, TypeOK
  <1>9. LeaseInv' /\ OverlapInv'
    <2>1. \A i \in Job : fate[i] \subseteq fate'[i]
      BY <1>1 DEF IInv, TypeOK
    <2>2. \A i \in Job : answer[i] # NoJob /\ i \in pending' =>
                            i \in pending /\ (i \in locked => i \in locked')
      BY <1>1, <1>4
    <2>3. \A i \in Job : answer[i] # NoJob => answer'[i] # NoJob
      BY <1>7
    <2>4. QED
      BY <1>1, <2>1, <2>2, <2>3, LeasesUndisturbed DEF IInv
  <1>10. GoneForAReason'
    <2> SUFFICES ASSUME NEW i \in Job, place'[i] > 0, i \notin pending'
                 PROVE  \/ fate'[i] \cap {"succeeded", "fatal", "evicted"} # {}
                        \/ "failed" \in fate'[i] /\ attempts'[i] >= MaxAttempts(i)
      BY DEF GoneForAReason, MaxAttempts
    <2>1. CASE i \in dropped
      BY <2>1, <1>1
    <2>2. CASE i \notin dropped
      <3>1. place[i] > 0 /\ i \notin pending
        BY <2>2, <1>1 DEF new, IInv, TypeOK
      <3>2. fate'[i] = fate[i] /\ attempts' = attempts
        BY <2>2, <1>1
      <3>3. QED
        BY <3>1, <3>2 DEF IInv, GoneForAReason
    <2>3. QED
      BY <2>1, <2>2
  <1>11. QED
    BY <1>5, <1>6, <1>7, <1>8, <1>9, <1>10 DEF StoreInv

LEMMA EnqueueDirectKeeps == ASSUME IInv, NEW j \in Job, EnqueueDirect(j) PROVE IInv'
  <1>1. answer[j] = NoJob /\ Enqueue(j) /\ UNCHANGED requestVars /\ Via[j] = Direct /\ Unasked(j)
    BY DEF EnqueueDirect, Unasked
  <1>2. UNCHANGED <<attempts, workerVars>>
    BY <1>1 DEF Enqueue
  <1>3. TypeOK'
    BY <1>1, <1>2, EnqueueKeeps DEF IInv, TypeOK, requestVars, workerVars
  <1>4. OutboxInv'
    <2>1. outbox' = outbox /\ flushing' = flushing /\ response' = response
      BY <1>1 DEF requestVars
    <2>2. \A r \in Request : \A q \in {outbox[r], flushing[r]} : \A i \in 1 .. Len(q) :
             q[i] \in Job /\ q[i] # j
      BY <1>1 DEF Unasked, IInv, TypeOK
    <2>3. \A i \in Job \ {j} : answer'[i] = answer[i]
      BY <1>1, EnqueueKeeps
    <2>4. QED
      BY <2>1, <2>2, <2>3 DEF IInv, OutboxInv
  <1>5. CommitFirst'
    BY <1>1, EnqueueKeeps DEF IInv, CommitFirst, requestVars
  <1>6. QED
    BY <1>1, <1>3, <1>4, <1>5, EnqueueKeeps DEF IInv, StoreInv

LEMMA DispatchKeeps == ASSUME IInv, NEW r \in Request, Dispatch(r) PROVE IInv'
  <1> DEFINE j == Head(flushing[r])
             f == flushing[r]
  <1>1. /\ f \in Seq(Job) /\ f # <<>> /\ flushing' = [flushing EXCEPT ![r] = Tail(f)]
        /\ Enqueue(j) /\ outbox' = outbox /\ response' = response
    BY DEF Dispatch, IInv, TypeOK
  <1>2. /\ j \in Job /\ j = f[1] /\ Tail(f) \in Seq(Job) /\ Len(f) \in Nat \ {0}
        /\ Len(Tail(f)) = Len(f) - 1
        /\ \A i \in 1 .. Len(Tail(f)) : Tail(f)[i] = f[i + 1]
    BY <1>1, HeadTailProperties, EmptySeq
  <1> HIDE DEF j, f
  <1>3. /\ answer[j] = NoJob /\ Via[j] = r /\ response[r] = "ok"
        /\ \A i \in 1 .. Len(f) : f[i] = j => i = 1
        /\ \A i \in 1 .. Len(outbox[r]) : outbox[r][i] # j
    <2>1. 1 \in 1 .. Len(f)
      BY <1>2
    <2>2. QED
      BY <1>1, <1>2, <2>1 DEF IInv, OutboxInv, f
  <1>4. /\ answer'[j] # NoJob /\ \A i \in Job \ {j} : answer'[i] = answer[i]
        /\ UNCHANGED <<attempts, workerVars>>
    BY <1>1, <1>2, <1>3, EnqueueKeeps DEF Enqueue
  <1>5. TypeOK'
    BY <1>1, <1>2, <1>3, <1>4, EnqueueKeeps DEF IInv, TypeOK, workerVars
  <1>6. OutboxInv'
    <2> SUFFICES ASSUME NEW s \in Request
                 PROVE  (/\ \A q \in {outbox[s], flushing[s]} : \A i \in 1 .. Len(q) :
                              /\ Via[q[i]] = s /\ answer[q[i]] = NoJob
                              /\ \A k \in 1 .. Len(q) : q[i] = q[k] => i = k
                         /\ \A i \in 1 .. Len(outbox[s]), k \in 1 .. Len(flushing[s]) :
                              outbox[s][i] # flushing[s][k]
                         /\ flushing[s] # <<>> => response[s] = "ok")'
      BY DEF OutboxInv
    <2>1. CASE s # r
      <3>1. flushing'[s] = flushing[s] /\ outbox'[s] = outbox[s]
        BY <1>1, <2>1 DEF IInv, TypeOK
      <3>2. \A q \in {outbox[s], flushing[s]} : \A i \in 1 .. Len(q) : q[i] \in Job /\ q[i] # j
        BY <1>3, <2>1 DEF IInv, TypeOK, OutboxInv
      <3>3. /\ \A q \in {outbox[s], flushing[s]} : \A i \in 1 .. Len(q) :
                   /\ Via[q[i]] = s /\ answer[q[i]] = NoJob
                   /\ \A k \in 1 .. Len(q) : q[i] = q[k] => i = k
            /\ \A i \in 1 .. Len(outbox[s]), k \in 1 .. Len(flushing[s]) :
                 outbox[s][i] # flushing[s][k]
            /\ flushing[s] # <<>> => response[s] = "ok"
        BY DEF IInv, OutboxInv
      <3>4. \A q \in {outbox[s], flushing[s]} : \A i \in 1 .. Len(q) : answer'[q[i]] = answer[q[i]]
        BY <1>4, <3>2
      <3>5. \A q \in {outbox[s], flushing[s]} : \A i \in 1 .. Len(q) :
              /\ Via[q[i]] = s /\ answer'[q[i]] = NoJob
              /\ \A k \in 1 .. Len(q) : q[i] = q[k] => i = k
        BY <3>3, <3>4
      <3>6. flushing'[s] # <<>> => response'[s] = "ok"
        BY <1>1, <3>1, <3>3
      <3>7. QED
        BY <3>1, <3>3, <3>5, <3>6
    <2>2. CASE s = r
      <3>1. flushing'[s] = Tail(f) /\ outbox'[s] = outbox[r] /\ response'[s] = "ok"
        BY <1>1, <1>3, <2>2 DEF IInv, TypeOK
      <3>2. \A i \in 1 .. Len(Tail(f)) : i + 1 \in 1 .. Len(f) /\ Tail(f)[i] = f[i + 1] /\ Tail(f)[i] # j
        BY <1>2, <1>3
      <3>3. \A i \in 1 .. Len(Tail(f)) :
              /\ Tail(f)[i] \in Job /\ Via[Tail(f)[i]] = r /\ answer'[Tail(f)[i]] = NoJob
              /\ \A k \in 1 .. Len(outbox[r]) : outbox[r][k] # Tail(f)[i]
        BY <3>2, <1>1, <1>4 DEF IInv, OutboxInv, f
      <3>4. \A i, k \in 1 .. Len(Tail(f)) : Tail(f)[i] = Tail(f)[k] => i = k
        BY <3>2 DEF IInv, OutboxInv, f
      <3>5. \A i \in 1 .. Len(outbox[r]) :
              /\ Via[outbox[r][i]] = r /\ answer'[outbox[r][i]] = NoJob
              /\ \A k \in 1 .. Len(outbox[r]) : outbox[r][i] = outbox[r][k] => i = k
        BY <1>3, <1>4 DEF IInv, TypeOK, OutboxInv
      <3>6. QED
        BY <2>2, <3>1, <3>3, <3>4, <3>5
    <2>3. QED
      BY <2>1, <2>2
  <1>7. CommitFirst'
    BY <1>1, <1>2, <1>3, <1>4 DEF IInv, CommitFirst
  <1>8. QED
    BY <1>1, <1>2, <1>3, <1>5, <1>6, <1>7, EnqueueKeeps DEF IInv, StoreInv

LEMMA DelayOverKeeps == ASSUME IInv, NEW j \in Job, DelayOver(j) PROVE IInv'
  <1>1. TypeOK' /\ OutboxInv' /\ CommitFirst' /\ Answered' /\ GoneForAReason'
    BY DEF DelayOver, IInv, TypeOK, OutboxInv, CommitFirst, Answered, GoneForAReason, MaxAttempts,
           requestVars, workerVars
  <1>2. LeaseInv' /\ OverlapInv'
    BY LeasesUndisturbed DEF DelayOver, IInv
  <1>3. QED
    BY <1>1, <1>2 DEF IInv

LEMMA WindowOverKeeps == ASSUME IInv, NEW k \in Keys, WindowOver(k) PROVE IInv'
  <1>1. TypeOK' /\ OutboxInv' /\ CommitFirst' /\ Answered' /\ GoneForAReason'
    BY DEF WindowOver, IInv, TypeOK, OutboxInv, CommitFirst, Answered, GoneForAReason, MaxAttempts,
           requestVars, workerVars
  <1>2. LeaseInv' /\ OverlapInv'
    BY LeasesUndisturbed DEF WindowOver, IInv
  <1>3. QED
    BY <1>1, <1>2 DEF IInv

(***************************************************************************)
(* Workers                                                                 *)
(***************************************************************************)
(* A set of naturals that is not empty has a least member. *)
LEMMA LeastExists ==
  ASSUME NEW S \in SUBSET Nat, S # {}
  PROVE  \E x \in S : \A y \in S : x <= y
  <1> DEFINE Below(x) == 0 .. (x - 1)
             T == {Below(x) : x \in S}
  <1>1. T \subseteq FiniteSubsetsOf(Nat) /\ T # {}
    <2>1. \A x \in S : Below(x) \in SUBSET Nat /\ IsFiniteSet(Below(x))
      BY FS_Interval
    <2>2. QED
      BY <2>1 DEF FiniteSubsetsOf
  <1>2. PICK B \in T : \A C \in T : ~(<<C, B>> \in StrictSubsetOrdering(Nat))
    <2> HIDE DEF T
    <2> QED
      BY <1>1, FS_StrictSubsetOrderingWellFounded, WFMin
  <1>3. PICK x \in S : B = Below(x)
    BY <1>2
  <1>4. \A y \in S : ~(y < x)
    <2> SUFFICES ASSUME NEW y \in S, y < x PROVE FALSE
      OBVIOUS
    <2>1. Below(y) \subseteq Below(x) /\ y \in Below(x) /\ y \notin Below(y)
      OBVIOUS
    <2>2. <<Below(y), Below(x)>> \in StrictSubsetOrdering(Nat)
      BY <2>1 DEF StrictSubsetOrdering
    <2>3. Below(y) \in T
      OBVIOUS
    <2>4. QED
      BY <1>2, <1>3, <2>2, <2>3
  <1>5. QED
    BY <1>4

LEMMA NextIsOfTick ==
  ASSUME TypeOK, NEW w \in Worker, leases[w] # {} PROVE NextLease(w) \in leases[w]
  <1> DEFINE S == {place[l[1]] : l \in leases[w]}
  <1>1. S \in SUBSET Nat /\ S # {}
    BY DEF TypeOK, Lease
  <1> HIDE DEF S
  <1>2. PICK x \in S : \A y \in S : x <= y
    BY <1>1, LeastExists
  <1>3. PICK l \in leases[w] : x = place[l[1]]
    BY DEF S
  <1>4. \A m \in leases[w] : place[l[1]] <= place[m[1]]
    BY <1>2, <1>3 DEF S
  <1>5. QED
    BY <1>4 DEF NextLease

(* The end of lease l, which w held: its job left the store or an attempt   *)
(* of it failed.                                                            *)
LEMMA SettleKeeps ==
  ASSUME IInv, NEW w \in Worker, NEW l \in Held(w),
         leases' \in [Worker -> SUBSET Lease], running' \in [Worker -> Lease \cup {NoLease}],
         \A v \in Worker : Held(v)' = IF v = w THEN Held(w) \ {l} ELSE Held(v),
         \A v \in Worker : running'[v] \notin leases'[v],
         over' = over \ {l}, attempts' = attempts, place' = place, answer' = answer,
         UNCHANGED requestVars, idem' = idem,
         pending' \subseteq pending, locked' = locked \ {l[1]}, delayed' \subseteq delayed,
         \A j \in Job \ {l[1]} : j \in pending => j \in pending',
         fate' \in [Job -> SUBSET Fates], \A j \in Job : fate[j] \subseteq fate'[j],
         \/ l[1] \notin pending' /\ fate'[l[1]] \cap {"succeeded", "fatal"} # {}
         \/ Failed(l[1])' /\ (l[1] \in pending \ pending' => attempts[l[1]] >= MaxAttempts(l[1]))
  PROVE  IInv'
  <1>1. TypeOK'
    BY DEF IInv, TypeOK, requestVars
  <1>2. OutboxInv' /\ CommitFirst' /\ Answered'
    BY DEF IInv, OutboxInv, CommitFirst, Answered, requestVars
  <1>3. l \in Lease /\ l[1] \in Job
    BY DEF Held, Lease
  <1>4. \A v \in Worker : \A m \in Held(v)' : m \in Held(v) /\ m # l /\ m \in Lease /\ m[1] \in Job
    BY DEF IInv, LeaseInv, Held, Lease
  <1>5. \A j \in Job : Failed(j) => Failed(j)'
    BY DEF Failed
  <1>6. LeaseInv'
    <2>1. \A v \in Worker : \A m \in Held(v)' :
            /\ m[2] <= attempts'[m[1]] /\ answer'[m[1]] # NoJob
            /\ \/ m \in over' \/ Failed(m[1])' \/ m[1] \notin pending'
               \/ m[2] = attempts'[m[1]] /\ m[1] \in locked'
      <3> SUFFICES ASSUME NEW v \in Worker, NEW m \in Held(v)'
                   PROVE  /\ m[2] <= attempts'[m[1]] /\ answer'[m[1]] # NoJob
                          /\ \/ m \in over' \/ Failed(m[1])' \/ m[1] \notin pending'
                             \/ m[2] = attempts'[m[1]] /\ m[1] \in locked'
        OBVIOUS
      <3>1. m \in Held(v) /\ m # l /\ m[1] \in Job
        BY <1>4
      <3>2. /\ m[2] <= attempts[m[1]] /\ answer[m[1]] # NoJob
            /\ \/ m \in over \/ Failed(m[1]) \/ m[1] \notin pending
               \/ m[2] = attempts[m[1]] /\ m[1] \in locked
        BY <3>1 DEF IInv, LeaseInv
      <3>3. CASE m[1] = l[1]
        BY <3>1, <3>2, <3>3
      <3>4. CASE m[1] # l[1]
        BY <3>1, <3>2, <3>4, <1>5
      <3>5. QED
        BY <3>3, <3>4
    <2>2. \A u, v \in Worker : u # v => Held(u)' \cap Held(v)' = {}
      BY DEF IInv, LeaseInv
    <2>3. QED
      BY <2>1, <2>2 DEF LeaseInv
  <1>7. OverlapInv'
    BY <1>4, <1>5 DEF IInv, OverlapInv
  <1>8. GoneForAReason'
    <2> SUFFICES ASSUME NEW j \in Job, place'[j] > 0, j \notin pending'
                 PROVE  \/ fate'[j] \cap {"succeeded", "fatal", "evicted"} # {}
                        \/ "failed" \in fate'[j] /\ attempts'[j] >= MaxAttempts(j)
      BY DEF GoneForAReason, MaxAttempts
    <2>1. CASE j \in pending
      BY <2>1 DEF Failed
    <2>2. CASE j \notin pending
      BY <2>2 DEF IInv, GoneForAReason
    <2>3. QED
      BY <2>1, <2>2
  <1>9. QED
    BY <1>1, <1>2, <1>6, <1>7, <1>8 DEF IInv

LEMMA RefuseKeeps == ASSUME IInv, NEW w \in Worker, Refuse(w) PROVE IInv'
  <1> DEFINE l == NextLease(w)
  <1>1. l \in leases[w]
    BY NextIsOfTick DEF Refuse, IInv
  <1>2. /\ leases' = [leases EXCEPT ![w] = leases[w] \ {l}] /\ running' = running
        /\ running[w] = NoLease
        /\ over' = over \ {l} /\ Nack(l[1], TRUE) /\ answer' = answer /\ UNCHANGED requestVars
        /\ fate' = [fate EXCEPT ![l[1]] = @ \cup {"fatal"}]
    BY DEF Refuse, Rest
  <1> HIDE DEF l
  <1>3. l \in Lease /\ l[1] \in Job /\ l \in Held(w)
    BY <1>1 DEF IInv, TypeOK, Held, Lease
  <1>4. \A v \in Worker : Held(v)' = IF v = w THEN Held(w) \ {l} ELSE Held(v)
    BY <1>2, <1>3, JobAssumption DEF IInv, TypeOK, Held
  <1>5. \A v \in Worker : running'[v] \notin leases'[v]
    BY <1>2 DEF IInv, TypeOK, LeaseInv
  <1>6. leases' \in [Worker -> SUBSET Lease] /\ running' \in [Worker -> Lease \cup {NoLease}]
    BY <1>2 DEF IInv, TypeOK
  <1>7. /\ pending' = pending \ {l[1]} /\ locked' = locked \ {l[1]} /\ delayed' \subseteq delayed
        /\ attempts' = attempts /\ place' = place /\ idem' = idem
    BY <1>2 DEF Nack
  <1>8. /\ fate' \in [Job -> SUBSET Fates] /\ \A j \in Job : fate[j] \subseteq fate'[j]
        /\ "fatal" \in fate'[l[1]]
    BY <1>2, <1>3 DEF IInv, TypeOK, Fates
  <1>9. QED
    BY <1>2, <1>3, <1>4, <1>5, <1>6, <1>7, <1>8, SettleKeeps

LEMMA FinishKeeps ==
  ASSUME IInv, NEW w \in Worker, NEW outcome \in {"succeeded", "failed", "fatal"}, Finish(w, outcome)
  PROVE  IInv'
  <1>0. PICK l \in Lease : l = running[w]
    BY DEF Finish, IInv, TypeOK
  <1>1. /\ l # NoLease /\ running' = [running EXCEPT ![w] = NoLease] /\ leases' = leases
        /\ over' = over \ {l} /\ answer' = answer /\ UNCHANGED requestVars
        /\ fate' = [fate EXCEPT ![l[1]] = @ \cup {outcome}]
        /\ IF outcome = "succeeded" THEN Ack(l[1]) ELSE Nack(l[1], outcome = "fatal")
    BY <1>0 DEF Finish
  <1>2. l \in Lease /\ l[1] \in Job /\ l \in Held(w) /\ l \notin leases[w]
    BY <1>0, <1>1 DEF IInv, TypeOK, LeaseInv, Held, Lease
  <1>3. \A v \in Worker : Held(v)' = IF v = w THEN Held(w) \ {l} ELSE Held(v)
    BY <1>0, <1>1, <1>2, JobAssumption DEF IInv, TypeOK, Held
  <1>4. leases' \in [Worker -> SUBSET Lease] /\ running' \in [Worker -> Lease \cup {NoLease}]
    BY <1>1 DEF IInv, TypeOK
  <1>5. \A v \in Worker : running'[v] \notin leases'[v]
    BY <1>1, <1>4, JobAssumption DEF IInv, TypeOK, LeaseInv
  <1>6. /\ pending' \subseteq pending /\ locked' = locked \ {l[1]} /\ delayed' \subseteq delayed
        /\ attempts' = attempts /\ place' = place /\ idem' = idem
        /\ \A j \in Job \ {l[1]} : j \in pending => j \in pending'
    BY <1>1 DEF Ack, Nack
  <1>7. /\ fate' \in [Job -> SUBSET Fates] /\ \A j \in Job : fate[j] \subseteq fate'[j]
        /\ outcome \in fate'[l[1]]
    BY <1>1, <1>2 DEF IInv, TypeOK, Fates
  <1>8. \/ l[1] \notin pending' /\ fate'[l[1]] \cap {"succeeded", "fatal"} # {}
        \/ Failed(l[1])' /\ (l[1] \in pending \ pending' => attempts[l[1]] >= MaxAttempts(l[1]))
    <2>1. CASE outcome = "succeeded"
      BY <2>1, <1>1, <1>7 DEF Ack
    <2>2. CASE outcome = "fatal"
      BY <2>2, <1>1, <1>7 DEF Nack
    <2>3. CASE outcome = "failed"
      <3>1. Failed(l[1])'
        BY <2>3, <1>7 DEF Failed
      <3>2. l[1] \in pending \ pending' => attempts[l[1]] >= MaxAttempts(l[1])
        BY <2>3, <1>1 DEF Nack, Exhausted
      <3>3. QED
        BY <3>1, <3>2
    <2>4. QED
      BY <2>1, <2>2, <2>3
  <1>9. QED
    BY <1>1, <1>2, <1>3, <1>4, <1>5, <1>6, <1>7, <1>8, SettleKeeps

LEMMA BeginKeeps == ASSUME IInv, NEW w \in Worker, Begin(w) PROVE IInv'
  <1>1. PICK l \in Lease : l = NextLease(w) /\ l \in leases[w]
    BY NextIsOfTick DEF Begin, IInv, TypeOK
  <1>2. /\ leases' = [leases EXCEPT ![w] = leases[w] \ {l}]
        /\ running' = [running EXCEPT ![w] = l] /\ running[w] = NoLease
        /\ fate' = [fate EXCEPT ![l[1]] = @ \cup {"called"}]
        /\ UNCHANGED <<requestVars, storeVars, over, answer>>
    BY <1>1 DEF Begin, Rest
  <1>3. \A v \in Worker : Held(v)' = Held(v)
    BY <1>1, <1>2, JobAssumption DEF IInv, TypeOK, Held
  <1>4. TypeOK'
    <2>1. fate' \in [Job -> SUBSET Fates]
      BY <1>1, <1>2 DEF IInv, TypeOK, Fates, Lease
    <2>2. leases' \in [Worker -> SUBSET Lease] /\ running' \in [Worker -> Lease \cup {NoLease}]
      BY <1>1, <1>2 DEF IInv, TypeOK
    <2>3. QED
      BY <1>2, <2>1, <2>2 DEF IInv, TypeOK, requestVars, storeVars
  <1>5. \A j \in Job : fate[j] \subseteq fate'[j]
    BY <1>2 DEF IInv, TypeOK
  <1>6. \A k \in Lease : k[1] \in Job /\ (Failed(k[1]) => Failed(k[1])')
    BY <1>5 DEF Lease, Failed
  <1>7. LeaseInv'
    <2>1. \A v \in Worker : running'[v] \notin leases'[v]
      BY <1>1, <1>2 DEF IInv, TypeOK, LeaseInv
    <2>2. QED
      BY <1>2, <1>3, <1>6, <2>1 DEF IInv, LeaseInv, storeVars, Held
  <1>8. OverlapInv'
    BY <1>2, <1>3, <1>6 DEF IInv, OverlapInv, Held
  <1>9. GoneForAReason'
    BY <1>2, <1>5 DEF IInv, GoneForAReason, MaxAttempts, storeVars
  <1>10. QED
    BY <1>2, <1>4, <1>7, <1>8, <1>9
    DEF IInv, OutboxInv, CommitFirst, Answered, requestVars, storeVars

LEMMA LeaseOverKeeps == ASSUME IInv, NEW l \in Lease, LeaseOver(l) PROVE IInv'
  <1>1. over' = over \cup {l} /\ UNCHANGED <<requestVars, storeVars, leases, running, answer, fate>>
    BY DEF LeaseOver
  <1>2. \A v \in Worker : Held(v)' = Held(v)
    BY <1>1 DEF Held
  <1>3. TypeOK'
    BY <1>1 DEF IInv, TypeOK, requestVars, storeVars
  <1>4. LeaseInv' /\ OverlapInv'
    BY <1>1, <1>2 DEF IInv, LeaseInv, OverlapInv, Failed, storeVars
  <1>5. QED
    BY <1>1, <1>3, <1>4
    DEF IInv, OutboxInv, CommitFirst, Answered, GoneForAReason, MaxAttempts, requestVars, storeVars

LEMMA TickKeeps == ASSUME IInv, NEW w \in Worker, Tick(w) PROVE IInv'
  <1>1. PICK B \in Batches :
          /\ B # {} /\ \A j \in B : attempts[j] < MaxLeases
          /\ attempts' = [j \in Job |-> IF j \in B THEN Bumped(j) ELSE attempts[j]]
          /\ locked' = locked \cup B
          /\ leases' = [leases EXCEPT ![w] = {<<j, Bumped(j)>> : j \in B}]
    BY DEF Tick
  <1>2. /\ leases[w] = {} /\ running[w] = NoLease /\ running' = running /\ over' = over
        /\ pending' = pending /\ place' = place /\ idem' = idem /\ delayed' = delayed
        /\ answer' = answer /\ fate' = fate /\ UNCHANGED requestVars
    BY DEF Tick
  <1>3. B \subseteq Job /\ \A j \in B : j \in pending /\ Lockable(j)
    BY DEF Batches, Eligible, IInv, TypeOK
  <1>4. \A j \in B : attempts[j] \in Nat /\ attempts'[j] = attempts[j] + 1 /\ attempts'[j] \in 1 .. MaxLeases
    BY <1>1, <1>3, JobAssumption DEF Bumped, IInv, TypeOK
  <1>5. \A j \in Job : attempts[j] \in Nat /\ attempts'[j] \in 0 .. MaxLeases /\ attempts[j] <= attempts'[j]
                        /\ (j \notin B => attempts'[j] = attempts[j])
    <2> SUFFICES ASSUME NEW j \in Job
                 PROVE  /\ attempts[j] \in Nat /\ attempts'[j] \in 0 .. MaxLeases
                        /\ attempts[j] <= attempts'[j]
                        /\ (j \notin B => attempts'[j] = attempts[j])
      OBVIOUS
    <2>1. attempts[j] \in 0 .. MaxLeases /\ MaxLeases \in Nat
      BY JobAssumption DEF IInv, TypeOK
    <2>2. CASE j \in B
      BY <1>4, <2>1, <2>2
    <2>3. CASE j \notin B
      BY <1>1, <2>1, <2>3
    <2>4. QED
      BY <2>2, <2>3
  <1>6. TypeOK'
    <2>1. {<<j, Bumped(j)>> : j \in B} \subseteq Lease
      BY <1>1, <1>3, <1>4 DEF Lease, Bumped
    <2>2. leases' \in [Worker -> SUBSET Lease]
      BY <1>1, <2>1 DEF IInv, TypeOK
    <2>3. attempts' \in [Job -> 0 .. MaxLeases]
      BY <1>1, <1>5
    <2>4. QED
      BY <1>1, <1>2, <1>3, <2>2, <2>3 DEF IInv, TypeOK, requestVars
  <1> DEFINE New == {<<j, attempts[j] + 1>> : j \in B}
  <1>7. /\ leases'[w] = New
        /\ \A l \in New : l \in Lease /\ l[1] \in B /\ l[1] \in Job /\ l[2] = attempts[l[1]] + 1
                           /\ l[2] = attempts'[l[1]]
    BY <1>1, <1>3, <1>4, <1>6 DEF Bumped, Lease, IInv, TypeOK
  <1> HIDE DEF New
  <1>8. Held(w) = {} /\ Held(w)' = New /\ \A v \in Worker \ {w} : Held(v)' = Held(v)
    BY <1>1, <1>2, <1>7, JobAssumption DEF Held, IInv, TypeOK
  <1>9. \A v \in Worker : \A l \in Held(v) : l \in Lease /\ l[1] \in Job /\ l[2] <= attempts[l[1]] /\ l[2] \in Nat
    BY DEF Held, IInv, LeaseInv, Lease
  (* A lease still held of a job that is leased again. *)
  <1>10. \A v \in Worker : \A l \in Held(v) : l[1] \in B => l \in over \/ Failed(l[1])
    <2> SUFFICES ASSUME NEW v \in Worker, NEW l \in Held(v), l[1] \in B, l \notin over, ~Failed(l[1])
                 PROVE  FALSE
      OBVIOUS
    <2>1. l[2] = attempts[l[1]] /\ l[1] \in locked
      BY <1>3 DEF IInv, LeaseInv
    <2>2. l = <<l[1], attempts[l[1]]>>
      BY <1>9, <2>1 DEF Lease
    <2>3. QED
      BY <1>3, <2>1, <2>2 DEF Lockable
  <1>11. \A v \in Worker : \A l \in Held(v)' :
            /\ l \in Lease /\ l[1] \in Job /\ l[2] <= attempts'[l[1]] /\ answer'[l[1]] # NoJob
            /\ \/ l \in over' \/ Failed(l[1])' \/ l[1] \notin pending'
               \/ l[2] = attempts'[l[1]] /\ l[1] \in locked'
    <2> SUFFICES ASSUME NEW v \in Worker, NEW l \in Held(v)'
                 PROVE  /\ l \in Lease /\ l[1] \in Job /\ l[2] <= attempts'[l[1]] /\ answer'[l[1]] # NoJob
                        /\ \/ l \in over' \/ Failed(l[1])' \/ l[1] \notin pending'
                           \/ l[2] = attempts'[l[1]] /\ l[1] \in locked'
      OBVIOUS
    <2>1. CASE v = w
      BY <1>1, <1>2, <1>3, <1>4, <1>7, <1>8, <2>1 DEF IInv, Answered
    <2>2. CASE v # w
      <3>1. l \in Held(v)
        BY <1>8, <2>2
      <3>2. CASE l[1] \in B
        BY <1>2, <1>5, <1>9, <1>10, <3>1, <3>2 DEF IInv, LeaseInv, Failed
      <3>3. CASE l[1] \notin B
        BY <1>1, <1>2, <1>5, <1>9, <3>1, <3>3 DEF IInv, LeaseInv, Failed
      <3>4. QED
        BY <3>2, <3>3
    <2>3. QED
      BY <2>1, <2>2
  <1>12. \A u, v \in Worker : u # v => Held(u)' \cap Held(v)' = {}
    <2>1. \A v \in Worker : New \cap Held(v) = {}
      <3> SUFFICES ASSUME NEW v \in Worker, NEW l \in New, l \in Held(v) PROVE FALSE
        OBVIOUS
      <3>1. l[2] = attempts[l[1]] + 1 /\ l[2] <= attempts[l[1]] /\ attempts[l[1]] \in Nat
        BY <1>5, <1>7, <1>9
      <3>2. QED
        BY <3>1
    <2>2. QED
      BY <1>8, <2>1 DEF IInv, LeaseInv
  <1>13. \A v \in Worker : running'[v] \notin leases'[v]
    <2>1. running'[w] \notin leases'[w]
      BY <1>2, <1>7, JobAssumption
    <2>2. QED
      BY <1>1, <1>2, <2>1 DEF IInv, TypeOK, LeaseInv
  <1>14. LeaseInv'
    BY <1>11, <1>12, <1>13 DEF LeaseInv
  <1>15. OverlapInv'
    <2> SUFFICES ASSUME NEW u \in Worker, NEW v \in Worker, NEW l \in Held(u)', NEW m \in Held(v)',
                        l[1] = m[1], l[2] < m[2]
                 PROVE  l \in over' \/ Failed(l[1])'
      BY DEF OverlapInv
    <2>1. CASE u = w
      <3>1. l[2] = attempts'[m[1]] /\ m[2] <= attempts'[m[1]] /\ attempts'[m[1]] \in Nat /\ m[2] \in Nat
        BY <1>5, <1>7, <1>8, <1>11, <2>1 DEF Lease
      <3>2. QED
        BY <3>1
    <2>2. CASE u # w /\ v = w
      BY <1>2, <1>7, <1>8, <1>10, <2>2 DEF Failed
    <2>3. CASE u # w /\ v # w
      BY <1>2, <1>8, <2>3 DEF IInv, OverlapInv, Failed
    <2>4. QED
      BY <2>1, <2>2, <2>3
  <1>16. GoneForAReason'
    <2> SUFFICES ASSUME NEW j \in Job, place'[j] > 0, j \notin pending',
                        fate'[j] \cap {"succeeded", "fatal", "evicted"} = {}
                 PROVE  "failed" \in fate'[j] /\ attempts'[j] >= MaxAttempts(j)
      BY DEF GoneForAReason, MaxAttempts
    <2>1. j \notin B
      BY <1>2, <1>3
    <2>2. QED
      BY <1>2, <1>5, <2>1 DEF IInv, GoneForAReason
  <1>17. QED
    BY <1>2, <1>6, <1>14, <1>15, <1>16 DEF IInv, OutboxInv, CommitFirst, Answered, requestVars

LEMMA StutterKeeps == ASSUME IInv, UNCHANGED vars PROVE IInv'
  <1>1. StoreInv'
    BY StoreUnchanged DEF IInv, StoreInv, vars
  <1>2. TypeOK' /\ OutboxInv' /\ CommitFirst'
    BY DEF IInv, TypeOK, OutboxInv, CommitFirst, vars, requestVars, storeVars, workerVars
  <1>3. QED
    BY <1>1, <1>2 DEF IInv, StoreInv

LEMMA StepInv == IInv /\ [Next]_vars => IInv'
  <1> SUFFICES ASSUME IInv, [Next]_vars PROVE IInv'
    OBVIOUS
  <1>1. CASE \E r \in Request : \/ \E j \in Job : Push(r, j)
                                \/ \E code \in {"ok", "error", "closed"} : Respond(r, code)
                                \/ Dispatch(r)
    BY <1>1, PushKeeps, RespondKeeps, DispatchKeeps
  <1>2. CASE \E j \in Job : DelayOver(j) \/ EnqueueDirect(j)
    BY <1>2, DelayOverKeeps, EnqueueDirectKeeps
  <1>3. CASE \E k \in Keys : WindowOver(k)
    BY <1>3, WindowOverKeeps
  <1>4. CASE \E w \in Worker : Work(w)
    BY <1>4, TickKeeps, RefuseKeeps, BeginKeeps, FinishKeeps DEF Work
  <1>5. CASE \E l \in Lease : LeaseOver(l)
    BY <1>5, LeaseOverKeeps
  <1>6. CASE UNCHANGED vars
    BY <1>6, StutterKeeps
  <1>7. QED
    BY <1>1, <1>2, <1>3, <1>4, <1>5, <1>6 DEF Next

(* The invariant holds in every state. *)
THEOREM InvHolds == Spec => []IInv
  BY InitInv, StepInv, PTL DEF Spec

(* A job asked for by a request reaches the backend only behind a response  *)
(* that committed, whatever the request does before and after it.           *)
THEOREM CommitComesFirst == Spec => []CommitFirst
  <1>1. IInv => CommitFirst
    BY DEF IInv
  <1>2. QED
    BY <1>1, InvHolds, PTL

(* No job is lost between late acks and nacks, overflows and retries. *)
THEOREM NoJobIsLost == Spec => []GoneForAReason
  <1>1. IInv => GoneForAReason
    BY DEF IInv
  <1>2. QED
    BY <1>1, InvHolds, PTL

(* Two workers run one job at once only behind the end of a lease or a      *)
(* failed attempt.                                                          *)
THEOREM OverlapsHaveACause == Spec => []OverlapHasCause
  <1>1. IInv => OverlapHasCause
    <2> SUFFICES ASSUME IInv, NEW v \in Worker, NEW w \in Worker,
                        running[v] # NoLease, running[w] # NoLease,
                        running[v][1] = running[w][1], running[v][2] < running[w][2]
                 PROVE  running[v] \in over \/ "failed" \in fate[running[v][1]]
      BY DEF OverlapHasCause
    <2>1. running[v] \in Held(v) /\ running[w] \in Held(w)
      BY DEF Held, IInv, TypeOK
    <2>2. QED
      BY <2>1 DEF IInv, OverlapInv, Failed
  <1>2. QED
    BY <1>1, InvHolds, PTL
=============================================================================
