------------------------ MODULE ThreadDispatchProofs ------------------------
(***************************************************************************)
(* What a thread promises about its runs and its queue, for every number   *)
(* of threads, messages, runs, clients and chunks, and on both hosts: one  *)
(* run at a time, follow-ups in order, none stranded, and the active run   *)
(* attachable.                                                             *)
(*                                                                         *)
(* The registry does not read the clients' side of the model, so neither   *)
(* does the invariant: TypeOK is cut down to the variables it needs.       *)
(***************************************************************************)
EXTENDS ThreadDispatch, SequenceTheorems, TLAPS

RegistryTypeOK ==
  /\ cached \subseteq Run
  /\ ended \in [Run -> BOOLEAN]
  /\ source \in [Run -> {"unborn", "running", "over"}]
  /\ carries \in [Run -> Message \cup {NoMessage}]
  /\ active \in [Thread -> Run \cup {NoRun}]
  /\ queue \in [Thread -> Seq(Message)]
  /\ waiters \in [Thread -> SUBSET Connection]
  /\ accepted \in [Thread -> Seq(Message)]
  /\ log \in [Thread -> Seq(Run)]

(* A run is logged when it is started, and on one thread. *)
LogInv ==
  /\ \A r \in Run, t \in Thread : RunsOn(r, t) => source[r] # "unborn"
  /\ \A r \in Run, t \in Thread, u \in Thread : RunsOn(r, t) /\ RunsOn(r, u) => t = u

(* A running run has a live buffer; a run that is not started has none. *)
LiveInv ==
  \A r \in Run : /\ source[r] = "running" => r \in cached /\ ~ended[r]
                 /\ source[r] = "unborn" => r \notin cached /\ ~ended[r]

(* Nobody waits for the next run while one is active. *)
NoWaiters == \A t \in Thread : active[t] # NoRun => waiters[t] = {}

(* The messages of the runs l, then those of the queue q, in order, are    *)
(* the messages acc: FollowUpsInOrder of one thread, pointwise.            *)
Ordered(acc, l, q, cr) ==
  /\ Len(acc) = Len(l) + Len(q)
  /\ \A i \in 1 .. Len(l) : acc[i] = cr[l[i]]
  /\ \A i \in 1 .. Len(q) : acc[Len(l) + i] = q[i]

OrderInv == \A t \in Thread : Ordered(accepted[t], log[t], queue[t], carries)

IInv ==
  /\ RegistryTypeOK /\ LogInv /\ LiveInv /\ NoWaiters /\ OrderInv
  /\ OneActiveRun /\ NoneStranded

-----------------------------------------------------------------------------
(* The variables the invariant reads: a step that leaves them alone keeps  *)
(* it.                                                                     *)
registryState ==
  <<cached, ended, source, carries, active, queue, waiters, accepted, log>>

(* Nothing the invariant reads has changed. *)
LEMMA Frozen ==
  ASSUME IInv, UNCHANGED registryState
  PROVE  IInv'
BY DEF IInv, registryState, RegistryTypeOK, LogInv, LiveInv, NoWaiters, OrderInv,
       Ordered, OneActiveRun, NoneStranded, RunsOn

(* An appended run extends the runs of its thread by itself. *)
LEMMA LogAppend ==
  ASSUME NEW l \in Seq(Run), NEW r \in Run
  PROVE  /\ Append(l, r) \in Seq(Run)
         /\ Len(Append(l, r)) = Len(l) + 1
         /\ \A i \in 1 .. Len(l) : Append(l, r)[i] = l[i]
         /\ Append(l, r)[Len(l) + 1] = r
         /\ \A q : (\E i \in 1 .. Len(Append(l, r)) : Append(l, r)[i] = q)
                     <=> q = r \/ \E i \in 1 .. Len(l) : l[i] = q
<1>1. /\ Append(l, r) \in Seq(Run)
      /\ Len(Append(l, r)) = Len(l) + 1
      /\ \A i \in 1 .. Len(l) : Append(l, r)[i] = l[i]
      /\ Append(l, r)[Len(l) + 1] = r
  BY AppendProperties
<1>2. Len(l) \in Nat
  OBVIOUS
<1> DEFINE a == Append(l, r)
<1> HIDE DEF a
<1>3. ASSUME NEW q, NEW i \in 1 .. Len(a), a[i] = q
      PROVE  q = r \/ \E j \in 1 .. Len(l) : l[j] = q
  BY <1>1, <1>2, <1>3 DEF a
<1>4. ASSUME NEW q, q = r \/ \E j \in 1 .. Len(l) : l[j] = q
      PROVE  \E i \in 1 .. Len(a) : a[i] = q
  BY <1>1, <1>2, <1>4 DEF a
<1> QED
  BY <1>1, <1>3, <1>4 DEF a

-----------------------------------------------------------------------------
(* The invariant holds initially. *)
LEMMA RegistryInit == Init => IInv
<1> SUFFICES ASSUME Init PROVE IInv
  OBVIOUS
<1>1. RegistryTypeOK
  BY DEF Init, CacheInit, RegistryTypeOK
<1>2. LogInv /\ LiveInv /\ NoWaiters
  BY DEF Init, CacheInit, LogInv, LiveInv, NoWaiters, RunsOn
<1>3. OrderInv
  BY DEF Init, OrderInv, Ordered
<1>4. OneActiveRun
  BY CacheAssumption DEF Init, OneActiveRun, RunsOn
<1>5. NoneStranded
  BY DEF Init, NoneStranded
<1> QED
  BY <1>1, <1>2, <1>3, <1>4, <1>5 DEF IInv

(* What starting a run does to the registry, whoever starts it: the runs   *)
(* of thread t are extended by r, which becomes its active run.            *)
LEMMA Started ==
  ASSUME IInv, NEW t \in Thread, NEW m \in Message, NEW r \in Run,
         source[r] = "unborn",
         carries' = [carries EXCEPT ![r] = m],
         active' = [active EXCEPT ![t] = r],
         log' = [log EXCEPT ![t] = Append(@, r)],
         waiters' = [waiters EXCEPT ![t] = {}]
  PROVE  /\ carries' \in [Run -> Message \cup {NoMessage}]
         /\ log' \in [Thread -> Seq(Run)]
         /\ active' \in [Thread -> Run \cup {NoRun}]
         /\ waiters' \in [Thread -> SUBSET Connection]
         /\ \A q \in Run, u \in Thread :
              (RunsOn(q, u))' <=> RunsOn(q, u) \/ (q = r /\ u = t)
         /\ \A q \in Run, u \in Thread : RunsOn(q, u) => q # r
         /\ \A u \in Thread : u # t => log'[u] = log[u] /\ active'[u] = active[u]
                                       /\ waiters'[u] = waiters[u]
         /\ active'[t] = r /\ waiters'[t] = {} /\ carries'[r] = m
         /\ \A q \in Run : q # r => carries'[q] = carries[q]
<1>2. RegistryTypeOK
  BY DEF IInv
<1>3. log[t] \in Seq(Run)
  BY <1>2 DEF RegistryTypeOK
<1>4. log'[t] = Append(log[t], r) /\ \A u \in Thread : u # t => log'[u] = log[u]
  BY <1>2 DEF RegistryTypeOK
<1>5. log' \in [Thread -> Seq(Run)]
  BY <1>2, <1>3, LogAppend DEF RegistryTypeOK
<1>6. \A q \in Run, u \in Thread : RunsOn(q, u) => q # r
  BY DEF IInv, LogInv
<1>7. ASSUME NEW q \in Run, NEW u \in Thread
      PROVE  (RunsOn(q, u))' <=> RunsOn(q, u) \/ (q = r /\ u = t)
  <2>1. CASE u = t
    BY <1>3, <1>4, <2>1, LogAppend DEF RunsOn
  <2>2. CASE u # t
    BY <1>4, <2>2 DEF RunsOn
  <2> QED
    BY <2>1, <2>2
<1> QED
  BY <1>2, <1>4, <1>5, <1>6, <1>7 DEF RegistryTypeOK

(* A message accepted into the queue keeps the order. *)
LEMMA OrderQueued ==
  ASSUME NEW acc \in Seq(Message), NEW l \in Seq(Run), NEW q \in Seq(Message),
         NEW cr, NEW m \in Message, Ordered(acc, l, q, cr)
  PROVE  Ordered(Append(acc, m), l, Append(q, m), cr)
<1> DEFINE n == Len(l)
           w == Len(q)
<1>1. n \in Nat /\ w \in Nat /\ Len(acc) = n + w
  BY DEF Ordered
<1>2. /\ Len(Append(acc, m)) = n + w + 1
      /\ \A i \in 1 .. n + w : Append(acc, m)[i] = acc[i]
      /\ Append(acc, m)[n + w + 1] = m
  BY <1>1, AppendProperties
<1>3. /\ Len(Append(q, m)) = w + 1
      /\ \A i \in 1 .. w : Append(q, m)[i] = q[i]
      /\ Append(q, m)[w + 1] = m
  BY AppendProperties
<1>4. /\ \A i \in 1 .. n : acc[i] = cr[l[i]]
      /\ \A i \in 1 .. w : acc[n + i] = q[i]
  BY DEF Ordered
<1>5. Len(l) = n
  OBVIOUS
<1> HIDE DEF n, w
<1>6. ASSUME NEW i \in 1 .. w + 1 PROVE Append(acc, m)[n + i] = Append(q, m)[i]
  <2>1. CASE i \in 1 .. w
    <3>1. n + i \in 1 .. n + w
      BY <1>1, <2>1
    <3> QED
      BY <1>2, <1>3, <1>4, <2>1, <3>1
  <2>2. CASE i = w + 1
    <3>1. n + i = n + w + 1
      BY <1>1, <2>2
    <3> QED
      BY <1>2, <1>3, <2>2, <3>1
  <2>3. i \in 1 .. w \/ i = w + 1
    BY <1>1
  <2> QED
    BY <2>1, <2>2, <2>3
<1>7. \A i \in 1 .. n : Append(acc, m)[i] = cr[l[i]]
  BY <1>1, <1>2, <1>4
<1>8. Len(Append(acc, m)) = n + (w + 1)
  BY <1>1, <1>2
<1> QED
  BY <1>3, <1>5, <1>6, <1>7, <1>8 DEF Ordered

(* Starting a run for the head of the queue keeps the order. *)
LEMMA OrderStarted ==
  ASSUME NEW acc \in Seq(Message), NEW l \in Seq(Run), NEW q \in Seq(Message),
         NEW cr, NEW cs, NEW r \in Run, Ordered(acc, l, q, cr), q # <<>>,
         \A i \in 1 .. Len(l) : l[i] # r,
         cs[r] = Head(q), \A x \in Run : x # r => cs[x] = cr[x]
  PROVE  Ordered(acc, Append(l, r), Tail(q), cs)
<1> DEFINE n == Len(l)
           w == Len(q)
<1>1. n \in Nat /\ w \in Nat /\ w >= 1 /\ Len(acc) = n + w
  BY DEF Ordered
<1>2. /\ Len(Append(l, r)) = n + 1
      /\ \A i \in 1 .. n : Append(l, r)[i] = l[i]
      /\ Append(l, r)[n + 1] = r
  BY LogAppend
<1>3. /\ Len(Tail(q)) = w - 1 /\ Head(q) = q[1]
      /\ \A i \in 1 .. w - 1 : Tail(q)[i] = q[i + 1]
  BY HeadTailProperties
<1>4. /\ \A i \in 1 .. n : acc[i] = cr[l[i]]
      /\ \A i \in 1 .. w : acc[n + i] = q[i]
      /\ \A i \in 1 .. n : l[i] \in Run /\ l[i] # r
  BY DEF Ordered
<1> HIDE DEF n, w
<1>5. ASSUME NEW i \in 1 .. n + 1 PROVE acc[i] = cs[Append(l, r)[i]]
  <2>1. CASE i \in 1 .. n
    <3>1. Append(l, r)[i] = l[i] /\ l[i] \in Run /\ l[i] # r /\ acc[i] = cr[l[i]]
      BY <1>2, <1>4, <2>1
    <3> QED
      BY <3>1
  <2>2. CASE i = n + 1
    <3>1. 1 \in 1 .. w
      BY <1>1
    <3>2. acc[n + 1] = q[1]
      BY <1>4, <3>1
    <3> QED
      BY <1>2, <1>3, <2>2, <3>2
  <2>3. i \in 1 .. n \/ i = n + 1
    BY <1>1
  <2> QED
    BY <2>1, <2>2, <2>3
<1>6. ASSUME NEW i \in 1 .. w - 1 PROVE acc[(n + 1) + i] = Tail(q)[i]
  <2>1. i + 1 \in 1 .. w /\ (n + 1) + i = n + (i + 1)
    BY <1>1
  <2> QED
    BY <1>3, <1>4, <2>1
<1>7. n + w = (n + 1) + (w - 1)
  BY <1>1
<1> QED
  BY <1>1, <1>2, <1>3, <1>5, <1>6, <1>7 DEF Ordered

(* A run started elsewhere leaves the order of this thread alone. *)
LEMMA OrderElsewhere ==
  ASSUME NEW acc, NEW l \in Seq(Run), NEW q, NEW cr, NEW cs, NEW r,
         Ordered(acc, l, q, cr), \A i \in 1 .. Len(l) : l[i] # r,
         \A x \in Run : x # r => cs[x] = cr[x]
  PROVE  Ordered(acc, l, q, cs)
<1>1. \A i \in 1 .. Len(l) : l[i] \in Run /\ l[i] # r
  OBVIOUS
<1> QED
  BY <1>1 DEF Ordered

(* A message to an idle thread starts a run behind an empty queue. *)
LEMMA PostToIdleKeeps ==
  ASSUME IInv, NEW t \in Thread, NEW m \in Message, NEW r \in Run, PostToIdle(t, m, r)
  PROVE  IInv'
<1>inv. /\ RegistryTypeOK /\ LogInv /\ LiveInv /\ NoWaiters /\ OrderInv
        /\ OneActiveRun /\ NoneStranded
  BY DEF IInv
<1>1. /\ StartAndPump(t, m, m, r, {}, listeners) /\ active[t] = NoRun
      /\ accepted' = [accepted EXCEPT ![t] = Append(@, m)]
      /\ queue' = queue /\ ended' = ended
  BY DEF PostToIdle, IsIdle
<1>2. /\ source[r] = "unborn"
      /\ source' \in [Run -> {"unborn", "running", "over"}]
      /\ carries' \in [Run -> Message \cup {NoMessage}]
      /\ log' \in [Thread -> Seq(Run)]
      /\ active' \in [Thread -> Run \cup {NoRun}]
      /\ waiters' \in [Thread -> SUBSET Connection]
      /\ \A q \in Run, u \in Thread :
           (RunsOn(q, u))' <=> RunsOn(q, u) \/ (q = r /\ u = t)
      /\ \A q \in Run, u \in Thread : RunsOn(q, u) => q # r
      /\ \A u \in Thread : u # t => log'[u] = log[u] /\ active'[u] = active[u]
                                    /\ waiters'[u] = waiters[u]
      /\ active'[t] = r /\ waiters'[t] = {} /\ source'[r] = "running"
      /\ carries'[r] = m /\ cached' = cached \cup {r}
      /\ \A q \in Run : q # r => carries'[q] = carries[q] /\ source'[q] = source[q]
  <2>1. /\ source[r] = "unborn" /\ cached' = cached \cup {r}
        /\ source' = [q \in Run |-> IF q = r THEN "running"
                                    ELSE IF q \in {} THEN "over" ELSE source[q]]
        /\ carries' = [carries EXCEPT ![r] = m]
        /\ active' = [active EXCEPT ![t] = r]
        /\ log' = [log EXCEPT ![t] = Append(@, r)]
        /\ waiters' = [waiters EXCEPT ![t] = {}]
    BY <1>1 DEF StartAndPump, NextRunFires, WithBuffer
  <2>2. /\ \A q \in Run : q # r => source'[q] = source[q]
        /\ source'[r] = "running"
        /\ source' \in [Run -> {"unborn", "running", "over"}]
    BY <2>1, <1>inv DEF RegistryTypeOK
  <2>3. /\ carries' \in [Run -> Message \cup {NoMessage}]
        /\ log' \in [Thread -> Seq(Run)]
        /\ active' \in [Thread -> Run \cup {NoRun}]
        /\ waiters' \in [Thread -> SUBSET Connection]
        /\ \A q \in Run, u \in Thread :
             (RunsOn(q, u))' <=> RunsOn(q, u) \/ (q = r /\ u = t)
        /\ \A q \in Run, u \in Thread : RunsOn(q, u) => q # r
        /\ \A u \in Thread : u # t => log'[u] = log[u] /\ active'[u] = active[u]
                                      /\ waiters'[u] = waiters[u]
        /\ active'[t] = r /\ waiters'[t] = {} /\ carries'[r] = m
        /\ \A q \in Run : q # r => carries'[q] = carries[q]
    BY <2>1, Started
  <2> QED
    BY <2>1, <2>2, <2>3
<1>3. accepted'[t] = Append(accepted[t], m) /\ \A u \in Thread : u # t => accepted'[u] = accepted[u]
  BY <1>1, <1>inv DEF RegistryTypeOK
<1>4. queue[t] = <<>>
  BY <1>1, <1>inv DEF NoneStranded
<1>5. RegistryTypeOK'
  BY <1>1, <1>2, <1>inv DEF RegistryTypeOK
<1>6. LogInv'
  <2>1. ASSUME NEW q \in Run, NEW u \in Thread, (RunsOn(q, u))'
        PROVE  source'[q] # "unborn"
    <3>1. RunsOn(q, u) \/ q = r
      BY <1>2, <2>1
    <3>2. RunsOn(q, u) => q # r /\ source[q] # "unborn"
      BY <1>2, <1>inv DEF LogInv
    <3> QED
      BY <1>2, <3>1, <3>2
  <2>2. ASSUME NEW q \in Run, NEW u \in Thread, NEW v \in Thread,
               (RunsOn(q, u))', (RunsOn(q, v))'
        PROVE  u = v
    <3>1. \A x \in Thread : (RunsOn(q, x))' <=> RunsOn(q, x) \/ (q = r /\ x = t)
      BY <1>2
    <3>2. \A x \in Thread : RunsOn(q, x) => q # r
      BY <1>2
    <3>3. RunsOn(q, u) /\ RunsOn(q, v) => u = v
      BY <1>inv DEF LogInv
    <3> QED
      BY <2>2, <3>1, <3>2, <3>3
  <2> QED
    BY <2>1, <2>2 DEF LogInv
<1>7. LiveInv'
  BY <1>1, <1>2, <1>inv DEF LiveInv
<1>8. NoWaiters'
  BY <1>2, <1>inv DEF NoWaiters
<1>9. NoneStranded'
  <2>1. r # NoRun
    BY CacheAssumption
  <2>2. \A u \in Thread : queue[u] # <<>> => active[u] # NoRun
    BY <1>inv DEF NoneStranded
  <2>3. \A u \in Thread : queue[u] # <<>> => active'[u] # NoRun
    BY <1>2, <2>1, <2>2
  <2> QED
    BY <1>1, <2>3 DEF NoneStranded
<1>10. OneActiveRun'
  <2>1. ASSUME NEW u \in Thread, NEW q \in Run
        PROVE  (RunsOn(q, u))' /\ source'[q] = "running" <=> active'[u] = q
    <3>1. RunsOn(q, u) /\ source[q] = "running" <=> active[u] = q
      BY <1>inv DEF OneActiveRun
    <3>2. CASE u = t
      BY <1>1, <1>2, <3>1, <3>2, CacheAssumption
    <3>3. CASE u # t
      BY <1>2, <3>1, <3>3
    <3> QED
      BY <3>2, <3>3
  <2> QED
    BY <2>1 DEF OneActiveRun
<1>11. OrderInv'
  <2>1. /\ accepted[t] \in Seq(Message) /\ log[t] \in Seq(Run)
        /\ Ordered(accepted[t], log[t], <<>>, carries)
    BY <1>4, <1>inv DEF RegistryTypeOK, OrderInv
  <2>2. /\ log'[t] = Append(log[t], r) /\ queue'[t] = <<>>
        /\ accepted'[t] = Append(accepted[t], m)
    BY <1>1, <1>3, <1>4, <1>inv DEF RegistryTypeOK, StartAndPump
  <2>3. <<>> \in Seq(Message) /\ Append(<<>>, m) = <<m>>
    OBVIOUS
  <2>4. Ordered(accepted'[t], log[t], <<m>>, carries)
    BY <2>1, <2>2, <2>3, OrderQueued
  <2>5. accepted'[t] \in Seq(Message) /\ <<m>> \in Seq(Message)
    BY <2>1, <2>2
  <2>6. <<m>> # <<>> /\ Head(<<m>>) = m /\ Tail(<<m>>) = <<>>
    OBVIOUS
  <2>7. \A i \in 1 .. Len(log[t]) : log[t][i] # r
    BY <1>2, <2>1 DEF RunsOn
  <2>8. carries'[r] = Head(<<m>>) /\ \A q \in Run : q # r => carries'[q] = carries[q]
    BY <1>2, <2>6
  <2>9. Ordered(accepted'[t], Append(log[t], r), Tail(<<m>>), carries')
    BY <2>1, <2>4, <2>5, <2>6, <2>7, <2>8, OrderStarted
  <2>10. ASSUME NEW u \in Thread, u # t
         PROVE  Ordered(accepted'[u], log'[u], queue'[u], carries')
    <3>1. accepted'[u] = accepted[u] /\ log'[u] = log[u] /\ queue'[u] = queue[u]
      BY <1>1, <1>2, <1>3, <2>10
    <3>2. log[u] \in Seq(Run) /\ Ordered(accepted[u], log[u], queue[u], carries)
      BY <1>inv DEF RegistryTypeOK, OrderInv
    <3>3. \A i \in 1 .. Len(log[u]) : log[u][i] # r
      BY <1>2, <3>2 DEF RunsOn
    <3>4. Ordered(accepted[u], log[u], queue[u], carries')
      BY <2>8, <3>2, <3>3, OrderElsewhere
    <3> QED
      BY <3>1, <3>4
  <2> QED
    BY <2>2, <2>6, <2>9, <2>10 DEF OrderInv
<1> QED
  BY <1>5, <1>6, <1>7, <1>8, <1>9, <1>10, <1>11 DEF IInv

(* A message to an active thread goes to the end of the queue. *)
LEMMA PostToActiveKeeps ==
  ASSUME IInv, NEW t \in Thread, NEW m \in Message, PostToActive(t, m)
  PROVE  IInv'
<1>inv. /\ RegistryTypeOK /\ LogInv /\ LiveInv /\ NoWaiters /\ OrderInv
        /\ OneActiveRun /\ NoneStranded
  BY DEF IInv
<1>1. /\ active[t] # NoRun
      /\ accepted' = [accepted EXCEPT ![t] = Append(@, m)]
      /\ queue' = [queue EXCEPT ![t] = Append(@, m)]
      /\ UNCHANGED <<cached, ended, source, carries, active, waiters, log>>
  BY DEF PostToActive, IsIdle, cacheVars, runVars
<1>2. RegistryTypeOK'
  BY <1>1, <1>inv DEF RegistryTypeOK
<1>3. LogInv' /\ LiveInv' /\ NoWaiters' /\ OneActiveRun'
  BY <1>1, <1>inv DEF LogInv, LiveInv, NoWaiters, OneActiveRun, RunsOn
<1>4. NoneStranded'
  BY <1>1, <1>inv DEF NoneStranded, RegistryTypeOK
<1>5. OrderInv'
  <2>1. ASSUME NEW u \in Thread
        PROVE  Ordered(accepted'[u], log'[u], queue'[u], carries')
    <3>1. /\ accepted[u] \in Seq(Message) /\ log[u] \in Seq(Run)
          /\ queue[u] \in Seq(Message)
          /\ Ordered(accepted[u], log[u], queue[u], carries)
      BY <1>inv DEF RegistryTypeOK, OrderInv
    <3>2. log'[u] = log[u] /\ carries' = carries
      BY <1>1
    <3>3. CASE u = t
      <4>1. accepted'[u] = Append(accepted[u], m) /\ queue'[u] = Append(queue[u], m)
        BY <1>1, <1>inv, <3>3 DEF RegistryTypeOK
      <4>2. Ordered(Append(accepted[u], m), log[u], Append(queue[u], m), carries)
        BY <3>1, OrderQueued
      <4> QED
        BY <3>2, <4>1, <4>2
    <3>4. CASE u # t
      <4>1. accepted'[u] = accepted[u] /\ queue'[u] = queue[u]
        BY <1>1, <1>inv, <3>4 DEF RegistryTypeOK
      <4> QED
        BY <3>1, <3>2, <4>1
    <3> QED
      BY <3>3, <3>4
  <2> QED
    BY <2>1 DEF OrderInv
<1> QED
  BY <1>2, <1>3, <1>4, <1>5 DEF IInv

(* The run a pump ends is the active run of its thread. *)
LEMMA FinishedRunIsActive ==
  ASSUME IInv, NEW t \in Thread, NEW r \in Run, source[r] = "running", RunsOn(r, t)
  PROVE  /\ active[t] = r /\ r \in cached /\ ~ended[r]
         /\ \A u \in Thread : u # t => active[u] # r
<1>1. active[t] = r
  BY DEF IInv, OneActiveRun
<1>2. r \in cached /\ ~ended[r]
  BY DEF IInv, LiveInv
<1>3. \A u \in Thread : u # t => active[u] # r
  BY DEF IInv, OneActiveRun, LogInv
<1> QED
  BY <1>1, <1>2, <1>3

(* The last run of a thread ends: the thread is idle. *)
LEMMA PumpFinishLastKeeps ==
  ASSUME IInv, NEW t \in Thread, NEW r \in Run, PumpFinish(r, t, NoRun)
  PROVE  IInv'
<1>inv. /\ RegistryTypeOK /\ LogInv /\ LiveInv /\ NoWaiters /\ OrderInv
        /\ OneActiveRun /\ NoneStranded
  BY DEF IInv
<1>1. /\ source[r] = "running" /\ RunsOn(r, t)
      /\ ended' = [ended EXCEPT ![r] = @ \/ Terminates(r)]
      /\ accepted' = accepted
      /\ ~HasNext(r, t)
      /\ active' = [active EXCEPT ![t] = IF @ = r THEN NoRun ELSE @]
      /\ source' = [source EXCEPT ![r] = "over"]
      /\ UNCHANGED <<cached, queue, waiters, carries, log>>
  BY CacheAssumption DEF PumpFinish, CacheEnd
<1>2. /\ active[t] = r /\ r \in cached /\ ~ended[r]
      /\ \A u \in Thread : u # t => active[u] # r
  BY <1>1, FinishedRunIsActive
<1>3. queue[t] = <<>>
  BY <1>1, <1>2 DEF HasNext
<1>4. /\ active'[t] = NoRun
      /\ \A u \in Thread : u # t => active'[u] = active[u]
      /\ source'[r] = "over"
      /\ \A q \in Run : q # r => source'[q] = source[q] /\ ended'[q] = ended[q]
  BY <1>1, <1>2, <1>inv DEF RegistryTypeOK
<1>5. RegistryTypeOK'
  <2>1. Terminates(r) \in BOOLEAN
    BY DEF Terminates
  <2>2. ended' \in [Run -> BOOLEAN]
    BY <1>1, <1>inv, <2>1 DEF RegistryTypeOK
  <2> QED
    BY <1>1, <1>inv, <2>2 DEF RegistryTypeOK
<1>6. LogInv'
  BY <1>1, <1>4, <1>inv DEF LogInv, RunsOn
<1>7. LiveInv'
  BY <1>1, <1>4, <1>inv DEF LiveInv
<1>8. NoWaiters' /\ NoneStranded'
  BY <1>1, <1>3, <1>4, <1>inv DEF NoWaiters, NoneStranded
<1>9. OneActiveRun'
  <2>1. ASSUME NEW u \in Thread, NEW q \in Run
        PROVE  RunsOn(q, u)' /\ source'[q] = "running" <=> active'[u] = q
    <3>1. RunsOn(q, u) /\ source[q] = "running" <=> active[u] = q
      BY <1>inv DEF OneActiveRun
    <3>2. RunsOn(q, u)' <=> RunsOn(q, u)
      BY <1>1 DEF RunsOn
    <3> QED
      BY <1>2, <1>4, <3>1, <3>2, CacheAssumption
  <2> QED
    BY <2>1 DEF OneActiveRun
<1>10. OrderInv'
  BY <1>1, <1>inv DEF OrderInv, Ordered
<1> QED
  BY <1>5, <1>6, <1>7, <1>8, <1>9, <1>10 DEF IInv

(* A run ends and the oldest follow-up starts in the same tick. *)
LEMMA PumpFinishNextKeeps ==
  ASSUME IInv, NEW t \in Thread, NEW r \in Run, NEW next \in Run,
         PumpFinish(r, t, next)
  PROVE  IInv'
<1>inv. /\ RegistryTypeOK /\ LogInv /\ LiveInv /\ NoWaiters /\ OrderInv
        /\ OneActiveRun /\ NoneStranded
  BY DEF IInv
<1> DEFINE m == Head(queue[t])
<1>1. /\ source[r] = "running" /\ RunsOn(r, t)
      /\ ended' = [ended EXCEPT ![r] = @ \/ Terminates(r)]
      /\ accepted' = accepted
      /\ HasNext(r, t)
      /\ queue' = [queue EXCEPT ![t] = Tail(@)]
      /\ source[next] = "unborn" /\ cached' = cached \cup {next}
      /\ source' = [q \in Run |-> IF q = next THEN "running"
                                  ELSE IF q \in {r} THEN "over" ELSE source[q]]
      /\ carries' = [carries EXCEPT ![next] = m]
      /\ active' = [active EXCEPT ![t] = next]
      /\ log' = [log EXCEPT ![t] = Append(@, next)]
      /\ waiters' = [waiters EXCEPT ![t] = {}]
  BY CacheAssumption
     DEF PumpFinish, CacheEnd, Shift, StartAndPump, NextRunFires, WithBuffer
<1>2. /\ active[t] = r /\ r \in cached /\ ~ended[r]
      /\ \A u \in Thread : u # t => active[u] # r
  BY <1>1, FinishedRunIsActive
<1>3. queue[t] \in Seq(Message) /\ queue[t] # <<>> /\ m \in Message
  BY <1>1, <1>inv DEF HasNext, RegistryTypeOK
<1> HIDE DEF m
<1>4. /\ carries' \in [Run -> Message \cup {NoMessage}]
      /\ log' \in [Thread -> Seq(Run)]
      /\ active' \in [Thread -> Run \cup {NoRun}]
      /\ waiters' \in [Thread -> SUBSET Connection]
      /\ \A q \in Run, u \in Thread :
           RunsOn(q, u)' <=> RunsOn(q, u) \/ (q = next /\ u = t)
      /\ \A q \in Run, u \in Thread : RunsOn(q, u) => q # next
      /\ \A u \in Thread : u # t => log'[u] = log[u] /\ active'[u] = active[u]
                                    /\ waiters'[u] = waiters[u]
      /\ active'[t] = next /\ waiters'[t] = {} /\ carries'[next] = m
      /\ \A q \in Run : q # next => carries'[q] = carries[q]
  BY <1>1, <1>3, Started
<1>5. /\ next # r /\ source'[r] = "over" /\ source'[next] = "running"
      /\ source' \in [Run -> {"unborn", "running", "over"}]
      /\ \A q \in Run : q # r /\ q # next => source'[q] = source[q]
      /\ \A q \in Run : q # r => ended'[q] = ended[q]
  BY <1>1, <1>inv DEF RegistryTypeOK
<1>6. /\ queue'[t] = Tail(queue[t]) /\ log'[t] = Append(log[t], next)
      /\ \A u \in Thread : u # t => queue'[u] = queue[u]
  BY <1>1, <1>inv DEF RegistryTypeOK
<1>7. RegistryTypeOK'
  <2>1. ended' \in [Run -> BOOLEAN]
    <3>1. Terminates(r) \in BOOLEAN
      BY DEF Terminates
    <3> QED
      BY <1>1, <1>inv, <3>1 DEF RegistryTypeOK
  <2>2. queue' \in [Thread -> Seq(Message)]
    <3>1. Tail(queue[t]) \in Seq(Message)
      BY <1>3, HeadTailProperties
    <3> QED
      BY <1>1, <1>inv, <3>1 DEF RegistryTypeOK
  <2>3. cached' \subseteq Run
    BY <1>1, <1>inv DEF RegistryTypeOK
  <2> QED
    BY <1>1, <1>4, <1>5, <1>inv, <2>1, <2>2, <2>3 DEF RegistryTypeOK
<1>8. LogInv'
  <2>1. ASSUME NEW q \in Run, NEW u \in Thread, RunsOn(q, u)'
        PROVE  source'[q] # "unborn"
    BY <1>4, <1>5, <1>inv, <2>1 DEF LogInv
  <2>2. ASSUME NEW q \in Run, NEW u \in Thread, NEW v \in Thread,
               RunsOn(q, u)', RunsOn(q, v)'
        PROVE  u = v
    <3>1. \A x \in Thread : RunsOn(q, x)' <=> RunsOn(q, x) \/ (q = next /\ x = t)
      BY <1>4
    <3>2. \A x \in Thread : RunsOn(q, x) => q # next
      BY <1>4
    <3>3. RunsOn(q, u) /\ RunsOn(q, v) => u = v
      BY <1>inv DEF LogInv
    <3> QED
      BY <2>2, <3>1, <3>2, <3>3
  <2> QED
    BY <2>1, <2>2 DEF LogInv
<1>9. LiveInv'
  BY <1>1, <1>5, <1>inv DEF LiveInv
<1>10. NoWaiters'
  BY <1>4, <1>inv DEF NoWaiters
<1>11. NoneStranded'
  BY <1>4, <1>6, <1>inv, CacheAssumption, SMTT(20) DEF NoneStranded
<1>12. OneActiveRun'
  <2>1. ASSUME NEW u \in Thread, NEW q \in Run
        PROVE  RunsOn(q, u)' /\ source'[q] = "running" <=> active'[u] = q
    <3>1. RunsOn(q, u) /\ source[q] = "running" <=> active[u] = q
      BY <1>inv DEF OneActiveRun
    <3>2. RunsOn(q, u)' <=> RunsOn(q, u) \/ (q = next /\ u = t)
      BY <1>4
    <3>3. CASE u = t
      BY <1>2, <1>4, <1>5, <3>1, <3>2, <3>3
    <3>4. CASE u # t
      BY <1>1, <1>2, <1>4, <1>5, <3>1, <3>2, <3>4
    <3> QED
      BY <3>3, <3>4
  <2> QED
    BY <2>1 DEF OneActiveRun
<1>13. OrderInv'
  <2>1. ASSUME NEW u \in Thread
        PROVE  /\ accepted[u] \in Seq(Message) /\ log[u] \in Seq(Run)
               /\ Ordered(accepted[u], log[u], queue[u], carries)
               /\ \A i \in 1 .. Len(log[u]) : log[u][i] # next
    <3>1. /\ accepted[u] \in Seq(Message) /\ log[u] \in Seq(Run)
          /\ Ordered(accepted[u], log[u], queue[u], carries)
      BY <1>inv DEF RegistryTypeOK, OrderInv
    <3> QED
      BY <1>4, <3>1 DEF RunsOn
  <2>2. carries'[next] = Head(queue[t])
    BY <1>4 DEF m
  <2>3. Ordered(accepted[t], Append(log[t], next), Tail(queue[t]), carries')
    <3>1. /\ accepted[t] \in Seq(Message) /\ log[t] \in Seq(Run)
          /\ Ordered(accepted[t], log[t], queue[t], carries)
          /\ \A i \in 1 .. Len(log[t]) : log[t][i] # next
      BY <2>1
    <3>2. \A x \in Run : x # next => carries'[x] = carries[x]
      BY <1>4
    <3> QED
      BY <1>3, <2>2, <3>1, <3>2, OrderStarted
  <2>4. ASSUME NEW u \in Thread, u # t
        PROVE  Ordered(accepted[u], log[u], queue[u], carries')
    <3>1. /\ log[u] \in Seq(Run) /\ Ordered(accepted[u], log[u], queue[u], carries)
          /\ \A i \in 1 .. Len(log[u]) : log[u][i] # next
      BY <2>1
    <3>2. \A x \in Run : x # next => carries'[x] = carries[x]
      BY <1>4
    <3> QED
      BY <3>1, <3>2, OrderElsewhere
  <2>5. ASSUME NEW u \in Thread
        PROVE  Ordered(accepted'[u], log'[u], queue'[u], carries')
    <3>1. CASE u = t
      BY <1>1, <1>6, <2>3, <3>1
    <3>2. CASE u # t
      BY <1>1, <1>4, <1>6, <2>4, <3>2
    <3> QED
      BY <3>1, <3>2
  <2> QED
    BY <2>5 DEF OrderInv
<1> QED
  BY <1>7, <1>8, <1>9, <1>10, <1>11, <1>12, <1>13 DEF IInv

(* The eviction of an ended run takes no running run's buffer. *)
LEMMA EvictRunKeeps ==
  ASSUME IInv, NEW r \in Run, EvictRun(r)
  PROVE  IInv'
<1>inv. /\ RegistryTypeOK /\ LogInv /\ LiveInv /\ NoWaiters /\ OrderInv
        /\ OneActiveRun /\ NoneStranded
  BY DEF IInv
<1>1. /\ r \in cached /\ ended[r]
      /\ cached' = cached \ {r} /\ ended' = [ended EXCEPT ![r] = FALSE]
      /\ UNCHANGED <<source, carries, active, queue, waiters, accepted, log>>
  BY DEF EvictRun, Evict, runVars, registryVars, historyVars
<1>2. RegistryTypeOK'
  BY <1>1, <1>inv DEF RegistryTypeOK
<1>3. LiveInv'
  BY <1>1, <1>inv DEF LiveInv, RegistryTypeOK
<1>4. LogInv'
  BY <1>1, <1>inv DEF LogInv, RunsOn
<1>5. NoWaiters' /\ NoneStranded'
  BY <1>1, <1>inv DEF NoWaiters, NoneStranded
<1>6. OrderInv'
  BY <1>1, <1>inv DEF OrderInv, Ordered
<1>7. OneActiveRun'
  BY <1>1, <1>inv DEF OneActiveRun, RunsOn
<1> QED
  BY <1>2, <1>3, <1>4, <1>5, <1>6, <1>7 DEF IInv

(* A step that only touches the waiters, and adds none to a thread with an *)
(* active run.                                                             *)
LEMMA WaitersKeep ==
  ASSUME IInv, waiters' \in [Thread -> SUBSET Connection],
         \A t \in Thread : active[t] # NoRun => waiters'[t] \subseteq waiters[t],
         UNCHANGED <<cached, ended, source, carries, active, queue, accepted, log>>
  PROVE  IInv'
<1>inv. /\ RegistryTypeOK /\ LogInv /\ LiveInv /\ NoWaiters /\ OrderInv
        /\ OneActiveRun /\ NoneStranded
  BY DEF IInv
<1>1. RegistryTypeOK'
  BY <1>inv DEF RegistryTypeOK
<1>2. NoWaiters'
  BY <1>inv DEF NoWaiters
<1>3. LogInv'
  BY <1>inv DEF LogInv, RunsOn
<1>4. LiveInv' /\ NoneStranded'
  BY <1>inv DEF LiveInv, NoneStranded
<1>5. OrderInv'
  BY <1>inv DEF OrderInv, Ordered
<1>6. OneActiveRun'
  BY <1>inv DEF OneActiveRun, RunsOn
<1> QED
  BY <1>1, <1>2, <1>3, <1>4, <1>5, <1>6 DEF IInv

(* The active run is attachable, so only a subscriber of an idle thread    *)
(* becomes a waiter.                                                       *)
LEMMA SubscribeIdleKeeps ==
  ASSUME IInv, epoch \in [Client -> Nat], NEW c \in Client, SubscribeIdle(c)
  PROVE  IInv'
<1>inv. RegistryTypeOK /\ LiveInv /\ OneActiveRun
  BY DEF IInv
<1> DEFINE w == Watches[c]
<1>1. /\ active[w] \notin cached
      /\ epoch' = [epoch EXCEPT ![c] = @ + 1]
      /\ waiters' = [waiters EXCEPT ![w] = @ \cup {<<c, epoch'[c]>>}]
      /\ UNCHANGED <<cached, ended, source, carries, active, queue, accepted, log>>
  BY DEF SubscribeIdle, NextConnection, cacheVars, runVars, historyVars
<1>2. w \in Thread
  BY ThreadAssumption
<1>3. active[w] = NoRun
  BY <1>1, <1>2, <1>inv DEF RegistryTypeOK, LiveInv, OneActiveRun
<1>4. <<c, epoch'[c]>> \in Connection
  BY <1>1 DEF Connection
<1>5. waiters' \in [Thread -> SUBSET Connection]
  BY <1>1, <1>2, <1>4, <1>inv DEF RegistryTypeOK
<1>6. \A t \in Thread : active[t] # NoRun => waiters'[t] \subseteq waiters[t]
  BY <1>1, <1>3, <1>inv DEF RegistryTypeOK
<1> QED
  BY <1>1, <1>5, <1>6, WaitersKeep

(* A teardown only takes waiters away. *)
LEMMA OffNextKeeps ==
  ASSUME IInv, NEW k, OffNext(k),
         UNCHANGED <<cached, ended, source, carries, active, queue, accepted, log>>
  PROVE  IInv'
<1>1. waiters \in [Thread -> SUBSET Connection]
  BY DEF IInv, RegistryTypeOK
<1>2. waiters' \in [Thread -> SUBSET Connection]
  BY <1>1 DEF OffNext
<1>3. \A t \in Thread : waiters'[t] \subseteq waiters[t]
  BY <1>1 DEF OffNext
<1> QED
  BY <1>2, <1>3, WaitersKeep

-----------------------------------------------------------------------------
(* The number of a connection is a number. *)
LEMMA EpochType == Spec => [](epoch \in [Client -> Nat])
<1> DEFINE EpochOK == epoch \in [Client -> Nat]
<1>1. Init => EpochOK
  BY DEF Init, CacheInit
<1>2. EpochOK /\ [Next]_vars => EpochOK'
  <2> SUFFICES ASSUME EpochOK, [Next]_vars PROVE EpochOK'
    OBVIOUS
  <2>1. ASSUME NEW c \in Client, NextConnection(c) PROVE EpochOK'
    BY <2>1 DEF NextConnection
  <2>2. epoch' = epoch \/ \E c \in Client : NextConnection(c)
    <3>1. CASE \E c \in Client : SubscribeActive(c) \/ SubscribeIdle(c)
      BY <3>1 DEF SubscribeActive, SubscribeIdle
    <3>2. CASE \E c \in Client : Drop(c) \/ Read(c)
      BY <3>2 DEF Drop, Read, ReadFrame, ReadDone
    <3>3. CASE \E t \in Thread, m \in Message :
                 PostToActive(t, m) \/ \E r \in Run : PostToIdle(t, m, r)
      BY <3>3 DEF PostToActive, PostToIdle, clientVars
    <3>4. CASE \E r \in Run : PumpChunk(r) \/ EvictRun(r)
      BY <3>4 DEF PumpChunk, EvictRun, clientVars
    <3>5. CASE \E r \in Run, t \in Thread, next \in Run \cup {NoRun} :
                 PumpFinish(r, t, next)
      BY <3>5 DEF PumpFinish, CacheEnd
    <3>6. CASE \E k \in timers : IdleTimeout(k)
      BY <3>6 DEF IdleTimeout
    <3>7. CASE UNCHANGED vars
      BY <3>7 DEF vars, clientVars
    <3> QED
      BY <3>1, <3>2, <3>3, <3>4, <3>5, <3>6, <3>7 DEF Next
  <2> QED
    BY <2>1, <2>2
<1> QED
  BY <1>1, <1>2, PTL DEF Spec

(* The invariant is kept by every step. *)
LEMMA RegistryStep == IInv /\ epoch \in [Client -> Nat] /\ [Next]_vars => IInv'
<1> SUFFICES ASSUME IInv, epoch \in [Client -> Nat], [Next]_vars PROVE IInv'
  OBVIOUS
<1>1. ASSUME NEW t \in Thread, NEW m \in Message, PostToActive(t, m) PROVE IInv'
  BY <1>1, PostToActiveKeeps
<1>2. ASSUME NEW t \in Thread, NEW m \in Message, NEW r \in Run, PostToIdle(t, m, r)
      PROVE  IInv'
  BY <1>2, PostToIdleKeeps
<1>3. ASSUME NEW r \in Run, PumpChunk(r) PROVE IInv'
  <2>1. r \in cached
    BY <1>3 DEF PumpChunk, IInv, LiveInv
  <2>2. UNCHANGED registryState
    BY <1>3, <2>1 DEF PumpChunk, AppendFrame, WithBuffer, registryState,
                      registryVars, historyVars
  <2> QED
    BY <2>2, Frozen
<1>4. ASSUME NEW r \in Run, EvictRun(r) PROVE IInv'
  BY <1>4, EvictRunKeeps
<1>5. ASSUME NEW r \in Run, NEW t \in Thread, NEW next \in Run \cup {NoRun},
             PumpFinish(r, t, next)
      PROVE  IInv'
  BY <1>5, PumpFinishLastKeeps, PumpFinishNextKeeps
<1>6. ASSUME NEW c \in Client, SubscribeActive(c) PROVE IInv'
  <2>1. UNCHANGED registryState
    BY <1>6 DEF SubscribeActive, Attach, registryState, runVars, registryVars,
                historyVars
  <2> QED
    BY <2>1, Frozen
<1>7. ASSUME NEW c \in Client, SubscribeIdle(c) PROVE IInv'
  BY <1>7, SubscribeIdleKeeps
<1>8. ASSUME NEW c \in Client, Drop(c) PROVE IInv'
  <2>1. UNCHANGED <<cached, ended, source, carries, active, queue, accepted, log>>
    BY <1>8 DEF Drop, runVars, historyVars
  <2>2. OffNext(Current(c)) \/ waiters' = waiters
    BY <1>8 DEF Drop, TeardownWaiter
  <2>3. CASE waiters' = waiters
    BY <2>1, <2>3, Frozen DEF registryState
  <2> QED
    BY <2>1, <2>2, <2>3, OffNextKeeps
<1>9. ASSUME NEW c \in Client, Read(c) PROVE IInv'
  <2>1. UNCHANGED registryState
    BY <1>9 DEF Read, ReadFrame, ReadDone, registryState, cacheVars, runVars,
                registryVars, historyVars
  <2> QED
    BY <2>1, Frozen
<1>10. ASSUME NEW k \in timers, IdleTimeout(k) PROVE IInv'
  <2>1. /\ UNCHANGED <<cached, ended, source, carries, active, queue, accepted, log>>
        /\ OffNext(k)
    BY <1>10 DEF IdleTimeout, TeardownWaiter, runVars, historyVars
  <2> QED
    BY <2>1, OffNextKeeps
<1>11. CASE UNCHANGED vars
  <2>1. UNCHANGED registryState
    BY <1>11 DEF vars, registryState, cacheVars, runVars, registryVars, historyVars
  <2> QED
    BY <2>1, Frozen
<1> QED
  BY <1>1, <1>2, <1>3, <1>4, <1>5, <1>6, <1>7, <1>8, <1>9, <1>10, <1>11 DEF Next

(* The invariant of the registry. *)
LEMMA Invariant == Spec => []IInv
BY RegistryInit, RegistryStep, EpochType, PTL DEF Spec

-----------------------------------------------------------------------------
(* Two posts at once, or a post and the end of a run, never put two runs   *)
(* of one thread to work: postThreadFollowUp and the pump's finally block  *)
(* decide and act in one tick.                                             *)
THEOREM OneRunAtATime == Spec => []OneActiveRun
<1>1. IInv => OneActiveRun
  BY DEF IInv
<1> QED
  BY <1>1, Invariant, PTL

(* A message queued behind a run is never left on an idle thread: endRun   *)
(* hands it back in the tick that ends the run.                            *)
THEOREM NeverStranded == Spec => []NoneStranded
<1>1. IInv => NoneStranded
  BY DEF IInv
<1> QED
  BY <1>1, Invariant, PTL

(* The thread's runs answer its messages in the order in which they were   *)
(* accepted, each once, whatever was queued and whoever drained it.        *)
THEOREM OrderKept == Spec => []FollowUpsInOrder
<1>1. IInv => FollowUpsInOrder
  <2> SUFFICES ASSUME IInv, NEW t \in Thread
               PROVE  accepted[t] = [i \in 1 .. Len(log[t]) |-> carries[log[t][i]]]
                                      \o queue[t]
    BY DEF FollowUpsInOrder
  <2> DEFINE a == accepted[t]
             l == log[t]
             q == queue[t]
             s == [i \in 1 .. Len(l) |-> carries[l[i]]]
  <2>1. /\ a \in Seq(Message) /\ l \in Seq(Run) /\ q \in Seq(Message)
        /\ carries \in [Run -> Message \cup {NoMessage}]
        /\ Ordered(a, l, q, carries)
    BY DEF IInv, RegistryTypeOK, OrderInv
  <2>2. s \in Seq(Message \cup {NoMessage}) /\ Len(s) = Len(l)
        /\ \A i \in 1 .. Len(l) : s[i] = carries[l[i]]
    <3>1. Len(l) \in Nat /\ \A i \in 1 .. Len(l) : l[i] \in Run
      BY <2>1
    <3>2. s \in [1 .. Len(l) -> Message \cup {NoMessage}]
      BY <2>1, <3>1
    <3> QED
      BY <3>1, <3>2, SeqDef, LenProperties
  <2> HIDE DEF a, l, q, s
  <2>3. q \in Seq(Message \cup {NoMessage}) /\ a \in Seq(Message \cup {NoMessage})
    BY <2>1
  <2>4. /\ s \o q \in Seq(Message \cup {NoMessage})
        /\ Len(s \o q) = Len(s) + Len(q)
        /\ \A i \in 1 .. Len(s) + Len(q) :
             (s \o q)[i] = IF i <= Len(s) THEN s[i] ELSE q[i - Len(s)]
    BY <2>2, <2>3, ConcatProperties
  <2>5. /\ Len(a) = Len(l) + Len(q)
        /\ \A i \in 1 .. Len(l) : a[i] = carries[l[i]]
        /\ \A i \in 1 .. Len(q) : a[Len(l) + i] = q[i]
    BY <2>1 DEF Ordered
  <2>6. Len(l) \in Nat /\ Len(q) \in Nat
    BY <2>1
  <2>7. ASSUME NEW i \in 1 .. Len(a) PROVE a[i] = (s \o q)[i]
    <3>1. i \in 1 .. Len(s) + Len(q)
      BY <2>2, <2>5
    <3>2. CASE i <= Len(l)
      BY <2>2, <2>4, <2>5, <2>6, <3>1, <3>2
    <3>3. CASE ~(i <= Len(l))
      <4>1. i - Len(l) \in 1 .. Len(q) /\ Len(l) + (i - Len(l)) = i
        BY <2>2, <2>6, <3>1, <3>3
      <4>2. a[Len(l) + (i - Len(l))] = q[i - Len(l)]
        BY <2>5, <4>1
      <4> QED
        BY <2>2, <2>4, <3>1, <3>3, <4>1, <4>2
    <3> QED
      BY <3>2, <3>3
  <2>8. Len(a) = Len(s \o q)
    BY <2>2, <2>4, <2>5
  <2>9. a = s \o q
    BY <2>3, <2>4, <2>7, <2>8, SeqEqual
  <2> QED
    BY <2>9 DEF a, s, q, l
<1> QED
  BY <1>1, Invariant, PTL

(* A subscriber never waits for a next run while one is live: the active   *)
(* run has a buffer from the tick it starts to the tick it ends.           *)
THEOREM AttachableAtOnce == Spec => []ActiveIsAttachable
<1>1. IInv => ActiveIsAttachable
  <2> SUFFICES ASSUME IInv, NEW t \in Thread, active[t] # NoRun
               PROVE  active[t] \in cached /\ ~ended[active[t]] /\ waiters[t] = {}
    BY DEF ActiveIsAttachable
  <2>1. active[t] \in Run
    BY DEF IInv, RegistryTypeOK
  <2>2. source[active[t]] = "running"
    BY <2>1 DEF IInv, OneActiveRun
  <2> QED
    BY <2>1, <2>2 DEF IInv, LiveInv, NoWaiters
<1> QED
  BY <1>1, Invariant, PTL

-----------------------------------------------------------------------------
(* The subscribers' side: what bounds a waiter.  It reads the connections,  *)
(* which the registry's invariant does not.                                 *)

WaiterTypeOK ==
  /\ conn \in [Client -> ConnState]
  /\ epoch \in [Client -> Nat]
  /\ fin \in [Client -> BOOLEAN]
  /\ listeners \in [Run -> SUBSET Connection]
  /\ waiters \in [Thread -> SUBSET Connection]
  /\ timers \in SUBSET Connection

(* A waiter is an open connection of a client that watches the thread, its  *)
(* stream is not closed, and no run has it as a listener; a listener is a   *)
(* connection that has been opened.                                         *)
Subscribed ==
  /\ \A t \in Thread : \A k \in waiters[t] :
       /\ Watches[k[1]] = t
       /\ conn[k[1]] = "open" /\ Current(k[1]) = k /\ ~fin[k[1]]
       /\ \A r \in Run : k \notin listeners[r]
  /\ \A r \in Run : \A k \in listeners[r] : k[2] <= epoch[k[1]]

WaiterInv ==
  /\ WaiterTypeOK
  /\ \A t \in Thread : waiters[t] \subseteq timers
  /\ HostSignals => Subscribed

(* The invariant holds initially. *)
LEMMA WaiterInit == Init => WaiterInv
BY DEF Init, CacheInit, ConnState, Connection, WaiterInv, WaiterTypeOK, Subscribed

(* A step that takes waiters and listeners away, leaves the connections     *)
(* and their timers alone, and closes no waiter's stream.                   *)
LEMMA TakesAway ==
  ASSUME WaiterInv, WaiterTypeOK',
         \A t \in Thread : waiters'[t] \subseteq waiters[t],
         \A r \in Run : listeners'[r] \subseteq listeners[r],
         \A t \in Thread : waiters'[t] \subseteq timers',
         UNCHANGED <<conn, epoch>>,
         HostSignals => \A t \in Thread : \A k \in waiters'[t] : ~fin'[k[1]]
  PROVE  WaiterInv'
<1>1. HostSignals => Subscribed'
  <2> SUFFICES ASSUME HostSignals PROVE Subscribed'
    OBVIOUS
  <2>1. Subscribed
    BY DEF WaiterInv
  <2> QED
    BY <2>1 DEF Subscribed, Current
<1> QED
  BY <1>1 DEF WaiterInv

(* cache.end(r) tells listeners, and a waiter is none. *)
LEMMA EndSparesWaiters ==
  ASSUME WaiterInv, NEW r \in Run, CacheEnd(r)
  PROVE  /\ fin' \in [Client -> BOOLEAN]
         /\ HostSignals => \A t \in Thread : \A k \in waiters[t] : ~fin'[k[1]]
<1>1. fin' = [c \in Client |-> fin[c] \/ c \in Reached(Told(r))]
  BY DEF CacheEnd
<1>2. fin' \in [Client -> BOOLEAN]
  BY <1>1 DEF WaiterInv, WaiterTypeOK
<1>3. ASSUME HostSignals, NEW t \in Thread, NEW k \in waiters[t] PROVE ~fin'[k[1]]
  <2>1. k \in Connection /\ k[1] \in Client
    BY DEF WaiterInv, WaiterTypeOK, Connection
  <2>2. ~fin[k[1]] /\ Current(k[1]) = k /\ k \notin listeners[r]
    BY <1>3 DEF WaiterInv, Subscribed
  <2>3. Current(k[1]) \notin Told(r)
    BY <2>2 DEF Told
  <2> QED
    BY <1>1, <2>1, <2>2, <2>3 DEF Reached
<1> QED
  BY <1>2, <1>3

(* startRun turns the waiters of its thread into listeners of the run; a    *)
(* waiter of another thread is another connection.                          *)
LEMMA FiringKeeps ==
  ASSUME WaiterInv, NEW t \in Thread, NEW r \in Run, NEW ls,
         ls \in [Run -> SUBSET Connection],
         \A q \in Run : ls[q] \subseteq listeners[q],
         NextRunFires(t, r, ls), UNCHANGED <<conn, epoch, timers>>,
         fin' \in [Client -> BOOLEAN],
         HostSignals => \A u \in Thread : \A k \in waiters[u] : ~fin'[k[1]]
  PROVE  WaiterInv'
<1>type. WaiterTypeOK
  BY DEF WaiterInv
<1>1. /\ waiters' = [waiters EXCEPT ![t] = {}]
      /\ listeners' = [ls EXCEPT ![r] = waiters[t]]
  BY DEF NextRunFires, Fired
<1>2. WaiterTypeOK'
  BY <1>1, <1>type DEF WaiterTypeOK
<1>3. \A u \in Thread : waiters'[u] \subseteq waiters[u] /\ (u = t => waiters'[u] = {})
  BY <1>1, <1>type DEF WaiterTypeOK
<1>4. \A u \in Thread : waiters'[u] \subseteq timers'
  BY <1>3 DEF WaiterInv
<1>5. ASSUME HostSignals PROVE Subscribed'
  <2>1. Subscribed
    BY <1>5 DEF WaiterInv
  <2>2. \A q \in Run : \A k \in listeners'[q] : k \in listeners[q] \/ k \in waiters[t]
    BY <1>1
  <2>3. ASSUME NEW q \in Run, NEW k \in listeners'[q] PROVE k[2] <= epoch'[k[1]]
    <3>1. CASE k \in listeners[q]
      BY <2>1, <3>1 DEF Subscribed
    <3>2. CASE k \in waiters[t]
      <4>1. k \in Connection /\ k = <<k[1], epoch[k[1]]>>
        BY <2>1, <3>2, <1>type DEF WaiterTypeOK, Subscribed, Current
      <4> QED
        BY <4>1 DEF Connection
    <3> QED
      BY <2>2, <3>1, <3>2
  <2>4. ASSUME NEW u \in Thread, NEW k \in waiters'[u]
        PROVE  /\ Watches[k[1]] = u
               /\ conn'[k[1]] = "open" /\ Current(k[1])' = k /\ ~fin'[k[1]]
               /\ \A q \in Run : k \notin listeners'[q]
    <3>1. k \in waiters[u] /\ u # t
      BY <1>3
    <3>2. Watches[k[1]] = u /\ conn[k[1]] = "open" /\ Current(k[1]) = k
          /\ \A q \in Run : k \notin listeners[q]
      BY <2>1, <3>1 DEF Subscribed
    <3>3. k \notin waiters[t]
      BY <2>1, <3>1, <3>2 DEF Subscribed
    <3> QED
      BY <1>5, <2>2, <3>1, <3>2, <3>3 DEF Current
  <2> QED
    BY <2>3, <2>4 DEF Subscribed
<1> QED
  BY <1>2, <1>4, <1>5 DEF WaiterInv

(* The source of a run returns. *)
LEMMA PumpFinishBounds ==
  ASSUME WaiterInv, NEW r \in Run, NEW t \in Thread, NEW next \in Run \cup {NoRun},
         PumpFinish(r, t, next)
  PROVE  WaiterInv'
<1> DEFINE ls == [listeners EXCEPT ![r] = Kept(r)]
<1>type. WaiterTypeOK
  BY DEF WaiterInv
<1>1. CacheEnd(r) /\ UNCHANGED <<conn, epoch, timers>>
  BY DEF PumpFinish, CacheEnd
<1>2. /\ fin' \in [Client -> BOOLEAN]
      /\ HostSignals => \A u \in Thread : \A k \in waiters[u] : ~fin'[k[1]]
  BY <1>1, EndSparesWaiters
<1>3. ls \in [Run -> SUBSET Connection] /\ \A q \in Run : ls[q] \subseteq listeners[q]
  BY <1>type DEF WaiterTypeOK, Kept
<1>4. CASE ~HasNext(r, t)
  <2>1. listeners' = ls /\ waiters' = waiters
    BY <1>4 DEF PumpFinish
  <2>2. WaiterTypeOK'
    BY <1>type, <1>1, <1>2, <1>3, <2>1 DEF WaiterTypeOK
  <2>3. \A u \in Thread : waiters'[u] \subseteq timers'
    BY <1>1, <2>1 DEF WaiterInv
  <2> QED
    BY <1>1, <1>2, <1>3, <2>1, <2>2, <2>3, TakesAway
<1>5. CASE HasNext(r, t)
  <2>1. next \in Run /\ NextRunFires(t, next, ls)
    BY <1>5 DEF PumpFinish, StartAndPump
  <2> QED
    BY <1>1, <1>2, <1>3, <2>1, FiringKeeps
<1> QED
  BY <1>4, <1>5

(* A new connection is its client's only one: on a host that reports a lost *)
(* one, what the client had waiting is gone.                                *)
LEMMA NothingWaits ==
  ASSUME WaiterInv, HostSignals, NEW c \in Client, conn[c] # "open"
  PROVE  \A t \in Thread : \A k \in waiters[t] : k[1] # c
BY DEF WaiterInv, Subscribed

LEMMA SubscribeActiveBounds ==
  ASSUME WaiterInv, NEW c \in Client, SubscribeActive(c), active[Watches[c]] \in Run,
         ended \in [Run -> BOOLEAN]
  PROVE  WaiterInv'
<1> DEFINE r == active[Watches[c]]
           k0 == <<c, epoch'[c]>>
<1>type. WaiterTypeOK
  BY DEF WaiterInv
<1>1. /\ conn[c] \in {"off", "done"}
      /\ conn' = [conn EXCEPT ![c] = "open"]
      /\ epoch' = [epoch EXCEPT ![c] = @ + 1]
      /\ fin' = [fin EXCEPT ![c] = Closes(r)]
      /\ listeners' = [listeners EXCEPT ![r] = Following(r, k0)]
      /\ UNCHANGED <<waiters, timers>>
  BY DEF SubscribeActive, NextConnection, Attach, registryVars
<1>2. k0 \in Connection
  BY <1>1, <1>type DEF WaiterTypeOK, Connection
<1>3. WaiterTypeOK'
  <2>1. conn' \in [Client -> ConnState] /\ epoch' \in [Client -> Nat]
    BY <1>1, <1>type DEF WaiterTypeOK, ConnState
  <2>2. fin' \in [Client -> BOOLEAN]
    BY <1>1, <1>type DEF WaiterTypeOK, Closes
  <2>3. listeners' \in [Run -> SUBSET Connection]
    BY <1>1, <1>2, <1>type DEF WaiterTypeOK, Following
  <2> QED
    BY <1>1, <2>1, <2>2, <2>3, <1>type DEF WaiterTypeOK
<1>4. ASSUME HostSignals PROVE Subscribed'
  <2>1. Subscribed
    BY <1>4 DEF WaiterInv
  <2>2. \A q \in Run : \A k \in listeners'[q] : k \in listeners[q] \/ k = k0
    BY <1>1, <1>type DEF WaiterTypeOK, Following
  <2>3. ASSUME NEW t \in Thread, NEW k \in waiters'[t]
        PROVE  /\ Watches[k[1]] = t
               /\ conn'[k[1]] = "open" /\ Current(k[1])' = k /\ ~fin'[k[1]]
               /\ \A q \in Run : k \notin listeners'[q]
    <3>1. k \in waiters[t] /\ k[1] # c
      BY <1>1, <1>4, NothingWaits
    <3>2. k \in Connection
      BY <3>1, <1>type DEF WaiterTypeOK
    <3>3. k[1] \in Client
      BY <3>2 DEF Connection
    <3>4. /\ conn'[k[1]] = conn[k[1]] /\ epoch'[k[1]] = epoch[k[1]]
          /\ fin'[k[1]] = fin[k[1]]
      BY <1>1, <3>1, <3>3, <1>type DEF WaiterTypeOK
    <3> QED
      BY <2>1, <2>2, <3>1, <3>4 DEF Subscribed, Current
  <2>4. ASSUME NEW q \in Run, NEW k \in listeners'[q] PROVE k[2] <= epoch'[k[1]]
    <3>1. CASE k = k0
      BY <3>1, <1>1, <1>type DEF WaiterTypeOK
    <3>2. CASE k \in listeners[q]
      <4>1. k[2] <= epoch[k[1]] /\ k \in Connection
        BY <2>1, <3>2, <1>type DEF Subscribed, WaiterTypeOK
      <4>2. k[1] \in Client /\ k[2] \in Nat
        BY <4>1 DEF Connection
      <4>3. epoch'[k[1]] \in Nat /\ epoch[k[1]] \in Nat /\ epoch[k[1]] <= epoch'[k[1]]
        BY <1>1, <4>2, <1>type DEF WaiterTypeOK
      <4> QED
        BY <4>1, <4>2, <4>3
    <3> QED
      BY <2>2, <3>1, <3>2
  <2> QED
    BY <2>3, <2>4 DEF Subscribed
<1>5. \A t \in Thread : waiters'[t] \subseteq timers'
  BY <1>1 DEF WaiterInv
<1> QED
  BY <1>3, <1>4, <1>5 DEF WaiterInv

LEMMA SubscribeIdleBounds ==
  ASSUME WaiterInv, NEW c \in Client, SubscribeIdle(c)
  PROVE  WaiterInv'
<1> DEFINE w == Watches[c]
           k0 == <<c, epoch'[c]>>
<1>type. WaiterTypeOK
  BY DEF WaiterInv
<1>1. /\ conn[c] \in {"off", "done"}
      /\ conn' = [conn EXCEPT ![c] = "open"]
      /\ epoch' = [epoch EXCEPT ![c] = @ + 1]
      /\ fin' = [fin EXCEPT ![c] = FALSE]
      /\ waiters' = [waiters EXCEPT ![w] = @ \cup {k0}]
      /\ timers' = timers \cup {k0}
      /\ UNCHANGED listeners
  BY DEF SubscribeIdle, NextConnection, cacheVars
<1>2. w \in Thread
  BY ThreadAssumption
<1>3. k0 \in Connection
  BY <1>1, <1>type DEF WaiterTypeOK, Connection
<1>4. WaiterTypeOK'
  BY <1>1, <1>2, <1>3, <1>type DEF WaiterTypeOK, ConnState
<1>5. \A t \in Thread : \A k \in waiters'[t] : k \in waiters[t] \/ (k = k0 /\ t = w)
  BY <1>1, <1>2, <1>type DEF WaiterTypeOK
<1>6. \A t \in Thread : waiters'[t] \subseteq timers'
  BY <1>1, <1>5 DEF WaiterInv
<1>7. ASSUME HostSignals PROVE Subscribed'
  <2>1. Subscribed
    BY <1>7 DEF WaiterInv
  <2>2. ASSUME NEW q \in Run, NEW k \in listeners'[q]
        PROVE  k[2] <= epoch'[k[1]] /\ k # k0
    <3>1. k[2] <= epoch[k[1]] /\ k \in Connection
      BY <1>1, <2>1, <1>type DEF Subscribed, WaiterTypeOK
    <3>2. k[1] \in Client /\ k[2] \in Nat
      BY <3>1 DEF Connection
    <3>3. epoch'[k[1]] \in Nat /\ epoch[k[1]] \in Nat /\ epoch[k[1]] <= epoch'[k[1]]
      BY <1>1, <3>2, <1>type DEF WaiterTypeOK
    <3>4. k # k0
      <4> SUFFICES ASSUME k = k0 PROVE FALSE
        OBVIOUS
      <4>1. k[1] = c /\ k[2] = epoch[c] + 1 /\ epoch[c] \in Nat
        BY <1>1, <1>type DEF WaiterTypeOK
      <4> QED
        BY <3>1, <4>1
    <3> QED
      BY <3>1, <3>2, <3>3, <3>4
  <2>3. ASSUME NEW t \in Thread, NEW k \in waiters'[t]
        PROVE  /\ Watches[k[1]] = t
               /\ conn'[k[1]] = "open" /\ Current(k[1])' = k /\ ~fin'[k[1]]
               /\ \A q \in Run : k \notin listeners'[q]
    <3>1. CASE k = k0 /\ t = w
      <4>1. conn'[c] = "open" /\ ~fin'[c]
        BY <1>1, <1>type DEF WaiterTypeOK
      <4> QED
        BY <2>2, <3>1, <4>1 DEF Current
    <3>2. CASE k \in waiters[t]
      <4>1. k[1] # c
        BY <1>1, <1>7, <3>2, NothingWaits
      <4>2. k \in Connection
        BY <3>2, <1>type DEF WaiterTypeOK
      <4>3. k[1] \in Client
        BY <4>2 DEF Connection
      <4>4. /\ conn'[k[1]] = conn[k[1]] /\ epoch'[k[1]] = epoch[k[1]]
            /\ fin'[k[1]] = fin[k[1]]
        BY <1>1, <4>1, <4>3, <1>type DEF WaiterTypeOK
      <4> QED
        BY <1>1, <2>1, <3>2, <4>4 DEF Subscribed, Current
    <3> QED
      BY <1>5, <3>1, <3>2
  <2> QED
    BY <2>2, <2>3 DEF Subscribed
<1> QED
  BY <1>4, <1>6, <1>7 DEF WaiterInv

(* The idle wait of connection k runs out: k leaves the registry with its   *)
(* timer, and only k's stream is closed.                                    *)
LEMMA IdleTimeoutBounds ==
  ASSUME WaiterInv, NEW k \in timers, IdleTimeout(k)
  PROVE  WaiterInv'
<1>type. WaiterTypeOK
  BY DEF WaiterInv
<1>1. /\ timers' = timers \ {k}
      /\ waiters' = [t \in Thread |-> waiters[t] \ {k}]
      /\ listeners' = [r \in Run |-> listeners[r] \ {k}]
      /\ fin' = [c \in Client |-> fin[c] \/ c \in Reached({k})]
      /\ UNCHANGED <<conn, epoch>>
  BY DEF IdleTimeout, TeardownWaiter, OffNext, Unsubscribe
<1>2. WaiterTypeOK'
  BY <1>1, <1>type DEF WaiterTypeOK
<1>3. ASSUME HostSignals, NEW t \in Thread, NEW j \in waiters'[t] PROVE ~fin'[j[1]]
  <2>1. j \in waiters[t] /\ j # k
    BY <1>1
  <2>2. j \in Connection
    BY <2>1, <1>type DEF WaiterTypeOK
  <2>3. j[1] \in Client /\ ~fin[j[1]] /\ Current(j[1]) = j
    BY <1>3, <2>1, <2>2 DEF WaiterInv, Subscribed, Connection
  <2> QED
    BY <1>1, <2>1, <2>3 DEF Reached
<1>4. \A t \in Thread : waiters'[t] \subseteq waiters[t] /\ waiters'[t] \subseteq timers'
  BY <1>1 DEF WaiterInv
<1>5. \A r \in Run : listeners'[r] \subseteq listeners[r]
  BY <1>1
<1> QED
  BY <1>1, <1>2, <1>3, <1>4, <1>5, TakesAway

(* The network drops c's connection. *)
LEMMA DropBounds ==
  ASSUME WaiterInv, NEW c \in Client, Drop(c)
  PROVE  WaiterInv'
<1>type. WaiterTypeOK
  BY DEF WaiterInv
<1>1. /\ conn' = [conn EXCEPT ![c] = "off"]
      /\ fin' = [fin EXCEPT ![c] = FALSE]
      /\ UNCHANGED epoch
  BY DEF Drop
<1>2. CASE ~HostSignals
  <2>1. UNCHANGED <<listeners, waiters, timers>>
    BY <1>2 DEF Drop
  <2>2. WaiterTypeOK'
    BY <1>1, <2>1, <1>type DEF WaiterTypeOK, ConnState
  <2> QED
    BY <1>2, <2>1, <2>2 DEF WaiterInv
<1>3. CASE HostSignals
  <2>1. /\ waiters' = [t \in Thread |-> waiters[t] \ {Current(c)}]
        /\ listeners' = [r \in Run |-> listeners[r] \ {Current(c)}]
        /\ timers' = timers \ {Current(c)}
    BY <1>3 DEF Drop, TeardownWaiter, OffNext, Unsubscribe
  <2>2. WaiterTypeOK'
    BY <1>1, <2>1, <1>type DEF WaiterTypeOK, ConnState
  <2>3. Subscribed
    BY <1>3 DEF WaiterInv
  <2>4. ASSUME NEW t \in Thread, NEW k \in waiters'[t]
        PROVE  /\ Watches[k[1]] = t
               /\ conn'[k[1]] = "open" /\ Current(k[1])' = k /\ ~fin'[k[1]]
               /\ \A q \in Run : k \notin listeners'[q]
    <3>1. k \in waiters[t] /\ k # Current(c)
      BY <2>1
    <3>2. k[1] # c
      BY <2>3, <3>1 DEF Subscribed
    <3>3. k \in Connection
      BY <3>1, <1>type DEF WaiterTypeOK
    <3>4. k[1] \in Client
      BY <3>3 DEF Connection
    <3>5. conn'[k[1]] = conn[k[1]] /\ fin'[k[1]] = fin[k[1]]
      BY <1>1, <3>2, <3>4, <1>type DEF WaiterTypeOK
    <3> QED
      BY <1>1, <2>1, <2>3, <3>1, <3>5 DEF Subscribed, Current
  <2>5. \A q \in Run : \A k \in listeners'[q] : k[2] <= epoch'[k[1]]
    BY <1>1, <2>1, <2>3 DEF Subscribed
  <2>6. \A t \in Thread : waiters'[t] \subseteq timers'
    BY <2>1 DEF WaiterInv
  <2> QED
    BY <2>2, <2>4, <2>5, <2>6 DEF WaiterInv, Subscribed
<1> QED
  BY <1>2, <1>3

(* A client that reads [DONE] is no waiter: its stream has been closed. *)
LEMMA ReadBounds ==
  ASSUME WaiterInv, NEW c \in Client, Read(c)
  PROVE  WaiterInv'
<1>type. WaiterTypeOK
  BY DEF WaiterInv
<1>1. UNCHANGED <<listeners, waiters, timers, epoch, fin>>
  BY DEF Read, ReadFrame, ReadDone, cacheVars, registryVars
<1>2. CASE UNCHANGED conn
  BY <1>1, <1>2 DEF WaiterInv, WaiterTypeOK, Subscribed, Current
<1>3. CASE ReadDone(c)
  <2>1. conn' = [conn EXCEPT ![c] = "done"] /\ fin[c]
    BY <1>3 DEF ReadDone
  <2>2. WaiterTypeOK'
    BY <1>1, <2>1, <1>type DEF WaiterTypeOK, ConnState
  <2>3. ASSUME HostSignals PROVE Subscribed'
    <3>1. Subscribed
      BY <2>3 DEF WaiterInv
    <3>2. ASSUME NEW t \in Thread, NEW k \in waiters[t] PROVE conn'[k[1]] = "open"
      <4>1. k \in Connection
        BY <1>type DEF WaiterTypeOK
      <4>2. k[1] \in Client /\ conn[k[1]] = "open" /\ ~fin[k[1]]
        BY <3>1, <4>1 DEF Connection, Subscribed
      <4> QED
        BY <2>1, <4>2, <1>type DEF WaiterTypeOK
    <3> QED
      BY <1>1, <3>1, <3>2 DEF Subscribed, Current
  <2> QED
    BY <1>1, <2>2, <2>3 DEF WaiterInv
<1>4. ReadDone(c) \/ UNCHANGED conn
  BY DEF Read, ReadFrame
<1> QED
  BY <1>2, <1>3, <1>4

(* The invariant is kept by every step. *)
LEMMA WaiterStep == IInv /\ WaiterInv /\ [Next]_vars => WaiterInv'
<1> SUFFICES ASSUME IInv, WaiterInv, [Next]_vars PROVE WaiterInv'
  OBVIOUS
<1>type. WaiterTypeOK
  BY DEF WaiterInv
<1> DEFINE Untouched == UNCHANGED <<conn, epoch, fin, listeners, waiters, timers>>
<1>same. ASSUME Untouched PROVE WaiterInv'
  BY <1>same DEF WaiterInv, WaiterTypeOK, Subscribed, Current
<1>1. ASSUME NEW t \in Thread, NEW m \in Message, PostToActive(t, m) PROVE WaiterInv'
  BY <1>1, <1>same DEF PostToActive, cacheVars, clientVars
<1>2. ASSUME NEW t \in Thread, NEW m \in Message, NEW r \in Run, PostToIdle(t, m, r)
      PROVE  WaiterInv'
  <2>1. NextRunFires(t, r, listeners) /\ UNCHANGED <<conn, epoch, timers, fin>>
    BY <1>2 DEF PostToIdle, StartAndPump
  <2>2. HostSignals => \A u \in Thread : \A k \in waiters[u] : ~fin'[k[1]]
    BY <2>1 DEF WaiterInv, Subscribed
  <2>3. listeners \in [Run -> SUBSET Connection] /\ fin' \in [Client -> BOOLEAN]
    BY <2>1, <1>type DEF WaiterTypeOK
  <2> QED
    BY <2>1, <2>2, <2>3, FiringKeeps
<1>3. ASSUME NEW r \in Run, PumpChunk(r) PROVE WaiterInv'
  BY <1>3, <1>same DEF PumpChunk, AppendFrame, registryVars
<1>4. ASSUME NEW r \in Run, EvictRun(r) PROVE WaiterInv'
  <2>1. /\ listeners' = [listeners EXCEPT ![r] = {}]
        /\ UNCHANGED <<conn, epoch, fin, waiters, timers>>
    BY <1>4 DEF EvictRun, Evict, clientVars, registryVars
  <2>2. WaiterTypeOK'
    BY <2>1, <1>type DEF WaiterTypeOK
  <2>3. \A q \in Run : listeners'[q] \subseteq listeners[q]
    BY <2>1, <1>type DEF WaiterTypeOK
  <2>4. \A t \in Thread : waiters'[t] \subseteq timers'
    BY <2>1 DEF WaiterInv
  <2>5. HostSignals => \A t \in Thread : \A k \in waiters'[t] : ~fin'[k[1]]
    BY <2>1 DEF WaiterInv, Subscribed
  <2> QED
    BY <2>1, <2>2, <2>3, <2>4, <2>5, TakesAway
<1>5. ASSUME NEW r \in Run, NEW t \in Thread, NEW next \in Run \cup {NoRun},
             PumpFinish(r, t, next)
      PROVE  WaiterInv'
  BY <1>5, PumpFinishBounds
<1>6. ASSUME NEW c \in Client, SubscribeActive(c) PROVE WaiterInv'
  <2>1. active[Watches[c]] \in Run /\ ended \in [Run -> BOOLEAN]
    BY <1>6 DEF SubscribeActive, IInv, RegistryTypeOK
  <2> QED
    BY <1>6, <2>1, SubscribeActiveBounds
<1>7. ASSUME NEW c \in Client, SubscribeIdle(c) PROVE WaiterInv'
  BY <1>7, SubscribeIdleBounds
<1>8. ASSUME NEW c \in Client, Drop(c) PROVE WaiterInv'
  BY <1>8, DropBounds
<1>9. ASSUME NEW c \in Client, Read(c) PROVE WaiterInv'
  BY <1>9, ReadBounds
<1>10. ASSUME NEW k \in timers, IdleTimeout(k) PROVE WaiterInv'
  BY <1>10, IdleTimeoutBounds
<1>11. CASE UNCHANGED vars
  BY <1>11, <1>same DEF vars, cacheVars, clientVars, registryVars
<1> QED
  BY <1>1, <1>2, <1>3, <1>4, <1>5, <1>6, <1>7, <1>8, <1>9, <1>10, <1>11 DEF Next

(* A one-shot waiter does not pile up in the registry of a thread that has  *)
(* no next run: its idle-wait timer is armed as long as it is registered,   *)
(* and where the host reports lost connections its subscriber is there.     *)
THEOREM WaitersAreBounded == Spec => []WaiterIsBounded
<1>1. WaiterInv => WaiterIsBounded
  BY DEF WaiterInv, Subscribed, WaiterIsBounded
<1> QED
  BY <1>1, WaiterInit, WaiterStep, Invariant, PTL DEF Spec
=============================================================================
