--------------------------- MODULE ThreadDispatch ---------------------------
(***************************************************************************)
(* Threads (conversations) over the durable cache.  A message posted to an *)
(* idle thread starts a run, one posted to an active thread is queued and  *)
(* runs as a continuation when the active run ends (thread-dispatcher.ts,  *)
(* thread-run-registry.ts).  A client subscribes to the thread rather than *)
(* to a run (handle-thread-routes.ts): to the active run if there is one,  *)
(* else it waits, bounded by a timer, for the next one.                    *)
(*                                                                         *)
(* The pump that feeds the cache is headless: no POST response carries the *)
(* frames, so a run has no `poster` here.                                  *)
(***************************************************************************)
EXTENDS RunEventCache

CONSTANTS Thread,      \* threads (session ids)
          Message,     \* messages, each posted once
          NoMessage,
          Watches,     \* Watches[c]: the thread client c subscribes to
          HostSignals, \* BOOLEAN: a lost connection reaches the server
          SendsCursor  \* BOOLEAN: clients send Last-Event-ID (EventSource)

ASSUME ThreadAssumption ==
  /\ NoMessage \notin Message
  /\ Watches \in [Client -> Thread]
  /\ HostSignals \in BOOLEAN
  /\ SendsCursor \in BOOLEAN

VARIABLES source,   \* source[r]: "unborn", "running" or "over"
          produced, \* produced[r]: chunks pumped into the cache
          carries,  \* carries[r]: the message run r answers
          via,      \* via[r]: the message whose request built its startRun
          active,   \* active[t]: the thread's active run, or NoRun
          queue,    \* queue[t]: follow-ups waiting for the active run
          waiters,  \* waiters[t]: connections waiting for the next run
          timers,   \* connections whose idle-wait timer is armed
          lastId,   \* lastId[c]: the id of the last frame c ever read
          accepted, \* accepted[t]: messages answered 202, in order
          log       \* log[t]: runs started, in order

runVars      == <<source, produced, carries, via>>
registryVars == <<active, queue, waiters>>
historyVars  == <<accepted, log>>
vars == <<cacheVars, clientVars, runVars, registryVars, timers, lastId, historyVars>>

TypeOK ==
  /\ CacheTypeOK
  /\ source \in [Run -> {"unborn", "running", "over"}]
  /\ produced \in [Run -> Nat]
  /\ carries \in [Run -> Message \cup {NoMessage}]
  /\ via \in [Run -> Message \cup {NoMessage}]
  /\ active \in [Thread -> Run \cup {NoRun}]
  /\ queue \in [Thread -> Seq(Message)]
  /\ waiters \in [Thread -> SUBSET Connection]
  /\ timers \in SUBSET Connection
  /\ lastId \in [Client -> Int]
  /\ accepted \in [Thread -> Seq(Message)]
  /\ log \in [Thread -> Seq(Run)]

Init ==
  /\ CacheInit
  /\ source = [r \in Run |-> "unborn"]
  /\ produced = [r \in Run |-> 0]
  /\ carries = [r \in Run |-> NoMessage]
  /\ via = [r \in Run |-> NoMessage]
  /\ active = [t \in Thread |-> NoRun]
  /\ queue = [t \in Thread |-> <<>>]
  /\ waiters = [t \in Thread |-> {}]
  /\ timers = {}
  /\ lastId = [c \in Client |-> -1]
  /\ accepted = [t \in Thread |-> <<>>]
  /\ log = [t \in Thread |-> <<>>]

-----------------------------------------------------------------------------
(* Starting a run *)

(* The connections whose one-shot callback startRun fires. *)
Fired(t) == waiters[t]

(* registry.startRun fires the one-shot waiters: each attaches to the new  *)
(* run from its first frame.  `ls` is what the same tick made of the other *)
(* runs' listeners.                                                        *)
NextRunFires(t, r, ls) ==
  /\ waiters' = [waiters EXCEPT ![t] = {}]
  /\ listeners' = [ls EXCEPT ![r] = Fired(t)]
  /\ LET woken == {c \in Client : Current(c) \in waiters[t] /\ conn[c] = "open"}
     IN  /\ runOf' = [c \in Client |-> IF c \in woken THEN r ELSE runOf[c]]
         /\ got' = [c \in Client |-> IF c \in woken THEN <<>> ELSE got[c]]

(* startAndPump: mint a run id, begin() in the cache, startRun in the      *)
(* registry, and the pump.  `request` is the one whose closure runs it,    *)
(* `over` the runs that ended in the same tick.                            *)
StartAndPump(t, m, request, r, over, ls) ==
  /\ source[r] = "unborn"
  /\ cached' = WithBuffer(r)
  /\ source' = [q \in Run |-> IF q = r THEN "running"
                              ELSE IF q \in over THEN "over" ELSE source[q]]
  /\ carries' = [carries EXCEPT ![r] = m]
  /\ via' = [via EXCEPT ![r] = request]
  /\ active' = [active EXCEPT ![t] = r]
  /\ log' = [log EXCEPT ![t] = Append(@, r)]
  /\ NextRunFires(t, r, ls)

-----------------------------------------------------------------------------
(* POST .../threads/<t>/message *)

Unposted(m) == \A t \in Thread : \A i \in 1 .. Len(accepted[t]) : accepted[t][i] # m

\* Mutant of IsIdle: a post does not look at the active run.
IsIdleAlways(t) == TRUE

IsIdle(t) == active[t] = NoRun

(* A message to an idle thread starts a run. *)
PostToIdle(t, m, r) ==
  /\ Unposted(m) /\ IsIdle(t)
  /\ accepted' = [accepted EXCEPT ![t] = Append(@, m)]
  /\ StartAndPump(t, m, m, r, {}, listeners)
  /\ UNCHANGED <<frames, ended, conn, epoch, wire, fin, produced, queue, timers, lastId>>

(* A message to an active thread is queued. *)
PostToActive(t, m) ==
  /\ Unposted(m) /\ ~IsIdle(t)
  /\ accepted' = [accepted EXCEPT ![t] = Append(@, m)]
  /\ queue' = [queue EXCEPT ![t] = Append(@, m)]
  /\ UNCHANGED <<cacheVars, clientVars, runVars, active, waiters, timers, lastId, log>>

-----------------------------------------------------------------------------
(* The pump *)

PumpChunk(r) ==
  /\ source[r] = "running"
  /\ produced[r] < MaxFrames
  /\ AppendFrame(r, produced[r] + 1, {})
  /\ produced' = [produced EXCEPT ![r] = @ + 1]
  /\ UNCHANGED <<conn, epoch, runOf, fin, got, source, carries, via, registryVars,
                 timers, lastId, historyVars>>

\* Mutant of Shift: the newest follow-up first.
ShiftLast(q) == [next |-> q[Len(q)], rest |-> SubSeq(q, 1, Len(q) - 1)]

(* queue.shift() *)
Shift(q) == [next |-> Head(q), rest |-> Tail(q)]

RunsOn(r, t) == \E i \in 1 .. Len(log[t]) : log[t][i] = r

(* The part of the finally block that touches neither the registry nor     *)
(* the listeners: cache.end(r).                                            *)
CacheEnd(r) ==
  /\ ended' = [ended EXCEPT ![r] = @ \/ Terminates(r)]
  /\ fin' = [c \in Client |-> fin[c] \/ c \in Reached(Told(r))]
  /\ UNCHANGED <<frames, conn, epoch, wire, produced, timers, lastId, accepted>>

\* Mutant of HasNext: the follow-ups are left to the next post.
HasNextNever(r, t) == FALSE

(* A continuation is due: r is the thread's current run, and not the last. *)
HasNext(r, t) == active[t] = r /\ queue[t] # <<>>

(* The source returns or throws: the finally block ends the run in the     *)
(* cache, then endRun (a no-op unless r is current) hands back the oldest  *)
(* follow-up, which starts in the same tick with the SAME deps: the        *)
(* startRun closure of the request that started r.                         *)
PumpFinish(r, t, next) ==
  /\ source[r] = "running" /\ RunsOn(r, t)
  /\ CacheEnd(r)
  /\ LET ls == [listeners EXCEPT ![r] = Kept(r)]
     IN  \/ /\ ~HasNext(r, t) /\ next = NoRun
            /\ active' = [active EXCEPT ![t] = IF @ = r THEN NoRun ELSE @]
            /\ source' = [source EXCEPT ![r] = "over"]
            /\ listeners' = ls
            /\ UNCHANGED <<cached, runOf, got, queue, waiters, carries, via, log>>
         \/ /\ HasNext(r, t) /\ next \in Run
            /\ queue' = [queue EXCEPT ![t] = Shift(@).rest]
            /\ StartAndPump(t, Shift(queue[t]).next, via[r], next, {r}, ls)

EvictRun(r) ==
  /\ Evict(r)
  /\ UNCHANGED <<clientVars, runVars, registryVars, timers, lastId, historyVars>>

-----------------------------------------------------------------------------
(* GET .../threads/<t>/stream *)

(* The client's next connection: an EventSource that lost its stream, or   *)
(* whose stream was closed, opens it again.                                *)
NextConnection(c) ==
  /\ conn[c] \in {"off", "done"} /\ epoch[c] < MaxConns
  /\ conn' = [conn EXCEPT ![c] = "open"]
  /\ epoch' = [epoch EXCEPT ![c] = @ + 1]

(* Active and cached: the reconnect handler, from the cursor of the        *)
(* request.  A transcript of another run makes room for this one.          *)
SubscribeActive(c) ==
  LET r == active[Watches[c]]
  IN  /\ r \in cached
      /\ NextConnection(c)
      /\ Attach(c, r, IF SendsCursor THEN lastId[c] ELSE -1)
      /\ runOf' = [runOf EXCEPT ![c] = r]
      /\ got' = [got EXCEPT ![c] = IF SendsCursor /\ runOf[c] = r THEN @ ELSE <<>>]
      /\ UNCHANGED <<runVars, registryVars, timers, lastId, historyVars>>

(* Otherwise: register a one-shot waiter and arm the idle-wait timer. *)
SubscribeIdle(c) ==
  /\ active[Watches[c]] \notin cached
  /\ NextConnection(c)
  /\ waiters' = [waiters EXCEPT ![Watches[c]] = @ \cup {<<c, epoch'[c]>>}]
  /\ timers' = timers \cup {<<c, epoch'[c]>>}
  /\ runOf' = [runOf EXCEPT ![c] = NoRun]
  /\ got' = [got EXCEPT ![c] = <<>>]
  /\ wire' = [wire EXCEPT ![c] = <<>>]
  /\ fin' = [fin EXCEPT ![c] = FALSE]
  /\ UNCHANGED <<cacheVars, runVars, active, queue, lastId, historyVars>>

\* Mutant of OffNext: the one-shot waiter stays in the registry.
OffNextNot(k) == UNCHANGED waiters

(* offNext() of connection k. *)
OffNext(k) == waiters' = [t \in Thread |-> waiters[t] \ {k}]

(* teardownWaiter: unregister the waiter, detach from the run it got. *)
TeardownWaiter(k) == OffNext(k) /\ Unsubscribe(k)

(* The idle-wait timer fires.  Nothing cleared it when a run started, so   *)
(* the connection it closes may be following a live run.                   *)
IdleTimeout(k) ==
  /\ k \in timers
  /\ timers' = timers \ {k}
  /\ TeardownWaiter(k)
  /\ fin' = [c \in Client |-> fin[c] \/ c \in Reached({k})]
  /\ UNCHANGED <<cached, frames, ended, conn, epoch, runOf, wire, got, runVars,
                 active, queue, lastId, historyVars>>

(* The network drops the client's connection: a host that reports it runs  *)
(* the abort listener, which tears down and clears the timer.              *)
Drop(c) ==
  /\ conn[c] = "open"
  /\ conn' = [conn EXCEPT ![c] = "off"]
  /\ wire' = [wire EXCEPT ![c] = <<>>]
  /\ fin' = [fin EXCEPT ![c] = FALSE]
  /\ IF HostSignals
     THEN TeardownWaiter(Current(c)) /\ timers' = timers \ {Current(c)}
     ELSE UNCHANGED <<listeners, waiters, timers>>
  /\ UNCHANGED <<cached, frames, ended, epoch, runOf, got, runVars, active, queue,
                 lastId, historyVars>>

Read(c) ==
  /\ \/ ReadFrame(c) /\ lastId' = [lastId EXCEPT ![c] = Head(wire[c]).seq]
     \/ ReadDone(c) /\ UNCHANGED lastId
  /\ UNCHANGED <<runVars, registryVars, timers, historyVars>>

-----------------------------------------------------------------------------
Next ==
  \/ \E t \in Thread, m \in Message :
       PostToActive(t, m) \/ \E r \in Run : PostToIdle(t, m, r)
  \/ \E r \in Run : PumpChunk(r) \/ EvictRun(r)
  \/ \E r \in Run, t \in Thread, next \in Run \cup {NoRun} : PumpFinish(r, t, next)
  \/ \E c \in Client : SubscribeActive(c) \/ SubscribeIdle(c) \/ Drop(c) \/ Read(c)
  \/ \E k \in timers : IdleTimeout(k)

Spec == Init /\ [][Next]_vars

(* Fair: an agent run terminates, an armed timer fires, a client reads. *)
FairSpec ==
  /\ Spec
  /\ \A r \in Run :
       /\ WF_vars(\E t \in Thread, next \in Run \cup {NoRun} : PumpFinish(r, t, next))
       /\ WF_vars(EvictRun(r))
  /\ WF_vars(\E k \in timers : IdleTimeout(k))
  /\ \A c \in Client : WF_vars(Read(c))

-----------------------------------------------------------------------------
(* What a thread promises *)

(* At most one run of a thread works at a time: the active one. *)
OneActiveRun ==
  \A t \in Thread : \A r \in Run :
    RunsOn(r, t) /\ source[r] = "running" <=> active[t] = r

(* Follow-ups run in the order in which they were accepted, each once. *)
FollowUpsInOrder ==
  \A t \in Thread :
    accepted[t] = [i \in 1 .. Len(log[t]) |-> carries[log[t][i]]] \o queue[t]

(* A follow-up never waits on an idle thread: nobody would start it. *)
NoneStranded == \A t \in Thread : queue[t] # <<>> => active[t] # NoRun

(* The active run can be attached to at once, so a subscriber never waits  *)
(* for a next run while one is live.                                       *)
ActiveIsAttachable ==
  \A t \in Thread : active[t] # NoRun =>
    active[t] \in cached /\ ~ended[active[t]] /\ waiters[t] = {}

(* A waiter does not outlive its subscriber: while it is registered its    *)
(* timer is armed, and on a host that reports lost connections the         *)
(* subscriber is there.                                                    *)
WaiterIsBounded ==
  \A t \in Thread : \A k \in waiters[t] :
    /\ k \in timers
    /\ HostSignals => conn[k[1]] = "open" /\ Current(k[1]) = k

(* A subscriber of a live run has every chunk pumped so far, and more will *)
(* come, until its stream is closed.                                       *)
NothingSlips ==
  \A c \in Client : conn[c] = "open" /\ ~fin[c] /\ runOf[c] # NoRun =>
    /\ source[runOf[c]] = "running"
    /\ Current(c) \in listeners[runOf[c]]
    /\ Len(got[c]) + Len(wire[c]) = produced[runOf[c]]

(* What a subscriber has read of a run is the run from its first chunk on. *)
TranscriptIsPrefix ==
  \A c \in Client : \A k \in 1 .. Len(got[c]) :
    got[c][k] = [seq |-> k - 1, data |-> k]

(* Refuted: the idle wait bounds the wait for the next run, not the run: a *)
(* subscriber is told [DONE] only once its run is over.                    *)
DoneMeansOver ==
  \A c \in Client : fin[c] /\ runOf[c] # NoRun => source[runOf[c]] = "over"

(* Refuted: a run belongs to the trace (and the agent, credential and      *)
(* options) of the caller that posted its message.                         *)
RunOfItsCaller == \A r \in Run : via[r] = carries[r]

(* Every accepted message gets its run, and the run ends. *)
EveryFollowUpRuns ==
  \A t \in Thread, m \in Message :
    (\E i \in 1 .. Len(accepted[t]) : accepted[t][i] = m)
      ~> (\E r \in Run : carries[r] = m /\ source[r] = "over")

(* A subscription ends: with its run, or with the idle wait. *)
SubscriberReleased == \A c \in Client : conn[c] = "open" ~> conn[c] # "open"
=============================================================================
