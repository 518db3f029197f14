-------------------------- MODULE ResumableStream --------------------------
(***************************************************************************)
(* One-shot agent runs served over the durable transport: the POST that    *)
(* starts a run (mount-agent.ts) answers with a durable SSE response       *)
(* (durable-ui-message-stream-response.ts), which caches every frame; a    *)
(* client that lost the response, or a second client, follows the run      *)
(* through GET .../runs/<runId>/stream (handle-agent-run-reconnect.ts).    *)
(*                                                                         *)
(* The network may drop a connection at any moment and lose the frames in  *)
(* flight.  HostSignals says what the host does about it: a web host       *)
(* cancels the response body and aborts the request's signal; the Node     *)
(* host (http/node-web-adapter.ts, http/node-request.ts) does neither and  *)
(* drains the response to its end.                                         *)
(***************************************************************************)
EXTENDS RunEventCache

CONSTANT HostSignals  \* BOOLEAN: a lost connection reaches the server

ASSUME HostAssumption == HostSignals \in BOOLEAN

VARIABLES source,   \* source[r]: state of the producer of run r
          produced, \* produced[r]: chunks taken from the source so far
          poster    \* poster[r]: the connection of the POST, as a set

producerVars == <<source, produced, poster>>
vars == <<cacheVars, clientVars, producerVars>>

SourceState == {"unborn",    \* the run id is not minted yet
                "running",   \* the for-await over the agent's chunks
                "unwinding", \* enqueue() threw on a cancelled response
                "over"}      \* the finally block ran

TypeOK ==
  /\ CacheTypeOK
  /\ source \in [Run -> SourceState]
  /\ produced \in [Run -> Nat]
  /\ poster \in [Run -> SUBSET Connection]

Init ==
  /\ CacheInit
  /\ source = [r \in Run |-> "unborn"]
  /\ produced = [r \in Run |-> 0]
  /\ poster = [r \in Run |-> {}]

(* The client's next connection, to run r, replaces the one it had. *)
OpenConnection(c, r, state) ==
  /\ epoch[c] < MaxConns
  /\ conn' = [conn EXCEPT ![c] = state]
  /\ epoch' = [epoch EXCEPT ![c] = @ + 1]
  /\ runOf' = [runOf EXCEPT ![c] = r]

-----------------------------------------------------------------------------
(* The served run *)

(* POST: mint the run id and return the durable response.  Its start()     *)
(* does not call begin(): the run enters the cache with its first frame.   *)
ServeRun(c, r) ==
  /\ conn[c] = "off" /\ epoch[c] = 0
  /\ source[r] = "unborn"
  /\ OpenConnection(c, r, "open")
  /\ source' = [source EXCEPT ![r] = "running"]
  /\ poster' = [poster EXCEPT ![r] = {<<c, 1>>}]
  /\ UNCHANGED <<cacheVars, wire, fin, got, produced>>

(* The response body of the POST was cancelled: enqueue() throws. *)
BodyCancelled(r) ==
  /\ HostSignals
  /\ \A k \in poster[r] : ~(conn[k[1]] \in {"open", "done"} /\ epoch[k[1]] = k[2])

(* The producer of r may yield another chunk. *)
Yields(r) == source[r] = "running" /\ produced[r] < MaxFrames

(* The source yields a chunk: cached first, then written to the POST's own *)
(* response; a cancelled body makes that write throw out of the loop.      *)
ServeChunk(r) ==
  /\ Yields(r)
  /\ AppendFrame(r, produced[r] + 1, poster[r])
  /\ produced' = [produced EXCEPT ![r] = @ + 1]
  /\ source' = [source EXCEPT ![r] = IF BodyCancelled(r) THEN "unwinding" ELSE @]
  /\ UNCHANGED <<conn, epoch, runOf, fin, got, poster>>

(* The source returns or throws, or the loop was left by the throw of      *)
(* enqueue(): the finally block ends the run in the cache, then writes     *)
(* [DONE] to its own response and closes it.                               *)
ServeFinish(r) ==
  /\ source[r] \in {"running", "unwinding"}
  /\ source' = [source EXCEPT ![r] = "over"]
  /\ End(r, poster[r])
  /\ UNCHANGED <<conn, epoch, runOf, wire, got, produced, poster>>

-----------------------------------------------------------------------------
(* Losing a connection and coming back *)

(* The network drops the client's connection, with what was in flight.  On *)
(* a web host the abort listener detaches it.                              *)
Drop(c) ==
  /\ conn[c] = "open"
  /\ conn' = [conn EXCEPT ![c] = "off"]
  /\ wire' = [wire EXCEPT ![c] = <<>>]
  /\ fin' = [fin EXCEPT ![c] = FALSE]
  /\ IF HostSignals THEN Unsubscribe(Current(c)) ELSE UNCHANGED listeners
  /\ UNCHANGED <<cached, frames, ended, epoch, runOf, got, producerVars>>

\* Mutant of LastEventId: the seq of the next frame, so that one is skipped.
LastEventIdNext(c) == IF got[c] = <<>> THEN -1 ELSE got[c][Len(got[c])].seq + 1

(* Last-Event-ID as an EventSource sends it: the seq of the last frame     *)
(* read, absent (-1) when there is none.                                   *)
LastEventId(c) == IF got[c] = <<>> THEN -1 ELSE got[c][Len(got[c])].seq

(* GET .../runs/<runId>/stream by a client that knows r: resuming from its *)
(* cursor, or from the start with a fresh transcript (no header).  The     *)
(* route answers 404 when the cache has no such run.                       *)
KnowsRun(c, r) == source[r] # "unborn" /\ runOf[c] \in {r, NoRun}

Reconnect(c, r) ==
  /\ conn[c] = "off" /\ KnowsRun(c, r)
  /\ r \in cached
  /\ OpenConnection(c, r, "open")
  /\ \/ /\ Attach(c, r, LastEventId(c))
        /\ UNCHANGED got
     \/ /\ Attach(c, r, -1)
        /\ got' = [got EXCEPT ![c] = <<>>]
  /\ UNCHANGED producerVars

ReconnectRefused(c, r) ==
  /\ conn[c] = "off" /\ KnowsRun(c, r)
  /\ r \notin cached
  /\ OpenConnection(c, r, "refused")
  /\ UNCHANGED <<cacheVars, wire, fin, got, producerVars>>

EvictRun(r) == Evict(r) /\ UNCHANGED <<clientVars, producerVars>>

Read(c) ==
  /\ ReadFrame(c) \/ ReadDone(c)
  /\ UNCHANGED producerVars

Next ==
  \/ \E c \in Client, r \in Run :
       ServeRun(c, r) \/ Reconnect(c, r) \/ ReconnectRefused(c, r)
  \/ \E r \in Run : ServeChunk(r) \/ ServeFinish(r) \/ EvictRun(r)
  \/ \E c \in Client : Drop(c) \/ Read(c)

Spec == Init /\ [][Next]_vars

(* What is fair: the agent run terminates (the external SDK bounds it),    *)
(* the event loop fires the armed eviction timer, and a connected client   *)
(* reads.  Losing or opening a connection is up to the environment.        *)
FairSpec ==
  /\ Spec
  /\ \A r \in Run : WF_vars(ServeFinish(r)) /\ WF_vars(EvictRun(r))
  /\ \A c \in Client : WF_vars(Read(c))

-----------------------------------------------------------------------------
(* What a follower of a run may rely on *)

(* The run's chunk number k, as every follower must see it: seq k-1.       *)
FrameAt(k) == [seq |-> k - 1, data |-> k]

(* A buffer holds every chunk produced so far, numbered by position: what  *)
(* a cursor (Last-Event-ID) means does not change while the run is cached. *)
SeqIsPosition ==
  \A r \in Run :
    /\ r \in cached => Len(frames[r]) = produced[r]
    /\ \A k \in 1 .. Len(frames[r]) : frames[r][k] = FrameAt(k)

(* What a client has read, across every drop and reconnect, is the run     *)
(* from its first chunk on: no gap, no duplicate, no reordering.  What is  *)
(* on the wire continues it.                                               *)
TranscriptIsPrefix ==
  \A c \in Client :
    /\ \A k \in 1 .. Len(got[c]) : got[c][k] = FrameAt(k)
    /\ \A k \in 1 .. Len(wire[c]) : wire[c][k] = FrameAt(Len(got[c]) + k)

(* Nothing slips between a replay and the live tail: an open connection    *)
(* has been handed every chunk produced so far, and it is either closed    *)
(* behind a complete run or still fed, by the cache or by the POST's loop. *)
NothingSlips ==
  \A c \in Client : conn[c] = "open" =>
    LET r == runOf[c]
    IN  /\ Len(got[c]) + Len(wire[c]) = produced[r]
        /\ IF fin[c] THEN source[r] = "over"
                     ELSE /\ source[r] \in {"running", "unwinding"}
                          /\ \/ Current(c) \in poster[r]
                             \/ Current(c) \in listeners[r] /\ r \in cached

(* [DONE] is never a lie: the client that read it has the whole run. *)
DoneMeansComplete ==
  \A c \in Client : conn[c] = "done" =>
    /\ source[runOf[c]] = "over"
    /\ Len(got[c]) = produced[runOf[c]]

(* "The request AbortSignal unsubscribes on disconnect": a lost connection *)
(* leaves no listener behind.                                              *)
DropDetaches ==
  \A r \in Run : \A k \in listeners[r] : conn[k[1]] = "open" /\ Current(k[1]) = k

(* Refuted: the route answers 404 for "a run never started here, or already *)
(* evicted", not for one whose agent is still working.                     *)
RefusedOnlyWhenGone ==
  \A c \in Client : conn[c] = "refused" => source[runOf[c]] = "over"

(* Refuted on a host that cancels bodies: a dropped client can come back to *)
(* the run it lost, since the drop itself does not end the run.             *)
DropLeavesRunAlone == \A r \in Run : source[r] # "unwinding"

(* A client that stays connected gets to the end of the run. *)
FollowerFinishes == \A c \in Client : conn[c] = "open" ~> conn[c] # "open"

(* The transport implements a feed: cache, connections and wires are       *)
(* hidden, and a client's transcript is a count of the chunks it has read. *)
Feed == INSTANCE RunFeed WITH
          length  <- produced,
          closed  <- [r \in Run |-> source[r] = "over"],
          follows <- runOf,
          read    <- [c \in Client |-> Len(got[c])],
          told    <- [c \in Client |-> conn[c] = "done"]

(* Every step of the transport is a step of the feed, or hidden from it. *)
ImplementsFeed == Feed!Spec

(* No run is cached forever. *)
CachedIsEvicted == \A r \in Run : r \in cached ~> r \notin cached
=============================================================================
