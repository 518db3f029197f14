--------------------------- MODULE RunEventCache ---------------------------
(***************************************************************************)
(* The durable event cache of packages/theo/src/server/agent/              *)
(* run-event-cache.ts, and the response streams fed from it.  A run's      *)
(* buffer holds the frames appended so far, whether the run ended, and the *)
(* listeners that follow the live tail.  A listener is a CONNECTION: a     *)
(* client may drop one and open another, and the old listener may still be *)
(* registered, so a connection is a client with the number of its attempt. *)
(*                                                                         *)
(* A frame is [seq |-> its id on the wire, data |-> the ordinal of the     *)
(* chunk it carries]: chunk contents are opaque to the cache.              *)
(*                                                                         *)
(* This module has the cache's operations as actions over its variables;   *)
(* ResumableStream and ThreadDispatch compose them with the producers of   *)
(* frames and the routes that attach to a run.                             *)
(***************************************************************************)
EXTENDS Integers, Sequences, FiniteSets

CONSTANTS Run,       \* run ids that may be minted
          Client,    \* clients that open response streams
          NoRun,     \* "no run": a client that follows nothing
          MaxFrames, \* bound on the chunks of a run
          MaxConns   \* bound on the connections a client opens

ASSUME CacheAssumption ==
  /\ NoRun \notin Run
  /\ MaxFrames \in Nat
  /\ MaxConns \in Nat

VARIABLES cached,    \* the runs that have a buffer (keys of the `runs` Map)
          frames,    \* frames[r]: the buffer's frames
          ended,     \* ended[r]: the buffer is marked terminated
          listeners, \* listeners[r]: the connections registered for the tail
          conn,      \* conn[c]: state of the client's current connection
          epoch,     \* epoch[c]: number of that connection
          runOf,     \* runOf[c]: the run that connection streams
          wire,      \* wire[c]: frames enqueued, not yet read by the client
          fin,       \* fin[c]: [DONE] is enqueued behind the wire
          got        \* got[c]: the frames the client has read

cacheVars  == <<cached, frames, ended, listeners>>
clientVars == <<conn, epoch, runOf, wire, fin, got>>

Frame == [seq: Nat, data: Nat]
Connection == Client \X Nat

ConnState == {"off",      \* never connected, or the connection was lost
              "open",     \* a response stream is open
              "done",     \* the client has read [DONE]
              "refused"}  \* the route answered 404

CacheTypeOK ==
  /\ cached \subseteq Run
  /\ frames \in [Run -> Seq(Frame)]
  /\ ended \in [Run -> BOOLEAN]
  /\ listeners \in [Run -> SUBSET Connection]
  /\ conn \in [Client -> ConnState]
  /\ epoch \in [Client -> Nat]
  /\ runOf \in [Client -> Run \cup {NoRun}]
  /\ wire \in [Client -> Seq(Frame)]
  /\ fin \in [Client -> BOOLEAN]
  /\ got \in [Client -> Seq(Frame)]

CacheInit ==
  /\ cached = {}
  /\ frames = [r \in Run |-> <<>>]
  /\ ended = [r \in Run |-> FALSE]
  /\ listeners = [r \in Run |-> {}]
  /\ conn = [c \in Client |-> "off"]
  /\ epoch = [c \in Client |-> 0]
  /\ runOf = [c \in Client |-> NoRun]
  /\ wire = [c \in Client |-> <<>>]
  /\ fin = [c \in Client |-> FALSE]
  /\ got = [c \in Client |-> <<>>]

(* The connection a client has open now. *)
Current(c) == <<c, epoch[c]>>

(* The clients whose open connection is among ls: a callback of a dropped  *)
(* connection enqueues into a stream nobody reads.                         *)
Reached(ls) == {c \in Client : conn[c] = "open" /\ ~fin[c] /\ Current(c) \in ls}

-----------------------------------------------------------------------------
(* Operations of the cache *)

(* getOrCreate, which begin() also calls so that has() is true before the  *)
(* first frame.  An absent run keeps an empty, live, unobserved buffer.    *)
WithBuffer(r) == cached \cup {r}

(* The id append() gives the next frame. *)
NextSeq(r) == Len(frames[r])

(* append(): every listener's onFrame runs in the same tick.  `extra` are  *)
(* the connections the caller itself writes the frame to.                  *)
AppendFrame(r, data, extra) ==
  LET frame == [seq |-> NextSeq(r), data |-> data]
  IN  /\ cached' = WithBuffer(r)
      /\ frames' = [frames EXCEPT ![r] = Append(@, frame)]
      /\ wire' = [c \in Client |-> IF c \in Reached(listeners[r] \cup extra)
                                   THEN Append(wire[c], frame) ELSE wire[c]]
      /\ UNCHANGED <<ended, listeners>>

\* Mutant of Terminates: end() forgets the buffer.
TerminatesNever(r) == FALSE

(* end() acts: the run has a buffer that is not terminated yet. *)
Terminates(r) == r \in cached /\ ~ended[r]

\* Mutant of Told: the listeners are not told.
ToldNobody(r) == {}

(* What end() does to the listeners of r: the ones it tells, to close      *)
(* their stream behind a [DONE], and the ones it keeps.                    *)
Told(r) == IF Terminates(r) THEN listeners[r] ELSE {}
Kept(r) == IF Terminates(r) THEN {} ELSE listeners[r]

(* end(): idempotent, and a no-op on a run without a buffer.  The eviction *)
(* timer is armed: Evict is enabled.                                       *)
End(r, extra) ==
  /\ ended' = [ended EXCEPT ![r] = @ \/ Terminates(r)]
  /\ listeners' = [listeners EXCEPT ![r] = Kept(r)]
  /\ fin' = [c \in Client |-> fin[c] \/ c \in Reached(extra \cup Told(r))]
  /\ UNCHANGED <<cached, frames>>

(* The eviction timer of an ended run fires and deletes its buffer. *)
Evict(r) ==
  /\ r \in cached /\ ended[r]
  /\ cached' = cached \ {r}
  /\ frames' = [frames EXCEPT ![r] = <<>>]
  /\ ended' = [ended EXCEPT ![r] = FALSE]
  /\ listeners' = [listeners EXCEPT ![r] = {}]

(* The frames of r with seq > afterSeq.  append() numbers a frame with the *)
(* buffer's length, so the filter keeps the suffix from position           *)
(* afterSeq + 2 (SeqIsPosition in ResumableStream).                        *)
Missed(r, afterSeq) == SubSeq(frames[r], afterSeq + 2, Len(frames[r]))

\* Mutant of Following: no listener is registered.
FollowingNot(r, k) == listeners[r]

(* attach() registers k with a live run, and closes k's stream behind the  *)
(* replay of an ended one.                                                 *)
Following(r, k) == listeners[r] \cup (IF ended[r] THEN {} ELSE {k})
Closes(r) == ended[r]

(* attach() followed by the replay loop of the route, in one tick. *)
Attach(c, r, afterSeq) ==
  /\ r \in cached
  /\ wire' = [wire EXCEPT ![c] = Missed(r, afterSeq)]
  /\ fin' = [fin EXCEPT ![c] = Closes(r)]
  /\ listeners' = [listeners EXCEPT ![r] = Following(r, <<c, epoch'[c]>>)]
  /\ UNCHANGED <<cached, frames, ended>>

\* Mutant of Unsubscribe: the listener stays.
UnsubscribeNothing(k) == UNCHANGED listeners

(* The unsubscribe() of a connection. *)
Unsubscribe(k) ==
  listeners' = [r \in Run |-> listeners[r] \ {k}]

-----------------------------------------------------------------------------
(* The reading end of a response stream *)

(* The client reads the next frame. *)
ReadFrame(c) ==
  /\ conn[c] = "open" /\ wire[c] # <<>>
  /\ got' = [got EXCEPT ![c] = Append(@, Head(wire[c]))]
  /\ wire' = [wire EXCEPT ![c] = Tail(@)]
  /\ UNCHANGED <<cacheVars, conn, epoch, runOf, fin>>

(* The client reads [DONE]: the turn is over for it. *)
ReadDone(c) ==
  /\ conn[c] = "open" /\ wire[c] = <<>> /\ fin[c]
  /\ conn' = [conn EXCEPT ![c] = "done"]
  /\ UNCHANGED <<cacheVars, epoch, runOf, wire, fin, got>>
=============================================================================
