-------------------------- MODULE HitlCorrelation --------------------------
(***************************************************************************)
(* One logical call, one id on the wire (hitl-call-correlation.ts).  A     *)
(* gated tool call has two producers that do not know each other's id: the *)
(* SDK announces the call and reports its result on the run's timeline     *)
(* (translated by sdk-timeline.ts, which holds results back), and the HITL *)
(* plugin emits the approval straight into the merge queue                 *)
(* (agent-endpoint.ts), where it may overtake the timeline.  The presenter *)
(* pairs the two by tool name, first in, first out.                        *)
(*                                                                         *)
(* The queues of different tool names do not meet, so all calls here are   *)
(* of one gated tool.  Calls are numbered in the order the SDK starts them.*)
(*                                                                         *)
(* The repository holds two readings of the SDK.  The head of the file and *)
(* the integration test of the pairing say a call is announced before its  *)
(* hooks are awaited; resultToolCallId() and the test of denied approvals  *)
(* say a call that its hook refuses is never announced, so that only its   *)
(* result comes.  A run follows one of the two (early).                    *)
(***************************************************************************)
EXTENDS Integers, Sequences

CONSTANTS NCalls,       \* calls of the gated tool in the run
          RoundOf,      \* RoundOf[c]: the model round that asked for call c
          MaxOthers,    \* bound on the other events of the timeline
          HooksInOrder  \* BOOLEAN: pre_tool_call hooks reach the plugin in
                        \* the order in which the calls were started

ToolCall == 1 .. NCalls

ASSUME CorrelationAssumption ==
  /\ NCalls \in Nat /\ MaxOthers \in Nat /\ HooksInOrder \in BOOLEAN
  /\ RoundOf \in [ToolCall -> Nat]
  /\ \A c, d \in ToolCall : c <= d => RoundOf[c] <= RoundOf[d]

NoCall == 0

(* Ids on the wire: the runtime's of a call, or its approval's. *)
RuntimeId(c)  == [side |-> "runtime", of |-> c]
ApprovalId(c) == [side |-> "approval", of |-> c]
NoId          == [side |-> "none", of |-> NoCall]
Id == [side: {"runtime", "approval"}, of: ToolCall]

Event == [kind: {"running", "completed", "other", "approval"}, call: ToolCall \cup {NoCall}]

VARIABLES early,     \* BOOLEAN: the SDK announces a call before its hooks
          progress,  \* progress[c]: "idle", "started", "gated", "running", "settled"
          refused,   \* calls their approval denied, or let expire
          others,    \* other timeline events so far
          timeline,  \* events the pump has not translated yet
          held,      \* results sdk-timeline holds back
          queue,     \* the merge queue
          unclaimedCalls, unclaimedApprovals, announcedAs,
          cards,     \* ids announced by a tool-input-available chunk
          gateAt,    \* gateAt[c]: the toolCallId of c's approval chunk
          resultAt   \* resultAt[c]: the toolCallId of c's result chunk

correlation == <<unclaimedCalls, unclaimedApprovals, announcedAs>>
wireVars == <<cards, gateAt, resultAt>>
correlationVars == <<early, progress, refused, others, timeline, held, queue, correlation, wireVars>>

CorrelationTypeOK ==
  /\ early \in BOOLEAN /\ refused \subseteq ToolCall
  /\ progress \in [ToolCall -> {"idle", "started", "gated", "running", "settled"}]
  /\ others \in 0 .. MaxOthers
  /\ timeline \in Seq(Event) /\ queue \in Seq(Event) /\ held \in Seq(Event)
  /\ unclaimedCalls \in Seq(ToolCall) /\ unclaimedApprovals \in Seq(ToolCall)
  /\ announcedAs \in [ToolCall -> ToolCall \cup {NoCall}]
  /\ cards \subseteq Id
  /\ gateAt \in [ToolCall -> Id \cup {NoId}]
  /\ resultAt \in [ToolCall -> Id \cup {NoId}]

CorrelationInit ==
  /\ early \in BOOLEAN /\ refused = {}
  /\ progress = [c \in ToolCall |-> "idle"]
  /\ others = 0
  /\ timeline = <<>> /\ held = <<>> /\ queue = <<>>
  /\ unclaimedCalls = <<>> /\ unclaimedApprovals = <<>>
  /\ announcedAs = [c \in ToolCall |-> NoCall]
  /\ cards = {}
  /\ gateAt = [c \in ToolCall |-> NoId]
  /\ resultAt = [c \in ToolCall |-> NoId]

-----------------------------------------------------------------------------
(* The producers *)

(* The SDK starts the calls of a round at once (up to four); if it         *)
(* announces them early, it does so before their hooks are awaited.  A     *)
(* model call lies between two rounds, and the pump catches up.            *)
StartRound(first, last) ==
  /\ {c \in ToolCall : RoundOf[c] = RoundOf[first]} = first .. last
  /\ \A c \in 1 .. first - 1 : progress[c] = "settled"
  /\ progress[first] = "idle" /\ timeline = <<>> /\ queue = <<>>
  /\ progress' = [c \in ToolCall |-> IF c \in first .. last THEN "started" ELSE progress[c]]
  /\ timeline' = IF early
                 THEN [i \in 1 .. last - first + 1 |-> [kind |-> "running", call |-> first + i - 1]]
                 ELSE <<>>
  /\ UNCHANGED <<early, refused, others, held, queue, correlation, wireVars>>

(* The HITL hook is reached: it emits the approval and pauses the call.    *)
(* An agent's own asynchronous hooks run before it.                        *)
Gate(c) ==
  /\ progress[c] = "started"
  /\ HooksInOrder => \A d \in ToolCall : d < c => progress[d] # "started"
  /\ progress' = [progress EXCEPT ![c] = "gated"]
  /\ queue' = Append(queue, [kind |-> "approval", call |-> c])
  /\ UNCHANGED <<early, refused, others, timeline, held, correlation, wireVars>>

(* Approved: the tool runs.  A call not announced yet is announced now.    *)
Allow(c) ==
  /\ progress[c] = "gated"
  /\ progress' = [progress EXCEPT ![c] = "running"]
  /\ timeline' = IF early THEN timeline
                 ELSE Append(timeline, [kind |-> "running", call |-> c])
  /\ UNCHANGED <<early, refused, others, held, queue, correlation, wireVars>>

(* Denied or expired: the hook vetoes the call, and the SDK reports the    *)
(* veto as its result.  A call not announced yet never is.                 *)
Refuse(c) ==
  /\ progress[c] = "gated"
  /\ progress' = [progress EXCEPT ![c] = "settled"]
  /\ refused' = refused \cup {c}
  /\ timeline' = Append(timeline, [kind |-> "completed", call |-> c])
  /\ UNCHANGED <<early, others, held, queue, correlation, wireVars>>

(* The tool returns. *)
Complete(c) ==
  /\ progress[c] = "running"
  /\ progress' = [progress EXCEPT ![c] = "settled"]
  /\ timeline' = Append(timeline, [kind |-> "completed", call |-> c])
  /\ UNCHANGED <<early, refused, others, held, queue, correlation, wireVars>>

(* Text, progress, or the end of the run. *)
Other ==
  /\ others < MaxOthers
  /\ others' = others + 1
  /\ timeline' = Append(timeline, [kind |-> "other", call |-> NoCall])
  /\ UNCHANGED <<early, progress, refused, held, queue, correlation, wireVars>>

(* The pump: a result is held until an event that is not a tool's, which   *)
(* releases every held result ahead of itself.                             *)
Pump ==
  LET e == Head(timeline)
  IN  /\ timeline # <<>>
      /\ timeline' = Tail(timeline)
      /\ \/ /\ e.kind = "completed"
            /\ held' = Append(held, e) /\ UNCHANGED queue
         \/ /\ e.kind = "running"
            /\ queue' = Append(queue, e) /\ UNCHANGED held
         \/ /\ e.kind = "other"
            /\ queue' = Append(queue \o held, e) /\ held' = <<>>
      /\ UNCHANGED <<early, progress, refused, others, correlation, wireVars>>

-----------------------------------------------------------------------------
(* The presenter *)

\* Mutant of Claim: the newest id is claimed.
ClaimNewest(ids) == [id |-> ids[Len(ids)], rest |-> SubSeq(ids, 1, Len(ids) - 1)]

(* claim(): the oldest id queued. *)
Claim(ids) == [id |-> Head(ids), rest |-> Tail(ids)]

(* announceToolCall() queues the calls no approval announced. *)
AfterAnnounce(c) ==
  IF unclaimedApprovals = <<>> THEN Append(unclaimedCalls, c) ELSE unclaimedCalls

(* 'announce', or 'already-announced' by the approval. *)
NewCards(c) == IF unclaimedApprovals = <<>> THEN {RuntimeId(c)} ELSE {}

(* announceToolCall() *)
AnnounceToolCall(c) ==
  /\ unclaimedCalls' = AfterAnnounce(c)
  /\ cards' = cards \cup NewCards(c)
  /\ IF unclaimedApprovals = <<>>
     THEN UNCHANGED <<unclaimedApprovals, announcedAs>>
     ELSE /\ unclaimedApprovals' = Claim(unclaimedApprovals).rest
          /\ announcedAs' = [announcedAs EXCEPT ![c] = Claim(unclaimedApprovals).id]
  /\ UNCHANGED <<gateAt, resultAt>>

(* approvalToolCallId(), and the synthesised input of a call not yet seen. *)
ApprovalToolCallId(c) ==
  /\ IF unclaimedCalls = <<>>
     THEN /\ unclaimedApprovals' = Append(unclaimedApprovals, c)
          /\ gateAt' = [gateAt EXCEPT ![c] = ApprovalId(c)]
          /\ UNCHANGED unclaimedCalls
     ELSE /\ unclaimedCalls' = Claim(unclaimedCalls).rest
          /\ gateAt' = [gateAt EXCEPT ![c] = RuntimeId(Claim(unclaimedCalls).id)]
          /\ UNCHANGED unclaimedApprovals
  /\ cards' = cards \cup {gateAt'[c]}
  /\ UNCHANGED <<announcedAs, resultAt>>

\* Mutant of ResultId: an unpaired result claims the oldest waiting approval.
ResultIdClaims(c) ==
  IF announcedAs[c] # NoCall THEN ApprovalId(announcedAs[c])
  ELSE IF unclaimedApprovals # <<>> THEN ApprovalId(Claim(unclaimedApprovals).id)
  ELSE RuntimeId(c)

(* The id a result carries: the one its call was announced under. *)
ResultId(c) == IF announcedAs[c] # NoCall THEN ApprovalId(announcedAs[c]) ELSE RuntimeId(c)

Queued(id, ids) == \E i \in DOMAIN ids : ids[i] = id

(* forget(): the ids without this one. *)
Forget(ids, id) ==
  LET at == CHOOSE i \in DOMAIN ids : ids[i] = id
  IN  IF Queued(id, ids) THEN [i \in 1 .. Len(ids) - 1 |-> ids[IF i < at THEN i ELSE i + 1]]
                         ELSE ids

\* Mutant of Dropped: an approval whose call was refused stays.
DroppedNever(ids) == ids

(* An unpaired result drops the oldest waiting approval, taken for its own.*)
Dropped(ids) == IF ids = <<>> THEN <<>> ELSE Claim(ids).rest

(* resultToolCallId(): an unpaired call is forgotten with its approval.    *)
ResultToolCallId(c) ==
  /\ resultAt' = [resultAt EXCEPT ![c] = ResultId(c)]
  /\ announcedAs' = [announcedAs EXCEPT ![c] = NoCall]
  /\ IF announcedAs[c] # NoCall
     THEN UNCHANGED <<unclaimedCalls, unclaimedApprovals>>
     ELSE /\ unclaimedApprovals' = Dropped(unclaimedApprovals)
          /\ unclaimedCalls' = Forget(unclaimedCalls, c)
  /\ UNCHANGED <<cards, gateAt>>

Present ==
  LET e == Head(queue)
  IN  /\ queue # <<>>
      /\ queue' = Tail(queue)
      /\ \/ e.kind = "running" /\ AnnounceToolCall(e.call)
         \/ e.kind = "approval" /\ ApprovalToolCallId(e.call)
         \/ e.kind = "completed" /\ ResultToolCallId(e.call)
         \/ e.kind = "other" /\ UNCHANGED <<correlation, wireVars>>
      /\ UNCHANGED <<early, progress, refused, others, timeline, held>>

-----------------------------------------------------------------------------
CorrelationNext ==
  \/ \E first, last \in ToolCall : StartRound(first, last)
  \/ \E c \in ToolCall : Gate(c) \/ Allow(c) \/ Refuse(c) \/ Complete(c)
  \/ Other \/ Pump \/ Present

CorrelationSpec == CorrelationInit /\ [][CorrelationNext]_correlationVars

-----------------------------------------------------------------------------
(* What a consumer of the wire counts on *)

(* The approval of a call names that call: what a human is shown and       *)
(* approves is what runs.                                                  *)
GateNamesItsCall == \A c \in ToolCall : gateAt[c] # NoId => gateAt[c].of = c

(* A call has one card, whichever producer reached the wire first, and no  *)
(* id carries the results of two calls.  If calls are announced early, a   *)
(* result settles the card its approval opened.  If not, the pairing by    *)
(* name cannot tell which of two approvals was answered (a mixed round may *)
(* settle one for the other), but a call the human allowed settles a card  *)
(* and a refusal settles none.                                             *)
ResultSettlesItsCard ==
  \A c \in ToolCall :
    /\ ~({RuntimeId(c), ApprovalId(c)} \subseteq cards)
    /\ resultAt[c] # NoId =>
         /\ early => resultAt[c] = gateAt[c] /\ gateAt[c] \in cards
         /\ ~early => (resultAt[c] \in cards <=> c \notin refused)
         /\ \A d \in ToolCall : resultAt[d] = resultAt[c] => d = c

AtRest ==
  /\ timeline = <<>> /\ held = <<>> /\ queue = <<>>
  /\ \A c \in ToolCall : progress[c] \in {"idle", "settled"}

(* A call that is over, allowed or refused, leaves nothing behind for a    *)
(* later call of the tool to be paired with: at once if calls are          *)
(* announced early; if not, an approval may stay for another's call while  *)
(* results are under way or held back, and none does once they are out.    *)
NothingStale ==
  /\ \A c \in ToolCall : resultAt[c] # NoId =>
       /\ ~Queued(c, unclaimedCalls)
       /\ early => ~Queued(c, unclaimedApprovals)
  /\ AtRest => unclaimedCalls = <<>> /\ unclaimedApprovals = <<>>

(* What does not hold if refused calls are not announced: every approval's *)
(* card is settled by the result of the call it gates.  A refused call's   *)
(* card hangs (hitl-call-correlation.ts:126-130), and a call started while *)
(* the refusal is still held back is paired with the dead approval.        *)
EveryCardSettlesItsOwn ==
  \A c \in ToolCall : resultAt[c] # NoId => resultAt[c] = gateAt[c]

NextCallIsFree ==
  \A c, d \in ToolCall :
    RoundOf[c] < RoundOf[d] /\ announcedAs[d] # NoCall => announcedAs[d] # c
=============================================================================
