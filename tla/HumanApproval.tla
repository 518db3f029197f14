--------------------------- MODULE HumanApproval ---------------------------
(***************************************************************************)
(* Human-in-the-loop approval of the gated tool calls of one run: the hook *)
(* that pauses a call (hitl-plugin.ts), the registry of pending approvals  *)
(* with their timers (approval-registry.ts), the approve endpoint with its *)
(* awaits (approve-agent.ts) and the telemetry span of each pause          *)
(* (hitl-pause-spans.ts, observe-agent-run.ts).                            *)
(*                                                                         *)
(* Calls of one round are paused side by side.  An approval id is a fresh  *)
(* UUID, so a call stands for its approval too.  The wire id of a call is  *)
(* the subject of HitlCorrelation; here a result finds its pause.          *)
(***************************************************************************)
EXTENDS Integers, FiniteSets

CONSTANTS Call,      \* the gated tool calls of the run
          Request,   \* POSTs to the approve endpoint
          Subject,   \* identities a request may carry
          NoSubject, \* no identity (the run's, or the request's)
          OnTimeout, \* OnTimeout[c]: the gate's timeout policy
          Timer,     \* what settles an approval nobody decides
          Nobody     \* an approval that is not settled

ASSUME ApprovalAssumption ==
  /\ NoSubject \notin Subject
  /\ Timer \notin Request /\ Nobody \notin Request /\ Timer # Nobody
  /\ OnTimeout \in [Call -> {"proceed", "abort", "retry"}]

VARIABLES phase,    \* phase[c]: "idle", "paused", then "ran" or "refused"
          pending,  \* the calls with an entry in the registry
          by,       \* by[c]: who settled c's approval
          approved, \* approved[c]: the decision
          span,     \* span[c]: the pause span
          stream,   \* the run's event stream is "open" or "closed"
          owner,    \* the subject recorded for the run's approvals
          asked,    \* asked[q]: what request q asks, and for whom
          stage     \* stage[q]: where request q is, then its status code

vars == <<phase, pending, by, approved, span, stream, owner, asked, stage>>

Ask == [call: Call, subject: Subject \cup {NoSubject},
        verdict: {"approve", "deny", "malformed"}]

Replies == {"200", "400", "403", "404"}

TypeOK ==
  /\ phase \in [Call -> {"idle", "paused", "ran", "refused"}]
  /\ pending \in SUBSET Call
  /\ by \in [Call -> Request \cup {Timer, Nobody}]
  /\ approved \in [Call -> BOOLEAN]
  /\ span \in [Call -> {"none", "open", "resumed", "unresumed"}]
  /\ stream \in {"open", "closed"}
  /\ owner \in Subject \cup {NoSubject}
  /\ stage \in [Request -> {"unsent", "policy", "body"} \cup Replies]
  /\ asked \in [Request -> Ask \cup {Nobody}]
  /\ \A q \in Request : stage[q] # "unsent" => asked[q] \in Ask

Init ==
  /\ phase = [c \in Call |-> "idle"]
  /\ pending = {}
  /\ by = [c \in Call |-> Nobody]
  /\ approved = [c \in Call |-> FALSE]
  /\ span = [c \in Call |-> "none"]
  /\ stream = "open"
  /\ owner \in Subject \cup {NoSubject} \* resolveApprovalOwner
  /\ asked = [q \in Request |-> Nobody]
  /\ stage = [q \in Request |-> "unsent"]

-----------------------------------------------------------------------------
(* The registry and the spans *)

(* The entries left when c's is settled. *)
Entries(c) == pending \ {c}

\* Mutant of IsPending: resolve() does not look the id up.
IsPendingAlways(c) == TRUE

IsPending(c) == c \in pending

(* settle(): the promise resolves once, and the entry and its timer go. *)
Settle(c, who, decision) ==
  /\ pending' = Entries(c)
  /\ by' = [by EXCEPT ![c] = who]
  /\ approved' = [approved EXCEPT ![c] = decision]

\* Mutant of Closing: the span is not closed.
ClosingNever(c, status) == span[c]

(* closePauseSpan(): a no-op on an id with no open span. *)
Closing(c, status) == IF span[c] = "open" THEN status ELSE span[c]

CloseSpan(c, status) == span' = [span EXCEPT ![c] = Closing(c, status)]

-----------------------------------------------------------------------------
(* The run *)

(* pre_tool_call: the hook emits the event, which the observer turns into  *)
(* a span if the stream is open, registers the approval and arms its       *)
(* timer, then awaits.  All before an answer can arrive.                   *)
Pause(c) ==
  /\ phase[c] = "idle"
  /\ phase' = [phase EXCEPT ![c] = "paused"]
  /\ pending' = pending \cup {c}
  /\ span' = [span EXCEPT ![c] = IF stream = "open" THEN "open" ELSE @]
  /\ UNCHANGED <<by, approved, stream, owner, asked, stage>>

\* Mutant of Armed: only a gate that proceeds gets a timer.
ArmedToProceed(c) == IsPending(c) /\ OnTimeout[c] = "proceed"

(* register() arms a timer, settle() clears it. *)
Armed(c) == IsPending(c)

\* Mutant of TimeoutDecision: a gate that said 'retry' is let through.
TimeoutDecisionRetry(c) == OnTimeout[c] # "abort"

TimeoutDecision(c) == OnTimeout[c] = "proceed"

(* The approval's timer fires. *)
Timeout(c) ==
  /\ Armed(c)
  /\ Settle(c, Timer, TimeoutDecision(c))
  /\ UNCHANGED <<phase, span, stream, owner, asked, stage>>

(* What the plugin answers the SDK: undefined, or a veto. *)
Verdict(c) == IF approved[c] THEN "ran" ELSE "refused"

(* The hook's promise is settled: the tool runs or is vetoed, and its      *)
(* result closes the pause if the endpoint did not.                        *)
Resume(c) ==
  /\ phase[c] = "paused" /\ by[c] # Nobody
  /\ phase' = [phase EXCEPT ![c] = Verdict(c)]
  /\ IF stream = "open" THEN CloseSpan(c, "resumed") ELSE UNCHANGED span
  /\ UNCHANGED <<pending, by, approved, stream, owner, asked, stage>>

(* The consumer leaves: the queue closes, closeAll() sweeps the pauses it  *)
(* saw no result of, and the run goes on detached.  closeAll() also runs   *)
(* when the run ends, with no call paused.                                 *)
CloseStream ==
  /\ stream = "open"
  /\ stream' = "closed"
  /\ span' = [c \in Call |-> IF phase[c] = "paused" THEN Closing(c, "unresumed")
                             ELSE span[c]]
  /\ UNCHANGED <<phase, pending, by, approved, owner, asked, stage>>

-----------------------------------------------------------------------------
(* POST /api/agents/<name>/approve/<id> *)

(* A request for an approval whose id was published, waiting for the       *)
(* policy.  The CSRF check and the path were good: else it changes nothing.*)
Arrive(q, ask) ==
  /\ stage[q] = "unsent" /\ phase[ask.call] # "idle"
  /\ asked' = [asked EXCEPT ![q] = ask]
  /\ stage' = [stage EXCEPT ![q] = "policy"]
  /\ UNCHANGED <<phase, pending, by, approved, span, stream, owner>>

\* Mutant of NotOwner: whoever the policy admits is taken for the owner.
NotOwnerNever(q) == FALSE

(* refuseIfNotOwner: an entry with an owner refuses everybody else. *)
NotOwner(q) ==
  IsPending(asked[q].call) /\ owner # NoSubject /\ asked[q].subject # owner

(* The agent's policy has answered, whatever it says of this subject; then *)
(* the entry's owner is read, and the subject and the body are awaited.    *)
Admit(q) ==
  /\ stage[q] = "policy"
  /\ stage' \in {[stage EXCEPT ![q] = IF NotOwner(q) THEN "403" ELSE "body"],
                 [stage EXCEPT ![q] = "403"]}
  /\ UNCHANGED <<phase, pending, by, approved, span, stream, owner, asked>>

(* The body has arrived: by now the approval may be settled or timed out. *)
Answer(q) ==
  LET c == asked[q].call
      reply(code) == stage' = [stage EXCEPT ![q] = code]
  IN  /\ stage[q] = "body"
      /\ \/ /\ asked[q].verdict = "malformed" /\ reply("400")
            /\ UNCHANGED <<pending, by, approved, span>>
         \/ /\ asked[q].verdict # "malformed" /\ ~IsPending(c) /\ reply("404")
            /\ UNCHANGED <<pending, by, approved, span>>
         \/ /\ asked[q].verdict # "malformed" /\ IsPending(c) /\ reply("200")
            /\ Settle(c, q, asked[q].verdict = "approve")
            /\ CloseSpan(c, "resumed")
      /\ UNCHANGED <<phase, stream, owner, asked>>

-----------------------------------------------------------------------------
Next ==
  \/ \E c \in Call : Pause(c) \/ Timeout(c) \/ Resume(c)
  \/ CloseStream
  \/ \E q \in Request : (\E ask \in Ask : Arrive(q, ask)) \/ Admit(q) \/ Answer(q)

Spec == Init /\ [][Next]_vars

(* Fair: an armed timer fires, and a settled promise resumes its awaiter. *)
FairSpec ==
  /\ Spec
  /\ \A c \in Call : WF_vars(Timeout(c)) /\ WF_vars(Resume(c))

-----------------------------------------------------------------------------
(* What a gate promises *)

(* The registry lists the calls that wait for a decision, and no other:    *)
(* an answer is never taken for a call that already went on, and a paused  *)
(* call can always be answered.                                            *)
PendingMeansWaiting ==
  \A c \in Call : c \in pending <=> phase[c] = "paused" /\ by[c] = Nobody

(* A gated tool runs only if somebody approved it, or nobody answered a    *)
(* gate that proceeds; it is refused only if somebody denied it, or nobody *)
(* answered another gate.                                                  *)
RunsAsDecided ==
  \A c \in Call : phase[c] \in {"ran", "refused"} =>
    /\ by[c] # Nobody
    /\ phase[c] = "ran" <=> \/ by[c] = Timer /\ OnTimeout[c] = "proceed"
                            \/ by[c] \in Request /\ asked[by[c]].verdict = "approve"

(* The approval of an owned run is settled by its owner or its timer, even *)
(* though the owner is read before the body is awaited.                    *)
OwnerDecides ==
  \A c \in Call : by[c] \in Request /\ owner # NoSubject =>
    asked[by[c]].subject = owner

(* Of the answers racing each other and the timer, the one that settled    *)
(* the approval is the one that was told so.                               *)
OneWinner ==
  \A q \in Request : stage[q] = "200" <=> \E c \in Call : by[c] = q

(* An open pause span is a wait the stream observes and nobody has         *)
(* answered: the answer closes it, not the tool's output.  A span marked   *)
(* as resumed is that of a settled call.                                   *)
SpanIsTheWait ==
  \A c \in Call :
    /\ span[c] = "open" =>
         phase[c] = "paused" /\ stream = "open" /\ by[c] \in {Nobody, Timer}
    /\ span[c] = "resumed" => by[c] # Nobody

(* A decision is final, and a span is closed once. *)
SettledOnce ==
  [][\A c \in Call :
       /\ by[c] # Nobody => by'[c] = by[c] /\ approved'[c] = approved[c]
       /\ span[c] \in {"resumed", "unresumed"} => span'[c] = span[c]]_vars

(* No call is paused for ever, whether or not anyone watches the run. *)
EveryPauseEnds == \A c \in Call : phase[c] = "paused" ~> phase[c] # "paused"
=============================================================================
