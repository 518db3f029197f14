-------------------------- MODULE RequestPipeline --------------------------
(***************************************************************************)
(* Requests through executeRoute (http/execute.ts), or through              *)
(* executeWebRequest (web-handler.ts), whose answer is a value until it     *)
(* returns: the hooks of the plugins (plugin-runner.ts), the checks in      *)
(* front of the handler, its answer, and the error path; and the span that  *)
(* the observability plugin opens (observability/middleware.ts), one of a   *)
(* bounded map under the id the request came with.  Each plugin has one     *)
(* hook of each kind; hooks, handlers and bodies are the application's and  *)
(* may pass, throw or answer.  Requests interleave at every await.          *)
(***************************************************************************)
EXTENDS Integers, Sequences

CONSTANTS Request,
          Web,      \* the requests that executeWebRequest serves
          Plugins,  \* how many plugins, in the order of registration
          MapConfigs, \* what the map of spans may meet: the requests' ids, and its cap
          Observed  \* the first plugin is theokit:observability

ASSUME PipelineAssumption ==
  /\ Web \subseteq Request /\ Plugins \in Nat \ {0} /\ Observed \in BOOLEAN
  /\ \A c \in MapConfigs : c[2] \in Nat \ {0}

VARIABLES stage,    \* stage[r]: where its coroutine stands
          hook,     \* hook[r]: the hook that runs next
          response, \* response[r]: "none", "built", "head", "ended" or "destroyed"
          answers,  \* answers[r]: how often a response was begun for it
          reported, \* requests onError ran for
          handled,  \* requests whose handler was called
          requestId, \* ctx.requestId: a trace id or x-request-id of the caller's, or a UUID
          maxActiveSpans, \* the cap of the map
          active,   \* the map of active spans, oldest first: the request of each
          span      \* span[r]: "none", "open", "ok", "error", "abandoned" or "lost"

mapConfig    == <<requestId, maxActiveSpans>>
pipelineVars == <<stage, hook, response, answers, reported, handled, mapConfig, active, span>>

Stages == {"new", "onRequest", "context", "checks", "preHandler", "policy", "handler",
           "body", "onResponse", "caught", "errorResponse", "over"}
Statuses == {"none", "open", "ok", "error", "abandoned", "lost"}

PipelineTypeOK ==
  /\ stage \in [Request -> Stages] /\ hook \in [Request -> 1 .. Plugins + 1]
  /\ response \in [Request -> {"none", "built", "head", "ended", "destroyed"}]
  /\ answers \in [Request -> Nat] /\ reported \subseteq Request /\ handled \subseteq Request
  /\ mapConfig \in MapConfigs
  /\ active \in Seq(Request) /\ span \in [Request -> Statuses]

PipelineInit ==
  /\ stage = [r \in Request |-> "new"] /\ hook = [r \in Request |-> 1]
  /\ response = [r \in Request |-> "none"]
  /\ answers = [r \in Request |-> 0] /\ reported = {} /\ handled = {}
  /\ \E c \in MapConfigs : requestId = c[1] /\ maxActiveSpans = c[2]
  /\ active = <<>> /\ span = [r \in Request |-> "none"]

InFlight(r) == stage[r] \notin {"new", "over"}

(* The coroutine of r moves to s, its hooks from the first. *)
Goto(r, s) == stage' = [stage EXCEPT ![r] = s] /\ hook' = [hook EXCEPT ![r] = 1]

Begins(r, how) ==
  /\ response' = [response EXCEPT ![r] = how]
  /\ answers' = [answers EXCEPT ![r] = @ + 1]

(* The stage behind a hook list or a check: the web host runs preHandler    *)
(* first, and the middleware behind it.                                     *)
After(r, at) ==
  IF r \in Web
  THEN [onRequest |-> "preHandler", preHandler |-> "context", context |-> "checks",
        checks |-> "policy", policy |-> "handler"][at]
  ELSE [onRequest |-> "context", context |-> "checks", checks |-> "preHandler",
        preHandler |-> "policy", policy |-> "handler"][at]

(* A hook or a check answers: the response is sent and the request is over, *)
(* or, on the web host, it is what onResponse will see.                     *)
Answers(r) ==
  IF r \in Web THEN /\ Goto(r, "onResponse") /\ UNCHANGED answers
                    /\ response' = [response EXCEPT ![r] = "built"]
               ELSE Goto(r, "over") /\ Begins(r, "ended")

answerVars == <<response, answers>>
spanVars   == <<mapConfig, active, span>>

(***************************************************************************)
(* Spans                                                                   *)
(***************************************************************************)
IsObserver(i) == Observed /\ i = 1

(* The map's key is the id: a caller's trace may bring it to several        *)
(* requests.                                                                *)
SameId(q, r) == requestId[q] = requestId[r]
IsMapped(r) == \E i \in DOMAIN active : active[i] = r

\* Mutant of Closed: a claimed span stays open.
LeftOpen(r, status) == span

(* claim() ends the span under the id of r, whosever it is. *)
Closed(r, status) ==
  [q \in Request |-> IF IsMapped(q) /\ SameId(q, r) THEN status ELSE span[q]]

(* evictUntilRoom ends the oldest span.  set() puts the new one behind the  *)
(* others, or in the place of one with its id, which nobody ends any more.  *)
Crowded == Len(active) >= maxActiveSpans
Kept == IF Crowded THEN Tail(active) ELSE active
Overwritten(r) == {i \in DOMAIN Kept : SameId(Kept[i], r)}

OpenSpan(r) ==
  /\ active' = IF Overwritten(r) = {} THEN Append(Kept, r)
               ELSE [i \in DOMAIN Kept |-> IF i \in Overwritten(r) THEN r ELSE Kept[i]]
  /\ span' = [q \in Request |-> IF q = r THEN "open"
                               ELSE IF Crowded /\ q = Head(active) THEN "abandoned"
                               ELSE IF \E i \in Overwritten(r) : Kept[i] = q THEN "lost"
                               ELSE span[q]]
  /\ UNCHANGED mapConfig

(* The map without the key of r. *)
IsKey(r) == \E i \in DOMAIN active : SameId(active[i], r)
Deleted(r) ==
  LET at == CHOOSE i \in DOMAIN active : SameId(active[i], r)
  IN  [i \in 1 .. Len(active) - 1 |-> active[IF i < at THEN i ELSE i + 1]]

CloseSpan(r, status) ==
  /\ active' = IF IsKey(r) THEN Deleted(r) ELSE active
  /\ span' = Closed(r, status)
  /\ UNCHANGED mapConfig

(***************************************************************************)
(* Hooks in front of the handler                                           *)
(***************************************************************************)
Arrive(r) ==
  /\ stage[r] = "new" /\ Goto(r, "onRequest")
  /\ UNCHANGED <<answerVars, reported, handled, spanVars>>

(* The CSRF check of the web host, without an await behind the last hook.   *)
CsrfRefuses(r) == r \in Web /\ stage[r] = "onRequest" /\ hook[r] = Plugins

(* The next hook runs and throws, answers, or passes to the next hook or    *)
(* stage.                                                                   *)
RunHookList(r, at) ==
  /\ stage[r] = at
  /\ \/ /\ IF hook[r] < Plugins
           THEN hook' = [hook EXCEPT ![r] = @ + 1] /\ UNCHANGED stage
           ELSE Goto(r, After(r, at))
        /\ UNCHANGED answerVars
     \/ ~IsObserver(hook[r]) /\ Goto(r, "caught") /\ UNCHANGED answerVars
     \/ (~IsObserver(hook[r]) \/ CsrfRefuses(r)) /\ Answers(r)
  /\ UNCHANGED <<reported, handled>>

OnRequest(r) ==
  /\ RunHookList(r, "onRequest")
  /\ IF IsObserver(hook[r]) THEN OpenSpan(r) ELSE UNCHANGED spanVars

PreHandler(r) == RunHookList(r, "preHandler") /\ UNCHANGED spanVars

(* Middleware and context; then method, CSRF, body and validation; then the *)
(* policy of the route: each passes, throws, or answers and is over.        *)
Gate(r, at) ==
  /\ stage[r] = at
  /\ \/ Goto(r, After(r, at)) /\ UNCHANGED answerVars
     \/ Goto(r, "caught") /\ UNCHANGED answerVars
     \/ Answers(r)
  /\ UNCHANGED <<reported, handled, spanVars>>

RunMiddlewareAndContext(r) == Gate(r, "context")
Checks(r) == Gate(r, "checks")
EvaluateRoutePolicy(r) == Gate(r, "policy")

(***************************************************************************)
(* The handler and its answer                                              *)
(***************************************************************************)
(* A value, sent as JSON; a Response, whose head is written; or an error,   *)
(* of the handler or of the validation of its value.                        *)
SendsResult(r, result) ==
  \/ result = "value" /\ Goto(r, "onResponse") /\ Begins(r, "ended")
  \/ result = "stream" /\ Goto(r, "body") /\ Begins(r, "head")

(* On the web host each is a Response, or an error. *)
BuildsResult(r, result) == result = "value" /\ Answers(r)

Handle(r, result) ==
  /\ stage[r] = "handler" /\ handled' = handled \cup {r}
  /\ \/ IF r \in Web THEN BuildsResult(r, result) ELSE SendsResult(r, result)
     \/ result = "throws" /\ Goto(r, "caught") /\ UNCHANGED answerVars
  /\ UNCHANGED <<reported, spanVars>>

PipeEnds(r) ==
  /\ stage[r] = "body" /\ Goto(r, "onResponse")
  /\ response' = [response EXCEPT ![r] = "ended"]
  /\ UNCHANGED <<answers, reported, handled, spanVars>>

(* The body throws: onError runs, the response is destroyed. *)
PipeFails(r) ==
  /\ stage[r] = "body" /\ Goto(r, "onResponse")
  /\ response' = [response EXCEPT ![r] = "destroyed"] /\ UNCHANGED answers
  /\ reported' = reported \cup {r}
  /\ IF Observed THEN CloseSpan(r, "error") ELSE UNCHANGED spanVars
  /\ UNCHANGED handled

(* By then the head is sent, which ends the list behind its first hook;     *)
(* the web host runs the whole list.                                        *)
MoreHooks(r) == hook[r] < Plugins /\ response[r] \in {"none", "built"}

(* The web host returns the response at the end of the list. *)
Returns(r) ==
  /\ Goto(r, "over")
  /\ IF r \in Web THEN Begins(r, "ended") ELSE UNCHANGED answerVars

OnResponse(r) ==
  /\ stage[r] = "onResponse"
  /\ \/ IF MoreHooks(r)
        THEN hook' = [hook EXCEPT ![r] = @ + 1] /\ UNCHANGED <<stage, answerVars>>
        ELSE Returns(r)
     \/ ~IsObserver(hook[r]) /\ Goto(r, "caught") /\ UNCHANGED answerVars
  /\ IF IsObserver(hook[r]) THEN CloseSpan(r, "ok") ELSE UNCHANGED spanVars
  /\ UNCHANGED <<reported, handled>>

(***************************************************************************)
(* The error path                                                          *)
(***************************************************************************)
(* onError runs; unless the response is ended an error is sent, which       *)
(* throws when a head is out: then the request handler ends the response.   *)
Catch(r) ==
  /\ stage[r] = "caught" /\ r \notin Web
  /\ reported' = reported \cup {r}
  /\ IF Observed THEN CloseSpan(r, "error") ELSE UNCHANGED spanVars
  /\ IF response[r] = "ended" THEN Goto(r, "errorResponse") /\ UNCHANGED answerVars
     ELSE IF response[r] = "none" THEN Goto(r, "errorResponse") /\ Begins(r, "ended")
     ELSE Goto(r, "over") /\ UNCHANGED answerVars
  /\ UNCHANGED handled

(* The web host drops what was built and returns the error; a hook that     *)
(* throws is passed over.                                                   *)
RunErrorHooks(r) ==
  /\ stage[r] = "caught" /\ r \in Web
  /\ reported' = reported \cup {r}
  /\ IF Observed THEN CloseSpan(r, "error") ELSE UNCHANGED spanVars
  /\ Goto(r, "over") /\ Begins(r, "ended")
  /\ UNCHANGED handled

(* A hook that throws here is passed over; one that does not ends the list. *)
ErrorResponse(r) ==
  /\ stage[r] = "errorResponse"
  /\ \/ Goto(r, "over")
     \/ /\ ~IsObserver(hook[r]) /\ hook[r] < Plugins
        /\ hook' = [hook EXCEPT ![r] = @ + 1] /\ UNCHANGED stage
  /\ IF IsObserver(hook[r]) THEN CloseSpan(r, "ok") ELSE UNCHANGED spanVars
  /\ UNCHANGED <<answerVars, reported, handled>>

Stage(r) ==
  \/ OnRequest(r) \/ PreHandler(r) \/ RunMiddlewareAndContext(r) \/ Checks(r)
  \/ EvaluateRoutePolicy(r) \/ PipeEnds(r) \/ PipeFails(r)
  \/ OnResponse(r) \/ Catch(r) \/ RunErrorHooks(r) \/ ErrorResponse(r)

(***************************************************************************)
(* Properties                                                              *)
(***************************************************************************)
Answered == {"onResponse", "caught", "errorResponse", "over"}

(* A request is answered once, whatever throws and wherever. *)
AnsweredOnce ==
  \A r \in Request : /\ answers[r] <= 1
                     /\ stage[r] = "over" => response[r] \in {"ended", "destroyed"}

(* What becomes of a span.  An open one is in the map, and its request, if  *)
(* over, was answered in front of its handler: none is left open by one     *)
(* that came to its handler, threw or was served by the web host.  One that *)
(* is ended was ended behind a response, or an error, of a request of its   *)
(* own id, and one is lost only where another request came with its id.     *)
SpanIsAccountedFor ==
  /\ \A r \in Request :
       /\ span[r] = "open" <=> IsMapped(r)
       /\ stage[r] = "over" /\ span[r] = "open" => r \notin handled \cup reported \cup Web
       /\ span[r] = "ok" => \E q \in Request : SameId(q, r) /\ stage[q] \in Answered
       /\ span[r] = "error" => \E q \in reported : SameId(q, r)
       /\ span[r] = "lost" => \E q \in Request \ {r} : SameId(q, r) /\ span[q] # "none"
  /\ Len(active) <= maxActiveSpans

(* Refuted: a span that is cut still reaches the exporter, ended rather     *)
(* than dropped (middleware.ts:34).  One whose id a second request of its   *)
(* trace brings is dropped.                                                 *)
NoSpanIsLost == \A r \in Request : span[r] # "lost"
=============================================================================
