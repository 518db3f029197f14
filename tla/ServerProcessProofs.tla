------------------------ MODULE ServerProcessProofs ------------------------
(***************************************************************************)
(* Proofs about the process of `theokit start`, for any number of requests, *)
(* plugins, crons and pools: crons that forbid overlaps never overlap, each *)
(* request is answered once and its span accounted for, and no pool         *)
(* outlives the drain.                                                      *)
(***************************************************************************)
EXTENDS SequenceTheorems, ServerProcess, TLAPS

(***************************************************************************)
(* The cron scheduler                                                      *)
(***************************************************************************)
(* Without its flag such a job has no run; a run is the controller's or has *)
(* been signalled; and a scheduler that is stopped has no timer.            *)
CronInv ==
  /\ CronTypeOK
  /\ ForbidNeverOverlaps
  /\ \A j \in Forbid : ~inFlight[j] => running[j] = {}
  /\ \A j \in Forbid : running[j] \subseteq signalled[j] \cup {controller[j]}
  /\ ~started => \A j \in Job : ~timer[j]
  /\ StoppedIsSignalled

LEMMA CronInitInv == CronInit => CronInv
  BY CronAssumption DEF CronInit, CronInv, CronTypeOK, ForbidNeverOverlaps, StoppedIsSignalled, NoRun

LEMMA StartKeeps == ASSUME CronInv, CronStart PROVE CronInv'
  BY CronAssumption DEF CronStart, CronInv, CronTypeOK, ForbidNeverOverlaps, StoppedIsSignalled

LEMMA StopKeeps == ASSUME CronInv, CronStop PROVE CronInv'
  <1>1. CronTypeOK'
    BY DEF CronStop, CronInv, CronTypeOK, NoRun
  <1>2. QED
    BY <1>1, CronAssumption
    DEF CronStop, CronInv, CronTypeOK, ForbidNeverOverlaps, StoppedIsSignalled, NoRun

LEMMA FireKeeps == ASSUME CronInv, NEW j \in Job, Fire(j) PROVE CronInv'
  <1>1. CASE Skips(j)
    BY <1>1, CronAssumption
    DEF Fire, CronInv, CronTypeOK, ForbidNeverOverlaps, StoppedIsSignalled
  <1>2. CASE ~Skips(j)
    <2>1. PICK r \in Run \ running[j] :
            /\ inFlight' = [inFlight EXCEPT ![j] = TRUE]
            /\ controller' = [controller EXCEPT ![j] = r]
            /\ running' = [running EXCEPT ![j] = @ \cup {r}]
            /\ UNCHANGED signalled
      BY <1>2 DEF Fire
    <2>2. timer[j] /\ timer' = [timer EXCEPT ![j] = started] /\ started' = started
      BY DEF Fire
    <2>3. started
      BY <2>2 DEF CronInv
    <2>4. CronTypeOK'
      BY <2>1, <2>2, <2>3 DEF CronInv, CronTypeOK
    <2>5. j \in Forbid => running[j] = {}
      BY <1>2 DEF Skips, CronInv
    <2>6. ForbidNeverOverlaps'
      BY <2>1, <2>5, CronAssumption DEF CronInv, CronTypeOK, ForbidNeverOverlaps
    <2>7. (\A k \in Forbid : ~inFlight[k] => running[k] = {})'
      BY <2>1, CronAssumption DEF CronInv, CronTypeOK
    <2>8. (\A k \in Forbid : running[k] \subseteq signalled[k] \cup {controller[k]})'
      BY <2>1, <2>5, CronAssumption DEF CronInv, CronTypeOK
    <2>9. QED
      BY <2>2, <2>3, <2>4, <2>6, <2>7, <2>8 DEF CronInv, StoppedIsSignalled
  <1>3. QED
    BY <1>1, <1>2

LEMMA SettleKeeps ==
  ASSUME CronInv, NEW j \in Job, NEW r \in Run, HandlerSettles(j, r) PROVE CronInv'
  <1>1. CronTypeOK'
    BY DEF HandlerSettles, CronInv, CronTypeOK, NoRun
  <1>2. j \in Forbid => running[j] = {r}
    BY DEF HandlerSettles, CronInv, ForbidNeverOverlaps
  <1>3. ForbidNeverOverlaps'
    BY CronAssumption DEF HandlerSettles, CronInv, CronTypeOK, ForbidNeverOverlaps
  <1>4. (\A k \in Forbid : ~inFlight[k] => running[k] = {})'
    BY <1>2, CronAssumption DEF HandlerSettles, CronInv, CronTypeOK
  <1>5. (\A k \in Forbid : running[k] \subseteq signalled[k] \cup {controller[k]})'
    BY <1>2, CronAssumption DEF HandlerSettles, CronInv, CronTypeOK, NoRun
  <1>6. (~started => \A k \in Job : ~timer[k])'
    BY DEF HandlerSettles, CronInv
  <1>7. StoppedIsSignalled'
    BY <1>2, CronAssumption DEF HandlerSettles, CronInv, CronTypeOK, StoppedIsSignalled
  <1>8. QED
    BY <1>1, <1>3, <1>4, <1>5, <1>6, <1>7 DEF CronInv

LEMMA CronStepInv == CronInv /\ [CronNext]_cronVars => CronInv'
  <1> SUFFICES ASSUME CronInv, [CronNext]_cronVars PROVE CronInv'
    OBVIOUS
  <1>1. CASE CronStart
    BY <1>1, StartKeeps
  <1>2. CASE CronStop
    BY <1>2, StopKeeps
  <1>3. CASE \E j \in Job : Fire(j) \/ \E r \in Run : HandlerSettles(j, r)
    BY <1>3, FireKeeps, SettleKeeps
  <1>4. CASE UNCHANGED cronVars
    BY <1>4 DEF cronVars, CronInv, CronTypeOK, ForbidNeverOverlaps, StoppedIsSignalled
  <1>5. QED
    BY <1>1, <1>2, <1>3, <1>4 DEF CronNext

(* When the scheduler is stopped, every run of a job that forbids overlaps  *)
(* has had its signal aborted; and through any stops and starts such a job  *)
(* never has two runs (cron-runtime-node.ts, stop()).                       *)
THEOREM StopReachesEveryRun == CronSpec => [](StoppedIsSignalled /\ ForbidNeverOverlaps)
  <1>1. CronSpec => []CronInv
    BY CronInitInv, CronStepInv, PTL DEF CronSpec
  <1>2. CronInv => StoppedIsSignalled /\ ForbidNeverOverlaps
    BY DEF CronInv
  <1>3. QED
    BY <1>1, <1>2, PTL

(***************************************************************************)
(* Requests                                                                *)
(***************************************************************************)
Front == {"new", "onRequest", "context", "checks", "preHandler", "policy", "handler"}

(* How far a request's response is, at each stage. *)
PipeInv ==
  /\ stage \in [Request -> Stages]
  /\ response \in [Request -> {"none", "built", "head", "ended", "destroyed"}]
  /\ answers \in [Request -> Nat]
  /\ \A r \in Request :
       /\ answers[r] = IF response[r] \in {"none", "built"} THEN 0 ELSE 1
       /\ stage[r] \in Front => response[r] = "none"
       /\ stage[r] = "body" => response[r] = "head"
       /\ stage[r] = "onResponse" => response[r] \in {"built", "ended", "destroyed"}
       /\ stage[r] = "over" => response[r] \in {"ended", "destroyed"}
       /\ stage[r] = "caught" => response[r] # "head"
       /\ stage[r] = "errorResponse" => response[r] = "ended"
       /\ response[r] = "built" => r \in Web /\ stage[r] \in {"onResponse", "caught"}
       /\ r \in Web => (response[r] \in {"none", "built"} <=> stage[r] # "over")

LEMMA PipeInitInv == PipelineInit => PipeInv
  BY DEF PipelineInit, PipeInv, Stages, Front

LEMMA ArriveKeeps == ASSUME PipeInv, NEW r \in Request, Arrive(r) PROVE PipeInv'
  BY DEF Arrive, Goto, answerVars, PipeInv, Stages, Front

(* In front of the handler the order of the stages stays in front of it.    *)
Listed == {"onRequest", "context", "checks", "preHandler", "policy"}

LEMMA AfterIsFront == ASSUME NEW r \in Request, NEW at \in Listed PROVE After(r, at) \in Front
  BY DEF After, Listed, Front

LEMMA HookListKeeps ==
  ASSUME PipeInv, NEW r \in Request, NEW at \in Listed, RunHookList(r, at)
  PROVE  PipeInv'
  <1>1. After(r, at) \in Front /\ at \in Front
    BY AfterIsFront DEF Listed, Front
  <1>2. QED
    BY <1>1 DEF RunHookList, Answers, Goto, Begins, answerVars, PipeInv, Stages, Front

LEMMA GateKeeps ==
  ASSUME PipeInv, NEW r \in Request, NEW at \in Listed, Gate(r, at)
  PROVE  PipeInv'
  <1>1. After(r, at) \in Front /\ at \in Front
    BY AfterIsFront DEF Listed, Front
  <1>2. QED
    BY <1>1 DEF Gate, Answers, Goto, Begins, answerVars, PipeInv, Stages, Front

LEMMA HandleKeeps ==
  ASSUME PipeInv, NEW r \in Request, NEW result, Handle(r, result) PROVE PipeInv'
  BY DEF Handle, SendsResult, BuildsResult, Answers, Goto, Begins, answerVars, PipeInv, Stages, Front

LEMMA PipeKeeps ==
  ASSUME PipeInv, NEW r \in Request, PipeEnds(r) \/ PipeFails(r) PROVE PipeInv'
  BY DEF PipeEnds, PipeFails, Goto, PipeInv, Stages, Front

LEMMA OnResponseKeeps == ASSUME PipeInv, NEW r \in Request, OnResponse(r) PROVE PipeInv'
  BY DEF OnResponse, MoreHooks, Returns, Goto, Begins, answerVars, PipeInv, Stages, Front

LEMMA CatchKeeps ==
  ASSUME PipeInv, NEW r \in Request, Catch(r) \/ RunErrorHooks(r) PROVE PipeInv'
  BY DEF Catch, RunErrorHooks, Goto, Begins, answerVars, PipeInv, Stages, Front

LEMMA ErrorResponseKeeps == ASSUME PipeInv, NEW r \in Request, ErrorResponse(r) PROVE PipeInv'
  BY DEF ErrorResponse, Goto, answerVars, PipeInv, Stages, Front

LEMMA StageKeeps == ASSUME PipeInv, NEW r \in Request, Stage(r) PROVE PipeInv'
  <1>1. CASE OnRequest(r) \/ PreHandler(r)
    BY <1>1, HookListKeeps DEF OnRequest, PreHandler, Listed
  <1>2. CASE RunMiddlewareAndContext(r) \/ Checks(r) \/ EvaluateRoutePolicy(r)
    BY <1>2, GateKeeps DEF RunMiddlewareAndContext, Checks, EvaluateRoutePolicy, Listed
  <1>3. CASE PipeEnds(r) \/ PipeFails(r)
    BY <1>3, PipeKeeps
  <1>4. QED
    BY <1>1, <1>2, <1>3, OnResponseKeeps, CatchKeeps, ErrorResponseKeeps DEF Stage

(***************************************************************************)
(* Spans                                                                   *)
(***************************************************************************)
SpanTypeOK ==
  /\ hook \in [Request -> 1 .. Plugins + 1]
  /\ handled \subseteq Request /\ reported \subseteq Request
  /\ maxActiveSpans \in Nat \ {0}
  /\ active \in Seq(Request)
  /\ span \in [Request -> Statuses]

(* The map holds the open spans, one to an id, and no more than its cap.    *)
SpanMap ==
  /\ \A r \in Request : span[r] = "open" <=> IsMapped(r)
  /\ \A i \in DOMAIN active, j \in DOMAIN active : SameId(active[i], active[j]) => i = j
  /\ Len(active) <= maxActiveSpans

(* Where a span can be open: a request whose handler was called is behind   *)
(* it, a reported one has none, and onResponse closes it at its first hook. *)
SpanAt(r) ==
  /\ stage[r] = "new" \/ (stage[r] = "onRequest" /\ hook[r] = 1) => span[r] = "none"
  /\ r \in handled => stage[r] \in {"body", "onResponse", "caught", "errorResponse", "over"}
  /\ r \in reported => /\ stage[r] \in {"onResponse", "caught", "errorResponse", "over"}
                       /\ span[r] # "open"
  /\ stage[r] = "errorResponse" => r \in reported
  /\ stage[r] = "onResponse" /\ hook[r] > 1 => span[r] # "open"
  /\ stage[r] = "over" /\ span[r] = "open" => r \notin handled \cup Web
  /\ ~Observed => span[r] # "open"

(* Why a span is no longer open.                                            *)
EndedFor(r) ==
  /\ span[r] = "ok" => \E q \in Request : SameId(q, r) /\ stage[q] \in Answered
  /\ span[r] = "error" => \E q \in reported : SameId(q, r)
  /\ span[r] = "lost" => \E q \in Request \ {r} : SameId(q, r) /\ span[q] # "none"

SpanInv == SpanTypeOK /\ SpanMap /\ \A r \in Request : SpanAt(r) /\ EndedFor(r)

LEMMA SpanInitInv == PipelineInit => SpanInv
  <1>1. <<>> \in Seq(Request) /\ Len(<<>>) = 0 /\ DOMAIN <<>> = {}
    OBVIOUS
  <1>2. QED
    BY <1>1, PipelineAssumption
    DEF PipelineInit, SpanInv, SpanTypeOK, SpanMap, SpanAt, EndedFor, IsMapped, Statuses

(* What a span does when another request, or nobody, opens or closes one:   *)
(* it stays, or it is evicted, claimed or overwritten.                      *)
Passive(q) ==
  span'[q] = span[q] \/ (span[q] = "open" /\ span'[q] \in Statuses \ {"none", "open"})

(* claim(): the span under the id of r leaves the map, and no other does.   *)
LEMMA CloseLemma ==
  ASSUME SpanTypeOK, SpanMap, NEW r \in Request, NEW status \in {"ok", "error"},
         CloseSpan(r, status)
  PROVE  /\ UNCHANGED mapConfig
         /\ active' \in Seq(Request) /\ span' \in [Request -> Statuses]
         /\ SpanMap' /\ span'[r] # "open"
         /\ \A q \in Request : Passive(q)
         /\ \A q \in Request : span'[q] # span[q] => SameId(r, q) /\ span'[q] = status
  <1>1. /\ UNCHANGED <<requestId, maxActiveSpans>>
        /\ \A q \in Request :
             span'[q] = IF IsMapped(q) /\ SameId(q, r) THEN status ELSE span[q]
        /\ span' \in [Request -> Statuses]
    BY DEF CloseSpan, Closed, SpanTypeOK, mapConfig, Statuses
  <1>2. /\ span'[r] # "open"
        /\ \A q \in Request : Passive(q)
        /\ \A q \in Request : span'[q] # span[q] => SameId(r, q) /\ span'[q] = status
    BY <1>1 DEF Passive, SpanMap, SameId, Statuses
  <1>3. active' \in Seq(Request) /\ SpanMap'
    <2>1. CASE ~IsKey(r)
      <3>1. active' = active
        BY <2>1 DEF CloseSpan
      <3>2. \A q \in Request : IsMapped(q) => ~SameId(q, r)
        BY <2>1 DEF IsKey, IsMapped
      <3>3. \A q \in Request : span'[q] = span[q]
        BY <1>1, <3>2
      <3>4. QED
        BY <1>1, <3>1, <3>3 DEF SpanMap, IsMapped, SpanTypeOK, SameId
    <2>2. CASE IsKey(r)
      <3> DEFINE at == CHOOSE i \in DOMAIN active : SameId(active[i], r)
                 n  == Len(active)
      <3>1. at \in DOMAIN active /\ SameId(active[at], r)
        BY <2>2 DEF IsKey
      <3>2. n \in Nat /\ DOMAIN active = 1 .. n /\ \A i \in 1 .. n : active[i] \in Request
        BY DEF SpanTypeOK
      <3>3. active' = [i \in 1 .. n - 1 |-> active[IF i < at THEN i ELSE i + 1]]
        BY <2>2 DEF CloseSpan, Deleted
      <3>4. n <= maxActiveSpans /\ maxActiveSpans \in Nat
        BY DEF SpanMap, SpanTypeOK
      <3> HIDE DEF at, n
      <3>5. at \in 1 .. n /\ n - 1 \in Nat
        BY <3>1, <3>2
      <3>6. active' \in Seq(Request) /\ Len(active') = n - 1 /\ DOMAIN active' = 1 .. n - 1
        <4>1. \A i \in 1 .. n - 1 : active[IF i < at THEN i ELSE i + 1] \in Request
          BY <3>2, <3>5
        <4>2. active' \in [1 .. n - 1 -> Request]
          BY <3>3, <4>1
        <4>3. QED
          BY <3>5, <4>2, SeqDef, LenProperties
      <3>7. \A i \in 1 .. n - 1 : active'[i] = active[IF i < at THEN i ELSE i + 1]
        BY <3>3
      <3>8. ASSUME NEW q \in Request PROVE IsMapped(q)' <=> IsMapped(q) /\ ~SameId(q, r)
        <4>1. ASSUME IsMapped(q)' PROVE IsMapped(q) /\ ~SameId(q, r)
          <5>1. PICK i \in 1 .. n - 1 : active'[i] = q
            BY <3>6, <4>1 DEF IsMapped
          <5> DEFINE j == IF i < at THEN i ELSE i + 1
          <5>2. active[j] = q /\ j \in 1 .. n /\ j # at
            BY <3>2, <3>5, <3>7, <5>1
          <5>3. ~SameId(active[j], active[at])
            BY <3>2, <3>5, <5>2 DEF SpanMap
          <5>4. QED
            BY <3>1, <3>2, <5>2, <5>3 DEF IsMapped, SameId
        <4>2. ASSUME IsMapped(q), ~SameId(q, r) PROVE IsMapped(q)'
          <5>1. PICK j \in 1 .. n : active[j] = q
            BY <3>2, <4>2 DEF IsMapped
          <5>2. j # at
            BY <3>1, <4>2, <5>1
          <5> DEFINE i == IF j < at THEN j ELSE j - 1
          <5>3. i \in 1 .. n - 1 /\ (IF i < at THEN i ELSE i + 1) = j
            BY <3>2, <3>5, <5>2
          <5>4. active'[i] = q
            BY <3>7, <5>1, <5>3
          <5>5. QED
            BY <3>6, <5>3, <5>4 DEF IsMapped
        <4>3. QED
          BY <4>1, <4>2
      <3>9. ASSUME NEW i \in DOMAIN active', NEW j \in DOMAIN active', SameId(active[i], active[j])'
            PROVE  i = j
        <4> DEFINE a == IF i < at THEN i ELSE i + 1
                   b == IF j < at THEN j ELSE j + 1
        <4>1. i \in 1 .. n - 1 /\ j \in 1 .. n - 1
          BY <3>6
        <4>2. a \in 1 .. n /\ b \in 1 .. n /\ (a = b => i = j)
          BY <3>2, <3>5, <4>1
        <4>3. active'[i] = active[a] /\ active'[j] = active[b]
          BY <3>7, <4>1
        <4>4. SameId(active[a], active[b])
          BY <1>1, <3>9, <4>3 DEF SameId
        <4>5. QED
          BY <3>2, <4>2, <4>4 DEF SpanMap
      <3>10. \A q \in Request : span'[q] = "open" <=> IsMapped(q)'
        BY <1>1, <3>8 DEF SpanMap
      <3>11. Len(active') <= maxActiveSpans'
        BY <1>1, <3>2, <3>4, <3>6
      <3>12. QED
        BY <3>6, <3>9, <3>10, <3>11 DEF SpanMap
    <2>3. QED
      BY <2>1, <2>2
  <1>4. QED
    BY <1>1, <1>2, <1>3 DEF mapConfig

(* evictUntilRoom: the oldest span leaves the map if it is full.            *)
LEMMA KeptLemma ==
  ASSUME SpanTypeOK, SpanMap
  PROVE  /\ Kept \in Seq(Request) /\ Len(Kept) + 1 <= maxActiveSpans
         /\ \A i \in DOMAIN Kept, j \in DOMAIN Kept : SameId(Kept[i], Kept[j]) => i = j
         /\ \A q : IsMapped(q) <=> \/ \E i \in DOMAIN Kept : Kept[i] = q
                                   \/ Crowded /\ q = Head(active)
         /\ Crowded => \A i \in DOMAIN Kept : Kept[i] # Head(active)
  <1> DEFINE n == Len(active)
  <1>1. n \in Nat /\ DOMAIN active = 1 .. n /\ \A i \in 1 .. n : active[i] \in Request
    BY DEF SpanTypeOK
  <1>2. n <= maxActiveSpans /\ maxActiveSpans \in Nat /\ maxActiveSpans >= 1
    BY DEF SpanMap, SpanTypeOK
  <1>3. CASE Crowded
    <2>1. n >= 1
      BY <1>1, <1>2, <1>3 DEF Crowded
    <2>2. active # <<>>
      BY <2>1
    <2>3. /\ Tail(active) \in Seq(Request) /\ Len(Tail(active)) = n - 1
          /\ \A i \in 1 .. n - 1 : Tail(active)[i] = active[i + 1]
          /\ Head(active) = active[1]
      BY <2>2, HeadTailProperties DEF SpanTypeOK
    <2>4. Kept = Tail(active)
      BY <1>3 DEF Kept
    <2> HIDE DEF n
    <2>5. DOMAIN Kept = 1 .. n - 1 /\ Len(Kept) = n - 1 /\ Kept \in Seq(Request)
      BY <2>3, <2>4, LenProperties
    <2>6. \A i \in 1 .. n - 1 : i + 1 \in 1 .. n /\ Kept[i] = active[i + 1] /\ i + 1 # 1
      BY <1>1, <2>3, <2>4
    <2>7. ASSUME NEW i \in DOMAIN Kept, NEW j \in DOMAIN Kept, SameId(Kept[i], Kept[j])
          PROVE  i = j
      <3>1. SameId(active[i + 1], active[j + 1]) /\ i + 1 \in 1 .. n /\ j + 1 \in 1 .. n
        BY <2>5, <2>6, <2>7
      <3>2. i + 1 = j + 1
        BY <1>1, <3>1 DEF SpanMap
      <3>3. QED
        BY <2>5, <3>2
    <2>8. ASSUME NEW i \in DOMAIN Kept PROVE Kept[i] # Head(active)
      <3>1. i + 1 \in 1 .. n /\ Kept[i] = active[i + 1] /\ i + 1 # 1 /\ 1 \in 1 .. n
        BY <1>1, <2>1, <2>5, <2>6
      <3>2. active[i + 1] # active[1]
        BY <1>1, <3>1 DEF SpanMap, SameId
      <3>3. QED
        BY <2>3, <3>1, <3>2
    <2>9. ASSUME NEW q
          PROVE  IsMapped(q) <=> (\E i \in DOMAIN Kept : Kept[i] = q) \/ q = Head(active)
      <3>1. ASSUME IsMapped(q), q # Head(active) PROVE \E i \in DOMAIN Kept : Kept[i] = q
        <4>1. PICK j \in 1 .. n : active[j] = q
          BY <1>1, <3>1 DEF IsMapped
        <4>2. j # 1
          BY <2>3, <3>1, <4>1
        <4>3. j - 1 \in 1 .. n - 1 /\ (j - 1) + 1 = j
          BY <1>1, <4>1, <4>2
        <4>4. Kept[j - 1] = q
          BY <2>6, <4>1, <4>3
        <4>5. QED
          BY <2>5, <4>3, <4>4
      <3>2. (\E i \in DOMAIN Kept : Kept[i] = q) => IsMapped(q)
        BY <1>1, <2>5, <2>6 DEF IsMapped
      <3>3. q = Head(active) => IsMapped(q)
        BY <1>1, <2>1, <2>3 DEF IsMapped
      <3>4. QED
        BY <3>1, <3>2, <3>3
    <2>10. Len(Kept) + 1 <= maxActiveSpans
      BY <1>1, <1>2, <2>5
    <2>11. QED
      BY <1>3, <2>5, <2>7, <2>8, <2>9, <2>10
  <1>4. CASE ~Crowded
    <2>1. Kept = active /\ n < maxActiveSpans
      BY <1>1, <1>2, <1>4 DEF Kept, Crowded
    <2>2. Len(Kept) + 1 <= maxActiveSpans
      BY <1>1, <1>2, <2>1
    <2>3. QED
      BY <1>4, <2>1, <2>2 DEF SpanMap, SpanTypeOK, IsMapped
  <1>5. QED
    BY <1>3, <1>4

(* set(): the span of r, which had none, joins the map, or takes the place  *)
(* of the one span there with its id.                                       *)
LEMMA OpenLemma ==
  ASSUME SpanTypeOK, SpanMap, NEW r \in Request, span[r] = "none", OpenSpan(r)
  PROVE  /\ UNCHANGED mapConfig
         /\ active' \in Seq(Request) /\ span' \in [Request -> Statuses]
         /\ SpanMap' /\ span'[r] = "open"
         /\ \A q \in Request : q # r => Passive(q)
         /\ \A q \in Request : q # r /\ span'[q] # span[q] =>
              span'[q] = "abandoned" \/ (span'[q] = "lost" /\ SameId(r, q))
  <1> DEFINE m == Len(Kept)
             over == Overwritten(r)
  <1>1. /\ Kept \in Seq(Request) /\ m + 1 <= maxActiveSpans
        /\ \A i \in DOMAIN Kept, j \in DOMAIN Kept : SameId(Kept[i], Kept[j]) => i = j
        /\ \A q : IsMapped(q) <=> \/ \E i \in DOMAIN Kept : Kept[i] = q
                                  \/ Crowded /\ q = Head(active)
        /\ Crowded => \A i \in DOMAIN Kept : Kept[i] # Head(active)
    BY KeptLemma
  <1>2. m \in Nat /\ DOMAIN Kept = 1 .. m /\ \A i \in 1 .. m : Kept[i] \in Request
    BY <1>1
  <1>3. /\ UNCHANGED <<requestId, maxActiveSpans>> /\ maxActiveSpans \in Nat
        /\ span' = [q \in Request |-> IF q = r THEN "open"
                               ELSE IF Crowded /\ q = Head(active) THEN "abandoned"
                               ELSE IF \E i \in over : Kept[i] = q THEN "lost"
                               ELSE span[q]]
    BY DEF OpenSpan, mapConfig, SpanTypeOK
  <1>4. over \subseteq 1 .. m /\ \A i \in 1 .. m : i \in over <=> SameId(Kept[i], r)
    BY <1>2 DEF Overwritten
  <1>5. active' = IF over = {} THEN Append(Kept, r)
                  ELSE [i \in 1 .. m |-> IF i \in over THEN r ELSE Kept[i]]
    BY <1>2 DEF OpenSpan
  <1>6. ~IsMapped(r)
    BY DEF SpanMap
  <1>7. \A i \in 1 .. m : Kept[i] # r
    BY <1>1, <1>2, <1>6
  <1> HIDE DEF m, over
  <1>8. span' \in [Request -> Statuses] /\ span'[r] = "open"
    BY <1>3 DEF SpanTypeOK, Statuses
  <1>9. ASSUME NEW q \in Request, q # r
        PROVE  /\ Passive(q)
               /\ span'[q] # span[q] => \/ span'[q] = "abandoned"
                                        \/ (span'[q] = "lost" /\ SameId(r, q))
    <2>1. span'[q] # span[q] => IsMapped(q) /\ span'[q] \in {"abandoned", "lost"}
      BY <1>1, <1>2, <1>3, <1>4, <1>9
    <2>2. span'[q] # span[q] /\ span'[q] # "abandoned" => \E i \in over : Kept[i] = q
      BY <1>3, <1>9
    <2>3. QED
      BY <1>4, <2>1, <2>2 DEF Passive, SpanMap, Statuses, SameId
  <1>10. /\ active' \in Seq(Request) /\ Len(active') <= m + 1
         /\ IsMapped(r)'
         /\ \A q \in Request : q # r =>
              (IsMapped(q)' <=> \E i \in 1 .. m : i \notin over /\ Kept[i] = q)
         /\ (\A i \in DOMAIN active, j \in DOMAIN active : SameId(active[i], active[j]) => i = j)'
    <2>1. CASE over = {}
      <3>1. /\ active' \in Seq(Request) /\ Len(active') = m + 1
            /\ \A i \in 1 .. m : active'[i] = Kept[i]
            /\ active'[m + 1] = r
        BY <1>1, <1>5, <2>1, AppendProperties DEF m
      <3>2. DOMAIN active' = 1 .. m + 1
        BY <3>1
      <3>3. \A i \in 1 .. m + 1 : i \in 1 .. m \/ i = m + 1
        BY <1>2
      <3>4. \A i \in 1 .. m : i \in 1 .. m + 1 /\ ~SameId(Kept[i], r) /\ ~SameId(r, Kept[i])
        BY <1>2, <1>4, <2>1 DEF SameId
      <3>5. m + 1 \in 1 .. m + 1 /\ m + 1 <= m + 1
        BY <1>2
      <3>6. IsMapped(r)'
        BY <3>1, <3>2, <3>5 DEF IsMapped
      <3>7. \A q \in Request : q # r => (IsMapped(q)' <=> \E i \in 1 .. m : Kept[i] = q)
        BY <3>1, <3>2, <3>3, <3>4 DEF IsMapped
      <3>8. ASSUME NEW i \in DOMAIN active', NEW j \in DOMAIN active', SameId(active[i], active[j])'
            PROVE  i = j
        <4>1. SameId(active'[i], active'[j])
          BY <1>3, <3>8 DEF SameId
        <4>2. CASE i \in 1 .. m /\ j \in 1 .. m
          BY <1>1, <1>2, <3>1, <4>1, <4>2
        <4>3. CASE i = m + 1 /\ j \in 1 .. m
          BY <3>1, <3>4, <4>1, <4>3
        <4>4. CASE j = m + 1 /\ i \in 1 .. m
          BY <3>1, <3>4, <4>1, <4>4
        <4>5. QED
          BY <3>2, <3>3, <4>2, <4>3, <4>4
      <3>9. QED
        BY <2>1, <3>1, <3>5, <3>6, <3>7, <3>8
    <2>2. CASE over # {}
      <3>1. PICK k \in over : TRUE
        BY <2>2
      <3>2. over = {k} /\ k \in 1 .. m
        <4>1. k \in 1 .. m /\ SameId(Kept[k], r)
          BY <1>4, <3>1
        <4>2. ASSUME NEW i \in over PROVE i = k
          <5>1. i \in 1 .. m /\ SameId(Kept[i], r)
            BY <1>4, <4>2
          <5>2. SameId(Kept[i], Kept[k])
            BY <4>1, <5>1 DEF SameId
          <5>3. QED
            BY <1>1, <1>2, <4>1, <5>1, <5>2
        <4>3. QED
          BY <3>1, <4>1, <4>2
      <3>3. /\ active' = [i \in 1 .. m |-> IF i \in over THEN r ELSE Kept[i]]
            /\ active' \in [1 .. m -> Request]
        BY <1>2, <1>5, <2>2
      <3>4. active' \in Seq(Request) /\ Len(active') = m /\ DOMAIN active' = 1 .. m
        BY <1>2, <3>3, SeqDef, LenProperties
      <3>5. active'[k] = r /\ \A i \in 1 .. m : i # k => active'[i] = Kept[i]
        BY <3>2, <3>3
      <3>6. IsMapped(r)'
        BY <3>2, <3>4, <3>5 DEF IsMapped
      <3>7. \A q \in Request : q # r =>
              (IsMapped(q)' <=> \E i \in 1 .. m : i \notin over /\ Kept[i] = q)
        BY <3>2, <3>4, <3>5 DEF IsMapped
      <3>8. ASSUME NEW i \in DOMAIN active', NEW j \in DOMAIN active', SameId(active[i], active[j])'
            PROVE  i = j
        <4>1. i \in 1 .. m /\ j \in 1 .. m /\ SameId(active'[i], active'[j])
          BY <1>3, <3>4, <3>8 DEF SameId
        <4>2. SameId(Kept[k], r)
          BY <1>4, <3>1, <3>2
        <4>3. SameId(Kept[i], Kept[j])
          BY <3>5, <4>1, <4>2 DEF SameId
        <4>4. QED
          BY <1>1, <1>2, <4>1, <4>3
      <3>9. m <= m + 1
        BY <1>2
      <3>10. QED
        BY <3>4, <3>6, <3>7, <3>8, <3>9
    <2>3. QED
      BY <2>1, <2>2
  <1>11. ASSUME NEW q \in Request PROVE span'[q] = "open" <=> IsMapped(q)'
    <2>1. CASE q = r
      BY <1>8, <1>10, <2>1
    <2>2. CASE q # r
      <3>1. span'[q] = "open" <=> /\ IsMapped(q) /\ ~(Crowded /\ q = Head(active))
                                  /\ ~\E i \in over : Kept[i] = q
        BY <1>3, <2>2 DEF SpanMap
      <3>2. IsMapped(q) /\ ~(Crowded /\ q = Head(active)) <=> \E i \in 1 .. m : Kept[i] = q
        BY <1>1, <1>2
      <3>3. \A i \in 1 .. m, j \in 1 .. m : Kept[i] = q /\ Kept[j] = q => i = j
        BY <1>1, <1>2 DEF SameId
      <3>4. (\E i \in 1 .. m : Kept[i] = q) /\ ~(\E i \in over : Kept[i] = q)
            <=> \E i \in 1 .. m : i \notin over /\ Kept[i] = q
        BY <1>4, <3>3
      <3>5. QED
        BY <1>10, <2>2, <3>1, <3>2, <3>4
    <2>3. QED
      BY <2>1, <2>2
  <1>12. Len(active') <= maxActiveSpans'
    BY <1>1, <1>2, <1>3, <1>10 DEF m
  <1>13. QED
    BY <1>3, <1>8, <1>9, <1>10, <1>11, <1>12 DEF SpanMap, mapConfig

(* A step of r leaves the others' coroutines alone, and takes nothing back. *)
Alone(r) ==
  /\ hook' \in [Request -> 1 .. Plugins + 1]
  /\ handled' \subseteq Request /\ reported' \subseteq Request
  /\ \A q \in Request : q # r => /\ stage'[q] = stage[q] /\ hook'[q] = hook[q]
                                 /\ q \in handled' <=> q \in handled
                                 /\ q \in reported' <=> q \in reported
  /\ stage[r] \in Answered => stage'[r] \in Answered
  /\ r \in reported => r \in reported'

(* What is left to show of such a step is its own request, the map, and why *)
(* spans ended.                                                             *)
LEMMA StepOfOne ==
  ASSUME SpanInv, NEW r \in Request, Alone(r), SpanAt(r)', SpanMap', UNCHANGED mapConfig,
         active' \in Seq(Request), span' \in [Request -> Statuses],
         span[r] # "none" => span'[r] # "none",
         \A q \in Request : q # r => Passive(q),
         \A q \in Request : span'[q] # span[q] => EndedFor(q)'
  PROVE  SpanInv'
  <1>1. SpanTypeOK'
    BY DEF Alone, SpanTypeOK, SpanInv, mapConfig
  <1>2. ASSUME NEW q \in Request, q # r PROVE SpanAt(q)'
    <2>1. SpanAt(q) /\ Passive(q)
      BY <1>2 DEF SpanInv
    <2>2. span'[q] = "open" => span[q] = "open"
      BY <2>1 DEF Passive
    <2>3. span[q] = "none" => span'[q] = "none"
      BY <2>1 DEF Passive
    <2>4. QED
      BY <1>2, <2>1, <2>2, <2>3 DEF Alone, SpanAt
  <1>3. ASSUME NEW q \in Request PROVE EndedFor(q)'
    <2>1. CASE span'[q] # span[q]
      BY <2>1
    <2>2. CASE span'[q] = span[q]
      <3>1. EndedFor(q) /\ \A p \in Request : SameId(p, q)' <=> SameId(p, q)
        BY DEF SpanInv, SameId, mapConfig
      <3>2. \A p \in Request : stage[p] \in Answered => stage'[p] \in Answered
        BY DEF Alone
      <3>3. \A p \in reported : p \in reported'
        BY DEF Alone, SpanInv, SpanTypeOK
      <3>4. \A p \in Request : span[p] # "none" => span'[p] # "none"
        BY DEF Passive
      <3>5. reported \subseteq Request
        BY DEF SpanInv, SpanTypeOK
      <3>6. QED
        BY <2>2, <3>1, <3>2, <3>3, <3>4, <3>5 DEF EndedFor
    <2>3. QED
      BY <2>1, <2>2
  <1>4. QED
    BY <1>1, <1>2, <1>3 DEF SpanInv

LEMMA SpansStay ==
  ASSUME SpanInv, NEW r \in Request, Alone(r), SpanAt(r)', UNCHANGED spanVars
  PROVE  SpanInv'
  <1>1. UNCHANGED mapConfig /\ active' = active /\ span' = span
    BY DEF spanVars
  <1>2. SpanMap' /\ \A q \in Request : Passive(q)
    BY <1>1 DEF mapConfig, SpanInv, SpanMap, IsMapped, SameId, Passive
  <1>3. active' \in Seq(Request) /\ span' \in [Request -> Statuses]
    BY <1>1 DEF SpanInv, SpanTypeOK
  <1>4. QED
    BY <1>1, <1>2, <1>3, StepOfOne

LEMMA SpanCloses ==
  ASSUME SpanInv, NEW r \in Request, NEW status \in {"ok", "error"}, Alone(r),
         CloseSpan(r, status), stage'[r] \in Answered,
         stage'[r] = "errorResponse" \/ status = "error" => r \in reported'
  PROVE  SpanInv'
  <1>1. /\ UNCHANGED mapConfig
        /\ active' \in Seq(Request) /\ span' \in [Request -> Statuses]
        /\ SpanMap' /\ span'[r] # "open" /\ \A q \in Request : Passive(q)
        /\ \A q \in Request : span'[q] # span[q] => SameId(r, q) /\ span'[q] = status
    BY CloseLemma DEF SpanInv
  <1>2. SpanAt(r)'
    BY <1>1 DEF SpanAt, Answered
  <1>3. ASSUME NEW q \in Request, span'[q] # span[q] PROVE EndedFor(q)'
    <2>1. SameId(r, q)' /\ span'[q] = status
      BY <1>1, <1>3 DEF SameId, mapConfig
    <2>2. QED
      BY <2>1 DEF EndedFor
  <1>4. span[r] # "none" => span'[r] # "none"
    BY <1>1 DEF Passive
  <1>5. QED
    BY <1>1, <1>2, <1>3, <1>4, StepOfOne

LEMMA ArriveSpans ==
  ASSUME PipeInv, SpanInv, NEW r \in Request, Arrive(r) PROVE SpanInv'
  <1>1. Alone(r)
    BY PipelineAssumption DEF Arrive, Goto, PipeInv, SpanInv, SpanTypeOK, Alone, Answered
  <1>2. SpanAt(r) /\ stage[r] = "new"
    BY DEF SpanInv, Arrive
  <1>3. stage'[r] = "onRequest" /\ UNCHANGED <<spanVars, handled, reported>>
    BY DEF Arrive, Goto, PipeInv
  <1>4. SpanAt(r)'
    BY <1>2, <1>3 DEF SpanAt, spanVars
  <1>5. QED
    BY <1>1, <1>3, <1>4, SpansStay

(* A hook or a check in front of the handler: the request is not reported,  *)
(* nor handled, and it is over only on the host of execute.ts.              *)
LEMMA FrontSteps ==
  ASSUME PipeInv, SpanInv, NEW r \in Request, NEW at \in Listed,
         RunHookList(r, at) \/ Gate(r, at)
  PROVE  /\ Alone(r) /\ stage[r] = at /\ r \notin handled' \cup reported'
         /\ stage'[r] \in (Front \ {"new"}) \cup {"onResponse", "caught", "over"}
         /\ stage'[r] = "over" => r \notin Web
         /\ stage'[r] = "onRequest" => stage[r] = "onRequest"
         /\ stage'[r] \in {"onRequest", "onResponse"} =>
              hook'[r] = IF stage'[r] = at THEN hook[r] + 1 ELSE 1
         /\ UNCHANGED <<handled, reported>>
  <1>1. After(r, at) \in Front \ {"new", "onRequest"}
    BY DEF After, Listed, Front
  <1>2. stage[r] = at /\ UNCHANGED <<handled, reported>>
    BY DEF RunHookList, Gate
  <1>3. r \notin handled \cup reported
    BY <1>2 DEF SpanInv, SpanAt, Listed
  <1>4. stage \in [Request -> Stages] /\ hook \in [Request -> 1 .. Plugins + 1]
    BY DEF PipeInv, SpanInv, SpanTypeOK
  <1>5. ASSUME NEW s, Goto(r, s)
        PROVE  /\ stage'[r] = s /\ hook'[r] = 1 /\ hook' \in [Request -> 1 .. Plugins + 1]
               /\ \A q \in Request : q # r => stage'[q] = stage[q] /\ hook'[q] = hook[q]
    BY <1>4, <1>5, PipelineAssumption DEF Goto
  <1>6. CASE \E s \in {After(r, at), "caught"} : Goto(r, s)
    BY <1>1, <1>2, <1>3, <1>5, <1>6 DEF Alone, Answered, SpanInv, SpanTypeOK, Front, Listed
  <1>7. CASE Answers(r)
    BY <1>2, <1>3, <1>5, <1>7 DEF Answers, Alone, Answered, SpanInv, SpanTypeOK, Listed
  <1>8. CASE /\ RunHookList(r, at) /\ hook[r] < Plugins
             /\ hook' = [hook EXCEPT ![r] = @ + 1] /\ UNCHANGED stage
    <2>1. hook' \in [Request -> 1 .. Plugins + 1] /\ hook'[r] = hook[r] + 1
          /\ \A q \in Request : q # r => hook'[q] = hook[q]
      BY <1>4, <1>8, PipelineAssumption
    <2>2. QED
      BY <1>2, <1>3, <1>8, <2>1 DEF Alone, Answered, SpanInv, SpanTypeOK, Listed, Front
  <1>9. QED
    BY <1>6, <1>7, <1>8 DEF RunHookList, Gate

LEMMA FrontSpans ==
  ASSUME PipeInv, SpanInv, NEW r \in Request,
         \/ OnRequest(r) \/ PreHandler(r)
         \/ RunMiddlewareAndContext(r) \/ Checks(r) \/ EvaluateRoutePolicy(r)
  PROVE  SpanInv'
  <1>1. ASSUME NEW at \in Listed, RunHookList(r, at) \/ Gate(r, at), UNCHANGED spanVars,
               at = "onRequest" => ~IsObserver(hook[r])
        PROVE  SpanInv'
    <2>1. /\ Alone(r) /\ stage[r] = at /\ r \notin handled' \cup reported'
          /\ stage'[r] \in (Front \ {"new"}) \cup {"onResponse", "caught", "over"}
          /\ stage'[r] = "over" => r \notin Web
          /\ stage'[r] = "onRequest" => stage[r] = "onRequest"
          /\ stage'[r] \in {"onRequest", "onResponse"} =>
               hook'[r] = IF stage'[r] = at THEN hook[r] + 1 ELSE 1
      BY <1>1, FrontSteps
    <2>2. SpanAt(r) /\ span'[r] = span[r] /\ hook[r] \in Nat /\ hook[r] >= 1
      BY <1>1 DEF SpanInv, SpanTypeOK, spanVars
    <2>3. SpanAt(r)'
      <3>1. ~(stage'[r] = "new") /\ (stage'[r] = "onRequest" => hook'[r] # 1)
            /\ (stage'[r] = "onResponse" => ~(hook'[r] > 1))
        <4>1. hook[r] + 1 # 1
          BY <2>2
        <4>2. QED
          BY <2>1, <4>1 DEF Front, Listed
      <3>2. stage'[r] # "errorResponse"
        BY <2>1 DEF Front
      <3>3. QED
        BY <2>1, <2>2, <3>1, <3>2 DEF SpanAt
    <2>4. QED
      BY <1>1, <2>1, <2>3, SpansStay
  <1>2. CASE OnRequest(r) /\ IsObserver(hook[r])
    <2>1. RunHookList(r, "onRequest") /\ OpenSpan(r) /\ hook[r] = 1 /\ Observed
      BY <1>2 DEF OnRequest, IsObserver
    <2>2. /\ Alone(r) /\ stage[r] = "onRequest" /\ r \notin handled' \cup reported'
          /\ stage'[r] \in (Front \ {"new"}) \cup {"onResponse", "caught", "over"}
          /\ stage'[r] = "over" => r \notin Web
          /\ stage'[r] = "onRequest" => stage[r] = "onRequest"
          /\ stage'[r] \in {"onRequest", "onResponse"} =>
               hook'[r] = IF stage'[r] = "onRequest" THEN hook[r] + 1 ELSE 1
      BY <2>1, FrontSteps DEF Listed
    <2>3. span[r] = "none"
      BY <2>1, <2>2 DEF SpanInv, SpanAt
    <2>4. /\ active' \in Seq(Request)
          /\ UNCHANGED mapConfig /\ span' \in [Request -> Statuses]
          /\ SpanMap' /\ span'[r] = "open" /\ \A q \in Request : q # r => Passive(q)
          /\ \A q \in Request : q # r /\ span'[q] # span[q] =>
               span'[q] = "abandoned" \/ (span'[q] = "lost" /\ SameId(r, q))
      BY <2>1, <2>3, OpenLemma DEF SpanInv
    <2>5. SpanAt(r)'
      BY <2>1, <2>2 DEF SpanAt, Front
    <2>6. ASSUME NEW q \in Request, span'[q] # span[q] PROVE EndedFor(q)'
      BY <2>4, <2>6 DEF EndedFor, SameId, mapConfig
    <2>7. QED
      BY <2>2, <2>3, <2>4, <2>5, <2>6, StepOfOne
  <1>3. CASE OnRequest(r) /\ ~IsObserver(hook[r])
    BY <1>1, <1>3 DEF OnRequest, Listed
  <1>4. CASE PreHandler(r)
    BY <1>1, <1>4 DEF PreHandler, Listed
  <1>5. CASE RunMiddlewareAndContext(r) \/ Checks(r) \/ EvaluateRoutePolicy(r)
    BY <1>1, <1>5 DEF RunMiddlewareAndContext, Checks, EvaluateRoutePolicy, Gate, Listed
  <1>6. QED
    BY <1>2, <1>3, <1>4, <1>5

LEMMA HandleSpans ==
  ASSUME PipeInv, SpanInv, NEW r \in Request, NEW result, Handle(r, result)
  PROVE  SpanInv'
  <1>1. \E s \in {"onResponse", "body", "caught"} : Goto(r, s)
    BY DEF Handle, SendsResult, BuildsResult, Answers
  <1>2. stage[r] = "handler" /\ UNCHANGED <<reported, spanVars>> /\ handled' = handled \cup {r}
    BY DEF Handle
  <1>3. stage'[r] \in {"onResponse", "body", "caught"} /\ hook'[r] = 1 /\ Alone(r)
    BY <1>1, <1>2, PipelineAssumption DEF Goto, PipeInv, SpanInv, SpanTypeOK, Alone, Answered
  <1>4. SpanAt(r)'
    BY <1>2, <1>3 DEF SpanInv, SpanAt, spanVars
  <1>5. QED
    BY <1>2, <1>3, <1>4, SpansStay

LEMMA PipeSpans ==
  ASSUME PipeInv, SpanInv, NEW r \in Request, PipeEnds(r) \/ PipeFails(r)
  PROVE  SpanInv'
  <1>1. /\ stage[r] = "body" /\ Goto(r, "onResponse") /\ UNCHANGED handled
        /\ reported' \in {reported, reported \cup {r}}
    BY DEF PipeEnds, PipeFails
  <1>2. stage'[r] = "onResponse" /\ hook'[r] = 1 /\ Alone(r)
    BY <1>1, PipelineAssumption DEF Goto, PipeInv, SpanInv, SpanTypeOK, Alone, Answered
  <1>3. CASE PipeFails(r) /\ Observed
    BY <1>2, <1>3, SpanCloses DEF Answered, PipeFails
  <1>4. CASE PipeEnds(r) \/ ~Observed
    <2>1. r \in reported' => ~Observed
      BY <1>1, <1>4 DEF PipeEnds, SpanInv, SpanAt
    <2>2. SpanAt(r) /\ UNCHANGED spanVars
      BY <1>4 DEF PipeEnds, PipeFails, SpanInv
    <2>3. SpanAt(r)'
      BY <1>1, <1>2, <2>1, <2>2 DEF SpanAt, spanVars
    <2>4. QED
      BY <1>2, <2>2, <2>3, SpansStay
  <1>5. QED
    BY <1>3, <1>4

LEMMA OnResponseSpans ==
  ASSUME PipeInv, SpanInv, NEW r \in Request, OnResponse(r)
  PROVE  SpanInv'
  <1>1. stage[r] = "onResponse" /\ UNCHANGED <<reported, handled>>
    BY DEF OnResponse
  <1>2. stage \in [Request -> Stages] /\ hook \in [Request -> 1 .. Plugins + 1]
    BY DEF PipeInv, SpanInv, SpanTypeOK
  <1>3. stage'[r] \in {"onResponse", "caught", "over"} /\ Alone(r)
    <2>1. CASE \E s \in {"caught", "over"} : Goto(r, s)
      BY <1>1, <1>2, <2>1, PipelineAssumption DEF Goto, SpanInv, SpanTypeOK, Alone, Answered
    <2>2. CASE hook[r] < Plugins /\ hook' = [hook EXCEPT ![r] = @ + 1] /\ UNCHANGED stage
      <3>1. hook' \in [Request -> 1 .. Plugins + 1]
        BY <1>2, <2>2, PipelineAssumption
      <3>2. QED
        BY <1>1, <1>2, <2>2, <3>1 DEF SpanInv, SpanTypeOK, Alone, Answered
    <2>3. QED
      BY <2>1, <2>2 DEF OnResponse, MoreHooks, Returns
  <1>4. CASE IsObserver(hook[r])
    BY <1>3, <1>4, SpanCloses DEF Answered, OnResponse
  <1>5. CASE ~IsObserver(hook[r])
    <2>1. UNCHANGED spanVars
      BY <1>5 DEF OnResponse
    <2>2. SpanAt(r) /\ span[r] # "open"
      <3>1. SpanAt(r) /\ hook[r] \in Nat /\ hook[r] >= 1
        BY <1>2 DEF SpanInv
      <3>2. ~Observed \/ hook[r] > 1
        BY <1>5, <3>1 DEF IsObserver
      <3>3. QED
        BY <1>1, <3>1, <3>2 DEF SpanAt
    <2>3. SpanAt(r)'
      BY <1>1, <1>3, <2>1, <2>2 DEF SpanAt, spanVars
    <2>4. QED
      BY <1>3, <2>1, <2>3, SpansStay
  <1>6. QED
    BY <1>4, <1>5

LEMMA ErrorSpans ==
  ASSUME PipeInv, SpanInv, NEW r \in Request, Catch(r) \/ RunErrorHooks(r)
  PROVE  SpanInv'
  <1>1. /\ stage[r] = "caught" /\ UNCHANGED handled /\ reported' = reported \cup {r}
        /\ \E s \in {"errorResponse", "over"} : Goto(r, s)
        /\ IF Observed THEN CloseSpan(r, "error") ELSE UNCHANGED spanVars
    BY DEF Catch, RunErrorHooks
  <1>2. stage'[r] \in {"errorResponse", "over"} /\ r \in reported' /\ Alone(r)
    BY <1>1, PipelineAssumption DEF Goto, PipeInv, SpanInv, SpanTypeOK, Alone, Answered
  <1>3. CASE Observed
    BY <1>1, <1>2, <1>3, SpanCloses DEF Answered
  <1>4. CASE ~Observed
    <2>1. SpanAt(r) /\ UNCHANGED spanVars
      BY <1>1, <1>4 DEF SpanInv
    <2>2. SpanAt(r)'
      BY <1>2, <1>4, <2>1 DEF SpanAt, spanVars
    <2>3. QED
      BY <1>2, <2>1, <2>2, SpansStay
  <1>5. QED
    BY <1>3, <1>4

LEMMA ErrorResponseSpans ==
  ASSUME PipeInv, SpanInv, NEW r \in Request, ErrorResponse(r)
  PROVE  SpanInv'
  <1>1. stage[r] = "errorResponse" /\ r \in reported /\ UNCHANGED <<reported, handled>>
    BY DEF ErrorResponse, SpanInv, SpanAt
  <1>2. stage \in [Request -> Stages] /\ hook \in [Request -> 1 .. Plugins + 1]
    BY DEF PipeInv, SpanInv, SpanTypeOK
  <1>3. stage'[r] \in {"errorResponse", "over"} /\ Alone(r)
    <2>1. CASE Goto(r, "over")
      BY <1>1, <1>2, <2>1, PipelineAssumption DEF Goto, SpanInv, SpanTypeOK, Alone, Answered
    <2>2. CASE hook[r] < Plugins /\ hook' = [hook EXCEPT ![r] = @ + 1] /\ UNCHANGED stage
      <3>1. hook' \in [Request -> 1 .. Plugins + 1]
        BY <1>2, <2>2, PipelineAssumption
      <3>2. QED
        BY <1>1, <1>2, <2>2, <3>1 DEF SpanInv, SpanTypeOK, Alone, Answered
    <2>3. QED
      BY <2>1, <2>2 DEF ErrorResponse
  <1>4. CASE IsObserver(hook[r])
    BY <1>1, <1>3, <1>4, SpanCloses DEF Answered, ErrorResponse
  <1>5. CASE ~IsObserver(hook[r])
    <2>1. SpanAt(r) /\ UNCHANGED spanVars
      BY <1>5 DEF ErrorResponse, SpanInv
    <2>2. SpanAt(r)'
      BY <1>1, <1>3, <2>1 DEF SpanAt, spanVars
    <2>3. QED
      BY <1>3, <2>1, <2>2, SpansStay
  <1>6. QED
    BY <1>4, <1>5

(***************************************************************************)
(* The pools                                                               *)
(***************************************************************************)
(* Until the drain every open pool is in the map; from then on the manager  *)
(* is disposed and what stays open is what the drain failed to end.  Of a   *)
(* shutdown that hangs nothing is said.  A start that is refused opens      *)
(* pools only from crons, whose timers then keep it from exiting.           *)
PoolInv ==
  /\ phase \in Phases
  /\ phase \in {"boot", "listening", "refused", "evicting", "draining"} => open \subseteq pools
  /\ phase \in {"draining", "ending", "flushing", "waiting"} => disposed
  /\ phase \in {"ending", "flushing", "waiting", "exited"} => open \subseteq unended
  /\ phase \in {"boot", "refused"} => \A r \in Request : stage[r] = "new"
  /\ phase = "boot" => open = {} /\ ~started
  /\ started => \A j \in Job : timer[j]
  /\ ~started => \A j \in Job : running[j] = {}
  /\ phase = "refused" /\ (~started \/ Job = {}) => open = {}

IInv == CronInv /\ PipeInv /\ SpanInv /\ PoolInv

LEMMA InitInv == Init => IInv
  <1>1. Init => PoolInv
    BY DEF Init, PipelineInit, CronInit, PoolInv, Phases
  <1>2. QED
    BY <1>1, CronInitInv, PipeInitInv, SpanInitInv DEF Init, IInv

(* What a step of the process is to the pipeline and to the scheduler. *)
PipeMoves == \E r \in Request : Arrive(r) \/ Stage(r) \/ \E result : Handle(r, result)

LEMMA StepOfParts ==
  ASSUME CronTypeOK, Next
  PROVE  [CronNext]_cronVars /\ (UNCHANGED pipelineVars \/ PipeMoves)
  <1>1. CASE Boot \/ RunsDry
    BY <1>1 DEF Boot, RunsDry, CronNext
  <1>2. CASE \E r \in Request : Accept(r) \/ ServeRequest(r)
    BY <1>2 DEF Accept, ServeRequest, PipeMoves
  <1>3. CASE \E r \in Request, p \in Pool : RequestUsesPool(r, p)
    BY <1>3 DEF RequestUsesPool, PipeMoves
  <1>4. CASE \E j \in Job : CronStep(j)
    BY <1>4 DEF CronStep, CronNext
  <1>5. CASE \E j \in Job, p \in Pool : CronUsesPool(j, p)
    BY <1>5 DEF CronTypeOK, CronUsesPool, CronNext, HandlerSettles
  <1>6. CASE Signal \/ Drains \/ Hang \/ Exit
    BY <1>6 DEF Signal, Drains, Evicted, AdaptersDrained, DisposeThrows, PoolsEnded, Flushed,
                Hang, Exit, outside
  <1>7. QED
    BY <1>1, <1>2, <1>3, <1>4, <1>5, <1>6 DEF Next

LEMMA PipeStepInv == ASSUME PipeInv, CronTypeOK, [Next]_vars PROVE PipeInv'
  <1>1. CASE UNCHANGED pipelineVars
    BY <1>1 DEF pipelineVars, PipeInv
  <1>2. CASE PipeMoves
    BY <1>2, ArriveKeeps, StageKeeps, HandleKeeps DEF PipeMoves
  <1>3. QED
    BY <1>1, <1>2, StepOfParts DEF vars

LEMMA SpanStepInv == ASSUME PipeInv, SpanInv, CronTypeOK, [Next]_vars PROVE SpanInv'
  <1>1. CASE UNCHANGED pipelineVars
    BY <1>1 DEF pipelineVars, mapConfig, SpanInv, SpanTypeOK, SpanMap, SpanAt, EndedFor, IsMapped,
               SameId
  <1>2. ASSUME NEW r \in Request, Arrive(r) \/ Stage(r) \/ \E result : Handle(r, result)
        PROVE  SpanInv'
    BY <1>2, ArriveSpans, FrontSpans, HandleSpans, PipeSpans, OnResponseSpans, ErrorSpans,
       ErrorResponseSpans DEF Stage
  <1>3. QED
    BY <1>1, <1>2, StepOfParts DEF vars, PipeMoves

(* A handler, and a cron that steps, keep the timers of a started process.  *)
LEMMA TimersStay ==
  ASSUME NEW j \in Job, Fire(j) \/ \E n \in Run : HandlerSettles(j, n), started,
         timer \in [Job -> BOOLEAN], \A k \in Job : timer[k]
  PROVE  started' /\ \A k \in Job : timer'[k]
  BY DEF Fire, HandlerSettles

LEMMA PoolStepInv == ASSUME IInv, [Next]_vars PROVE PoolInv'
  <1> USE DEF IInv, PoolInv, Phases
  <1>1. CASE Boot
    BY <1>1 DEF Boot, CronStart, poolVars, pipelineVars, cronVars
  <1>2. CASE RunsDry
    <2>1. open = {}
      BY <1>2 DEF RunsDry
    <2>2. QED
      BY <1>2, <2>1 DEF RunsDry, poolVars, pipelineVars, cronVars
  <1>3. ASSUME NEW r \in Request, Accept(r) PROVE PoolInv'
    BY <1>3 DEF Accept, Arrive, Goto, cronVars, processVars
  <1>4. ASSUME NEW r \in Request, ServeRequest(r) PROVE PoolInv'
    <2>1. stage[r] # "new"
      BY <1>4 DEF ServeRequest, Stage, OnRequest, PreHandler, RunHookList, RunMiddlewareAndContext,
                  Checks, EvaluateRoutePolicy, Gate, PipeEnds, PipeFails, OnResponse, Catch,
                  RunErrorHooks, ErrorResponse, Handle
    <2>2. phase \notin {"boot", "refused"}
      BY <2>1
    <2>3. QED
      BY <1>4, <2>2 DEF ServeRequest, cronVars, processVars
  <1>5. ASSUME NEW r \in Request, NEW p \in Pool, RequestUsesPool(r, p) PROVE PoolInv'
    <2>1. phase \notin {"boot", "refused", "exited"}
      BY <1>5 DEF RequestUsesPool
    <2>2. QED
      BY <1>5, <2>1 DEF RequestUsesPool, UsePostgres, cronVars, processVars
  <1>6. ASSUME NEW j \in Job, CronStep(j) PROVE PoolInv'
    <2>1. started
      BY <1>6 DEF CronStep, Fire, HandlerSettles, CronInv, CronTypeOK
    <2>2. ~(phase = "exited") /\ UNCHANGED <<pipelineVars, processVars>>
      BY <1>6 DEF CronStep
    <2>3. started' /\ \A k \in Job : timer'[k]
      BY <1>6, <2>1, <2>2, TimersStay DEF CronStep, CronInv, CronTypeOK
    <2>4. QED
      BY <2>1, <2>2, <2>3 DEF pipelineVars, processVars
  <1>7. ASSUME NEW j \in Job, NEW p \in Pool, CronUsesPool(j, p) PROVE PoolInv'
    <2>1. started /\ phase # "boot"
      BY <1>7 DEF CronUsesPool
    <2>2. (started /\ \A k \in Job : timer[k])'
      BY <1>7, <2>1, TimersStay DEF CronUsesPool, cronVars, CronInv, CronTypeOK
    <2>3. QED
      BY <1>7, <2>1, <2>2 DEF CronUsesPool, UsePostgres, pipelineVars, processVars
  <1>8. CASE Signal \/ Evicted \/ DisposeThrows \/ PoolsEnded \/ Flushed \/ Hang \/ Exit
    BY <1>8 DEF Signal, Evicted, Disposes, DisposeThrows, PoolsEnded, Flushed, Hang, Exit, outside,
                poolVars, pipelineVars, cronVars
  <1>11. CASE AdaptersDrained
    <2>1. PICK failed \in SUBSET pools : open' = (open \ pools) \cup (open \cap failed) /\ unended' = failed
      BY <1>11 DEF AdaptersDrained
    <2>2. open' \subseteq unended'
      BY <1>11, <2>1 DEF AdaptersDrained
    <2>3. QED
      BY <1>11, <2>2 DEF AdaptersDrained, outside, pipelineVars, cronVars
  <1>9. CASE UNCHANGED vars
    BY <1>9 DEF vars, pipelineVars, cronVars, processVars
  <1>10. QED
    BY <1>1, <1>2, <1>3, <1>4, <1>5, <1>6, <1>7, <1>8, <1>9, <1>11 DEF Next, Drains

LEMMA InvHolds == Spec => []IInv
  <1>1. IInv /\ [Next]_vars => IInv'
    <2> SUFFICES ASSUME IInv, [Next]_vars PROVE IInv'
      OBVIOUS
    <2>1. [CronNext]_cronVars
      BY StepOfParts DEF vars, IInv, CronInv
    <2>2. QED
      BY <2>1, CronStepInv, PipeStepInv, SpanStepInv, PoolStepInv DEF IInv, CronInv
  <1>2. QED
    BY InitInv, <1>1, PTL DEF Spec

(* Handlers of a cron with concurrency 'forbid' never overlap               *)
(* (cron-runtime-node.ts, fireAndReschedule).                               *)
THEOREM CronsDoNotOverlap == Spec => []ForbidNeverOverlaps
  <1>1. IInv => ForbidNeverOverlaps
    BY DEF IInv, CronInv
  <1>2. QED
    BY InvHolds, <1>1, PTL

(* A request gets one response, whatever throws and wherever (execute.ts).  *)
THEOREM OneAnswer == Spec => []AnsweredOnce
  <1>1. ASSUME PipeInv PROVE AnsweredOnce
    <2>1. ASSUME NEW r \in Request
          PROVE  answers[r] \in {0, 1} /\ (stage[r] = "over" => response[r] \in {"ended", "destroyed"})
      BY <1>1 DEF PipeInv
    <2>2. QED
      BY <2>1 DEF AnsweredOnce
  <1>2. QED
    BY InvHolds, <1>1, PTL DEF IInv

(* Whatever ids the requests come with, the map of active spans stays       *)
(* within its cap and holds exactly the open spans; a request that came as  *)
(* far as its handler, or threw, or was served by the web host leaves none  *)
(* behind; a span is ended by a request of its id, and lost only to one     *)
(* (observability/middleware.ts).                                           *)
THEOREM SpansAreAccountedFor == Spec => []SpanIsAccountedFor
  <1>1. SpanInv => SpanIsAccountedFor
    BY DEF SpanInv, SpanMap, SpanAt, EndedFor, SpanIsAccountedFor
  <1>2. QED
    BY InvHolds, <1>1, PTL DEF IInv

(* Behind the drain no pool is open but those it failed to end, though      *)
(* handlers go on (storage-manager.ts, dispose()).                          *)
THEOREM DrainIsFinal == Spec => []NoPoolLeaks
  <1>1. IInv => NoPoolLeaks
    BY DEF IInv, PoolInv, NoPoolLeaks
  <1>2. QED
    BY InvHolds, <1>1, PTL
=============================================================================
