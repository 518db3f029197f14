------------------------ MODULE HumanApprovalProofs ------------------------
(***************************************************************************)
(* The promises of a gate, for every set of calls, requests and subjects.  *)
(*                                                                         *)
(* The inductive invariant adds to them what makes a late answer harmless: *)
(* an approval id is registered once, so a request that found no entry     *)
(* when it read the owner finds none when it answers (CheckedInv), and a   *)
(* settled call remembers what settled it (DecisionInv).                   *)
(*                                                                         *)
(* The second half is about what the wire shows of those calls, for every  *)
(* number of calls and every division into rounds, if the SDK announces a  *)
(* call before its hooks (CorrelationInv) or behind them (LateInv).        *)
(***************************************************************************)
EXTENDS FiniteSetTheorems, SequenceTheorems, HumanApproval, HitlCorrelation, TLAPS

(* A request asks about an approval that was registered. *)
AskedInv == \A q \in Request : stage[q] # "unsent" => phase[asked[q].call] # "idle"

(* A request past the owner check comes from the owner, if the approval it *)
(* answers is still there and has one.                                     *)
CheckedInv ==
  \A q \in Request :
    stage[q] = "body" /\ asked[q].call \in pending /\ owner # NoSubject
      => asked[q].subject = owner

(* What the record of a decision says. *)
DecisionInv ==
  \A c \in Call :
    /\ by[c] = Timer => approved[c] = (OnTimeout[c] = "proceed")
    /\ by[c] \in Request => /\ stage[by[c]] = "200" /\ asked[by[c]].call = c
                            /\ approved[c] = (asked[by[c]].verdict = "approve")
                            /\ owner # NoSubject => asked[by[c]].subject = owner
    /\ phase[c] = "idle" => by[c] = Nobody /\ span[c] = "none"
    /\ phase[c] \in {"ran", "refused"} =>
         by[c] # Nobody /\ (phase[c] = "ran" <=> approved[c])

(* A request that was told 200 settled the approval it asked about. *)
ToldInv == \A q \in Request : stage[q] = "200" => by[asked[q].call] = q

IInv ==
  /\ TypeOK /\ AskedInv /\ CheckedInv /\ DecisionInv /\ ToldInv
  /\ PendingMeansWaiting /\ SpanIsTheWait

-----------------------------------------------------------------------------
LEMMA ApprovalInit == Init => IInv
<1> SUFFICES ASSUME Init PROVE IInv
  OBVIOUS
<1>1. TypeOK
  BY DEF Init, TypeOK
<1>2. AskedInv /\ CheckedInv /\ ToldInv
  BY DEF Init, AskedInv, CheckedInv, ToldInv
<1>3. DecisionInv /\ PendingMeansWaiting /\ SpanIsTheWait
  BY ApprovalAssumption DEF Init, DecisionInv, PendingMeansWaiting, SpanIsTheWait
<1> QED
  BY <1>1, <1>2, <1>3 DEF IInv

LEMMA PauseKeeps == ASSUME IInv, NEW c \in Call, Pause(c) PROVE IInv'
<1>inv. /\ TypeOK /\ AskedInv /\ CheckedInv /\ DecisionInv /\ ToldInv
        /\ PendingMeansWaiting /\ SpanIsTheWait
  BY DEF IInv
<1>1. /\ phase[c] = "idle" /\ phase' = [phase EXCEPT ![c] = "paused"]
      /\ pending' = pending \cup {c}
      /\ span' = [span EXCEPT ![c] = IF stream = "open" THEN "open" ELSE @]
      /\ UNCHANGED <<by, approved, stream, owner, asked, stage>>
  BY DEF Pause
<1>2. TypeOK'
  BY <1>1, <1>inv DEF TypeOK
<1>3. by[c] = Nobody /\ span[c] = "none"
  BY <1>1, <1>inv DEF DecisionInv
<1>4. AskedInv' /\ CheckedInv' /\ ToldInv'
  BY <1>1, <1>inv DEF AskedInv, CheckedInv, ToldInv, TypeOK, Ask
<1>5. DecisionInv'
  BY <1>1, <1>3, <1>inv DEF DecisionInv, TypeOK
<1>6. PendingMeansWaiting' /\ SpanIsTheWait'
  BY <1>1, <1>3, <1>inv DEF PendingMeansWaiting, SpanIsTheWait, TypeOK
<1> QED
  BY <1>2, <1>4, <1>5, <1>6 DEF IInv

LEMMA TimeoutKeeps == ASSUME IInv, NEW c \in Call, Timeout(c) PROVE IInv'
<1>inv. /\ TypeOK /\ AskedInv /\ CheckedInv /\ DecisionInv /\ ToldInv
        /\ PendingMeansWaiting /\ SpanIsTheWait
  BY DEF IInv
<1>1. /\ c \in pending /\ pending' = pending \ {c}
      /\ by' = [by EXCEPT ![c] = Timer]
      /\ approved' = [approved EXCEPT ![c] = (OnTimeout[c] = "proceed")]
      /\ UNCHANGED <<phase, span, stream, owner, asked, stage>>
  BY DEF Timeout, Armed, IsPending, Settle, Entries, TimeoutDecision
<1>2. phase[c] = "paused" /\ by[c] = Nobody
  BY <1>1, <1>inv DEF PendingMeansWaiting
<1>3. TypeOK'
  BY <1>1, <1>inv DEF TypeOK
<1>4. AskedInv' /\ CheckedInv'
  BY <1>1, <1>inv DEF AskedInv, CheckedInv
<1>5. ToldInv'
  BY <1>1, <1>2, <1>inv, ApprovalAssumption DEF ToldInv, TypeOK, Ask
<1>6. DecisionInv'
  BY <1>1, <1>2, <1>inv, ApprovalAssumption DEF DecisionInv, TypeOK
<1>7. PendingMeansWaiting' /\ SpanIsTheWait'
  BY <1>1, <1>2, <1>inv, ApprovalAssumption DEF PendingMeansWaiting, SpanIsTheWait, TypeOK
<1> QED
  BY <1>3, <1>4, <1>5, <1>6, <1>7 DEF IInv

LEMMA ResumeKeeps == ASSUME IInv, NEW c \in Call, Resume(c) PROVE IInv'
<1>inv. /\ TypeOK /\ AskedInv /\ CheckedInv /\ DecisionInv /\ ToldInv
        /\ PendingMeansWaiting /\ SpanIsTheWait
  BY DEF IInv
<1>1. /\ phase[c] = "paused" /\ by[c] # Nobody
      /\ phase' = [phase EXCEPT ![c] = IF approved[c] THEN "ran" ELSE "refused"]
      /\ span' = [span EXCEPT ![c] = IF stream = "open" /\ @ = "open" THEN "resumed" ELSE @]
      /\ UNCHANGED <<pending, by, approved, stream, owner, asked, stage>>
  BY <1>inv DEF Resume, Verdict, CloseSpan, Closing, TypeOK
<1>2. TypeOK'
  BY <1>1, <1>inv DEF TypeOK
<1>3. AskedInv' /\ CheckedInv' /\ ToldInv'
  BY <1>1, <1>inv DEF AskedInv, CheckedInv, ToldInv, TypeOK, Ask
<1>4. DecisionInv'
  BY <1>1, <1>inv DEF DecisionInv, TypeOK
<1>5. PendingMeansWaiting' /\ SpanIsTheWait'
  BY <1>1, <1>inv DEF PendingMeansWaiting, SpanIsTheWait, TypeOK
<1> QED
  BY <1>2, <1>3, <1>4, <1>5 DEF IInv

LEMMA CloseStreamKeeps == ASSUME IInv, CloseStream PROVE IInv'
<1>inv. /\ TypeOK /\ AskedInv /\ CheckedInv /\ DecisionInv /\ ToldInv
        /\ PendingMeansWaiting /\ SpanIsTheWait
  BY DEF IInv
<1>1. /\ stream' = "closed"
      /\ span' = [c \in Call |-> IF phase[c] = "paused" /\ span[c] = "open"
                                 THEN "unresumed" ELSE span[c]]
      /\ UNCHANGED <<phase, pending, by, approved, owner, asked, stage>>
  BY DEF CloseStream, Closing
<1>2. TypeOK'
  BY <1>1, <1>inv DEF TypeOK
<1>3. AskedInv' /\ CheckedInv' /\ ToldInv' /\ PendingMeansWaiting'
  BY <1>1, <1>inv DEF AskedInv, CheckedInv, ToldInv, PendingMeansWaiting
<1>4. DecisionInv'
  BY <1>1, <1>inv DEF DecisionInv
<1>5. SpanIsTheWait'
  BY <1>1, <1>inv DEF SpanIsTheWait
<1> QED
  BY <1>2, <1>3, <1>4, <1>5 DEF IInv

LEMMA ArriveKeeps ==
  ASSUME IInv, NEW q \in Request, NEW ask \in Ask, Arrive(q, ask) PROVE IInv'
<1>inv. /\ TypeOK /\ AskedInv /\ CheckedInv /\ DecisionInv /\ ToldInv
        /\ PendingMeansWaiting /\ SpanIsTheWait
  BY DEF IInv
<1>1. /\ stage[q] = "unsent" /\ phase[ask.call] # "idle"
      /\ asked' = [asked EXCEPT ![q] = ask]
      /\ stage' = [stage EXCEPT ![q] = "policy"]
      /\ UNCHANGED <<phase, pending, by, approved, span, stream, owner>>
  BY DEF Arrive
<1>2. /\ stage'[q] = "policy" /\ stage' \in [Request -> {"unsent", "policy", "body"} \cup Replies]
      /\ \A p \in Request : p # q => stage'[p] = stage[p] /\ asked'[p] = asked[p]
  BY <1>1, <1>inv DEF TypeOK
<1>3. TypeOK' /\ AskedInv'
  BY <1>1, <1>2, <1>inv DEF TypeOK, AskedInv
<1>4. CheckedInv' /\ ToldInv'
  BY <1>1, <1>2, <1>inv DEF CheckedInv, ToldInv
<1>5. PendingMeansWaiting' /\ SpanIsTheWait'
  BY <1>1, <1>inv DEF PendingMeansWaiting, SpanIsTheWait
<1>6. \A c \in Call : by[c] # q
  BY <1>1, <1>inv DEF DecisionInv
<1>7. DecisionInv'
  <2>1. ASSUME NEW c \in Call, by[c] \in Request
        PROVE  stage'[by[c]] = stage[by[c]] /\ asked'[by[c]] = asked[by[c]]
    BY <1>2, <1>6, <2>1
  <2> QED
    BY <1>1, <2>1, <1>inv DEF DecisionInv
<1> QED
  BY <1>3, <1>4, <1>5, <1>7 DEF IInv

LEMMA AdmitKeeps == ASSUME IInv, NEW q \in Request, Admit(q) PROVE IInv'
<1>inv. /\ TypeOK /\ AskedInv /\ CheckedInv /\ DecisionInv /\ ToldInv
        /\ PendingMeansWaiting /\ SpanIsTheWait
  BY DEF IInv
<1>1. /\ stage[q] = "policy"
      /\ \/ stage' = [stage EXCEPT ![q] = "403"]
         \/ stage' = [stage EXCEPT ![q] = "body"] /\ ~NotOwner(q)
      /\ UNCHANGED <<phase, pending, by, approved, span, stream, owner, asked>>
  BY DEF Admit
<1>2. /\ stage' \in [Request -> {"unsent", "policy", "body"} \cup Replies]
      /\ stage'[q] \in {"403", "body"} /\ (stage'[q] = "body" => ~NotOwner(q))
      /\ \A p \in Request : p # q => stage'[p] = stage[p]
  BY <1>1, <1>inv DEF TypeOK, Replies
<1>3. TypeOK' /\ AskedInv'
  BY <1>1, <1>2, <1>inv DEF TypeOK, AskedInv
<1>4. CheckedInv'
  BY <1>1, <1>2, <1>inv DEF CheckedInv, NotOwner, IsPending
<1>5. ToldInv' /\ PendingMeansWaiting' /\ SpanIsTheWait'
  BY <1>1, <1>2, <1>inv DEF ToldInv, PendingMeansWaiting, SpanIsTheWait
<1>6. \A c \in Call : by[c] # q
  BY <1>1, <1>inv DEF DecisionInv
<1>7. DecisionInv'
  BY <1>1, <1>2, <1>6, <1>inv DEF DecisionInv
<1> QED
  BY <1>3, <1>4, <1>5, <1>7 DEF IInv

LEMMA AnswerKeeps == ASSUME IInv, NEW q \in Request, Answer(q) PROVE IInv'
<1>inv. /\ TypeOK /\ AskedInv /\ CheckedInv /\ DecisionInv /\ ToldInv
        /\ PendingMeansWaiting /\ SpanIsTheWait
  BY DEF IInv
<1> DEFINE c == asked[q].call
<1>1. stage[q] = "body" /\ UNCHANGED <<phase, stream, owner, asked>>
  BY DEF Answer
<1>2. asked[q] \in Ask /\ c \in Call
  BY <1>1, <1>inv DEF TypeOK, Ask
<1>3. \A d \in Call : by[d] # q
  BY <1>1, <1>inv DEF DecisionInv
<1>4. CASE /\ stage' \in {[stage EXCEPT ![q] = "400"], [stage EXCEPT ![q] = "404"]}
           /\ UNCHANGED <<pending, by, approved, span>>
  <2>1. /\ stage' \in [Request -> {"unsent", "policy", "body"} \cup Replies]
        /\ stage'[q] \in {"400", "404"}
        /\ \A p \in Request : p # q => stage'[p] = stage[p]
    BY <1>4, <1>inv DEF TypeOK, Replies
  <2>2. TypeOK' /\ AskedInv'
    BY <1>1, <1>4, <2>1, <1>inv DEF TypeOK, AskedInv
  <2>3. CheckedInv' /\ ToldInv' /\ PendingMeansWaiting' /\ SpanIsTheWait'
    BY <1>1, <1>4, <2>1, <1>inv DEF CheckedInv, ToldInv, PendingMeansWaiting, SpanIsTheWait
  <2>4. DecisionInv'
    BY <1>1, <1>3, <1>4, <2>1, <1>inv DEF DecisionInv
  <2> QED
    BY <2>2, <2>3, <2>4 DEF IInv
<1>5. CASE /\ c \in pending /\ stage' = [stage EXCEPT ![q] = "200"]
           /\ pending' = pending \ {c} /\ by' = [by EXCEPT ![c] = q]
           /\ approved' = [approved EXCEPT ![c] = (asked[q].verdict = "approve")]
           /\ span' = [span EXCEPT ![c] = IF @ = "open" THEN "resumed" ELSE @]
  <2>1. /\ stage' \in [Request -> {"unsent", "policy", "body"} \cup Replies]
        /\ stage'[q] = "200" /\ by'[c] = q /\ approved'[c] = (asked[q].verdict = "approve")
        /\ \A p \in Request : p # q => stage'[p] = stage[p]
        /\ \A d \in Call : d # c => by'[d] = by[d] /\ approved'[d] = approved[d]
                                    /\ span'[d] = span[d]
        /\ span'[c] = IF span[c] = "open" THEN "resumed" ELSE span[c]
    BY <1>2, <1>5, <1>inv DEF TypeOK, Replies
  <2>2. phase[c] = "paused" /\ by[c] = Nobody
    BY <1>2, <1>5, <1>inv DEF PendingMeansWaiting
  <2>3. TypeOK'
    BY <1>1, <1>2, <1>5, <2>1, <1>inv DEF TypeOK
  <2>4. AskedInv' /\ CheckedInv'
    BY <1>1, <1>5, <2>1, <1>inv DEF AskedInv, CheckedInv
  <2>5. ToldInv'
    <3>1. ASSUME NEW p \in Request, stage'[p] = "200" PROVE by'[asked'[p].call] = p
      <4>1. CASE p = q
        BY <1>1, <2>1, <4>1
      <4>2. CASE p # q
        <5>1. stage[p] = "200" /\ by[asked[p].call] = p
          BY <2>1, <3>1, <4>2, <1>inv DEF ToldInv
        <5>2. asked[p].call \in Call /\ asked[p].call # c
          BY <2>2, <5>1, <1>inv, ApprovalAssumption DEF TypeOK, Ask
        <5> QED
          BY <1>1, <2>1, <5>1, <5>2
      <4> QED
        BY <4>1, <4>2
    <3> QED
      BY <3>1 DEF ToldInv
  <2>6. owner # NoSubject => asked[q].subject = owner
    BY <1>1, <1>5, <1>inv DEF CheckedInv
  <2>7. DecisionInv'
    <3>1. ASSUME NEW d \in Call
          PROVE  /\ by'[d] = Timer => approved'[d] = (OnTimeout[d] = "proceed")
                 /\ by'[d] \in Request =>
                      /\ stage'[by'[d]] = "200" /\ asked'[by'[d]].call = d
                      /\ approved'[d] = (asked'[by'[d]].verdict = "approve")
                      /\ owner' # NoSubject => asked'[by'[d]].subject = owner'
                 /\ phase'[d] = "idle" => by'[d] = Nobody /\ span'[d] = "none"
                 /\ phase'[d] \in {"ran", "refused"} =>
                      by'[d] # Nobody /\ (phase'[d] = "ran" <=> approved'[d])
      <4>1. CASE d = c
        BY <1>1, <2>1, <2>2, <2>6, <4>1, ApprovalAssumption
      <4>2. CASE d # c
        BY <1>1, <1>3, <2>1, <4>2, <1>inv DEF DecisionInv
      <4> QED
        BY <4>1, <4>2
    <3> QED
      BY <3>1 DEF DecisionInv
  <2>8. PendingMeansWaiting' /\ SpanIsTheWait'
    BY <1>1, <1>2, <1>5, <2>1, <2>2, <1>inv, ApprovalAssumption
       DEF PendingMeansWaiting, SpanIsTheWait
  <2> QED
    BY <2>3, <2>4, <2>5, <2>7, <2>8 DEF IInv
<1>6. \/ /\ stage' \in {[stage EXCEPT ![q] = "400"], [stage EXCEPT ![q] = "404"]}
         /\ UNCHANGED <<pending, by, approved, span>>
      \/ /\ c \in pending /\ stage' = [stage EXCEPT ![q] = "200"]
         /\ pending' = pending \ {c} /\ by' = [by EXCEPT ![c] = q]
         /\ approved' = [approved EXCEPT ![c] = (asked[q].verdict = "approve")]
         /\ span' = [span EXCEPT ![c] = IF @ = "open" THEN "resumed" ELSE @]
  <2>1. span \in [Call -> {"none", "open", "resumed", "unresumed"}]
    BY <1>inv DEF TypeOK
  <2>2. CASE /\ stage' \in {[stage EXCEPT ![q] = "400"], [stage EXCEPT ![q] = "404"]}
             /\ UNCHANGED <<pending, by, approved, span>>
    BY <2>2
  <2>3. CASE /\ c \in pending /\ stage' = [stage EXCEPT ![q] = "200"]
             /\ Settle(c, q, asked[q].verdict = "approve") /\ CloseSpan(c, "resumed")
    <3>1. span' = [span EXCEPT ![c] = IF @ = "open" THEN "resumed" ELSE @]
      BY <1>2, <2>1, <2>3 DEF CloseSpan, Closing
    <3> QED
      BY <2>3, <3>1 DEF Settle, Entries
  <2> QED
    BY <2>2, <2>3 DEF Answer, IsPending
<1> QED
  BY <1>4, <1>5, <1>6

LEMMA ApprovalStep == IInv /\ [Next]_vars => IInv'
<1> SUFFICES ASSUME IInv, [Next]_vars PROVE IInv'
  OBVIOUS
<1>1. CASE \E c \in Call : Pause(c) \/ Timeout(c) \/ Resume(c)
  BY <1>1, PauseKeeps, TimeoutKeeps, ResumeKeeps
<1>2. CASE CloseStream
  BY <1>2, CloseStreamKeeps
<1>3. CASE \E q \in Request : (\E ask \in Ask : Arrive(q, ask)) \/ Admit(q) \/ Answer(q)
  BY <1>3, ArriveKeeps, AdmitKeeps, AnswerKeeps
<1>4. CASE UNCHANGED vars
  BY <1>4 DEF IInv, vars, TypeOK, AskedInv, CheckedInv, DecisionInv, ToldInv,
              PendingMeansWaiting, SpanIsTheWait
<1> QED
  BY <1>1, <1>2, <1>3, <1>4 DEF Next

LEMMA Invariant == Spec => []IInv
BY ApprovalInit, ApprovalStep, PTL DEF Spec

-----------------------------------------------------------------------------
(* The variables keep their types. *)
THEOREM TypeCorrect == Spec => []TypeOK
<1>1. IInv => TypeOK
  BY DEF IInv
<1> QED
  BY <1>1, Invariant, PTL

(* The registry lists the paused, undecided calls, and no other. *)
THEOREM RegistryIsExact == Spec => []PendingMeansWaiting
<1>1. IInv => PendingMeansWaiting
  BY DEF IInv
<1> QED
  BY <1>1, Invariant, PTL

(* A gated tool runs or is refused as its decision says. *)
THEOREM GateHolds == Spec => []RunsAsDecided
<1>1. IInv => RunsAsDecided
  <2> SUFFICES ASSUME IInv, NEW c \in Call, phase[c] \in {"ran", "refused"}
               PROVE  /\ by[c] # Nobody
                      /\ phase[c] = "ran" <=>
                           \/ by[c] = Timer /\ OnTimeout[c] = "proceed"
                           \/ by[c] \in Request /\ asked[by[c]].verdict = "approve"
    BY DEF RunsAsDecided
  <2>1. /\ by[c] # Nobody /\ (phase[c] = "ran" <=> approved[c])
        /\ by[c] \in Request \cup {Timer, Nobody}
        /\ by[c] = Timer => approved[c] = (OnTimeout[c] = "proceed")
        /\ by[c] \in Request => approved[c] = (asked[by[c]].verdict = "approve")
    BY DEF IInv, DecisionInv, TypeOK
  <2> QED
    BY <2>1, ApprovalAssumption
<1> QED
  BY <1>1, Invariant, PTL

(* An owned approval is settled by its owner or by its timer. *)
THEOREM OwnersDecide == Spec => []OwnerDecides
<1>1. IInv => OwnerDecides
  BY DEF IInv, DecisionInv, OwnerDecides
<1> QED
  BY <1>1, Invariant, PTL

(* Exactly one of the answers racing for an approval is told it won. *)
THEOREM WinnerIsTold == Spec => []OneWinner
<1>1. IInv => OneWinner
  <2> SUFFICES ASSUME IInv, NEW q \in Request
               PROVE  stage[q] = "200" <=> \E c \in Call : by[c] = q
    BY DEF OneWinner
  <2>1. stage[q] = "200" => asked[q].call \in Call /\ by[asked[q].call] = q
    BY DEF IInv, ToldInv, TypeOK, Ask
  <2>2. ASSUME NEW c \in Call, by[c] = q PROVE stage[q] = "200"
    BY <2>2 DEF IInv, DecisionInv
  <2> QED
    BY <2>1, <2>2
<1> QED
  BY <1>1, Invariant, PTL

(* The span of a pause is open for as long as the wait lasts and no longer. *)
THEOREM SpansAreWaits == Spec => []SpanIsTheWait
<1>1. IInv => SpanIsTheWait
  BY DEF IInv
<1> QED
  BY <1>1, Invariant, PTL

(* What is settled once stays so: a decision is not overruled by a late    *)
(* answer or the timer, and a closed span is not closed again.             *)
THEOREM SettlingIsFinal == Spec => SettledOnce
<1> DEFINE Final(c) ==
             /\ by[c] # Nobody => by'[c] = by[c] /\ approved'[c] = approved[c]
             /\ span[c] \in {"resumed", "unresumed"} => span'[c] = span[c]
<1>1. IInv /\ [Next]_vars => [\A c \in Call : Final(c)]_vars
  <2> SUFFICES ASSUME IInv, Next, NEW c \in Call PROVE Final(c)
    OBVIOUS
  <2>1. TypeOK /\ PendingMeansWaiting /\ DecisionInv
    BY DEF IInv
  <2>2. ASSUME NEW d \in Call, Pause(d) PROVE Final(c)
    <3>1. span[d] = "none" /\ UNCHANGED <<by, approved>>
      BY <2>1, <2>2 DEF Pause, DecisionInv
    <3> QED
      BY <2>1, <2>2, <3>1 DEF Pause, TypeOK
  <2>3. ASSUME NEW d \in Call, NEW w, NEW v, d \in pending, Settle(d, w, v)
        PROVE  by[c] # Nobody => by'[c] = by[c] /\ approved'[c] = approved[c]
    <3>1. by[d] = Nobody
      BY <2>1, <2>3 DEF PendingMeansWaiting
    <3> QED
      BY <2>1, <2>3, <3>1 DEF Settle, TypeOK
  <2>4. ASSUME NEW d \in Call, NEW s, CloseSpan(d, s)
        PROVE  span[c] \in {"resumed", "unresumed"} => span'[c] = span[c]
    BY <2>1, <2>4 DEF CloseSpan, Closing, TypeOK
  <2>5. ASSUME NEW d \in Call, Timeout(d) PROVE Final(c)
    BY <2>3, <2>5 DEF Timeout, Armed, IsPending
  <2>6. ASSUME NEW d \in Call, Resume(d) PROVE Final(c)
    BY <2>4, <2>6 DEF Resume
  <2>7. ASSUME CloseStream PROVE Final(c)
    BY <2>7 DEF CloseStream, Closing
  <2>8. ASSUME NEW q \in Request, \E ask \in Ask : Arrive(q, ask) PROVE Final(c)
    BY <2>8 DEF Arrive
  <2>9. ASSUME NEW q \in Request, Admit(q) PROVE Final(c)
    BY <2>9 DEF Admit
  <2>10. ASSUME NEW q \in Request, Answer(q) PROVE Final(c)
    <3>1. CASE UNCHANGED <<pending, by, approved, span>>
      BY <3>1
    <3>2. CASE /\ IsPending(asked[q].call)
               /\ Settle(asked[q].call, q, asked[q].verdict = "approve")
               /\ CloseSpan(asked[q].call, "resumed")
      <4>1. asked[q].call \in Call
        BY <2>1, <3>2 DEF IsPending, TypeOK
      <4> QED
        BY <2>3, <2>4, <3>2, <4>1 DEF IsPending
    <3> QED
      BY <2>10, <3>1, <3>2 DEF Answer
  <2> QED
    BY <2>2, <2>5, <2>6, <2>7, <2>8, <2>9, <2>10 DEF Next
<1> QED
  BY <1>1, Invariant, PTL DEF Spec, SettledOnce

-----------------------------------------------------------------------------
(* One call, one id.                                                       *)
(*                                                                         *)
(* The two queues of the presenter can only pair the right ids because     *)
(* both sides arrive in the order of the calls.  The invariant keeps that  *)
(* order as five fronts: calls 1 .. s are started, 1 .. g gated, 1 .. q on *)
(* the merge queue, 1 .. a announced and 1 .. p shown for approval; what   *)
(* lies between two fronts is what the sequence between them holds, and a  *)
(* result comes behind everything its call has sent.                       *)

(* The events of this kind in q are those of the calls lo + 1 .. hi, in    *)
(* their order.                                                            *)
Lists(q, kind, lo, hi) ==
  /\ \A i \in DOMAIN q : q[i].kind = kind => q[i].call \in lo + 1 .. hi
  /\ \A c \in lo + 1 .. hi : \E i \in DOMAIN q : q[i].kind = kind /\ q[i].call = c
  /\ \A i, j \in DOMAIN q :
       i < j /\ q[i].kind = kind /\ q[j].kind = kind => q[i].call < q[j].call

(* The ids wait for the other side of the pair, oldest first.              *)
Waits(ids, lo, hi) ==
  /\ Len(ids) = IF lo < hi THEN hi - lo ELSE 0
  /\ \A i \in 1 .. Len(ids) : ids[i] = lo + i

(* A result of call c is in q; no result is in q twice.                    *)
Ends(q, c) == \E i \in DOMAIN q : q[i].kind = "completed" /\ q[i].call = c
Once(q) ==
  \A i, j \in DOMAIN q :
    q[i].kind = "completed" /\ q[j].kind = "completed" /\ q[i].call = q[j].call => i = j

(* Nothing of a round comes behind a result, nothing of a call behind its  *)
(* own.                                                                    *)
Orderly(q) ==
  \A i, j \in DOMAIN q :
    q[i].kind = "completed" /\ (\/ q[j].kind = "running"
                                \/ q[j].kind = "approval" /\ q[j].call = q[i].call) => j < i

(* The announcements of a round come first.                                *)
Announced(q) == \A i, j \in DOMAIN q : i < j /\ q[j].kind = "running" => q[i].kind = "running"

(* Of the calls, 1 .. s are started, 1 .. g gated, 1 .. q on the merge     *)
(* queue; 1 .. a are announced on the wire and 1 .. p have their approval. *)
Fronts(a, p, q, g, s) ==
  /\ a <= q /\ q <= s /\ p <= g /\ g <= s
  /\ \A c \in ToolCall : progress[c] # "idle" <=> c <= s
  /\ \A c \in ToolCall : progress[c] \in {"gated", "running", "settled"} <=> c <= g
  /\ Waits(unclaimedCalls, p, a) /\ Waits(unclaimedApprovals, a, p)

(* What is under way in each of them.                                      *)
Lines(a, p, q, g, s) ==
  /\ Lists(timeline, "running", q, s) /\ Announced(timeline)
  /\ Lists(queue, "running", a, q) /\ Lists(queue, "approval", p, g) /\ Orderly(queue)
  /\ \A i \in DOMAIN timeline : timeline[i].kind # "approval"
  /\ \A i \in DOMAIN held : held[i].kind = "completed"
  /\ \A i \in DOMAIN queue : queue[i].kind = "completed" => q = s

(* A result is one event, of a settled call.                               *)
Results ==
  /\ Once(timeline) /\ Once(held) /\ Once(queue)
  /\ ~Ends(timeline, NoCall) /\ ~Ends(held, NoCall) /\ ~Ends(queue, NoCall)
  /\ \A c \in ToolCall :
       /\ ~(Ends(timeline, c) /\ Ends(held, c))
       /\ ~(Ends(timeline, c) /\ Ends(queue, c))
       /\ ~(Ends(held, c) /\ Ends(queue, c))
       /\ Ends(timeline, c) \/ Ends(held, c) \/ Ends(queue, c) => resultAt[c] = NoId
       /\ Ends(timeline, c) \/ Ends(held, c) \/ Ends(queue, c) \/ resultAt[c] # NoId
            => progress[c] = "settled"

(* What the wire says of call c: nothing, the card of the side that came   *)
(* first, or the pair under that side's id.                                *)
Unseen(c)   == gateAt[c] = NoId /\ RuntimeId(c) \notin cards /\ ApprovalId(c) \notin cards
Called(c)   == gateAt[c] = NoId /\ RuntimeId(c) \in cards /\ ApprovalId(c) \notin cards
Asked(c)    == gateAt[c] = ApprovalId(c) /\ ApprovalId(c) \in cards /\ RuntimeId(c) \notin cards
Gated(c)    == gateAt[c] = RuntimeId(c) /\ RuntimeId(c) \in cards /\ ApprovalId(c) \notin cards

Paired(c) ==
  \/ resultAt[c] = NoId /\ Gated(c) /\ announcedAs[c] = NoCall
  \/ resultAt[c] = NoId /\ Asked(c) /\ announcedAs[c] = c
  \/ resultAt[c] = gateAt[c] /\ (Gated(c) \/ Asked(c))

OnWire(a, p) ==
  \A c \in ToolCall :
    /\ c <= a /\ c <= p => Paired(c)
    /\ ~(c <= a /\ c <= p) => announcedAs[c] = NoCall /\ resultAt[c] = NoId
    /\ c <= a /\ ~(c <= p) => Called(c)
    /\ ~(c <= a) /\ c <= p => Asked(c)
    /\ ~(c <= a) /\ ~(c <= p) => Unseen(c)

CorrelationInv ==
  /\ CorrelationTypeOK /\ Results
  /\ \E a, p, q, g, s \in 0 .. NCalls :
       Fronts(a, p, q, g, s) /\ Lines(a, p, q, g, s) /\ OnWire(a, p)

-----------------------------------------------------------------------------
LEMMA AppendIs ==
  ASSUME NEW s \in Seq(Event), NEW e \in Event
  PROVE  /\ Append(s, e) \in Seq(Event) /\ DOMAIN Append(s, e) = 1 .. Len(s) + 1
         /\ DOMAIN s = 1 .. Len(s) /\ Len(s) \in Nat
         /\ \A i \in 1 .. Len(s) : Append(s, e)[i] = s[i]
         /\ Append(s, e)[Len(s) + 1] = e
OBVIOUS

LEMMA TailIs ==
  ASSUME NEW s \in Seq(Event), s # <<>>
  PROVE  /\ Head(s) \in Event /\ Head(s) = s[1]
         /\ Tail(s) \in Seq(Event) /\ DOMAIN Tail(s) = 1 .. Len(s) - 1
         /\ DOMAIN s = 1 .. Len(s) /\ Len(s) \in Nat /\ 1 <= Len(s)
         /\ \A i \in 1 .. Len(s) - 1 : Tail(s)[i] = s[i + 1]
OBVIOUS

LEMMA ConcatIs ==
  ASSUME NEW s \in Seq(Event), NEW t \in Seq(Event)
  PROVE  /\ s \o t \in Seq(Event) /\ DOMAIN (s \o t) = 1 .. Len(s) + Len(t)
         /\ DOMAIN s = 1 .. Len(s) /\ Len(s) \in Nat
         /\ DOMAIN t = 1 .. Len(t) /\ Len(t) \in Nat
         /\ \A i \in 1 .. Len(s) : (s \o t)[i] = s[i]
         /\ \A i \in 1 .. Len(t) : (s \o t)[Len(s) + i] = t[i]
BY ConcatProperties, ElementOfSeq

LEMMA ListsAppend ==
  ASSUME NEW q \in Seq(Event), NEW kind, NEW lo \in Nat, NEW hi \in Nat, lo <= hi,
         Lists(q, kind, lo, hi), NEW e \in Event
  PROVE  /\ e.kind # kind => Lists(Append(q, e), kind, lo, hi)
         /\ e.kind = kind /\ e.call = hi + 1 => Lists(Append(q, e), kind, lo, hi + 1)
<1> DEFINE r == Append(q, e)
<1>1. /\ DOMAIN r = 1 .. Len(q) + 1 /\ DOMAIN q = 1 .. Len(q) /\ Len(q) \in Nat
      /\ \A i \in 1 .. Len(q) : r[i] = q[i]
      /\ r[Len(q) + 1] = e
  BY AppendIs
<1> HIDE DEF r
<1>2. /\ \A i \in 1 .. Len(q) : q[i].kind = kind => q[i].call \in lo + 1 .. hi
      /\ \A c \in lo + 1 .. hi : \E i \in 1 .. Len(q) : q[i].kind = kind /\ q[i].call = c
      /\ \A i, j \in 1 .. Len(q) :
           i < j /\ q[i].kind = kind /\ q[j].kind = kind => q[i].call < q[j].call
  BY <1>1 DEF Lists
<1>3. ASSUME e.kind # kind PROVE Lists(r, kind, lo, hi)
  <2>1. \A i \in DOMAIN r : r[i].kind = kind => i \in 1 .. Len(q) /\ r[i] = q[i]
    BY <1>1, <1>3
  <2>2. \A i \in 1 .. Len(q) : i \in DOMAIN r /\ r[i] = q[i]
    BY <1>1
  <2> QED
    BY <1>2, <2>1, <2>2 DEF Lists
<1>4. ASSUME e.kind = kind, e.call = hi + 1 PROVE Lists(r, kind, lo, hi + 1)
  <2>1. \A i \in DOMAIN r : r[i].kind = kind => r[i].call \in lo + 1 .. hi + 1
    BY <1>1, <1>2, <1>4
  <2>2. \A c \in lo + 1 .. hi + 1 : \E i \in DOMAIN r : r[i].kind = kind /\ r[i].call = c
    <3>1. ASSUME NEW c \in lo + 1 .. hi PROVE \E i \in DOMAIN r : r[i].kind = kind /\ r[i].call = c
      <4>1. PICK i \in 1 .. Len(q) : q[i].kind = kind /\ q[i].call = c
        BY <1>2
      <4> QED
        BY <1>1, <4>1
    <3>2. Len(q) + 1 \in DOMAIN r
      BY <1>1
    <3>3. \E i \in DOMAIN r : r[i].kind = kind /\ r[i].call = hi + 1
      BY <1>1, <1>4, <3>2
    <3>4. \A c \in lo + 1 .. hi + 1 : c \in lo + 1 .. hi \/ c = hi + 1
      OBVIOUS
    <3> QED
      BY <3>1, <3>3, <3>4
  <2>3. ASSUME NEW i \in DOMAIN r, NEW j \in DOMAIN r, i < j, r[i].kind = kind, r[j].kind = kind
        PROVE  r[i].call < r[j].call
    <3>1. i \in 1 .. Len(q) /\ r[i] = q[i] /\ q[i].call \in lo + 1 .. hi
      BY <1>1, <1>2, <2>3
    <3>2. CASE j \in 1 .. Len(q)
      BY <1>1, <1>2, <2>3, <3>1, <3>2
    <3>3. CASE j = Len(q) + 1
      BY <1>1, <1>4, <3>1, <3>3
    <3> QED
      BY <1>1, <3>2, <3>3
  <2> QED
    BY <2>1, <2>2, <2>3 DEF Lists
<1> QED
  BY <1>3, <1>4 DEF r

LEMMA ListsTail ==
  ASSUME NEW q \in Seq(Event), q # <<>>, NEW kind, NEW lo \in Nat, NEW hi \in Nat,
         Lists(q, kind, lo, hi)
  PROVE  /\ Head(q).kind # kind => Lists(Tail(q), kind, lo, hi)
         /\ Head(q).kind = kind => /\ Head(q).call = lo + 1 /\ lo < hi
                                   /\ Lists(Tail(q), kind, lo + 1, hi)
<1> DEFINE r == Tail(q)
<1>1. /\ Head(q) = q[1] /\ DOMAIN r = 1 .. Len(q) - 1 /\ DOMAIN q = 1 .. Len(q)
      /\ Len(q) \in Nat /\ 1 <= Len(q)
      /\ \A i \in 1 .. Len(q) - 1 : r[i] = q[i + 1]
  BY TailIs
<1> HIDE DEF r
<1>2. /\ \A i \in 1 .. Len(q) : q[i].kind = kind => q[i].call \in lo + 1 .. hi
      /\ \A c \in lo + 1 .. hi : \E i \in 1 .. Len(q) : q[i].kind = kind /\ q[i].call = c
      /\ \A i, j \in 1 .. Len(q) :
           i < j /\ q[i].kind = kind /\ q[j].kind = kind => q[i].call < q[j].call
  BY <1>1 DEF Lists
<1>3. ASSUME NEW c \in lo + 1 .. hi, q[1].kind = kind => q[1].call # c
      PROVE  \E i \in DOMAIN r : r[i].kind = kind /\ r[i].call = c
  <2>1. PICK i \in 1 .. Len(q) : q[i].kind = kind /\ q[i].call = c
    BY <1>2
  <2>2. i - 1 \in DOMAIN r /\ r[i - 1] = q[i]
    BY <1>1, <1>3, <2>1
  <2> QED
    BY <2>1, <2>2
<1>4. \A i, j \in DOMAIN r :
        i < j /\ r[i].kind = kind /\ r[j].kind = kind => r[i].call < r[j].call
  <2> SUFFICES ASSUME NEW i \in DOMAIN r, NEW j \in DOMAIN r, i < j, r[i].kind = kind, r[j].kind = kind
               PROVE  r[i].call < r[j].call
    OBVIOUS
  <2>1. i + 1 \in 1 .. Len(q) /\ j + 1 \in 1 .. Len(q) /\ i + 1 < j + 1
        /\ r[i] = q[i + 1] /\ r[j] = q[j + 1]
    BY <1>1
  <2> QED
    BY <1>2, <2>1
<1>5. \A i \in DOMAIN r : i + 1 \in 1 .. Len(q) /\ r[i] = q[i + 1]
  BY <1>1
<1>6. ASSUME q[1].kind # kind PROVE Lists(r, kind, lo, hi)
  <2>1. \A i \in DOMAIN r : r[i].kind = kind => r[i].call \in lo + 1 .. hi
    BY <1>2, <1>5
  <2> QED
    BY <1>3, <1>4, <1>6, <2>1 DEF Lists
<1>7. ASSUME q[1].kind = kind PROVE q[1].call = lo + 1 /\ lo < hi /\ Lists(r, kind, lo + 1, hi)
  <2>1. q[1].call \in lo + 1 .. hi
    BY <1>1, <1>2, <1>7
  <2>2. \A i \in DOMAIN r : r[i].kind = kind => r[i].call \in lo + 1 .. hi /\ q[1].call < r[i].call
    BY <1>1, <1>2, <1>5, <1>7
  <2>3. lo < hi
    BY <2>1
  <2>4. q[1].call = lo + 1
    <3> SUFFICES ASSUME q[1].call # lo + 1 PROVE FALSE
      OBVIOUS
    <3>1. PICK i \in DOMAIN r : r[i].kind = kind /\ r[i].call = lo + 1
      BY <1>3, <2>3
    <3> QED
      BY <2>1, <2>2, <3>1
  <2>5. \A c \in lo + 2 .. hi : \E i \in DOMAIN r : r[i].kind = kind /\ r[i].call = c
    BY <1>3, <2>4
  <2>6. \A i \in DOMAIN r : r[i].kind = kind => r[i].call \in lo + 2 .. hi
    BY <2>2, <2>4
  <2> QED
    BY <1>4, <2>3, <2>4, <2>5, <2>6 DEF Lists
<1> QED
  BY <1>1, <1>6, <1>7 DEF r

LEMMA ListsConcat ==
  ASSUME NEW q \in Seq(Event), NEW r \in Seq(Event), NEW kind, NEW lo \in Nat, NEW hi \in Nat,
         Lists(q, kind, lo, hi), \A i \in DOMAIN r : r[i].kind # kind
  PROVE  Lists(q \o r, kind, lo, hi)
<1> DEFINE u == q \o r
<1>1. /\ DOMAIN u = 1 .. Len(q) + Len(r)
      /\ DOMAIN q = 1 .. Len(q) /\ Len(q) \in Nat
      /\ DOMAIN r = 1 .. Len(r) /\ Len(r) \in Nat
      /\ \A i \in 1 .. Len(q) : u[i] = q[i]
      /\ \A i \in 1 .. Len(r) : u[Len(q) + i] = r[i]
  BY ConcatIs
<1> HIDE DEF u
<1>2. \A i \in DOMAIN u : u[i].kind = kind => i \in DOMAIN q /\ u[i] = q[i]
  <2> SUFFICES ASSUME NEW i \in DOMAIN u, i \notin DOMAIN q PROVE u[i].kind # kind
    BY <1>1
  <2>1. i - Len(q) \in DOMAIN r /\ u[i] = r[i - Len(q)]
    BY <1>1
  <2> QED
    BY <2>1
<1>3. \A i \in DOMAIN q : i \in DOMAIN u /\ u[i] = q[i]
  BY <1>1
<1>4. Lists(u, kind, lo, hi)
  BY <1>2, <1>3 DEF Lists
<1> QED
  BY <1>4 DEF u
LEMMA WaitsTail ==
  ASSUME NEW ids \in Seq(ToolCall), NEW lo \in Nat, NEW hi \in Nat, Waits(ids, lo, hi)
  PROVE  /\ ids = <<>> <=> hi <= lo
         /\ ids # <<>> => Head(ids) = lo + 1 /\ Waits(Tail(ids), lo + 1, hi)
<1>1. Len(ids) \in Nat /\ (ids = <<>> <=> Len(ids) = 0)
  BY EmptySeq
<1>2. ids = <<>> <=> hi <= lo
  BY <1>1 DEF Waits
<1>3. ASSUME ids # <<>> PROVE Head(ids) = lo + 1 /\ Waits(Tail(ids), lo + 1, hi)
  <2>1. Head(ids) = ids[1] /\ Len(Tail(ids)) = Len(ids) - 1
        /\ \A i \in 1 .. Len(ids) - 1 : Tail(ids)[i] = ids[i + 1]
    BY <1>1, <1>3
  <2>2. 1 <= Len(ids) /\ lo < hi /\ Len(ids) = hi - lo
    BY <1>1, <1>2, <1>3 DEF Waits
  <2>3. ids[1] = lo + 1 /\ \A i \in 1 .. Len(ids) - 1 : ids[i + 1] = lo + 1 + i
    BY <1>1, <2>2 DEF Waits
  <2>4. Len(Tail(ids)) = IF lo + 1 < hi THEN hi - (lo + 1) ELSE 0
    BY <2>1, <2>2
  <2> QED
    BY <2>1, <2>3, <2>4 DEF Waits
<1> QED
  BY <1>2, <1>3

LEMMA WaitsAppend ==
  ASSUME NEW ids \in Seq(ToolCall), NEW lo \in Nat, NEW hi \in Nat, lo <= hi,
         Waits(ids, lo, hi), hi + 1 \in ToolCall
  PROVE  Waits(Append(ids, hi + 1), lo, hi + 1)
<1>1. Len(ids) \in Nat /\ Len(ids) = hi - lo
  BY DEF Waits
<1>2. Len(Append(ids, hi + 1)) = Len(ids) + 1
      /\ \A i \in 1 .. Len(ids) : Append(ids, hi + 1)[i] = ids[i]
  BY AppendProperties
<1>3. Append(ids, hi + 1)[Len(ids) + 1] = hi + 1
  BY AppendProperties
<1>4. Len(Append(ids, hi + 1)) = IF lo < hi + 1 THEN (hi + 1) - lo ELSE 0
  BY <1>1, <1>2
<1>5. ASSUME NEW i \in 1 .. Len(ids) + 1 PROVE Append(ids, hi + 1)[i] = lo + i
  <2>1. CASE i = Len(ids) + 1
    BY <1>1, <1>3, <2>1
  <2>2. CASE i \in 1 .. Len(ids)
    BY <1>2, <2>2 DEF Waits
  <2> QED
    BY <1>1, <2>1, <2>2
<1> QED
  BY <1>2, <1>4, <1>5 DEF Waits

LEMMA NobodyWaits ==
  ASSUME NEW ids, NEW lo \in Nat, NEW hi \in Nat, hi < lo, Waits(ids, lo, hi)
  PROVE  Waits(ids, lo, hi + 1)
<1>1. Len(ids) = 0
  BY DEF Waits
<1>2. Len(ids) = IF lo < hi + 1 THEN hi + 1 - lo ELSE 0
  BY <1>1
<1>3. \A i \in 1 .. Len(ids) : ids[i] = lo + i
  BY <1>1
<1> QED
  BY <1>2, <1>3 DEF Waits

LEMMA EndsAppend ==
  ASSUME NEW q \in Seq(Event), NEW e \in Event
  PROVE  /\ \A c : Ends(Append(q, e), c) <=> Ends(q, c) \/ (e.kind = "completed" /\ e.call = c)
         /\ Once(q) /\ (e.kind = "completed" => ~Ends(q, e.call)) => Once(Append(q, e))
<1> DEFINE r == Append(q, e)
<1>1. /\ DOMAIN r = 1 .. Len(q) + 1 /\ DOMAIN q = 1 .. Len(q) /\ Len(q) \in Nat
      /\ \A i \in 1 .. Len(q) : r[i] = q[i]
      /\ r[Len(q) + 1] = e
  BY AppendIs
<1> HIDE DEF r
<1>2. \A i \in DOMAIN r : (i \in DOMAIN q /\ r[i] = q[i]) \/ (i = Len(q) + 1 /\ r[i] = e)
  BY <1>1
<1>3. \A i \in DOMAIN q : i \in DOMAIN r /\ r[i] = q[i]
  BY <1>1
<1>4. Len(q) + 1 \in DOMAIN r
  BY <1>1
<1>5. \A c : Ends(r, c) <=> Ends(q, c) \/ (e.kind = "completed" /\ e.call = c)
  BY <1>1, <1>2, <1>3, <1>4 DEF Ends
<1>6. Once(q) /\ (e.kind = "completed" => ~Ends(q, e.call)) => Once(r)
  BY <1>2 DEF Ends, Once
<1> QED
  BY <1>5, <1>6 DEF r

LEMMA EndsTail ==
  ASSUME NEW q \in Seq(Event), q # <<>>
  PROVE  /\ \A c : Ends(q, c) <=> Ends(Tail(q), c) \/ (Head(q).kind = "completed" /\ Head(q).call = c)
         /\ Once(q) => Once(Tail(q)) /\ (Head(q).kind = "completed" => ~Ends(Tail(q), Head(q).call))
<1> DEFINE r == Tail(q)
<1>1. /\ Head(q) = q[1] /\ DOMAIN r = 1 .. Len(q) - 1 /\ DOMAIN q = 1 .. Len(q)
      /\ Len(q) \in Nat /\ 1 <= Len(q)
      /\ \A i \in 1 .. Len(q) - 1 : r[i] = q[i + 1]
  BY TailIs
<1> HIDE DEF r
<1>2. \A i \in DOMAIN r : i + 1 \in DOMAIN q /\ i + 1 # 1 /\ i \in Int /\ r[i] = q[i + 1]
  BY <1>1
<1>3. \A i \in DOMAIN q : i = 1 \/ (i - 1 \in DOMAIN r /\ q[i] = r[i - 1])
  BY <1>1
<1>4. 1 \in DOMAIN q
  BY <1>1
<1>5. \A c : Ends(q, c) <=> Ends(r, c) \/ (q[1].kind = "completed" /\ q[1].call = c)
  BY <1>2, <1>3, <1>4 DEF Ends
<1>6. ASSUME Once(q) PROVE Once(r)
  <2> SUFFICES ASSUME NEW i \in DOMAIN r, NEW j \in DOMAIN r,
                      r[i].kind = "completed", r[j].kind = "completed", r[i].call = r[j].call
               PROVE  i = j
    BY DEF Once
  <2>1. i + 1 = j + 1
    BY <1>2, <1>6 DEF Once
  <2> QED
    BY <1>2, <2>1
<1>7. ASSUME Once(q), q[1].kind = "completed" PROVE ~Ends(r, q[1].call)
  BY <1>2, <1>4, <1>7 DEF Once, Ends
<1>8. \A c : Ends(q, c) <=> Ends(r, c) \/ (Head(q).kind = "completed" /\ Head(q).call = c)
  BY <1>1, <1>5
<1>9. Once(q) => Once(r) /\ (Head(q).kind = "completed" => ~Ends(r, Head(q).call))
  BY <1>1, <1>6, <1>7
<1> QED
  BY <1>8, <1>9 DEF r

LEMMA EndsConcat ==
  ASSUME NEW q \in Seq(Event), NEW r \in Seq(Event)
  PROVE  /\ \A c : Ends(q \o r, c) <=> Ends(q, c) \/ Ends(r, c)
         /\ Once(q) /\ Once(r) /\ (\A c : ~(Ends(q, c) /\ Ends(r, c))) => Once(q \o r)
<1> DEFINE u == q \o r
<1>1. /\ DOMAIN u = 1 .. Len(q) + Len(r)
      /\ DOMAIN q = 1 .. Len(q) /\ Len(q) \in Nat
      /\ DOMAIN r = 1 .. Len(r) /\ Len(r) \in Nat
      /\ \A i \in 1 .. Len(q) : u[i] = q[i]
      /\ \A i \in 1 .. Len(r) : u[Len(q) + i] = r[i]
  BY ConcatIs
<1> HIDE DEF u
<1>2. \A i \in DOMAIN u : \/ i \in DOMAIN q /\ u[i] = q[i]
                          \/ i \in Int /\ i - Len(q) \in DOMAIN r /\ u[i] = r[i - Len(q)]
  BY <1>1
<1>3. \A i \in DOMAIN q : i \in DOMAIN u /\ u[i] = q[i]
  BY <1>1
<1>4. \A i \in DOMAIN r : Len(q) + i \in DOMAIN u /\ u[Len(q) + i] = r[i]
  BY <1>1
<1>5. \A c : Ends(u, c) <=> Ends(q, c) \/ Ends(r, c)
  BY <1>2, <1>3, <1>4 DEF Ends
<1>6. ASSUME Once(q), Once(r), \A c : ~(Ends(q, c) /\ Ends(r, c))
      PROVE  Once(u)
  <2> SUFFICES ASSUME NEW i \in DOMAIN u, NEW j \in DOMAIN u,
                      u[i].kind = "completed", u[j].kind = "completed", u[i].call = u[j].call
               PROVE  i = j
    BY DEF Once
  <2>1. CASE i \in DOMAIN q /\ u[i] = q[i] /\ j \in DOMAIN q /\ u[j] = q[j]
    BY <1>6, <2>1 DEF Once
  <2>2. CASE /\ i \in Int /\ i - Len(q) \in DOMAIN r /\ u[i] = r[i - Len(q)]
             /\ j \in Int /\ j - Len(q) \in DOMAIN r /\ u[j] = r[j - Len(q)]
    <3>1. i - Len(q) = j - Len(q)
      BY <1>6, <2>2 DEF Once
    <3> QED
      BY <1>1, <2>2, <3>1
  <2>3. CASE /\ i \in DOMAIN q /\ u[i] = q[i]
             /\ j - Len(q) \in DOMAIN r /\ u[j] = r[j - Len(q)]
    <3>1. Ends(q, u[i].call) /\ Ends(r, u[i].call)
      BY <2>3 DEF Ends
    <3> QED
      BY <1>6, <3>1
  <2>4. CASE /\ j \in DOMAIN q /\ u[j] = q[j]
             /\ i - Len(q) \in DOMAIN r /\ u[i] = r[i - Len(q)]
    <3>1. Ends(q, u[i].call) /\ Ends(r, u[i].call)
      BY <2>4 DEF Ends
    <3> QED
      BY <1>6, <3>1
  <2> QED
    BY <1>2, <2>1, <2>2, <2>3, <2>4
<1> QED
  BY <1>5, <1>6 DEF u

LEMMA OrderlyAppend ==
  ASSUME NEW q \in Seq(Event), NEW e \in Event, Orderly(q),
         e.kind = "running" => \A i \in DOMAIN q : q[i].kind # "completed",
         e.kind = "approval" => ~Ends(q, e.call)
  PROVE  Orderly(Append(q, e))
<1> DEFINE r == Append(q, e)
<1>1. /\ DOMAIN r = 1 .. Len(q) + 1 /\ DOMAIN q = 1 .. Len(q) /\ Len(q) \in Nat
      /\ \A i \in 1 .. Len(q) : r[i] = q[i]
      /\ r[Len(q) + 1] = e
  BY AppendIs
<1> HIDE DEF r
<1>2. \A i \in DOMAIN r : \/ i \in DOMAIN q /\ r[i] = q[i] /\ i < Len(q) + 1
                          \/ i = Len(q) + 1 /\ r[i] = e
  BY <1>1
<1>3. Orderly(r)
  <2> SUFFICES ASSUME NEW i \in DOMAIN r, NEW j \in DOMAIN r, r[i].kind = "completed",
                      r[j].kind = "running" \/ (r[j].kind = "approval" /\ r[j].call = r[i].call)
               PROVE  j < i
    BY DEF Orderly
  <2>1. CASE i \in DOMAIN q /\ r[i] = q[i] /\ j \in DOMAIN q /\ r[j] = q[j]
    BY <2>1 DEF Orderly
  <2>2. CASE i = Len(q) + 1 /\ j \in DOMAIN q
    BY <1>1, <1>2, <2>2
  <2>3. CASE j = Len(q) + 1 /\ r[j] = e
    <3>1. CASE i \in DOMAIN q /\ r[i] = q[i]
      BY <2>3, <3>1 DEF Ends
    <3>2. CASE i = Len(q) + 1 /\ r[i] = e
      BY <2>3, <3>2
    <3> QED
      BY <1>2, <3>1, <3>2
  <2> QED
    BY <1>2, <2>1, <2>2, <2>3
<1> QED
  BY <1>3 DEF r

LEMMA OrderlyTail ==
  ASSUME NEW q \in Seq(Event), q # <<>>, Orderly(q)
  PROVE  Orderly(Tail(q))
<1> DEFINE r == Tail(q)
<1>1. \A i \in DOMAIN r : i \in Int /\ i + 1 \in DOMAIN q /\ r[i] = q[i + 1]
  BY TailIs
<1> HIDE DEF r
<1>2. Orderly(r)
  <2> SUFFICES ASSUME NEW i \in DOMAIN r, NEW j \in DOMAIN r, r[i].kind = "completed",
                      r[j].kind = "running" \/ (r[j].kind = "approval" /\ r[j].call = r[i].call)
               PROVE  j < i
    BY DEF Orderly
  <2>1. j + 1 < i + 1
    BY <1>1 DEF Orderly
  <2> QED
    BY <1>1, <2>1
<1> QED
  BY <1>2 DEF r

LEMMA OrderlyConcat ==
  ASSUME NEW q \in Seq(Event), NEW r \in Seq(Event), Orderly(q),
         \A i \in DOMAIN r : r[i].kind = "completed"
  PROVE  Orderly(q \o r)
<1> DEFINE u == q \o r
<1>1. /\ DOMAIN u = 1 .. Len(q) + Len(r)
      /\ DOMAIN q = 1 .. Len(q) /\ Len(q) \in Nat
      /\ DOMAIN r = 1 .. Len(r) /\ Len(r) \in Nat
      /\ \A i \in 1 .. Len(q) : u[i] = q[i]
      /\ \A i \in 1 .. Len(r) : u[Len(q) + i] = r[i]
  BY ConcatIs
<1> HIDE DEF u
<1>2. \A i \in DOMAIN u : \/ i \in DOMAIN q /\ u[i] = q[i]
                          \/ u[i].kind = "completed" /\ \A j \in DOMAIN q : j < i
  <2> SUFFICES ASSUME NEW i \in DOMAIN u, i \notin DOMAIN q
               PROVE  u[i].kind = "completed" /\ \A j \in DOMAIN q : j < i
    BY <1>1
  <2>1. i - Len(q) \in DOMAIN r /\ u[i] = r[i - Len(q)]
    BY <1>1
  <2> QED
    BY <1>1, <2>1
<1>3. Orderly(u)
  BY <1>2 DEF Orderly
<1> QED
  BY <1>3 DEF u

LEMMA AnnouncedAppend ==
  ASSUME NEW q \in Seq(Event), NEW e \in Event, Announced(q), e.kind # "running"
  PROVE  Announced(Append(q, e))
<1> DEFINE r == Append(q, e)
<1>1. \A i \in DOMAIN r : (i \in DOMAIN q /\ r[i] = q[i]) \/ r[i] = e
  BY AppendIs
<1>2. \A i, j \in DOMAIN r : i < j /\ j \in DOMAIN q => i \in DOMAIN q /\ r[i] = q[i]
  BY AppendIs
<1> HIDE DEF r
<1>3. Announced(r)
  BY <1>1, <1>2 DEF Announced
<1> QED
  BY <1>3 DEF r

LEMMA AnnouncedTail ==
  ASSUME NEW q \in Seq(Event), q # <<>>, Announced(q)
  PROVE  /\ Announced(Tail(q))
         /\ Head(q).kind # "running" => \A i \in DOMAIN q : q[i].kind # "running"
<1> DEFINE r == Tail(q)
<1>1. /\ Head(q) = q[1] /\ \A i \in DOMAIN r : i \in Int /\ i + 1 \in DOMAIN q /\ r[i] = q[i + 1]
      /\ 1 \in DOMAIN q /\ \A i \in DOMAIN q : i = 1 \/ 1 < i
  BY TailIs
<1> HIDE DEF r
<1>2. Announced(r)
  <2> SUFFICES ASSUME NEW i \in DOMAIN r, NEW j \in DOMAIN r, i < j, r[j].kind = "running"
               PROVE  r[i].kind = "running"
    BY DEF Announced
  <2>1. i + 1 < j + 1
    BY <1>1
  <2> QED
    BY <1>1, <2>1 DEF Announced
<1>3. ASSUME Head(q).kind # "running", NEW i \in DOMAIN q PROVE q[i].kind # "running"
  BY <1>1, <1>3 DEF Announced
<1> QED
  BY <1>2, <1>3 DEF r

LEMMA ListsNone ==
  ASSUME NEW q, NEW kind, NEW lo \in Nat, NEW hi \in Nat, Lists(q, kind, lo, hi),
         \A i \in DOMAIN q : q[i].kind # kind
  PROVE  hi <= lo
<1> SUFFICES ASSUME lo < hi PROVE FALSE
  OBVIOUS
<1>1. lo + 1 \in lo + 1 .. hi
  OBVIOUS
<1> QED
  BY <1>1 DEF Lists

-----------------------------------------------------------------------------
LEMMA CorrelationStart == CorrelationInit => CorrelationInv
<1> SUFFICES ASSUME CorrelationInit PROVE CorrelationInv
  OBVIOUS
<1> USE CorrelationAssumption
<1>1. CorrelationTypeOK
  BY DEF CorrelationInit, CorrelationTypeOK, Id, NoId
<1>2. Results
  BY DEF CorrelationInit, Results, Once, Ends
<1>3. Fronts(0, 0, 0, 0, 0)
  BY DEF CorrelationInit, Fronts, Waits, ToolCall
<1>4. Lines(0, 0, 0, 0, 0)
  BY DEF CorrelationInit, Lines, Lists, Announced, Orderly
<1>5. OnWire(0, 0)
  BY DEF CorrelationInit, OnWire, Unseen, ToolCall
<1>6. 0 \in 0 .. NCalls
  OBVIOUS
<1> QED
  BY <1>1, <1>2, <1>3, <1>4, <1>5, <1>6 DEF CorrelationInv

LEMMA StartRoundKeeps ==
  ASSUME early, CorrelationInv, NEW first \in ToolCall, NEW last \in ToolCall, StartRound(first, last)
  PROVE  CorrelationInv'
<1> USE CorrelationAssumption
<1>1. /\ {c \in ToolCall : RoundOf[c] = RoundOf[first]} = first .. last
      /\ \A c \in 1 .. first - 1 : progress[c] = "settled"
      /\ progress[first] = "idle" /\ timeline = <<>> /\ queue = <<>>
      /\ progress' = [c \in ToolCall |-> IF c \in first .. last THEN "started" ELSE progress[c]]
      /\ timeline' = [i \in 1 .. last - first + 1 |-> [kind |-> "running", call |-> first + i - 1]]
      /\ UNCHANGED <<early, refused, others, held, queue, unclaimedCalls, unclaimedApprovals, announcedAs,
                     cards, gateAt, resultAt>>
  BY DEF StartRound, correlation, wireVars
<1>2. CorrelationTypeOK /\ Results
  BY DEF CorrelationInv
<1>3. PICK a \in 0 .. NCalls, p \in 0 .. NCalls, q \in 0 .. NCalls, g \in 0 .. NCalls, s \in 0 .. NCalls :
        Fronts(a, p, q, g, s) /\ Lines(a, p, q, g, s) /\ OnWire(a, p)
  BY DEF CorrelationInv
<1>4. a = q /\ q = s /\ p = g
  <2>1. s <= q /\ q <= a /\ g <= p
    BY <1>1, <1>3, ListsNone DEF Lines
  <2> QED
    BY <1>3, <2>1 DEF Fronts
<1>5. first \in first .. last /\ first <= last /\ first .. last \subseteq ToolCall
  <2>1. first \in first .. last
    BY <1>1
  <2> QED
    BY <1>1, <2>1 DEF ToolCall
<1>6. s = first - 1 /\ g = first - 1
  <2>1. s < first
    <3>1. ~(first <= s)
      BY <1>1, <1>3 DEF Fronts
    <3> QED
      BY <3>1 DEF ToolCall
  <2>2. first - 1 <= g
    <3>1. CASE first = 1
      BY <3>1
    <3>2. CASE first # 1
      <4>1. first - 1 \in 1 .. first - 1 /\ first - 1 \in ToolCall
        BY <3>2 DEF ToolCall
      <4> QED
        BY <1>1, <1>3, <4>1 DEF Fronts
    <3> QED
      BY <3>1, <3>2
  <2> QED
    BY <1>3, <2>1, <2>2 DEF Fronts, ToolCall
<1>7. /\ DOMAIN timeline' = 1 .. last - first + 1
      /\ \A i \in DOMAIN timeline' : /\ timeline'[i] \in Event /\ timeline'[i].kind = "running"
                                     /\ timeline'[i].call = first + i - 1
      /\ timeline' \in Seq(Event)
  <2>1. \A i \in 1 .. last - first + 1 : first + i - 1 \in ToolCall
    BY <1>5 DEF ToolCall
  <2>2. \A i \in 1 .. last - first + 1 : [kind |-> "running", call |-> first + i - 1] \in Event
    BY <2>1 DEF Event
  <2>3. last - first + 1 \in Nat
    BY <1>5 DEF ToolCall
  <2> QED
    BY <1>1, <2>2, <2>3, SeqDef
<1>8. CorrelationTypeOK'
  BY <1>1, <1>2, <1>7 DEF CorrelationTypeOK
<1>9. Results'
  <2>1. Once(timeline') /\ \A c : ~Ends(timeline', c)
    BY <1>7 DEF Once, Ends
  <2>2. \A c : ~Ends(timeline, c)
    BY <1>1 DEF Ends
  <2>3. \A c \in ToolCall : progress[c] = "settled" => progress'[c] = "settled"
    <3> SUFFICES ASSUME NEW c \in ToolCall, progress[c] = "settled" PROVE c \notin first .. last
      BY <1>1
    <3>1. c <= g
      BY <1>3 DEF Fronts
    <3> QED
      BY <1>6, <3>1 DEF ToolCall
  <2> QED
    BY <1>1, <1>2, <2>1, <2>2, <2>3 DEF Results
<1>10. Fronts(a, p, q, g, last)'
  <2>1. \A c \in ToolCall : progress[c] # "idle" <=> c < first
    BY <1>3, <1>6 DEF Fronts, ToolCall
  <2>2. \A c \in ToolCall : progress[c] \in {"gated", "running", "settled"} <=> c < first
    BY <1>3, <1>6 DEF Fronts, ToolCall
  <2>3. ASSUME NEW c \in ToolCall
        PROVE  /\ progress'[c] # "idle" <=> c <= last
               /\ progress'[c] \in {"gated", "running", "settled"} <=> c <= g
    <3>1. CASE c \in first .. last
      <4>1. progress'[c] = "started" /\ c <= last /\ ~(c <= g)
        BY <1>1, <1>6, <3>1 DEF ToolCall
      <4> QED
        BY <4>1
    <3>2. CASE c \notin first .. last
      <4>1. progress'[c] = progress[c]
        BY <1>1, <3>2
      <4>2. (c < first <=> c <= last) /\ (c < first <=> c <= g)
        BY <1>5, <1>6, <3>2 DEF ToolCall
      <4> QED
        BY <2>1, <2>2, <4>1, <4>2
    <3> QED
      BY <3>1, <3>2
  <2>4. a <= q /\ q <= last /\ p <= g /\ g <= last
    BY <1>4, <1>5, <1>6 DEF ToolCall
  <2>5. Waits(unclaimedCalls', p, a) /\ Waits(unclaimedApprovals', a, p)
    BY <1>1, <1>3 DEF Fronts
  <2> QED
    BY <2>3, <2>4, <2>5 DEF Fronts
<1>11. Lines(a, p, q, g, last)'
  <2>1. Lists(timeline', "running", q, last)
    <3>1. ASSUME NEW i \in DOMAIN timeline' PROVE timeline'[i].call \in q + 1 .. last
      <4>1. i \in 1 .. last - first + 1 /\ timeline'[i].call = first + i - 1
        BY <1>7
      <4>2. first + i - 1 \in first .. last
        BY <4>1 DEF ToolCall
      <4>3. first = q + 1
        BY <1>4, <1>6 DEF ToolCall
      <4> QED
        BY <4>1, <4>2, <4>3
    <3>2. ASSUME NEW c \in q + 1 .. last
          PROVE  c - q \in DOMAIN timeline' /\ timeline'[c - q].call = c
      <4>1. c - q \in 1 .. last - first + 1
        BY <1>4, <1>6 DEF ToolCall
      <4>2. timeline'[c - q].call = first + (c - q) - 1
        BY <1>7, <4>1
      <4>3. first + (c - q) - 1 = c
        BY <1>4, <1>6 DEF ToolCall
      <4> QED
        BY <1>7, <4>1, <4>2, <4>3
    <3>3. \A i, j \in DOMAIN timeline' : i < j => timeline'[i].call < timeline'[j].call
      BY <1>7 DEF ToolCall
    <3> QED
      BY <1>7, <3>1, <3>2, <3>3 DEF Lists
  <2>2. Announced(timeline') /\ \A i \in DOMAIN timeline' : timeline'[i].kind # "approval"
    BY <1>7 DEF Announced
  <2> QED
    BY <1>1, <1>3, <2>1, <2>2 DEF Lines
<1>12. OnWire(a, p)'
  BY <1>1, <1>3 DEF OnWire, Paired, Unseen, Called, Asked, Gated
<1>13. last \in 0 .. NCalls
  BY DEF ToolCall
<1> QED
  BY <1>8, <1>9, <1>10, <1>11, <1>12, <1>13 DEF CorrelationInv

LEMMA GateKeeps ==
  ASSUME HooksInOrder, CorrelationInv, NEW c \in ToolCall, Gate(c)
  PROVE  CorrelationInv'
<1> USE CorrelationAssumption
<1> DEFINE e == [kind |-> "approval", call |-> c]
<1>1. /\ progress[c] = "started" /\ \A d \in ToolCall : d < c => progress[d] # "started"
      /\ progress' = [progress EXCEPT ![c] = "gated"]
      /\ queue' = Append(queue, e)
      /\ UNCHANGED <<early, refused, others, timeline, held, unclaimedCalls, unclaimedApprovals, announcedAs,
                     cards, gateAt, resultAt>>
  BY DEF Gate, correlation, wireVars
<1>2. CorrelationTypeOK /\ Results
  BY DEF CorrelationInv
<1>3. PICK a \in 0 .. NCalls, p \in 0 .. NCalls, q \in 0 .. NCalls, g \in 0 .. NCalls, s \in 0 .. NCalls :
        Fronts(a, p, q, g, s) /\ Lines(a, p, q, g, s) /\ OnWire(a, p)
  BY DEF CorrelationInv
<1>4. e \in Event /\ e.kind = "approval" /\ e.call = c /\ queue \in Seq(Event)
  BY <1>2 DEF Event, CorrelationTypeOK
<1> HIDE DEF e
<1>5. c = g + 1 /\ c <= s
  <2>1. g < c /\ c <= s
    <3>1. progress[c] # "idle" /\ progress[c] \notin {"gated", "running", "settled"}
      BY <1>1
    <3>2. c <= s /\ ~(c <= g)
      BY <1>3, <3>1 DEF Fronts
    <3> QED
      BY <3>2 DEF ToolCall
  <2>2. ASSUME g + 1 < c PROVE FALSE
    <3>1. g + 1 \in ToolCall /\ g + 1 <= s
      BY <2>1, <2>2 DEF ToolCall
    <3>2. progress[g + 1] # "idle" /\ progress[g + 1] \notin {"gated", "running", "settled"}
      BY <1>3, <3>1 DEF Fronts
    <3>3. progress[g + 1] = "started"
      BY <1>2, <3>1, <3>2 DEF CorrelationTypeOK
    <3> QED
      BY <1>1, <2>2, <3>1, <3>3
  <2> QED
    BY <2>1, <2>2 DEF ToolCall
<1>6. CorrelationTypeOK'
  BY <1>1, <1>2, <1>4, AppendIs DEF CorrelationTypeOK
<1>7. ~Ends(queue, c)
  BY <1>1, <1>2 DEF Results
<1>8. Results'
  <2>1. Once(queue') /\ \A d : Ends(queue', d) <=> Ends(queue, d)
    BY <1>1, <1>2, <1>4, EndsAppend DEF Results
  <2>2. \A d \in ToolCall : progress[d] = "settled" => progress'[d] = "settled"
    BY <1>1, <1>2 DEF CorrelationTypeOK
  <2> QED
    BY <1>1, <1>2, <2>1, <2>2 DEF Results
<1>9. Fronts(a, p, q, g + 1, s)'
  <2>1. \A d \in ToolCall : progress'[d] # "idle" <=> d <= s
    BY <1>1, <1>2, <1>3 DEF Fronts, CorrelationTypeOK
  <2>2. ASSUME NEW d \in ToolCall
        PROVE  progress'[d] \in {"gated", "running", "settled"} <=> d <= g + 1
    <3>1. CASE d = c
      BY <1>1, <1>2, <1>5, <3>1 DEF CorrelationTypeOK
    <3>2. CASE d # c
      <4>1. progress'[d] = progress[d]
        BY <1>1, <1>2, <3>2 DEF CorrelationTypeOK
      <4>2. d <= g + 1 <=> d <= g
        BY <1>5, <3>2 DEF ToolCall
      <4> QED
        BY <1>3, <4>1, <4>2 DEF Fronts
    <3> QED
      BY <3>1, <3>2
  <2> QED
    BY <1>1, <1>3, <1>5, <2>1, <2>2 DEF Fronts
<1>10. Lines(a, p, q, g + 1, s)'
  <2>1. /\ a \in Nat /\ q \in Nat /\ a <= q /\ Lists(queue, "running", a, q)
        /\ p \in Nat /\ g \in Nat /\ p <= g /\ Lists(queue, "approval", p, g)
    BY <1>3 DEF Fronts, Lines
  <2>2. Lists(queue', "running", a, q) /\ Lists(queue', "approval", p, g + 1)
    BY <1>1, <1>4, <1>5, <2>1, ListsAppend
  <2>3. Orderly(queue')
    BY <1>1, <1>3, <1>4, <1>7, OrderlyAppend DEF Lines
  <2>4. \A i \in DOMAIN queue' : queue'[i].kind = "completed" => q = s
    BY <1>1, <1>3, <1>4, AppendIs DEF Lines
  <2> QED
    BY <1>1, <1>3, <2>2, <2>3, <2>4 DEF Lines
<1>11. OnWire(a, p)'
  BY <1>1, <1>3 DEF OnWire, Paired, Unseen, Called, Asked, Gated
<1>12. g + 1 \in 0 .. NCalls
  BY <1>5 DEF ToolCall
<1> QED
  BY <1>6, <1>8, <1>9, <1>10, <1>11, <1>12 DEF CorrelationInv

LEMMA AllowKeeps ==
  ASSUME early, CorrelationInv, NEW c \in ToolCall, Allow(c)
  PROVE  CorrelationInv'
<1> USE CorrelationAssumption
<1>1. /\ progress[c] = "gated"
      /\ progress' = [progress EXCEPT ![c] = "running"]
      /\ UNCHANGED <<early, refused, others, timeline, held, queue, unclaimedCalls, unclaimedApprovals,
                     announcedAs, cards, gateAt, resultAt>>
  BY DEF Allow, correlation, wireVars
<1>2. CorrelationTypeOK /\ Results
  BY DEF CorrelationInv
<1>3. PICK a \in 0 .. NCalls, p \in 0 .. NCalls, q \in 0 .. NCalls, g \in 0 .. NCalls, s \in 0 .. NCalls :
        Fronts(a, p, q, g, s) /\ Lines(a, p, q, g, s) /\ OnWire(a, p)
  BY DEF CorrelationInv
<1>4. CorrelationTypeOK'
  BY <1>1, <1>2 DEF CorrelationTypeOK
<1>5. Results'
  <2>1. \A d \in ToolCall : progress[d] = "settled" => progress'[d] = "settled"
    BY <1>1, <1>2 DEF CorrelationTypeOK
  <2> QED
    BY <1>1, <1>2, <2>1 DEF Results
<1>6. Fronts(a, p, q, g, s)'
  <2>1. \A d \in ToolCall : progress'[d] # "idle" <=> d <= s
    BY <1>1, <1>2, <1>3 DEF Fronts, CorrelationTypeOK
  <2>2. \A d \in ToolCall : progress'[d] \in {"gated", "running", "settled"} <=> d <= g
    BY <1>1, <1>2, <1>3 DEF Fronts, CorrelationTypeOK
  <2> QED
    BY <1>1, <1>3, <2>1, <2>2 DEF Fronts
<1>7. Lines(a, p, q, g, s)' /\ OnWire(a, p)'
  BY <1>1, <1>3 DEF Lines, OnWire, Paired, Unseen, Called, Asked, Gated
<1> QED
  BY <1>4, <1>5, <1>6, <1>7 DEF CorrelationInv

LEMMA EndKeeps ==
  ASSUME CorrelationInv, NEW c \in ToolCall, Refuse(c) \/ Complete(c)
  PROVE  CorrelationInv'
<1> USE CorrelationAssumption
<1> DEFINE e == [kind |-> "completed", call |-> c]
<1>1. /\ progress[c] \in {"gated", "running"}
      /\ progress' = [progress EXCEPT ![c] = "settled"]
      /\ refused' \in {refused, refused \cup {c}}
      /\ timeline' = Append(timeline, e)
      /\ UNCHANGED <<early, others, held, queue, unclaimedCalls, unclaimedApprovals, announcedAs,
                     cards, gateAt, resultAt>>
  BY DEF Refuse, Complete, correlation, wireVars
<1>2. CorrelationTypeOK /\ Results
  BY DEF CorrelationInv
<1>3. PICK a \in 0 .. NCalls, p \in 0 .. NCalls, q \in 0 .. NCalls, g \in 0 .. NCalls, s \in 0 .. NCalls :
        Fronts(a, p, q, g, s) /\ Lines(a, p, q, g, s) /\ OnWire(a, p)
  BY DEF CorrelationInv
<1>4. e \in Event /\ e.kind = "completed" /\ e.call = c /\ timeline \in Seq(Event)
  BY <1>2 DEF Event, CorrelationTypeOK
<1> HIDE DEF e
<1>5. CorrelationTypeOK'
  BY <1>1, <1>2, <1>4, AppendIs DEF CorrelationTypeOK
<1>6. Results'
  <2>1. ~Ends(timeline, c) /\ ~Ends(held, c) /\ ~Ends(queue, c) /\ resultAt[c] = NoId
    BY <1>1, <1>2 DEF Results
  <2>2. Once(timeline') /\ \A d : Ends(timeline', d) <=> Ends(timeline, d) \/ d = c
    BY <1>1, <1>2, <1>4, <2>1, EndsAppend DEF Results
  <2>3. \A d \in ToolCall : progress[d] = "settled" \/ d = c => progress'[d] = "settled"
    BY <1>1, <1>2 DEF CorrelationTypeOK
  <2>4. c # NoCall
    BY DEF ToolCall, NoCall
  <2> QED
    BY <1>1, <1>2, <2>1, <2>2, <2>3, <2>4 DEF Results
<1>7. Fronts(a, p, q, g, s)'
  <2>1. \A d \in ToolCall : progress'[d] # "idle" <=> d <= s
    BY <1>1, <1>2, <1>3 DEF Fronts, CorrelationTypeOK
  <2>2. \A d \in ToolCall : progress'[d] \in {"gated", "running", "settled"} <=> d <= g
    BY <1>1, <1>2, <1>3 DEF Fronts, CorrelationTypeOK
  <2> QED
    BY <1>1, <1>3, <2>1, <2>2 DEF Fronts
<1>8. Lines(a, p, q, g, s)'
  <2>1. q \in Nat /\ s \in Nat /\ q <= s /\ Lists(timeline, "running", q, s)
    BY <1>3 DEF Fronts, Lines
  <2>2. Lists(timeline', "running", q, s)
    BY <1>1, <1>4, <2>1, ListsAppend
  <2>3. Announced(timeline')
    BY <1>1, <1>3, <1>4, AnnouncedAppend DEF Lines
  <2>4. \A i \in DOMAIN timeline' : timeline'[i].kind # "approval"
    BY <1>1, <1>3, <1>4, AppendIs DEF Lines
  <2> QED
    BY <1>1, <1>3, <2>2, <2>3, <2>4 DEF Lines
<1>9. OnWire(a, p)'
  BY <1>1, <1>3 DEF OnWire, Paired, Unseen, Called, Asked, Gated
<1> QED
  BY <1>5, <1>6, <1>7, <1>8, <1>9 DEF CorrelationInv

LEMMA OtherKeeps == ASSUME CorrelationInv, Other PROVE CorrelationInv'
<1> USE CorrelationAssumption
<1> DEFINE e == [kind |-> "other", call |-> NoCall]
<1>1. /\ others < MaxOthers /\ others' = others + 1
      /\ timeline' = Append(timeline, e)
      /\ UNCHANGED <<early, progress, refused, held, queue, unclaimedCalls, unclaimedApprovals, announcedAs,
                     cards, gateAt, resultAt>>
  BY DEF Other, correlation, wireVars
<1>2. CorrelationTypeOK /\ Results
  BY DEF CorrelationInv
<1>3. PICK a \in 0 .. NCalls, p \in 0 .. NCalls, q \in 0 .. NCalls, g \in 0 .. NCalls, s \in 0 .. NCalls :
        Fronts(a, p, q, g, s) /\ Lines(a, p, q, g, s) /\ OnWire(a, p)
  BY DEF CorrelationInv
<1>4. e \in Event /\ e.kind = "other" /\ timeline \in Seq(Event)
  BY <1>2 DEF Event, CorrelationTypeOK
<1> HIDE DEF e
<1>5. CorrelationTypeOK'
  BY <1>1, <1>2, <1>4, AppendIs DEF CorrelationTypeOK
<1>6. Results'
  <2>1. Once(timeline') /\ \A d : Ends(timeline', d) <=> Ends(timeline, d)
    BY <1>1, <1>2, <1>4, EndsAppend DEF Results
  <2> QED
    BY <1>1, <1>2, <2>1 DEF Results
<1>7. Fronts(a, p, q, g, s)'
  BY <1>1, <1>3 DEF Fronts
<1>8. Lines(a, p, q, g, s)'
  <2>1. q \in Nat /\ s \in Nat /\ q <= s /\ Lists(timeline, "running", q, s)
    BY <1>3 DEF Fronts, Lines
  <2>2. Lists(timeline', "running", q, s)
    BY <1>1, <1>4, <2>1, ListsAppend
  <2>3. Announced(timeline')
    BY <1>1, <1>3, <1>4, AnnouncedAppend DEF Lines
  <2>4. \A i \in DOMAIN timeline' : timeline'[i].kind # "approval"
    BY <1>1, <1>3, <1>4, AppendIs DEF Lines
  <2> QED
    BY <1>1, <1>3, <2>2, <2>3, <2>4 DEF Lines
<1>9. OnWire(a, p)'
  BY <1>1, <1>3 DEF OnWire, Paired, Unseen, Called, Asked, Gated
<1> QED
  BY <1>5, <1>6, <1>7, <1>8, <1>9 DEF CorrelationInv

LEMMA PumpKeeps == ASSUME CorrelationInv, Pump PROVE CorrelationInv'
<1> USE CorrelationAssumption
<1> DEFINE e == Head(timeline)
<1>1. /\ timeline # <<>> /\ timeline' = Tail(timeline)
      /\ \/ e.kind = "completed" /\ held' = Append(held, e) /\ queue' = queue
         \/ e.kind = "running" /\ queue' = Append(queue, e) /\ held' = held
         \/ e.kind = "other" /\ queue' = Append(queue \o held, e) /\ held' = <<>>
      /\ UNCHANGED <<early, progress, refused, others, unclaimedCalls, unclaimedApprovals, announcedAs,
                     cards, gateAt, resultAt>>
  BY DEF Pump, correlation, wireVars
<1>2. CorrelationTypeOK /\ Results
  BY DEF CorrelationInv
<1>3. PICK a \in 0 .. NCalls, p \in 0 .. NCalls, q \in 0 .. NCalls, g \in 0 .. NCalls, s \in 0 .. NCalls :
        Fronts(a, p, q, g, s) /\ Lines(a, p, q, g, s) /\ OnWire(a, p)
  BY DEF CorrelationInv
<1>4. /\ e \in Event /\ timeline \in Seq(Event) /\ timeline' \in Seq(Event)
      /\ held \in Seq(Event) /\ queue \in Seq(Event)
  BY <1>1, <1>2, TailIs DEF CorrelationTypeOK
<1>5. /\ \A c : Ends(timeline, c) <=> Ends(timeline', c) \/ (e.kind = "completed" /\ e.call = c)
      /\ Once(timeline')
      /\ e.kind = "completed" => ~Ends(timeline', e.call)
  BY <1>1, <1>2, <1>4, EndsTail DEF Results
<1>6. /\ Announced(timeline')
      /\ e.kind # "running" => \A i \in DOMAIN timeline : timeline[i].kind # "running"
      /\ \A i \in DOMAIN timeline' : timeline'[i].kind # "approval"
  <2>1. \A i \in DOMAIN timeline' : i + 1 \in DOMAIN timeline /\ timeline'[i] = timeline[i + 1]
    BY <1>1, <1>4, TailIs
  <2> QED
    BY <1>1, <1>3, <1>4, <2>1, AnnouncedTail DEF Lines
<1>7. /\ a \in Nat /\ p \in Nat /\ q \in Nat /\ g \in Nat /\ s \in Nat
      /\ a <= q /\ q <= s /\ p <= g
      /\ Lists(timeline, "running", q, s)
      /\ Lists(queue, "running", a, q) /\ Lists(queue, "approval", p, g) /\ Orderly(queue)
      /\ \A i \in DOMAIN held : held[i].kind = "completed"
      /\ \A i \in DOMAIN queue : queue[i].kind = "completed" => q = s
  BY <1>3 DEF Fronts, Lines
<1>8. /\ e.kind # "running" => Lists(timeline', "running", q, s) /\ q = s
      /\ e.kind = "running" => /\ e.call = q + 1 /\ q < s
                               /\ Lists(timeline', "running", q + 1, s)
  <2>1. e.kind # "running" => s <= q
    BY <1>6, <1>7, ListsNone
  <2> QED
    BY <1>1, <1>4, <1>7, <2>1, ListsTail
<1>9. OnWire(a, p)'
  BY <1>1, <1>3 DEF OnWire, Paired, Unseen, Called, Asked, Gated
<1>10. Fronts(a, p, q, g, s)' /\ (q < s => Fronts(a, p, q + 1, g, s)')
  BY <1>1, <1>3 DEF Fronts
<1> HIDE DEF e
<1>11. CASE e.kind = "completed" /\ held' = Append(held, e) /\ queue' = queue
  <2>1. CorrelationTypeOK'
    BY <1>1, <1>2, <1>4, <1>11, AppendIs DEF CorrelationTypeOK
  <2>2. ~Ends(held, e.call) /\ Ends(timeline, e.call) /\ e.call # NoCall
    BY <1>2, <1>4, <1>5, <1>11 DEF Results, Event
  <2>3. Once(held') /\ \A c : Ends(held', c) <=> Ends(held, c) \/ e.call = c
    BY <1>2, <1>4, <1>11, <2>2, EndsAppend DEF Results
  <2>4. Results'
    BY <1>1, <1>2, <1>5, <1>11, <2>2, <2>3 DEF Results
  <2>5. \A i \in DOMAIN held' : held'[i].kind = "completed"
    BY <1>4, <1>7, <1>11, AppendIs
  <2>6. Lines(a, p, q, g, s)'
    BY <1>6, <1>7, <1>8, <1>11, <2>5 DEF Lines
  <2> QED
    BY <1>9, <1>10, <2>1, <2>4, <2>6 DEF CorrelationInv
<1>12. CASE e.kind = "running" /\ queue' = Append(queue, e) /\ held' = held
  <2>1. CorrelationTypeOK'
    BY <1>1, <1>2, <1>4, <1>12, AppendIs DEF CorrelationTypeOK
  <2>2. Once(queue') /\ \A c : Ends(queue', c) <=> Ends(queue, c)
    BY <1>2, <1>4, <1>12, EndsAppend DEF Results
  <2>3. Results'
    BY <1>1, <1>2, <1>5, <1>12, <2>2 DEF Results
  <2>4. q < s /\ \A i \in DOMAIN queue : queue[i].kind # "completed"
    BY <1>7, <1>8, <1>12
  <2>5. Lists(queue', "running", a, q + 1)
    BY <1>4, <1>7, <1>8, <1>12, ListsAppend
  <2>10. Lists(queue', "approval", p, g)
    BY <1>4, <1>7, <1>12, ListsAppend
  <2>6. Orderly(queue')
    BY <1>4, <1>7, <1>12, <2>4, OrderlyAppend
  <2>7. \A i \in DOMAIN queue' : queue'[i].kind # "completed"
    <3>1. \A i \in DOMAIN queue' : (i \in DOMAIN queue /\ queue'[i] = queue[i]) \/ queue'[i] = e
      BY <1>4, <1>12, AppendIs
    <3> QED
      BY <1>12, <2>4, <3>1
  <2>8. Lines(a, p, q + 1, g, s)'
    BY <1>6, <1>7, <1>8, <1>12, <2>5, <2>6, <2>7, <2>10 DEF Lines
  <2>9. q + 1 \in 0 .. NCalls
    BY <2>4
  <2> QED
    BY <1>9, <1>10, <2>1, <2>3, <2>4, <2>8, <2>9 DEF CorrelationInv
<1>13. CASE e.kind = "other" /\ queue' = Append(queue \o held, e) /\ held' = <<>>
  <2> DEFINE u == queue \o held
  <2>1. /\ u \in Seq(Event)
        /\ \A c : Ends(u, c) <=> Ends(queue, c) \/ Ends(held, c)
        /\ Once(u)
    <3>1. \A c : ~(Ends(queue, c) /\ Ends(held, c))
      <4> SUFFICES ASSUME NEW c, Ends(queue, c), Ends(held, c) PROVE FALSE
        OBVIOUS
      <4>1. c \in ToolCall \cup {NoCall}
        <5>1. PICK i \in DOMAIN queue : queue[i].call = c
          BY DEF Ends
        <5>2. queue[i] \in Event
          BY <1>4
        <5> QED
          BY <5>1, <5>2 DEF Event
      <4> QED
        BY <1>2, <4>1 DEF Results
    <3> QED
      BY <1>2, <1>4, <3>1, ConcatIs, EndsConcat DEF Results
  <2>2. Lists(u, "running", a, q) /\ Lists(u, "approval", p, g) /\ Orderly(u)
    <3>1. \A i \in DOMAIN held : held[i].kind # "running" /\ held[i].kind # "approval"
      BY <1>7
    <3>2. Lists(u, "running", a, q)
      BY <1>4, <1>7, <3>1, ListsConcat
    <3>3. Lists(u, "approval", p, g)
      BY <1>4, <1>7, <3>1, ListsConcat
    <3>4. Orderly(u)
      BY <1>4, <1>7, OrderlyConcat
    <3> QED
      BY <3>2, <3>3, <3>4
  <2> HIDE DEF u
  <2>3. queue' = Append(u, e) /\ queue' \in Seq(Event)
    BY <1>4, <1>13, <2>1, AppendIs DEF u
  <2>4. Once(queue') /\ \A c : Ends(queue', c) <=> Ends(u, c)
    BY <1>4, <1>13, <2>1, <2>3, EndsAppend
  <2>5. Once(held') /\ \A c : ~Ends(held', c)
    BY <1>13 DEF Once, Ends
  <2>6. CorrelationTypeOK'
    BY <1>1, <1>2, <1>4, <1>13, <2>3 DEF CorrelationTypeOK
  <2>7. Results'
    BY <1>1, <1>2, <1>5, <1>13, <2>1, <2>4, <2>5 DEF Results
  <2>8. Lists(queue', "running", a, q)
    BY <1>4, <1>7, <1>13, <2>1, <2>2, <2>3, ListsAppend
  <2>9. Lists(queue', "approval", p, g)
    BY <1>4, <1>7, <1>13, <2>1, <2>2, <2>3, ListsAppend
  <2>10. Orderly(queue')
    BY <1>4, <1>13, <2>1, <2>2, <2>3, OrderlyAppend
  <2>11. \A i \in DOMAIN held' : held'[i].kind = "completed"
    BY <1>13
  <2>12. Lines(a, p, q, g, s)'
    BY <1>6, <1>8, <1>13, <2>8, <2>9, <2>10, <2>11 DEF Lines
  <2> QED
    BY <1>9, <1>10, <2>6, <2>7, <2>12 DEF CorrelationInv
<1> QED
  BY <1>1, <1>11, <1>12, <1>13

(* The ids a queue of the presenter holds lie beyond the side it waits for. *)
LEMMA ForgetIsNoop ==
  ASSUME NEW ids, NEW lo \in Nat, NEW hi \in Nat, Waits(ids, lo, hi), ids \in Seq(ToolCall),
         NEW c \in ToolCall, c <= lo
  PROVE  ~Queued(c, ids) /\ Forget(ids, c) = ids
<1>1. \A i \in DOMAIN ids : i \in 1 .. Len(ids) /\ ids[i] = lo + i
  BY DEF Waits
<1>2. ~Queued(c, ids)
  BY <1>1 DEF Queued, ToolCall
<1> QED
  BY <1>2 DEF Forget

LEMMA PresentKeeps == ASSUME CorrelationInv, Present PROVE CorrelationInv'
<1> USE CorrelationAssumption
<1> DEFINE e == Head(queue)
<1>1. /\ queue # <<>> /\ queue' = Tail(queue)
      /\ \/ e.kind = "running" /\ AnnounceToolCall(e.call)
         \/ e.kind = "approval" /\ ApprovalToolCallId(e.call)
         \/ e.kind = "completed" /\ ResultToolCallId(e.call)
         \/ e.kind = "other" /\ UNCHANGED <<correlation, wireVars>>
      /\ UNCHANGED <<early, progress, refused, others, timeline, held>>
  BY DEF Present
<1>2. CorrelationTypeOK /\ Results
  BY DEF CorrelationInv
<1>3. PICK a \in 0 .. NCalls, p \in 0 .. NCalls, q \in 0 .. NCalls, g \in 0 .. NCalls, s \in 0 .. NCalls :
        Fronts(a, p, q, g, s) /\ Lines(a, p, q, g, s) /\ OnWire(a, p)
  BY DEF CorrelationInv
<1>4. e \in Event /\ queue \in Seq(Event) /\ queue' \in Seq(Event)
  BY <1>1, <1>2, TailIs DEF CorrelationTypeOK
<1>5. /\ \A c : Ends(queue, c) <=> Ends(queue', c) \/ (e.kind = "completed" /\ e.call = c)
      /\ Once(queue')
      /\ e.kind = "completed" => ~Ends(queue', e.call)
  BY <1>1, <1>2, <1>4, EndsTail DEF Results
<1>6. /\ a \in Nat /\ p \in Nat /\ q \in Nat /\ g \in Nat /\ s \in Nat
      /\ a <= q /\ q <= s /\ p <= g /\ g <= s
      /\ Lists(queue, "running", a, q) /\ Lists(queue, "approval", p, g) /\ Orderly(queue)
      /\ \A i \in DOMAIN queue : queue[i].kind = "completed" => q = s
      /\ Waits(unclaimedCalls, p, a) /\ Waits(unclaimedApprovals, a, p)
      /\ unclaimedCalls \in Seq(ToolCall) /\ unclaimedApprovals \in Seq(ToolCall)
  BY <1>2, <1>3 DEF Fronts, Lines, CorrelationTypeOK
<1>7. /\ e.kind # "running" => Lists(queue', "running", a, q)
      /\ e.kind = "running" => /\ e.call = a + 1 /\ a < q
                               /\ Lists(queue', "running", a + 1, q)
      /\ e.kind # "approval" => Lists(queue', "approval", p, g)
      /\ e.kind = "approval" => /\ e.call = p + 1 /\ p < g
                                /\ Lists(queue', "approval", p + 1, g)
  BY <1>1, <1>4, <1>6, ListsTail
<1>8. /\ Orderly(queue')
      /\ \A i \in DOMAIN queue' : queue'[i].kind = "completed" => q = s
  BY <1>1, <1>4, <1>6, OrderlyTail, TailIs
<1>9. ASSUME Lists(queue', "running", a, q), Lists(queue', "approval", p, g)
      PROVE  Lines(a, p, q, g, s)'
  BY <1>1, <1>3, <1>8, <1>9 DEF Lines
<1>10. ASSUME Lists(queue', "running", a + 1, q), Lists(queue', "approval", p, g)
       PROVE  Lines(a + 1, p, q, g, s)'
  BY <1>1, <1>3, <1>8, <1>10 DEF Lines
<1>11. ASSUME Lists(queue', "running", a, q), Lists(queue', "approval", p + 1, g)
       PROVE  Lines(a, p + 1, q, g, s)'
  BY <1>1, <1>3, <1>8, <1>11 DEF Lines
<1> HIDE DEF e
<1>12. CASE e.kind = "running" /\ AnnounceToolCall(e.call)
  <2> DEFINE c == e.call
  <2>1. c \in ToolCall /\ c = a + 1 /\ a < q /\ a + 1 \in 0 .. NCalls
    BY <1>6, <1>7, <1>12 DEF ToolCall
  <2>2. Lines(a + 1, p, q, g, s)'
    BY <1>7, <1>10, <1>12
  <2>3. gateAt' = gateAt /\ resultAt' = resultAt
    BY <1>12 DEF AnnounceToolCall
  <2>4. Results'
    BY <1>1, <1>2, <1>5, <1>12, <2>3 DEF Results
  <2>5. /\ a + 1 <= q
        /\ \A d \in ToolCall : progress'[d] # "idle" <=> d <= s
        /\ \A d \in ToolCall : progress'[d] \in {"gated", "running", "settled"} <=> d <= g
    BY <1>1, <1>3, <2>1 DEF Fronts
  <2>6. CASE unclaimedApprovals = <<>>
    <3>1. /\ unclaimedCalls' = Append(unclaimedCalls, c) /\ cards' = cards \cup {RuntimeId(c)}
          /\ UNCHANGED <<unclaimedApprovals, announcedAs>>
      BY <1>12, <2>6 DEF AnnounceToolCall, AfterAnnounce, NewCards
    <3>2. p <= a
      BY <1>6, <2>6, WaitsTail
    <3>3. RuntimeId(c) \in Id /\ unclaimedCalls' \in Seq(ToolCall)
      BY <1>6, <2>1, <3>1 DEF RuntimeId, Id
    <3>4. CorrelationTypeOK'
      BY <1>1, <1>2, <1>4, <2>3, <3>1, <3>3 DEF CorrelationTypeOK
    <3>5. Waits(unclaimedCalls', p, a + 1) /\ Waits(unclaimedApprovals', a + 1, p)
      <4>1. Waits(unclaimedCalls', p, a + 1)
        BY <1>6, <2>1, <3>1, <3>2, WaitsAppend
      <4>2. Len(unclaimedApprovals') = 0
        BY <2>6, <3>1
      <4> QED
        BY <3>2, <4>1, <4>2 DEF Waits
    <3>6. Fronts(a + 1, p, q, g, s)'
      BY <1>6, <2>5, <3>5 DEF Fronts
    <3>7. OnWire(a + 1, p)'
      <4> SUFFICES ASSUME NEW d \in ToolCall
                   PROVE  (/\ d <= a + 1 /\ d <= p => Paired(d)
                           /\ ~(d <= a + 1 /\ d <= p) => announcedAs[d] = NoCall /\ resultAt[d] = NoId
                           /\ d <= a + 1 /\ ~(d <= p) => Called(d)
                           /\ ~(d <= a + 1) /\ d <= p => Asked(d)
                           /\ ~(d <= a + 1) /\ ~(d <= p) => Unseen(d))'
        BY DEF OnWire
      <4>1. CASE d = c
        <5>1. Unseen(d) /\ announcedAs[d] = NoCall /\ resultAt[d] = NoId
          BY <1>3, <2>1, <3>2, <4>1 DEF OnWire
        <5>2. Called(d)'
          BY <2>3, <3>1, <4>1, <5>1 DEF Unseen, Called, RuntimeId, ApprovalId
        <5> QED
          BY <2>1, <2>3, <3>1, <3>2, <4>1, <5>1, <5>2
      <4>2. CASE d # c
        <5>1. /\ RuntimeId(d) \in cards' <=> RuntimeId(d) \in cards
              /\ ApprovalId(d) \in cards' <=> ApprovalId(d) \in cards
          BY <3>1, <4>2 DEF RuntimeId, ApprovalId
        <5>2. d <= a + 1 <=> d <= a
          BY <2>1, <4>2 DEF ToolCall
        <5> QED
          BY <1>3, <2>3, <3>1, <5>1, <5>2 DEF OnWire, Paired, Unseen, Called, Asked, Gated
      <4> QED
        BY <4>1, <4>2
    <3> QED
      BY <2>1, <2>2, <2>4, <3>4, <3>6, <3>7 DEF CorrelationInv
  <2>7. CASE unclaimedApprovals # <<>>
    <3>1. /\ unclaimedCalls' = unclaimedCalls /\ cards' = cards
          /\ unclaimedApprovals' = Tail(unclaimedApprovals)
          /\ announcedAs' = [announcedAs EXCEPT ![c] = Head(unclaimedApprovals)]
      BY <1>12, <2>7 DEF AnnounceToolCall, AfterAnnounce, NewCards, Claim
    <3>2. a < p /\ Head(unclaimedApprovals) = c /\ Waits(unclaimedApprovals', a + 1, p)
      BY <1>6, <2>1, <2>7, <3>1, WaitsTail
    <3>3. unclaimedApprovals' \in Seq(ToolCall)
      BY <1>6, <2>7, <3>1
    <3>4. CorrelationTypeOK'
      BY <1>1, <1>2, <1>4, <2>1, <2>3, <3>1, <3>2, <3>3 DEF CorrelationTypeOK
    <3>5. Waits(unclaimedCalls', p, a + 1)
      BY <1>6, <3>1, <3>2, NobodyWaits
    <3>6. Fronts(a + 1, p, q, g, s)'
      BY <1>6, <2>5, <3>2, <3>5 DEF Fronts
    <3>7. OnWire(a + 1, p)'
      <4> SUFFICES ASSUME NEW d \in ToolCall
                   PROVE  (/\ d <= a + 1 /\ d <= p => Paired(d)
                           /\ ~(d <= a + 1 /\ d <= p) => announcedAs[d] = NoCall /\ resultAt[d] = NoId
                           /\ d <= a + 1 /\ ~(d <= p) => Called(d)
                           /\ ~(d <= a + 1) /\ d <= p => Asked(d)
                           /\ ~(d <= a + 1) /\ ~(d <= p) => Unseen(d))'
        BY DEF OnWire
      <4>1. CASE d = c
        <5>1. Asked(d) /\ resultAt[d] = NoId /\ announcedAs'[d] = d
          BY <1>2, <1>3, <2>1, <3>1, <3>2, <4>1 DEF OnWire, CorrelationTypeOK
        <5>2. Paired(d)'
          BY <2>3, <3>1, <5>1 DEF Asked, Paired
        <5> QED
          BY <2>1, <3>2, <4>1, <5>2
      <4>2. CASE d # c
        <5>1. announcedAs'[d] = announcedAs[d]
          BY <1>2, <2>1, <3>1, <4>2 DEF CorrelationTypeOK
        <5>2. d <= a + 1 <=> d <= a
          BY <2>1, <4>2 DEF ToolCall
        <5> QED
          BY <1>3, <2>3, <3>1, <5>1, <5>2 DEF OnWire, Paired, Unseen, Called, Asked, Gated
      <4> QED
        BY <4>1, <4>2
    <3> QED
      BY <2>1, <2>2, <2>4, <3>4, <3>6, <3>7 DEF CorrelationInv
  <2> QED
    BY <2>6, <2>7
<1>13. CASE e.kind = "approval" /\ ApprovalToolCallId(e.call)
  <2> DEFINE c == e.call
  <2>1. c \in ToolCall /\ c = p + 1 /\ p < g /\ p + 1 \in 0 .. NCalls
    BY <1>6, <1>7, <1>13 DEF ToolCall
  <2>2. Lines(a, p + 1, q, g, s)'
    BY <1>7, <1>11, <1>13
  <2>3. announcedAs' = announcedAs /\ resultAt' = resultAt /\ cards' = cards \cup {gateAt'[c]}
    BY <1>13 DEF ApprovalToolCallId
  <2>4. Results'
    BY <1>1, <1>2, <1>5, <1>13, <2>3 DEF Results
  <2>5. /\ p + 1 <= g
        /\ \A d \in ToolCall : progress'[d] # "idle" <=> d <= s
        /\ \A d \in ToolCall : progress'[d] \in {"gated", "running", "settled"} <=> d <= g
    BY <1>1, <1>3, <2>1 DEF Fronts
  <2>6. CASE unclaimedCalls = <<>>
    <3>1. /\ unclaimedApprovals' = Append(unclaimedApprovals, c)
          /\ gateAt' = [gateAt EXCEPT ![c] = ApprovalId(c)]
          /\ unclaimedCalls' = unclaimedCalls
      BY <1>13, <2>6 DEF ApprovalToolCallId
    <3>2. a <= p
      BY <1>6, <2>6, WaitsTail
    <3>3. /\ ApprovalId(c) \in Id /\ unclaimedApprovals' \in Seq(ToolCall)
          /\ gateAt'[c] = ApprovalId(c) /\ \A d \in ToolCall : d # c => gateAt'[d] = gateAt[d]
      BY <1>2, <1>6, <2>1, <3>1 DEF ApprovalId, Id, CorrelationTypeOK
    <3>4. CorrelationTypeOK'
      BY <1>1, <1>2, <1>4, <2>3, <3>1, <3>3 DEF CorrelationTypeOK
    <3>5. Waits(unclaimedCalls', p + 1, a) /\ Waits(unclaimedApprovals', a, p + 1)
      <4>1. Waits(unclaimedApprovals', a, p + 1)
        BY <1>6, <2>1, <3>1, <3>2, WaitsAppend
      <4>2. Len(unclaimedCalls') = 0
        BY <2>6, <3>1
      <4> QED
        BY <3>2, <4>1, <4>2 DEF Waits
    <3>6. Fronts(a, p + 1, q, g, s)'
      BY <1>6, <2>5, <3>5 DEF Fronts
    <3>7. OnWire(a, p + 1)'
      <4> SUFFICES ASSUME NEW d \in ToolCall
                   PROVE  (/\ d <= a /\ d <= p + 1 => Paired(d)
                           /\ ~(d <= a /\ d <= p + 1) => announcedAs[d] = NoCall /\ resultAt[d] = NoId
                           /\ d <= a /\ ~(d <= p + 1) => Called(d)
                           /\ ~(d <= a) /\ d <= p + 1 => Asked(d)
                           /\ ~(d <= a) /\ ~(d <= p + 1) => Unseen(d))'
        BY DEF OnWire
      <4>1. CASE d = c
        <5>1. Unseen(d) /\ announcedAs[d] = NoCall /\ resultAt[d] = NoId
          BY <1>3, <2>1, <3>2, <4>1 DEF OnWire
        <5>2. Asked(d)'
          BY <2>3, <3>3, <4>1, <5>1 DEF Unseen, Asked, RuntimeId, ApprovalId
        <5> QED
          BY <2>1, <2>3, <3>1, <3>2, <4>1, <5>1, <5>2
      <4>2. CASE d # c
        <5>1. /\ RuntimeId(d) \in cards' <=> RuntimeId(d) \in cards
              /\ ApprovalId(d) \in cards' <=> ApprovalId(d) \in cards
          BY <2>3, <3>3, <4>2 DEF RuntimeId, ApprovalId
        <5>2. d <= p + 1 <=> d <= p
          BY <2>1, <4>2 DEF ToolCall
        <5> QED
          BY <1>3, <2>3, <3>3, <4>2, <5>1, <5>2 DEF OnWire, Paired, Unseen, Called, Asked, Gated
      <4> QED
        BY <4>1, <4>2
    <3> QED
      BY <2>1, <2>2, <2>4, <3>4, <3>6, <3>7 DEF CorrelationInv
  <2>7. CASE unclaimedCalls # <<>>
    <3>1. /\ unclaimedApprovals' = unclaimedApprovals
          /\ gateAt' = [gateAt EXCEPT ![c] = RuntimeId(Head(unclaimedCalls))]
          /\ unclaimedCalls' = Tail(unclaimedCalls)
      BY <1>13, <2>7 DEF ApprovalToolCallId, Claim
    <3>2. p < a /\ Head(unclaimedCalls) = c /\ Waits(unclaimedCalls', p + 1, a)
      BY <1>6, <2>1, <2>7, <3>1, WaitsTail
    <3>3. /\ RuntimeId(c) \in Id /\ unclaimedCalls' \in Seq(ToolCall)
          /\ gateAt'[c] = RuntimeId(c) /\ \A d \in ToolCall : d # c => gateAt'[d] = gateAt[d]
      BY <1>2, <1>6, <2>1, <2>7, <3>1, <3>2 DEF RuntimeId, Id, CorrelationTypeOK
    <3>4. CorrelationTypeOK'
      BY <1>1, <1>2, <1>4, <2>3, <3>1, <3>2, <3>3 DEF CorrelationTypeOK
    <3>5. Waits(unclaimedApprovals', a, p + 1)
      BY <1>6, <3>1, <3>2, NobodyWaits
    <3>6. Fronts(a, p + 1, q, g, s)'
      BY <1>6, <2>5, <3>2, <3>5 DEF Fronts
    <3>7. OnWire(a, p + 1)'
      <4> SUFFICES ASSUME NEW d \in ToolCall
                   PROVE  (/\ d <= a /\ d <= p + 1 => Paired(d)
                           /\ ~(d <= a /\ d <= p + 1) => announcedAs[d] = NoCall /\ resultAt[d] = NoId
                           /\ d <= a /\ ~(d <= p + 1) => Called(d)
                           /\ ~(d <= a) /\ d <= p + 1 => Asked(d)
                           /\ ~(d <= a) /\ ~(d <= p + 1) => Unseen(d))'
        BY DEF OnWire
      <4>1. CASE d = c
        <5>1. Called(d) /\ announcedAs[d] = NoCall /\ resultAt[d] = NoId
          BY <1>3, <2>1, <3>2, <4>1 DEF OnWire
        <5>2. Gated(d)'
          BY <2>3, <3>3, <4>1, <5>1 DEF Called, Gated, RuntimeId, ApprovalId
        <5> QED
          BY <2>1, <2>3, <3>2, <4>1, <5>1, <5>2 DEF Paired
      <4>2. CASE d # c
        <5>1. /\ RuntimeId(d) \in cards' <=> RuntimeId(d) \in cards
              /\ ApprovalId(d) \in cards' <=> ApprovalId(d) \in cards
          BY <2>3, <3>3, <4>2 DEF RuntimeId, ApprovalId
        <5>2. d <= p + 1 <=> d <= p
          BY <2>1, <4>2 DEF ToolCall
        <5> QED
          BY <1>3, <2>3, <3>3, <4>2, <5>1, <5>2 DEF OnWire, Paired, Unseen, Called, Asked, Gated
      <4> QED
        BY <4>1, <4>2
    <3> QED
      BY <2>1, <2>2, <2>4, <3>4, <3>6, <3>7 DEF CorrelationInv
  <2> QED
    BY <2>6, <2>7
<1>14. CASE e.kind = "completed" /\ ResultToolCallId(e.call)
  <2> DEFINE c == e.call
  <2>1. Ends(queue, c)
    BY <1>5, <1>14
  <2>2. c \in ToolCall /\ progress[c] = "settled" /\ resultAt[c] = NoId
    BY <1>2, <1>4, <2>1 DEF Results, Event
  <2>3. 1 \in DOMAIN queue /\ queue[1] = e /\ \A i \in DOMAIN queue : ~(i < 1)
    BY <1>1, <1>4, TailIs DEF e
  <2>4. q = s /\ a = q
    <3>1. \A i \in DOMAIN queue : queue[i].kind # "running"
      BY <1>6, <1>14, <2>3 DEF Orderly
    <3>2. q <= a
      BY <1>6, <3>1, ListsNone
    <3> QED
      BY <1>6, <1>14, <2>3, <3>2
  <2>5. c <= p
    <3>1. c <= g
      BY <1>3, <2>2 DEF Fronts
    <3>2. SUFFICES ASSUME ~(c <= p) PROVE FALSE
      OBVIOUS
    <3>3. c \in p + 1 .. g
      BY <1>6, <2>2, <3>1, <3>2 DEF ToolCall
    <3>4. PICK i \in DOMAIN queue : queue[i].kind = "approval" /\ queue[i].call = c
      BY <1>6, <3>3 DEF Lists
    <3> QED
      BY <1>6, <1>14, <2>3, <3>4 DEF Orderly
  <2>6. p <= a /\ c <= a
    BY <1>6, <2>2, <2>4, <2>5 DEF ToolCall
  <2>7. unclaimedApprovals = <<>>
    BY <1>6, <2>6, WaitsTail
  <2>8. ~Queued(c, unclaimedCalls) /\ Forget(unclaimedCalls, c) = unclaimedCalls
    BY <1>6, <2>2, <2>5, ForgetIsNoop
  <2>9. /\ resultAt' = [resultAt EXCEPT ![c] = ResultId(c)]
        /\ announcedAs' = [announcedAs EXCEPT ![c] = NoCall]
        /\ unclaimedCalls' = unclaimedCalls /\ unclaimedApprovals' = unclaimedApprovals
        /\ cards' = cards /\ gateAt' = gateAt
    BY <1>14, <2>7, <2>8 DEF ResultToolCallId, Dropped
  <2>10. Paired(c)
    BY <1>3, <2>2, <2>5, <2>6 DEF OnWire
  <2>11. ResultId(c) = gateAt[c] /\ gateAt[c] \in Id /\ (Gated(c) \/ Asked(c))
    <3>1. RuntimeId(c) \in Id /\ ApprovalId(c) \in Id /\ RuntimeId(c) # NoId /\ ApprovalId(c) # NoId
      BY <2>2 DEF RuntimeId, ApprovalId, Id, NoId
    <3>2. CASE Gated(c) /\ announcedAs[c] = NoCall
      BY <3>1, <3>2 DEF Gated, ResultId
    <3>3. CASE Asked(c) /\ announcedAs[c] = c
      <4>1. c # NoCall
        BY <2>2 DEF ToolCall, NoCall
      <4> QED
        BY <3>1, <3>3, <4>1 DEF Asked, ResultId
    <3>4. CASE resultAt[c] = gateAt[c] /\ (Gated(c) \/ Asked(c))
      BY <2>2, <3>1, <3>4 DEF Gated, Asked
    <3> QED
      BY <2>10, <3>2, <3>3, <3>4 DEF Paired
  <2> HIDE DEF c
  <2>12. /\ resultAt'[c] = gateAt[c] /\ announcedAs'[c] = NoCall
         /\ \A d \in ToolCall : d # c => resultAt'[d] = resultAt[d] /\ announcedAs'[d] = announcedAs[d]
    BY <1>2, <2>2, <2>9, <2>11 DEF CorrelationTypeOK
  <2>13. CorrelationTypeOK'
    BY <1>1, <1>2, <1>4, <2>2, <2>9, <2>11 DEF CorrelationTypeOK, NoCall
  <2>14. Results'
    <3>1. ~Ends(timeline, c) /\ ~Ends(held, c) /\ ~Ends(queue', c)
      BY <1>2, <1>5, <1>14, <2>1, <2>2 DEF Results, c
    <3>2. \A d : Ends(queue', d) => Ends(queue, d)
      BY <1>5
    <3> QED
      BY <1>1, <1>2, <1>5, <2>2, <2>12, <3>1, <3>2 DEF Results
  <2>15. Fronts(a, p, q, g, s)'
    BY <1>1, <1>3, <2>9 DEF Fronts
  <2>16. Lines(a, p, q, g, s)'
    BY <1>7, <1>9, <1>14
  <2>17. OnWire(a, p)'
    <3> SUFFICES ASSUME NEW d \in ToolCall
                 PROVE  (/\ d <= a /\ d <= p => Paired(d)
                         /\ ~(d <= a /\ d <= p) => announcedAs[d] = NoCall /\ resultAt[d] = NoId
                         /\ d <= a /\ ~(d <= p) => Called(d)
                         /\ ~(d <= a) /\ d <= p => Asked(d)
                         /\ ~(d <= a) /\ ~(d <= p) => Unseen(d))'
      BY DEF OnWire
    <3>1. CASE d = c
      <4>1. Paired(d)'
        BY <2>9, <2>11, <2>12, <3>1 DEF Paired, Gated, Asked
      <4> QED
        BY <2>5, <2>6, <3>1, <4>1
    <3>2. CASE d # c
      BY <1>3, <2>9, <2>12, <3>2 DEF OnWire, Paired, Unseen, Called, Asked, Gated
    <3> QED
      BY <3>1, <3>2
  <2> QED
    BY <2>13, <2>14, <2>15, <2>16, <2>17 DEF CorrelationInv
<1>15. CASE e.kind = "other" /\ UNCHANGED <<correlation, wireVars>>
  <2>1. UNCHANGED <<unclaimedCalls, unclaimedApprovals, announcedAs, cards, gateAt, resultAt>>
    BY <1>15 DEF correlation, wireVars
  <2>2. CorrelationTypeOK'
    BY <1>1, <1>2, <1>4, <2>1 DEF CorrelationTypeOK
  <2>3. Results'
    BY <1>1, <1>2, <1>5, <1>15, <2>1 DEF Results
  <2>4. Fronts(a, p, q, g, s)'
    BY <1>1, <1>3, <2>1 DEF Fronts
  <2>5. Lines(a, p, q, g, s)'
    BY <1>7, <1>9, <1>15
  <2>6. OnWire(a, p)'
    BY <1>3, <2>1 DEF OnWire, Paired, Unseen, Called, Asked, Gated
  <2> QED
    BY <2>2, <2>3, <2>4, <2>5, <2>6 DEF CorrelationInv
<1> QED
  BY <1>1, <1>12, <1>13, <1>14, <1>15

LEMMA CorrelationStep ==
  ASSUME early, HooksInOrder, CorrelationInv, [CorrelationNext]_correlationVars
  PROVE  CorrelationInv'
<1>1. ASSUME NEW first \in ToolCall, NEW last \in ToolCall, StartRound(first, last)
      PROVE  CorrelationInv'
  BY <1>1, StartRoundKeeps
<1>2. ASSUME NEW c \in ToolCall, Gate(c) \/ Allow(c) \/ Refuse(c) \/ Complete(c)
      PROVE  CorrelationInv'
  BY <1>2, GateKeeps, AllowKeeps, EndKeeps
<1>3. CASE Other \/ Pump \/ Present
  BY <1>3, OtherKeeps, PumpKeeps, PresentKeeps
<1>4. CASE UNCHANGED correlationVars
  <2>1. UNCHANGED <<early, progress, refused, others, timeline, held, queue, unclaimedCalls, unclaimedApprovals,
                    announcedAs, cards, gateAt, resultAt>>
    BY <1>4 DEF correlationVars, correlation, wireVars
  <2>2. PICK a \in 0 .. NCalls, p \in 0 .. NCalls, q \in 0 .. NCalls, g \in 0 .. NCalls, s \in 0 .. NCalls :
          Fronts(a, p, q, g, s) /\ Lines(a, p, q, g, s) /\ OnWire(a, p)
    BY DEF CorrelationInv
  <2>3. Fronts(a, p, q, g, s)' /\ Lines(a, p, q, g, s)'
    BY <2>1, <2>2 DEF Fronts, Lines
  <2>4. OnWire(a, p)'
    BY <2>1, <2>2 DEF OnWire, Paired, Unseen, Called, Asked, Gated
  <2>5. CorrelationTypeOK' /\ Results'
    BY <2>1 DEF CorrelationInv, CorrelationTypeOK, Results
  <2> QED
    BY <2>3, <2>4, <2>5 DEF CorrelationInv
<1> QED
  BY <1>1, <1>2, <1>3, <1>4 DEF CorrelationNext

-----------------------------------------------------------------------------
(* The other reading of the SDK: a call is announced when its hook let it  *)
(* through.  No call waits for an approval then, and which approval a call *)
(* takes is open; what keeps is that every approval is counted once.  The  *)
(* events of one call keep their order in and between the three sequences; *)
(* each that is due is in one of them until it is presented; an approval   *)
(* is queued, stands for one call, or is the id of one result.             *)

Has(q, kind, c) == \E i \in DOMAIN q : q[i].kind = kind /\ q[i].call = c
UnderWay(kind, c) == Has(queue, kind, c) \/ Has(held, kind, c) \/ Has(timeline, kind, c)

Rank(kind) == IF kind = "approval" THEN 1 ELSE IF kind = "running" THEN 2 ELSE 3
OfCall == {"approval", "running", "completed"}

(* Of one call, what comes first in q is shown first.                      *)
Flow(q) ==
  \A i, j \in DOMAIN q :
    i < j /\ q[i].kind \in OfCall /\ q[j].kind \in OfCall /\ q[i].call = q[j].call
      => Rank(q[i].kind) < Rank(q[j].kind)

(* Of one call, what is in p is shown before what is in q.                 *)
Cross(p, q) ==
  \A c \in ToolCall, k, l \in OfCall : Has(p, k, c) /\ Has(q, l, c) => Rank(k) < Rank(l)

Named(q) == \A i \in DOMAIN q : q[i].kind \in OfCall => q[i].call \in ToolCall

Taken(c) == announcedAs[c] # NoCall \/ resultAt[c] # NoId

Pipes ==
  /\ Flow(queue) /\ Flow(held) /\ Flow(timeline)
  /\ Cross(queue, held) /\ Cross(queue, timeline) /\ Cross(held, timeline)
  /\ Named(queue) /\ Named(held) /\ Named(timeline)
  /\ \A i \in DOMAIN held : held[i].kind = "completed"

(* What of call c is under way, and what of it has been presented.         *)
Stage(c) ==
  /\ UnderWay("approval", c) <=> progress[c] \notin {"idle", "started"} /\ gateAt[c] = NoId
  /\ UnderWay("running", c) <=>
       /\ progress[c] \in {"running", "settled"} /\ c \notin refused /\ ~Taken(c)
  /\ UnderWay("completed", c) <=> progress[c] = "settled" /\ resultAt[c] = NoId
  /\ c \in refused => progress[c] = "settled" /\ announcedAs[c] = NoCall
  /\ gateAt[c] # NoId => progress[c] \notin {"idle", "started"}
  /\ announcedAs[c] # NoCall => resultAt[c] = NoId /\ progress[c] \in {"running", "settled"}
  /\ resultAt[c] # NoId => progress[c] = "settled"
  /\ Taken(c) => gateAt[c] # NoId

(* The approval of d stands for call c.                                    *)
Bears(c, d) == announcedAs[c] = d \/ resultAt[c] = ApprovalId(d)

(* Approvals on the wire that no call has taken from the queue.            *)
Owed == {c \in ToolCall : gateAt[c] # NoId /\ ~Taken(c)}

Approvals ==
  /\ unclaimedCalls = <<>>
  /\ Len(unclaimedApprovals) = Cardinality(Owed)
  /\ \A i, j \in DOMAIN unclaimedApprovals :
       unclaimedApprovals[i] = unclaimedApprovals[j] => i = j
  /\ \A d \in ToolCall : Queued(d, unclaimedApprovals) => gateAt[d] # NoId
  /\ \A c, d \in ToolCall : Bears(c, d) => gateAt[d] # NoId /\ ~Queued(d, unclaimedApprovals)
  /\ \A c, b, d \in ToolCall : Bears(c, d) /\ Bears(b, d) => c = b

Wire ==
  /\ \A c \in ToolCall : gateAt[c] \in {NoId, ApprovalId(c)}
  /\ \A x \in cards : \E d \in ToolCall : x = ApprovalId(d)
  /\ \A d \in ToolCall : ApprovalId(d) \in cards <=> gateAt[d] # NoId
  /\ \A c \in ToolCall : resultAt[c] # NoId =>
       IF c \in refused THEN resultAt[c] = RuntimeId(c)
       ELSE \E d \in ToolCall : resultAt[c] = ApprovalId(d)

(* A round starts as one. *)
Rounds ==
  \A c, d \in ToolCall : RoundOf[c] = RoundOf[d] => (progress[c] = "idle" <=> progress[d] = "idle")

LateInv ==
  /\ CorrelationTypeOK /\ Pipes /\ Approvals /\ Wire /\ Rounds
  /\ \A c \in ToolCall : Stage(c)

LEMMA HasAppend ==
  ASSUME NEW q \in Seq(Event), NEW e \in Event
  PROVE  \A k, c : Has(Append(q, e), k, c) <=> Has(q, k, c) \/ (e.kind = k /\ e.call = c)
<1> DEFINE r == Append(q, e)
<1>1. /\ DOMAIN r = 1 .. Len(q) + 1 /\ DOMAIN q = 1 .. Len(q) /\ Len(q) \in Nat
      /\ \A i \in 1 .. Len(q) : r[i] = q[i]
      /\ r[Len(q) + 1] = e
  BY AppendIs
<1> HIDE DEF r
<1>2. \A i \in DOMAIN r : (i \in DOMAIN q /\ r[i] = q[i]) \/ (i = Len(q) + 1 /\ r[i] = e)
  BY <1>1
<1>3. Len(q) + 1 \in DOMAIN r /\ \A i \in DOMAIN q : i \in DOMAIN r /\ r[i] = q[i]
  BY <1>1
<1>4. \A k, c : Has(r, k, c) <=> Has(q, k, c) \/ (e.kind = k /\ e.call = c)
  BY <1>1, <1>2, <1>3 DEF Has
<1> QED
  BY <1>4 DEF r

LEMMA HasTail ==
  ASSUME NEW q \in Seq(Event), q # <<>>
  PROVE  \A k, c : Has(q, k, c) <=> Has(Tail(q), k, c) \/ (Head(q).kind = k /\ Head(q).call = c)
<1> DEFINE r == Tail(q)
<1>1. /\ Head(q) = q[1] /\ DOMAIN r = 1 .. Len(q) - 1 /\ DOMAIN q = 1 .. Len(q)
      /\ Len(q) \in Nat /\ 1 <= Len(q)
      /\ \A i \in 1 .. Len(q) - 1 : r[i] = q[i + 1]
  BY TailIs
<1> HIDE DEF r
<1>2. /\ \A i \in DOMAIN r : i + 1 \in DOMAIN q /\ r[i] = q[i + 1]
      /\ \A i \in DOMAIN q : i = 1 \/ (i - 1 \in DOMAIN r /\ q[i] = r[i - 1])
      /\ 1 \in DOMAIN q
  BY <1>1
<1>3. \A k, c : Has(q, k, c) <=> Has(r, k, c) \/ (q[1].kind = k /\ q[1].call = c)
  BY <1>2 DEF Has
<1> QED
  BY <1>1, <1>3 DEF r

LEMMA HasConcat ==
  ASSUME NEW q \in Seq(Event), NEW r \in Seq(Event)
  PROVE  \A k, c : Has(q \o r, k, c) <=> Has(q, k, c) \/ Has(r, k, c)
<1> DEFINE u == q \o r
<1>1. /\ DOMAIN u = 1 .. Len(q) + Len(r)
      /\ DOMAIN q = 1 .. Len(q) /\ Len(q) \in Nat
      /\ DOMAIN r = 1 .. Len(r) /\ Len(r) \in Nat
      /\ \A i \in 1 .. Len(q) : u[i] = q[i]
      /\ \A i \in 1 .. Len(r) : u[Len(q) + i] = r[i]
  BY ConcatIs
<1> HIDE DEF u
<1>2. /\ \A i \in DOMAIN u : \/ i \in DOMAIN q /\ u[i] = q[i]
                             \/ i - Len(q) \in DOMAIN r /\ u[i] = r[i - Len(q)]
      /\ \A i \in DOMAIN q : i \in DOMAIN u /\ u[i] = q[i]
      /\ \A i \in DOMAIN r : Len(q) + i \in DOMAIN u /\ u[Len(q) + i] = r[i]
  BY <1>1
<1>3. \A k, c : Has(u, k, c) <=> Has(q, k, c) \/ Has(r, k, c)
  BY <1>2 DEF Has
<1> QED
  BY <1>3 DEF u

LEMMA FlowAppend ==
  ASSUME NEW q \in Seq(Event), NEW e \in Event, Flow(q),
         e.kind \in OfCall => \A k \in OfCall : Has(q, k, e.call) => Rank(k) < Rank(e.kind)
  PROVE  Flow(Append(q, e))
<1> DEFINE r == Append(q, e)
<1>1. /\ DOMAIN r = 1 .. Len(q) + 1 /\ DOMAIN q = 1 .. Len(q) /\ Len(q) \in Nat
      /\ \A i \in 1 .. Len(q) : r[i] = q[i]
      /\ r[Len(q) + 1] = e
  BY AppendIs
<1> HIDE DEF r
<1>2. Flow(r)
  <2> SUFFICES ASSUME NEW i \in DOMAIN r, NEW j \in DOMAIN r, i < j,
                      r[i].kind \in OfCall, r[j].kind \in OfCall, r[i].call = r[j].call
               PROVE  Rank(r[i].kind) < Rank(r[j].kind)
    BY DEF Flow
  <2>1. i \in DOMAIN q /\ r[i] = q[i]
    BY <1>1
  <2>2. CASE j \in DOMAIN q /\ r[j] = q[j]
    BY <2>1, <2>2 DEF Flow
  <2>3. CASE r[j] = e
    <3>1. Has(q, q[i].kind, e.call)
      BY <2>1, <2>3 DEF Has
    <3> QED
      BY <2>1, <2>3, <3>1
  <2> QED
    BY <1>1, <2>2, <2>3
<1> QED
  BY <1>2 DEF r

LEMMA FlowTail ==
  ASSUME NEW q \in Seq(Event), q # <<>>, Flow(q)
  PROVE  /\ Flow(Tail(q))
         /\ Head(q).kind \in OfCall =>
              \A k \in OfCall : Has(Tail(q), k, Head(q).call) => Rank(Head(q).kind) < Rank(k)
<1> DEFINE r == Tail(q)
<1>1. /\ Head(q) = q[1] /\ \A i \in DOMAIN r : i \in Int /\ i + 1 \in DOMAIN q /\ r[i] = q[i + 1]
      /\ 1 \in DOMAIN q /\ \A i \in DOMAIN r : 1 < i + 1
  BY TailIs
<1> HIDE DEF r
<1>2. Flow(r)
  <2> SUFFICES ASSUME NEW i \in DOMAIN r, NEW j \in DOMAIN r, i < j,
                      r[i].kind \in OfCall, r[j].kind \in OfCall, r[i].call = r[j].call
               PROVE  Rank(r[i].kind) < Rank(r[j].kind)
    BY DEF Flow
  <2>1. i + 1 < j + 1
    BY <1>1
  <2> QED
    BY <1>1, <2>1 DEF Flow
<1>3. ASSUME q[1].kind \in OfCall, NEW k \in OfCall, Has(r, k, q[1].call)
      PROVE  Rank(q[1].kind) < Rank(k)
  <2>1. PICK i \in DOMAIN r : r[i].kind = k /\ r[i].call = q[1].call
    BY <1>3 DEF Has
  <2> QED
    BY <1>1, <1>3, <2>1 DEF Flow
<1> QED
  BY <1>1, <1>2, <1>3 DEF r

LEMMA FlowConcat ==
  ASSUME NEW q \in Seq(Event), NEW r \in Seq(Event), Flow(q), Flow(r), Cross(q, r), Named(q)
  PROVE  Flow(q \o r)
<1> DEFINE u == q \o r
<1>1. /\ DOMAIN u = 1 .. Len(q) + Len(r)
      /\ DOMAIN q = 1 .. Len(q) /\ Len(q) \in Nat
      /\ DOMAIN r = 1 .. Len(r) /\ Len(r) \in Nat
      /\ \A i \in 1 .. Len(q) : u[i] = q[i]
      /\ \A i \in 1 .. Len(r) : u[Len(q) + i] = r[i]
  BY ConcatIs
<1> HIDE DEF u
<1>2. \A i \in DOMAIN u : \/ i \in DOMAIN q /\ u[i] = q[i]
                          \/ i \notin DOMAIN q /\ i - Len(q) \in DOMAIN r /\ u[i] = r[i - Len(q)]
  BY <1>1
<1>3. Flow(u)
  <2> SUFFICES ASSUME NEW i \in DOMAIN u, NEW j \in DOMAIN u, i < j,
                      u[i].kind \in OfCall, u[j].kind \in OfCall, u[i].call = u[j].call
               PROVE  Rank(u[i].kind) < Rank(u[j].kind)
    BY DEF Flow
  <2>1. CASE i \in DOMAIN q /\ j \in DOMAIN q
    BY <1>2, <2>1 DEF Flow
  <2>2. CASE i \in DOMAIN q /\ j \notin DOMAIN q
    <3>1. Has(q, u[i].kind, u[i].call) /\ Has(r, u[j].kind, u[j].call)
      BY <1>2, <2>2 DEF Has
    <3>2. u[i].call \in ToolCall
      BY <1>2, <2>2 DEF Named
    <3> QED
      BY <3>1, <3>2 DEF Cross
  <2>3. CASE i \notin DOMAIN q
    <3>1. j \notin DOMAIN q
      BY <1>1, <2>3
    <3>2. i - Len(q) < j - Len(q)
      BY <1>1
    <3> QED
      BY <1>2, <2>3, <3>1, <3>2 DEF Flow
  <2> QED
    BY <2>1, <2>2, <2>3
<1> QED
  BY <1>3 DEF u

LEMMA NamedAppend ==
  ASSUME NEW q \in Seq(Event), NEW e \in Event, Named(q), e.kind \in OfCall => e.call \in ToolCall
  PROVE  Named(Append(q, e))
<1> DEFINE r == Append(q, e)
<1>1. \A i \in DOMAIN r : (i \in DOMAIN q /\ r[i] = q[i]) \/ r[i] = e
  BY AppendIs
<1> HIDE DEF r
<1>2. Named(r)
  BY <1>1 DEF Named
<1> QED
  BY <1>2 DEF r

LEMMA NamedTail ==
  ASSUME NEW q \in Seq(Event), q # <<>>, Named(q)
  PROVE  /\ Named(Tail(q))
         /\ Head(q).kind \in OfCall => Head(q).call \in ToolCall
<1> DEFINE r == Tail(q)
<1>1. /\ \A i \in DOMAIN r : i + 1 \in DOMAIN q /\ r[i] = q[i + 1]
      /\ 1 \in DOMAIN q /\ Head(q) = q[1]
  BY TailIs
<1> HIDE DEF r
<1>2. Named(r)
  BY <1>1 DEF Named
<1> QED
  BY <1>1, <1>2 DEF r, Named

LEMMA NamedConcat ==
  ASSUME NEW q \in Seq(Event), NEW r \in Seq(Event), Named(q), Named(r)
  PROVE  Named(q \o r)
<1> DEFINE u == q \o r
<1>1. \A i \in DOMAIN u : \/ i \in DOMAIN q /\ u[i] = q[i]
                          \/ i - Len(q) \in DOMAIN r /\ u[i] = r[i - Len(q)]
  BY ConcatIs
<1> HIDE DEF u
<1>2. Named(u)
  BY <1>1 DEF Named
<1> QED
  BY <1>2 DEF u

LEMMA LateStart == CorrelationInit => LateInv
<1> SUFFICES ASSUME CorrelationInit PROVE LateInv
  OBVIOUS
<1>1. CorrelationTypeOK
  BY CorrelationAssumption DEF CorrelationInit, CorrelationTypeOK, Id, NoId
<1>2. Pipes
  BY DEF CorrelationInit, Pipes, Flow, Cross, Named, Has
<1>3. Approvals
  <2>1. Owed = {}
    BY DEF CorrelationInit, Owed
  <2>2. Cardinality(Owed) = 0
    BY <2>1, FS_EmptySet
  <2>3. ASSUME NEW c \in ToolCall, NEW d \in ToolCall PROVE ~Bears(c, d)
    BY DEF CorrelationInit, Bears, ToolCall, NoCall, NoId, ApprovalId
  <2> QED
    BY <2>2, <2>3 DEF CorrelationInit, Approvals, Queued
<1>4. Wire
  BY DEF CorrelationInit, Wire
<1>5. \A c \in ToolCall : Stage(c)
  BY DEF CorrelationInit, Stage, UnderWay, Has, Taken
<1>6. Rounds
  BY DEF CorrelationInit, Rounds
<1> QED
  BY <1>1, <1>2, <1>3, <1>4, <1>5, <1>6 DEF LateInv

LEMMA IdsAre ==
  /\ \A c, d \in ToolCall : ApprovalId(c) = ApprovalId(d) => c = d
  /\ \A c, d \in ToolCall : RuntimeId(c) # ApprovalId(d)
  /\ \A c \in ToolCall : /\ RuntimeId(c) \in Id /\ ApprovalId(c) \in Id
                         /\ RuntimeId(c) # NoId /\ ApprovalId(c) # NoId
  /\ NoCall \notin ToolCall
  /\ \A c \in ToolCall : RuntimeId(c).of = c /\ ApprovalId(c).of = c
BY DEF RuntimeId, ApprovalId, Id, NoId, NoCall, ToolCall

(* A step that tells the presenter nothing.                                *)
LEMMA NothingPresented ==
  ASSUME LateInv, UNCHANGED <<unclaimedCalls, unclaimedApprovals, announcedAs, cards, gateAt, resultAt>>,
         \A d \in ToolCall : resultAt[d] # NoId => (d \in refused' <=> d \in refused)
  PROVE  /\ Approvals' /\ Wire'
         /\ \A d \in ToolCall : Taken(d)' <=> Taken(d)
<1>1. Owed' = Owed
  BY DEF Owed, Taken
<1>2. Approvals'
  BY <1>1 DEF LateInv, Approvals, Bears, Queued
<1>3. Wire'
  BY DEF LateInv, Wire
<1>4. \A d \in ToolCall : Taken(d)' <=> Taken(d)
  BY DEF Taken
<1> QED
  BY <1>2, <1>3, <1>4

(* The SDK adds an event of a call to the timeline.                        *)
LEMMA Emitted ==
  ASSUME CorrelationTypeOK, Pipes, NEW k \in OfCall, NEW c \in ToolCall,
         \A l \in OfCall : UnderWay(l, c) => Rank(l) < Rank(k),
         timeline' = Append(timeline, [kind |-> k, call |-> c]),
         UNCHANGED <<queue, held>>
  PROVE  /\ timeline' \in Seq(Event) /\ Pipes'
         /\ \A l, d : UnderWay(l, d)' <=> UnderWay(l, d) \/ (l = k /\ d = c)
<1> DEFINE e == [kind |-> k, call |-> c]
<1>1. e \in Event /\ e.kind = k /\ e.call = c /\ timeline \in Seq(Event)
  BY DEF CorrelationTypeOK, Event, OfCall
<1> HIDE DEF e
<1>2. timeline' = Append(timeline, e)
  BY DEF e
<1>3. timeline' \in Seq(Event)
  BY <1>1, <1>2, AppendIs
<1>4. \A l, d : Has(timeline', l, d) <=> Has(timeline, l, d) \/ (k = l /\ c = d)
  BY <1>1, <1>2, HasAppend
<1>5. Flow(timeline')
  BY <1>1, <1>2, FlowAppend DEF Pipes, UnderWay
<1>6. Named(timeline')
  BY <1>1, <1>2, NamedAppend DEF Pipes
<1>7. Cross(queue, timeline') /\ Cross(held, timeline')
  BY <1>4 DEF Pipes, Cross, UnderWay
<1>8. Pipes'
  BY <1>5, <1>6, <1>7 DEF Pipes
<1>9. \A l, d : UnderWay(l, d)' <=> UnderWay(l, d) \/ (l = k /\ d = c)
  BY <1>4 DEF UnderWay
<1> QED
  BY <1>3, <1>8, <1>9

LEMMA LateStartRoundKeeps ==
  ASSUME ~early, LateInv, NEW first \in ToolCall, NEW last \in ToolCall, StartRound(first, last)
  PROVE  LateInv'
<1>1. /\ {c \in ToolCall : RoundOf[c] = RoundOf[first]} = first .. last
      /\ progress[first] = "idle"
      /\ progress' = [c \in ToolCall |-> IF c \in first .. last THEN "started" ELSE progress[c]]
      /\ UNCHANGED <<early, refused, others, timeline, held, queue, unclaimedCalls, unclaimedApprovals,
                     announcedAs, cards, gateAt, resultAt>>
  BY DEF StartRound, correlation, wireVars
<1>2. ASSUME NEW c \in ToolCall
      PROVE  IF RoundOf[c] = RoundOf[first] THEN progress[c] = "idle" /\ progress'[c] = "started"
             ELSE progress'[c] = progress[c]
  BY <1>1 DEF LateInv, Rounds
<1>3. CorrelationTypeOK'
  BY <1>1 DEF LateInv, CorrelationTypeOK
<1>4. Pipes' /\ Rounds'
  BY <1>1, <1>2 DEF LateInv, Pipes, Rounds
<1>5. Approvals' /\ Wire' /\ \A d \in ToolCall : Taken(d)' <=> Taken(d)
  BY <1>1, NothingPresented
<1>6. \A l, d : UnderWay(l, d)' <=> UnderWay(l, d)
  BY <1>1 DEF UnderWay
<1>7. ASSUME NEW d \in ToolCall PROVE Stage(d)'
  BY <1>1, <1>2, <1>5, <1>6 DEF LateInv, Stage
<1> QED
  BY <1>3, <1>4, <1>5, <1>7 DEF LateInv

LEMMA LateGateKeeps ==
  ASSUME ~early, LateInv, NEW c \in ToolCall, Gate(c)
  PROVE  LateInv'
<1> DEFINE e == [kind |-> "approval", call |-> c]
<1>1. /\ progress[c] = "started" /\ progress' = [progress EXCEPT ![c] = "gated"]
      /\ queue' = Append(queue, e)
      /\ UNCHANGED <<early, refused, others, timeline, held, unclaimedCalls, unclaimedApprovals,
                     announcedAs, cards, gateAt, resultAt>>
  BY DEF Gate, correlation, wireVars
<1>2. /\ CorrelationTypeOK /\ Pipes
      /\ \A l \in OfCall : ~UnderWay(l, c)
      /\ gateAt[c] = NoId
  BY <1>1 DEF LateInv, Stage, OfCall
<1>3. /\ e \in Event /\ e.kind = "approval" /\ e.call = c /\ queue \in Seq(Event)
      /\ e.kind \in OfCall
  BY <1>2 DEF CorrelationTypeOK, Event, OfCall
<1> HIDE DEF e
<1>4. CorrelationTypeOK'
  BY <1>1, <1>2, <1>3, AppendIs DEF CorrelationTypeOK
<1>5. \A l, d : Has(queue', l, d) <=> Has(queue, l, d) \/ (l = "approval" /\ d = c)
  BY <1>1, <1>3, HasAppend
<1>6. Pipes'
  <2>1. Flow(queue') /\ Named(queue')
    BY <1>1, <1>2, <1>3, FlowAppend, NamedAppend DEF Pipes, UnderWay
  <2>2. Cross(queue', held) /\ Cross(queue', timeline)
    BY <1>2, <1>5 DEF Pipes, Cross, UnderWay
  <2> QED
    BY <1>1, <1>2, <2>1, <2>2 DEF Pipes
<1>7. \A l, d : UnderWay(l, d)' <=> UnderWay(l, d) \/ (l = "approval" /\ d = c)
  BY <1>1, <1>5 DEF UnderWay
<1>8. Approvals' /\ Wire' /\ \A d \in ToolCall : Taken(d)' <=> Taken(d)
  BY <1>1, NothingPresented
<1>9. progress'[c] = "gated" /\ \A d \in ToolCall : d # c => progress'[d] = progress[d]
  BY <1>1, <1>2 DEF CorrelationTypeOK
<1>10. Rounds'
  BY <1>1, <1>9 DEF LateInv, Rounds
<1>11. ASSUME NEW d \in ToolCall PROVE Stage(d)'
  BY <1>1, <1>2, <1>7, <1>8, <1>9 DEF LateInv, Stage, OfCall
<1> QED
  BY <1>4, <1>6, <1>8, <1>10, <1>11 DEF LateInv

LEMMA LateAllowKeeps ==
  ASSUME ~early, LateInv, NEW c \in ToolCall, Allow(c)
  PROVE  LateInv'
<1>1. /\ progress[c] = "gated" /\ progress' = [progress EXCEPT ![c] = "running"]
      /\ timeline' = Append(timeline, [kind |-> "running", call |-> c])
      /\ UNCHANGED <<early, refused, others, queue, held, unclaimedCalls, unclaimedApprovals,
                     announcedAs, cards, gateAt, resultAt>>
  BY DEF Allow, correlation, wireVars
<1>2. /\ CorrelationTypeOK /\ Pipes /\ Stage(c)
      /\ ~UnderWay("running", c) /\ ~UnderWay("completed", c)
  BY <1>1 DEF LateInv, Stage
<1>3. /\ timeline' \in Seq(Event) /\ Pipes'
      /\ \A l, d : UnderWay(l, d)' <=> UnderWay(l, d) \/ (l = "running" /\ d = c)
  <2>1. \A l \in OfCall : UnderWay(l, c) => Rank(l) < Rank("running")
    BY <1>2 DEF OfCall, Rank
  <2>2. "running" \in OfCall
    BY DEF OfCall
  <2> QED
    BY <1>1, <1>2, <2>1, <2>2, Emitted
<1>4. CorrelationTypeOK'
  BY <1>1, <1>2, <1>3 DEF CorrelationTypeOK
<1>5. Approvals' /\ Wire' /\ \A d \in ToolCall : Taken(d)' <=> Taken(d)
  BY <1>1, NothingPresented
<1>6. progress'[c] = "running" /\ \A d \in ToolCall : d # c => progress'[d] = progress[d]
  BY <1>1, <1>2 DEF CorrelationTypeOK
<1>7. Rounds'
  BY <1>1, <1>6 DEF LateInv, Rounds
<1>8. ASSUME NEW d \in ToolCall PROVE Stage(d)'
  <2>1. CASE d = c
    BY <1>1, <1>2, <1>3, <1>5, <1>6, <2>1 DEF Stage, Taken
  <2>2. CASE d # c
    BY <1>1, <1>3, <1>5, <1>6, <2>2 DEF LateInv, Stage
  <2> QED
    BY <2>1, <2>2
<1> QED
  BY <1>3, <1>4, <1>5, <1>7, <1>8 DEF LateInv

LEMMA LateEndKeeps ==
  ASSUME ~early, LateInv, NEW c \in ToolCall, Refuse(c) \/ Complete(c)
  PROVE  LateInv'
<1>1. /\ \/ progress[c] = "gated" /\ refused' = refused \cup {c}
         \/ progress[c] = "running" /\ refused' = refused
      /\ progress' = [progress EXCEPT ![c] = "settled"]
      /\ timeline' = Append(timeline, [kind |-> "completed", call |-> c])
      /\ UNCHANGED <<early, others, queue, held, unclaimedCalls, unclaimedApprovals,
                     announcedAs, cards, gateAt, resultAt>>
  BY DEF Refuse, Complete, correlation, wireVars
<1>2. /\ CorrelationTypeOK /\ Pipes /\ Stage(c)
      /\ ~UnderWay("completed", c) /\ resultAt[c] = NoId /\ c \notin refused
  BY <1>1 DEF LateInv, Stage
<1>3. /\ timeline' \in Seq(Event) /\ Pipes'
      /\ \A l, d : UnderWay(l, d)' <=> UnderWay(l, d) \/ (l = "completed" /\ d = c)
  <2>1. \A l \in OfCall : UnderWay(l, c) => Rank(l) < Rank("completed")
    BY <1>2 DEF OfCall, Rank
  <2>2. "completed" \in OfCall
    BY DEF OfCall
  <2> QED
    BY <1>1, <1>2, <2>1, <2>2, Emitted
<1>4. CorrelationTypeOK'
  BY <1>1, <1>2, <1>3 DEF CorrelationTypeOK
<1>5. Approvals' /\ Wire' /\ \A d \in ToolCall : Taken(d)' <=> Taken(d)
  BY <1>1, <1>2, NothingPresented
<1>6. progress'[c] = "settled" /\ \A d \in ToolCall : d # c => progress'[d] = progress[d]
  BY <1>1, <1>2 DEF CorrelationTypeOK
<1>7. Rounds'
  BY <1>1, <1>6 DEF LateInv, Rounds
<1>8. ASSUME NEW d \in ToolCall PROVE Stage(d)'
  <2>1. CASE d = c
    BY <1>1, <1>2, <1>3, <1>5, <1>6, <2>1 DEF Stage, Taken
  <2>2. CASE d # c
    BY <1>1, <1>3, <1>5, <1>6, <2>2 DEF LateInv, Stage
  <2> QED
    BY <2>1, <2>2
<1> QED
  BY <1>3, <1>4, <1>5, <1>7, <1>8 DEF LateInv

LEMMA LateOtherKeeps == ASSUME LateInv, Other PROVE LateInv'
<1> DEFINE e == [kind |-> "other", call |-> NoCall]
<1>1. /\ others < MaxOthers /\ others' = others + 1
      /\ timeline' = Append(timeline, e)
      /\ UNCHANGED <<early, progress, refused, queue, held, unclaimedCalls, unclaimedApprovals,
                     announcedAs, cards, gateAt, resultAt>>
  BY DEF Other, correlation, wireVars
<1>2. /\ e \in Event /\ e.kind = "other" /\ timeline \in Seq(Event) /\ e.kind \notin OfCall
      /\ CorrelationTypeOK /\ Pipes
  BY DEF LateInv, CorrelationTypeOK, Event, OfCall
<1> HIDE DEF e
<1>3. CorrelationTypeOK'
  BY <1>1, <1>2, AppendIs, CorrelationAssumption DEF CorrelationTypeOK
<1>4. \A l \in OfCall, d \in ToolCall : Has(timeline', l, d) <=> Has(timeline, l, d)
  BY <1>1, <1>2, HasAppend
<1>5. Pipes'
  <2>1. Flow(timeline') /\ Named(timeline')
    BY <1>1, <1>2, FlowAppend, NamedAppend DEF Pipes
  <2>2. Cross(queue, timeline') /\ Cross(held, timeline')
    BY <1>2, <1>4 DEF Pipes, Cross
  <2> QED
    BY <1>1, <1>2, <2>1, <2>2 DEF Pipes
<1>6. \A l \in OfCall, d \in ToolCall : UnderWay(l, d)' <=> UnderWay(l, d)
  BY <1>1, <1>4 DEF UnderWay
<1>7. Approvals' /\ Wire' /\ \A d \in ToolCall : Taken(d)' <=> Taken(d)
  BY <1>1, NothingPresented
<1>8. ASSUME NEW d \in ToolCall PROVE Stage(d)'
  BY <1>1, <1>6, <1>7 DEF LateInv, Stage, OfCall
<1> QED
  BY <1>1, <1>3, <1>5, <1>7, <1>8 DEF LateInv, Rounds

LEMMA LatePumpKeeps == ASSUME LateInv, Pump PROVE LateInv'
<1> DEFINE e == Head(timeline)
<1>1. /\ timeline # <<>> /\ timeline' = Tail(timeline)
      /\ \/ e.kind = "completed" /\ held' = Append(held, e) /\ queue' = queue
         \/ e.kind = "running" /\ queue' = Append(queue, e) /\ held' = held
         \/ e.kind = "other" /\ queue' = Append(queue \o held, e) /\ held' = <<>>
      /\ UNCHANGED <<early, progress, refused, others, unclaimedCalls, unclaimedApprovals, announcedAs,
                     cards, gateAt, resultAt>>
  BY DEF Pump, correlation, wireVars
<1>2. CorrelationTypeOK /\ Pipes
  BY DEF LateInv
<1>3. /\ e \in Event /\ timeline \in Seq(Event) /\ timeline' \in Seq(Event)
      /\ held \in Seq(Event) /\ queue \in Seq(Event)
  BY <1>1, <1>2, TailIs DEF CorrelationTypeOK
<1>4. /\ \A k, c : Has(timeline, k, c) <=> Has(timeline', k, c) \/ (e.kind = k /\ e.call = c)
      /\ Flow(timeline') /\ Named(timeline')
      /\ e.kind \in OfCall =>
           /\ e.call \in ToolCall
           /\ \A k \in OfCall : Has(timeline', k, e.call) => Rank(e.kind) < Rank(k)
  BY <1>1, <1>2, <1>3, HasTail, FlowTail, NamedTail DEF Pipes
<1> HIDE DEF e
<1>5. Approvals' /\ Wire' /\ \A d \in ToolCall : Taken(d)' <=> Taken(d)
  BY <1>1, NothingPresented
<1>6. ASSUME Pipes', held' \in Seq(Event), queue' \in Seq(Event),
             \A l \in OfCall, d \in ToolCall : UnderWay(l, d)' <=> UnderWay(l, d)
      PROVE  LateInv'
  <2>1. CorrelationTypeOK'
    BY <1>1, <1>2, <1>3, <1>6 DEF CorrelationTypeOK
  <2>2. ASSUME NEW d \in ToolCall PROVE Stage(d)'
    BY <1>1, <1>5, <1>6 DEF LateInv, Stage, OfCall
  <2> QED
    BY <1>1, <1>5, <1>6, <2>1, <2>2 DEF LateInv, Rounds
<1>7. ASSUME NEW c \in ToolCall, NEW k \in OfCall, Has(held, k, c) PROVE k = "completed"
  BY <1>2, <1>7 DEF Pipes, Has
<1>8. CASE e.kind = "completed" /\ held' = Append(held, e) /\ queue' = queue
  <2>1. e.kind \in OfCall /\ e.call \in ToolCall
    BY <1>4, <1>8 DEF OfCall
  <2>2. \A k, c : Has(held', k, c) <=> Has(held, k, c) \/ (e.kind = k /\ e.call = c)
    BY <1>3, <1>8, HasAppend
  <2>3. \A k \in OfCall : Has(held, k, e.call) => Rank(k) < Rank(e.kind)
    BY <1>2, <1>4, <2>1 DEF Pipes, Cross
  <2>4. held' \in Seq(Event) /\ Flow(held') /\ Named(held')
    BY <1>2, <1>3, <1>8, <2>1, <2>3, AppendIs, FlowAppend, NamedAppend DEF Pipes
  <2>5. \A i \in DOMAIN held' : held'[i].kind = "completed"
    BY <1>2, <1>3, <1>8, AppendIs DEF Pipes
  <2>6. Cross(queue, held') /\ Cross(queue, timeline') /\ Cross(held', timeline')
    BY <1>2, <1>4, <2>1, <2>2 DEF Pipes, Cross
  <2>7. Pipes'
    BY <1>2, <1>4, <1>8, <2>4, <2>5, <2>6 DEF Pipes
  <2>8. \A l \in OfCall, d \in ToolCall : UnderWay(l, d)' <=> UnderWay(l, d)
    BY <1>4, <1>8, <2>2 DEF UnderWay
  <2> QED
    BY <1>3, <1>6, <1>8, <2>4, <2>7, <2>8
<1>9. CASE e.kind = "running" /\ queue' = Append(queue, e) /\ held' = held
  <2>1. e.kind \in OfCall /\ e.call \in ToolCall
    BY <1>4, <1>9 DEF OfCall
  <2>2. \A k, c : Has(queue', k, c) <=> Has(queue, k, c) \/ (e.kind = k /\ e.call = c)
    BY <1>3, <1>9, HasAppend
  <2>3. \A k \in OfCall : Has(queue, k, e.call) => Rank(k) < Rank(e.kind)
    BY <1>2, <1>4, <2>1 DEF Pipes, Cross
  <2>4. queue' \in Seq(Event) /\ Flow(queue') /\ Named(queue')
    BY <1>2, <1>3, <1>9, <2>1, <2>3, AppendIs, FlowAppend, NamedAppend DEF Pipes
  <2>5. \A k \in OfCall, c \in ToolCall : Has(held, k, c) => Rank("running") < Rank(k)
    BY <1>7 DEF Rank
  <2>6. Cross(queue', held) /\ Cross(queue', timeline') /\ Cross(held, timeline')
    BY <1>2, <1>4, <1>9, <2>1, <2>2, <2>5 DEF Pipes, Cross
  <2>7. Pipes'
    BY <1>2, <1>4, <1>9, <2>4, <2>6 DEF Pipes
  <2>8. \A l \in OfCall, d \in ToolCall : UnderWay(l, d)' <=> UnderWay(l, d)
    BY <1>4, <1>9, <2>2 DEF UnderWay
  <2> QED
    BY <1>3, <1>6, <1>9, <2>4, <2>7, <2>8
<1>10. CASE e.kind = "other" /\ queue' = Append(queue \o held, e) /\ held' = <<>>
  <2> DEFINE u == queue \o held
  <2>1. /\ u \in Seq(Event) /\ Flow(u) /\ Named(u)
        /\ \A k, c : Has(u, k, c) <=> Has(queue, k, c) \/ Has(held, k, c)
    BY <1>2, <1>3, ConcatIs, FlowConcat, NamedConcat, HasConcat DEF Pipes
  <2> HIDE DEF u
  <2>2. e.kind \notin OfCall /\ queue' = Append(u, e)
    BY <1>10 DEF OfCall, u
  <2>3. \A k \in OfCall : \A c : Has(queue', k, c) <=> Has(u, k, c)
    BY <1>3, <2>1, <2>2, HasAppend
  <2>4. queue' \in Seq(Event) /\ Flow(queue') /\ Named(queue')
    BY <1>3, <2>1, <2>2, AppendIs, FlowAppend, NamedAppend
  <2>5. /\ held' \in Seq(Event) /\ Flow(held') /\ Named(held')
        /\ \A i \in DOMAIN held' : held'[i].kind = "completed"
        /\ \A k, c : ~Has(held', k, c)
    BY <1>10 DEF Flow, Named, Has
  <2>6. \A k \in OfCall : \A c : Has(timeline', k, c) <=> Has(timeline, k, c)
    BY <1>4, <2>2
  <2>7. Cross(queue', held') /\ Cross(queue', timeline') /\ Cross(held', timeline')
    BY <1>2, <2>1, <2>3, <2>5, <2>6 DEF Pipes, Cross
  <2>8. Pipes'
    BY <1>4, <2>4, <2>5, <2>7 DEF Pipes
  <2>9. \A l \in OfCall, d \in ToolCall : UnderWay(l, d)' <=> UnderWay(l, d)
    BY <2>1, <2>3, <2>5, <2>6 DEF UnderWay
  <2> QED
    BY <1>6, <2>4, <2>5, <2>8, <2>9
<1> QED
  BY <1>1, <1>8, <1>9, <1>10

(* What is queued of an approval, oldest first and once each.              *)
LEMMA ClaimsOldest ==
  ASSUME NEW ids \in Seq(ToolCall), ids # <<>>, \A i, j \in DOMAIN ids : ids[i] = ids[j] => i = j
  PROVE  /\ Head(ids) \in ToolCall /\ Queued(Head(ids), ids)
         /\ Tail(ids) \in Seq(ToolCall) /\ Len(Tail(ids)) = Len(ids) - 1 /\ Len(ids) \in Nat
         /\ \A i, j \in DOMAIN Tail(ids) : Tail(ids)[i] = Tail(ids)[j] => i = j
         /\ \A d : Queued(d, Tail(ids)) <=> Queued(d, ids) /\ d # Head(ids)
<1> DEFINE r == Tail(ids)
<1>1. /\ Head(ids) = ids[1] /\ DOMAIN r = 1 .. Len(ids) - 1 /\ DOMAIN ids = 1 .. Len(ids)
      /\ Len(ids) \in Nat /\ 1 <= Len(ids) /\ r \in Seq(ToolCall) /\ Len(r) = Len(ids) - 1
      /\ \A i \in 1 .. Len(ids) - 1 : r[i] = ids[i + 1]
      /\ ids[1] \in ToolCall
  OBVIOUS
<1> HIDE DEF r
<1>2. /\ \A i \in DOMAIN r : i \in Int /\ i + 1 \in DOMAIN ids /\ i + 1 # 1 /\ r[i] = ids[i + 1]
      /\ \A i \in DOMAIN ids : i = 1 \/ (i - 1 \in DOMAIN r /\ ids[i] = r[i - 1])
      /\ 1 \in DOMAIN ids
  BY <1>1
<1>3. \A i, j \in DOMAIN r : r[i] = r[j] => i = j
  <2> SUFFICES ASSUME NEW i \in DOMAIN r, NEW j \in DOMAIN r, r[i] = r[j] PROVE i = j
    OBVIOUS
  <2>1. i + 1 = j + 1
    BY <1>2
  <2> QED
    BY <1>2, <2>1
<1>4. \A d : Queued(d, r) <=> Queued(d, ids) /\ d # ids[1]
  BY <1>2 DEF Queued
<1>5. Queued(ids[1], ids)
  BY <1>2 DEF Queued
<1> QED
  BY <1>1, <1>3, <1>4, <1>5 DEF r

LEMMA QueuesNewest ==
  ASSUME NEW ids \in Seq(ToolCall), \A i, j \in DOMAIN ids : ids[i] = ids[j] => i = j,
         NEW c \in ToolCall, ~Queued(c, ids)
  PROVE  /\ Append(ids, c) \in Seq(ToolCall) /\ Len(Append(ids, c)) = Len(ids) + 1
         /\ \A i, j \in DOMAIN Append(ids, c) : Append(ids, c)[i] = Append(ids, c)[j] => i = j
         /\ \A d : Queued(d, Append(ids, c)) <=> Queued(d, ids) \/ d = c
<1> DEFINE r == Append(ids, c)
<1>1. /\ DOMAIN r = 1 .. Len(ids) + 1 /\ DOMAIN ids = 1 .. Len(ids) /\ Len(ids) \in Nat
      /\ r \in Seq(ToolCall) /\ Len(r) = Len(ids) + 1
      /\ \A i \in 1 .. Len(ids) : r[i] = ids[i]
      /\ r[Len(ids) + 1] = c
  OBVIOUS
<1> HIDE DEF r
<1>2. /\ \A i \in DOMAIN r : (i \in DOMAIN ids /\ r[i] = ids[i]) \/ (i = Len(ids) + 1 /\ r[i] = c)
      /\ \A i \in DOMAIN ids : i \in DOMAIN r /\ r[i] = ids[i]
      /\ Len(ids) + 1 \in DOMAIN r
  BY <1>1
<1>3. \A i, j \in DOMAIN r : r[i] = r[j] => i = j
  BY <1>2 DEF Queued
<1>4. \A d : Queued(d, r) <=> Queued(d, ids) \/ d = c
  BY <1>1, <1>2 DEF Queued
<1> QED
  BY <1>1, <1>3, <1>4 DEF r

LEMMA OwedCounts ==
  /\ Cardinality(Owed) \in Nat
  /\ \A c \in ToolCall : c \notin Owed => Cardinality(Owed \cup {c}) = Cardinality(Owed) + 1
  /\ \A c \in ToolCall : c \in Owed => /\ Cardinality(Owed \ {c}) = Cardinality(Owed) - 1
                                       /\ Cardinality(Owed) # 0
<1>1. Owed \subseteq ToolCall
  BY DEF Owed
<1>2. IsFiniteSet(ToolCall)
  BY CorrelationAssumption, FS_Interval DEF ToolCall
<1>3. IsFiniteSet(Owed) /\ Cardinality(Owed) \in Nat
  BY <1>1, <1>2, FS_Subset, FS_CardinalityType
<1>4. ASSUME NEW c \in ToolCall, c \notin Owed
      PROVE  Cardinality(Owed \cup {c}) = Cardinality(Owed) + 1
  BY <1>3, <1>4, FS_AddElement
<1>5. ASSUME NEW c \in ToolCall, c \in Owed
      PROVE  Cardinality(Owed \ {c}) = Cardinality(Owed) - 1 /\ Cardinality(Owed) # 0
  BY <1>3, <1>5, FS_RemoveElement, FS_EmptySet
<1> QED
  BY <1>3, <1>4, <1>5

LEMMA LatePresentKeeps == ASSUME LateInv, Present PROVE LateInv'
<1> DEFINE e == Head(queue)
<1>1. /\ queue # <<>> /\ queue' = Tail(queue)
      /\ \/ e.kind = "running" /\ AnnounceToolCall(e.call)
         \/ e.kind = "approval" /\ ApprovalToolCallId(e.call)
         \/ e.kind = "completed" /\ ResultToolCallId(e.call)
         \/ e.kind = "other" /\ UNCHANGED <<correlation, wireVars>>
      /\ UNCHANGED <<early, progress, refused, others, timeline, held>>
  BY DEF Present
<1>2. CorrelationTypeOK /\ Pipes /\ Approvals /\ Wire /\ \A d \in ToolCall : Stage(d)
  BY DEF LateInv
<1>3. e \in Event /\ queue \in Seq(Event) /\ queue' \in Seq(Event)
  BY <1>1, <1>2, TailIs DEF CorrelationTypeOK
<1>4. /\ \A k, c : Has(queue, k, c) <=> Has(queue', k, c) \/ (e.kind = k /\ e.call = c)
      /\ Flow(queue') /\ Named(queue')
      /\ e.kind \in OfCall =>
           /\ e.call \in ToolCall
           /\ \A k \in OfCall : Has(queue', k, e.call) => Rank(e.kind) < Rank(k)
  BY <1>1, <1>2, <1>3, HasTail, FlowTail, NamedTail DEF Pipes
<1> HIDE DEF e
<1>5. Pipes'
  <2>1. Cross(queue', held) /\ Cross(queue', timeline)
    BY <1>2, <1>4 DEF Pipes, Cross
  <2> QED
    BY <1>1, <1>2, <1>4, <2>1 DEF Pipes
<1>6. \A k, c : UnderWay(k, c) <=> UnderWay(k, c)' \/ (e.kind = k /\ e.call = c)
  BY <1>1, <1>4 DEF UnderWay
<1>7. ASSUME e.kind \in OfCall, NEW c \in ToolCall, e.call = c, NEW k \in OfCall, UnderWay(k, c)'
      PROVE  Rank(e.kind) < Rank(k)
  <2>1. Has(queue, e.kind, c)
    BY <1>4, <1>7
  <2>2. Has(queue', k, c) \/ Has(held, k, c) \/ Has(timeline, k, c)
    BY <1>1, <1>7 DEF UnderWay
  <2> QED
    BY <1>2, <1>4, <1>7, <2>1, <2>2 DEF Pipes, Cross
<1>8. /\ unclaimedCalls = <<>> /\ unclaimedApprovals \in Seq(ToolCall)
      /\ \A i, j \in DOMAIN unclaimedApprovals :
           unclaimedApprovals[i] = unclaimedApprovals[j] => i = j
  BY <1>2 DEF Approvals, CorrelationTypeOK
<1>9. ASSUME Approvals', Wire', CorrelationTypeOK', \A d \in ToolCall : Stage(d)'
      PROVE  LateInv'
  BY <1>1, <1>5, <1>9 DEF LateInv, Rounds
<1>10. ASSUME NEW c \in ToolCall, c \in Owed
       PROVE  /\ unclaimedApprovals # <<>>
              /\ Cardinality(Owed \ {c}) = Len(unclaimedApprovals) - 1
  BY <1>2, <1>10, OwedCounts, EmptySeq DEF Approvals
<1>11. CASE e.kind = "running" /\ AnnounceToolCall(e.call)
  <2> PICK c \in ToolCall : e.call = c
    BY <1>4, <1>11 DEF OfCall
  <2> DEFINE h == Head(unclaimedApprovals)
  <2>1. /\ ~UnderWay("running", c)' /\ ~UnderWay("approval", c)
        /\ UnderWay("running", c)
        /\ \A k, d : d # c \/ k # "running" => (UnderWay(k, d)' <=> UnderWay(k, d))
    BY <1>4, <1>6, <1>7, <1>11 DEF OfCall, Rank
  <2>2. /\ progress[c] \in {"running", "settled"} /\ c \notin refused /\ gateAt[c] # NoId
        /\ announcedAs[c] = NoCall /\ resultAt[c] = NoId
    BY <1>2, <2>1 DEF Stage, Taken
  <2>3. c \in Owed
    BY <2>1, <2>2 DEF Owed, Taken
  <2>4. unclaimedApprovals # <<>>
    BY <1>10, <2>1, <2>3
  <2>5. /\ unclaimedCalls' = <<>> /\ cards' = cards
        /\ unclaimedApprovals' = Tail(unclaimedApprovals)
        /\ announcedAs' = [announcedAs EXCEPT ![c] = h]
        /\ gateAt' = gateAt /\ resultAt' = resultAt
    BY <1>8, <1>11, <2>4 DEF AnnounceToolCall, AfterAnnounce, NewCards, Claim
  <2>6. /\ h \in ToolCall /\ Queued(h, unclaimedApprovals)
        /\ unclaimedApprovals' \in Seq(ToolCall)
        /\ Len(unclaimedApprovals') = Len(unclaimedApprovals) - 1
        /\ \A i, j \in DOMAIN unclaimedApprovals' :
             unclaimedApprovals'[i] = unclaimedApprovals'[j] => i = j
        /\ \A d : Queued(d, unclaimedApprovals') <=> Queued(d, unclaimedApprovals) /\ d # h
    BY <1>8, <2>4, <2>5, ClaimsOldest
  <2> HIDE DEF h
  <2>7. /\ announcedAs'[c] = h /\ h # NoCall
        /\ \A d \in ToolCall : d # c => announcedAs'[d] = announcedAs[d]
    BY <1>2, <2>1, <2>5, <2>6, IdsAre DEF CorrelationTypeOK
  <2>8. Taken(c)' /\ \A d \in ToolCall : d # c => (Taken(d)' <=> Taken(d))
    BY <2>5, <2>7 DEF Taken
  <2>9. Owed' = Owed \ {c}
    BY <2>5, <2>8 DEF Owed
  <2>10. \A x, d \in ToolCall : Bears(x, d)' <=> Bears(x, d) \/ (x = c /\ d = h)
    BY <2>1, <2>2, <2>5, <2>7, IdsAre DEF Bears
  <2>11. Approvals'
    <3>1. Len(unclaimedApprovals') = Cardinality(Owed')
      BY <1>10, <2>1, <2>3, <2>6, <2>9
    <3>2. \A d \in ToolCall : Queued(d, unclaimedApprovals') => gateAt'[d] # NoId
      BY <1>2, <2>5, <2>6 DEF Approvals
    <3>3. \A x, d \in ToolCall : Bears(x, d)' => gateAt'[d] # NoId /\ ~Queued(d, unclaimedApprovals')
      BY <1>2, <2>5, <2>6, <2>10 DEF Approvals
    <3>4. \A x, b, d \in ToolCall : Bears(x, d)' /\ Bears(b, d)' => x = b
      BY <1>2, <2>6, <2>10 DEF Approvals
    <3> QED
      BY <2>5, <2>6, <3>1, <3>2, <3>3, <3>4 DEF Approvals
  <2>12. Wire'
    BY <1>1, <1>2, <2>5 DEF Wire
  <2>13. CorrelationTypeOK'
    BY <1>1, <1>2, <1>3, <2>1, <2>5, <2>6 DEF CorrelationTypeOK
  <2>14. ASSUME NEW d \in ToolCall PROVE Stage(d)'
    <3>1. CASE d = c
      BY <1>1, <1>2, <2>1, <2>2, <2>5, <2>7, <2>8, <3>1 DEF Stage
    <3>2. CASE d # c
      BY <1>1, <1>2, <2>1, <2>5, <2>7, <2>8, <3>2 DEF Stage
    <3> QED
      BY <3>1, <3>2
  <2> QED
    BY <1>9, <2>11, <2>12, <2>13, <2>14
<1>12. CASE e.kind = "approval" /\ ApprovalToolCallId(e.call)
  <2> PICK c \in ToolCall : e.call = c
    BY <1>4, <1>12 DEF OfCall
  <2>1. /\ ~UnderWay("approval", c)' /\ UnderWay("approval", c)
        /\ \A k, d : d # c \/ k # "approval" => (UnderWay(k, d)' <=> UnderWay(k, d))
    BY <1>4, <1>6, <1>7, <1>12 DEF OfCall, Rank
  <2>2. progress[c] \notin {"idle", "started"} /\ gateAt[c] = NoId /\ ~Taken(c)
    BY <1>2, <2>1 DEF Stage
  <2>3. /\ unclaimedCalls' = <<>> /\ cards' = cards \cup {gateAt'[c]}
        /\ unclaimedApprovals' = Append(unclaimedApprovals, c)
        /\ gateAt' = [gateAt EXCEPT ![c] = ApprovalId(c)]
        /\ announcedAs' = announcedAs /\ resultAt' = resultAt
    BY <1>8, <1>12 DEF ApprovalToolCallId
  <2>4. ~Queued(c, unclaimedApprovals)
    BY <1>2, <2>1, <2>2 DEF Approvals
  <2>5. /\ unclaimedApprovals' \in Seq(ToolCall)
        /\ Len(unclaimedApprovals') = Len(unclaimedApprovals) + 1
        /\ \A i, j \in DOMAIN unclaimedApprovals' :
             unclaimedApprovals'[i] = unclaimedApprovals'[j] => i = j
        /\ \A d : Queued(d, unclaimedApprovals') <=> Queued(d, unclaimedApprovals) \/ d = c
    BY <1>8, <2>1, <2>3, <2>4, QueuesNewest
  <2>6. /\ gateAt'[c] = ApprovalId(c) /\ ApprovalId(c) \in Id /\ ApprovalId(c) # NoId
        /\ cards' = cards \cup {ApprovalId(c)}
        /\ \A d \in ToolCall : d # c => gateAt'[d] = gateAt[d]
    BY <1>2, <2>1, <2>3, IdsAre DEF CorrelationTypeOK
  <2>7. \A d \in ToolCall : Taken(d)' <=> Taken(d)
    BY <2>3 DEF Taken
  <2>8. Owed' = Owed \cup {c} /\ c \notin Owed
    BY <2>1, <2>2, <2>6, <2>7 DEF Owed
  <2>9. \A x, d \in ToolCall : Bears(x, d)' <=> Bears(x, d)
    BY <2>3 DEF Bears
  <2>10. Approvals'
    <3>1. Len(unclaimedApprovals') = Cardinality(Owed')
      BY <1>2, <2>1, <2>5, <2>8, OwedCounts DEF Approvals
    <3>2. \A d \in ToolCall : Queued(d, unclaimedApprovals') => gateAt'[d] # NoId
      BY <1>2, <2>5, <2>6 DEF Approvals
    <3>3. \A x, d \in ToolCall : Bears(x, d)' => gateAt'[d] # NoId /\ ~Queued(d, unclaimedApprovals')
      BY <1>2, <2>2, <2>5, <2>6, <2>9 DEF Approvals
    <3>4. \A x, b, d \in ToolCall : Bears(x, d)' /\ Bears(b, d)' => x = b
      BY <1>2, <2>9 DEF Approvals
    <3> QED
      BY <2>3, <2>5, <3>1, <3>2, <3>3, <3>4 DEF Approvals
  <2>11. Wire'
    <3>1. \A d \in ToolCall : ApprovalId(d) \in cards' <=> ApprovalId(d) \in cards \/ d = c
      BY <2>1, <2>6, IdsAre
    <3> QED
      BY <1>1, <1>2, <2>1, <2>3, <2>6, <3>1 DEF Wire
  <2>12. CorrelationTypeOK'
    BY <1>1, <1>2, <1>3, <2>1, <2>3, <2>5, <2>6 DEF CorrelationTypeOK
  <2>13. ASSUME NEW d \in ToolCall PROVE Stage(d)'
    <3>1. CASE d = c
      BY <1>1, <1>2, <2>1, <2>2, <2>3, <2>6, <2>7, <3>1 DEF Stage
    <3>2. CASE d # c
      BY <1>1, <1>2, <2>1, <2>3, <2>6, <2>7, <3>2 DEF Stage
    <3> QED
      BY <3>1, <3>2
  <2> QED
    BY <1>9, <2>10, <2>11, <2>12, <2>13
<1>13. CASE e.kind = "completed" /\ ResultToolCallId(e.call)
  <2> PICK c \in ToolCall : e.call = c
    BY <1>4, <1>13 DEF OfCall
  <2>1. /\ UnderWay("completed", c) /\ ~UnderWay("completed", c)'
        /\ ~UnderWay("approval", c) /\ ~UnderWay("running", c)
        /\ \A k, d : d # c \/ k # "completed" => (UnderWay(k, d)' <=> UnderWay(k, d))
    BY <1>4, <1>6, <1>7, <1>13 DEF OfCall, Rank
  <2>2. /\ progress[c] = "settled" /\ resultAt[c] = NoId /\ gateAt[c] # NoId
        /\ announcedAs[c] = NoCall <=> c \in refused
    BY <1>2, <2>1 DEF Stage, Taken
  <2>3. /\ resultAt' = [resultAt EXCEPT ![c] = ResultId(c)]
        /\ announcedAs' = [announcedAs EXCEPT ![c] = NoCall]
        /\ cards' = cards /\ gateAt' = gateAt
    BY <1>13 DEF ResultToolCallId
  <2>4. ResultId(c) \in Id /\ ResultId(c) # NoId
    BY <1>2, <2>1, IdsAre DEF ResultId, CorrelationTypeOK
  <2>5. /\ resultAt'[c] = ResultId(c) /\ announcedAs'[c] = NoCall
        /\ \A d \in ToolCall : d # c => resultAt'[d] = resultAt[d] /\ announcedAs'[d] = announcedAs[d]
    BY <1>2, <2>1, <2>3, <2>4 DEF CorrelationTypeOK
  <2>6. ASSUME unclaimedApprovals' \in Seq(ToolCall), unclaimedCalls' = <<>>
        PROVE  CorrelationTypeOK'
    BY <1>1, <1>2, <1>3, <2>1, <2>3, <2>4, <2>6 DEF CorrelationTypeOK
  <2>7. Taken(c)' /\ \A d \in ToolCall : d # c => (Taken(d)' <=> Taken(d))
    BY <2>4, <2>5 DEF Taken
  <2>8. ASSUME NEW d \in ToolCall PROVE Stage(d)'
    <3>1. CASE d = c
      BY <1>1, <1>2, <2>1, <2>2, <2>3, <2>4, <2>5, <2>7, <3>1 DEF Stage
    <3>2. CASE d # c
      BY <1>1, <1>2, <2>1, <2>3, <2>5, <2>7, <3>2 DEF Stage
    <3> QED
      BY <3>1, <3>2
  <2>9. CASE announcedAs[c] # NoCall
    <3>1. /\ unclaimedCalls' = <<>> /\ unclaimedApprovals' = unclaimedApprovals
          /\ ResultId(c) = ApprovalId(announcedAs[c]) /\ announcedAs[c] \in ToolCall
          /\ c \notin refused
      BY <1>2, <1>8, <1>13, <2>1, <2>2, <2>9 DEF ResultToolCallId, ResultId, CorrelationTypeOK
    <3>2. Owed' = Owed
      <4>1. Taken(c)
        BY <2>9 DEF Taken
      <4> QED
        BY <2>1, <2>3, <2>7, <4>1 DEF Owed
    <3>3. \A x, d \in ToolCall : Bears(x, d)' <=> Bears(x, d)
      <4> SUFFICES ASSUME NEW x \in ToolCall, NEW d \in ToolCall PROVE Bears(x, d)' <=> Bears(x, d)
        OBVIOUS
      <4>1. CASE x = c
        <5>1. Bears(x, d)' <=> d = announcedAs[c]
          BY <2>5, <3>1, <4>1, IdsAre DEF Bears
        <5>2. Bears(x, d) <=> d = announcedAs[c]
          BY <2>2, <4>1, IdsAre DEF Bears
        <5> QED
          BY <5>1, <5>2
      <4>2. CASE x # c
        BY <2>5, <4>2 DEF Bears
      <4> QED
        BY <4>1, <4>2
    <3>4. Approvals'
      BY <1>2, <2>3, <3>1, <3>2, <3>3 DEF Approvals
    <3>5. Wire'
      BY <1>1, <1>2, <2>3, <2>5, <3>1 DEF Wire
    <3> QED
      BY <1>8, <1>9, <2>6, <2>8, <3>1, <3>4, <3>5
  <2>10. CASE announcedAs[c] = NoCall
    <3>1. c \in refused /\ ResultId(c) = RuntimeId(c) /\ c \in Owed
      BY <2>1, <2>2, <2>10 DEF ResultId, Owed, Taken
    <3>2. unclaimedApprovals # <<>>
      BY <1>10, <2>1, <3>1
    <3>3. unclaimedCalls' = <<>> /\ unclaimedApprovals' = Tail(unclaimedApprovals)
      BY <1>8, <1>13, <2>10, <3>2 DEF ResultToolCallId, Dropped, Claim, Forget, Queued
    <3> DEFINE h == Head(unclaimedApprovals)
    <3>4. /\ unclaimedApprovals' \in Seq(ToolCall)
          /\ Len(unclaimedApprovals') = Len(unclaimedApprovals) - 1
          /\ \A i, j \in DOMAIN unclaimedApprovals' :
               unclaimedApprovals'[i] = unclaimedApprovals'[j] => i = j
          /\ \A d : Queued(d, unclaimedApprovals') <=> Queued(d, unclaimedApprovals) /\ d # h
      BY <1>8, <3>2, <3>3, ClaimsOldest
    <3> HIDE DEF h
    <3>5. Owed' = Owed \ {c}
      BY <2>3, <2>7 DEF Owed
    <3>6. \A x, d \in ToolCall : Bears(x, d)' <=> Bears(x, d)
      <4> SUFFICES ASSUME NEW x \in ToolCall, NEW d \in ToolCall PROVE Bears(x, d)' <=> Bears(x, d)
        OBVIOUS
      <4>1. CASE x = c
        <5>1. ~Bears(x, d)'
          BY <2>5, <3>1, <4>1, IdsAre DEF Bears
        <5>2. ~Bears(x, d)
          BY <2>2, <2>10, <4>1, IdsAre DEF Bears
        <5> QED
          BY <5>1, <5>2
      <4>2. CASE x # c
        BY <2>5, <4>2 DEF Bears
      <4> QED
        BY <4>1, <4>2
    <3>7. Approvals'
      <4>1. Len(unclaimedApprovals') = Cardinality(Owed')
        BY <1>10, <2>1, <3>1, <3>4, <3>5
      <4>2. \A d \in ToolCall : Queued(d, unclaimedApprovals') => gateAt'[d] # NoId
        BY <1>2, <2>3, <3>4 DEF Approvals
      <4>3. \A x, d \in ToolCall : Bears(x, d)' => gateAt'[d] # NoId /\ ~Queued(d, unclaimedApprovals')
        BY <1>2, <2>3, <3>4, <3>6 DEF Approvals
      <4>4. \A x, b, d \in ToolCall : Bears(x, d)' /\ Bears(b, d)' => x = b
        BY <1>2, <3>6 DEF Approvals
      <4> QED
        BY <3>3, <3>4, <4>1, <4>2, <4>3, <4>4 DEF Approvals
    <3>8. Wire'
      BY <1>1, <1>2, <2>3, <2>5, <3>1 DEF Wire
    <3> QED
      BY <1>9, <2>6, <2>8, <3>3, <3>4, <3>7, <3>8
  <2> QED
    BY <2>9, <2>10
<1>14. CASE e.kind = "other" /\ UNCHANGED <<correlation, wireVars>>
  <2>1. UNCHANGED <<unclaimedCalls, unclaimedApprovals, announcedAs, cards, gateAt, resultAt>>
    BY <1>14 DEF correlation, wireVars
  <2>2. Approvals' /\ Wire' /\ \A d \in ToolCall : Taken(d)' <=> Taken(d)
    BY <1>1, <2>1, NothingPresented
  <2>3. CorrelationTypeOK'
    BY <1>1, <1>2, <1>3, <2>1 DEF CorrelationTypeOK
  <2>4. \A l \in OfCall, d \in ToolCall : UnderWay(l, d)' <=> UnderWay(l, d)
    BY <1>6, <1>14 DEF OfCall
  <2>5. ASSUME NEW d \in ToolCall PROVE Stage(d)'
    BY <1>1, <1>2, <2>1, <2>2, <2>4 DEF Stage, OfCall
  <2> QED
    BY <1>9, <2>2, <2>3, <2>5
<1> QED
  BY <1>1, <1>11, <1>12, <1>13, <1>14

LEMMA LateStep ==
  ASSUME ~early, LateInv, [CorrelationNext]_correlationVars
  PROVE  LateInv'
<1>1. ASSUME NEW first \in ToolCall, NEW last \in ToolCall, StartRound(first, last)
      PROVE  LateInv'
  BY <1>1, LateStartRoundKeeps
<1>2. ASSUME NEW c \in ToolCall, Gate(c) \/ Allow(c) \/ Refuse(c) \/ Complete(c)
      PROVE  LateInv'
  BY <1>2, LateGateKeeps, LateAllowKeeps, LateEndKeeps
<1>3. CASE Other \/ Pump \/ Present
  BY <1>3, LateOtherKeeps, LatePumpKeeps, LatePresentKeeps
<1>4. CASE UNCHANGED correlationVars
  <2>1. UNCHANGED <<early, progress, refused, others, timeline, held, queue, unclaimedCalls,
                    unclaimedApprovals, announcedAs, cards, gateAt, resultAt>>
    BY <1>4 DEF correlationVars, correlation, wireVars
  <2>2. Approvals' /\ Wire' /\ \A d \in ToolCall : Taken(d)' <=> Taken(d)
    BY <2>1, NothingPresented
  <2>3. CorrelationTypeOK' /\ Pipes' /\ Rounds'
    BY <2>1 DEF LateInv, CorrelationTypeOK, Pipes, Rounds
  <2>4. \A l, d : UnderWay(l, d)' <=> UnderWay(l, d)
    BY <2>1 DEF UnderWay
  <2>5. ASSUME NEW d \in ToolCall PROVE Stage(d)'
    BY <2>1, <2>2, <2>4 DEF LateInv, Stage
  <2> QED
    BY <2>2, <2>3, <2>5 DEF LateInv
<1> QED
  BY <1>1, <1>2, <1>3, <1>4 DEF CorrelationNext

-----------------------------------------------------------------------------
(* A run keeps to one reading of the SDK.                                  *)
PairingInv == /\ early \in BOOLEAN
              /\ early => CorrelationInv
              /\ ~early => LateInv

LEMMA EarlyIsRigid == [CorrelationNext]_correlationVars => early' = early
BY DEF CorrelationNext, correlationVars, StartRound, Gate, Allow, Refuse, Complete, Other, Pump, Present

LEMMA CorrelationInvariant == HooksInOrder => (CorrelationSpec => []PairingInv)
<1> SUFFICES ASSUME HooksInOrder PROVE CorrelationSpec => []PairingInv
  OBVIOUS
<1>1. CorrelationInit => PairingInv
  <2>1. CorrelationInit => early \in BOOLEAN
    BY DEF CorrelationInit
  <2> QED
    BY <2>1, CorrelationStart, LateStart DEF PairingInv
<1>2. ASSUME PairingInv, [CorrelationNext]_correlationVars PROVE PairingInv'
  <2>1. early' = early
    BY <1>2, EarlyIsRigid
  <2>2. early => CorrelationInv'
    BY <1>2, CorrelationStep DEF PairingInv
  <2>3. ~early => LateInv'
    BY <1>2, LateStep DEF PairingInv
  <2> QED
    BY <1>2, <2>1, <2>2, <2>3 DEF PairingInv
<1> QED
  BY <1>1, <1>2, PTL DEF CorrelationSpec

(* While the hooks of a tool run in the order of its calls, the approval a *)
(* human answers carries an id of the call that waits for it, whichever of *)
(* the two reached the wire first (HitlCallCorrelation), and whether calls *)
(* are announced before their hooks or behind them.                        *)
THEOREM GatesNameTheirCalls == HooksInOrder => (CorrelationSpec => []GateNamesItsCall)
<1> SUFFICES ASSUME HooksInOrder PROVE CorrelationSpec => []GateNamesItsCall
  OBVIOUS
<1>1. ASSUME CorrelationInv PROVE GateNamesItsCall
  <2>1. PICK a \in 0 .. NCalls, p \in 0 .. NCalls : OnWire(a, p)
    BY <1>1 DEF CorrelationInv
  <2>2. \A c \in ToolCall : gateAt[c] \in {NoId, RuntimeId(c), ApprovalId(c)}
    BY <2>1 DEF OnWire, Paired, Unseen, Called, Asked, Gated
  <2> QED
    BY <2>2 DEF GateNamesItsCall, RuntimeId, ApprovalId
<1>2. ASSUME LateInv PROVE GateNamesItsCall
  BY <1>2 DEF LateInv, Wire, GateNamesItsCall, ApprovalId
<1>3. PairingInv => GateNamesItsCall
  BY <1>1, <1>2 DEF PairingInv
<1> QED
  BY <1>3, CorrelationInvariant, PTL

(* Under the same assumption a call keeps one card and no id carries two   *)
(* results.  A result settles the card of its approval, if calls are       *)
(* announced before their hooks; if refused calls are not announced, every *)
(* allowed call settles the card of some approval, and no refusal does.    *)
THEOREM ResultsSettleTheirCards == HooksInOrder => (CorrelationSpec => []ResultSettlesItsCard)
<1> SUFFICES ASSUME HooksInOrder PROVE CorrelationSpec => []ResultSettlesItsCard
  OBVIOUS
<1>1. ASSUME early, CorrelationInv PROVE ResultSettlesItsCard
  <2>1. PICK a \in 0 .. NCalls, p \in 0 .. NCalls : OnWire(a, p)
    BY <1>1 DEF CorrelationInv
  <2>2. ASSUME NEW c \in ToolCall
        PROVE  /\ ~({RuntimeId(c), ApprovalId(c)} \subseteq cards)
               /\ resultAt[c] # NoId =>
                    /\ resultAt[c] = gateAt[c] /\ gateAt[c] \in cards
                    /\ resultAt[c] \in {RuntimeId(c), ApprovalId(c)}
    BY <2>1 DEF OnWire, Paired, Unseen, Called, Asked, Gated
  <2>3. ASSUME NEW c \in ToolCall, NEW d \in ToolCall, resultAt[c] # NoId, resultAt[d] = resultAt[c]
        PROVE  d = c
    <3>1. resultAt[c].of = c /\ resultAt[d].of = d
      BY <2>2, <2>3, IdsAre
    <3> QED
      BY <2>3, <3>1
  <2> QED
    BY <1>1, <2>2, <2>3 DEF ResultSettlesItsCard
<1>2. ASSUME ~early, LateInv PROVE ResultSettlesItsCard
  <2>1. Wire /\ Approvals
    BY <1>2 DEF LateInv
  <2>2. \A c \in ToolCall : RuntimeId(c) \notin cards
    BY <2>1, IdsAre DEF Wire
  <2>3. ASSUME NEW c \in ToolCall, resultAt[c] # NoId
        PROVE  resultAt[c] \in cards <=> c \notin refused
    <3>1. CASE c \in refused
      BY <2>1, <2>2, <2>3, <3>1 DEF Wire
    <3>2. CASE c \notin refused
      <4>1. PICK d \in ToolCall : resultAt[c] = ApprovalId(d)
        BY <2>1, <2>3, <3>2 DEF Wire
      <4>2. gateAt[d] # NoId
        BY <2>1, <4>1 DEF Approvals, Bears
      <4> QED
        BY <2>1, <3>2, <4>1, <4>2 DEF Wire
    <3> QED
      BY <3>1, <3>2
  <2>4. ASSUME NEW c \in ToolCall, NEW d \in ToolCall, resultAt[c] # NoId, resultAt[d] = resultAt[c]
        PROVE  d = c
    <3>1. CASE c \in refused /\ d \in refused
      <4>1. resultAt[c] = RuntimeId(c) /\ resultAt[d] = RuntimeId(d)
        BY <2>1, <2>4, <3>1 DEF Wire
      <4> QED
        BY <2>4, <4>1, IdsAre
    <3>2. CASE c \notin refused
      <4>1. PICK x \in ToolCall : resultAt[c] = ApprovalId(x)
        BY <2>1, <2>4, <3>2 DEF Wire
      <4> QED
        BY <2>1, <2>4, <4>1 DEF Approvals, Bears
    <3>3. CASE d \notin refused
      <4>1. PICK x \in ToolCall : resultAt[d] = ApprovalId(x)
        BY <2>1, <2>4, <3>3 DEF Wire
      <4> QED
        BY <2>1, <2>4, <4>1 DEF Approvals, Bears
    <3> QED
      BY <3>1, <3>2, <3>3
  <2> QED
    BY <1>2, <2>2, <2>3, <2>4 DEF ResultSettlesItsCard
<1>3. PairingInv => ResultSettlesItsCard
  BY <1>1, <1>2 DEF PairingInv
<1> QED
  BY <1>3, CorrelationInvariant, PTL

(* Under the same assumption a call that is over has left both queues of   *)
(* the pairing, by forget() and claim(): at once if it was announced, or   *)
(* when all results are out, a refused call's among them.                  *)
THEOREM NothingIsLeftBehind == HooksInOrder => (CorrelationSpec => []NothingStale)
<1> SUFFICES ASSUME HooksInOrder PROVE CorrelationSpec => []NothingStale
  OBVIOUS
<1>1. ASSUME CorrelationInv PROVE NothingStale
  <2>1. PICK a \in 0 .. NCalls, p \in 0 .. NCalls, q \in 0 .. NCalls, g \in 0 .. NCalls, s \in 0 .. NCalls :
          Fronts(a, p, q, g, s) /\ Lines(a, p, q, g, s) /\ OnWire(a, p)
    BY <1>1 DEF CorrelationInv
  <2>2. /\ unclaimedCalls \in Seq(ToolCall) /\ unclaimedApprovals \in Seq(ToolCall)
        /\ Waits(unclaimedCalls, p, a) /\ Waits(unclaimedApprovals, a, p)
    BY <1>1, <2>1 DEF CorrelationInv, CorrelationTypeOK, Fronts
  <2>3. ASSUME NEW c \in ToolCall, resultAt[c] # NoId
        PROVE  ~Queued(c, unclaimedCalls) /\ ~Queued(c, unclaimedApprovals)
    <3>1. c <= a /\ c <= p
      BY <2>1, <2>3 DEF OnWire
    <3> QED
      BY <2>2, <3>1, CorrelationAssumption, ForgetIsNoop
  <2>4. ASSUME AtRest PROVE unclaimedCalls = <<>> /\ unclaimedApprovals = <<>>
    <3>1. s <= g
      <4> SUFFICES ASSUME g < s PROVE FALSE
        BY CorrelationAssumption
      <4>1. s \in ToolCall
        BY CorrelationAssumption DEF ToolCall
      <4>2. progress[s] # "idle" /\ progress[s] \notin {"gated", "running", "settled"}
        BY <2>1, <4>1 DEF Fronts
      <4> QED
        BY <2>4, <4>1, <4>2 DEF AtRest
    <3>2. s <= q /\ q <= a /\ g <= p
      BY <2>1, <2>4, ListsNone DEF Lines, AtRest
    <3>3. a <= p /\ p <= a
      BY <2>1, <3>1, <3>2 DEF Fronts
    <3> QED
      BY <2>2, <3>3, CorrelationAssumption, WaitsTail
  <2> QED
    BY <2>3, <2>4 DEF NothingStale
<1>2. ASSUME ~early, LateInv PROVE NothingStale
  <2>1. ASSUME NEW c \in ToolCall PROVE ~Queued(c, unclaimedCalls)
    BY <1>2 DEF LateInv, Approvals, Queued
  <2>2. ASSUME AtRest PROVE unclaimedApprovals = <<>>
    <3>1. \A c \in ToolCall, k \in OfCall : ~UnderWay(k, c)
      BY <2>2 DEF AtRest, UnderWay, Has
    <3>2. ASSUME NEW c \in ToolCall, gateAt[c] # NoId PROVE Taken(c)
      <4>1. progress[c] = "settled"
        BY <1>2, <2>2, <3>2 DEF LateInv, Stage, AtRest
      <4> QED
        BY <1>2, <3>1, <4>1 DEF LateInv, Stage, OfCall, Taken
    <3>3. Cardinality(Owed) = 0
      <4>1. Owed = {}
        BY <3>2 DEF Owed
      <4> QED
        BY <4>1, FS_EmptySet
    <3> QED
      BY <1>2, <3>3, EmptySeq DEF LateInv, Approvals, CorrelationTypeOK
  <2> QED
    BY <1>2, <2>1, <2>2 DEF NothingStale, LateInv, Approvals
<1>3. PairingInv => NothingStale
  BY <1>1, <1>2 DEF PairingInv
<1> QED
  BY <1>3, CorrelationInvariant, PTL
=============================================================================
