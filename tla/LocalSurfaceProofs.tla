------------------------- MODULE LocalSurfaceProofs -------------------------
(***************************************************************************)
(* Proofs about an agent in the process of its surface, for any number of  *)
(* turns, gated calls, questions and surfaces: the transport and the bridge *)
(* hold exactly what someone waits for, and a card is decided once.         *)
(*                                                                         *)
(* The second half is about the files such surfaces leave behind: whose     *)
(* transcript a sweep or a deletion takes.                                  *)
(***************************************************************************)
EXTENDS FiniteSetTheorems, SequenceTheorems, WellFoundedInduction,
        LocalSurface, SessionFiles, TLAPS

(* No decision was sent for a card that is not settled, and a settled one   *)
(* is not open, as long as the ledger remembers both.                       *)
LedgerInv ==
  \A w \in Gate \ pruned :
    IF w \in settled THEN sent[w] <= 1 /\ w \notin open ELSE sent[w] = 0

IInv == TypeOK /\ NoCutTurnWaits /\ OneQuestion /\ LedgerInv

LEMMA TurnsAreNumbers == Turn \subseteq Nat /\ MaxTurns \in Nat
  BY SurfaceAssumption DEF Turn

LEMMA InitInv == Init => IInv
  BY SurfaceAssumption, TurnsAreNumbers
  DEF Init, IInv, TypeOK, NoCutTurnWaits, OneQuestion, LedgerInv, Wait, Turn

(***************************************************************************)
(* Turns                                                                   *)
(***************************************************************************)
LEMMA SweepKeeps ==
  ASSUME IInv, NEW t \in 0 .. MaxTurns, Sweep(t), stopped' \subseteq stopped \cup {t},
         UNCHANGED bridgeVars
  PROVE  /\ pending' \subseteq Gate
         /\ outcome' \in [Wait -> {"new", "waiting", "answered", "refused"}]
         /\ of' = of /\ index' = index
         /\ NoCutTurnWaits' /\ OneQuestion'
  <1>1. outcome' \in [Wait -> {"new", "waiting", "answered", "refused"}] /\ pending' \subseteq Gate
    BY DEF Sweep, IInv, TypeOK
  <1>2. NoCutTurnWaits'
    BY SurfaceAssumption DEF Sweep, Swept, IInv, TypeOK, NoCutTurnWaits, Wait
  <1>3. \A w \in Question : outcome'[w] = outcome[w]
    BY SurfaceAssumption DEF Sweep, Swept, IInv, TypeOK, Wait
  <1>4. OneQuestion'
    BY <1>3 DEF IInv, OneQuestion, bridgeVars
  <1>5. QED
    BY <1>1, <1>2, <1>4 DEF Sweep

LEMMA NewTurnKeeps == IInv /\ NewTurn => IInv'
  <1> SUFFICES ASSUME IInv, NewTurn PROVE IInv'
    OBVIOUS
  <1>1. turn \in 0 .. MaxTurns /\ Sweep(turn) /\ UNCHANGED bridgeVars /\ UNCHANGED ledgerVars
    BY DEF NewTurn, IInv, TypeOK
  <1>2. stopped' \subseteq stopped \cup {turn}
    BY DEF NewTurn
  <1>3. /\ turn' \in 0 .. MaxTurns /\ stopped' \subseteq Turn /\ dropped' \subseteq Turn
        /\ store' \subseteq Gate /\ screen' \subseteq Gate
    <2>1. turn \in 0 .. MaxTurns /\ turn < MaxTurns /\ turn' = turn + 1
      BY DEF NewTurn, IInv, TypeOK
    <2>2. turn' \in 0 .. MaxTurns
      BY <2>1, TurnsAreNumbers
    <2>3. stopped' \subseteq Turn /\ dropped' \subseteq Turn /\ store' = {} /\ screen' = {}
      BY DEF NewTurn, IInv, TypeOK
    <2>4. QED
      BY <2>2, <2>3
  <1>4. TypeOK'
    BY <1>1, <1>2, <1>3, SweepKeeps DEF IInv, TypeOK, bridgeVars, ledgerVars
  <1>5. LedgerInv'
    BY <1>1 DEF IInv, LedgerInv, ledgerVars
  <1>6. QED
    BY <1>1, <1>2, <1>4, <1>5, SweepKeeps DEF IInv

LEMMA AbortTurnKeeps == IInv /\ AbortTurn => IInv'
  <1> SUFFICES ASSUME IInv, AbortTurn PROVE IInv'
    OBVIOUS
  <1>1. turn \in 0 .. MaxTurns /\ Sweep(turn) /\ UNCHANGED bridgeVars /\ UNCHANGED ledgerVars
    BY DEF AbortTurn, IInv, TypeOK
  <1>2. stopped' \subseteq stopped \cup {turn}
    BY DEF AbortTurn
  <1>3. /\ turn' \in 0 .. MaxTurns /\ stopped' \subseteq Turn /\ dropped' \subseteq Turn
        /\ store' \subseteq Gate /\ screen' \subseteq Gate
    BY DEF AbortTurn, IInv, TypeOK
  <1>4. TypeOK'
    BY <1>1, <1>2, <1>3, SweepKeeps DEF IInv, TypeOK, bridgeVars, ledgerVars
  <1>5. LedgerInv'
    BY <1>1 DEF IInv, LedgerInv, ledgerVars
  <1>6. QED
    BY <1>1, <1>2, <1>4, <1>5, SweepKeeps DEF IInv

(***************************************************************************)
(* Cards and the ledger                                                    *)
(***************************************************************************)
LEMMA AwaitApprovalKeeps ==
  ASSUME IInv, NEW t \in 1 .. turn, NEW w \in Gate, AwaitApproval(w, t) PROVE IInv'
  <1>1. t \in 0 .. MaxTurns /\ turn \in 0 .. MaxTurns /\ w \in Wait
    BY TurnsAreNumbers DEF IInv, TypeOK, Wait
  <1>2. TypeOK'
    BY <1>1 DEF AwaitApproval, Begin, IInv, TypeOK, ledgerVars, bridgeVars, turnVars
  <1>3. NoCutTurnWaits'
    BY <1>1, SurfaceAssumption
    DEF AwaitApproval, Begin, Refuses, IInv, TypeOK, NoCutTurnWaits, turnVars, Wait
  <1>4. OneQuestion'
    BY <1>1, SurfaceAssumption DEF AwaitApproval, Begin, IInv, TypeOK, OneQuestion, bridgeVars, Wait
  <1>5. LedgerInv'
    BY DEF AwaitApproval, IInv, LedgerInv, ledgerVars
  <1>6. QED
    BY <1>2, <1>3, <1>4, <1>5 DEF IInv

LEMMA DecideKeeps == ASSUME IInv, NEW w \in Gate, Decide(w) PROVE IInv'
  <1>1. TypeOK'
    <2>1. sent' \in [Gate -> Nat]
      BY DEF Decide, IInv, TypeOK
    <2>2. outcome' \in [Wait -> {"new", "waiting", "answered", "refused"}]
      BY DEF Decide, IInv, TypeOK
    <2>3. open' \subseteq Gate /\ settled' \subseteq Gate /\ pending' \subseteq Gate
      BY DEF Decide, IInv, TypeOK
    <2>4. QED
      BY <2>1, <2>2, <2>3 DEF Decide, IInv, TypeOK, turnVars, cardVars, bridgeVars
  <1>2. NoCutTurnWaits'
    BY SurfaceAssumption DEF Decide, IInv, TypeOK, NoCutTurnWaits, turnVars, Wait
  <1>3. OneQuestion'
    BY SurfaceAssumption DEF Decide, IInv, TypeOK, OneQuestion, bridgeVars, Wait
  <1>4. LedgerInv'
    BY DEF Decide, IInv, TypeOK, LedgerInv
  <1>5. QED
    BY <1>1, <1>2, <1>3, <1>4 DEF IInv

LEMMA PollKeeps == IInv /\ Poll => IInv'
  <1> SUFFICES ASSUME IInv, Poll PROVE IInv'
    OBVIOUS
  <1>1. TypeOK'
    BY DEF Poll, Ingested, IInv, TypeOK, turnVars, waitVars, cardVars, bridgeVars
  <1>2. NoCutTurnWaits' /\ OneQuestion'
    BY DEF Poll, IInv, NoCutTurnWaits, OneQuestion, turnVars, waitVars, bridgeVars
  <1>3. LedgerInv'
    BY DEF Poll, Ingested, IInv, LedgerInv
  <1>4. QED
    BY <1>1, <1>2, <1>3 DEF IInv

LEMMA PruneBeforeKeeps == ASSUME IInv, NEW k \in 1 .. turn, PruneBefore(k) PROVE IInv'
  <1>1. TypeOK'
    BY DEF PruneBefore, IInv, TypeOK, turnVars, waitVars, cardVars, bridgeVars
  <1>2. NoCutTurnWaits' /\ OneQuestion'
    BY DEF PruneBefore, IInv, NoCutTurnWaits, OneQuestion, turnVars, waitVars, bridgeVars
  <1>3. LedgerInv'
    BY DEF PruneBefore, IInv, LedgerInv
  <1>4. QED
    BY <1>1, <1>2, <1>3 DEF IInv

LEMMA CardsKeep ==
  ASSUME IInv, (\E w \in Gate : Output(w)) \/ Show PROVE IInv'
  <1>1. UNCHANGED <<turnVars, waitVars, pending, ledgerVars, bridgeVars>>
    BY DEF Output, Show
  <1>2. store' \subseteq Gate /\ screen' \subseteq Gate
    BY DEF Output, Show, IInv, TypeOK
  <1>3. QED
    BY <1>1, <1>2
    DEF IInv, TypeOK, NoCutTurnWaits, OneQuestion, LedgerInv, turnVars, waitVars, ledgerVars, bridgeVars

(***************************************************************************)
(* The bridge                                                              *)
(***************************************************************************)
LEMMA AskKeeps ==
  ASSUME IInv, NEW t \in 1 .. turn, NEW w \in Question, Ask(w, t) PROVE IInv'
  <1>1. t \in 0 .. MaxTurns /\ turn \in 0 .. MaxTurns /\ w \in Wait
    BY TurnsAreNumbers DEF IInv, TypeOK, Wait
  <1>2. PICK result \in {"refused", "waiting"} : Begin(w, t, result)
    BY DEF Ask
  <1>3. TypeOK'
    BY <1>1, <1>2 DEF Ask, Begin, IInv, TypeOK, turnVars, cardVars, ledgerVars, bridgeVars
  <1>4. NoCutTurnWaits'
    BY <1>1, <1>2, SurfaceAssumption DEF Ask, Begin, IInv, TypeOK, NoCutTurnWaits, turnVars, Wait
  <1>5. OneQuestion'
    <2>1. CASE byThread # None \/ listener = None
      BY <1>1, <2>1 DEF Ask, Begin, IInv, TypeOK, OneQuestion, bridgeVars, Wait
    <2>2. CASE ~(byThread # None \/ listener = None)
      BY <1>1, <2>2, SurfaceAssumption DEF Ask, Begin, IInv, TypeOK, OneQuestion, Wait
    <2>3. QED
      BY <2>1, <2>2
  <1>6. LedgerInv'
    BY DEF Ask, IInv, LedgerInv, ledgerVars
  <1>7. QED
    BY <1>3, <1>4, <1>5, <1>6 DEF IInv

LEMMA SettleKeeps ==
  ASSUME IInv, NEW w \in byId, NEW result \in {"answered", "refused"}, Settle(w, result),
         UNCHANGED <<turnVars, pending, cardVars, ledgerVars, listener>>,
         prompt' \in [Surface -> Question \cup {None}]
  PROVE  IInv'
  <1>1. w \in Question /\ w \in Wait /\ byId = {w}
    BY DEF IInv, TypeOK, OneQuestion, Wait
  <1>2. TypeOK'
    BY <1>1 DEF Settle, ForgetThread, IInv, TypeOK, turnVars, cardVars, ledgerVars
  <1>3. NoCutTurnWaits'
    BY <1>1, SurfaceAssumption DEF Settle, IInv, TypeOK, NoCutTurnWaits, turnVars, Wait
  <1>4. OneQuestion'
    BY <1>1 DEF Settle, ForgetThread, IInv, TypeOK, OneQuestion, Wait
  <1>5. LedgerInv'
    BY DEF IInv, LedgerInv, ledgerVars
  <1>6. QED
    BY <1>2, <1>3, <1>4, <1>5 DEF IInv

LEMMA ListenersKeep ==
  ASSUME IInv, UNCHANGED <<turnVars, waitVars, pending, cardVars, ledgerVars, byThread, byId>>,
         listener' \in Surface \cup {None}, prompt' \in [Surface -> Question \cup {None}]
  PROVE  IInv'
  BY DEF IInv, TypeOK, NoCutTurnWaits, OneQuestion, LedgerInv, turnVars, waitVars, cardVars, ledgerVars

LEMMA AnswerKeeps == ASSUME IInv, NEW s \in Surface, Answer(s) PROVE IInv'
  <1>1. prompt' \in [Surface -> Question \cup {None}]
    BY DEF Answer, IInv, TypeOK
  <1>2. CASE prompt[s] \in byId
    BY <1>1, <1>2, SettleKeeps DEF Answer
  <1>3. CASE prompt[s] \notin byId
    BY <1>1, <1>3, ListenersKeep DEF Answer, IInv, TypeOK
  <1>4. QED
    BY <1>2, <1>3

LEMMA AbandonKeeps == IInv /\ Abandon => IInv'
  <1> SUFFICES ASSUME IInv, Abandon PROVE IInv'
    OBVIOUS
  <1>1. byThread \in byId /\ Settle(byThread, "refused")
    BY DEF Abandon, IInv, OneQuestion
  <1>2. prompt' \in [Surface -> Question \cup {None}]
    BY DEF Abandon, IInv, TypeOK
  <1>3. QED
    BY <1>1, <1>2, SettleKeeps DEF Abandon

LEMMA AttachKeeps == ASSUME IInv, NEW s \in Surface, Attach(s) \/ Detach(s) PROVE IInv'
  BY ListenersKeep DEF Attach, Detach, IInv, TypeOK

LEMMA StepInv == IInv /\ [Next]_vars => IInv'
  <1> SUFFICES ASSUME IInv, [Next]_vars PROVE IInv'
    OBVIOUS
  <1>1. CASE NewTurn \/ AbortTurn \/ Poll \/ Abandon \/ Show
    BY <1>1, NewTurnKeeps, AbortTurnKeeps, PollKeeps, AbandonKeeps, CardsKeep
  <1>2. CASE \E t \in 1 .. turn : \/ \E w \in Gate : AwaitApproval(w, t)
                                  \/ \E w \in Question : Ask(w, t)
    BY <1>2, AwaitApprovalKeeps, AskKeeps
  <1>3. CASE \E w \in Gate : Output(w) \/ Decide(w)
    BY <1>3, CardsKeep, DecideKeeps
  <1>4. CASE \E k \in 1 .. turn : PruneBefore(k)
    BY <1>4, PruneBeforeKeeps
  <1>5. CASE \E s \in Surface : Answer(s) \/ Attach(s) \/ Detach(s)
    BY <1>5, AnswerKeeps, AttachKeeps
  <1>6. CASE UNCHANGED vars
    BY <1>6, ListenersKeep DEF vars, bridgeVars, IInv, TypeOK
  <1>7. QED
    BY <1>1, <1>2, <1>3, <1>4, <1>5, <1>6 DEF Next

(* The invariant holds in every state. *)
THEOREM InvHolds == Spec => []IInv
  BY InitInv, StepInv, PTL DEF Spec

(* Every wait the transport holds is awaited and of a turn that was not     *)
(* aborted, in whatever order a turn is cut, replaced and its calls come.   *)
THEOREM CutTurnsWaitForNothing == Spec => []NoCutTurnWaits
  <1>1. IInv => NoCutTurnWaits
    BY DEF IInv
  <1>2. QED
    BY <1>1, InvHolds, PTL

(* A question is pending exactly while both maps of the bridge name it. *)
THEOREM BridgeIsExact == Spec => []OneQuestion
  <1>1. IInv => OneQuestion
    BY DEF IInv
  <1>2. QED
    BY <1>1, InvHolds, PTL

(* A card is decided once, through any stale polls of the ledger. *)
THEOREM CardsAreDecidedOnce == Spec => []DecidedOnce
  <1>1. IInv => DecidedOnce
    BY DEF IInv, TypeOK, LedgerInv, DecidedOnce
  <1>2. QED
    BY <1>1, InvHolds, PTL

-----------------------------------------------------------------------------
(***************************************************************************)
(* Sessions on disk.  What a sweep still has to collect was read before it  *)
(* began to wait; the invariant says what of that is still true.            *)
(***************************************************************************)
(* While a sweep waits there is a session it waits about, and those it may *)
(* still take are not live, unless they were returned to.                  *)
SweepInv ==
  sweep = "registry" =>
    /\ candidates # <<>>
    /\ \A s \in Listed(candidates) : s \in Files /\ Live(s) => s \in returned

SessionInv == SessionTypeOK /\ SweepInv

LEMMA ListedIsFinite ==
  ASSUME NEW q \in Seq(Session), NEW kept \in SUBSET Listed(q)
  PROVE  Cardinality(kept) \in Nat
<1>1. Len(q) \in Nat /\ DOMAIN q = 1 .. Len(q)
  OBVIOUS
<1>2. IsFiniteSet(DOMAIN q)
  BY <1>1, FS_Interval
<1>3. q \in Surjection(DOMAIN q, Listed(q))
  BY DEF Surjection, Listed
<1>4. IsFiniteSet(Listed(q))
  BY <1>2, <1>3, FS_Surjection
<1> QED
  BY <1>4, FS_Subset, FS_CardinalityType

LEMMA InOrderLists ==
  ASSUME NEW q \in Seq(Session), NEW kept \in SUBSET Listed(q), NEW t \in InOrderOf(q, kept)
  PROVE  t \in Seq(Session) /\ Listed(t) = kept
<1>1. Cardinality(kept) \in Nat
  BY ListedIsFinite
<1>2. t \in [1 .. Cardinality(kept) -> kept] /\ kept \subseteq Listed(t)
  BY DEF InOrderOf
<1>3. Listed(q) \subseteq Session
  BY DEF Listed
<1>4. Listed(t) = kept
  BY <1>2 DEF Listed
<1>5. t \in Seq(Session)
  BY <1>1, <1>2, <1>3, SeqDef
<1> QED
  BY <1>4, <1>5

LEMMA WriteLists ==
  ASSUME SessionTypeOK, NEW s \in Session, Write(s)
  PROVE  /\ transcripts' \in Seq(Session) /\ Files' = Files \cup {s}
         /\ old' \subseteq Files'
<1>1. PICK others \in InOrderOf(transcripts, Files \ {s}) : transcripts' = <<s>> \o others
  BY DEF Write
<1>2. transcripts \in Seq(Session) /\ old \subseteq Files /\ old' = old \ {s}
  BY DEF SessionTypeOK, Write
<1>3. others \in Seq(Session) /\ Listed(others) = Files \ {s}
  BY <1>2, InOrderLists DEF Files
<1>4. /\ <<s>> \in Seq(Session) /\ Len(<<s>>) = 1 /\ <<s>>[1] = s
      /\ Len(others) \in Nat /\ DOMAIN others = 1 .. Len(others)
  BY <1>3
<1>5. /\ transcripts' \in Seq(Session)
      /\ DOMAIN transcripts' = 1 .. 1 + Len(others)
      /\ transcripts'[1] = s
      /\ \A i \in 1 .. Len(others) : transcripts'[1 + i] = others[i]
  BY <1>1, <1>3, <1>4, ConcatProperties
<1>6. Files' = {s} \cup Listed(others)
  <2>1. \A i \in DOMAIN transcripts' : i = 1 \/ i - 1 \in DOMAIN others
    BY <1>4, <1>5
  <2>2. \A i \in DOMAIN transcripts' : transcripts'[i] \in {s} \cup Listed(others)
    <3> SUFFICES ASSUME NEW i \in DOMAIN transcripts', i # 1 PROVE transcripts'[i] \in Listed(others)
      BY <1>5
    <3>1. i - 1 \in DOMAIN others /\ transcripts'[i] = others[i - 1]
      BY <1>4, <1>5, <2>1
    <3> QED
      BY <3>1 DEF Listed
  <2>3. 1 \in DOMAIN transcripts' /\ \A i \in DOMAIN others : 1 + i \in DOMAIN transcripts'
    BY <1>4, <1>5
  <2>4. \A x \in {s} \cup Listed(others) : \E i \in DOMAIN transcripts' : transcripts'[i] = x
    BY <1>4, <1>5, <2>3 DEF Listed
  <2> QED
    BY <2>2, <2>4 DEF Files, Listed
<1> QED
  BY <1>2, <1>3, <1>5, <1>6

LEMMA UnlinkLists ==
  ASSUME SessionTypeOK, NEW gone, Unlink(gone)
  PROVE  transcripts' \in Seq(Session) /\ Files' = Files \ gone /\ old' \subseteq Files'
<1>1. transcripts \in Seq(Session) /\ old \subseteq Files
  BY DEF SessionTypeOK
<1>2. transcripts' \in InOrderOf(transcripts, Files \ gone) /\ old' = old \ gone
  BY DEF Unlink
<1>3. Files \ gone \in SUBSET Listed(transcripts)
  BY DEF Files
<1>4. transcripts' \in Seq(Session) /\ Listed(transcripts') = Files \ gone
  BY <1>1, <1>2, <1>3, InOrderLists
<1>5. Files' = Listed(transcripts')
  BY DEF Files, Listed
<1> QED
  BY <1>1, <1>2, <1>4, <1>5

(* A pass of the loop unlinks candidates only, and shortens the list.      *)
LEMMA LeastOfNaturals ==
  ASSUME NEW S \in SUBSET Nat, S # {}
  PROVE  \E i \in S : \A k \in S : i <= k
<1> DEFINE R == {r \in Nat \X Nat : r[1] < r[2]}
<1>1. IsWellFoundedOn(R, Nat)
  BY NatLessThanWellFounded DEF OpToRel
<1>2. ASSUME NEW x \in S, NEW y \in S, <<y, x>> \notin R PROVE x <= y
  BY <1>2
<1> HIDE DEF R
<1>3. \E x \in S : \A y \in S : <<y, x>> \notin R
  BY <1>1, WFMin
<1> QED
  BY <1>2, <1>3

LEMMA ProceedLists ==
  ASSUME SessionTypeOK, NEW q \in Seq(Session), NEW gone \in SUBSET Session, Proceed(q, gone)
  PROVE  /\ transcripts' \in Seq(Session) /\ old' \subseteq Files'
         /\ Files' \subseteq Files /\ Files \subseteq Files' \cup gone \cup Listed(q)
         /\ candidates' \in Seq(Session) /\ Len(candidates') <= Len(q)
         /\ Listed(candidates') \subseteq Listed(q)
         /\ sweep' = IF candidates' = <<>> THEN "idle" ELSE "registry"
         /\ returned' = IF candidates' = <<>> THEN {} ELSE returned
         /\ UNCHANGED <<pointer, lease, deletion>>
<1> DEFINE asked == {i \in DOMAIN q : q[i] \notin Unreadable}
           first == CHOOSE i \in asked : \A k \in asked : i <= k
           rest == IF asked = {} THEN <<>> ELSE SubSeq(q, first, Len(q))
<1>1. /\ Unlink(gone \cup (Listed(q) \ Listed(rest)))
      /\ candidates' = rest
      /\ sweep' = IF rest = <<>> THEN "idle" ELSE "registry"
      /\ returned' = IF rest = <<>> THEN {} ELSE returned
      /\ UNCHANGED <<pointer, lease, deletion>>
  BY DEF Proceed, surfaceVars
<1>2. Len(q) \in Nat /\ DOMAIN q = 1 .. Len(q) /\ \A i \in 1 .. Len(q) : q[i] \in Session
  OBVIOUS
<1>3. rest \in Seq(Session) /\ Len(rest) <= Len(q) /\ Listed(rest) \subseteq Listed(q)
  <2>1. CASE asked = {}
    <3>1. rest = <<>>
      BY <2>1
    <3> HIDE DEF rest
    <3> QED
      BY <1>2, <3>1 DEF Listed
  <2>2. CASE asked # {}
    <3>1. \E i \in asked : \A k \in asked : i <= k
      <4>1. asked \subseteq Nat /\ asked # {}
        BY <1>2, <2>2
      <4> HIDE DEF asked
      <4> QED
        BY <4>1, LeastOfNaturals
    <3>2. first \in asked
      BY <3>1
    <3>3. first \in 1 .. Len(q)
      BY <1>2, <3>2
    <3>4. rest = SubSeq(q, first, Len(q))
      BY <2>2
    <3> HIDE DEF asked, first, rest
    <3>5. rest \in Seq(Session) /\ Len(rest) = Len(q) - first + 1
          /\ \A i \in 1 .. Len(q) - first + 1 : rest[i] = q[first + i - 1]
      BY <1>2, <3>3, <3>4, SubSeqProperties
    <3>6. \A i \in DOMAIN rest : first + i - 1 \in DOMAIN q /\ rest[i] = q[first + i - 1]
      BY <1>2, <3>3, <3>5
    <3>7. Len(rest) <= Len(q)
      BY <1>2, <3>3, <3>5
    <3>8. Listed(rest) \subseteq Listed(q)
      BY <3>6 DEF Listed
    <3> QED
      BY <3>5, <3>7, <3>8
  <2> QED
    BY <2>1, <2>2
<1> HIDE DEF rest
<1>4. /\ transcripts' \in Seq(Session) /\ old' \subseteq Files'
      /\ Files' = Files \ (gone \cup (Listed(q) \ Listed(rest)))
  BY <1>1, UnlinkLists
<1> QED
  BY <1>1, <1>3, <1>4

LEMMA SessionStart == SessionInit => SessionInv
<1> SUFFICES ASSUME SessionInit PROVE SessionInv
  OBVIOUS
<1>1. SessionTypeOK
  BY DEF SessionInit, SessionTypeOK, NoDeletion, Files, Listed
<1>2. SweepInv
  BY DEF SessionInit, SweepInv
<1> QED
  BY <1>1, <1>2 DEF SessionInv

(* A session becomes live or gets a transcript by being returned to.       *)
LEMMA ReturningKeeps ==
  ASSUME SessionInv, NEW s \in Session, Returns(s), UNCHANGED <<sweepVars, deletion>>,
         transcripts' \in Seq(Session), Files' \subseteq Files \cup {s}, old' \subseteq Files',
         pointer' \in {pointer, s}, lease' \subseteq lease \cup {s}
  PROVE  SessionInv'
<1>1. sweep' = sweep /\ candidates' = candidates /\ deletion' = deletion
      /\ returned' = IF sweep = "registry" THEN returned \cup {s} ELSE returned
  BY DEF sweepVars, Returns
<1>2. SessionTypeOK'
  BY <1>1 DEF SessionInv, SessionTypeOK
<1>3. ASSUME sweep = "registry", NEW r \in Listed(candidates), r \in Files', Live(r)'
      PROVE  r \in returned'
  BY <1>1, <1>3 DEF SessionInv, SweepInv, Live
<1>4. SweepInv'
  <2> SUFFICES ASSUME sweep' = "registry"
               PROVE  /\ candidates' # <<>>
                      /\ \A r \in Listed(candidates') : r \in Files' /\ Live(r)' => r \in returned'
    BY DEF SweepInv
  <2>1. candidates' # <<>>
    BY <1>1 DEF SessionInv, SweepInv
  <2>2. Listed(candidates') = Listed(candidates) /\ sweep = "registry"
    BY <1>1
  <2> QED
    BY <1>3, <2>1, <2>2
<1> QED
  BY <1>2, <1>4 DEF SessionInv

(* What only takes away, or concerns neither the sweep nor a session, keeps *)
(* what the sweep relies on.                                               *)
LEMMA TakingKeeps ==
  ASSUME SessionInv, UNCHANGED <<sweepVars, returned>>, transcripts' \in Seq(Session),
         Files' \subseteq Files, old' \subseteq Files', pointer' = pointer, lease' \subseteq lease,
         deletion' \in [at : {"idle", "registry"}, of : Session \cup {NoSession}, force : BOOLEAN]
  PROVE  SessionInv'
<1>1. sweep' = sweep /\ candidates' = candidates /\ returned' = returned
  BY DEF sweepVars
<1>2. SessionTypeOK'
  BY <1>1 DEF SessionInv, SessionTypeOK
<1>3. ASSUME sweep = "registry", NEW r \in Listed(candidates), r \in Files', Live(r)'
      PROVE  r \in returned'
  BY <1>1, <1>3 DEF SessionInv, SweepInv, Live
<1>4. SweepInv'
  <2> SUFFICES ASSUME sweep' = "registry"
               PROVE  /\ candidates' # <<>>
                      /\ \A r \in Listed(candidates') : r \in Files' /\ Live(r)' => r \in returned'
    BY DEF SweepInv
  <2>1. candidates' # <<>>
    BY <1>1 DEF SessionInv, SweepInv
  <2>2. Listed(candidates') = Listed(candidates) /\ sweep = "registry"
    BY <1>1
  <2> QED
    BY <1>3, <2>1, <2>2
<1> QED
  BY <1>2, <1>4 DEF SessionInv

LEMMA ProceedKeeps ==
  ASSUME SessionInv, NEW q \in Seq(Session), NEW gone \in SUBSET Session, Proceed(q, gone),
         \A s \in Listed(q) : s \in Files /\ Live(s) => s \in returned
  PROVE  SessionInv'
<1>1. /\ transcripts' \in Seq(Session) /\ old' \subseteq Files' /\ Files' \subseteq Files
      /\ candidates' \in Seq(Session) /\ Listed(candidates') \subseteq Listed(q)
      /\ sweep' = IF candidates' = <<>> THEN "idle" ELSE "registry"
      /\ returned' = IF candidates' = <<>> THEN {} ELSE returned
      /\ UNCHANGED <<pointer, lease, deletion>>
  BY ProceedLists DEF SessionInv
<1>2. SessionTypeOK'
  BY <1>1 DEF SessionInv, SessionTypeOK
<1>3. SweepInv'
  <2> SUFFICES ASSUME sweep' = "registry"
               PROVE  /\ candidates' # <<>>
                      /\ \A r \in Listed(candidates') : r \in Files' /\ Live(r)' => r \in returned'
    BY DEF SweepInv
  <2>1. candidates' # <<>> /\ returned' = returned
    BY <1>1
  <2>2. \A r : Live(r)' => Live(r)
    BY <1>1 DEF Live
  <2> QED
    BY <1>1, <2>1, <2>2
<1> QED
  BY <1>2, <1>3 DEF SessionInv

(* What apply goes through: the planned ones that are not protected now.   *)
LEMMA AppliedAreNotLive ==
  ASSUME SessionInv, NEW q \in InOrderOf(candidates, Listed(candidates) \ ProtectedNow)
  PROVE  q \in Seq(Session) /\ \A s \in Listed(q) : ~(s \in Files /\ Live(s))
<1>1. q \in Seq(Session) /\ Listed(q) = Listed(candidates) \ ProtectedNow
  BY InOrderLists DEF SessionInv, SessionTypeOK
<1> QED
  BY <1>1 DEF ProtectedNow, Protected, Live

(* What a sweep that waits goes on with.                                   *)
LEMMA WaitedFor ==
  ASSUME SessionInv, sweep = "registry"
  PROVE  /\ Tail(candidates) \in Seq(Session) /\ {Head(candidates)} \in SUBSET Session
         /\ Len(Tail(candidates)) < Len(candidates)
         /\ Listed(Tail(candidates)) \subseteq Listed(candidates)
         /\ Head(candidates) \in Listed(candidates)
<1>1. candidates \in Seq(Session) /\ candidates # <<>>
  BY DEF SessionInv, SessionTypeOK, SweepInv
<1>2. /\ Len(candidates) \in Nat /\ 1 <= Len(candidates)
      /\ DOMAIN candidates = 1 .. Len(candidates)
      /\ Tail(candidates) \in Seq(Session) /\ Len(Tail(candidates)) = Len(candidates) - 1
      /\ DOMAIN Tail(candidates) = 1 .. Len(candidates) - 1
      /\ \A i \in 1 .. Len(candidates) - 1 : Tail(candidates)[i] = candidates[i + 1]
      /\ Head(candidates) = candidates[1]
      /\ Head(candidates) \in Session
  BY <1>1
<1>3. \A i \in DOMAIN Tail(candidates) :
        i + 1 \in DOMAIN candidates /\ Tail(candidates)[i] = candidates[i + 1]
  BY <1>2
<1>4. 1 \in DOMAIN candidates
  BY <1>2
<1> QED
  BY <1>2, <1>3, <1>4 DEF Listed

LEMMA SessionStep == SessionInv /\ [SessionNext]_sessionVars => SessionInv'
<1> SUFFICES ASSUME SessionInv, [SessionNext]_sessionVars PROVE SessionInv'
  OBVIOUS
<1>t. SessionTypeOK
  BY DEF SessionInv
<1>d. /\ deletion \in [at : {"idle", "registry"}, of : Session \cup {NoSession}, force : BOOLEAN]
      /\ NoDeletion \in [at : {"idle", "registry"}, of : Session \cup {NoSession}, force : BOOLEAN]
      /\ transcripts \in Seq(Session) /\ old \subseteq Files
  BY <1>t DEF SessionTypeOK, NoDeletion
<1>u. transcripts' = transcripts => Files' = Files
  BY DEF Files, Listed
<1>1. ASSUME NEW s \in Session, Open(s) \/ PersistSessionId(s) PROVE SessionInv'
  BY <1>d, <1>u, <1>1, ReturningKeeps DEF Open, PersistSessionId
<1>2. ASSUME NEW s \in Session, Write(s), Returns(s), UNCHANGED <<surfaceVars, sweepVars, deletion>>
      PROVE  SessionInv'
  <2>1. transcripts' \in Seq(Session) /\ Files' = Files \cup {s} /\ old' \subseteq Files'
    BY <1>t, <1>2, WriteLists
  <2> QED
    BY <1>2, <2>1, ReturningKeeps DEF surfaceVars
<1>3. ASSUME NEW s \in Session, Close(s) PROVE SessionInv'
  BY <1>d, <1>u, <1>3, TakingKeeps DEF Close
<1>4. ASSUME NEW s \in Session, NEW force \in BOOLEAN, DeleteSession(s, force) PROVE SessionInv'
  <2>1. deletion' \in [at : {"idle", "registry"}, of : Session \cup {NoSession}, force : BOOLEAN]
    BY <1>4 DEF DeleteSession
  <2> QED
    BY <1>d, <1>u, <1>4, <2>1, TakingKeeps DEF DeleteSession, surfaceVars
<1>5. CASE Age
  <2>1. PICK i \in DOMAIN transcripts : old' = old \cup {transcripts[i]}
    BY <1>5 DEF Age
  <2>2. old' \subseteq Files'
    BY <1>d, <1>u, <1>5, <2>1 DEF Age, Files, Listed
  <2> QED
    BY <1>d, <1>u, <1>5, <2>2, TakingKeeps DEF Age, surfaceVars
<1>6. CASE PlanTranscriptGC
  <2>1. PICK keeps : candidates' \in InOrderOf(transcripts, old \ keeps)
    BY <1>6 DEF PlanTranscriptGC
  <2>2. candidates' \in Seq(Session)
    BY <1>d, <2>1, InOrderLists DEF Files
  <2>3. SessionTypeOK'
    BY <1>t, <1>u, <1>6, <2>2 DEF PlanTranscriptGC, SessionTypeOK, surfaceVars
  <2> QED
    BY <1>6, <2>3 DEF PlanTranscriptGC, SessionInv, SweepInv
<1>7. CASE RunTranscriptGC
  <2>1. PICK q \in InOrderOf(candidates, Listed(candidates) \ ProtectedNow) : Proceed(q, {})
    BY <1>7 DEF RunTranscriptGC
  <2> QED
    BY <2>1, AppliedAreNotLive, ProceedKeeps
<1>8. CASE Released \/ NotReleased
  <2>1. sweep = "registry"
    BY <1>8 DEF Released, NotReleased
  <2>2. \A s \in Listed(Tail(candidates)) : s \in Files /\ Live(s) => s \in returned
    BY <2>1, WaitedFor DEF SessionInv, SweepInv
  <2> QED
    BY <1>8, <2>1, <2>2, WaitedFor, ProceedKeeps DEF Released, NotReleased
<1>9. CASE RegistryAnswers
  <2>1. transcripts' \in Seq(Session) /\ Files' \subseteq Files /\ old' \subseteq Files'
    BY <1>t, <1>d, <1>u, <1>9, UnlinkLists DEF RegistryAnswers
  <2> QED
    BY <1>d, <1>9, <2>1, TakingKeeps DEF RegistryAnswers, surfaceVars
<1>10. CASE RegistryFails
  BY <1>d, <1>u, <1>10, TakingKeeps DEF RegistryFails, surfaceVars
<1>11. CASE UNCHANGED sessionVars
  BY <1>d, <1>u, <1>11, TakingKeeps DEF sessionVars, surfaceVars
<1> QED
  BY <1>1, <1>2, <1>3, <1>4, <1>5, <1>6, <1>7, <1>8, <1>9, <1>10, <1>11
  DEF SessionNext, Extend, Fork

LEMMA SessionInvariant == SessionSpec => []SessionInv
  BY SessionStart, SessionStep, PTL DEF SessionSpec

(* While a sweep waits for the registry a session may be returned to, and  *)
(* loses its transcript (LeaseProtects is refuted); no other live session  *)
(* does, however many there are and whatever their surfaces do.            *)
THEOREM SweepsSpareTheLive == SessionSpec => SweepSparesLive
<1>1. ASSUME SessionInv, [SessionNext]_sessionVars
      PROVE  [\A s \in Session : UNCHANGED deletion /\ Unlinks(s) /\ Live(s) => s \in returned]_sessionVars
  <2> SUFFICES ASSUME NEW s \in Session, UNCHANGED deletion, Unlinks(s), Live(s) PROVE s \in returned
    OBVIOUS
  <2>t. SessionTypeOK
    BY <1>1 DEF SessionInv
  <2>s. s \in Files /\ s \notin Files'
    BY DEF Unlinks
  <2>u. transcripts' # transcripts
    BY <2>s DEF Files, Listed
  <2>1. ASSUME NEW r \in Session, Write(r) PROVE FALSE
    BY <2>t, <2>s, <2>1, WriteLists
  <2>2. ASSUME RunTranscriptGC PROVE FALSE
    <3>1. PICK q \in InOrderOf(candidates, Listed(candidates) \ ProtectedNow) : Proceed(q, {})
      BY <2>2 DEF RunTranscriptGC
    <3>2. q \in Seq(Session) /\ s \notin Listed(q)
      BY <1>1, <2>s, AppliedAreNotLive
    <3> QED
      BY <2>t, <2>s, <3>1, <3>2, ProceedLists
  <2>3. ASSUME Released \/ NotReleased PROVE s \in returned
    <3>1. sweep = "registry"
      BY <2>3 DEF Released, NotReleased
    <3>2. s \in Listed(candidates)
      <4>1. PICK gone \in {{}, {Head(candidates)}} : Proceed(Tail(candidates), gone)
        BY <2>3 DEF Released, NotReleased
      <4>2. gone \in SUBSET Session /\ gone \subseteq Listed(candidates)
        BY <1>1, <3>1, <4>1, WaitedFor
      <4>3. Tail(candidates) \in Seq(Session) /\ Listed(Tail(candidates)) \subseteq Listed(candidates)
        BY <1>1, <3>1, WaitedFor
      <4>4. Files \subseteq Files' \cup gone \cup Listed(Tail(candidates))
        BY <2>t, <4>1, <4>2, <4>3, ProceedLists
      <4> QED
        BY <2>s, <4>2, <4>3, <4>4
    <3> QED
      BY <1>1, <2>s, <3>1, <3>2 DEF SessionInv, SweepInv
  <2>4. ~RegistryAnswers
    BY DEF RegistryAnswers, NoDeletion
  <2> QED
    BY <1>1, <2>u, <2>1, <2>2, <2>3, <2>4
    DEF SessionNext, sessionVars, Open, Extend, PersistSessionId, Close, Fork, DeleteSession, Age,
        PlanTranscriptGC, RegistryFails
<1> QED
  BY <1>1, SessionInvariant, PTL DEF SessionSpec, SweepSparesLive

(* A deletion that is not forced reads what is protected once more when the *)
(* registry has answered: whoever wrote, opened or pointed at the session  *)
(* during the wait keeps it (deleteSession).                               *)
THEOREM DeletionsSpareTheProtected == SessionSpec => DeleteSparesProtected
<1>1. ASSUME SessionInv, [SessionNext]_sessionVars
      PROVE  [\A s \in Session : UNCHANGED sweepVars /\ Unlinks(s) /\ s \in Protected
                => deletion.force]_sessionVars
  <2> SUFFICES ASSUME NEW s \in Session, UNCHANGED sweepVars, Unlinks(s), s \in Protected
               PROVE  deletion.force
    OBVIOUS
  <2>t. SessionTypeOK
    BY <1>1 DEF SessionInv
  <2>s. s \in Files /\ s \notin Files'
    BY DEF Unlinks
  <2>u. transcripts' # transcripts
    BY <2>s DEF Files, Listed
  <2>1. ASSUME NEW r \in Session, Write(r) PROVE FALSE
    BY <2>t, <2>s, <2>1, WriteLists
  <2>2. ASSUME RunTranscriptGC PROVE FALSE
    <3>1. PICK q \in InOrderOf(candidates, Listed(candidates) \ ProtectedNow) : Proceed(q, {})
      BY <2>2 DEF RunTranscriptGC
    <3>2. sweep = "planned" /\ sweep' \in {"idle", "registry"}
      BY <2>2, <3>1 DEF RunTranscriptGC, Proceed
    <3> QED
      BY <3>2 DEF sweepVars
  <2>3. ASSUME Released \/ NotReleased PROVE FALSE
    <3>1. sweep = "registry"
      BY <2>3 DEF Released, NotReleased
    <3>2. PICK gone \in SUBSET Session : Proceed(Tail(candidates), gone)
      BY <1>1, <2>3, <3>1, WaitedFor DEF Released, NotReleased
    <3>3. /\ Tail(candidates) \in Seq(Session) /\ Len(Tail(candidates)) < Len(candidates)
          /\ Len(Tail(candidates)) \in Nat /\ Len(candidates) \in Nat
      BY <1>1, <2>t, <3>1, WaitedFor DEF SessionTypeOK
    <3>4. candidates' \in Seq(Session) /\ Len(candidates') <= Len(Tail(candidates))
      BY <2>t, <3>2, <3>3, ProceedLists
    <3>5. candidates' = candidates
      BY DEF sweepVars
    <3> QED
      BY <3>3, <3>4, <3>5
  <2>4. ASSUME RegistryAnswers PROVE deletion.force
    <3>1. ~(Rechecks /\ deletion.of \in Protected) /\ Unlink({deletion.of})
      BY <2>u, <2>4 DEF RegistryAnswers
    <3>2. s = deletion.of
      BY <2>t, <2>s, <3>1, UnlinkLists
    <3>3. deletion.force \in BOOLEAN
      BY <2>t DEF SessionTypeOK
    <3> QED
      BY <3>1, <3>2, <3>3 DEF Rechecks
  <2> QED
    BY <1>1, <2>u, <2>1, <2>2, <2>3, <2>4
    DEF SessionNext, sessionVars, Open, Extend, PersistSessionId, Close, Fork, DeleteSession, Age,
        PlanTranscriptGC, RegistryFails
<1> QED
  BY <1>1, SessionInvariant, PTL DEF SessionSpec, DeleteSparesProtected
=============================================================================
