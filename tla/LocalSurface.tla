---------------------------- MODULE LocalSurface ----------------------------
(***************************************************************************)
(* An agent in the process of its surface: the approvals InProcessTransport *)
(* holds for its turns (in-process-transport.ts), the ledger the surface    *)
(* keeps of the cards it may still decide (pending-ledger.ts), and the      *)
(* bridge that carries the agent's questions to it (ask-bridge.ts).  A wait *)
(* is one gated call or one question; its id is fresh.                      *)
(***************************************************************************)
EXTENDS Integers, FiniteSets

CONSTANTS MaxTurns,  \* bound on the turns sent
          Gate,      \* gated calls
          Question,  \* questions of the ask tool
          Surface,   \* surfaces that may listen on the thread
          None

Wait == Gate \cup Question
Turn == 1 .. MaxTurns

ASSUME SurfaceAssumption ==
  /\ MaxTurns \in Nat \ {0}
  /\ Gate \cap Question = {} /\ None \notin Wait \cup Surface

VARIABLES turn,     \* #turn of the transport
          stopped,  \* turns whose signal is aborted
          dropped,  \* turns that another replaced, never aborted
          outcome,  \* outcome[w]: "new", "waiting", "answered" or "refused"
          of,       \* of[w]: the turn it belongs to
          index,    \* index[w]: the messageIndex of its card
          pending,  \* the transport's pending approvals
          store,    \* cards in the store's messages
          screen,   \* cards in the snapshot shown last
          open, settled,          \* the ledger
          sent,     \* sent[w]: decisions sent for w
          pruned,   \* cards the ledger was told to forget
          byThread, byId,         \* the bridge's two maps
          listener, \* the surface that listens, or None
          prompt    \* prompt[s]: the question surface s displays

turnVars   == <<turn, stopped, dropped>>
waitVars   == <<outcome, of, index>>
cardVars   == <<store, screen>>
ledgerVars == <<open, settled, sent, pruned>>
bridgeVars == <<byThread, byId, listener, prompt>>
vars == <<turnVars, waitVars, pending, cardVars, ledgerVars, bridgeVars>>

TypeOK ==
  /\ turn \in 0 .. MaxTurns /\ stopped \subseteq Turn /\ dropped \subseteq Turn
  /\ outcome \in [Wait -> {"new", "waiting", "answered", "refused"}]
  /\ of \in [Wait -> 0 .. MaxTurns] /\ index \in [Wait -> 0 .. MaxTurns]
  /\ pending \subseteq Gate
  /\ store \subseteq Gate /\ screen \subseteq Gate
  /\ open \subseteq Gate /\ settled \subseteq Gate /\ pruned \subseteq Gate
  /\ sent \in [Gate -> Nat]
  /\ byThread \in Question \cup {None} /\ byId \subseteq Question
  /\ listener \in Surface \cup {None}
  /\ prompt \in [Surface -> Question \cup {None}]

Init ==
  /\ turn = 0 /\ stopped = {} /\ dropped = {}
  /\ outcome = [w \in Wait |-> "new"]
  /\ of = [w \in Wait |-> 0] /\ index = [w \in Wait |-> 0]
  /\ pending = {} /\ store = {} /\ screen = {}
  /\ open = {} /\ settled = {} /\ pruned = {} /\ sent = [w \in Gate |-> 0]
  /\ byThread = None /\ byId = {}
  /\ listener = None /\ prompt = [s \in Surface |-> None]

(***************************************************************************)
(* Turns                                                                   *)
(***************************************************************************)
\* Mutant of Refuses: the wait of an aborted turn is registered all the same.
RefusesNever(t) == FALSE

Swept(t) == {w \in pending : of[w] = t}
Refuses(t) == t \in stopped

Sweep(t) ==
  /\ pending' = pending \ Swept(t)
  /\ outcome' = [w \in Wait |-> IF w \in Swept(t) THEN "refused" ELSE outcome[w]]
  /\ UNCHANGED <<of, index>>

(* send() of the store aborts the turn its controller belongs to, which is  *)
(* the latest one, unless reconnect() has replaced that controller; then    *)
(* sendMessages sweeps the latest turn.  The messages start over.           *)
NewTurn ==
  /\ turn < MaxTurns
  /\ turn' = turn + 1
  /\ \/ stopped' = stopped \cup ({turn} \cap Turn) /\ UNCHANGED dropped
     \/ turn \in Turn \ stopped /\ dropped' = dropped \cup {turn} /\ UNCHANGED stopped
  /\ Sweep(turn)
  /\ store' = {} /\ screen' = {}
  /\ UNCHANGED <<ledgerVars, bridgeVars>>

AbortTurn ==
  /\ turn \in Turn \ stopped
  /\ stopped' = stopped \cup {turn} /\ UNCHANGED <<turn, dropped>>
  /\ Sweep(turn)
  /\ screen' \in {screen, store} /\ UNCHANGED store \* it emits if the turn streams
  /\ UNCHANGED <<ledgerVars, bridgeVars>>

(* Several waits of one turn may be outstanding at once, each answered by   *)
(* its own id; an aborted run may still begin one.                          *)
Begin(w, t, result) ==
  /\ outcome' = [outcome EXCEPT ![w] = result]
  /\ of' = [of EXCEPT ![w] = t] /\ index' = [index EXCEPT ![w] = turn]
  /\ UNCHANGED turnVars

(* A gated call is announced, to a drive that still heeds its stream, and  *)
(* then awaited.                                                           *)
AwaitApproval(w, t) ==
  /\ outcome[w] = "new"
  /\ Begin(w, t, IF Refuses(t) THEN "refused" ELSE "waiting")
  /\ pending' = IF Refuses(t) THEN pending ELSE pending \cup {w}
  /\ store' = IF t \in stopped THEN store ELSE store \cup {w}
  /\ UNCHANGED <<screen, ledgerVars, bridgeVars>>

(* The call has its result: its card is no longer a request. *)
Output(w) ==
  /\ w \in store /\ outcome[w] # "waiting" /\ of[w] \notin stopped
  /\ store' = store \ {w}
  /\ UNCHANGED <<turnVars, waitVars, pending, screen, ledgerVars, bridgeVars>>

Show ==
  /\ screen # store /\ screen' = store
  /\ UNCHANGED <<turnVars, waitVars, pending, store, ledgerVars, bridgeVars>>

(***************************************************************************)
(* The ledger                                                              *)
(***************************************************************************)
\* Mutants: a settled card comes back; the cutoff takes the card on it.
IngestedAgain == screen \ open
BeforeOrOn(w, k) == index[w] <= k

Ingested == screen \ (open \cup settled)
Before(w, k) == index[w] < k

Poll ==
  /\ Ingested # {}
  /\ open' = open \cup Ingested
  /\ UNCHANGED <<turnVars, waitVars, pending, cardVars, settled, sent, pruned, bridgeVars>>

(* The user decides the oldest card: settle() says whether to send, and    *)
(* approve() of the transport settles what is still pending.               *)
Decide(w) ==
  /\ w \in open /\ \A v \in open : index[w] <= index[v]
  /\ open' = open \ {w} /\ settled' = settled \cup {w}
  /\ sent' = [sent EXCEPT ![w] = @ + 1] /\ UNCHANGED pruned
  /\ pending' = pending \ {w}
  /\ outcome' = IF w \in pending THEN [outcome EXCEPT ![w] = "answered"] ELSE outcome
  /\ UNCHANGED <<turnVars, of, index, cardVars, bridgeVars>>

PruneBefore(k) ==
  LET forgotten == {w \in open \cup settled : Before(w, k)} IN
  /\ forgotten # {}
  /\ open' = open \ forgotten /\ settled' = settled \ forgotten
  /\ pruned' = pruned \cup forgotten
  /\ UNCHANGED <<turnVars, waitVars, pending, cardVars, sent, bridgeVars>>

(***************************************************************************)
(* The bridge                                                              *)
(***************************************************************************)
\* Mutant of ForgetThread: the thread keeps the question it forgot by id.
ForgetThreadNot == byThread

ForgetThread == None

Ask(w, t) ==
  /\ outcome[w] = "new"
  /\ IF byThread # None \/ listener = None
     THEN Begin(w, t, "refused") /\ UNCHANGED bridgeVars
     ELSE /\ Begin(w, t, "waiting")
          /\ byThread' = w /\ byId' = byId \cup {w}
          /\ prompt' = [prompt EXCEPT ![listener] = w] /\ UNCHANGED listener
  /\ UNCHANGED <<pending, cardVars, ledgerVars>>

Settle(w, result) ==
  /\ byThread' = ForgetThread /\ byId' = byId \ {w}
  /\ outcome' = [outcome EXCEPT ![w] = result]
  /\ UNCHANGED <<of, index>>

(* A surface answers what it displays; an id no longer pending is refused. *)
Answer(s) ==
  /\ prompt[s] # None
  /\ prompt' = [prompt EXCEPT ![s] = None]
  /\ IF prompt[s] \in byId THEN Settle(prompt[s], "answered") ELSE UNCHANGED <<byThread, byId, waitVars>>
  /\ UNCHANGED <<turnVars, pending, cardVars, ledgerVars, listener>>

(* The rejection is followed by onAbandon of whoever listens now. *)
Abandon ==
  /\ byThread # None
  /\ Settle(byThread, "refused")
  /\ prompt' = IF listener = None THEN prompt ELSE [prompt EXCEPT ![listener] = None]
  /\ UNCHANGED <<turnVars, pending, cardVars, ledgerVars, listener>>

(* setListener, and the function it returned. *)
Attach(s) ==
  /\ listener = None /\ listener' = s
  /\ UNCHANGED <<turnVars, waitVars, pending, cardVars, ledgerVars, byThread, byId, prompt>>

Detach(s) ==
  /\ listener = s /\ listener' = None
  /\ UNCHANGED <<turnVars, waitVars, pending, cardVars, ledgerVars, byThread, byId, prompt>>

Next ==
  \/ NewTurn \/ AbortTurn
  \/ \E t \in 1 .. turn : \/ \E w \in Gate : AwaitApproval(w, t)
                          \/ \E w \in Question : Ask(w, t)
  \/ \E w \in Gate : Output(w) \/ Decide(w)
  \/ Show \/ Poll \/ \E k \in 1 .. turn : PruneBefore(k)
  \/ Abandon \/ \E s \in Surface : Answer(s) \/ Attach(s) \/ Detach(s)

Spec == Init /\ [][Next]_vars

(* The surface renders, polls and is used by someone who decides cards, and *)
(* answers prompts as long as it is attached; nobody need abort, abandon,   *)
(* prune or attach.                                                         *)
FairSpec ==
  /\ Spec /\ WF_vars(Show) /\ WF_vars(Poll)
  /\ WF_vars(\E w \in Gate : Decide(w))
  /\ \A s \in Surface : WF_vars(listener = s /\ Answer(s))

(***************************************************************************)
(* Properties                                                              *)
(***************************************************************************)
(* The transport holds exactly the approvals someone awaits, and none of a *)
(* turn that was aborted, though its run may still call a gated tool.      *)
NoCutTurnWaits ==
  /\ pending = {w \in Gate : outcome[w] = "waiting"}
  /\ \A w \in pending : of[w] \notin stopped

(* A decision is sent once, however often the card is reported, unless the *)
(* ledger was told to forget it.                                           *)
DecidedOnce == \A w \in Gate \ pruned : sent[w] <= 1

(* The bridge's two maps name the same question, and a question waits      *)
(* exactly while they name it: a settled one never blocks the next.        *)
OneQuestion ==
  /\ byId = {byThread} \ {None}
  /\ byId = {w \in Question : outcome[w] = "waiting"}

(* A gated call does not wait forever on a surface that is used: its card  *)
(* is decided or its turn is swept, unless the turn was replaced without   *)
(* being aborted.                                                          *)
EveryGateEnds ==
  \A w \in Gate : (outcome[w] = "waiting" /\ of[w] \notin dropped)
                  ~> (outcome[w] # "waiting" \/ of[w] \in dropped)

(* Refuted: a question rejects or resolves, it never hangs                  *)
(* (ask-bridge.ts:105).  The surface it was shown on may detach.            *)
AskNeverHangs == \A w \in Question : outcome[w] = "waiting" ~> outcome[w] # "waiting"
=============================================================================
