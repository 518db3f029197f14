------------------------- MODULE AgentClientProofs -------------------------
(***************************************************************************)
(* Proofs about the client, for any number of turns, drives and chunks, on *)
(* a coalescing client or not, and with a store of run ids that outlives   *)
(* the page or not: what the history holds and what the screen shows.      *)
(***************************************************************************)
EXTENDS AgentClient, SequenceTheorems, TLAPS

(* Without an overlap only the controller's drive is heeded, while the store *)
(* streams; it reads the run the store names, and the messages are of it.   *)
DriveInv ==
  "overlapped" \notin causes =>
    /\ \A d \in Drive : Heeded(d) => d = controller /\ status = "streaming"
    /\ messages.run \in {None, runId} /\ (messages.upTo > 0 => messages.run # None)
    /\ \A d \in Drive : Heeded(d) =>
         /\ drive[d].phase = "reading" => drive[d].run = runId
         /\ drive[d].resumes => drive[d].run = runId
         /\ ~drive[d].resumes /\ drive[d].phase = "opening" => messages = Nothing
         /\ drive[d].read > 0 => messages = [run |-> drive[d].run, upTo |-> drive[d].read]

(* Nothing is read that was not written, and a request reads a run. *)
ReadInv ==
  /\ messages.run # None => messages.upTo <= feed[messages.run]
  /\ \A d \in Drive :
       /\ drive[d].phase = "reading" => drive[d].run # None /\ drive[d].read <= feed[drive[d].run]
       /\ drive[d].phase = "opening" => drive[d].read = 0
       /\ Open(d) /\ ~drive[d].resumes => drive[d].run # None

Excused(cs) == cs \cap {"aborted", "unknown", "overlapped"} # {}

(* A turn that is done is whole, or there is an excuse. *)
DoneInv == status = "done" => Excused(causes) \/ \E t \in Turn : Whole(messages, t)

(* A turn to which reconnect() did not come has its own run's drive only. *)
QuestionInv ==
  causes \cap {"rejoined", "overlapped"} = {} =>
    /\ messages.run \in {None, user}
    /\ \A d \in Drive : Heeded(d) => drive[d].run = user

(* The screen differs from the store in the messages at most. *)
ScreenInv ==
  /\ shown = [status |-> status, messages |-> shown.messages, user |-> user, committed |-> committed]
  /\ shown.messages # messages => timer

IInv ==
  /\ TypeOK
  /\ DriveInv /\ ReadInv /\ DoneInv /\ QuestionInv
  /\ CommittedIsWhole /\ AnswersItsQuestion /\ ScreenInv

LEMMA NumbersOfTurns ==
  /\ Turn \subseteq Nat /\ Drive \subseteq Nat /\ MaxTurns \in Nat /\ MaxDrives \in Nat
  /\ MaxChunks \in Nat /\ None \notin Turn /\ None \notin Drive
  BY ClientAssumption DEF Turn, Drive, None

LEMMA InitInv == Init => IInv
  <1> SUFFICES ASSUME Init PROVE IInv
    OBVIOUS
  <1>1. TypeOK
    <2>1. Nothing \in Answer /\ <<>> \in Seq([turn : Turn, answer : Answer, causes : SUBSET Cause])
      BY NumbersOfTurns DEF Nothing, Answer, None
    <2>2. Spare \in [phase : {"opening", "reading", "over"}, run : Turn \cup {None},
                     read : 0 .. MaxChunks, resumes : BOOLEAN, aborted : BOOLEAN]
      BY NumbersOfTurns DEF Spare
    <2>3. /\ drive \in [Drive -> [phase : {"opening", "reading", "over"}, run : Turn \cup {None},
                                  read : 0 .. MaxChunks, resumes : BOOLEAN, aborted : BOOLEAN]]
          /\ feed \in [Turn -> 0 .. MaxChunks]
          /\ turns \in 0 .. MaxTurns /\ drives \in 0 .. MaxDrives
      BY <2>2, NumbersOfTurns DEF Init
    <2>4. DOMAIN shown = DOMAIN View
      BY DEF Init
    <2>5. QED
      BY <2>1, <2>3, <2>4 DEF Init, TypeOK
  <1>2. \A d \in Drive : drive[d] = Spare /\ ~Open(d) /\ ~Heeded(d)
    BY DEF Init, Open, Heeded, Spare
  <1>3. DriveInv /\ ReadInv /\ DoneInv /\ QuestionInv
    BY <1>2 DEF Init, DriveInv, ReadInv, DoneInv, QuestionInv, Nothing, Spare
  <1>4. CommittedIsWhole /\ AnswersItsQuestion /\ ScreenInv
    BY DEF Init, CommittedIsWhole, AnswersItsQuestion, ScreenInv, View, Nothing
  <1>5. QED
    BY <1>1, <1>3, <1>4 DEF IInv

(***************************************************************************)
(* What steps have in common                                               *)
(***************************************************************************)
Drives == [Drive -> [phase : {"opening", "reading", "over"}, run : Turn \cup {None},
                     read : 0 .. MaxChunks, resumes : BOOLEAN, aborted : BOOLEAN]]

LEMMA EmitShows == ASSUME Emit PROVE ScreenInv'
  BY DEF Emit, View, ScreenInv

LEMMA ScreenStays == ASSUME ScreenInv, UNCHANGED <<storeVars, screenVars>> PROVE ScreenInv'
  BY DEF ScreenInv, storeVars, screenVars

(* The history stays, and what is whole stays whole. *)
LEMMA HistoryStays ==
  ASSUME CommittedIsWhole, AnswersItsQuestion, committed' = committed,
         closed \subseteq closed', \A t \in closed : feed'[t] = feed[t],
         QuestionInv'
  PROVE  CommittedIsWhole' /\ AnswersItsQuestion'
  BY DEF CommittedIsWhole, AnswersItsQuestion, QuestionInv, Whole

LEMMA CutIsOfDrives ==
  ASSUME TypeOK
  PROVE  /\ Cut \in Drives
         /\ \A d \in Drive : /\ Cut[d].run = drive[d].run /\ Cut[d].read = drive[d].read
                             /\ Cut[d].phase = drive[d].phase /\ Cut[d].resumes = drive[d].resumes
                             /\ Cut[d].aborted = (drive[d].aborted \/ d = controller)
<1>1. drive \in Drives
  BY DEF TypeOK, Drives
<1>2. ASSUME NEW d \in Drive
      PROVE  /\ Cut[d] \in [phase : {"opening", "reading", "over"}, run : Turn \cup {None},
                             read : 0 .. MaxChunks, resumes : BOOLEAN, aborted : BOOLEAN]
             /\ Cut[d].run = drive[d].run /\ Cut[d].read = drive[d].read
             /\ Cut[d].phase = drive[d].phase /\ Cut[d].resumes = drive[d].resumes
             /\ Cut[d].aborted = (drive[d].aborted \/ d = controller)
  BY <1>1 DEF Cut, Drives
<1>3. Cut \in Drives
  BY <1>2 DEF Cut, Drives
<1> QED
  BY <1>2, <1>3

(***************************************************************************)
(* The calls of the surface                                                *)
(***************************************************************************)
LEMMA SendKeeps == IInv /\ Send => IInv'
  <1> SUFFICES ASSUME IInv, Send PROVE IInv'
    OBVIOUS
  <1> DEFINE t == turns + 1
             n == drives + 1
             entry == [turn |-> user, answer |-> messages, causes |-> causes]
             opened == [phase |-> "opening", run |-> t, read |-> 0, resumes |-> FALSE, aborted |-> FALSE]
  <1>1. /\ turns < MaxTurns /\ drives < MaxDrives
        /\ committed' = IF Commits THEN Append(committed, entry) ELSE committed
        /\ turns' = t /\ user' = t /\ messages' = Nothing /\ status' = "streaming"
        /\ drives' = n /\ controller' = n /\ drive' = [Cut EXCEPT ![n] = opened]
        /\ causes' = Overlapped /\ Emit /\ runId' = runId /\ UNCHANGED serverVars
    BY DEF Send, Start
  <1>2. t \in Turn /\ n \in Drive /\ t # None /\ n # None
    <2>1. turns \in 0 .. MaxTurns /\ drives \in 0 .. MaxDrives
      BY DEF IInv, TypeOK
    <2> QED
      BY <1>1, <2>1, ClientAssumption DEF Turn, Drive, None
  <1>3. /\ Cut \in Drives
        /\ \A d \in Drive : /\ Cut[d].run = drive[d].run /\ Cut[d].read = drive[d].read
                            /\ Cut[d].phase = drive[d].phase /\ Cut[d].resumes = drive[d].resumes
                            /\ Cut[d].aborted = (drive[d].aborted \/ d = controller)
    BY CutIsOfDrives DEF IInv
  <1>4. drive' \in Drives /\ drive'[n] = opened /\ \A d \in Drive \ {n} : drive'[d] = Cut[d]
    <2>1. opened \in [phase : {"opening", "reading", "over"}, run : Turn \cup {None},
                      read : 0 .. MaxChunks, resumes : BOOLEAN, aborted : BOOLEAN]
      BY <1>2, NumbersOfTurns
    <2> HIDE DEF opened
    <2>2. QED
      BY <1>1, <1>2, <1>3, <2>1 DEF Drives
  <1>5. messages \in Answer /\ causes \subseteq Cause /\ user \in Turn \cup {None}
    BY DEF IInv, TypeOK
  <1>6. Commits => /\ entry \in [turn : Turn, answer : Answer, causes : SUBSET Cause]
                   /\ Excused(causes) \/ \E u \in Turn : Whole(messages, u)
                   /\ causes \cap {"rejoined", "overlapped"} # {} \/ messages.run \in {None, user}
    BY <1>5 DEF Commits, IInv, DoneInv, QuestionInv
  <1>7. /\ committed' \in Seq([turn : Turn, answer : Answer, causes : SUBSET Cause])
        /\ \A i \in DOMAIN committed' :
             \/ i \in DOMAIN committed /\ committed'[i] = committed[i]
             \/ Commits /\ committed'[i] = entry
    <2>1. committed \in Seq([turn : Turn, answer : Answer, causes : SUBSET Cause])
      BY DEF IInv, TypeOK
    <2> HIDE DEF entry
    <2>2. CASE Commits
      BY <1>1, <1>6, <2>1, <2>2, AppendProperties
    <2>3. CASE ~Commits
      BY <1>1, <2>1, <2>3
    <2>4. QED
      BY <2>2, <2>3
  <1>8. TypeOK'
    <2>1. causes' \subseteq Cause /\ messages' \in Answer
      BY <1>1, NumbersOfTurns DEF Overlapped, Cause, Nothing, Answer
    <2>2. timer' \in BOOLEAN /\ DOMAIN shown' = DOMAIN View'
      BY <1>1 DEF Emit
    <2>3. turns' \in 0 .. MaxTurns /\ drives' \in 0 .. MaxDrives
      BY <1>1, ClientAssumption DEF IInv, TypeOK
    <2>4. QED
      BY <1>1, <1>2, <1>4, <1>7, <2>1, <2>2, <2>3 DEF IInv, TypeOK, Drives, serverVars
  <1>9. causes' = {} => \A d \in Drive : Heeded(d)' => d = n
    BY <1>1, <1>3, <1>4 DEF Overlapped, Heeded, Open
  <1>10. "overlapped" \notin causes' => causes' = {}
    BY <1>1 DEF Overlapped
  <1>11. DriveInv'
    BY <1>1, <1>4, <1>9, <1>10 DEF DriveInv, Nothing
  <1>12. ReadInv'
    BY <1>1, <1>2, <1>3, <1>4 DEF IInv, ReadInv, Nothing, Open, serverVars
  <1>13. DoneInv'
    BY <1>1 DEF DoneInv
  <1>14. QuestionInv'
    BY <1>1, <1>4, <1>9, <1>10 DEF QuestionInv, Nothing
  <1>15. CommittedIsWhole'
    BY <1>1, <1>6, <1>7 DEF IInv, CommittedIsWhole, Excused, Whole, serverVars
  <1>16. AnswersItsQuestion'
    BY <1>1, <1>6, <1>7, <1>14 DEF IInv, AnswersItsQuestion, QuestionInv
  <1>17. QED
    BY <1>1, <1>8, <1>11, <1>12, <1>13, <1>14, <1>15, <1>16, EmitShows DEF IInv

LEMMA ReconnectKeeps == IInv /\ Reconnect => IInv'
  <1> SUFFICES ASSUME IInv, Reconnect PROVE IInv'
    OBVIOUS
  <1> DEFINE n == drives + 1
             opened == [phase |-> "opening", run |-> runId, read |-> 0, resumes |-> TRUE, aborted |-> FALSE]
  <1>1. /\ drives < MaxDrives /\ status' = "streaming" /\ UNCHANGED <<messages, user, committed>>
        /\ drives' = n /\ controller' = n /\ drive' = [drive EXCEPT ![n] = opened]
        /\ causes' = causes \cup {"rejoined"}
                     \cup (IF \E d \in Drive : Heeded(d) THEN {"overlapped"} ELSE {})
        /\ Emit /\ turns' = turns /\ runId' = runId /\ UNCHANGED serverVars
    BY DEF Reconnect, Start
  <1>2. n \in Drive /\ n # None
    BY <1>1, ClientAssumption DEF IInv, TypeOK, Drive, None
  <1>3. drive' \in Drives /\ drive'[n] = opened /\ \A d \in Drive \ {n} : drive'[d] = drive[d]
    <2>1. opened \in [phase : {"opening", "reading", "over"}, run : Turn \cup {None},
                      read : 0 .. MaxChunks, resumes : BOOLEAN, aborted : BOOLEAN]
      BY NumbersOfTurns DEF IInv, TypeOK
    <2> HIDE DEF opened
    <2>2. QED
      BY <1>1, <1>2, <2>1 DEF IInv, TypeOK, Drives
  <1>4. TypeOK'
    <2>1. causes' \subseteq Cause
      BY <1>1 DEF IInv, TypeOK, Cause
    <2>2. timer' \in BOOLEAN /\ DOMAIN shown' = DOMAIN View'
      BY <1>1 DEF Emit
    <2>3. drives' \in 0 .. MaxDrives
      BY <1>1, ClientAssumption DEF IInv, TypeOK
    <2>4. QED
      BY <1>1, <1>2, <1>3, <2>1, <2>2, <2>3 DEF IInv, TypeOK, Drives, serverVars
  <1>5. "overlapped" \notin causes' =>
          "overlapped" \notin causes /\ \A d \in Drive : ~Heeded(d) /\ (Heeded(d)' => d = n)
    BY <1>1, <1>3 DEF Heeded, Open
  <1>6. DriveInv'
    BY <1>1, <1>3, <1>5 DEF IInv, DriveInv
  <1>7. ReadInv'
    BY <1>1, <1>3 DEF IInv, ReadInv, Open, serverVars
  <1>8. DoneInv' /\ QuestionInv'
    BY <1>1 DEF DoneInv, QuestionInv
  <1>9. CommittedIsWhole' /\ AnswersItsQuestion'
    BY <1>1, <1>8, HistoryStays DEF IInv, serverVars
  <1>10. QED
    BY <1>1, <1>4, <1>6, <1>7, <1>8, <1>9, EmitShows DEF IInv

LEMMA AbortKeeps == IInv /\ Abort => IInv'
  <1> SUFFICES ASSUME IInv, Abort PROVE IInv'
    OBVIOUS
  <1>1. /\ controller # None /\ drive' = Cut /\ controller' = None /\ drives' = drives
        /\ status' = AfterAbort /\ UNCHANGED <<messages, user, committed>>
        /\ causes' = (IF status = "streaming" THEN causes \cup {"aborted"} ELSE causes)
        /\ IF status = "streaming" THEN Emit ELSE UNCHANGED screenVars
        /\ turns' = turns /\ runId' = runId /\ UNCHANGED serverVars
    BY DEF Abort
  <1>2. /\ drive' \in Drives
        /\ \A d \in Drive : /\ drive'[d].run = drive[d].run /\ drive'[d].read = drive[d].read
                            /\ drive'[d].phase = drive[d].phase /\ drive'[d].resumes = drive[d].resumes
                            /\ (Heeded(d)' => Heeded(d)) /\ Open(d)' = Open(d)
    BY <1>1, CutIsOfDrives DEF IInv, Heeded, Open
  <1>3. status # "streaming" => status' = status
    BY <1>1 DEF AfterAbort
  <1>4. status' \in {"idle", "streaming", "done", "error"}
    BY <1>1 DEF AfterAbort, IInv, TypeOK
  <1>5. TypeOK'
    <2>1. timer' \in BOOLEAN /\ DOMAIN shown' = DOMAIN View'
      BY <1>1, <1>3 DEF Emit, screenVars, IInv, TypeOK, View
    <2>2. QED
      BY <1>1, <1>2, <1>4, <2>1 DEF IInv, TypeOK, Drives, Cause, serverVars
  <1>6. DriveInv'
    <2>1. "overlapped" \notin causes' => "overlapped" \notin causes /\ \A d \in Drive : ~Heeded(d)'
      BY <1>1, <1>2, CutIsOfDrives DEF IInv, DriveInv, Heeded
    <2>2. QED
      BY <1>1, <1>2, <2>1 DEF IInv, DriveInv
  <1>7. ReadInv'
    BY <1>1, <1>2 DEF IInv, ReadInv, serverVars
  <1>8. DoneInv'
    BY <1>1, <1>3 DEF IInv, DoneInv, Excused, Whole, serverVars
  <1>9. QuestionInv'
    BY <1>1, <1>2 DEF IInv, QuestionInv
  <1>10. CommittedIsWhole' /\ AnswersItsQuestion'
    BY <1>1, <1>9, HistoryStays DEF IInv, serverVars
  <1>11. ScreenInv'
    BY <1>1, <1>3, EmitShows, ScreenStays DEF IInv, storeVars
  <1>12. QED
    BY <1>5, <1>6, <1>7, <1>8, <1>9, <1>10, <1>11 DEF IInv

(* reset() and a reload of the page leave no message and no history. *)
LEMMA ClearKeeps ==
  ASSUME IInv, Clear, drive' \in Drives, drives' = drives, turns' = turns, UNCHANGED serverVars,
         runId' \in Turn \cup {None}, causes' \subseteq {"overlapped"},
         \A d \in Drive : ~Open(d)' \/ /\ drive'[d].run = drive[d].run /\ drive'[d].read = drive[d].read
                                        /\ drive'[d].phase = drive[d].phase
                                        /\ drive'[d].resumes = drive[d].resumes,
         "overlapped" \notin causes' => \A d \in Drive : ~Heeded(d)'
  PROVE  IInv'
  <1>1. /\ status' = "idle" /\ messages' = Nothing /\ user' = None /\ committed' = <<>>
        /\ controller' = None /\ Emit
    BY DEF Clear
  <1>2. TypeOK'
    <2>1. timer' \in BOOLEAN /\ DOMAIN shown' = DOMAIN View'
      BY <1>1 DEF Emit
    <2>2. messages' \in Answer /\ committed' \in Seq([turn : Turn, answer : Answer, causes : SUBSET Cause])
      BY <1>1, NumbersOfTurns DEF Nothing, Answer
    <2>3. QED
      BY <1>1, <2>1, <2>2 DEF IInv, TypeOK, Drives, Cause, serverVars
  <1>3. DriveInv'
    BY <1>1 DEF DriveInv, Nothing
  <1>4. ReadInv'
    BY <1>1 DEF IInv, ReadInv, Nothing, Open, serverVars
  <1>5. DoneInv'
    BY <1>1 DEF DoneInv
  <1>6. QuestionInv'
    BY <1>1 DEF QuestionInv, Nothing
  <1>7. CommittedIsWhole' /\ AnswersItsQuestion'
    BY <1>1, <1>6 DEF CommittedIsWhole, AnswersItsQuestion, QuestionInv
  <1>8. QED
    BY <1>1, <1>2, <1>3, <1>4, <1>5, <1>6, <1>7, EmitShows DEF IInv

LEMMA ResetKeeps == IInv /\ Reset => IInv'
  <1> SUFFICES ASSUME IInv, Reset PROVE IInv'
    OBVIOUS
  <1>1. /\ drive' = Cut /\ Clear /\ causes' = Overlapped
        /\ turns' = turns /\ drives' = drives /\ runId' = runId /\ UNCHANGED serverVars
    BY DEF Reset
  <1>2. /\ drive' \in Drives
        /\ \A d \in Drive : /\ drive'[d].run = drive[d].run /\ drive'[d].read = drive[d].read
                            /\ drive'[d].phase = drive[d].phase /\ drive'[d].resumes = drive[d].resumes
                            /\ drive'[d].aborted = (drive[d].aborted \/ d = controller)
    BY <1>1, CutIsOfDrives DEF IInv
  <1>3. causes' \subseteq {"overlapped"} /\ runId' \in Turn \cup {None}
    BY <1>1 DEF Overlapped, IInv, TypeOK
  <1>4. "overlapped" \notin causes' => \A d \in Drive : ~Heeded(d)'
    BY <1>1, <1>2 DEF Overlapped, Heeded, Open
  <1>5. QED
    BY <1>1, <1>2, <1>3, <1>4, ClearKeeps

LEMMA ReloadKeeps == IInv /\ Reload => IInv'
  <1> SUFFICES ASSUME IInv, Reload PROVE IInv'
    OBVIOUS
  <1>1. /\ drive' = [d \in Drive |-> Spare] /\ Clear /\ causes' = {}
        /\ runId' = (IF Durable THEN runId ELSE None)
        /\ turns' = turns /\ drives' = drives /\ UNCHANGED serverVars
    BY DEF Reload
  <1>2. Spare \in [phase : {"opening", "reading", "over"}, run : Turn \cup {None},
                   read : 0 .. MaxChunks, resumes : BOOLEAN, aborted : BOOLEAN]
    BY NumbersOfTurns DEF Spare
  <1>3. drive' \in Drives
    BY <1>1, <1>2 DEF Drives
  <1>4. \A d \in Drive : ~Open(d)' /\ ~Heeded(d)'
    BY <1>1 DEF Open, Heeded, Spare
  <1>5. runId' \in Turn \cup {None} /\ causes' \subseteq {"overlapped"}
    BY <1>1 DEF IInv, TypeOK
  <1>6. QED
    BY <1>1, <1>3, <1>4, <1>5, ClearKeeps

(***************************************************************************)
(* The drives                                                              *)
(***************************************************************************)
LEMMA OpenedKeeps == ASSUME IInv, NEW d \in Drive, Opened(d) PROVE IInv'
  <1>1. /\ drive[d].phase = "opening" /\ Heeded(d) /\ ~Unknown(d)
        /\ drive' = [drive EXCEPT ![d].phase = "reading"]
        /\ runId' = (IF drive[d].resumes THEN runId ELSE drive[d].run)
        /\ UNCHANGED <<storeVars, screenVars, controller, drives, turns, serverVars, causes>>
    BY DEF Opened
  <1>2. /\ drive' \in Drives
        /\ \A e \in Drive : /\ drive'[e].run = drive[e].run /\ drive'[e].read = drive[e].read
                            /\ drive'[e].resumes = drive[e].resumes
                            /\ drive'[e].phase = (IF e = d THEN "reading" ELSE drive[e].phase)
                            /\ Heeded(e)' = Heeded(e) /\ Open(e)' = Open(e)
    BY <1>1 DEF IInv, TypeOK, Drives, Heeded, Open
  <1>3. drive[d].run # None /\ drive[d].run \in Turn /\ feed[drive[d].run] \in Nat
    BY <1>1, NumbersOfTurns DEF IInv, TypeOK, ReadInv, Unknown, Heeded
  <1>4. TypeOK'
    BY <1>1, <1>2, <1>3 DEF IInv, TypeOK, Drives, View, storeVars, screenVars, serverVars
  <1>5. DriveInv'
    <2> SUFFICES ASSUME "overlapped" \notin causes PROVE DriveInv'
      BY <1>1 DEF DriveInv
    <2>1. \A e \in Drive : Heeded(e)' => e = d
      BY <1>1, <1>2 DEF IInv, DriveInv
    <2>2. CASE drive[d].resumes
      BY <1>1, <1>2, <2>1, <2>2 DEF IInv, DriveInv, storeVars
    <2>3. CASE ~drive[d].resumes
      BY <1>1, <1>2, <2>1, <2>3 DEF IInv, DriveInv, Nothing, storeVars
    <2>4. QED
      BY <2>2, <2>3 DEF IInv, TypeOK
  <1>6. ReadInv'
    <2>1. \A e \in Drive : drive'[e].phase = "reading" =>
             drive'[e].run # None /\ drive'[e].read <= feed[drive'[e].run]
      <3>1. drive[d].read = 0 \/ drive[d].read <= feed[drive[d].run]
        BY <1>1 DEF IInv, ReadInv
      <3>2. QED
        BY <1>1, <1>2, <1>3, <3>1 DEF IInv, ReadInv
    <2>2. QED
      BY <1>1, <1>2, <2>1 DEF IInv, ReadInv, serverVars, storeVars
  <1>7. DoneInv' /\ QuestionInv'
    BY <1>1, <1>2 DEF IInv, DoneInv, QuestionInv, Excused, Whole, storeVars, serverVars
  <1>8. CommittedIsWhole' /\ AnswersItsQuestion'
    BY <1>1, <1>7, HistoryStays DEF IInv, storeVars, serverVars
  <1>9. ScreenInv'
    BY <1>1, ScreenStays DEF IInv
  <1>10. QED
    BY <1>4, <1>5, <1>6, <1>7, <1>8, <1>9 DEF IInv

(* A drive that is over and what it leaves on the screen. *)
LEMMA OverKeeps ==
  ASSUME IInv, NEW d \in Drive, Open(d), Over(d), UNCHANGED <<messages, user, committed>>,
         status' \in {"idle", "streaming", "done", "error"}, Heeded(d) \/ status' = status,
         causes \subseteq causes', causes' \subseteq causes \cup {"unknown"},
         DoneInv', ScreenInv', timer' \in BOOLEAN, DOMAIN shown' = DOMAIN View'
  PROVE  IInv'
  <1>1. /\ drive' = [drive EXCEPT ![d] = Spare]
        /\ controller' = (IF controller = d THEN None ELSE controller)
        /\ UNCHANGED <<turns, drives, runId, serverVars>>
    BY DEF Over
  <1>2. Spare \in [phase : {"opening", "reading", "over"}, run : Turn \cup {None},
                   read : 0 .. MaxChunks, resumes : BOOLEAN, aborted : BOOLEAN]
    BY NumbersOfTurns DEF Spare
  <1>3. /\ drive' \in Drives
        /\ drive'[d] = Spare /\ ~Heeded(d)' /\ ~Open(d)'
        /\ \A e \in Drive \ {d} : drive'[e] = drive[e] /\ Heeded(e)' = Heeded(e) /\ Open(e)' = Open(e)
    <2>1. drive' \in Drives
      BY <1>1, <1>2 DEF IInv, TypeOK, Drives
    <2>2. drive'[d] = Spare /\ \A e \in Drive \ {d} : drive'[e] = drive[e]
      BY <1>1 DEF IInv, TypeOK
    <2>3. ~Heeded(d)' /\ ~Open(d)'
      BY <2>2 DEF Heeded, Open, Spare
    <2>4. \A e \in Drive \ {d} : Heeded(e)' = Heeded(e) /\ Open(e)' = Open(e)
      BY <2>2 DEF Heeded, Open
    <2>5. QED
      BY <2>1, <2>2, <2>3, <2>4
  <1>4. causes' \subseteq Cause
    BY DEF IInv, TypeOK, Cause
  <1>5. TypeOK'
    BY <1>1, <1>3, <1>4 DEF IInv, TypeOK, Drives, serverVars
  <1>6. DriveInv'
    <2> SUFFICES ASSUME "overlapped" \notin causes PROVE DriveInv'
      BY DEF DriveInv
    <2>1. CASE Heeded(d)
      <3>1. \A e \in Drive : ~Heeded(e)'
        BY <1>3, <2>1 DEF IInv, DriveInv
      <3>2. QED
        BY <1>1, <3>1 DEF IInv, DriveInv
    <2>2. CASE ~Heeded(d)
      BY <1>1, <1>3, <2>2 DEF IInv, DriveInv
    <2>3. QED
      BY <2>1, <2>2
  <1>7. ReadInv'
    BY <1>1, <1>3 DEF IInv, ReadInv, Spare, serverVars
  <1>8. QuestionInv'
    BY <1>3 DEF IInv, QuestionInv
  <1>9. CommittedIsWhole' /\ AnswersItsQuestion'
    BY <1>1, <1>8, HistoryStays DEF IInv, serverVars
  <1>10. QED
    BY <1>5, <1>6, <1>7, <1>8, <1>9 DEF IInv

LEMMA OpenedNullKeeps == ASSUME IInv, NEW d \in Drive, OpenedNull(d) PROVE IInv'
  <1>1. /\ Open(d) /\ Heeded(d) /\ Over(d) /\ causes' = causes \cup {"unknown"}
        /\ UNCHANGED <<messages, user, committed>> /\ Emit
        /\ status' = (IF messages # Nothing THEN "done" ELSE "idle")
    BY DEF OpenedNull, Settle, Heeded
  <1>2. DoneInv' /\ timer' \in BOOLEAN /\ DOMAIN shown' = DOMAIN View'
    BY <1>1 DEF DoneInv, Excused, Emit
  <1>3. QED
    BY <1>1, <1>2, OverKeeps, EmitShows

LEMMA BreaksKeeps == ASSUME IInv, NEW d \in Drive, Breaks(d) PROVE IInv'
  <1>1. /\ Open(d) /\ Heeded(d) /\ Over(d) /\ causes' = causes
        /\ UNCHANGED <<messages, user, committed>> /\ Emit /\ status' = "error"
    BY DEF Breaks, Settle, Heeded
  <1>2. DoneInv' /\ timer' \in BOOLEAN /\ DOMAIN shown' = DOMAIN View'
    BY <1>1 DEF DoneInv, Emit
  <1>3. QED
    BY <1>1, <1>2, OverKeeps, EmitShows

LEMMA DiscardKeeps == ASSUME IInv, NEW d \in Drive, Discard(d) PROVE IInv'
  <1>1. Open(d) /\ Over(d) /\ UNCHANGED <<storeVars, screenVars, causes>>
    BY DEF Discard
  <1>2. ScreenInv' /\ timer' \in BOOLEAN /\ DOMAIN shown' = DOMAIN View'
    BY <1>1, ScreenStays DEF IInv, TypeOK, View, storeVars, screenVars
  <1>3. DoneInv'
    BY <1>1 DEF IInv, DoneInv, Excused, Whole, Over, storeVars, serverVars
  <1>4. QED
    BY <1>1, <1>2, <1>3, OverKeeps DEF IInv, TypeOK, storeVars

(* A stream that ends behind its finish chunk has given its whole run to    *)
(* the screen.                                                              *)
LEMMA StreamEndsKeeps == ASSUME IInv, NEW d \in Drive, StreamEnds(d) PROVE IInv'
  <1>1. /\ drive[d].phase = "reading" /\ Heeded(d) /\ Open(d) /\ Over(d) /\ causes' = causes
        /\ UNCHANGED <<messages, user, committed>> /\ Emit
        /\ status' = (IF Terminated(d) THEN "done" ELSE "error")
    BY DEF StreamEnds, Settle, Heeded
  <1>2. DoneInv'
    <2> SUFFICES ASSUME Terminated(d), "overlapped" \notin causes
                 PROVE  \E t \in Turn : Whole(messages, t)'
      BY <1>1 DEF DoneInv, Excused
    <2> DEFINE t == drive[d].run
    <2>1. t \in Turn /\ t \in closed /\ drive[d].read = feed[t] /\ t = runId /\ t # None
      BY <1>1 DEF IInv, TypeOK, ReadInv, DriveInv, Terminated
    <2>2. feed[t] \in Nat /\ messages.upTo \in Nat
      BY <2>1, NumbersOfTurns DEF IInv, TypeOK, Answer
    <2>3. CASE drive[d].read > 0
      <3>1. messages.run = t /\ messages.upTo = feed[t]
        BY <1>1, <2>1, <2>3 DEF IInv, DriveInv
      <3>2. QED
        BY <1>1, <2>1, <3>1 DEF Whole, Over, serverVars
    <2>4. CASE ~(drive[d].read > 0)
      <3>1. feed[t] = 0
        BY <2>1, <2>2, <2>4
      <3>2. messages.run \in {None, t} /\ (messages.upTo > 0 => messages.run # None)
        BY <2>1 DEF IInv, DriveInv
      <3>3. messages.upTo = 0
        BY <2>2, <3>1, <3>2 DEF IInv, ReadInv
      <3>4. QED
        BY <1>1, <2>1, <3>1, <3>3 DEF Whole, Over, serverVars
    <2>5. QED
      BY <2>3, <2>4
  <1>3. timer' \in BOOLEAN /\ DOMAIN shown' = DOMAIN View'
    BY <1>1 DEF Emit
  <1>4. QED
    BY <1>1, <1>2, <1>3, OverKeeps, EmitShows

LEMMA ChunkKeeps == ASSUME IInv, NEW d \in Drive, Chunk(d) PROVE IInv'
  <1> DEFINE t == drive[d].run
             k == drive[d].read + 1
  <1>1. /\ drive[d].phase = "reading" /\ Heeded(d) /\ drive[d].read < feed[t]
        /\ drive' = [drive EXCEPT ![d].read = k] /\ messages' = [run |-> t, upTo |-> k]
        /\ UNCHANGED <<status, user, committed>> /\ ScheduleEmit
        /\ UNCHANGED <<controller, turns, drives, runId, serverVars, causes>>
    BY DEF Chunk
  <1>2. t \in Turn /\ t # None /\ feed[t] \in 0 .. MaxChunks /\ drive[d].read \in Nat
    BY <1>1 DEF IInv, TypeOK, ReadInv
  <1>3. k \in 0 .. MaxChunks /\ k <= feed[t] /\ k > 0
    BY <1>1, <1>2, NumbersOfTurns
  <1>4. /\ drive' \in Drives
        /\ \A e \in Drive : /\ drive'[e].run = drive[e].run /\ drive'[e].phase = drive[e].phase
                            /\ drive'[e].resumes = drive[e].resumes
                            /\ drive'[e].read = (IF e = d THEN k ELSE drive[e].read)
                            /\ Heeded(e)' = Heeded(e) /\ Open(e)' = Open(e)
    BY <1>1, <1>3 DEF IInv, TypeOK, Drives, Heeded, Open
  <1>5. ScreenInv' /\ timer' \in BOOLEAN /\ DOMAIN shown' = DOMAIN View'
    <2>1. CASE Coalescing
      BY <1>1, <2>1 DEF ScheduleEmit, IInv, TypeOK, ScreenInv, View
    <2>2. CASE ~Coalescing
      BY <1>1, <2>2, EmitShows DEF ScheduleEmit, Emit
    <2>3. QED
      BY <2>1, <2>2
  <1>6. TypeOK'
    BY <1>1, <1>2, <1>3, <1>4, <1>5 DEF IInv, TypeOK, Drives, Answer, serverVars
  <1>7. DriveInv'
    <2> SUFFICES ASSUME "overlapped" \notin causes PROVE DriveInv'
      BY <1>1 DEF DriveInv
    <2>1. t = runId /\ \A e \in Drive : Heeded(e)' => e = d
      BY <1>1, <1>4 DEF IInv, DriveInv
    <2>2. QED
      BY <1>1, <1>2, <1>4, <2>1 DEF IInv, DriveInv
  <1>8. ReadInv'
    BY <1>1, <1>2, <1>3, <1>4 DEF IInv, ReadInv, serverVars
  <1>9. QuestionInv'
    BY <1>1, <1>4 DEF IInv, QuestionInv
  <1>10. DoneInv'
    <2> SUFFICES ASSUME status = "done", "overlapped" \notin causes
                 PROVE  Excused(causes) \/ \E u \in Turn : Whole(messages, u)'
      BY <1>1 DEF DoneInv, Excused
    <2>1. QED
      BY <1>1 DEF IInv, DriveInv
  <1>11. CommittedIsWhole' /\ AnswersItsQuestion'
    BY <1>1, <1>9, HistoryStays DEF IInv, serverVars
  <1>12. QED
    BY <1>5, <1>6, <1>7, <1>8, <1>9, <1>10, <1>11 DEF IInv

(***************************************************************************)
(* The timer and the server                                                *)
(***************************************************************************)
LEMMA EmitTimerKeeps == IInv /\ EmitTimer => IInv'
  <1> SUFFICES ASSUME IInv, EmitTimer PROVE IInv'
    OBVIOUS
  <1>1. UNCHANGED <<storeVars, driveVars, turns, runId, serverVars, causes>> /\ Emit
    BY DEF EmitTimer
  <1>2. timer' \in BOOLEAN /\ DOMAIN shown' = DOMAIN View'
    BY <1>1 DEF Emit
  <1>3. TypeOK'
    BY <1>1, <1>2 DEF IInv, TypeOK, storeVars, driveVars, serverVars
  <1>4. DriveInv' /\ ReadInv' /\ DoneInv' /\ QuestionInv'
    BY <1>1 DEF IInv, DriveInv, ReadInv, DoneInv, QuestionInv, Excused, Whole, Heeded, Open,
                storeVars, driveVars, serverVars
  <1>5. CommittedIsWhole' /\ AnswersItsQuestion'
    BY <1>1, <1>4, HistoryStays DEF IInv, storeVars, serverVars
  <1>6. QED
    BY <1>1, <1>3, <1>4, <1>5, EmitShows DEF IInv

LEMMA ServerKeeps == ASSUME IInv, NEW t \in Turn, Server(t) PROVE IInv'
  <1>1. /\ UNCHANGED <<storeVars, screenVars, driveVars, turns, runId, causes>>
        /\ Write(t) \/ Finish(t) \/ Evict(t)
    BY DEF Server
  <1>2. \A u \in Turn : feed[u] \in 0 .. MaxChunks /\ feed[u] \in Nat
    BY NumbersOfTurns DEF IInv, TypeOK
  <1>3. /\ feed' \in [Turn -> 0 .. MaxChunks] /\ closed' \subseteq Turn /\ evicted' \subseteq Turn
        /\ closed \subseteq closed' /\ \A u \in closed : feed'[u] = feed[u]
        /\ \A u \in Turn : feed[u] <= feed'[u] /\ feed'[u] \in Nat
    <2>1. CASE Write(t)
      <3>1. feed[t] + 1 \in 0 .. MaxChunks /\ feed' = [feed EXCEPT ![t] = feed[t] + 1]
        BY <1>2, <2>1, NumbersOfTurns DEF Write
      <3>2. feed' \in [Turn -> 0 .. MaxChunks]
        BY <3>1 DEF IInv, TypeOK
      <3>3. \A u \in Turn : feed[u] <= feed'[u] /\ feed'[u] \in Nat
        BY <1>2, <3>1 DEF IInv, TypeOK
      <3>4. QED
        BY <2>1, <3>1, <3>2, <3>3 DEF Write, IInv, TypeOK
    <2>2. CASE Finish(t)
      BY <1>2, <2>2 DEF Finish, IInv, TypeOK
    <2>3. CASE Evict(t)
      BY <1>2, <2>3 DEF Evict, IInv, TypeOK
    <2>4. QED
      BY <1>1, <2>1, <2>2, <2>3
  <1>4. TypeOK'
    BY <1>1, <1>3 DEF IInv, TypeOK, View, storeVars, screenVars, driveVars
  <1>5. DriveInv' /\ QuestionInv'
    BY <1>1 DEF IInv, DriveInv, QuestionInv, Heeded, Open, storeVars, driveVars
  <1>6. ReadInv'
    <2>1. messages.run # None => messages.upTo <= feed'[messages.run]
      <3> SUFFICES ASSUME messages.run # None PROVE messages.upTo <= feed'[messages.run]
        OBVIOUS
      <3>1. messages.run \in Turn /\ messages.upTo \in Nat /\ messages.upTo <= feed[messages.run]
        BY NumbersOfTurns DEF IInv, TypeOK, Answer, ReadInv
      <3>2. QED
        BY <1>2, <1>3, <3>1
    <2>2. \A d \in Drive : drive[d].phase = "reading" =>
            drive[d].run # None /\ drive[d].read <= feed'[drive[d].run]
      <3> SUFFICES ASSUME NEW d \in Drive, drive[d].phase = "reading"
                   PROVE  drive[d].run # None /\ drive[d].read <= feed'[drive[d].run]
        OBVIOUS
      <3>1. /\ drive[d].run # None /\ drive[d].run \in Turn /\ drive[d].read \in Nat
            /\ drive[d].read <= feed[drive[d].run]
        BY NumbersOfTurns DEF IInv, TypeOK, ReadInv
      <3>2. QED
        BY <1>2, <1>3, <3>1
    <2>3. QED
      BY <1>1, <2>1, <2>2 DEF IInv, ReadInv, Open, storeVars, driveVars
  <1>7. DoneInv'
    BY <1>1, <1>3 DEF IInv, DoneInv, Excused, Whole, storeVars
  <1>8. CommittedIsWhole' /\ AnswersItsQuestion'
    BY <1>1, <1>3, <1>5, HistoryStays DEF IInv, storeVars
  <1>9. ScreenInv'
    BY <1>1, ScreenStays DEF IInv
  <1>10. QED
    BY <1>4, <1>5, <1>6, <1>7, <1>8, <1>9 DEF IInv

LEMMA StutterKeeps == IInv /\ UNCHANGED vars => IInv'
  <1> SUFFICES ASSUME IInv, UNCHANGED vars PROVE IInv'
    OBVIOUS
  <1>1. TypeOK' /\ ScreenInv'
    BY DEF IInv, TypeOK, View, ScreenInv, vars, storeVars, screenVars, driveVars, serverVars
  <1>2. DriveInv' /\ ReadInv' /\ DoneInv' /\ QuestionInv'
    BY DEF IInv, DriveInv, ReadInv, DoneInv, QuestionInv, Excused, Whole, Heeded, Open,
           vars, storeVars, driveVars, serverVars
  <1>3. CommittedIsWhole' /\ AnswersItsQuestion'
    BY <1>2, HistoryStays DEF IInv, vars, storeVars, serverVars
  <1>4. QED
    BY <1>1, <1>2, <1>3 DEF IInv

LEMMA StepInv == IInv /\ [Next]_vars => IInv'
  <1> SUFFICES ASSUME IInv, [Next]_vars PROVE IInv'
    OBVIOUS
  <1>1. CASE Send \/ Reconnect \/ Abort \/ Reset \/ Reload \/ EmitTimer
    BY <1>1, SendKeeps, ReconnectKeeps, AbortKeeps, ResetKeeps, ReloadKeeps, EmitTimerKeeps
  <1>2. CASE \E d \in Drive : Opened(d) \/ OpenedNull(d) \/ Chunk(d) \/ StreamEnds(d)
                               \/ Breaks(d) \/ Discard(d)
    BY <1>2, OpenedKeeps, OpenedNullKeeps, ChunkKeeps, StreamEndsKeeps, BreaksKeeps, DiscardKeeps
  <1>3. CASE \E t \in Turn : Server(t)
    BY <1>3, ServerKeeps
  <1>4. CASE UNCHANGED vars
    BY <1>4, StutterKeeps
  <1>5. QED
    BY <1>1, <1>2, <1>3, <1>4 DEF Next

(* The invariant holds in every state. *)
THEOREM InvHolds == Spec => []IInv
  BY InitInv, StepInv, PTL DEF Spec

(* What send() commits to the history is a whole run, or a call of the      *)
(* surface excuses it.                                                      *)
THEOREM HistoryIsWhole == Spec => []CommittedIsWhole
  <1>1. IInv => CommittedIsWhole
    BY DEF IInv
  <1>2. QED
    BY <1>1, InvHolds, PTL

(* A late drive never answers a question that is not its own. *)
THEOREM QuestionsKeepTheirAnswers == Spec => []AnswersItsQuestion
  <1>1. IInv => AnswersItsQuestion
    BY DEF IInv
  <1>2. QED
    BY <1>1, InvHolds, PTL

(* The screen lags in its messages only, and only while a timer is armed. *)
THEOREM ScreenIsCurrent == Spec => []ScreenCatchesUp
  <1>1. IInv => ScreenCatchesUp
    BY DEF IInv, ScreenInv, ScreenCatchesUp, View
  <1>2. QED
    BY <1>1, InvHolds, PTL
=============================================================================
