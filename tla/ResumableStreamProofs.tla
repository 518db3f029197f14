----------------------- MODULE ResumableStreamProofs -----------------------
(***************************************************************************)
(* Type correctness of ResumableStream, and the invariant behind its       *)
(* safety properties, for every number of runs, clients, chunks and        *)
(* connections and for both kinds of host.                                 *)
(***************************************************************************)
EXTENDS ResumableStream, SequenceTheorems, TLAPS

(* How the buffer of a run relates to its producer. *)
BufferInv ==
  \A r \in Run :
    /\ r \notin cached => frames[r] = <<>> /\ listeners[r] = {} /\ ~ended[r]
    /\ ended[r] <=> (r \in cached /\ source[r] = "over")
    /\ source[r] = "unborn" => r \notin cached
    /\ source[r] # "over" /\ r \notin cached => produced[r] = 0
    /\ ended[r] => listeners[r] = {}

(* A registered connection is not newer than the client's last one, and    *)
(* when it is that one the client is on this run.                          *)
OwnersInv ==
  \A r \in Run : \A k \in listeners[r] \cup poster[r] :
    /\ k[2] <= epoch[k[1]]
    /\ k[2] = epoch[k[1]] => runOf[k[1]] = r

(* How far a client can be, connected or not. *)
ClientInv ==
  \A c \in Client :
    /\ conn[c] = "off" => wire[c] = <<>> /\ ~fin[c]
    /\ runOf[c] = NoRun => conn[c] = "off" /\ got[c] = <<>>
    /\ epoch[c] = 0 => runOf[c] = NoRun
    /\ runOf[c] # NoRun => /\ source[runOf[c]] # "unborn"
                           /\ Len(got[c]) + Len(wire[c]) <= produced[runOf[c]]

IInv ==
  /\ TypeOK /\ BufferInv /\ OwnersInv /\ ClientInv
  /\ SeqIsPosition /\ TranscriptIsPrefix /\ NothingSlips /\ DoneMeansComplete

-----------------------------------------------------------------------------
(* The frames after a cursor are frames of the buffer. *)
LEMMA MissedType ==
  ASSUME TypeOK, NEW r \in Run, NEW a \in Int, a >= -1
  PROVE  Missed(r, a) \in Seq(Frame)
<1>1. frames[r] \in Seq(Frame)
  BY DEF TypeOK, CacheTypeOK
<1>2. \A i \in (a + 2) .. Len(frames[r]) : frames[r][i] \in Frame
  BY <1>1
<1> QED
  BY <1>1, <1>2, SubSeqProperties DEF Missed

(* A suffix of a sequence: how long it is, and what is in it. *)
LEMMA SuffixOf ==
  ASSUME NEW S, NEW s \in Seq(S), NEW n \in Nat, n <= Len(s)
  PROVE  /\ Len(SubSeq(s, n + 1, Len(s))) = Len(s) - n
         /\ \A k \in 1 .. Len(s) - n : SubSeq(s, n + 1, Len(s))[k] = s[n + k]
<1>1. \A i \in n + 1 .. Len(s) : s[i] \in S
  OBVIOUS
<1>2. n + 1 \in Int /\ Len(s) \in Int
  OBVIOUS
<1> DEFINE t == SubSeq(s, n + 1, Len(s))
<1>3. /\ Len(t) = IF n + 1 <= Len(s) THEN Len(s) - (n + 1) + 1 ELSE 0
      /\ \A i \in 1 .. Len(s) - (n + 1) + 1 : t[i] = s[(n + 1) + i - 1]
  BY <1>1, <1>2, SubSeqProperties
<1> QED
  BY <1>3

(* A cursor is -1 or the seq of a frame. *)
LEMMA CursorType ==
  ASSUME TypeOK, NEW c \in Client
  PROVE  LastEventId(c) \in Int /\ LastEventId(c) >= -1
<1>1. got[c] \in Seq(Frame)
  BY DEF TypeOK, CacheTypeOK
<1>2. CASE got[c] = <<>>
  BY <1>2 DEF LastEventId
<1>3. CASE got[c] # <<>>
  <2>1. Len(got[c]) \in 1 .. Len(got[c])
    BY <1>1, <1>3
  <2>2. got[c][Len(got[c])] \in Frame
    BY <1>1, <2>1
  <2> QED
    BY <1>3, <2>2 DEF LastEventId, Frame
<1> QED
  BY <1>2, <1>3

(* The types hold initially. *)
LEMMA TypeInit == Init => TypeOK
BY CacheAssumption DEF Init, CacheInit, TypeOK, CacheTypeOK, ConnState, SourceState

(* Every step keeps the types. *)
LEMMA TypeStep ==
  ASSUME TypeOK, [Next]_vars
  PROVE  TypeOK'
<1> USE CacheAssumption
<1> USE DEF TypeOK, CacheTypeOK, ConnState, SourceState, Connection
<1>1. ASSUME NEW c \in Client, NEW r \in Run, ServeRun(c, r) PROVE TypeOK'
  BY <1>1 DEF ServeRun, OpenConnection, cacheVars
<1>2. ASSUME NEW c \in Client, NEW r \in Run, Reconnect(c, r) PROVE TypeOK'
  <2> DEFINE cursor == IF Attach(c, r, LastEventId(c)) THEN LastEventId(c) ELSE -1
  <2>0. cursor \in Int /\ cursor >= -1
    BY CursorType, SMTT(20)
  <2> HIDE DEF cursor
  <2>1. /\ wire' = [wire EXCEPT ![c] = Missed(r, cursor)]
        /\ fin' = [fin EXCEPT ![c] = ended[r]]
        /\ listeners' = [listeners EXCEPT ![r] = Following(r, <<c, epoch'[c]>>)]
        /\ UNCHANGED <<cached, frames, ended>>
    BY <1>2 DEF Reconnect, Attach, Closes, cursor
  <2>2. Missed(r, cursor) \in Seq(Frame)
    BY <2>0, MissedType
  <2>3. got' \in [Client -> Seq(Frame)]
    <3>1. got' = got \/ got' = [got EXCEPT ![c] = <<>>]
      BY <1>2 DEF Reconnect
    <3>2. <<>> \in Seq(Frame)
      OBVIOUS
    <3> QED
      BY <3>1, <3>2
  <2>4. conn' \in [Client -> ConnState] /\ epoch' \in [Client -> Nat]
        /\ runOf' \in [Client -> Run \cup {NoRun}]
    BY <1>2 DEF Reconnect, OpenConnection
  <2>5. <<c, epoch'[c]>> \in Connection
    BY <2>4
  <2>6. wire' \in [Client -> Seq(Frame)]
    BY <2>1, <2>2
  <2>7. listeners' \in [Run -> SUBSET Connection]
    BY <2>1, <2>5 DEF Following
  <2>8. fin' \in [Client -> BOOLEAN]
    BY <2>1
  <2>9. UNCHANGED <<cached, frames, ended, producerVars>>
    BY <1>2, <2>1 DEF Reconnect
  <2> QED
    BY <2>3, <2>4, <2>6, <2>7, <2>8, <2>9 DEF producerVars
<1>3. ASSUME NEW c \in Client, NEW r \in Run, ReconnectRefused(c, r)
      PROVE  TypeOK'
  BY <1>3 DEF ReconnectRefused, OpenConnection, cacheVars, producerVars
<1>4. ASSUME NEW r \in Run, ServeChunk(r) PROVE TypeOK'
  <2> DEFINE frame == [seq |-> Len(frames[r]), data |-> produced[r] + 1]
  <2>1. frame \in Frame
    BY DEF Frame
  <2>2. frames' \in [Run -> Seq(Frame)]
    BY <1>4, <2>1 DEF ServeChunk, AppendFrame, Yields, NextSeq, WithBuffer
  <2>3. \A c \in Client : wire[c] \in Seq(Frame) /\ Append(wire[c], frame) \in Seq(Frame)
    BY <2>1
  <2>4. wire' \in [Client -> Seq(Frame)]
    BY <1>4, <2>3 DEF ServeChunk, AppendFrame, Yields, NextSeq, WithBuffer
  <2> QED
    BY <1>4, <2>2, <2>4 DEF ServeChunk, AppendFrame, Yields, NextSeq, WithBuffer
<1>5. ASSUME NEW r \in Run, ServeFinish(r) PROVE TypeOK'
  BY <1>5 DEF ServeFinish, End, Told, Kept
<1>6. ASSUME NEW r \in Run, EvictRun(r) PROVE TypeOK'
  BY <1>6 DEF EvictRun, Evict, clientVars, producerVars
<1>7. ASSUME NEW c \in Client, Drop(c) PROVE TypeOK'
  BY <1>7, SMTT(20) DEF Drop, Unsubscribe, producerVars
<1>8. ASSUME NEW c \in Client, Read(c) PROVE TypeOK'
  <2>1. CASE ReadFrame(c)
    <3>1. wire[c] \in Seq(Frame) /\ wire[c] # <<>>
      BY <2>1 DEF ReadFrame
    <3>2. Head(wire[c]) \in Frame /\ Tail(wire[c]) \in Seq(Frame)
      BY <3>1
    <3> QED
      BY <1>8, <2>1, <3>2 DEF Read, ReadFrame, cacheVars, producerVars
  <2>2. CASE ReadDone(c)
    BY <1>8, <2>2 DEF Read, ReadDone, cacheVars, producerVars
  <2> QED
    BY <1>8, <2>1, <2>2 DEF Read
<1>9. CASE UNCHANGED vars
  BY <1>9 DEF vars, cacheVars, clientVars, producerVars
<1> QED
  BY <1>1, <1>2, <1>3, <1>4, <1>5, <1>6, <1>7, <1>8, <1>9 DEF Next

(* Every variable keeps its type: sequence ids stay natural numbers, only  *)
(* minted runs and real connections appear anywhere.                       *)
THEOREM TypeCorrect == Spec => []TypeOK
BY TypeInit, TypeStep, PTL DEF Spec

-----------------------------------------------------------------------------
(* The invariant holds initially. *)
LEMMA SafeInit == Init => IInv
<1> SUFFICES ASSUME Init PROVE IInv
  OBVIOUS
<1>1. TypeOK
  BY TypeInit
<1>2. BufferInv /\ OwnersInv /\ ClientInv
  BY DEF Init, CacheInit, BufferInv, OwnersInv, ClientInv
<1>3. SeqIsPosition /\ TranscriptIsPrefix /\ NothingSlips /\ DoneMeansComplete
  BY DEF Init, CacheInit, SeqIsPosition, TranscriptIsPrefix, NothingSlips,
         DoneMeansComplete
<1> QED
  BY <1>1, <1>2, <1>3 DEF IInv

(* The POST opens a stream on a run that has no frame yet. *)
LEMMA SafeServeRun ==
  ASSUME IInv, TypeOK', NEW c \in Client, NEW r \in Run, ServeRun(c, r)
  PROVE  IInv'
<1> USE CacheAssumption
<1> USE DEF IInv, TypeOK, CacheTypeOK, ServeRun, OpenConnection, cacheVars
<1>1. BufferInv'
  BY DEF BufferInv, SourceState
<1>2. OwnersInv'
  BY DEF OwnersInv, ClientInv, Connection
<1>3. ClientInv'
  BY DEF ClientInv
<1>4. SeqIsPosition' /\ TranscriptIsPrefix'
  BY DEF SeqIsPosition, TranscriptIsPrefix
<1>5. NothingSlips'
  <2>1. got[c] = <<>> /\ wire[c] = <<>> /\ ~fin[c] /\ produced[r] = 0
    BY DEF ClientInv, BufferInv
  <2> QED
    BY <2>1 DEF NothingSlips, ClientInv, Current
<1>6. DoneMeansComplete'
  BY DEF DoneMeansComplete, ClientInv
<1> QED
  BY <1>1, <1>2, <1>3, <1>4, <1>5, <1>6

(* What a reconnect does, whichever cursor it sends: the transcript kept   *)
(* by the client is as long as the cursor says, and the replay continues   *)
(* it up to the last frame of the buffer.                                  *)
LEMMA ReconnectShape ==
  ASSUME IInv, NEW c \in Client, NEW r \in Run, Reconnect(c, r)
  PROVE  /\ \A d \in Client : d # c => got'[d] = got[d]
         /\ got'[c] \in {got[c], <<>>}
         /\ Len(got'[c]) <= produced[r]
         /\ wire' = [wire EXCEPT ![c] = Missed(r, Len(got'[c]) - 1)]
         /\ fin' = [fin EXCEPT ![c] = ended[r]]
         /\ listeners' = [listeners EXCEPT ![r] = Following(r, <<c, epoch'[c]>>)]
         /\ UNCHANGED <<cached, frames, ended, producerVars>>
<1>1. got \in [Client -> Seq(Frame)] /\ produced \in [Run -> Nat]
  BY DEF IInv, TypeOK, CacheTypeOK
<1>2. got[c] # <<>> => runOf[c] = r
  BY DEF Reconnect, KnowsRun, IInv, ClientInv
<1>3. LastEventId(c) = Len(got[c]) - 1
  <2>1. CASE got[c] = <<>>
    BY <2>1 DEF LastEventId
  <2>2. CASE got[c] # <<>>
    <3>1. Len(got[c]) \in 1 .. Len(got[c])
      BY <1>1, <2>2
    <3>2. got[c][Len(got[c])] = FrameAt(Len(got[c]))
      BY <3>1 DEF IInv, TranscriptIsPrefix
    <3> QED
      BY <2>2, <3>2 DEF LastEventId, FrameAt
  <2> QED
    BY <2>1, <2>2
<1>4. wire[c] = <<>>
  BY DEF Reconnect, IInv, ClientInv
<1>5. Len(got[c]) <= produced[r]
  <2>1. CASE got[c] = <<>>
    BY <1>1, <2>1
  <2>2. CASE got[c] # <<>>
    BY <1>1, <1>2, <1>4, <2>2, CacheAssumption DEF IInv, ClientInv
  <2> QED
    BY <2>1, <2>2
<1>6. CASE Attach(c, r, LastEventId(c)) /\ UNCHANGED got
  BY <1>1, <1>3, <1>5, <1>6 DEF Reconnect, Attach, Closes
<1>7. CASE Attach(c, r, -1) /\ got' = [got EXCEPT ![c] = <<>>]
  BY <1>1, <1>7 DEF Reconnect, Attach, Closes
<1> QED
  BY <1>6, <1>7 DEF Reconnect

(* A reconnect completes the transcript and takes over the live tail. *)
LEMMA SafeReconnect ==
  ASSUME IInv, TypeOK', NEW c \in Client, NEW r \in Run, Reconnect(c, r)
  PROVE  IInv'
<1> USE CacheAssumption
<1> DEFINE n == Len(got'[c])
<1>1. /\ conn[c] = "off" /\ r \in cached /\ source[r] # "unborn"
      /\ conn' = [conn EXCEPT ![c] = "open"]
      /\ epoch' = [epoch EXCEPT ![c] = @ + 1]
      /\ runOf' = [runOf EXCEPT ![c] = r]
  BY DEF Reconnect, OpenConnection, KnowsRun
<1>2. /\ \A d \in Client : d # c => got'[d] = got[d]
      /\ got'[c] \in {got[c], <<>>}
      /\ n <= produced[r]
      /\ wire' = [wire EXCEPT ![c] = Missed(r, n - 1)]
      /\ fin' = [fin EXCEPT ![c] = ended[r]]
      /\ listeners' = [listeners EXCEPT ![r] = Following(r, <<c, epoch'[c]>>)]
      /\ UNCHANGED <<cached, frames, ended, source, produced, poster>>
  BY ReconnectShape DEF producerVars
<1>3. TypeOK
  BY DEF IInv
<1>4. n \in Nat /\ frames[r] \in Seq(Frame)
  BY <1>3 DEF TypeOK, CacheTypeOK
<1>5. Len(frames[r]) = produced[r]
  BY <1>1 DEF IInv, SeqIsPosition
<1>6. /\ Len(wire'[c]) = produced[r] - n
      /\ \A k \in 1 .. Len(wire'[c]) : wire'[c][k] = frames[r][n + k]
  <2>1. wire'[c] = SubSeq(frames[r], n + 1, Len(frames[r]))
    BY <1>2, <1>3, <1>4 DEF Missed, TypeOK, CacheTypeOK
  <2>2. n <= Len(frames[r])
    BY <1>2, <1>5
  <2> HIDE DEF n
  <2>3. /\ Len(SubSeq(frames[r], n + 1, Len(frames[r]))) = Len(frames[r]) - n
        /\ \A k \in 1 .. Len(frames[r]) - n :
             SubSeq(frames[r], n + 1, Len(frames[r]))[k] = frames[r][n + k]
    BY <1>4, <2>2, SuffixOf
  <2> QED
    BY <1>5, <2>1, <2>3
<1> HIDE DEF n
<1>7. BufferInv'
  BY <1>1, <1>2, <1>3 DEF IInv, BufferInv, TypeOK, CacheTypeOK, Following
<1>8. OwnersInv'
  <2> SUFFICES ASSUME NEW q \in Run, NEW k \in (listeners[q] \cup poster[q])'
               PROVE  (k[2] <= epoch[k[1]] /\ (k[2] = epoch[k[1]] => runOf[k[1]] = q))'
    BY DEF OwnersInv
  <2>1. k \in listeners[q] \cup poster[q] \/ (q = r /\ k = <<c, epoch'[c]>>)
    BY <1>2, <1>3 DEF TypeOK, CacheTypeOK, Following
  <2>2. CASE k \in listeners[q] \cup poster[q]
    <3>1. k[2] <= epoch[k[1]] /\ (k[2] = epoch[k[1]] => runOf[k[1]] = q)
      BY <2>2 DEF IInv, OwnersInv
    <3>2. k[1] \in Client /\ k[2] \in Nat
      <4>1. k \in Connection
        BY <1>3, <2>2 DEF TypeOK, CacheTypeOK
      <4> QED
        BY <4>1 DEF Connection
    <3>3. epoch \in [Client -> Nat] /\ runOf \in [Client -> Run \cup {NoRun}]
      BY <1>3 DEF TypeOK, CacheTypeOK
    <3>4. CASE k[1] = c
      <4>1. epoch'[c] = epoch[c] + 1 /\ k[2] <= epoch[c]
        BY <1>1, <3>1, <3>3, <3>4
      <4> QED
        BY <3>2, <3>3, <3>4, <4>1
    <3>5. CASE k[1] # c
      <4>1. epoch'[k[1]] = epoch[k[1]] /\ runOf'[k[1]] = runOf[k[1]]
        BY <1>1, <3>2, <3>3, <3>5
      <4> QED
        BY <3>1, <4>1
    <3> QED
      BY <3>4, <3>5
  <2>3. CASE q = r /\ k = <<c, epoch'[c]>>
    BY <1>1, <1>3, <2>3 DEF TypeOK, CacheTypeOK
  <2> QED
    BY <2>1, <2>2, <2>3
<1>a. /\ n + Len(wire'[c]) = produced'[r]
      /\ runOf'[c] = r /\ conn'[c] = "open" /\ epoch'[c] = epoch[c] + 1
      /\ fin'[c] = ended[r] /\ source'[r] # "unborn"
  <2>1. n + Len(wire'[c]) = produced'[r]
    BY <1>2, <1>3, <1>4, <1>6 DEF TypeOK
  <2> QED
    BY <1>1, <1>2, <1>3, <2>1 DEF TypeOK, CacheTypeOK
<1>b. \A d \in Client : d # c =>
        /\ got'[d] = got[d] /\ wire'[d] = wire[d] /\ fin'[d] = fin[d]
        /\ conn'[d] = conn[d] /\ epoch'[d] = epoch[d] /\ runOf'[d] = runOf[d]
  BY <1>1, <1>2, <1>3 DEF TypeOK, CacheTypeOK
<1>9. ClientInv'
  <2>1. epoch'[c] # 0 /\ Len(got'[c]) + Len(wire'[c]) <= produced'[r]
    BY <1>1, <1>2, <1>3, <1>a DEF n, TypeOK, CacheTypeOK
  <2>2. ASSUME NEW d \in Client, d # c
        PROVE  /\ conn'[d] = "off" => wire'[d] = <<>> /\ ~fin'[d]
               /\ runOf'[d] = NoRun => conn'[d] = "off" /\ got'[d] = <<>>
               /\ epoch'[d] = 0 => runOf'[d] = NoRun
               /\ runOf'[d] # NoRun =>
                    /\ source'[runOf'[d]] # "unborn"
                    /\ Len(got'[d]) + Len(wire'[d]) <= produced'[runOf'[d]]
    <3>1. ClientInv
      BY DEF IInv
    <3> QED
      BY <1>2, <1>b, <2>2, <3>1 DEF ClientInv
  <2> QED
    BY <1>a, <2>1, <2>2 DEF ClientInv
<1>10. SeqIsPosition'
  BY <1>2 DEF IInv, SeqIsPosition
<1>11. TranscriptIsPrefix'
  <2>1. \A k \in 1 .. Len(got'[c]) : got'[c][k] = FrameAt(k)
    BY <1>2 DEF IInv, TranscriptIsPrefix
  <2>2. ASSUME NEW k \in 1 .. Len(wire'[c])
        PROVE  wire'[c][k] = FrameAt(Len(got'[c]) + k)
    <3>1. n + k \in 1 .. Len(frames[r])
      BY <1>3, <1>4, <1>5, <1>6 DEF TypeOK
    <3>2. frames[r][n + k] = FrameAt(n + k)
      BY <3>1 DEF IInv, SeqIsPosition
    <3> QED
      BY <1>6, <3>2 DEF n
  <2>3. ASSUME NEW d \in Client, d # c
        PROVE  /\ \A k \in 1 .. Len(got'[d]) : got'[d][k] = FrameAt(k)
               /\ \A k \in 1 .. Len(wire'[d]) :
                    wire'[d][k] = FrameAt(Len(got'[d]) + k)
    <3>1. TranscriptIsPrefix
      BY DEF IInv
    <3>2. got'[d] = got[d] /\ wire'[d] = wire[d]
      BY <1>b, <2>3
    <3>3. /\ \A k \in 1 .. Len(got[d]) : got[d][k] = FrameAt(k)
          /\ \A k \in 1 .. Len(wire[d]) : wire[d][k] = FrameAt(Len(got[d]) + k)
      BY <3>1 DEF TranscriptIsPrefix
    <3> QED
      BY <3>2, <3>3
  <2> QED
    BY <2>1, <2>2, <2>3 DEF TranscriptIsPrefix
<1>12. NothingSlips'
  <2>1. ended[r] <=> source[r] = "over"
    BY <1>1 DEF IInv, BufferInv
  <2>2. \A q \in Run : listeners[q] \subseteq listeners'[q]
    BY <1>2, <1>3 DEF TypeOK, CacheTypeOK, Following
  <2>3. ~ended[r] => <<c, epoch'[c]>> \in listeners'[r]
    BY <1>2, <1>3 DEF TypeOK, CacheTypeOK, Following
  <2>4. source[r] \in {"running", "unwinding", "over"}
    BY <1>1, <1>3 DEF TypeOK, SourceState
  <2>5. ASSUME NEW d \in Client, d # c, conn'[d] = "open"
        PROVE  LET q == runOf'[d] IN
               /\ Len(got'[d]) + Len(wire'[d]) = produced'[q]
               /\ IF fin'[d] THEN source'[q] = "over"
                    ELSE /\ source'[q] \in {"running", "unwinding"}
                         /\ \/ <<d, epoch'[d]>> \in poster'[q]
                            \/ <<d, epoch'[d]>> \in listeners'[q] /\ q \in cached'
    <3>1. runOf[d] \in Run
      BY <1>b, <2>5, <1>3 DEF IInv, ClientInv, TypeOK, CacheTypeOK
    <3>2. NothingSlips
      BY DEF IInv
    <3> QED
      BY <1>b, <2>2, <2>5, <3>1, <3>2, <1>2 DEF NothingSlips, Current
  <2>6. /\ Len(got'[c]) + Len(wire'[c]) = produced'[r]
        /\ IF fin'[c] THEN source'[r] = "over"
             ELSE /\ source'[r] \in {"running", "unwinding"}
                  /\ <<c, epoch'[c]>> \in listeners'[r] /\ r \in cached'
    BY <1>1, <1>2, <1>a, <2>1, <2>3, <2>4 DEF n
  <2> QED
    BY <1>a, <2>5, <2>6 DEF NothingSlips, Current
<1>13. DoneMeansComplete'
  BY <1>1, <1>2, <1>3 DEF IInv, DoneMeansComplete, TypeOK, CacheTypeOK
<1> QED
  BY <1>7, <1>8, <1>9, <1>10, <1>11, <1>12, <1>13 DEF IInv

(* A refused client has nothing on the wire and keeps its transcript. *)
LEMMA SafeRefused ==
  ASSUME IInv, TypeOK', NEW c \in Client, NEW r \in Run, ReconnectRefused(c, r)
  PROVE  IInv'
<1> USE CacheAssumption
<1> USE DEF IInv, TypeOK, CacheTypeOK, ReconnectRefused, OpenConnection, KnowsRun,
            cacheVars, producerVars
<1>1. BufferInv' /\ SeqIsPosition' /\ TranscriptIsPrefix'
  BY DEF BufferInv, SeqIsPosition, TranscriptIsPrefix
<1>2. OwnersInv'
  BY SMTT(20) DEF OwnersInv, Connection
<1>3. ClientInv'
  BY DEF ClientInv
<1>4. NothingSlips'
  BY DEF NothingSlips, Current
<1>5. DoneMeansComplete'
  BY DEF DoneMeansComplete
<1> QED
  BY <1>1, <1>2, <1>3, <1>4, <1>5

(* A connection in the hands of run r belongs to a client that follows r.  *)
LEMMA ReachedFollows ==
  ASSUME IInv, NEW r \in Run, NEW c \in Client, c \in Reached(listeners[r] \cup poster[r])
  PROVE  conn[c] = "open" /\ ~fin[c] /\ runOf[c] = r
<1>1. /\ conn[c] = "open" /\ ~fin[c]
      /\ Current(c) \in listeners[r] \cup poster[r]
  BY DEF Reached
<1>2. Current(c)[1] = c /\ Current(c)[2] = epoch[c]
  BY DEF Current
<1> QED
  BY <1>1, <1>2 DEF IInv, OwnersInv

(* And while the source of r is not over, every open client of r is in the *)
(* hands of r.                                                             *)
LEMMA FollowersReached ==
  ASSUME IInv, NEW c \in Client, conn[c] = "open",
         source[runOf[c]] \in {"running", "unwinding"}
  PROVE  /\ runOf[c] \in Run /\ ~fin[c]
         /\ c \in Reached(listeners[runOf[c]] \cup poster[runOf[c]])
<1>1. runOf[c] \in Run
  BY DEF IInv, ClientInv, TypeOK, CacheTypeOK
<1>2. ~fin[c]
  BY DEF IInv, NothingSlips
<1>3. Current(c) \in poster[runOf[c]] \/ Current(c) \in listeners[runOf[c]]
  BY <1>2 DEF IInv, NothingSlips
<1> QED
  BY <1>1, <1>2, <1>3 DEF Reached

(* One more frame on the wire, one more chunk produced. *)
LEMMA OneMore ==
  ASSUME NEW g \in Nat, NEW w \in Nat, NEW p \in Nat
  PROVE  /\ g + w = p => g + (w + 1) = p + 1
         /\ g + w <= p => g + w <= p + 1
OBVIOUS

(* Two counts make a count. *)
LEMMA PlusNat ==
  ASSUME NEW g \in Nat, NEW w \in Nat
  PROVE  g + w \in Nat
OBVIOUS

(* A chunk lengthens the buffer of its run, and the wire of each of the    *)
(* run's followers, by the same frame.                                     *)
LEMMA SafeChunk ==
  ASSUME IInv, TypeOK', NEW r \in Run, ServeChunk(r)
  PROVE  IInv'
<1> DEFINE frame == [seq |-> Len(frames[r]), data |-> produced[r] + 1]
<1> DEFINE R == Reached(listeners[r] \cup poster[r])
<1>inv. /\ BufferInv /\ OwnersInv /\ ClientInv
        /\ SeqIsPosition /\ TranscriptIsPrefix /\ NothingSlips /\ DoneMeansComplete
  BY DEF IInv
<1>type. TypeOK
  BY DEF IInv
<1>same. /\ cached' = cached \cup {r}
         /\ UNCHANGED <<ended, listeners, conn, epoch, runOf, fin, got, poster>>
  BY DEF ServeChunk, AppendFrame, Yields, NextSeq, WithBuffer
<1>1. /\ source[r] = "running"
      /\ frames' = [frames EXCEPT ![r] = Append(@, frame)]
      /\ wire' = [c \in Client |-> IF c \in R THEN Append(wire[c], frame) ELSE wire[c]]
      /\ produced' = [produced EXCEPT ![r] = @ + 1]
      /\ source' = [source EXCEPT ![r] = IF BodyCancelled(r) THEN "unwinding" ELSE @]
  BY DEF ServeChunk, AppendFrame, Yields, NextSeq, WithBuffer
<1>2. /\ frames[r] \in Seq(Frame) /\ Len(frames[r]) = produced[r]
      /\ produced[r] \in Nat
  <2>1. frames[r] \in Seq(Frame) /\ produced[r] \in Nat
    BY <1>type DEF TypeOK, CacheTypeOK
  <2>2. CASE r \in cached
    BY <1>inv, <2>1, <2>2 DEF SeqIsPosition
  <2>3. CASE r \notin cached
    BY <1>1, <1>inv, <2>1, <2>3 DEF BufferInv
  <2> QED
    BY <2>1, <2>2, <2>3
<1>3. frame = FrameAt(produced[r] + 1) /\ frame \in Frame
  BY <1>2 DEF FrameAt, Frame
<1> HIDE DEF frame
<1>4. \A c \in Client : c \in R <=> conn[c] = "open" /\ runOf[c] = r
  <2>1. ASSUME NEW c \in Client, c \in R PROVE conn[c] = "open" /\ runOf[c] = r
    BY <2>1, ReachedFollows
  <2>2. ASSUME NEW c \in Client, conn[c] = "open", runOf[c] = r PROVE c \in R
    BY <1>1, <2>2, FollowersReached
  <2> QED
    BY <2>1, <2>2
<1> HIDE DEF R
<1>5. \A c \in Client : wire[c] \in Seq(Frame) /\ got[c] \in Seq(Frame)
  BY <1>type DEF TypeOK, CacheTypeOK
<1>6. ASSUME NEW c \in Client, c \in R
      PROVE  /\ Len(wire'[c]) = Len(wire[c]) + 1
             /\ \A k \in 1 .. Len(wire[c]) : wire'[c][k] = wire[c][k]
             /\ wire'[c][Len(wire[c]) + 1] = frame
  <2>1. wire'[c] = Append(wire[c], frame)
    BY <1>1, <1>6
  <2> QED
    BY <1>3, <1>5, <2>1, AppendProperties
<1>7. ASSUME NEW c \in Client, c \notin R PROVE wire'[c] = wire[c]
  BY <1>1, <1>7
<1>8. /\ produced'[r] = produced[r] + 1
      /\ source'[r] \in {"running", "unwinding"}
      /\ Len(frames'[r]) = produced[r] + 1
      /\ \A k \in 1 .. Len(frames[r]) : frames'[r][k] = frames[r][k]
      /\ frames'[r][Len(frames[r]) + 1] = frame
  <2>1. frames'[r] = Append(frames[r], frame)
    BY <1>1, <1>type DEF TypeOK, CacheTypeOK
  <2>2. /\ Len(frames'[r]) = Len(frames[r]) + 1
        /\ \A k \in 1 .. Len(frames[r]) : frames'[r][k] = frames[r][k]
        /\ frames'[r][Len(frames[r]) + 1] = frame
    BY <1>2, <1>3, <2>1, AppendProperties
  <2>3. produced'[r] = produced[r] + 1 /\ source'[r] \in {"running", "unwinding"}
    BY <1>1, <1>type DEF TypeOK
  <2> QED
    BY <1>2, <2>2, <2>3
<1>9. ASSUME NEW q \in Run, q # r
      PROVE  /\ produced'[q] = produced[q] /\ source'[q] = source[q]
             /\ frames'[q] = frames[q] /\ (q \in cached' <=> q \in cached)
  BY <1>1, <1>same, <1>type, <1>9 DEF TypeOK, CacheTypeOK
<1>10. BufferInv'
  <2>1. ASSUME NEW q \in Run, q # r
        PROVE  /\ q \notin cached' => frames'[q] = <<>> /\ listeners[q] = {} /\ ~ended[q]
               /\ ended[q] <=> (q \in cached' /\ source'[q] = "over")
               /\ source'[q] = "unborn" => q \notin cached'
               /\ source'[q] # "over" /\ q \notin cached' => produced'[q] = 0
               /\ ended[q] => listeners[q] = {}
    BY <1>9, <1>inv, <2>1 DEF BufferInv
  <2>2. r \in cached' /\ ~ended[r]
    BY <1>1, <1>same, <1>inv DEF BufferInv
  <2> QED
    BY <1>same, <1>8, <2>1, <2>2 DEF BufferInv
<1>11. OwnersInv'
  BY <1>same, <1>inv DEF OwnersInv
<1>12. SeqIsPosition'
  <2>1. ASSUME NEW k \in 1 .. Len(frames'[r]) PROVE frames'[r][k] = FrameAt(k)
    <3>1. CASE k \in 1 .. Len(frames[r])
      BY <1>8, <1>inv, <3>1 DEF SeqIsPosition
    <3>2. CASE k = Len(frames[r]) + 1
      BY <1>2, <1>3, <1>8, <3>2
    <3> QED
      BY <1>2, <1>8, <3>1, <3>2
  <2>2. ASSUME NEW q \in Run, q # r
        PROVE  /\ q \in cached' => Len(frames'[q]) = produced'[q]
               /\ \A k \in 1 .. Len(frames'[q]) : frames'[q][k] = FrameAt(k)
    BY <1>9, <1>inv, <2>2 DEF SeqIsPosition
  <2> QED
    BY <1>8, <2>1, <2>2 DEF SeqIsPosition
<1>13. ASSUME NEW c \in Client, c \in R
       PROVE  /\ Len(got[c]) + Len(wire[c]) = produced[r]
              /\ Len(got'[c]) + Len(wire'[c]) = produced'[r]
  <2>1. conn[c] = "open" /\ runOf[c] = r
    BY <1>4, <1>13
  <2>2. Len(got[c]) + Len(wire[c]) = produced[r]
    BY <1>inv, <2>1 DEF NothingSlips
  <2>3. Len(wire'[c]) = Len(wire[c]) + 1
    BY <1>6, <1>13
  <2>4. Len(got[c]) \in Nat /\ Len(wire[c]) \in Nat /\ got'[c] = got[c]
    BY <1>5, <1>same
  <2>5. produced'[r] = produced[r] + 1
    BY <1>8
  <2> DEFINE g == Len(got[c])
             w == Len(wire[c])
             w1 == Len(wire'[c])
             g1 == Len(got'[c])
  <2>6. g \in Nat /\ w \in Nat /\ g + w = produced[r] /\ w1 = w + 1 /\ g1 = g
    BY <2>2, <2>3, <2>4
  <2> HIDE DEF g, w, w1, g1
  <2>7. g1 + w1 = produced'[r]
    BY <1>2, <2>5, <2>6
  <2> QED
    BY <2>2, <2>7 DEF g1, w1
<1>14. TranscriptIsPrefix'
  <2>1. ASSUME NEW c \in Client, NEW k \in 1 .. Len(wire'[c])
        PROVE  wire'[c][k] = FrameAt(Len(got[c]) + k)
    <3>1. CASE c \notin R
      BY <1>7, <1>inv, <2>1, <3>1 DEF TranscriptIsPrefix
    <3>2. CASE c \in R /\ k \in 1 .. Len(wire[c])
      BY <1>6, <1>inv, <3>2 DEF TranscriptIsPrefix
    <3>3. CASE c \in R /\ k = Len(wire[c]) + 1
      <4>0. Len(got[c]) \in Nat /\ Len(wire[c]) \in Nat
        BY <1>5
      <4>a. Len(got[c]) + Len(wire[c]) = produced[r]
        BY <1>13, <3>3
      <4>p. produced[r] \in Nat
        BY <1>2
      <4>b. Len(got[c]) + (Len(wire[c]) + 1) = produced[r] + 1
        <5> DEFINE g == Len(got[c])
                   w == Len(wire[c])
                   p == produced[r]
        <5>1. g \in Nat /\ w \in Nat /\ p \in Nat /\ g + w = p
          BY <4>0, <4>a, <4>p
        <5> HIDE DEF g, w, p
        <5>2. g + (w + 1) = p + 1
          BY <5>1, OneMore
        <5> QED
          BY <5>2 DEF g, w, p
      <4>1. Len(got[c]) + k = produced[r] + 1
        BY <3>3, <4>b
      <4>2. wire'[c][k] = frame
        BY <1>6, <3>3
      <4> QED
        BY <1>3, <4>1, <4>2
    <3>4. Len(wire[c]) \in Nat
      BY <1>5
    <3>5. CASE c \in R
      BY <1>6, <3>2, <3>3, <3>4, <3>5
    <3> QED
      BY <3>1, <3>5
  <2> QED
    BY <1>same, <1>inv, <2>1 DEF TranscriptIsPrefix
<1>15. ASSUME NEW c \in Client, runOf[c] \in Run
       PROVE  /\ source[runOf[c]] # "unborn" => source'[runOf[c]] # "unborn"
              /\ Len(got[c]) + Len(wire[c]) <= produced[runOf[c]] =>
                   Len(got'[c]) + Len(wire'[c]) <= produced'[runOf[c]]
  <2>2. CASE runOf[c] = r
    <3>a. Len(got[c]) \in Nat /\ Len(wire[c]) \in Nat
      BY <1>5
    <3>b. Len(got[c]) + Len(wire[c]) \in Nat
      BY <3>a, PlusNat
    <3> DEFINE before == Len(got[c]) + Len(wire[c])
               after == Len(got'[c]) + Len(wire'[c])
    <3>1. produced'[r] = produced[r] + 1 /\ source'[r] # "unborn"
      BY <1>8
    <3>2. CASE c \in R
      <4>1. after = produced'[r]
        BY <1>13, <3>2
      <4> HIDE DEF before, after
      <4>2. after <= produced'[r]
        BY <1>2, <3>1, <4>1
      <4> QED
        BY <2>2, <3>1, <4>2 DEF after
    <3>3. CASE c \notin R
      <4>1. after = before
        BY <1>7, <1>same, <3>3
      <4>2. before \in Nat
        BY <3>b
      <4> HIDE DEF before, after
      <4>3. before <= produced[r] => after <= produced'[r]
        BY <1>2, <3>1, <4>1, <4>2
      <4> QED
        BY <2>2, <3>1, <4>3 DEF before, after
    <3> QED
      BY <3>2, <3>3
  <2>3. CASE runOf[c] # r
    BY <1>4, <1>7, <1>9, <1>15, <1>same, <2>3
  <2> QED
    BY <2>2, <2>3
<1>16. ClientInv'
  <2>1. ASSUME NEW c \in Client, runOf[c] # NoRun
        PROVE  /\ source'[runOf[c]] # "unborn"
               /\ Len(got'[c]) + Len(wire'[c]) <= produced'[runOf[c]]
    <3>1. runOf[c] \in Run
      BY <1>type, <2>1 DEF TypeOK, CacheTypeOK
    <3>2. source[runOf[c]] # "unborn" /\ Len(got[c]) + Len(wire[c]) <= produced[runOf[c]]
      BY <1>inv, <2>1 DEF ClientInv
    <3> QED
      BY <1>15, <3>1, <3>2
  <2>2. ASSUME NEW c \in Client, conn[c] = "off" PROVE wire'[c] = <<>> /\ ~fin[c]
    BY <1>4, <1>7, <1>inv, <2>2 DEF ClientInv
  <2> QED
    BY <1>same, <1>inv, <2>1, <2>2 DEF ClientInv
<1>17. NothingSlips'
  <2>1. ASSUME NEW c \in Client, conn[c] = "open"
        PROVE  /\ Len(got'[c]) + Len(wire'[c]) = produced'[runOf[c]]
               /\ IF fin[c] THEN source'[runOf[c]] = "over"
                  ELSE /\ source'[runOf[c]] \in {"running", "unwinding"}
                       /\ \/ Current(c) \in poster[runOf[c]]
                          \/ Current(c) \in listeners[runOf[c]] /\ runOf[c] \in cached'
    <3>1. runOf[c] \in Run
      BY <1>inv, <1>type, <2>1 DEF ClientInv, TypeOK, CacheTypeOK
    <3>2. CASE runOf[c] = r
      <4>1. c \in R
        BY <1>4, <2>1, <3>2
      <4>2. ~fin[c] /\ (Current(c) \in poster[r] \/ Current(c) \in listeners[r])
        BY <1>1, <1>inv, <2>1, <3>2 DEF NothingSlips
      <4>3. Len(got'[c]) + Len(wire'[c]) = produced'[r]
        BY <1>13, <4>1
      <4> QED
        BY <1>same, <1>8, <3>2, <4>2, <4>3
    <3>3. CASE runOf[c] # r
      <4>1. wire'[c] = wire[c] /\ got'[c] = got[c]
        BY <1>4, <1>7, <1>same, <3>3
      <4>2. /\ produced'[runOf[c]] = produced[runOf[c]]
            /\ source'[runOf[c]] = source[runOf[c]]
            /\ (runOf[c] \in cached' <=> runOf[c] \in cached)
        BY <1>9, <3>1, <3>3
      <4> QED
        BY <1>inv, <2>1, <4>1, <4>2 DEF NothingSlips
    <3> QED
      BY <3>2, <3>3
  <2> QED
    BY <1>same, <2>1 DEF NothingSlips, Current
<1>18. DoneMeansComplete'
  <2>1. ASSUME NEW c \in Client, conn[c] = "done"
        PROVE  source'[runOf[c]] = "over" /\ Len(got[c]) = produced'[runOf[c]]
    <3>1. source[runOf[c]] = "over" /\ Len(got[c]) = produced[runOf[c]]
      BY <1>inv, <2>1 DEF DoneMeansComplete
    <3>2. runOf[c] \in Run /\ runOf[c] # r
      BY <1>1, <1>inv, <1>type, <2>1, <3>1 DEF ClientInv, TypeOK, CacheTypeOK
    <3> QED
      BY <1>9, <3>1, <3>2
  <2> QED
    BY <1>same, <2>1 DEF DoneMeansComplete
<1> QED
  BY <1>10, <1>11, <1>12, <1>14, <1>16, <1>17, <1>18 DEF IInv

(* The finally block closes the stream of every follower of its run, and   *)
(* of nobody else.                                                         *)
LEMMA SafeFinish ==
  ASSUME IInv, TypeOK', NEW r \in Run, ServeFinish(r)
  PROVE  IInv'
<1>inv. /\ BufferInv /\ OwnersInv /\ ClientInv
        /\ SeqIsPosition /\ TranscriptIsPrefix /\ NothingSlips /\ DoneMeansComplete
  BY DEF IInv
<1>type. TypeOK
  BY DEF IInv
<1>same. UNCHANGED <<cached, frames, conn, epoch, runOf, wire, got, produced, poster>>
  BY DEF ServeFinish, End, Told, Kept
<1>1. /\ source[r] \in {"running", "unwinding"}
      /\ source' = [source EXCEPT ![r] = "over"]
      /\ ended' = [ended EXCEPT ![r] = @ \/ Terminates(r)]
      /\ listeners' = [listeners EXCEPT ![r] = IF Terminates(r) THEN {} ELSE @]
  BY DEF ServeFinish, End, Told, Kept
<1>2. ~ended[r] /\ (r \notin cached => listeners[r] = {} /\ produced[r] = 0)
  BY <1>inv, <1>1 DEF BufferInv
<1>3. /\ source'[r] = "over" /\ listeners'[r] = {}
      /\ ended'[r] <=> r \in cached
  BY <1>1, <1>2, <1>type DEF TypeOK, CacheTypeOK, Terminates
<1>4. ASSUME NEW q \in Run, q # r
      PROVE  source'[q] = source[q] /\ listeners'[q] = listeners[q] /\ ended'[q] = ended[q]
  BY <1>1, <1>4, <1>type DEF TypeOK, CacheTypeOK
<1>5. \A c \in Client : fin'[c] <=> fin[c] \/ c \in Reached(listeners[r] \cup poster[r])
  <2>1. fin' = [c \in Client |->
                  fin[c] \/ c \in Reached(poster[r] \cup
                                          IF Terminates(r) THEN listeners[r] ELSE {})]
    BY DEF ServeFinish, End, Told, Kept
  <2>2. poster[r] \cup (IF Terminates(r) THEN listeners[r] ELSE {})
          = listeners[r] \cup poster[r]
    BY <1>2 DEF Terminates
  <2> QED
    BY <2>1, <2>2
<1>6. \A c \in Client : fin'[c] <=> fin[c] \/ (conn[c] = "open" /\ runOf[c] = r)
  <2>1. ASSUME NEW c \in Client, c \in Reached(listeners[r] \cup poster[r])
        PROVE  conn[c] = "open" /\ runOf[c] = r
    BY <2>1, ReachedFollows
  <2>2. ASSUME NEW c \in Client, conn[c] = "open", runOf[c] = r
        PROVE  c \in Reached(listeners[r] \cup poster[r])
    BY <1>1, <2>2, FollowersReached
  <2> QED
    BY <1>5, <2>1, <2>2
<1>7. BufferInv'
  BY <1>same, <1>inv, <1>2, <1>3, <1>4 DEF BufferInv
<1>8. OwnersInv'
  <2>1. \A q \in Run : listeners'[q] \subseteq listeners[q]
    BY <1>3, <1>4
  <2> QED
    BY <1>same, <1>inv, <2>1 DEF OwnersInv
<1>9. ClientInv'
  <2>1. \A q \in Run : source[q] # "unborn" => source'[q] # "unborn"
    BY <1>3, <1>4
  <2>2. \A c \in Client : runOf[c] # NoRun => runOf[c] \in Run
    BY <1>type DEF TypeOK, CacheTypeOK
  <2>3. \A c \in Client : conn[c] = "off" => ~fin'[c]
    BY <1>inv, <1>6 DEF ClientInv
  <2> QED
    BY <1>same, <1>inv, <2>1, <2>2, <2>3 DEF ClientInv
<1>10. SeqIsPosition' /\ TranscriptIsPrefix'
  BY <1>same, <1>inv DEF SeqIsPosition, TranscriptIsPrefix
<1>11. NothingSlips'
  <2>1. ASSUME NEW c \in Client, conn[c] = "open"
        PROVE  IF fin'[c] THEN source'[runOf[c]] = "over"
               ELSE /\ source'[runOf[c]] \in {"running", "unwinding"}
                    /\ \/ Current(c) \in poster[runOf[c]]
                       \/ Current(c) \in listeners'[runOf[c]] /\ runOf[c] \in cached
    <3>1. runOf[c] \in Run
      BY <1>inv, <1>type, <2>1 DEF ClientInv, TypeOK, CacheTypeOK
    <3>2. CASE runOf[c] = r
      BY <1>3, <1>6, <2>1, <3>2
    <3>3. CASE runOf[c] # r
      <4>1. fin'[c] <=> fin[c]
        BY <1>6, <3>3
      <4> QED
        BY <1>4, <1>inv, <2>1, <3>1, <3>3, <4>1 DEF NothingSlips
    <3> QED
      BY <3>2, <3>3
  <2> QED
    BY <1>same, <1>inv, <2>1 DEF NothingSlips, Current
<1>12. DoneMeansComplete'
  <2>1. ASSUME NEW c \in Client, conn[c] = "done" PROVE source'[runOf[c]] = "over"
    <3>1. runOf[c] \in Run /\ source[runOf[c]] = "over"
      BY <1>inv, <1>type, <2>1
         DEF ClientInv, DoneMeansComplete, TypeOK, CacheTypeOK
    <3> QED
      BY <1>3, <1>4, <3>1
  <2> QED
    BY <1>same, <1>inv, <2>1 DEF DoneMeansComplete
<1> QED
  BY <1>7, <1>8, <1>9, <1>10, <1>11, <1>12 DEF IInv

(* Evicting an ended run takes nothing from a client: the whole run is     *)
(* already behind the [DONE] of those that follow it.                      *)
LEMMA SafeEvict ==
  ASSUME IInv, TypeOK', NEW r \in Run, EvictRun(r)
  PROVE  IInv'
<1>inv. /\ BufferInv /\ OwnersInv /\ ClientInv
        /\ SeqIsPosition /\ TranscriptIsPrefix /\ NothingSlips /\ DoneMeansComplete
  BY DEF IInv
<1>type. TypeOK
  BY DEF IInv
<1>same. UNCHANGED <<conn, epoch, runOf, wire, fin, got, source, produced, poster>>
  BY DEF EvictRun, clientVars, producerVars
<1>1. /\ r \in cached /\ ended[r] /\ cached' = cached \ {r}
      /\ frames' = [frames EXCEPT ![r] = <<>>]
      /\ ended' = [ended EXCEPT ![r] = FALSE]
      /\ listeners' = [listeners EXCEPT ![r] = {}]
  BY DEF EvictRun, Evict
<1>2. source[r] = "over" /\ frames'[r] = <<>> /\ ~ended'[r] /\ listeners'[r] = {}
  BY <1>1, <1>inv, <1>type DEF BufferInv, TypeOK, CacheTypeOK
<1>3. ASSUME NEW q \in Run, q # r
      PROVE  /\ frames'[q] = frames[q] /\ ended'[q] = ended[q]
             /\ listeners'[q] = listeners[q] /\ (q \in cached' <=> q \in cached)
  BY <1>1, <1>3, <1>type DEF TypeOK, CacheTypeOK
<1>4. BufferInv'
  BY <1>same, <1>inv, <1>1, <1>2, <1>3 DEF BufferInv
<1>5. OwnersInv'
  <2>1. \A q \in Run : listeners'[q] \subseteq listeners[q]
    BY <1>2, <1>3
  <2> QED
    BY <1>same, <1>inv, <2>1 DEF OwnersInv
<1>6. ClientInv' /\ TranscriptIsPrefix' /\ DoneMeansComplete'
  BY <1>same, <1>inv DEF ClientInv, TranscriptIsPrefix, DoneMeansComplete
<1>7. SeqIsPosition'
  BY <1>same, <1>inv, <1>1, <1>2, <1>3 DEF SeqIsPosition
<1>8. NothingSlips'
  <2>1. ASSUME NEW c \in Client, conn[c] = "open", ~fin[c]
        PROVE  \/ Current(c) \in poster[runOf[c]]
               \/ Current(c) \in listeners'[runOf[c]] /\ runOf[c] \in cached'
    <3>1. runOf[c] \in Run
      BY <1>inv, <1>type, <2>1 DEF ClientInv, TypeOK, CacheTypeOK
    <3>2. runOf[c] # r
      BY <1>2, <1>inv, <2>1 DEF NothingSlips
    <3> QED
      BY <1>3, <1>inv, <2>1, <3>1, <3>2 DEF NothingSlips
  <2> QED
    BY <1>same, <1>inv, <2>1 DEF NothingSlips, Current
<1> QED
  BY <1>4, <1>5, <1>6, <1>7, <1>8 DEF IInv

(* A lost connection loses what was in flight, never what was read. *)
LEMMA SafeDrop ==
  ASSUME IInv, TypeOK', NEW c \in Client, Drop(c)
  PROVE  IInv'
<1>inv. /\ BufferInv /\ OwnersInv /\ ClientInv
        /\ SeqIsPosition /\ TranscriptIsPrefix /\ NothingSlips /\ DoneMeansComplete
  BY DEF IInv
<1>type. TypeOK
  BY DEF IInv
<1>same. UNCHANGED <<cached, frames, ended, epoch, runOf, got, source, produced, poster>>
  BY DEF Drop, producerVars
<1>1. /\ conn[c] = "open" /\ conn'[c] = "off" /\ wire'[c] = <<>> /\ ~fin'[c]
      /\ \A d \in Client : d # c =>
           conn'[d] = conn[d] /\ wire'[d] = wire[d] /\ fin'[d] = fin[d]
  BY <1>type DEF Drop, TypeOK, CacheTypeOK
<1>2. ASSUME NEW q \in Run
      PROVE  /\ listeners'[q] \subseteq listeners[q]
             /\ \A d \in Client : d # c /\ Current(d) \in listeners[q] =>
                  Current(d) \in listeners'[q]
  BY <1>type DEF Drop, Unsubscribe, Current, TypeOK, CacheTypeOK
<1>3. BufferInv'
  BY <1>same, <1>inv, <1>2 DEF BufferInv
<1>4. OwnersInv'
  BY <1>same, <1>inv, <1>2 DEF OwnersInv
<1>5. ClientInv'
  <2>1. ASSUME NEW d \in Client, d # c
        PROVE  /\ conn'[d] = "off" => wire'[d] = <<>> /\ ~fin'[d]
               /\ runOf'[d] = NoRun => conn'[d] = "off" /\ got'[d] = <<>>
               /\ epoch'[d] = 0 => runOf'[d] = NoRun
               /\ runOf'[d] # NoRun =>
                    /\ source'[runOf'[d]] # "unborn"
                    /\ Len(got'[d]) + Len(wire'[d]) <= produced'[runOf'[d]]
    BY <1>same, <1>inv, <1>1, <2>1 DEF ClientInv
  <2>2. runOf[c] # NoRun /\ epoch[c] # 0 /\ source[runOf[c]] # "unborn"
    BY <1>inv, <1>1 DEF ClientInv
  <2>3. Len(got'[c]) + Len(wire'[c]) <= produced'[runOf'[c]]
    <3>1. runOf[c] \in Run
      BY <1>type, <2>2 DEF TypeOK, CacheTypeOK
    <3>2. /\ Len(got[c]) \in Nat /\ Len(wire[c]) \in Nat
          /\ produced[runOf[c]] \in Nat
      BY <1>type, <3>1 DEF TypeOK, CacheTypeOK
    <3>3. Len(got[c]) + Len(wire[c]) <= produced[runOf[c]]
      BY <1>inv, <2>2 DEF ClientInv
    <3>4. Len(got'[c]) = Len(got[c]) /\ Len(wire'[c]) = 0
      BY <1>same, <1>1
    <3> DEFINE g == Len(got[c])
               w == Len(wire[c])
               p == produced[runOf[c]]
    <3>5. g \in Nat /\ w \in Nat /\ p \in Nat /\ g + w <= p
      BY <3>2, <3>3
    <3> HIDE DEF g, w, p
    <3>6. g + 0 <= p
      BY <3>5
    <3> QED
      BY <1>same, <3>4, <3>6 DEF g, p
  <2> QED
    BY <1>same, <1>1, <2>1, <2>2, <2>3 DEF ClientInv
<1>6. SeqIsPosition'
  BY <1>same, <1>inv DEF SeqIsPosition
<1>7. TranscriptIsPrefix'
  BY <1>same, <1>inv, <1>1 DEF TranscriptIsPrefix
<1>8. NothingSlips'
  <2>1. ASSUME NEW d \in Client, conn'[d] = "open" PROVE d # c /\ conn[d] = "open"
    BY <1>1, <2>1
  <2>2. ASSUME NEW d \in Client, conn'[d] = "open" PROVE runOf[d] \in Run
    BY <1>inv, <1>type, <2>1, <2>2 DEF ClientInv, TypeOK, CacheTypeOK
  <2>3. ASSUME NEW d \in Client, conn'[d] = "open"
        PROVE  /\ Len(got'[d]) + Len(wire'[d]) = produced[runOf[d]]
               /\ IF fin'[d] THEN source[runOf[d]] = "over"
                  ELSE /\ source[runOf[d]] \in {"running", "unwinding"}
                       /\ \/ Current(d) \in poster[runOf[d]]
                          \/ /\ Current(d) \in listeners'[runOf[d]]
                             /\ runOf[d] \in cached
    <3>1. d # c /\ conn[d] = "open" /\ runOf[d] \in Run
      BY <2>1, <2>2, <2>3
    <3>2. got'[d] = got[d] /\ wire'[d] = wire[d] /\ fin'[d] = fin[d]
      BY <1>same, <1>1, <3>1
    <3> QED
      BY <1>2, <1>inv, <3>1, <3>2 DEF NothingSlips
  <2> QED
    BY <1>same, <2>3 DEF NothingSlips, Current
<1>9. DoneMeansComplete'
  BY <1>same, <1>inv, <1>1 DEF DoneMeansComplete
<1> QED
  BY <1>3, <1>4, <1>5, <1>6, <1>7, <1>8, <1>9 DEF IInv

(* Reading moves the first frame of the wire to the end of the transcript. *)
LEMMA SafeReadFrame ==
  ASSUME IInv, TypeOK', NEW c \in Client, ReadFrame(c), UNCHANGED producerVars
  PROVE  IInv'
<1>inv. /\ BufferInv /\ OwnersInv /\ ClientInv
        /\ SeqIsPosition /\ TranscriptIsPrefix /\ NothingSlips /\ DoneMeansComplete
  BY DEF IInv
<1>type. TypeOK
  BY DEF IInv
<1>same. UNCHANGED <<cached, frames, ended, listeners, conn, epoch, runOf, fin,
                     source, produced, poster>>
  BY DEF ReadFrame, cacheVars, producerVars
<1>1. /\ conn[c] = "open" /\ wire[c] # <<>>
      /\ got'[c] = Append(got[c], Head(wire[c])) /\ wire'[c] = Tail(wire[c])
      /\ \A d \in Client : d # c => got'[d] = got[d] /\ wire'[d] = wire[d]
  BY <1>type DEF ReadFrame, TypeOK, CacheTypeOK
<1>2. got[c] \in Seq(Frame) /\ wire[c] \in Seq(Frame)
  BY <1>type DEF TypeOK, CacheTypeOK
<1> DEFINE g == Len(got[c])
           w == Len(wire[c])
<1>3. g \in Nat /\ w \in Nat /\ w >= 1
  BY <1>1, <1>2
<1>4. /\ Len(got'[c]) = g + 1
      /\ \A k \in 1 .. g : got'[c][k] = got[c][k]
      /\ got'[c][g + 1] = wire[c][1]
  <2>1. Head(wire[c]) = wire[c][1] /\ Head(wire[c]) \in Frame
    BY <1>1, <1>2
  <2> QED
    BY <1>1, <1>2, <2>1, AppendProperties
<1>5. /\ Len(wire'[c]) = w - 1
      /\ \A k \in 1 .. w - 1 : wire'[c][k] = wire[c][k + 1]
  BY <1>1, <1>2, HeadTailProperties
<1>6. /\ \A k \in 1 .. g : got[c][k] = FrameAt(k)
      /\ \A k \in 1 .. w : wire[c][k] = FrameAt(g + k)
  BY <1>inv DEF TranscriptIsPrefix
<1> HIDE DEF g, w
<1>7. BufferInv' /\ OwnersInv' /\ SeqIsPosition'
  BY <1>same, <1>inv DEF BufferInv, OwnersInv, SeqIsPosition
<1>8. Len(got'[c]) + Len(wire'[c]) = g + w
  BY <1>3, <1>4, <1>5
<1>9. ASSUME NEW d \in Client
      PROVE  Len(got'[d]) + Len(wire'[d]) = Len(got[d]) + Len(wire[d])
  <2>1. CASE d = c
    BY <1>8, <2>1 DEF g, w
  <2>2. CASE d # c
    BY <1>1, <2>2
  <2> QED
    BY <2>1, <2>2
<1>10. ClientInv'
  <2>1. ASSUME NEW d \in Client, runOf[d] # NoRun
        PROVE  Len(got'[d]) + Len(wire'[d]) <= produced[runOf[d]]
    BY <1>9, <1>inv, <2>1 DEF ClientInv
  <2>2. runOf[c] # NoRun
    BY <1>1, <1>inv DEF ClientInv
  <2>3. \A d \in Client : /\ conn[d] = "off" => wire'[d] = <<>> /\ ~fin[d]
                          /\ runOf[d] = NoRun => conn[d] = "off" /\ got'[d] = <<>>
    BY <1>1, <1>inv, <2>2 DEF ClientInv
  <2> QED
    BY <1>same, <1>inv, <2>1, <2>3 DEF ClientInv
<1>11. TranscriptIsPrefix'
  <2>1. ASSUME NEW k \in 1 .. Len(got'[c]) PROVE got'[c][k] = FrameAt(k)
    <3>1. CASE k \in 1 .. g
      BY <1>4, <1>6, <3>1
    <3>2. CASE k = g + 1
      BY <1>3, <1>4, <1>6, <3>2
    <3> QED
      BY <1>3, <1>4, <3>1, <3>2
  <2>2. ASSUME NEW k \in 1 .. Len(wire'[c])
        PROVE  wire'[c][k] = FrameAt(Len(got'[c]) + k)
    <3>1. k \in 1 .. w - 1 /\ k + 1 \in 1 .. w
      BY <1>3, <1>5
    <3>2. wire'[c][k] = FrameAt(g + (k + 1))
      BY <1>5, <1>6, <3>1
    <3>3. g + (k + 1) = (g + 1) + k
      BY <1>3, <3>1
    <3> QED
      BY <1>4, <3>2, <3>3
  <2>3. ASSUME NEW d \in Client, d # c
        PROVE  /\ \A k \in 1 .. Len(got'[d]) : got'[d][k] = FrameAt(k)
               /\ \A k \in 1 .. Len(wire'[d]) :
                    wire'[d][k] = FrameAt(Len(got'[d]) + k)
    <3>1. got'[d] = got[d] /\ wire'[d] = wire[d]
      BY <1>1, <2>3
    <3> QED
      BY <1>inv, <3>1 DEF TranscriptIsPrefix
  <2> QED
    BY <2>1, <2>2, <2>3 DEF TranscriptIsPrefix
<1>12. NothingSlips'
  BY <1>same, <1>9, <1>inv DEF NothingSlips, Current
<1>13. DoneMeansComplete'
  <2>1. \A d \in Client : conn[d] = "done" => got'[d] = got[d]
    BY <1>1
  <2> QED
    BY <1>same, <1>inv, <2>1 DEF DoneMeansComplete
<1> QED
  BY <1>7, <1>10, <1>11, <1>12, <1>13 DEF IInv

(* Reading [DONE] on an empty wire: everything produced has been read. *)
LEMMA SafeReadDone ==
  ASSUME IInv, TypeOK', NEW c \in Client, ReadDone(c), UNCHANGED producerVars
  PROVE  IInv'
<1>inv. /\ BufferInv /\ OwnersInv /\ ClientInv
        /\ SeqIsPosition /\ TranscriptIsPrefix /\ NothingSlips /\ DoneMeansComplete
  BY DEF IInv
<1>type. TypeOK
  BY DEF IInv
<1>same. UNCHANGED <<cached, frames, ended, listeners, epoch, runOf, wire, fin, got,
                     source, produced, poster>>
  BY DEF ReadDone, cacheVars, producerVars
<1>1. /\ conn[c] = "open" /\ wire[c] = <<>> /\ fin[c] /\ conn'[c] = "done"
      /\ \A d \in Client : d # c => conn'[d] = conn[d]
  BY <1>type DEF ReadDone, TypeOK, CacheTypeOK
<1>2. BufferInv' /\ OwnersInv' /\ SeqIsPosition' /\ TranscriptIsPrefix'
  BY <1>same, <1>inv DEF BufferInv, OwnersInv, SeqIsPosition, TranscriptIsPrefix
<1>3. ClientInv'
  BY <1>same, <1>1, <1>inv DEF ClientInv
<1>4. NothingSlips'
  BY <1>same, <1>1, <1>inv DEF NothingSlips, Current
<1>5. DoneMeansComplete'
  <2>1. source[runOf[c]] = "over" /\ Len(got[c]) + Len(wire[c]) = produced[runOf[c]]
    BY <1>1, <1>inv DEF NothingSlips
  <2>2. Len(got[c]) \in Nat /\ Len(wire[c]) = 0
    BY <1>1, <1>type DEF TypeOK, CacheTypeOK
  <2>3. Len(got[c]) = produced[runOf[c]]
    BY <2>1, <2>2
  <2> QED
    BY <1>same, <1>1, <1>inv, <2>1, <2>3 DEF DoneMeansComplete
<1> QED
  BY <1>2, <1>3, <1>4, <1>5 DEF IInv

(* Every step keeps the invariant. *)
LEMMA SafeStep ==
  ASSUME IInv, [Next]_vars
  PROVE  IInv'
<1>type. TypeOK'
  BY TypeStep DEF IInv
<1>1. ASSUME NEW c \in Client, NEW r \in Run, ServeRun(c, r) PROVE IInv'
  BY <1>type, <1>1, SafeServeRun
<1>2. ASSUME NEW c \in Client, NEW r \in Run, Reconnect(c, r) PROVE IInv'
  BY <1>type, <1>2, SafeReconnect
<1>3. ASSUME NEW c \in Client, NEW r \in Run, ReconnectRefused(c, r) PROVE IInv'
  BY <1>type, <1>3, SafeRefused
<1>4. ASSUME NEW r \in Run, ServeChunk(r) PROVE IInv'
  BY <1>type, <1>4, SafeChunk
<1>5. ASSUME NEW r \in Run, ServeFinish(r) PROVE IInv'
  BY <1>type, <1>5, SafeFinish
<1>6. ASSUME NEW r \in Run, EvictRun(r) PROVE IInv'
  BY <1>type, <1>6, SafeEvict
<1>7. ASSUME NEW c \in Client, Drop(c) PROVE IInv'
  BY <1>type, <1>7, SafeDrop
<1>8. ASSUME NEW c \in Client, Read(c) PROVE IInv'
  <2>1. UNCHANGED producerVars /\ (ReadFrame(c) \/ ReadDone(c))
    BY <1>8 DEF Read
  <2> QED
    BY <1>type, <2>1, SafeReadFrame, SafeReadDone
<1>9. CASE UNCHANGED vars
  <2>1. UNCHANGED <<cached, frames, ended, listeners, conn, epoch, runOf, wire, fin,
                    got, source, produced, poster>>
    BY <1>9 DEF vars, cacheVars, clientVars, producerVars
  <2>2. BufferInv' /\ OwnersInv' /\ ClientInv'
    BY <2>1 DEF IInv, BufferInv, OwnersInv, ClientInv
  <2>3. SeqIsPosition' /\ TranscriptIsPrefix'
    BY <2>1 DEF IInv, SeqIsPosition, TranscriptIsPrefix
  <2>4. NothingSlips'
    BY <2>1 DEF IInv, NothingSlips, Current
  <2>5. DoneMeansComplete'
    BY <2>1 DEF IInv, DoneMeansComplete
  <2> QED
    BY <1>type, <2>2, <2>3, <2>4, <2>5 DEF IInv
<1> QED
  BY <1>1, <1>2, <1>3, <1>4, <1>5, <1>6, <1>7, <1>8, <1>9 DEF Next

(* The invariant of the transport. *)
LEMMA Invariant == Spec => []IInv
BY SafeInit, SafeStep, PTL DEF Spec

(* Whatever is dropped and resumed, a client's transcript is the run from  *)
(* its first chunk on, with no gap, duplicate or reordering.               *)
THEOREM TranscriptSafe == Spec => []TranscriptIsPrefix
<1>1. IInv => TranscriptIsPrefix
  BY DEF IInv
<1> QED
  BY <1>1, Invariant, PTL

(* No chunk falls between a replay and the live tail.                      *)
THEOREM NoGapAtAttach == Spec => []NothingSlips
<1>1. IInv => NothingSlips
  BY DEF IInv
<1> QED
  BY <1>1, Invariant, PTL

(* A client that read [DONE] has the whole run. *)
THEOREM DoneIsComplete == Spec => []DoneMeansComplete
<1>1. IInv => DoneMeansComplete
  BY DEF IInv
<1> QED
  BY <1>1, Invariant, PTL

(* A cursor keeps its meaning while the run is cached. *)
THEOREM CursorsAreStable == Spec => []SeqIsPosition
<1>1. IInv => SeqIsPosition
  BY DEF IInv
<1> QED
  BY <1>1, Invariant, PTL
-----------------------------------------------------------------------------
(* The refinement.  FeedStep is what a step of the transport must be. *)
FeedStep == [Feed!Next]_<<Feed!feedVars, Feed!readerVars>>

(* Initially every feed is empty and nobody follows one. *)
LEMMA FeedInit == Init => Feed!Init
<1> SUFFICES ASSUME Init PROVE Feed!Init
  OBVIOUS
<1> USE DEF Init, CacheInit
<1>1. [r \in Run |-> source[r] = "over"] = [r \in Run |-> FALSE]
  OBVIOUS
<1>2. [c \in Client |-> conn[c] = "done"] = [c \in Client |-> FALSE]
  OBVIOUS
<1>3. [c \in Client |-> Len(got[c])] = [c \in Client |-> 0]
  OBVIOUS
<1> QED
  BY <1>1, <1>2, <1>3 DEF Feed!Init

(* The first response of a client makes it follow the run. *)
LEMMA FeedServeRun ==
  ASSUME IInv, NEW c \in Client, NEW r \in Run, ServeRun(c, r)
  PROVE  FeedStep
<1>1. runOf[c] = NoRun
  BY DEF ServeRun, IInv, ClientInv
<1>2. Feed!Follow(c, r)
  BY <1>1 DEF ServeRun, OpenConnection, IInv, TypeOK, CacheTypeOK, Feed!Follow, Feed!feedVars
<1> QED
  BY <1>2 DEF FeedStep, Feed!Next

(* Connecting again: a client that follows the run resumes, which the feed *)
(* does not see, or starts over; another begins to follow it.              *)
LEMMA FeedConnect ==
  ASSUME IInv, NEW c \in Client, NEW r \in Run, NEW state \in {"open", "refused"},
         conn[c] = "off", KnowsRun(c, r), OpenConnection(c, r, state),
         got' = got \/ got' = [got EXCEPT ![c] = <<>>],
         UNCHANGED producerVars
  PROVE  FeedStep
<1> USE CacheAssumption DEF IInv, TypeOK, CacheTypeOK, producerVars, OpenConnection
<1>1. UNCHANGED Feed!feedVars /\ UNCHANGED [d \in Client |-> conn[d] = "done"]
  BY DEF Feed!feedVars
<1>2. runOf[c] = r => runOf' = runOf
  OBVIOUS
<1>3. ASSUME NEW d \in Client, d # c PROVE got'[d] = got[d]
  BY <1>3
<1>4. CASE got'[c] = got[c]
  <2>1. UNCHANGED [d \in Client |-> Len(got[d])]
    BY <1>3, <1>4
  <2>2. CASE runOf[c] = r
    BY <1>1, <1>2, <2>1, <2>2 DEF FeedStep, Feed!readerVars, Feed!feedVars
  <2>3. CASE runOf[c] = NoRun
    <3>1. Feed!Follow(c, r)
      BY <1>1, <2>1, <2>3 DEF Feed!Follow
    <3> QED
      BY <3>1 DEF FeedStep, Feed!Next
  <2> QED
    BY <2>2, <2>3 DEF KnowsRun
<1>5. CASE got'[c] = <<>> /\ got[c] # <<>>
  <2>1. runOf[c] = r
    BY <1>5 DEF ClientInv, KnowsRun
  <2>2. [d \in Client |-> Len(got'[d])] = [[d \in Client |-> Len(got[d])] EXCEPT ![c] = 0]
    <3>1. Len(got'[c]) = 0
      BY <1>5
    <3> QED
      BY <1>3, <3>1
  <2>3. Feed!StartOver(c)
    BY <1>1, <1>2, <2>1, <2>2 DEF Feed!StartOver
  <2> QED
    BY <2>3 DEF FeedStep, Feed!Next
<1> QED
  BY <1>4, <1>5

(* A chunk is written, the finally block closes. *)
LEMMA FeedProducer ==
  ASSUME IInv, NEW r \in Run, ServeChunk(r) \/ ServeFinish(r)
  PROVE  FeedStep
<1> USE DEF IInv, TypeOK, CacheTypeOK, SourceState
<1>1. CASE ServeChunk(r)
  <2>1. Feed!Write(r)
    BY <1>1 DEF ServeChunk, Yields, Feed!Write, Feed!readerVars
  <2> QED
    BY <2>1 DEF FeedStep, Feed!Next
<1>2. CASE ServeFinish(r)
  <2>1. Feed!Close(r)
    BY <1>2 DEF ServeFinish, Feed!Close, Feed!readerVars
  <2> QED
    BY <2>1 DEF FeedStep, Feed!Next
<1> QED
  BY <1>1, <1>2

(* Eviction and a lost connection are hidden. *)
LEMMA FeedHidden ==
  ASSUME IInv, (\E r \in Run : EvictRun(r)) \/ (\E c \in Client : Drop(c)) \/ UNCHANGED vars
  PROVE  FeedStep
<1>1. UNCHANGED <<produced, source, runOf, got>>
  BY DEF EvictRun, Drop, vars, clientVars, producerVars
<1>2. UNCHANGED [c \in Client |-> conn[c] = "done"]
  BY DEF IInv, TypeOK, CacheTypeOK, EvictRun, Drop, vars, clientVars
<1> QED
  BY <1>1, <1>2 DEF FeedStep, Feed!feedVars, Feed!readerVars

(* A client reads the next chunk, and [DONE] only behind the last. *)
LEMMA FeedRead ==
  ASSUME IInv, NEW c \in Client, Read(c)
  PROVE  FeedStep
<1> USE DEF IInv, TypeOK, CacheTypeOK
<1>1. runOf[c] \in Run /\ UNCHANGED <<produced, source, runOf>>
  BY DEF Read, ReadFrame, ReadDone, ClientInv, producerVars
<1>2. Len(got[c]) \in Nat /\ Len(wire[c]) \in Nat
  OBVIOUS
<1>3. CASE ReadFrame(c)
  <2>1. Len(got[c]) < produced[runOf[c]]
    <3>1. wire[c] \in Seq(Frame) /\ wire[c] # <<>>
      BY <1>3 DEF ReadFrame
    <3>2. Len(wire[c]) # 0
      BY <3>1
    <3> QED
      BY <1>1, <1>2, <3>2, CacheAssumption DEF ClientInv
  <2>2. Len(got'[c]) = Len(got[c]) + 1 /\ \A d \in Client \ {c} : got'[d] = got[d]
    <3>1. Len(Append(got[c], Head(wire[c]))) = Len(got[c]) + 1
      OBVIOUS
    <3> QED
      BY <1>3, <3>1 DEF ReadFrame
  <2>3. Feed!Advance(c)
    <3>1. [d \in Client |-> Len(got'[d])]
            = [[d \in Client |-> Len(got[d])] EXCEPT ![c] = @ + 1]
      BY <2>2
    <3>2. conn[c] = "open" /\ conn' = conn
      BY <1>3 DEF ReadFrame
    <3> QED
      BY <1>1, <2>1, <3>1, <3>2, CacheAssumption DEF Feed!Advance, Feed!feedVars
  <2> QED
    BY <2>3 DEF FeedStep, Feed!Next
<1>4. CASE ReadDone(c)
  <2>1. source[runOf[c]] = "over" /\ Len(got[c]) + Len(wire[c]) = produced[runOf[c]]
    BY <1>4 DEF ReadDone, NothingSlips
  <2>2. Len(got[c]) = produced[runOf[c]]
    <3>1. Len(wire[c]) = 0
      BY <1>4 DEF ReadDone
    <3> QED
      BY <1>2, <2>1, <3>1
  <2>3. Feed!Complete(c)
    BY <1>1, <1>4, <2>1, <2>2, CacheAssumption DEF ReadDone, Feed!Complete, Feed!feedVars
  <2> QED
    BY <2>3 DEF FeedStep, Feed!Next
<1> QED
  BY <1>3, <1>4 DEF Read

LEMMA StepIsFeedStep == ASSUME IInv, [Next]_vars PROVE FeedStep
<1>1. ASSUME NEW c \in Client, NEW r \in Run, Reconnect(c, r) \/ ReconnectRefused(c, r)
      PROVE  FeedStep
  BY <1>1, FeedConnect DEF Reconnect, ReconnectRefused
<1> QED
  BY <1>1, FeedServeRun, FeedProducer, FeedHidden, FeedRead DEF Next

(* The transport implements the feed, through every drop, replay, resume    *)
(* and eviction, on both kinds of host.                                     *)
THEOREM FeedIsImplemented == Spec => ImplementsFeed
<1>1. Init => Feed!Init
  BY FeedInit
<1>2. IInv /\ [Next]_vars => [Feed!Next]_<<Feed!feedVars, Feed!readerVars>>
  BY StepIsFeedStep DEF FeedStep
<1> QED
  BY <1>1, <1>2, Invariant, PTL DEF Spec, ImplementsFeed, Feed!Spec
-----------------------------------------------------------------------------
(* Listeners on a host that reports a lost connection.  A followed          *)
(* connection is the client's open one, and nothing closed it.              *)
DetachInv ==
  /\ DropDetaches
  /\ \A r \in Run : \A k \in listeners[r] : ~fin[k[1]]

LEMMA DetachInit == Init => DetachInv
BY DEF Init, CacheInit, DetachInv, DropDetaches

(* A client without an open connection is followed by no run. *)
LEMMA NotListed ==
  ASSUME TypeOK, DetachInv, NEW c \in Client, conn[c] # "open" \/ fin[c],
         NEW r \in Run, NEW k \in listeners[r]
  PROVE  k[1] \in Client \ {c}
BY DEF TypeOK, CacheTypeOK, Connection, DetachInv, DropDetaches

LEMMA DetachConnect ==
  ASSUME TypeOK, DetachInv, NEW c \in Client, NEW r \in Run,
         ServeRun(c, r) \/ Reconnect(c, r) \/ ReconnectRefused(c, r)
  PROVE  DetachInv'
<1> USE DEF TypeOK, CacheTypeOK, Connection
<1>1. conn[c] = "off"
  BY DEF ServeRun, Reconnect, ReconnectRefused
<1>2. \A q \in Run : \A k \in listeners[q] : k[1] \in Client \ {c}
  BY <1>1, NotListed
<1>3. /\ \A d \in Client \ {c} : conn'[d] = conn[d] /\ epoch'[d] = epoch[d] /\ fin'[d] = fin[d]
  BY DEF ServeRun, Reconnect, ReconnectRefused, OpenConnection, Attach
<1>4. CASE listeners' = listeners
  BY <1>2, <1>3, <1>4 DEF DetachInv, DropDetaches, Current
<1>5. CASE listeners' # listeners
  <2>1. Reconnect(c, r)
    BY <1>5 DEF ServeRun, ReconnectRefused, cacheVars
  <2>2. /\ listeners' = [listeners EXCEPT ![r] = Following(r, <<c, epoch'[c]>>)]
        /\ fin' = [fin EXCEPT ![c] = ended[r]]
    BY <2>1 DEF Reconnect, Attach, Closes
  <2>3. ~ended[r] /\ Following(r, <<c, epoch'[c]>>) = listeners[r] \cup {<<c, epoch'[c]>>}
    BY <1>5, <2>2 DEF Following
  <2>4. conn'[c] = "open" /\ ~fin'[c]
    BY <2>1, <2>2, <2>3 DEF Reconnect, OpenConnection
  <2>5. ASSUME NEW q \in Run, NEW k \in listeners'[q]
        PROVE  conn'[k[1]] = "open" /\ Current(k[1])' = k /\ ~fin'[k[1]]
    <3>1. CASE k = <<c, epoch'[c]>>
      BY <2>4, <3>1 DEF Current
    <3>2. CASE k # <<c, epoch'[c]>>
      <4>1. k \in listeners[q]
        BY <2>2, <2>3, <2>5, <3>2
      <4> QED
        BY <1>2, <1>3, <4>1 DEF DetachInv, DropDetaches, Current
    <3> QED
      BY <3>1, <3>2
  <2> QED
    BY <2>5 DEF DetachInv, DropDetaches
<1> QED
  BY <1>4, <1>5

(* The end of a run tells its own listeners, and drops them. *)
LEMMA DetachFinish ==
  ASSUME IInv, DetachInv, NEW r \in Run, ServeFinish(r)
  PROVE  DetachInv'
<1> USE DEF TypeOK, CacheTypeOK, Connection
<1>1. UNCHANGED <<conn, epoch>> /\ listeners' = [listeners EXCEPT ![r] = Kept(r)]
  BY DEF ServeFinish, End, IInv
<1>2. listeners'[r] = {}
  BY <1>1 DEF Kept, Terminates, IInv, BufferInv
<1>3. ASSUME NEW q \in Run, NEW k \in listeners'[q]
      PROVE  conn'[k[1]] = "open" /\ Current(k[1])' = k /\ ~fin'[k[1]]
  <2>1. q # r /\ k \in listeners[q]
    BY <1>1, <1>2, <1>3 DEF IInv
  <2>2. k[1] \in Client /\ conn[k[1]] = "open" /\ Current(k[1]) = k /\ ~fin[k[1]]
    BY <2>1 DEF DetachInv, DropDetaches, IInv
  <2>3. runOf[k[1]] = q
    BY <2>1, <2>2 DEF IInv, OwnersInv, Current
  <2>4. k \notin poster[r] \cup listeners[r]
    BY <2>1, <2>2, <2>3 DEF IInv, OwnersInv, Current
  <2>5. k[1] \notin Reached(poster[r] \cup Told(r))
    BY <2>2, <2>4 DEF Reached, Told
  <2>6. fin'[k[1]] = fin[k[1]]
    BY <2>2, <2>5 DEF ServeFinish, End, IInv
  <2> QED
    BY <1>1, <2>2, <2>6 DEF Current
<1> QED
  BY <1>3 DEF DetachInv, DropDetaches

(* The abort listener of a lost connection. *)
LEMMA DetachDrop ==
  ASSUME TypeOK, DetachInv, HostSignals, NEW c \in Client, Drop(c)
  PROVE  DetachInv'
<1> USE DEF TypeOK, CacheTypeOK, Connection
<1>1. listeners' = [r \in Run |-> listeners[r] \ {Current(c)}] /\ UNCHANGED epoch
  BY DEF Drop, Unsubscribe
<1>2. ASSUME NEW r \in Run, NEW k \in listeners'[r]
      PROVE  conn'[k[1]] = "open" /\ Current(k[1])' = k /\ ~fin'[k[1]]
  <2>1. k \in listeners[r] /\ k # Current(c)
    BY <1>1, <1>2
  <2>2. k[1] \in Client /\ conn[k[1]] = "open" /\ Current(k[1]) = k /\ ~fin[k[1]]
    BY <2>1 DEF DetachInv, DropDetaches
  <2>3. k[1] # c
    BY <2>1, <2>2
  <2> QED
    BY <1>1, <2>2, <2>3 DEF Drop, Current
<1> QED
  BY <1>2 DEF DetachInv, DropDetaches

LEMMA DetachStep ==
  ASSUME HostSignals, IInv, DetachInv, [Next]_vars
  PROVE  DetachInv'
<1>type. TypeOK
  BY DEF IInv
<1>1. ASSUME NEW c \in Client, NEW r \in Run,
             ServeRun(c, r) \/ Reconnect(c, r) \/ ReconnectRefused(c, r)
      PROVE  DetachInv'
  BY <1>type, <1>1, DetachConnect
<1>2. ASSUME NEW r \in Run, ServeChunk(r) \/ EvictRun(r) PROVE DetachInv'
  <2>1. UNCHANGED <<conn, epoch, fin>> /\ \A q \in Run : listeners'[q] \subseteq listeners[q]
    BY <1>type, <1>2
    DEF TypeOK, CacheTypeOK, ServeChunk, AppendFrame, EvictRun, Evict, clientVars
  <2> QED
    BY <2>1 DEF DetachInv, DropDetaches, Current
<1>3. ASSUME NEW r \in Run, ServeFinish(r) PROVE DetachInv'
  BY <1>3, DetachFinish
<1>4. ASSUME NEW c \in Client, Drop(c) PROVE DetachInv'
  BY <1>type, <1>4, DetachDrop
<1>5. ASSUME NEW c \in Client, Read(c) PROVE DetachInv'
  <2>1. CASE ReadFrame(c)
    BY <2>1 DEF ReadFrame, cacheVars, DetachInv, DropDetaches, Current
  <2>2. CASE ReadDone(c)
    <3>1. fin[c] /\ UNCHANGED <<listeners, epoch, fin>> /\ conn' = [conn EXCEPT ![c] = "done"]
      BY <2>2 DEF ReadDone, cacheVars
    <3>2. \A r \in Run : \A k \in listeners[r] : k[1] \in Client \ {c}
      BY <1>type, <3>1, NotListed
    <3> QED
      BY <1>type, <3>1, <3>2 DEF TypeOK, CacheTypeOK, DetachInv, DropDetaches, Current
  <2> QED
    BY <1>5, <2>1, <2>2 DEF Read
<1>6. CASE UNCHANGED vars
  BY <1>6 DEF vars, cacheVars, clientVars, DetachInv, DropDetaches, Current
<1> QED
  BY <1>1, <1>2, <1>3, <1>4, <1>5, <1>6 DEF Next

(* "The request AbortSignal unsubscribes on disconnect"                     *)
(* (handle-agent-run-reconnect.ts): where the host raises the signal, no    *)
(* listener of a lost connection is left behind.                            *)
THEOREM LostConnectionsAreDetached ==
  ASSUME HostSignals PROVE Spec => []DropDetaches
<1>1. Init => DetachInv
  BY DetachInit
<1>2. IInv /\ DetachInv /\ [Next]_vars => DetachInv'
  BY DetachStep
<1>3. DetachInv => DropDetaches
  BY DEF DetachInv
<1> QED
  BY <1>1, <1>2, <1>3, Invariant, PTL DEF Spec
=============================================================================
