------------------------------ MODULE RunFeed ------------------------------
(***************************************************************************)
(* What the resumable transport promises, with no cache, no connection and *)
(* no wire: a run is a feed of chunks that grows and then closes, and a    *)
(* follower of a run has read a prefix of it.  It advances one chunk at a  *)
(* time, may start over, and may be told "done" only when the feed is      *)
(* closed and it has read all of it.                                       *)
(***************************************************************************)
EXTENDS Naturals

CONSTANTS Run, Client, NoRun

VARIABLES length,  \* length[r]: chunks in the feed of r
          closed,  \* closed[r]: no chunk follows
          follows, \* follows[c]: the run the client follows, or NoRun
          read,    \* read[c]: how many of its chunks the client has read
          told     \* told[c]: the client was told the run is complete

feedVars == <<length, closed>>
readerVars == <<follows, read, told>>

Init ==
  /\ length = [r \in Run |-> 0]
  /\ closed = [r \in Run |-> FALSE]
  /\ follows = [c \in Client |-> NoRun]
  /\ read = [c \in Client |-> 0]
  /\ told = [c \in Client |-> FALSE]

Write(r) ==
  /\ ~closed[r]
  /\ length' = [length EXCEPT ![r] = @ + 1]
  /\ UNCHANGED <<closed, readerVars>>

Close(r) ==
  /\ ~closed[r]
  /\ closed' = [closed EXCEPT ![r] = TRUE]
  /\ UNCHANGED <<length, readerVars>>

(* A client picks the run it follows, once. *)
Follow(c, r) ==
  /\ follows[c] = NoRun
  /\ follows' = [follows EXCEPT ![c] = r]
  /\ UNCHANGED <<feedVars, read, told>>

Advance(c) ==
  /\ follows[c] # NoRun /\ ~told[c]
  /\ read[c] < length[follows[c]]
  /\ read' = [read EXCEPT ![c] = @ + 1]
  /\ UNCHANGED <<feedVars, follows, told>>

StartOver(c) ==
  /\ ~told[c]
  /\ read' = [read EXCEPT ![c] = 0]
  /\ UNCHANGED <<feedVars, follows, told>>

Complete(c) ==
  /\ follows[c] # NoRun
  /\ closed[follows[c]] /\ read[c] = length[follows[c]]
  /\ told' = [told EXCEPT ![c] = TRUE]
  /\ UNCHANGED <<feedVars, follows, read>>

Next ==
  \/ \E r \in Run : Write(r) \/ Close(r)
  \/ \E c \in Client, r \in Run : Follow(c, r)
  \/ \E c \in Client : Advance(c) \/ StartOver(c) \/ Complete(c)

Spec == Init /\ [][Next]_<<feedVars, readerVars>>
=============================================================================
