------------------------- MODULE CacheEngineProofs -------------------------
(***************************************************************************)
(* The storage's documented invariants and the promises of the engine, for *)
(* every finite set of keys and every set of tags and callers.             *)
(***************************************************************************)
EXTENDS CacheEngine, FiniteSetTheorems, TLAPS

-----------------------------------------------------------------------------
(* The storage *)

(* A strict total order of a finite set that is not empty has a first. *)
LEMMA OrderHasFirst ==
  ASSUME NEW S, IsFiniteSet(S), S # {}, NEW R,
         \A x \in S : <<x, x>> \notin R,
         \A x, y \in S : x # y => <<x, y>> \in R \/ <<y, x>> \in R,
         \A x, y, z \in S : <<x, y>> \in R /\ <<y, z>> \in R => <<x, z>> \in R
  PROVE  \E x \in S : \A y \in S \ {x} : <<x, y>> \in R
<1> DEFINE Below(x) == {y \in S : <<y, x>> \in R}
           T == {Below(x) : x \in S}
<1>1. IsWellFoundedOn(StrictSubsetOrdering(S), FiniteSubsetsOf(S))
  BY FS_StrictSubsetOrderingWellFounded
<1>2. T \subseteq FiniteSubsetsOf(S) /\ T # {}
  <2>1. \A x \in S : Below(x) \in SUBSET S /\ IsFiniteSet(Below(x))
    <3> SUFFICES ASSUME NEW x \in S PROVE Below(x) \in SUBSET S /\ IsFiniteSet(Below(x))
      OBVIOUS
    <3>1. Below(x) \in SUBSET S
      OBVIOUS
    <3> HIDE DEF Below
    <3> QED
      BY <3>1, FS_Subset
  <2>2. T # {}
    <3>1. PICK x \in S : TRUE
      OBVIOUS
    <3>2. Below(x) \in T
      OBVIOUS
    <3> HIDE DEF T
    <3> QED
      BY <3>2
  <2>3. \A B \in T : B \in FiniteSubsetsOf(S)
    <3> SUFFICES ASSUME NEW x \in S PROVE Below(x) \in FiniteSubsetsOf(S)
      OBVIOUS
    <3> HIDE DEF Below
    <3> QED
      BY <2>1 DEF FiniteSubsetsOf
  <2> QED
    BY <2>2, <2>3
<1>3. PICK B \in T : \A C \in T : ~ (<<C, B>> \in StrictSubsetOrdering(S))
  <2> HIDE DEF T
  <2> QED
    BY <1>1, <1>2, WFMin
<1>4. PICK x \in S : B = Below(x)
  BY <1>3
<1>5. \A y \in S : <<y, x>> \notin R
  <2> SUFFICES ASSUME NEW y \in S, <<y, x>> \in R PROVE FALSE
    OBVIOUS
  <2>1. Below(y) \subseteq Below(x) /\ y \in Below(x) /\ y \notin Below(y)
    OBVIOUS
  <2>2. <<Below(y), Below(x)>> \in StrictSubsetOrdering(S)
    BY <2>1 DEF StrictSubsetOrdering
  <2> QED
    BY <2>2, <1>3, <1>4
<1> QED
  BY <1>5

LEMMA StoredFinite == IsFiniteSet(Stored) /\ Cardinality(Stored) \in Nat
BY AdapterAssumption, FS_Subset, FS_CardinalityType DEF Stored

(* What set() displaces: the entry overwritten, or one that was stored. *)
LEMMA DisplacedIsStored ==
  ASSUME OrderTotal, NEW k \in Key
  PROVE  \/ k \in Stored /\ Displaced(k) = {k}
         \/ k \notin Stored /\ Cardinality(Stored) < MaxEntries /\ Displaced(k) = {}
         \/ k \notin Stored /\ \E v \in Stored : Displaced(k) = {v}
<1>1. CASE k \in Stored
  BY <1>1 DEF Displaced, Stored
<1>2. CASE k \notin Stored /\ Cardinality(Stored) < MaxEntries
  BY <1>2, StoredFinite, AdapterAssumption DEF Displaced, Stored
<1>3. CASE k \notin Stored /\ ~ (Cardinality(Stored) < MaxEntries)
  <2>1. Cardinality(Stored) >= MaxEntries /\ Cardinality(Stored) # 0
    BY <1>3, StoredFinite, AdapterAssumption
  <2>2. Stored # {}
    BY <2>1, FS_EmptySet
  <2>3. \E x \in Stored : \A y \in Stored \ {x} : <<x, y>> \in older
    BY <2>2, StoredFinite, OrderHasFirst DEF OrderTotal
  <2>4. Oldest \in Stored
    BY <2>3 DEF Oldest
  <2>5. Displaced(k) = {Oldest}
    BY <1>3, <2>1 DEF Displaced, Stored
  <2> QED
    BY <1>3, <2>4, <2>5
<1> QED
  BY <1>1, <1>2, <1>3

LEMMA GetKeeps ==
  ASSUME StoreTypeOK, StoreExact, NEW k \in Key, Get(k)
  PROVE  StoreTypeOK' /\ StoreExact' /\ entries' = entries
<1>1. entries' = entries /\ tagIndex' = tagIndex /\ Stored' = Stored
  BY DEF Get, Stored
<1>2. older' = IF k \in Stored THEN WithLast(Stored, k) ELSE older
  BY DEF Get
<1>3. SizeBounded' /\ IndexExact'
  BY <1>1 DEF StoreExact, SizeBounded, IndexExact
<1>4. CASE k \notin Stored
  BY <1>1, <1>2, <1>3, <1>4 DEF StoreExact, OrderTotal, StoreTypeOK
<1>5. CASE k \in Stored
  <2>1. older' = (older \cap ((Stored \ {k}) \X (Stored \ {k}))) \cup ((Stored \ {k}) \X {k})
    BY <1>2, <1>5 DEF WithLast, Among
  <2>2. OrderTotal'
    BY <2>1, <1>1, <1>5 DEF StoreExact, OrderTotal
  <2>3. StoreTypeOK'
    BY <2>1, <1>1, <1>5 DEF StoreTypeOK, Stored
  <2> QED
    BY <2>2, <2>3, <1>1, <1>3 DEF StoreExact
<1> QED
  BY <1>4, <1>5

LEMMA PutKeeps ==
  ASSUME StoreTypeOK, StoreExact, NEW k \in Key, NEW e \in Entry, Put(k, e)
  PROVE  /\ StoreTypeOK' /\ StoreExact'
         /\ entries'[k] = e
         /\ \A j \in Key \ {k} : entries'[j] \in {entries[j], NoEntry}
<1> DEFINE gone == Displaced(k)
           rest == Stored \ gone
<1>1. /\ entries' = [j \in Key |-> IF j = k THEN e ELSE IF j \in gone THEN NoEntry ELSE entries[j]]
      /\ older' = WithLast(rest \cup {k}, k)
      /\ tagIndex' = [t \in Tag |-> IF t \in e.tags THEN Unindexed(gone)[t] \cup {k} ELSE Unindexed(gone)[t]]
  BY DEF Put
<1>2. \/ k \in Stored /\ gone = {k}
      \/ k \notin Stored /\ Cardinality(Stored) < MaxEntries /\ gone = {}
      \/ k \notin Stored /\ \E v \in Stored : gone = {v}
  BY DisplacedIsStored DEF StoreExact
<1>3. e # NoEntry /\ gone \subseteq Stored /\ Stored \subseteq Key
  BY <1>2, EntryAssumption DEF Stored
<1> HIDE DEF gone
<1>4. Stored' = rest \cup {k}
  BY <1>1, <1>3 DEF Stored
<1>5. SizeBounded'
  <2>1. CASE k \in Stored /\ gone = {k}
    BY <2>1, <1>4 DEF StoreExact, SizeBounded
  <2>2. CASE k \notin Stored /\ Cardinality(Stored) < MaxEntries /\ gone = {}
    <3>1. Stored' = Stored \cup {k}
      BY <2>2, <1>4
    <3>2. Cardinality(Stored \cup {k}) = Cardinality(Stored) + 1
      BY <2>2, StoredFinite, FS_AddElement
    <3> QED
      BY <3>1, <3>2, <2>2, StoredFinite, AdapterAssumption DEF SizeBounded
  <2>3. CASE k \notin Stored /\ \E v \in Stored : gone = {v}
    <3>1. PICK v \in Stored : gone = {v}
      BY <2>3
    <3>2. IsFiniteSet(Stored \ {v}) /\ Cardinality(Stored \ {v}) = Cardinality(Stored) - 1
      BY <3>1, StoredFinite, FS_RemoveElement
    <3>3. Cardinality((Stored \ {v}) \cup {k}) = Cardinality(Stored) - 1 + 1
      BY <3>2, <2>3, FS_AddElement
    <3> QED
      BY <3>1, <3>3, <1>4, StoredFinite, AdapterAssumption DEF StoreExact, SizeBounded
  <2> QED
    BY <2>1, <2>2, <2>3, <1>2
<1>6. \A t \in Tag : Unindexed(gone)[t] = tagIndex[t] \ {j \in gone : entries[j] # NoEntry /\ t \in entries[j].tags}
  BY DEF Unindexed
<1>7. IndexExact'
  <2> SUFFICES ASSUME NEW t \in Tag, NEW j \in Key
               PROVE  j \in tagIndex'[t] <=> j \in Stored' /\ t \in entries'[j].tags
    BY DEF IndexExact
  <2>1. j \in tagIndex[t] <=> j \in Stored /\ t \in entries[j].tags
    BY DEF StoreExact, IndexExact
  <2>2. j \in Unindexed(gone)[t] <=> j \in rest /\ t \in entries[j].tags
    BY <1>6, <2>1, <1>3 DEF Stored
  <2>3. tagIndex'[t] = IF t \in e.tags THEN Unindexed(gone)[t] \cup {k} ELSE Unindexed(gone)[t]
    BY <1>1
  <2>4. CASE j = k
    <3>1. j \notin Unindexed(gone)[t]
      BY <2>2, <2>4, <1>2
    <3> QED
      BY <3>1, <2>3, <2>4, <1>1, <1>4
  <2>5. CASE j # k
    BY <2>5, <2>2, <2>3, <1>1, <1>4, <1>3
  <2> QED
    BY <2>4, <2>5
<1>8. OrderTotal'
  <2>1. older' = (older \cap ((rest \ {k}) \X (rest \ {k}))) \cup ((rest \ {k}) \X {k})
    BY <1>1 DEF WithLast, Among
  <2> QED
    BY <2>1, <1>4, <1>3 DEF StoreExact, OrderTotal
<1>9. StoreTypeOK'
  <2>1. entries' \in [Key -> Entry \cup {NoEntry}]
    BY <1>1 DEF StoreTypeOK
  <2>2. older' \in SUBSET (Key \X Key)
    BY <1>1, <1>3 DEF WithLast, Among, StoreTypeOK
  <2>3. tagIndex' \in [Tag -> SUBSET Key]
    BY <1>1, <1>6 DEF StoreTypeOK
  <2> QED
    BY <2>1, <2>2, <2>3 DEF StoreTypeOK
<1>10. entries'[k] = e /\ \A j \in Key \ {k} : entries'[j] \in {entries[j], NoEntry}
  BY <1>1
<1> QED
  BY <1>5, <1>7, <1>8, <1>9, <1>10 DEF StoreExact

LEMMA RemoveKeeps ==
  ASSUME StoreTypeOK, StoreExact, NEW keys \in SUBSET Key, Remove(keys)
  PROVE  /\ StoreTypeOK' /\ StoreExact'
         /\ \A j \in Key : entries'[j] = IF j \in keys THEN NoEntry ELSE entries[j]
<1>1. /\ entries' = [k \in Key |-> IF k \in keys THEN NoEntry ELSE entries[k]]
      /\ older' = older \cap ((Stored \ keys) \X (Stored \ keys))
      /\ tagIndex' = [t \in Tag |-> tagIndex[t] \ {k \in keys : entries[k] # NoEntry /\ t \in entries[k].tags}]
  BY DEF Remove, Among, Unindexed
<1>2. Stored' = Stored \ keys
  BY <1>1 DEF Stored
<1>3. SizeBounded'
  <2>1. Cardinality(Stored \ keys) <= Cardinality(Stored) /\ Cardinality(Stored \ keys) \in Nat
    BY StoredFinite, FS_Subset, FS_CardinalityType
  <2> QED
    BY <2>1, <1>2, StoredFinite, AdapterAssumption DEF StoreExact, SizeBounded
<1>4. IndexExact'
  BY <1>1, <1>2 DEF StoreExact, IndexExact, Stored
<1>5. OrderTotal'
  BY <1>1, <1>2 DEF StoreExact, OrderTotal
<1>6. StoreTypeOK'
  BY <1>1 DEF StoreTypeOK
<1> QED
  BY <1>1, <1>3, <1>4, <1>5, <1>6 DEF StoreExact

LEMMA AgeKeeps ==
  ASSUME StoreTypeOK, StoreExact, NEW k \in Key, Age(k)
  PROVE  /\ StoreTypeOK' /\ StoreExact'
         /\ Stored' = Stored /\ \A j \in Stored : entries'[j].value = entries[j].value
<1>1. PICK w \in {"stale", "expired"} : entries' = [entries EXCEPT ![k].window = w]
  BY DEF Age
<1>2. k \in Stored /\ older' = older /\ tagIndex' = tagIndex
  BY DEF Age
<1>3. entries[k] \in Entry
  BY <1>2 DEF Stored, StoreTypeOK
<1>4. [entries[k] EXCEPT !.window = w] \in Entry
  BY <1>3 DEF Entry
<1>5. /\ entries' = [entries EXCEPT ![k] = [entries[k] EXCEPT !.window = w]]
      /\ entries' \in [Key -> Entry \cup {NoEntry}]
  BY <1>1, <1>2, <1>4 DEF StoreTypeOK
<1>6. Stored' = Stored
  BY <1>2, <1>4, <1>5, EntryAssumption DEF Stored, StoreTypeOK
<1>7. \A j \in Stored : entries'[j].value = entries[j].value /\ entries'[j].tags = entries[j].tags
  BY <1>2, <1>3, <1>5 DEF Stored, StoreTypeOK, Entry
<1>8. SizeBounded' /\ OrderTotal'
  BY <1>2, <1>6 DEF StoreExact, SizeBounded, OrderTotal
<1>9. IndexExact'
  BY <1>2, <1>6, <1>7 DEF StoreExact, IndexExact
<1> QED
  BY <1>2, <1>5, <1>6, <1>7, <1>8, <1>9 DEF StoreExact, StoreTypeOK

-----------------------------------------------------------------------------
(* The engine *)

EngineTypeOK ==
  /\ source \in [Key -> Version]
  /\ inFlight \in [Key -> Caller \cup {NoCaller}]
  /\ call \in [Caller -> CallRecord \cup {Idle}]
  /\ refresh \in [Key -> RefreshRecord]
  /\ promised \in [Key -> Version]
  /\ busted \in [Key -> BOOLEAN]

(* A call either leads or has joined; one that loads began at a version. *)
ShapeInv ==
  \A c \in Caller :
    /\ call[c].on # NoCaller <=> call[c].phase = "joined"
    /\ Loading(c) => call[c].version \in Version

(* JoinersAreHeld, said of the calls themselves. *)
HeldInv ==
  \A c \in Caller : call[c].phase = "joined" =>
    /\ call[c].on \in Caller
    /\ call[call[c].on].phase \notin {"idle", "joined"}
    /\ call[call[c].on].key = call[c].key

(* The holder of a slot leads, and unless the slot was cleared under a     *)
(* leader nobody else does.                                                *)
SlotInv ==
  \A k \in FunctionKey :
    /\ inFlight[k] # NoCaller => inFlight[k] \in Leaders(k)
    /\ ~busted[k] => Leaders(k) \subseteq {inFlight[k]}

(* What is stored, loaded, being loaded or being returned is no older than *)
(* the promise of its key.                                                 *)
KeyFresh ==
  \A k \in FunctionKey :
    /\ promised[k] <= source[k]
    /\ k \in Stored => promised[k] <= entries[k].value
    /\ refresh[k].phase = "loading" => promised[k] <= refresh[k].from

CallFresh ==
  \A c \in Caller : call[c].phase # "idle" =>
    /\ call[c].since <= promised[call[c].key]
    /\ call[c].phase # "joined" /\ call[c].version # Failed =>
         promised[call[c].key] <= call[c].version

Fresh == ~InFlightCounts => KeyFresh /\ CallFresh

IInv == TypeOK /\ StoreExact /\ ShapeInv /\ HeldInv /\ SlotInv /\ Fresh

(* The shape of a call. *)
LEMMA CallTypes ==
  ASSUME EngineTypeOK, NEW c \in Caller
  PROVE  /\ call[c] = Idle \/ call[c] \in CallRecord
         /\ call[c].phase = "idle" <=> call[c] = Idle
         /\ call[c].phase # "idle" => call[c] \in CallRecord
BY DEF EngineTypeOK, CallRecord, Idle, CallOf

(* Steps of the storage and of the world that leave calls, slots and       *)
(* refreshes alone keep what is said about them.                           *)
LEMMA CallsUntouched ==
  ASSUME ShapeInv, HeldInv, SlotInv, UNCHANGED <<inFlight, call, busted>>
  PROVE  ShapeInv' /\ HeldInv' /\ SlotInv'
BY DEF ShapeInv, HeldInv, SlotInv, Leaders, Loading

LEMMA EngineInit == Init => IInv
<1> SUFFICES ASSUME Init PROVE IInv
  OBVIOUS
<1>1. /\ entries = [k \in Key |-> NoEntry] /\ older = {} /\ tagIndex = [t \in Tag |-> {}]
      /\ source = [k \in Key |-> 0] /\ inFlight = [k \in Key |-> NoCaller]
      /\ call = [c \in Caller |-> Idle] /\ refresh = [k \in Key |-> Resting]
      /\ promised = [k \in Key |-> 0] /\ busted = [k \in Key |-> FALSE]
  BY DEF Init, StoreInit
<1>2. 0 \in Version /\ Resting \in RefreshRecord
  BY AdapterAssumption DEF Version, Resting, RefreshRecord
<1>3. Stored = {}
  BY <1>1 DEF Stored
<1>4. TypeOK
  BY <1>1, <1>2 DEF TypeOK, StoreTypeOK
<1>5. StoreExact
  <2>1. SizeBounded
    BY <1>3, FS_EmptySet, AdapterAssumption DEF SizeBounded
  <2> QED
    BY <2>1, <1>1, <1>3 DEF StoreExact, IndexExact, OrderTotal
<1>6. \A c \in Caller : call[c].phase = "idle" /\ call[c].on = NoCaller
  BY <1>1 DEF Idle, CallOf
<1>7. \A k \in Key : Leaders(k) = {}
  BY <1>6 DEF Leaders
<1>8. ShapeInv /\ HeldInv
  BY <1>6 DEF ShapeInv, HeldInv, Loading
<1>9. SlotInv
  BY <1>1, <1>7 DEF SlotInv, FunctionKey
<1>10. Fresh
  BY <1>1, <1>2, <1>3, <1>6 DEF Fresh, KeyFresh, CallFresh, FunctionKey, Resting
<1> QED
  BY <1>4, <1>5, <1>8, <1>9, <1>10 DEF IInv

LEMMA JoinKeeps == ASSUME IInv, NEW c \in Caller, NEW k \in FunctionKey, Join(c, k) PROVE IInv'
<1>inv. EngineTypeOK /\ StoreTypeOK /\ StoreExact /\ ShapeInv /\ HeldInv /\ SlotInv /\ Fresh
  BY DEF IInv, TypeOK, EngineTypeOK
<1> DEFINE r == CallOf("joined", k, Failed, promised[k], inFlight[k])
<1>1. /\ call[c] = Idle /\ inFlight[k] # NoCaller /\ call' = [call EXCEPT ![c] = r]
      /\ UNCHANGED <<store, source, inFlight, refresh, promised, busted>>
  BY DEF Join
<1>2. k \in Key /\ promised[k] \in Version /\ inFlight[k] \in Caller
  BY <1>inv, <1>1 DEF EngineTypeOK, FunctionKey
<1>3. /\ r \in CallRecord /\ r.phase = "joined" /\ r.on = inFlight[k] /\ r.key = k
      /\ r.since = promised[k]
  BY <1>2 DEF CallOf, CallRecord
<1> HIDE DEF r
<1>4. /\ call'[c] = r /\ \A d \in Caller \ {c} : call'[d] = call[d]
      /\ call' \in [Caller -> CallRecord \cup {Idle}]
  BY <1>1, <1>3, <1>inv DEF EngineTypeOK
<1>5. \A j \in Key : Leaders(j)' = Leaders(j)
  BY <1>1, <1>3, <1>4 DEF Leaders, Idle, CallOf
<1>6. TypeOK' /\ StoreExact'
  BY <1>1, <1>4, <1>inv DEF TypeOK, StoreTypeOK, EngineTypeOK, store, StoreExact, SizeBounded, IndexExact, OrderTotal, Stored
<1>7. ShapeInv'
  BY <1>1, <1>2, <1>3, <1>4, <1>inv, EngineAssumption DEF ShapeInv, Loading
<1>8. inFlight[k] \in Leaders(k)
  BY <1>1, <1>inv DEF SlotInv
<1>9. HeldInv'
  <2> SUFFICES ASSUME NEW d \in Caller, call'[d].phase = "joined"
               PROVE  /\ call'[d].on \in Caller
                      /\ call'[call'[d].on].phase \notin {"idle", "joined"}
                      /\ call'[call'[d].on].key = call'[d].key
    BY DEF HeldInv
  <2>1. call[c].phase = "idle"
    BY <1>1 DEF Idle, CallOf
  <2>2. CASE d = c
    <3>1. inFlight[k] # c
      BY <1>8, <2>1 DEF Leaders
    <3> QED
      BY <3>1, <2>2, <1>2, <1>3, <1>4, <1>8 DEF Leaders
  <2>3. CASE d # c
    <3>1. call'[d] = call[d] /\ call[d].on # c
      BY <2>1, <2>3, <1>4, <1>inv DEF HeldInv
    <3> QED
      BY <3>1, <1>4, <1>inv DEF HeldInv
  <2> QED
    BY <2>2, <2>3
<1>10. SlotInv'
  BY <1>1, <1>5, <1>inv DEF SlotInv, FunctionKey
<1>11. Fresh'
  <2>1. KeyFresh => KeyFresh'
    BY <1>1 DEF KeyFresh, Stored, store
  <2>2. CallFresh => CallFresh'
    BY <1>1, <1>2, <1>3, <1>4 DEF CallFresh, Version
  <2> QED
    BY <2>1, <2>2, <1>inv, <1>1 DEF Fresh
<1> QED
  BY <1>6, <1>7, <1>9, <1>10, <1>11 DEF IInv

(* A call that claims its key's free slot leads. *)
LEMMA Leads ==
  ASSUME EngineTypeOK, ShapeInv, HeldInv, SlotInv,
         NEW c \in Caller, NEW k \in FunctionKey, NEW r \in CallRecord,
         call[c] = Idle, inFlight[k] = NoCaller, inFlight' = Claim(c, k),
         call' = [call EXCEPT ![c] = r], UNCHANGED busted,
         r.phase \notin {"idle", "joined"}, r.key = k, r.on = NoCaller, r.version \in Version
  PROVE  /\ ShapeInv' /\ HeldInv' /\ SlotInv'
         /\ call' \in [Caller -> CallRecord \cup {Idle}]
         /\ inFlight' \in [Key -> Caller \cup {NoCaller}]
<1>1. k \in Key /\ call[c].phase = "idle" /\ call[c].on = NoCaller
  BY DEF FunctionKey, Idle, CallOf
<1>2. /\ call'[c] = r /\ \A d \in Caller \ {c} : call'[d] = call[d]
      /\ call' \in [Caller -> CallRecord \cup {Idle}]
  BY DEF EngineTypeOK
<1>3. /\ inFlight'[k] = c /\ \A j \in Key \ {k} : inFlight'[j] = inFlight[j]
      /\ inFlight' \in [Key -> Caller \cup {NoCaller}]
  BY <1>1 DEF EngineTypeOK, Claim
<1>4. ShapeInv'
  BY <1>2 DEF ShapeInv, Loading
<1>5. HeldInv'
  BY <1>1, <1>2 DEF HeldInv
<1>6. /\ Leaders(k)' = Leaders(k) \cup {c}
      /\ \A j \in Key \ {k} : Leaders(j)' = Leaders(j)
  BY <1>1, <1>2 DEF Leaders
<1>7. SlotInv'
  <2> SUFFICES ASSUME NEW j \in FunctionKey
               PROVE  /\ inFlight'[j] # NoCaller => inFlight'[j] \in Leaders(j)'
                      /\ ~busted'[j] => Leaders(j)' \subseteq {inFlight'[j]}
    BY DEF SlotInv
  <2>1. CASE j = k
    <3>1. ~busted[k] => Leaders(k) = {}
      BY EngineAssumption DEF SlotInv, Leaders
    <3> QED
      BY <3>1, <2>1, <1>3, <1>6
  <2>2. CASE j # k
    BY <2>2, <1>3, <1>6 DEF SlotInv, FunctionKey
  <2> QED
    BY <2>1, <2>2
<1> QED
  BY <1>2, <1>3, <1>4, <1>5, <1>7

LEMMA HitKeeps == ASSUME IInv, NEW c \in Caller, NEW k \in FunctionKey, Hit(c, k) PROVE IInv'
<1>inv. EngineTypeOK /\ StoreTypeOK /\ StoreExact /\ ShapeInv /\ HeldInv /\ SlotInv /\ Fresh
  BY DEF IInv, TypeOK, EngineTypeOK
<1>1. PICK p \in {"returning", "stale"} :
        call' = [call EXCEPT ![c] = CallOf(p, k, entries[k].value, promised[k], NoCaller)]
  BY DEF Hit
<1> DEFINE r == CallOf(p, k, entries[k].value, promised[k], NoCaller)
<1>2. /\ call[c] = Idle /\ inFlight[k] = NoCaller /\ inFlight' = Claim(c, k)
      /\ k \in Key /\ k \in Stored /\ Get(k) /\ UNCHANGED <<source, refresh, promised, busted>>
  BY DEF Hit, FunctionKey
<1>3. entries[k].value \in Version /\ promised[k] \in Version
  BY <1>2, <1>inv DEF Stored, StoreTypeOK, Entry, EngineTypeOK
<1>4. /\ r \in CallRecord /\ r.phase \notin {"idle", "joined"} /\ r.on = NoCaller
      /\ r.key = k /\ r.version = entries[k].value /\ r.since = promised[k]
  BY <1>3 DEF CallOf, CallRecord
<1> HIDE DEF r
<1>5. call' = [call EXCEPT ![c] = r]
  BY <1>1 DEF r
<1>6. /\ ShapeInv' /\ HeldInv' /\ SlotInv'
      /\ call' \in [Caller -> CallRecord \cup {Idle}]
      /\ inFlight' \in [Key -> Caller \cup {NoCaller}]
  BY <1>2, <1>3, <1>4, <1>5, <1>inv, Leads
<1>7. StoreTypeOK' /\ StoreExact' /\ entries' = entries
  BY <1>2, <1>inv, GetKeeps
<1>8. TypeOK'
  BY <1>2, <1>6, <1>7, <1>inv DEF TypeOK, EngineTypeOK
<1>9. Fresh'
  <2>1. KeyFresh => KeyFresh'
    BY <1>2, <1>7 DEF KeyFresh, Stored
  <2>2. ASSUME KeyFresh, CallFresh PROVE CallFresh'
    <3>1. call'[c] = r /\ \A d \in Caller \ {c} : call'[d] = call[d]
      BY <1>5, <1>inv DEF EngineTypeOK
    <3>2. promised[k] <= entries[k].value
      BY <2>2, <1>2 DEF KeyFresh
    <3> QED
      BY <3>1, <3>2, <2>2, <1>2, <1>3, <1>4 DEF CallFresh, Version
  <2> QED
    BY <2>1, <2>2, <1>inv DEF Fresh
<1> QED
  BY <1>6, <1>7, <1>8, <1>9 DEF IInv

LEMMA LoadKeeps == ASSUME IInv, NEW c \in Caller, NEW k \in FunctionKey, Load(c, k) PROVE IInv'
<1>inv. EngineTypeOK /\ StoreTypeOK /\ StoreExact /\ ShapeInv /\ HeldInv /\ SlotInv /\ Fresh
  BY DEF IInv, TypeOK, EngineTypeOK
<1>1. PICK p \in {"loading", "bypassing"} :
        /\ IF p = "loading" THEN Get(k) ELSE UNCHANGED store
        /\ call' = [call EXCEPT ![c] = CallOf(p, k, source[k], promised[k], NoCaller)]
  BY DEF Load
<1> DEFINE r == CallOf(p, k, source[k], promised[k], NoCaller)
<1>2. /\ call[c] = Idle /\ inFlight[k] = NoCaller /\ inFlight' = Claim(c, k)
      /\ k \in Key /\ UNCHANGED <<source, refresh, promised, busted>>
  BY DEF Load, FunctionKey
<1>3. source[k] \in Version /\ promised[k] \in Version
  BY <1>2, <1>inv DEF EngineTypeOK
<1>4. /\ r \in CallRecord /\ r.phase \notin {"idle", "joined"} /\ r.on = NoCaller
      /\ r.key = k /\ r.version = source[k] /\ r.since = promised[k]
  BY <1>3 DEF CallOf, CallRecord
<1> HIDE DEF r
<1>5. call' = [call EXCEPT ![c] = r]
  BY <1>1 DEF r
<1>6. /\ ShapeInv' /\ HeldInv' /\ SlotInv'
      /\ call' \in [Caller -> CallRecord \cup {Idle}]
      /\ inFlight' \in [Key -> Caller \cup {NoCaller}]
  BY <1>2, <1>3, <1>4, <1>5, <1>inv, Leads
<1>7. StoreTypeOK' /\ StoreExact' /\ entries' = entries
  <2>1. CASE Get(k)
    BY <2>1, <1>2, <1>inv, GetKeeps
  <2>2. CASE UNCHANGED store
    BY <2>2, <1>inv DEF store, StoreTypeOK, StoreExact, SizeBounded, IndexExact, OrderTotal, Stored
  <2> QED
    BY <2>1, <2>2, <1>1
<1>8. TypeOK'
  BY <1>2, <1>6, <1>7, <1>inv DEF TypeOK, EngineTypeOK
<1>9. Fresh'
  <2>1. KeyFresh => KeyFresh'
    BY <1>2, <1>7 DEF KeyFresh, Stored
  <2>2. ASSUME KeyFresh, CallFresh PROVE CallFresh'
    <3>1. call'[c] = r /\ \A d \in Caller \ {c} : call'[d] = call[d]
      BY <1>5, <1>inv DEF EngineTypeOK
    <3>2. promised[k] <= source[k]
      BY <2>2 DEF KeyFresh
    <3> QED
      BY <3>1, <3>2, <2>2, <1>2, <1>3, <1>4 DEF CallFresh, Version
  <2> QED
    BY <2>1, <2>2, <1>inv, <1>2 DEF Fresh
<1> QED
  BY <1>6, <1>7, <1>8, <1>9 DEF IInv

(* A call whose loader is done leads on, to its return. *)
LEMMA SettleKeeps ==
  ASSUME EngineTypeOK, ShapeInv, HeldInv, SlotInv, NEW c \in Caller, Loading(c),
         NEW v \in Version \cup {Failed}, Settle(c, v), UNCHANGED <<inFlight, busted>>
  PROVE  /\ ShapeInv' /\ HeldInv' /\ SlotInv'
         /\ call' \in [Caller -> CallRecord \cup {Idle}]
         /\ call'[c].phase = "returning" /\ call'[c].key = call[c].key
         /\ call'[c].version = v /\ call'[c].since = call[c].since
         /\ \A d \in Caller \ {c} : call'[d] = call[d]
<1> DEFINE r == CallOf("returning", call[c].key, v, call[c].since, NoCaller)
<1>1. call[c].phase \in {"loading", "bypassing"} /\ call' = [call EXCEPT ![c] = r]
  BY DEF Loading, Settle
<1>2. call[c].key \in FunctionKey /\ call[c].since \in Version
  BY <1>1, CallTypes DEF CallRecord
<1>3. /\ r \in CallRecord /\ r.phase = "returning" /\ r.on = NoCaller
      /\ r.key = call[c].key /\ r.version = v /\ r.since = call[c].since
  BY <1>2 DEF CallOf, CallRecord
<1> HIDE DEF r
<1>4. /\ call'[c] = r /\ \A d \in Caller \ {c} : call'[d] = call[d]
      /\ call' \in [Caller -> CallRecord \cup {Idle}]
  BY <1>1, <1>3 DEF EngineTypeOK
<1>5. \A j \in Key : Leaders(j)' = Leaders(j)
  BY <1>1, <1>3, <1>4 DEF Leaders
<1>6. ShapeInv' /\ SlotInv'
  BY <1>3, <1>4, <1>5 DEF ShapeInv, SlotInv, FunctionKey, Loading
<1>7. HeldInv'
  BY <1>1, <1>3, <1>4 DEF HeldInv
<1> QED
  BY <1>3, <1>4, <1>6, <1>7

(* Storing what a loader brought; every other key keeps its entry or loses *)
(* it to make room.                                                        *)
LEMMA StoreKeeps ==
  ASSUME StoreTypeOK, StoreExact, NEW k \in Key, NEW v \in Version, Store(k, v)
  PROVE  /\ StoreTypeOK' /\ StoreExact'
         /\ entries'[k].value = v
         /\ \A j \in Key \ {k} : entries'[j] \in {entries[j], NoEntry}
<1>1. PICK tags \in TagSets : Put(k, [value |-> v, tags |-> tags, window |-> "fresh"])
  BY DEF Store
<1> DEFINE e == [value |-> v, tags |-> tags, window |-> "fresh"]
<1>2. e \in Entry /\ e.value = v
  BY EngineAssumption DEF Entry
<1> HIDE DEF e
<1>3. Put(k, e)
  BY <1>1 DEF e
<1> QED
  BY <1>2, <1>3, PutKeeps

LEMMA UntouchedStore ==
  ASSUME StoreTypeOK, StoreExact, UNCHANGED store
  PROVE  StoreTypeOK' /\ StoreExact' /\ entries' = entries /\ Stored' = Stored
BY DEF store, StoreTypeOK, StoreExact, SizeBounded, IndexExact, OrderTotal, Stored

LEMMA LoaderReturnsKeeps == ASSUME IInv, NEW c \in Caller, LoaderReturns(c) PROVE IInv'
<1>inv. EngineTypeOK /\ StoreTypeOK /\ StoreExact /\ ShapeInv /\ HeldInv /\ SlotInv /\ Fresh
  BY DEF IInv, TypeOK, EngineTypeOK
<1> DEFINE k == call[c].key
<1>1. PICK v \in call[c].version .. source[k] :
        /\ (call[c].phase = "loading" /\ Store(k, v)) \/ UNCHANGED store
        /\ Settle(c, v)
  BY DEF LoaderReturns
<1>2. Loading(c) /\ UNCHANGED <<source, inFlight, refresh, promised, busted>>
  BY DEF LoaderReturns
<1>3. k \in FunctionKey /\ k \in Key /\ call[c].version \in Version /\ source[k] \in Version
  BY <1>2, <1>inv, CallTypes DEF Loading, CallRecord, FunctionKey, EngineTypeOK, ShapeInv
<1>4. v \in Version /\ call[c].version <= v
  BY <1>1, <1>3, AdapterAssumption DEF Version
<1>5. /\ ShapeInv' /\ HeldInv' /\ SlotInv'
      /\ call' \in [Caller -> CallRecord \cup {Idle}]
      /\ call'[c].phase = "returning" /\ call'[c].key = k
      /\ call'[c].version = v /\ call'[c].since = call[c].since
      /\ \A d \in Caller \ {c} : call'[d] = call[d]
  BY <1>1, <1>2, <1>4, <1>inv, SettleKeeps
<1>6. /\ StoreTypeOK' /\ StoreExact'
      /\ entries'[k].value = v \/ entries'[k] = entries[k]
      /\ \A j \in Key \ {k} : entries'[j] \in {entries[j], NoEntry}
  <2>1. CASE Store(k, v)
    BY <2>1, <1>3, <1>4, <1>inv, StoreKeeps
  <2>2. CASE UNCHANGED store
    BY <2>2, <1>inv, UntouchedStore
  <2> QED
    BY <2>1, <2>2, <1>1
<1>7. TypeOK'
  BY <1>2, <1>5, <1>6, <1>inv DEF TypeOK, EngineTypeOK
<1>8. Fresh'
  <2> SUFFICES ASSUME KeyFresh, CallFresh PROVE KeyFresh' /\ CallFresh'
    BY <1>inv DEF Fresh
  <2>1. promised[k] <= v
    <3>1. promised[k] <= call[c].version
      BY <1>2, <1>3, EngineAssumption DEF CallFresh, Loading
    <3> QED
      BY <3>1, <1>3, <1>4, <1>inv DEF Version, EngineTypeOK
  <2>2. KeyFresh'
    BY <2>1, <1>2, <1>3, <1>6 DEF KeyFresh, Stored, FunctionKey
  <2>3. CallFresh'
    BY <2>1, <1>2, <1>5 DEF CallFresh, Loading
  <2> QED
    BY <2>2, <2>3
<1> QED
  BY <1>5, <1>6, <1>7, <1>8 DEF IInv

LEMMA LoaderThrowsKeeps == ASSUME IInv, NEW c \in Caller, LoaderThrows(c) PROVE IInv'
<1>inv. EngineTypeOK /\ StoreTypeOK /\ StoreExact /\ ShapeInv /\ HeldInv /\ SlotInv /\ Fresh
  BY DEF IInv, TypeOK, EngineTypeOK
<1>1. /\ Loading(c) /\ Settle(c, Failed)
      /\ UNCHANGED <<store, source, inFlight, refresh, promised, busted>>
  BY DEF LoaderThrows
<1>2. /\ ShapeInv' /\ HeldInv' /\ SlotInv'
      /\ call' \in [Caller -> CallRecord \cup {Idle}]
      /\ call'[c].phase = "returning" /\ call'[c].key = call[c].key
      /\ call'[c].version = Failed /\ call'[c].since = call[c].since
      /\ \A d \in Caller \ {c} : call'[d] = call[d]
  BY <1>1, <1>inv, SettleKeeps
<1>3. StoreTypeOK' /\ StoreExact' /\ entries' = entries
  BY <1>1, <1>inv, UntouchedStore
<1>4. TypeOK'
  BY <1>1, <1>2, <1>3, <1>inv DEF TypeOK, EngineTypeOK
<1>5. Fresh'
  <2>1. KeyFresh => KeyFresh'
    BY <1>1, <1>3 DEF KeyFresh, Stored
  <2>2. CallFresh => CallFresh'
    BY <1>1, <1>2 DEF CallFresh, Loading
  <2> QED
    BY <2>1, <2>2, <1>inv DEF Fresh
<1> QED
  BY <1>2, <1>3, <1>4, <1>5 DEF IInv

LEMMA ReturnKeeps == ASSUME IInv, NEW c \in Caller, Return(c) PROVE IInv'
<1>inv. EngineTypeOK /\ StoreTypeOK /\ StoreExact /\ ShapeInv /\ HeldInv /\ SlotInv /\ Fresh
  BY DEF IInv, TypeOK, EngineTypeOK
<1> DEFINE k == call[c].key
<1>1. /\ call[c].phase \in {"returning", "stale"}
      /\ call' = [d \in Caller |-> IF d = c \/ call[d].on = c THEN Idle ELSE call[d]]
      /\ inFlight' = [inFlight EXCEPT ![k] = NoCaller]
      /\ busted' = [busted EXCEPT ![k] = busted[k] /\ Leaders(k) # {c}]
      /\ UNCHANGED <<store, source, promised>>
  BY DEF Return, Released
<1>2. k \in FunctionKey /\ k \in Key
  BY <1>1, <1>inv, CallTypes DEF CallRecord, FunctionKey
<1>3. /\ refresh' \in [Key -> RefreshRecord]
      /\ \A j \in Key : refresh'[j] = refresh[j] \/ refresh'[j].from = source[j]
  <2>1. CASE refresh' = refresh
    BY <2>1, <1>inv DEF EngineTypeOK
  <2>2. CASE refresh' = [refresh EXCEPT ![k] = [phase |-> "loading", from |-> source[k]]]
    BY <2>2, <1>2, <1>inv DEF EngineTypeOK, RefreshRecord
  <2> QED
    BY <2>1, <2>2 DEF Return
<1>4. call' \in [Caller -> CallRecord \cup {Idle}]
  BY <1>1, <1>inv DEF EngineTypeOK
<1>5. /\ inFlight' \in [Key -> Caller \cup {NoCaller}] /\ inFlight'[k] = NoCaller
      /\ \A j \in Key \ {k} : inFlight'[j] = inFlight[j]
  BY <1>1, <1>2, <1>inv DEF EngineTypeOK
<1>6. /\ busted' \in [Key -> BOOLEAN]
      /\ busted'[k] = (busted[k] /\ Leaders(k) # {c})
      /\ \A j \in Key \ {k} : busted'[j] = busted[j]
  BY <1>1, <1>2, <1>inv DEF EngineTypeOK
<1>7. StoreTypeOK' /\ StoreExact' /\ entries' = entries
  BY <1>1, <1>inv, UntouchedStore
<1>8. TypeOK'
  BY <1>1, <1>3, <1>4, <1>5, <1>6, <1>7, <1>inv DEF TypeOK, EngineTypeOK
<1>9. \A d \in Caller : call'[d] = Idle \/ (call'[d] = call[d] /\ d # c /\ call[d].on # c)
  BY <1>1
<1>10. \A d \in Caller : call[d].on = c => call[d].phase = "joined"
  BY <1>inv, EngineAssumption DEF ShapeInv
<1>11. Idle.phase = "idle" /\ Idle.on = NoCaller
  BY DEF Idle, CallOf
<1>12. ShapeInv'
  BY <1>9, <1>11, <1>inv DEF ShapeInv, Loading
<1>13. HeldInv'
  <2> SUFFICES ASSUME NEW d \in Caller, call'[d].phase = "joined"
               PROVE  /\ call'[d].on \in Caller
                      /\ call'[call'[d].on].phase \notin {"idle", "joined"}
                      /\ call'[call'[d].on].key = call'[d].key
    BY DEF HeldInv
  <2>1. call'[d] = call[d] /\ call[d].on # c
    BY <1>9, <1>11
  <2>2. PICK e \in Caller : e = call[d].on
    BY <2>1, <1>inv DEF HeldInv
  <2>3. call[e].phase \notin {"idle", "joined"} /\ call[e].key = call[d].key /\ e # c
    BY <2>1, <2>2, <1>inv DEF HeldInv
  <2>4. call'[e] = call[e]
    BY <2>3, <1>1, <1>10
  <2> QED
    BY <2>1, <2>2, <2>3, <2>4
<1>14. \A j \in Key : Leaders(j)' = Leaders(j) \ {c}
  BY <1>1, <1>10, <1>11 DEF Leaders
<1>15. c \in Leaders(k) /\ \A j \in Key \ {k} : c \notin Leaders(j)
  BY <1>1 DEF Leaders
<1>16. SlotInv'
  <2> SUFFICES ASSUME NEW j \in FunctionKey
               PROVE  /\ inFlight'[j] # NoCaller => inFlight'[j] \in Leaders(j)'
                      /\ ~busted'[j] => Leaders(j)' \subseteq {inFlight'[j]}
    BY DEF SlotInv
  <2>1. CASE j = k
    <3>1. ~busted'[k] => Leaders(k) = {c}
      BY <1>2, <1>6, <1>15, <1>inv DEF SlotInv
    <3> QED
      BY <3>1, <2>1, <1>2, <1>5, <1>14
  <2>2. CASE j # k
    BY <2>2, <1>5, <1>6, <1>14, <1>15, <1>inv DEF SlotInv, FunctionKey
  <2> QED
    BY <2>1, <2>2
<1>17. Fresh'
  <2>1. KeyFresh => KeyFresh'
    BY <1>1, <1>3, <1>7 DEF KeyFresh, Stored, FunctionKey
  <2>2. CallFresh => CallFresh'
    BY <1>1, <1>9, <1>11 DEF CallFresh
  <2> QED
    BY <2>1, <2>2, <1>inv DEF Fresh
<1> QED
  BY <1>7, <1>8, <1>12, <1>13, <1>16, <1>17 DEF IInv

LEMMA RefreshReturnsKeeps == ASSUME IInv, NEW k \in FunctionKey, RefreshReturns(k) PROVE IInv'
<1>inv. EngineTypeOK /\ StoreTypeOK /\ StoreExact /\ ShapeInv /\ HeldInv /\ SlotInv /\ Fresh
  BY DEF IInv, TypeOK, EngineTypeOK
<1>1. /\ refresh[k].phase = "loading" /\ refresh' = [refresh EXCEPT ![k].phase = "ending"]
      /\ UNCHANGED <<source, inFlight, call, promised, busted>>
  BY DEF RefreshReturns
<1>2. k \in Key /\ refresh[k].from \in Version /\ source[k] \in Version /\ promised[k] \in Version
  BY <1>inv DEF FunctionKey, EngineTypeOK, RefreshRecord
<1>3. PICK v \in Version : /\ refresh[k].from <= v
                           /\ Store(k, v) \/ UNCHANGED store
  <2>1. CASE UNCHANGED store
    BY <2>1, <1>2 DEF Version
  <2>2. CASE \E v \in refresh[k].from .. source[k] : Store(k, v)
    BY <2>2, <1>2, AdapterAssumption DEF Version
  <2> QED
    BY <2>1, <2>2 DEF RefreshReturns
<1>4. /\ StoreTypeOK' /\ StoreExact'
      /\ entries'[k].value = v \/ entries'[k] = entries[k]
      /\ \A j \in Key \ {k} : entries'[j] \in {entries[j], NoEntry}
  <2>1. CASE Store(k, v)
    BY <2>1, <1>2, <1>inv, StoreKeeps
  <2>2. CASE UNCHANGED store
    BY <2>2, <1>inv, UntouchedStore
  <2> QED
    BY <2>1, <2>2, <1>3
<1>5. /\ refresh' \in [Key -> RefreshRecord] /\ refresh'[k].phase = "ending"
      /\ \A j \in Key \ {k} : refresh'[j] = refresh[j]
  BY <1>1, <1>2, <1>inv DEF EngineTypeOK, RefreshRecord
<1>6. TypeOK'
  BY <1>1, <1>4, <1>5, <1>inv DEF TypeOK, EngineTypeOK
<1>7. ShapeInv' /\ HeldInv' /\ SlotInv'
  BY <1>1, <1>inv, CallsUntouched
<1>8. Fresh'
  <2> SUFFICES ASSUME KeyFresh, CallFresh PROVE KeyFresh' /\ CallFresh'
    BY <1>inv DEF Fresh
  <2>1. promised[k] <= v
    BY <1>1, <1>2, <1>3 DEF KeyFresh, Version
  <2>2. KeyFresh'
    BY <2>1, <1>1, <1>4, <1>5 DEF KeyFresh, Stored, FunctionKey
  <2>3. CallFresh'
    BY <1>1 DEF CallFresh
  <2> QED
    BY <2>2, <2>3
<1> QED
  BY <1>4, <1>6, <1>7, <1>8 DEF IInv

LEMMA RefreshEndsKeeps == ASSUME IInv, NEW k \in FunctionKey, RefreshEnds(k) PROVE IInv'
<1>inv. EngineTypeOK /\ StoreTypeOK /\ StoreExact /\ ShapeInv /\ HeldInv /\ SlotInv /\ Fresh
  BY DEF IInv, TypeOK, EngineTypeOK
<1>1. /\ refresh' = [refresh EXCEPT ![k] = Resting]
      /\ UNCHANGED <<store, source, inFlight, call, promised, busted>>
  BY DEF RefreshEnds
<1>2. Resting \in RefreshRecord /\ Resting.phase = "idle"
  BY AdapterAssumption DEF Resting, RefreshRecord, Version
<1>3. /\ refresh' \in [Key -> RefreshRecord]
      /\ \A j \in Key : refresh'[j] = refresh[j] \/ refresh'[j].phase = "idle"
  BY <1>1, <1>2, <1>inv DEF EngineTypeOK
<1>4. StoreTypeOK' /\ StoreExact' /\ entries' = entries
  BY <1>1, <1>inv, UntouchedStore
<1>5. TypeOK'
  BY <1>1, <1>3, <1>4, <1>inv DEF TypeOK, EngineTypeOK
<1>6. ShapeInv' /\ HeldInv' /\ SlotInv'
  BY <1>1, <1>inv, CallsUntouched
<1>7. Fresh'
  <2>1. KeyFresh => KeyFresh'
    BY <1>1, <1>3, <1>4 DEF KeyFresh, Stored, FunctionKey
  <2> QED
    BY <2>1, <1>1, <1>inv DEF Fresh, CallFresh
<1> QED
  BY <1>4, <1>5, <1>6, <1>7 DEF IInv

(* Invalidating an idle key binds every call of it that begins later. *)
LEMMA PromiseKeeps ==
  ASSUME IInv, NEW keys \in SUBSET Key, Remove(keys), Promise(keys),
         UNCHANGED <<source, call, refresh>>
  PROVE  StoreTypeOK' /\ StoreExact' /\ promised' \in [Key -> Version] /\ Fresh'
<1>inv. EngineTypeOK /\ StoreTypeOK /\ StoreExact /\ ShapeInv /\ HeldInv /\ SlotInv /\ Fresh
  BY DEF IInv, TypeOK, EngineTypeOK
<1>1. /\ StoreTypeOK' /\ StoreExact'
      /\ \A j \in Key : entries'[j] = IF j \in keys THEN NoEntry ELSE entries[j]
  BY <1>inv, RemoveKeeps
<1>2. promised' \in [Key -> Version]
  BY <1>inv DEF Promise, EngineTypeOK
<1>3. Fresh'
  <2> SUFFICES ASSUME ~InFlightCounts, KeyFresh, CallFresh PROVE KeyFresh' /\ CallFresh'
    BY <1>inv DEF Fresh
  <2>1. \A j \in Key : \/ promised'[j] = promised[j]
                       \/ j \in keys /\ Quiet(j) /\ promised'[j] = source[j]
    BY DEF Promise
  <2>2. \A j \in FunctionKey : promised[j] <= promised'[j] /\ promised'[j] <= source[j]
    BY <2>1, <1>inv DEF KeyFresh, FunctionKey, EngineTypeOK, Version
  <2>3. KeyFresh'
    BY <2>1, <2>2, <1>1 DEF KeyFresh, Stored, FunctionKey, Quiet
  <2>4. CallFresh'
    <3> SUFFICES ASSUME NEW c \in Caller, call[c].phase # "idle"
                 PROVE  /\ call[c].since <= promised'[call[c].key]
                        /\ call[c].phase # "joined" /\ call[c].version # Failed =>
                             promised'[call[c].key] <= call[c].version
      BY DEF CallFresh
    <3> DEFINE k == call[c].key
    <3>1. k \in FunctionKey /\ k \in Key /\ call[c].since \in Version
      BY <1>inv, CallTypes DEF CallRecord, FunctionKey
    <3>2. /\ promised[k] \in Version /\ promised'[k] \in Version
          /\ promised[k] <= promised'[k] /\ call[c].since <= promised[k]
      BY <3>1, <2>2, <1>2, <1>inv DEF CallFresh, EngineTypeOK
    <3>3. call[c].since <= promised'[k]
      BY <3>1, <3>2 DEF Version
    <3>4. ASSUME call[c].phase # "joined", call[c].version # Failed
          PROVE  promised'[k] <= call[c].version
      <4>1. c \in Leaders(k)
        BY <3>4 DEF Leaders
      <4>2. promised'[k] = promised[k]
        BY <4>1, <3>1, <2>1 DEF Quiet
      <4> QED
        BY <4>2, <3>4 DEF CallFresh
    <3> QED
      BY <3>3, <3>4
  <2> QED
    BY <2>3, <2>4
<1> QED
  BY <1>1, <1>2, <1>3

LEMMA InvalidateKeeps == ASSUME IInv, NEW k \in FunctionKey, Invalidate(k) PROVE IInv'
<1>inv. EngineTypeOK /\ StoreTypeOK /\ StoreExact /\ ShapeInv /\ HeldInv /\ SlotInv /\ Fresh
  BY DEF IInv, TypeOK, EngineTypeOK
<1>1. /\ Remove({k}) /\ Promise({k}) /\ UNCHANGED <<source, call, refresh>>
      /\ inFlight' = [inFlight EXCEPT ![k] = NoCaller]
      /\ busted' = [busted EXCEPT ![k] = busted[k] \/ Leaders(k) # {}]
  BY DEF Invalidate
<1>2. k \in Key /\ {k} \in SUBSET Key
  BY DEF FunctionKey
<1>3. StoreTypeOK' /\ StoreExact' /\ promised' \in [Key -> Version] /\ Fresh'
  BY <1>1, <1>2, PromiseKeeps
<1>4. /\ inFlight' \in [Key -> Caller \cup {NoCaller}] /\ inFlight'[k] = NoCaller
      /\ \A j \in Key \ {k} : inFlight'[j] = inFlight[j]
  BY <1>1, <1>2, <1>inv DEF EngineTypeOK
<1>5. /\ busted' \in [Key -> BOOLEAN] /\ busted'[k] = (busted[k] \/ Leaders(k) # {})
      /\ \A j \in Key \ {k} : busted'[j] = busted[j]
  BY <1>1, <1>2, <1>inv DEF EngineTypeOK
<1>6. TypeOK'
  BY <1>1, <1>3, <1>4, <1>5, <1>inv DEF TypeOK, EngineTypeOK
<1>7. ShapeInv' /\ HeldInv'
  BY <1>1, <1>inv DEF ShapeInv, HeldInv, Loading
<1>8. \A j \in Key : Leaders(j)' = Leaders(j)
  BY <1>1 DEF Leaders
<1>9. SlotInv'
  BY <1>4, <1>5, <1>8, <1>inv DEF SlotInv, FunctionKey
<1> QED
  BY <1>3, <1>6, <1>7, <1>9 DEF IInv

LEMMA InvalidateTagKeeps == ASSUME IInv, NEW t \in Tag, InvalidateTag(t) PROVE IInv'
<1>inv. EngineTypeOK /\ StoreTypeOK /\ StoreExact /\ ShapeInv /\ HeldInv /\ SlotInv /\ Fresh
  BY DEF IInv, TypeOK, EngineTypeOK
<1>1. /\ Remove(tagIndex[t]) /\ Promise(tagIndex[t]) /\ UNCHANGED <<source, call, refresh>>
      /\ UNCHANGED <<source, inFlight, call, refresh, busted>>
  BY DEF InvalidateTag, Tagged
<1>2. tagIndex[t] \in SUBSET Key
  BY <1>inv DEF StoreTypeOK
<1>3. StoreTypeOK' /\ StoreExact' /\ promised' \in [Key -> Version] /\ Fresh'
  BY <1>1, <1>2, PromiseKeeps
<1>4. TypeOK'
  BY <1>1, <1>3, <1>inv DEF TypeOK, EngineTypeOK
<1>5. ShapeInv' /\ HeldInv' /\ SlotInv'
  BY <1>1, <1>inv, CallsUntouched
<1> QED
  BY <1>3, <1>4, <1>5 DEF IInv

LEMMA RouteKeeps ==
  ASSUME IInv, NEW k \in RouteKey, RoutePeek(k) \/ RouteSet(k)
  PROVE  IInv'
<1>inv. EngineTypeOK /\ StoreTypeOK /\ StoreExact /\ ShapeInv /\ HeldInv /\ SlotInv /\ Fresh
  BY DEF IInv, TypeOK, EngineTypeOK
<1>1. UNCHANGED <<source, inFlight, call, refresh, promised, busted>>
  BY DEF RoutePeek, RouteSet, engine
<1>2. k \in Key /\ k \notin FunctionKey /\ source[k] \in Version
  BY <1>inv, EngineAssumption DEF FunctionKey, EngineTypeOK
<1>3. /\ StoreTypeOK' /\ StoreExact'
      /\ \A j \in Key \ {k} : entries'[j] \in {entries[j], NoEntry}
  <2>1. CASE RoutePeek(k)
    BY <2>1, <1>2, <1>inv, GetKeeps DEF RoutePeek
  <2>2. CASE RouteSet(k)
    BY <2>2, <1>2, <1>inv, StoreKeeps DEF RouteSet
  <2> QED
    BY <2>1, <2>2
<1>4. TypeOK'
  BY <1>1, <1>3, <1>inv DEF TypeOK, EngineTypeOK
<1>5. ShapeInv' /\ HeldInv' /\ SlotInv'
  BY <1>1, <1>inv, CallsUntouched
<1>6. Fresh'
  <2>1. KeyFresh => KeyFresh'
    BY <1>1, <1>2, <1>3 DEF KeyFresh, Stored, FunctionKey
  <2> QED
    BY <2>1, <1>1, <1>inv DEF Fresh, CallFresh
<1> QED
  BY <1>3, <1>4, <1>5, <1>6 DEF IInv

LEMMA PublishKeeps == ASSUME IInv, NEW k \in FunctionKey, Publish(k) PROVE IInv'
<1>inv. EngineTypeOK /\ StoreTypeOK /\ StoreExact /\ ShapeInv /\ HeldInv /\ SlotInv /\ Fresh
  BY DEF IInv, TypeOK, EngineTypeOK
<1>1. /\ source[k] < MaxVersion /\ source' = [source EXCEPT ![k] = source[k] + 1]
      /\ UNCHANGED <<store, inFlight, call, refresh, promised, busted>>
  BY DEF Publish
<1>2. k \in Key /\ source[k] \in Version
  BY <1>inv DEF FunctionKey, EngineTypeOK
<1>3. source' \in [Key -> Version] /\ \A j \in Key : source[j] <= source'[j]
  BY <1>1, <1>2, <1>inv, AdapterAssumption DEF EngineTypeOK, Version
<1>4. StoreTypeOK' /\ StoreExact' /\ entries' = entries
  BY <1>1, <1>inv, UntouchedStore
<1>5. TypeOK'
  BY <1>1, <1>3, <1>4, <1>inv DEF TypeOK, EngineTypeOK
<1>6. ShapeInv' /\ HeldInv' /\ SlotInv'
  BY <1>1, <1>inv, CallsUntouched
<1>7. Fresh'
  <2>1. ASSUME KeyFresh PROVE KeyFresh'
    <3>1. \A j \in FunctionKey : promised'[j] <= source'[j]
      BY <2>1, <1>1, <1>3, <1>inv DEF KeyFresh, FunctionKey, EngineTypeOK, Version
    <3> QED
      BY <3>1, <2>1, <1>1, <1>4 DEF KeyFresh, Stored
  <2> QED
    BY <2>1, <1>1, <1>inv DEF Fresh, CallFresh
<1> QED
  BY <1>4, <1>5, <1>6, <1>7 DEF IInv

LEMMA AgeingKeeps == ASSUME IInv, NEW k \in FunctionKey, Ageing(k) PROVE IInv'
<1>inv. EngineTypeOK /\ StoreTypeOK /\ StoreExact /\ ShapeInv /\ HeldInv /\ SlotInv /\ Fresh
  BY DEF IInv, TypeOK, EngineTypeOK
<1>1. Age(k) /\ k \in Key /\ UNCHANGED <<source, inFlight, call, refresh, promised, busted>>
  BY DEF Ageing, engine, FunctionKey
<1>2. /\ StoreTypeOK' /\ StoreExact'
      /\ Stored' = Stored /\ \A j \in Stored : entries'[j].value = entries[j].value
  BY <1>1, <1>inv, AgeKeeps
<1>3. TypeOK'
  BY <1>1, <1>2, <1>inv DEF TypeOK, EngineTypeOK
<1>4. ShapeInv' /\ HeldInv' /\ SlotInv'
  BY <1>1, <1>inv, CallsUntouched
<1>5. Fresh'
  <2>1. KeyFresh => KeyFresh'
    BY <1>1, <1>2 DEF KeyFresh
  <2> QED
    BY <2>1, <1>1, <1>inv DEF Fresh, CallFresh
<1> QED
  BY <1>2, <1>3, <1>4, <1>5 DEF IInv

LEMMA EngineStep == IInv /\ [Next]_vars => IInv'
<1> SUFFICES ASSUME IInv, [Next]_vars PROVE IInv'
  OBVIOUS
<1>1. ASSUME NEW c \in Caller, NEW k \in FunctionKey, Join(c, k) \/ Hit(c, k) \/ Load(c, k)
      PROVE  IInv'
  BY <1>1, JoinKeeps, HitKeeps, LoadKeeps
<1>2. ASSUME NEW c \in Caller, CallStep(c) PROVE IInv'
  BY <1>2, LoaderReturnsKeeps, LoaderThrowsKeeps, ReturnKeeps DEF CallStep
<1>3. ASSUME NEW k \in FunctionKey,
             RefreshReturns(k) \/ RefreshEnds(k) \/ Invalidate(k) \/ Publish(k) \/ Ageing(k)
      PROVE  IInv'
  BY <1>3, RefreshReturnsKeeps, RefreshEndsKeeps, InvalidateKeeps, PublishKeeps, AgeingKeeps
<1>4. ASSUME NEW t \in Tag, InvalidateTag(t) PROVE IInv'
  BY <1>4, InvalidateTagKeeps
<1>5. ASSUME NEW k \in RouteKey, RoutePeek(k) \/ RouteSet(k) PROVE IInv'
  BY <1>5, RouteKeeps
<1>6. CASE UNCHANGED vars
  <2>1. UNCHANGED <<store, source, inFlight, call, refresh, promised, busted>>
    BY <1>6 DEF vars, engine
  <2>2. StoreTypeOK' /\ StoreExact' /\ entries' = entries
    BY <2>1, UntouchedStore DEF IInv, TypeOK
  <2>3. ShapeInv' /\ HeldInv' /\ SlotInv'
    BY <2>1, CallsUntouched DEF IInv
  <2>4. TypeOK' /\ Fresh'
    BY <2>1, <2>2 DEF IInv, TypeOK, Fresh, KeyFresh, CallFresh, Stored
  <2> QED
    BY <2>2, <2>3, <2>4 DEF IInv
<1> QED
  BY <1>1, <1>2, <1>3, <1>4, <1>5, <1>6 DEF Next

LEMMA EngineInv == Spec => []IInv
BY EngineInit, EngineStep, PTL DEF Spec

-----------------------------------------------------------------------------
(* Every variable of storage and engine keeps its type. *)
THEOREM TypeCorrect == Spec => []TypeOK
<1>1. IInv => TypeOK
  BY DEF IInv
<1> QED
  BY <1>1, EngineInv, PTL

(* The storage stays within maxEntries, its tag index is exact and its     *)
(* eviction order total, whatever interleaving of hits, fills, evictions   *)
(* and invalidations leads there.                                          *)
THEOREM StorageIsExact == Spec => []StoreExact
<1>1. IInv => StoreExact
  BY DEF IInv
<1> QED
  BY <1>1, EngineInv, PTL

(* Concurrent callers of a key share one load, and what runs beside it is   *)
(* its one refresh, unless an invalidation cleared the slot under a call.   *)
THEOREM OneFlight == Spec => []FlightsOverlapForCause
<1>1. IInv => FlightsOverlapForCause
  <2> SUFFICES ASSUME IInv, NEW k \in FunctionKey, Flights(k) > 1, ~busted[k]
               PROVE  Cardinality(Leaders(k)) = 1 /\ refresh[k].phase # "idle"
    BY DEF FlightsOverlapForCause, IInv, TypeOK, FunctionKey
  <2>1. Leaders(k) \in SUBSET {inFlight[k]}
    BY DEF IInv, SlotInv
  <2>2. IsFiniteSet({inFlight[k]}) /\ Cardinality({inFlight[k]}) = 1
    BY FS_Singleton
  <2>3. Cardinality(Leaders(k)) <= 1 /\ Cardinality(Leaders(k)) \in Nat
    BY <2>1, <2>2, FS_Subset, FS_CardinalityType
  <2> QED
    BY <2>3 DEF Flights
<1> QED
  BY <1>1, EngineInv, PTL

(* A caller that joined awaits a call of its key that still runs. *)
THEOREM JoinersHeld == Spec => []JoinersAreHeld
<1>1. IInv => JoinersAreHeld
  BY DEF IInv, HeldInv, JoinersAreHeld, Leaders
<1> QED
  BY <1>1, EngineInv, PTL

(* An invalidation of a key nobody is loading is honoured by every call    *)
(* that begins after it.                                                   *)
THEOREM InvalidationHolds == ~InFlightCounts => (Spec => []FreshAfterInvalidate)
<1>1. IInv /\ ~InFlightCounts => FreshAfterInvalidate
  <2> SUFFICES ASSUME IInv, CallFresh, NEW c \in Caller,
                      call[c].phase \in {"returning", "stale"}, call[c].version # Failed,
                      NEW d \in Caller, d = c \/ call[d].on = c
               PROVE  call[c].version >= call[d].since
    BY DEF IInv, Fresh, FreshAfterInvalidate
  <2> DEFINE k == call[c].key
  <2>1. call[d].key = k /\ call[d].phase # "idle"
    <3>1. CASE d = c
      BY <3>1
    <3>2. CASE call[d].on = c
      <4>1. call[d].phase = "joined"
        BY <3>2, EngineAssumption DEF IInv, ShapeInv
      <4> QED
        BY <4>1, <3>2 DEF IInv, HeldInv
    <3> QED
      BY <3>1, <3>2
  <2>2. call[d].since <= promised[k] /\ promised[k] <= call[c].version
    BY <2>1 DEF CallFresh
  <2>3. EngineTypeOK
    BY DEF IInv, TypeOK, EngineTypeOK
  <2>4. k \in Key /\ call[c].version \in Version
    BY <2>3, CallTypes DEF CallRecord, FunctionKey
  <2>5. call[d].since \in Version
    BY <2>1, <2>3, CallTypes DEF CallRecord
  <2>6. promised[k] \in Version
    BY <2>3, <2>4 DEF EngineTypeOK
  <2> QED
    BY <2>2, <2>4, <2>5, <2>6 DEF Version
<1>2. CASE ~InFlightCounts
  BY <1>1, <1>2, EngineInv, PTL
<1> QED
  BY <1>2
=============================================================================
