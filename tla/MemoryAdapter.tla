--------------------------- MODULE MemoryAdapter ---------------------------
(***************************************************************************)
(* The in-memory cache storage (in-memory-adapter.ts): a Map used as an    *)
(* LRU list and a reverse index from tags to keys.  Its methods are async  *)
(* in signature only: each runs to its end before anything else does, so   *)
(* each is one step.                                                       *)
(***************************************************************************)
EXTENDS Integers, FiniteSets

CONSTANTS Key,        \* cache keys
          Tag,        \* cache tags
          MaxEntries, \* maxEntries
          MaxVersion, \* bound: versions of what is cached
          NoEntry     \* a key that is not stored

ASSUME AdapterAssumption ==
  /\ MaxEntries \in Nat \ {0} \* schemas/cache.ts: positive()
  /\ IsFiniteSet(Key)         \* bound: the Map is finite, its keys are not
  /\ MaxVersion \in Nat

Version == 0 .. MaxVersion

(* What an entry holds, the tags it was stored with, and where it stands   *)
(* in its life: within maxAge, within swr, past both.                      *)
Entry == [value: Version, tags: SUBSET Tag, window: {"fresh", "stale", "expired"}]

ASSUME EntryAssumption == NoEntry \notin Entry

VARIABLES entries,  \* entries[k]: what is stored under k
          older,    \* insertion order of the Map: <<x, y>> when x precedes y
          tagIndex  \* tagIndex[t]: the bucket of t, {} when it has none

store == <<entries, older, tagIndex>>

StoreTypeOK ==
  /\ entries \in [Key -> Entry \cup {NoEntry}]
  /\ older \in SUBSET (Key \X Key)
  /\ tagIndex \in [Tag -> SUBSET Key]

Stored == {k \in Key : entries[k] # NoEntry}

StoreInit ==
  /\ entries = [k \in Key |-> NoEntry]
  /\ older = {}
  /\ tagIndex = [t \in Tag |-> {}]

-----------------------------------------------------------------------------
(* The order the Map keeps among keys. *)
Among(keys) == older \cap (keys \X keys)

(* A key that is deleted and set again comes last. *)
WithLast(keys, k) == Among(keys \ {k}) \cup ((keys \ {k}) \X {k})

(* What keys().next() returns. *)
Oldest == CHOOSE k \in Stored : \A j \in Stored \ {k} : <<k, j>> \in older

\* Mutant of Displaced: the limit is checked one entry late.
DisplacedLate(k) ==
  IF entries[k] # NoEntry THEN {k}
  ELSE IF Cardinality(Stored) > MaxEntries THEN {Oldest} ELSE {}

(* The entry that makes room: the one overwritten, or else the oldest of a *)
(* full map.                                                               *)
Displaced(k) ==
  IF entries[k] # NoEntry THEN {k}
  ELSE IF Cardinality(Stored) >= MaxEntries THEN {Oldest} ELSE {}

(* The buckets left when the keys leave those of their own tags. *)
Unindexed(keys) ==
  [t \in Tag |-> tagIndex[t] \ {k \in keys : entries[k] # NoEntry /\ t \in entries[k].tags}]

(* get(): a hit moves the key to the end. *)
Get(k) ==
  /\ older' = IF k \in Stored THEN WithLast(Stored, k) ELSE older
  /\ UNCHANGED <<entries, tagIndex>>

(* set() *)
Put(k, e) ==
  LET gone == Displaced(k)
      index == Unindexed(gone)
  IN  /\ entries' = [j \in Key |-> IF j = k THEN e ELSE IF j \in gone THEN NoEntry ELSE entries[j]]
      /\ older' = WithLast((Stored \ gone) \cup {k}, k)
      /\ tagIndex' = [t \in Tag |-> IF t \in e.tags THEN index[t] \cup {k} ELSE index[t]]

(* delete() of one key, deleteByTag() of a bucket. *)
Remove(keys) ==
  /\ entries' = [k \in Key |-> IF k \in keys THEN NoEntry ELSE entries[k]]
  /\ older' = Among(Stored \ keys)
  /\ tagIndex' = Unindexed(keys)

(* Time passes over an entry; without an swr window it is never stale. *)
Age(k) ==
  /\ k \in Stored /\ entries[k].window # "expired"
  /\ \E w \in {"stale", "expired"} :
       /\ entries[k].window # w
       /\ entries' = [entries EXCEPT ![k].window = w]
  /\ UNCHANGED <<older, tagIndex>>

-----------------------------------------------------------------------------
(* "entries.size <= maxEntries post-set" *)
SizeBounded == Cardinality(Stored) <= MaxEntries

(* "tagIndex[tag].has(key) <-> entries.get(key)?.tags.includes(tag)" *)
IndexExact ==
  \A t \in Tag, k \in Key : k \in tagIndex[t] <=> k \in Stored /\ t \in entries[k].tags

(* What an eviction goes by is a total order of what is stored. *)
OrderTotal ==
  /\ older \subseteq Stored \X Stored
  /\ \A x \in Stored : <<x, x>> \notin older
  /\ \A x, y \in Stored : x # y => <<x, y>> \in older \/ <<y, x>> \in older
  /\ \A x, y, z \in Stored : <<x, y>> \in older /\ <<y, z>> \in older => <<x, z>> \in older

(* The invariants the adapter documents, whatever is set, read, evicted    *)
(* and deleted in between, and the order they rest on.                     *)
StoreExact == SizeBounded /\ IndexExact /\ OrderTotal
=============================================================================
