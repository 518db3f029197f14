----------------------------- MODULE CacheEngine -----------------------------
(***************************************************************************)
(* The cache engine (cache-engine.ts) over the in-memory storage: the      *)
(* in-flight slot concurrent callers of a key share, the stale-while-      *)
(* revalidate refresh, and invalidation by key, tag and path, with the     *)
(* wrapper of functions (define-cached-function.ts) that calls it.         *)
(*                                                                         *)
(* What a loader loads is a version of its source, which moves on.  Cached *)
(* routes (define-cached-route.ts) share the storage under keys of their   *)
(* own; they only read and set.  A step is what runs between two awaits.   *)
(***************************************************************************)
EXTENDS MemoryAdapter

CONSTANTS Caller,        \* places a call of a cached function is made from
          RouteKey,      \* the keys of cached routes
          TagSets,       \* the sets of tags entries are stored with
          NoCaller,      \* a free slot, or a call that leads
          Failed,        \* the loader threw
          InFlightCounts \* does invalidating during a load promise anything?

ASSUME EngineAssumption ==
  /\ RouteKey \subseteq Key
  /\ TagSets \subseteq SUBSET Tag
  /\ NoCaller \notin Caller
  /\ Failed \notin Version
  /\ InFlightCounts \in BOOLEAN

FunctionKey == Key \ RouteKey

VARIABLES source,   \* source[k]: the version a loader of k reads now
          inFlight, \* inFlight[k]: the call whose promise k's callers share
          call,     \* call[c]: the getOrCompute() c awaits
          refresh,  \* refresh[k]: the background load of k
          promised, \* promised[k]: the version current at k's last invalidation
          busted    \* busted[k]: a slot of k was cleared while its call ran

engine == <<source, inFlight, call, refresh, promised, busted>>
vars == <<store, engine>>

(* A call that loads for the cache, or past it (maxAge 0); returns, as a   *)
(* stale hit or otherwise; or awaits the promise of the call it is on.     *)
(* version: the one current when its load began, then what it returns;     *)
(* since: what was promised when the call began.                           *)
CallOf(phase, k, version, since, on) ==
  [phase |-> phase, key |-> k, version |-> version, since |-> since, on |-> on]

Idle == CallOf("idle", NoEntry, Failed, 0, NoCaller)

CallRecord ==
  [phase: {"loading", "bypassing", "returning", "stale", "joined"}, key: FunctionKey,
   version: Version \cup {Failed}, since: Version, on: Caller \cup {NoCaller}]

Resting == [phase |-> "idle", from |-> 0]

RefreshRecord == [phase: {"idle", "loading", "ending"}, from: Version]

TypeOK ==
  /\ StoreTypeOK
  /\ source \in [Key -> Version]
  /\ inFlight \in [Key -> Caller \cup {NoCaller}]
  /\ call \in [Caller -> CallRecord \cup {Idle}]
  /\ refresh \in [Key -> RefreshRecord]
  /\ promised \in [Key -> Version]
  /\ busted \in [Key -> BOOLEAN]

Init ==
  /\ StoreInit
  /\ source = [k \in Key |-> 0]
  /\ inFlight = [k \in Key |-> NoCaller]
  /\ call = [c \in Caller |-> Idle]
  /\ refresh = [k \in Key |-> Resting]
  /\ promised = [k \in Key |-> 0]
  /\ busted = [k \in Key |-> FALSE]

(* The calls that hold, or held, the slot of k and have not returned. *)
Leaders(k) == {c \in Caller : call[c].phase \notin {"idle", "joined"} /\ call[c].key = k}

Quiet(k) == Leaders(k) = {} /\ refresh[k].phase = "idle"

-----------------------------------------------------------------------------
(* getOrCompute() *)

(* A caller that finds the slot taken awaits its promise. *)
Join(c, k) ==
  /\ call[c] = Idle /\ inFlight[k] # NoCaller
  /\ call' = [call EXCEPT ![c] = CallOf("joined", k, Failed, promised[k], inFlight[k])]
  /\ UNCHANGED <<store, source, inFlight, refresh, promised, busted>>

\* Mutant of Claim: the slot is not claimed before the first await.
ClaimLate(c, k) == inFlight

(* The slot is claimed in the step that found it free. *)
Claim(c, k) == [inFlight EXCEPT ![k] = c]

(* tryReadCached() found an entry and its version and validate() accepted  *)
(* it: it is returned, in its maxAge as a hit, in its swr as stale.        *)
Hit(c, k) ==
  /\ call[c] = Idle /\ inFlight[k] = NoCaller
  /\ k \in Stored /\ entries[k].window # "expired"
  /\ Get(k)
  /\ inFlight' = Claim(c, k)
  /\ \E phase \in {"returning", "stale"} :
       /\ phase = "stale" <=> entries[k].window = "stale"
       /\ call' = [call EXCEPT ![c] = CallOf(phase, k, entries[k].value, promised[k], NoCaller)]
  /\ UNCHANGED <<source, refresh, promised, busted>>

(* Nothing stored, nothing acceptable, or maxAge 0, which neither reads    *)
(* nor keeps: the loader is called.  A lookup that is refused still bumps. *)
Load(c, k) ==
  /\ call[c] = Idle /\ inFlight[k] = NoCaller
  /\ inFlight' = Claim(c, k)
  /\ \E phase \in {"loading", "bypassing"} :
       /\ IF phase = "loading" THEN Get(k) ELSE UNCHANGED store
       /\ call' = [call EXCEPT ![c] = CallOf(phase, k, source[k], promised[k], NoCaller)]
  /\ UNCHANGED <<source, refresh, promised, busted>>

(* runLoader(): what the loader brought was read somewhere in its run, and *)
(* is stored with the call's tags, which nothing reads before.             *)
Store(k, value) ==
  \E tags \in TagSets : Put(k, [value |-> value, tags |-> tags, window |-> "fresh"])

Settle(c, result) ==
  call' = [call EXCEPT ![c] =
            CallOf("returning", call[c].key, result, call[c].since, NoCaller)]

Loading(c) == call[c].phase \in {"loading", "bypassing"}

(* skipCacheWhen, validate or undefined may keep it from being stored. *)
LoaderReturns(c) ==
  LET k == call[c].key
  IN  /\ Loading(c)
      /\ \E v \in call[c].version .. source[k] :
           /\ (call[c].phase = "loading" /\ Store(k, v)) \/ UNCHANGED store
           /\ Settle(c, v)
      /\ UNCHANGED <<source, inFlight, refresh, promised, busted>>

LoaderThrows(c) ==
  /\ Loading(c)
  /\ Settle(c, Failed)
  /\ UNCHANGED <<store, source, inFlight, refresh, promised, busted>>

\* Mutant of Released: the slot is kept when the loader threw.
ReleasedOnSuccess(c) ==
  IF call[c].version = Failed THEN inFlight ELSE [inFlight EXCEPT ![call[c].key] = NoCaller]

(* finally { inFlight.delete(key) }, whoever holds the slot. *)
Released(c) == [inFlight EXCEPT ![call[c].key] = NoCaller]

(* resolveOuter() or rejectOuter(): those who joined c settle with it.     *)
(* scheduleBackgroundRevalidate() does nothing while a refresh runs.       *)
Return(c) ==
  LET k == call[c].key
  IN  /\ call[c].phase \in {"returning", "stale"}
      /\ call' = [d \in Caller |-> IF d = c \/ call[d].on = c THEN Idle ELSE call[d]]
      /\ inFlight' = Released(c)
      /\ refresh' = IF call[c].phase = "stale" /\ refresh[k].phase = "idle"
                    THEN [refresh EXCEPT ![k] = [phase |-> "loading", from |-> source[k]]]
                    ELSE refresh
      /\ busted' = [busted EXCEPT ![k] = @ /\ Leaders(k) # {c}]
      /\ UNCHANGED <<store, source, promised>>

RefreshReturns(k) ==
  /\ refresh[k].phase = "loading"
  /\ \/ \E v \in refresh[k].from .. source[k] : Store(k, v)
     \/ UNCHANGED store \* it threw, or brought what is not kept
  /\ refresh' = [refresh EXCEPT ![k].phase = "ending"]
  /\ UNCHANGED <<source, inFlight, call, promised, busted>>

(* .finally: the key leaves bgInFlight. *)
RefreshEnds(k) ==
  /\ refresh[k].phase = "ending"
  /\ refresh' = [refresh EXCEPT ![k] = Resting]
  /\ UNCHANGED <<store, source, inFlight, call, promised, busted>>

-----------------------------------------------------------------------------
(* Invalidation *)

(* What callers of an invalidated key are promised from now on. *)
Promise(keys) ==
  promised' = [k \in Key |-> IF k \in keys /\ (InFlightCounts \/ Quiet(k)) THEN source[k] ELSE promised[k]]

(* invalidate(): the entry and the slot go. *)
Invalidate(k) ==
  /\ Remove({k})
  /\ inFlight' = [inFlight EXCEPT ![k] = NoCaller]
  /\ busted' = [busted EXCEPT ![k] = @ \/ Leaders(k) # {}]
  /\ Promise({k})
  /\ UNCHANGED <<source, call, refresh>>

\* Mutant of Tagged: only the entries that carry the tag alone.
TaggedAlone(t) == {k \in tagIndex[t] : entries[k] # NoEntry /\ entries[k].tags = {t}}

(* The bucket deleteByTag() empties. *)
Tagged(t) == tagIndex[t]

(* invalidateTag(), and revalidatePath(), whose path is a tag. *)
InvalidateTag(t) ==
  /\ Remove(Tagged(t))
  /\ Promise(tagIndex[t])
  /\ UNCHANGED <<source, inFlight, call, refresh, busted>>

-----------------------------------------------------------------------------
(* What the engine's storage sees of cached routes. *)
RoutePeek(k) == Get(k) /\ UNCHANGED engine

RouteSet(k) == Store(k, source[k]) /\ UNCHANGED engine

(* The world behind the cache moves on. *)
Publish(k) ==
  /\ source[k] < MaxVersion
  /\ source' = [source EXCEPT ![k] = @ + 1]
  /\ UNCHANGED <<store, inFlight, call, refresh, promised, busted>>

(* Entries age; the age of a route's entry is read by no one here. *)
Ageing(k) == Age(k) /\ UNCHANGED engine

CallStep(c) == LoaderReturns(c) \/ LoaderThrows(c) \/ Return(c)

Next ==
  \/ \E c \in Caller, k \in FunctionKey : Join(c, k) \/ Hit(c, k) \/ Load(c, k)
  \/ \E c \in Caller : CallStep(c)
  \/ \E k \in FunctionKey :
       RefreshReturns(k) \/ RefreshEnds(k) \/ Invalidate(k) \/ Publish(k) \/ Ageing(k)
  \/ \E t \in Tag : InvalidateTag(t)
  \/ \E k \in RouteKey : RoutePeek(k) \/ RouteSet(k)

Spec == Init /\ [][Next]_vars

-----------------------------------------------------------------------------
(* What loads a key right now: the calls that lead, and its refresh. *)
Flights(k) == Cardinality(Leaders(k)) + (IF refresh[k].phase = "idle" THEN 0 ELSE 1)

(* Loads of a key run side by side for one of two causes: its slot was      *)
(* cleared by an invalidation while a call held it, or one of the two is    *)
(* the refresh behind a stale hit, which holds no slot, so that a single    *)
(* call may load beside it once the stale entry has expired or is gone.     *)
(* There is no stampede of the engine's own making.                         *)
FlightsOverlapForCause ==
  \A k \in FunctionKey : Flights(k) > 1 =>
    busted[k] \/ (Cardinality(Leaders(k)) = 1 /\ refresh[k].phase # "idle")

(* What a call gets is no older than what its key was invalidated for      *)
(* before the call began, whether it read, loaded or joined.               *)
FreshAfterInvalidate ==
  \A c \in Caller : call[c].phase \in {"returning", "stale"} /\ call[c].version # Failed =>
    \A d \in Caller : d = c \/ call[d].on = c => call[c].version >= call[d].since

(* Whoever joined awaits the promise of a call that still runs and will    *)
(* settle it, for the same key: nobody is left awaiting for ever.          *)
JoinersAreHeld ==
  \A c \in Caller : call[c].phase = "joined" =>
    call[c].on \in Leaders(call[c].key)
=============================================================================
