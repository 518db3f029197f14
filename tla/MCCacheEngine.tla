---------------------------- MODULE MCCacheEngine ----------------------------
(* Small instances of CacheEngine for TLC. *)
EXTENDS CacheEngine, TLC

CONSTANTS f1, r1, r2, t1, t2

(* Two entries may share a tag, and one may carry both. *)
SomeTags == {{t1}, {t1, t2}}

(* Callers and the keys of routes are interchangeable. *)
Sym == Permutations(Caller) \cup Permutations(RouteKey)
=============================================================================
