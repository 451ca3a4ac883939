------------------------------- MODULE KeyCache -------------------------------
(***************************************************************************)
(* The LRU cache of keys in front of the vault, as the crypto and the      *)
(* tokenize service use it (hashicorp/golang-lru): a sequence of entries   *)
(* [k, info], the least recently used first.  Each call is atomic.         *)
(***************************************************************************)
LOCAL INSTANCE Naturals
LOCAL INSTANCE Sequences

CacheHas(cache, k) == \E i \in 1..Len(cache) : cache[i].k = k

CachePlace(cache, k) == CHOOSE i \in 1..Len(cache) : cache[i].k = k

CacheInfo(cache, k) == cache[CachePlace(cache, k)].info

(* The list without the entry of k, which is there once if at all. *)
CacheRemove(cache, k) ==
  LET i == CachePlace(cache, k)
  IN  IF CacheHas(cache, k) THEN SubSeq(cache, 1, i - 1) \o SubSeq(cache, i + 1, Len(cache))
                            ELSE cache

(* Add replaces the entry of k or makes room for a new one. *)
CacheAdd(cache, k, info, size) ==
  LET added == Append(CacheRemove(cache, k), [k |-> k, info |-> info])
  IN  IF Len(added) > size THEN Tail(added) ELSE added

(* Get of an entry that is there makes it the most recently used. *)
CacheTouch(cache, k) ==
  Append(CacheRemove(cache, k), [k |-> k, info |-> CacheInfo(cache, k)])
==============================================================================
