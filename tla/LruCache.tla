------------------------------ MODULE LruCache ------------------------------
(***************************************************************************)
(* The cache of cache/lru.py, an OrderedDict: a sequence of pairs of a key *)
(* and a value, least recently used first.  The embedding caches of        *)
(* graphiti (cache/embed_cache.py) and of the graph search                 *)
(* (daemon/embedding_client.py) are made of it; a key is the hash of a     *)
(* text, which is the text.                                                *)
(***************************************************************************)
EXTENDS Naturals, Sequences, SequencesExt

Has(ca, k) == \E i \in 1..Len(ca) : ca[i][1] = k

(* Where the entry of k is: there is one at most.                          *)
EntryOf(ca, k) == CHOOSE i \in 1..Len(ca) : ca[i][1] = k

Value(ca, k) == ca[EntryOf(ca, k)][2]

Without(ca, k) == IF Has(ca, k) THEN RemoveAt(ca, EntryOf(ca, k)) ELSE ca

(* What is left after a lookup.                                            *)
CacheGet(ca, k) ==
    IF Has(ca, k) THEN Append(Without(ca, k), <<k, Value(ca, k)>>) ELSE ca

CacheSet(ca, k, v, max) ==
    LET all == Append(Without(ca, k), <<k, v>>)
    IN  IF Len(all) > max THEN Tail(all) ELSE all

(* After a loop of lookups, and after one that sets pairs.                 *)
CacheGets(ca, keys) ==
    LET after[n \in 0..Len(keys)] ==
            IF n = 0 THEN ca ELSE CacheGet(after[n - 1], keys[n])
    IN  after[Len(keys)]

CacheSets(ca, pairs, max) ==
    LET after[n \in 0..Len(pairs)] ==
            IF n = 0 THEN ca ELSE CacheSet(after[n - 1], pairs[n][1], pairs[n][2], max)
    IN  after[Len(pairs)]

(* What a cache of a given size is: a key is there once, and no more than  *)
(* max of them.                                                            *)
IsKeyed(ca) == \A i, j \in 1..Len(ca) : ca[i][1] = ca[j][1] => i = j
IsWithin(ca, max) == Len(ca) <= max /\ IsKeyed(ca)
=============================================================================
