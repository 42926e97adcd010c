---------------------------- MODULE ExpiringMaps ----------------------------
(***************************************************************************)
(* The JavaScript Maps of src/context-store.js and                         *)
(* src/autoapprove-store.js: a bounded number of entries, each with the    *)
(* time it expires at.  What is evicted is the first key in the order of   *)
(* insertion, so a map has this order as a relation between its keys.      *)
(***************************************************************************)
EXTENDS Naturals, FiniteSets

EmptyMap == [entries |-> <<>>, older |-> {}]

MapEntry(value, expiresAt) == [value |-> value, expiresAt |-> expiresAt]

Keys(m) == DOMAIN m.entries

(* What is left of a map when only the keys of K stay. *)
Keep(m, K) ==
    [entries |-> [k \in K |-> m.entries[k]],
     older |-> m.older \cap (K \X K)]

Prune(m, t) == Keep(m, {k \in Keys(m) : m.entries[k].expiresAt > t})

Without(m, key) == Keep(m, Keys(m) \ {key})

(* Set, of a key that is not there: it becomes the last one. *)
Add(m, key, entry) ==
    [entries |-> [k \in Keys(m) \cup {key} |-> IF k = key THEN entry ELSE m.entries[k]],
     older |-> m.older \cup (Keys(m) \X {key})]

Oldest(m) == CHOOSE k \in Keys(m) : \A q \in Keys(m) : <<q, k>> \notin m.older

(* Evicted while there are too many: one at most, for a map within its      *)
(* capacity is never more than one entry over it.                           *)
EvictOldest(m, capacity) ==
    IF Cardinality(Keys(m)) > capacity THEN Without(m, Oldest(m)) ELSE m

(* Mutant: the map holds one entry more than its capacity. *)
PutBeyond(m, key, value, t, ttl, capacity) ==
    EvictOldest(Add(Without(Prune(m, t), key), key, MapEntry(value, t + ttl)),
                capacity + 1)

(* Prune, delete, set and evict. *)
Put(m, key, value, t, ttl, capacity) ==
    EvictOldest(Add(Without(Prune(m, t), key), key, MapEntry(value, t + ttl)),
                capacity)

Has(m, key, t) == key \in Keys(m) /\ m.entries[key].expiresAt > t

Lookup(m, key) == m.entries[key].value
=============================================================================
