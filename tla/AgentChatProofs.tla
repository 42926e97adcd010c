--------------------------- MODULE AgentChatProofs ---------------------------
(***************************************************************************)
(* Proofs about the plugin beside an A2A gateway, for any number of runs,  *)
(* chats and calls, any prompts, and maps of any size and age: on which    *)
(* request a call is judged, and which verdict the gateway hears.          *)
(***************************************************************************)
EXTENDS AgentChat, FiniteSetTheorems, WellFoundedInduction, TLAPS

-----------------------------------------------------------------------------
(* A map whose keys are in a strict total order, the order of insertion.    *)
Ordered(m) ==
    /\ IsFiniteSet(Keys(m)) /\ m.older \subseteq Keys(m) \X Keys(m)
    /\ \A k, q \in Keys(m) : k # q => (<<k, q>> \in m.older <=> <<q, k>> \notin m.older)
    /\ \A k \in Keys(m) : <<k, k>> \notin m.older
    /\ \A i, j, k \in Keys(m) :
          <<i, j>> \in m.older /\ <<j, k>> \in m.older => <<i, k>> \in m.older

Store(m, keys) ==
    /\ Ordered(m) /\ MapOK(m, keys)
    /\ \A k \in Keys(m) : m.entries[k].expiresAt \in Nat

MapsOK ==
    /\ Store(byRun, Runs) /\ Store(runMarks, Runs)
    /\ Store(bySession, Sessions) /\ Store(sessionMarks, Sessions)
    /\ Store(decisions, Calls)

CallFields == {"gate", "intent", "verdict", "putAt", "late", "asked", "looks", "answer"}

CallOK(k) ==
    /\ DOMAIN k = CallFields
    /\ k.gate \in {"idle", "bypassed", "judging", "judged"}
    /\ k.intent \in Runs \cup {None}
    /\ k.verdict \in {"allow-once", "deny", None}
    /\ k.asked \in {"no", "waiting", "answered"}
    /\ k.looks \in 0 .. PollAttempts
    /\ k.putAt \in Nat /\ k.late \in BOOLEAN

Shape ==
    /\ now \in Nat
    /\ bridge \in {"absent", "plain", "wrapped"}
    /\ retries \in 0 .. AttachAttempts
    /\ DOMAIN calls = Calls /\ \A c \in Calls : CallOK(calls[c])
    /\ captures \in Seq([run : Runs, at : 0 .. now])

(* The request of a run was captured when its entry says, that of a session *)
(* is the latest of the chat; what is after a run's in the map belongs to   *)
(* runs that captured one since.                                            *)
StoredFrom(m, k, r) ==
    \E i \in Captured(r) : m.entries[k].expiresAt = captures[i].at + TtlMs

KeptSince(i) ==
    LET r == captures[i].run
    IN  /\ r \in Keys(byRun)
        /\ byRun.entries[r].expiresAt >= captures[i].at + TtlMs
        /\ \A q \in Keys(byRun) : <<r, q>> \in byRun.older => q \in RunsSince(i) \ {r}

Forgotten(i) ==
    ~Recent(i) \/ Cardinality(RunsSince(i) \ {captures[i].run}) >= MaxEntries

RunRequestOK(r) == Lookup(byRun, r) = r /\ StoredFrom(byRun, r, r)

SessionRequestOK(s) ==
    \E i \in DOMAIN captures :
        /\ LatestOf(s, i) /\ Lookup(bySession, s) = captures[i].run
        /\ bySession.entries[s].expiresAt = captures[i].at + TtlMs

RequestsOK ==
    /\ \A r \in Keys(byRun) : RunRequestOK(r)
    /\ \A s \in Keys(bySession) : SessionRequestOK(s)
    /\ \A i \in DOMAIN captures : KeptSince(i) \/ Forgotten(i)

(* A verdict that was put and not asked for is on the board until it is     *)
(* lost, and there is a look at the board to come.                          *)
Judged == {d \in Calls : calls[d].verdict # None}

OnBoard(c) ==
    /\ c \in Keys(decisions)
    /\ decisions.entries[c].expiresAt = calls[c].putAt + TtlMs
    /\ calls[c].asked = "waiting" => MayLook(c)

BoardOK ==
    /\ IsFiniteSet(Judged)
    /\ \A c \in Keys(decisions) : c \in Judged /\ Lookup(decisions, c) = calls[c].verdict
    /\ \A c \in Judged :
          calls[c].asked # "answered" /\ ~calls[c].late => OnBoard(c) \/ Lost(c)

CInv == Shape /\ MapsOK /\ RequestsOK /\ BoardOK

-----------------------------------------------------------------------------
(* Operations of a map.                                                     *)
LEMMA KeepIs ==
    ASSUME NEW m, NEW K, K \subseteq Keys(m)
    PROVE  LET n == Keep(m, K)
           IN  /\ Keys(n) = K /\ \A k \in K : n.entries[k] = m.entries[k]
               /\ \A k, q \in K : <<k, q>> \in n.older <=> <<k, q>> \in m.older
               /\ n.older \subseteq K \X K
  BY DEF Keep, Keys

LEMMA KeepOrdered ==
    ASSUME NEW m, Ordered(m), NEW K, K \subseteq Keys(m)
    PROVE  Ordered(Keep(m, K))
<1> DEFINE n == Keep(m, K)
<1>1. /\ Keys(n) = K /\ n.older \subseteq K \X K
      /\ \A k, q \in K : <<k, q>> \in n.older <=> <<k, q>> \in m.older
  BY KeepIs
<1> HIDE DEF n
<1>2. IsFiniteSet(Keys(n))
  BY <1>1, FS_Subset DEF Ordered
<1> QED
  BY <1>1, <1>2 DEF Ordered, n

LEMMA AddOrdered ==
    ASSUME NEW m, Ordered(m), NEW key, key \notin Keys(m), NEW entry
    PROVE  LET n == Add(m, key, entry)
           IN  /\ Ordered(n) /\ Keys(n) = Keys(m) \cup {key}
               /\ n.entries[key] = entry
               /\ \A k \in Keys(m) : n.entries[k] = m.entries[k] /\ <<k, key>> \in n.older
               /\ \A k, q \in Keys(m) : <<k, q>> \in n.older <=> <<k, q>> \in m.older
               /\ \A k \in Keys(n) : <<key, k>> \notin n.older
<1> DEFINE n == Add(m, key, entry)
<1>1. /\ Keys(n) = Keys(m) \cup {key} /\ n.entries[key] = entry
      /\ \A k \in Keys(m) : n.entries[k] = m.entries[k]
      /\ n.older = m.older \cup (Keys(m) \X {key})
  BY DEF Add, Keys
<1> HIDE DEF n
<1>2. IsFiniteSet(Keys(n))
  BY <1>1, FS_AddElement DEF Ordered
<1>3. /\ \A k \in Keys(m) : <<k, key>> \in n.older
      /\ \A k, q \in Keys(m) : <<k, q>> \in n.older <=> <<k, q>> \in m.older
      /\ \A k \in Keys(n) : <<key, k>> \notin n.older
      /\ n.older \subseteq Keys(n) \X Keys(n)
  BY <1>1 DEF Ordered
<1>4. Ordered(n)
  BY <1>1, <1>2, <1>3 DEF Ordered
<1> QED
  BY <1>1, <1>3, <1>4 DEF n

(* Among the sets of keys before a key there is a minimal one: it is empty. *)
LEMMA OldestIs ==
    ASSUME NEW m, Ordered(m), Keys(m) # {}
    PROVE  /\ Oldest(m) \in Keys(m)
           /\ \A q \in Keys(m) \ {Oldest(m)} : <<Oldest(m), q>> \in m.older
<1> DEFINE before(k) == {q \in Keys(m) : <<q, k>> \in m.older}
           downs == {before(k) : k \in Keys(m)}
           R == StrictSubsetOrdering(Keys(m))
<1>1. IsWellFoundedOn(R, FiniteSubsetsOf(Keys(m)))
  BY FS_StrictSubsetOrderingWellFounded
<1>2. \A k \in Keys(m) : IsFiniteSet(before(k))
  <2> TAKE k \in Keys(m)
  <2> QED
    BY FS_Subset DEF Ordered
<1>3. downs \subseteq FiniteSubsetsOf(Keys(m)) /\ downs # {}
  BY <1>2 DEF FiniteSubsetsOf
<1>4. PICK D \in downs : \A E \in downs : <<E, D>> \notin R
  BY <1>1, <1>3, WFMin
<1>5. PICK k \in Keys(m) : D = before(k)
  BY <1>4
<1>6. ASSUME NEW q \in Keys(m), <<q, k>> \in m.older
      PROVE  FALSE
  <2>1. before(q) \subseteq before(k) /\ q \in before(k) /\ q \notin before(q)
    BY <1>6 DEF Ordered
  <2>2. <<before(q), before(k)>> \in R
    BY <2>1 DEF StrictSubsetOrdering
  <2> QED
    BY <1>4, <1>5, <2>2
<1>7. Oldest(m) \in Keys(m) /\ \A q \in Keys(m) : <<q, Oldest(m)>> \notin m.older
  BY <1>6 DEF Oldest
<1> QED
  BY <1>7 DEF Ordered

Lives(m, k, t) == m.entries[k].expiresAt > t

(* What Put leaves: the new entry as the last one, and of the others those  *)
(* that live; but for one perhaps, which was before all that is left.       *)
Puts(m, n, key, value, t, ttl, capacity) ==
    /\ Ordered(n) /\ Cardinality(Keys(n)) <= capacity
    /\ key \in Keys(n) /\ n.entries[key] = MapEntry(value, t + ttl)
    /\ \A k \in Keys(n) \ {key} :
         k \in Keys(m) /\ n.entries[k] = m.entries[k] /\ Lives(m, k, t)
    /\ \A k, q \in Keys(n) \ {key} : <<k, q>> \in n.older <=> <<k, q>> \in m.older
    /\ \A k \in Keys(n) : <<key, k>> \notin n.older
    /\ \A k \in Keys(m) \ Keys(n) :
         \/ ~Lives(m, k, t)
         \/ /\ Cardinality(Keys(n)) = capacity
            /\ \A q \in Keys(n) \ {key} : <<k, q>> \in m.older

LEMMA PutIs ==
    ASSUME NEW m, Ordered(m), NEW key, NEW value, NEW t, NEW ttl,
           NEW capacity \in Nat \ {0}, Cardinality(Keys(m)) <= capacity
    PROVE  Puts(m, Put(m, key, value, t, ttl, capacity), key, value, t, ttl, capacity)
<1> DEFINE live == {k \in Keys(m) : Lives(m, k, t)}
           pruned == Prune(m, t)
           rest == Without(pruned, key)
           added == Add(rest, key, MapEntry(value, t + ttl))
           n == EvictOldest(added, capacity)
<1>1. /\ Keys(pruned) = live /\ Ordered(pruned)
      /\ \A k \in live : pruned.entries[k] = m.entries[k]
      /\ \A k, q \in live : <<k, q>> \in pruned.older <=> <<k, q>> \in m.older
  BY KeepIs, KeepOrdered DEF Prune, Lives
<1> HIDE DEF pruned
<1>2. /\ Keys(rest) = live \ {key} /\ Ordered(rest)
      /\ \A k \in live \ {key} : rest.entries[k] = pruned.entries[k]
      /\ \A k, q \in live \ {key} : <<k, q>> \in rest.older <=> <<k, q>> \in pruned.older
  BY <1>1, KeepIs, KeepOrdered DEF Without
<1> HIDE DEF rest
<1>3. /\ Keys(added) = (live \ {key}) \cup {key} /\ Ordered(added)
      /\ added.entries[key] = MapEntry(value, t + ttl)
      /\ \A k \in live \ {key} : added.entries[k] = m.entries[k] /\ <<k, key>> \in added.older
      /\ \A k, q \in live \ {key} : <<k, q>> \in added.older <=> <<k, q>> \in m.older
      /\ \A k \in Keys(added) : <<key, k>> \notin added.older
  <2>1. key \notin Keys(rest)
    BY <1>2
  <2>2. /\ Ordered(added) /\ Keys(added) = Keys(rest) \cup {key}
        /\ added.entries[key] = MapEntry(value, t + ttl)
        /\ \A k \in Keys(rest) : added.entries[k] = rest.entries[k] /\ <<k, key>> \in added.older
        /\ \A k, q \in Keys(rest) : <<k, q>> \in added.older <=> <<k, q>> \in rest.older
        /\ \A k \in Keys(added) : <<key, k>> \notin added.older
    BY <1>2, <2>1, AddOrdered
  <2> HIDE DEF added, live
  <2> QED
    BY <1>1, <1>2, <2>2
<1> HIDE DEF added
<1>4. /\ Cardinality(Keys(added)) \in Nat /\ Cardinality(Keys(added)) <= capacity + 1
      /\ Cardinality(Keys(m)) \in Nat
  <2>1. IsFiniteSet(Keys(m)) /\ live \ {key} \subseteq Keys(m)
    BY DEF Ordered
  <2>2. IsFiniteSet(live \ {key}) /\ Cardinality(live \ {key}) <= Cardinality(Keys(m))
    BY <2>1, FS_Subset
  <2>3. Cardinality(Keys(added)) = Cardinality(live \ {key}) + 1
    BY <1>3, <2>2, FS_AddElement
  <2>4. Cardinality(live \ {key}) \in Nat /\ Cardinality(Keys(m)) \in Nat
    BY <2>1, <2>2, FS_CardinalityType
  <2> QED
    BY <2>2, <2>3, <2>4
<1>5. CASE ~(Cardinality(Keys(added)) > capacity)
  <2>1. n = added
    BY <1>5 DEF EvictOldest
  <2>2. Cardinality(Keys(added)) <= capacity
    BY <1>4, <1>5
  <2>3. Puts(m, added, key, value, t, ttl, capacity)
    BY <1>3, <2>2 DEF Puts
  <2> QED
    BY <2>1, <2>3 DEF Put, added, rest, pruned
<1>6. CASE Cardinality(Keys(added)) > capacity
  <2> DEFINE old == Oldest(added)
  <2>1. n = Without(added, old)
    BY <1>6 DEF EvictOldest
  <2>2. old \in Keys(added) /\ \A q \in Keys(added) \ {old} : <<old, q>> \in added.older
    BY <1>3, OldestIs
  <2> HIDE DEF old
  <2>3. /\ Keys(n) = Keys(added) \ {old} /\ Ordered(n)
        /\ \A k \in Keys(n) : n.entries[k] = added.entries[k]
        /\ \A k, q \in Keys(n) : <<k, q>> \in n.older <=> <<k, q>> \in added.older
    BY <1>3, <2>1, KeepIs, KeepOrdered DEF Without
  <2>4. Cardinality(Keys(n)) = capacity
    <3>1. Cardinality(Keys(n)) = Cardinality(Keys(added)) - 1
      BY <1>3, <2>2, <2>3, FS_RemoveElement DEF Ordered
    <3> QED
      BY <1>4, <1>6, <3>1
  <2>5. old # key
    <3>1. SUFFICES ASSUME old = key PROVE FALSE
      OBVIOUS
    <3>2. Keys(added) = {key}
      BY <1>3, <2>2, <3>1
    <3>3. Cardinality(Keys(added)) = 1
      BY <3>2, FS_Singleton
    <3> QED
      BY <1>6, <3>3
  <2> HIDE DEF n
  <2>6. /\ key \in Keys(n) /\ n.entries[key] = MapEntry(value, t + ttl)
        /\ \A k \in Keys(n) : <<key, k>> \notin n.older
    BY <1>3, <2>3, <2>5
  <2>7. /\ \A k \in Keys(n) \ {key} :
            k \in Keys(m) /\ n.entries[k] = m.entries[k] /\ Lives(m, k, t)
        /\ \A k, q \in Keys(n) \ {key} : <<k, q>> \in n.older <=> <<k, q>> \in m.older
    <3>1. Keys(n) \ {key} \subseteq live \ {key}
      BY <1>3, <2>3
    <3>2. \A k \in Keys(n) : n.entries[k] = added.entries[k]
      BY <2>3
    <3>3. \A k \in Keys(n) \ {key} : n.entries[k] = m.entries[k]
      <4> TAKE k \in Keys(n) \ {key}
      <4>1. k \in live \ {key} /\ n.entries[k] = added.entries[k]
        BY <3>1, <3>2
      <4>2. \A j \in live \ {key} : added.entries[j] = m.entries[j]
        BY <1>3
      <4> QED
        BY <4>1, <4>2
    <3>4. \A k, q \in Keys(n) \ {key} : <<k, q>> \in n.older <=> <<k, q>> \in m.older
      BY <1>3, <2>3, <3>1
    <3>5. live \subseteq Keys(m) /\ \A k \in live : Lives(m, k, t)
      OBVIOUS
    <3> HIDE DEF live
    <3> QED
      BY <3>1, <3>3, <3>4, <3>5
  <2>8. ASSUME NEW k \in Keys(m) \ Keys(n), Lives(m, k, t)
        PROVE  \A q \in Keys(n) \ {key} : <<k, q>> \in m.older
    <3>1. k = old
      BY <1>3, <2>3, <2>6, <2>8
    <3> QED
      BY <1>3, <2>2, <2>3, <2>5, <3>1
  <2>9. Puts(m, n, key, value, t, ttl, capacity)
    <3>1. Ordered(n) /\ Cardinality(Keys(n)) <= capacity
      BY <2>3, <2>4
    <3>2. \A k \in Keys(m) \ Keys(n) :
            \/ ~Lives(m, k, t)
            \/ /\ Cardinality(Keys(n)) = capacity
               /\ \A q \in Keys(n) \ {key} : <<k, q>> \in m.older
      BY <2>4, <2>8
    <3> QED
      BY <2>6, <2>7, <3>1, <3>2 DEF Puts
  <2> QED
    BY <2>9 DEF Put, n, added, rest, pruned
<1> QED
  BY <1>5, <1>6

-----------------------------------------------------------------------------
(* What every operation leaves is a map of the same keys.                   *)
LEMMA KeepStore ==
    ASSUME NEW m, NEW keys, Store(m, keys), NEW K, K \subseteq Keys(m)
    PROVE  Store(Keep(m, K), keys)
<1> DEFINE n == Keep(m, K)
<1>1. /\ Keys(n) = K /\ Ordered(n)
      /\ \A k \in K : n.entries[k] = m.entries[k]
  BY KeepIs, KeepOrdered DEF Store
<1> HIDE DEF n
<1>2. Cardinality(Keys(n)) <= MaxEntries
  <2>1. /\ IsFiniteSet(Keys(m)) /\ Cardinality(Keys(m)) <= MaxEntries
        /\ MaxEntries \in Nat
    BY ChatAssumption DEF Store, MapOK, Ordered
  <2>2. Cardinality(K) <= Cardinality(Keys(m)) /\ IsFiniteSet(K)
    BY <2>1, FS_Subset
  <2>3. Cardinality(K) \in Nat /\ Cardinality(Keys(m)) \in Nat
    BY <2>1, <2>2, FS_CardinalityType
  <2> QED
    BY <1>1, <2>1, <2>2, <2>3
<1>3. MapOK(n, keys)
  BY <1>1, <1>2 DEF MapOK, Ordered, Store
<1>4. \A k \in Keys(n) : n.entries[k].expiresAt \in Nat
  BY <1>1 DEF Store
<1> QED
  BY <1>1, <1>3, <1>4 DEF Store, n

LEMMA PruneStore ==
    ASSUME NEW m, NEW keys, Store(m, keys), NEW t, NEW key
    PROVE  /\ Store(Prune(m, t), keys) /\ Store(Without(Prune(m, t), key), keys)
           /\ Keys(Prune(m, t)) = {k \in Keys(m) : Lives(m, k, t)}
           /\ Keys(Without(Prune(m, t), key)) = {k \in Keys(m) : Lives(m, k, t)} \ {key}
           /\ \A k \in Keys(Prune(m, t)) : Prune(m, t).entries[k] = m.entries[k]
           /\ \A k \in Keys(Without(Prune(m, t), key)) :
                Without(Prune(m, t), key).entries[k] = m.entries[k]
           /\ \A k, q \in Keys(Prune(m, t)) :
                <<k, q>> \in Prune(m, t).older <=> <<k, q>> \in m.older
<1> DEFINE live == {k \in Keys(m) : Lives(m, k, t)}
           n == Prune(m, t)
           rest == Without(n, key)
<1>1. n = Keep(m, live) /\ live \subseteq Keys(m)
  BY DEF Prune, Lives
<1> HIDE DEF n, live
<1>2. /\ Store(n, keys) /\ Keys(n) = live
      /\ \A k \in live : n.entries[k] = m.entries[k]
      /\ \A k, q \in live : <<k, q>> \in n.older <=> <<k, q>> \in m.older
  BY <1>1, KeepStore, KeepIs
<1>3. rest = Keep(n, live \ {key})
  BY <1>2 DEF Without
<1> HIDE DEF rest
<1>4. /\ Store(rest, keys) /\ Keys(rest) = live \ {key}
      /\ \A k \in Keys(rest) : rest.entries[k] = n.entries[k]
  BY <1>2, <1>3, KeepStore, KeepIs
<1>5. \A k \in Keys(rest) : rest.entries[k] = m.entries[k]
  BY <1>2, <1>4
<1> QED
  BY <1>2, <1>4, <1>5 DEF n, rest, live

LEMMA PutStore ==
    ASSUME NEW m, NEW keys, Store(m, keys), NEW key \in keys, NEW value, NEW t \in Nat
    PROVE  LET n == Put(m, key, value, t, TtlMs, MaxEntries)
           IN  Store(n, keys) /\ Puts(m, n, key, value, t, TtlMs, MaxEntries)
<1> DEFINE n == Put(m, key, value, t, TtlMs, MaxEntries)
<1>1. Puts(m, n, key, value, t, TtlMs, MaxEntries)
  BY PutIs, ChatAssumption DEF Store, MapOK
<1> HIDE DEF n
<1>2. MapOK(n, keys)
  <2>1. Keys(n) \subseteq keys
    BY <1>1 DEF Puts, Store, MapOK
  <2> QED
    BY <1>1, <2>1 DEF Puts, MapOK, Ordered
<1>3. ASSUME NEW k \in Keys(n)
      PROVE  n.entries[k].expiresAt \in Nat
  <2>1. CASE k = key
    <3>1. n.entries[k].expiresAt = t + TtlMs
      BY <1>1, <2>1 DEF Puts, MapEntry
    <3> QED
      BY <3>1, ChatAssumption
  <2>2. CASE k # key
    BY <1>1, <1>3, <2>2 DEF Puts, Store
  <2> QED
    BY <2>1, <2>2
<1> QED
  BY <1>1, <1>2, <1>3 DEF Puts, Store, n

-----------------------------------------------------------------------------
LEMMA ChatInit == Init => CInv
<1> SUFFICES ASSUME Init PROVE CInv
  OBVIOUS
<1>1. \A keys : Store(EmptyMap, keys)
  <2>1. Keys(EmptyMap) = {} /\ EmptyMap.older = {}
    BY DEF Keys, EmptyMap
  <2>2. IsFiniteSet({}) /\ Cardinality({}) = 0
    BY FS_EmptySet
  <2> QED
    BY <2>1, <2>2, ChatAssumption DEF Store, Ordered, MapOK
<1>2. MapsOK
  BY <1>1 DEF Init, MapsOK
<1>3. \A c \in Calls : calls[c] = NewCall
  BY DEF Init
<1>4. CallOK(NewCall) /\ NewCall.verdict = None
  BY ChatAssumption DEF NewCall, CallOK, CallFields
<1>5. Shape
  <2>1. captures \in Seq([run : Runs, at : 0 .. now])
    BY DEF Init
  <2>2. retries \in 0 .. AttachAttempts /\ now \in Nat
    BY ChatAssumption DEF Init
  <2> QED
    BY <1>3, <1>4, <2>1, <2>2 DEF Init, Shape
<1>6. Keys(byRun) = {} /\ Keys(bySession) = {} /\ Keys(decisions) = {}
  BY DEF Init, Keys, EmptyMap
<1>7. RequestsOK
  BY <1>6 DEF Init, RequestsOK
<1>8. Judged = {}
  BY <1>3, <1>4 DEF Judged
<1>9. BoardOK
  BY <1>6, <1>8, FS_EmptySet DEF BoardOK
<1> QED
  BY <1>2, <1>5, <1>7, <1>9 DEF CInv

-----------------------------------------------------------------------------
(* Entries only leave the map n of m when they have expired at t; K are     *)
(* keys that may leave besides.                                             *)
Fades(m, n, t, K) ==
    /\ Keys(n) \subseteq Keys(m)
    /\ \A k \in Keys(n) : n.entries[k] = m.entries[k]
    /\ \A k, q \in Keys(n) : <<k, q>> \in n.older <=> <<k, q>> \in m.older
    /\ \A k \in Keys(m) \ Keys(n) : ~Lives(m, k, t) \/ k \in K

LEMMA Fading ==
    ASSUME NEW m, NEW t, NEW key, NEW K
    PROVE  /\ Fades(m, m, t, K) /\ Fades(m, Prune(m, t), t, K)
           /\ Fades(m, Without(Prune(m, t), key), t, {key})
<1> DEFINE live == {k \in Keys(m) : Lives(m, k, t)}
           n == Prune(m, t)
           rest == Without(n, key)
<1>1. n = Keep(m, live) /\ live \subseteq Keys(m)
  BY DEF Prune, Lives
<1>2. \A k \in Keys(m) \ live : ~Lives(m, k, t)
  OBVIOUS
<1> HIDE DEF n, live
<1>3. /\ Keys(n) = live /\ \A k \in live : n.entries[k] = m.entries[k]
      /\ \A k, q \in live : <<k, q>> \in n.older <=> <<k, q>> \in m.older
  BY <1>1, KeepIs
<1>4. rest = Keep(n, live \ {key})
  BY <1>3 DEF Without
<1> HIDE DEF rest
<1>5. /\ Keys(rest) = live \ {key}
      /\ \A k \in live \ {key} : rest.entries[k] = n.entries[k]
      /\ \A k, q \in live \ {key} : <<k, q>> \in rest.older <=> <<k, q>> \in n.older
  BY <1>3, <1>4, KeepIs
<1>6. Fades(m, n, t, K)
  BY <1>1, <1>2, <1>3 DEF Fades
<1>7. Fades(m, rest, t, {key})
  BY <1>1, <1>2, <1>3, <1>5 DEF Fades
<1> QED
  BY <1>6, <1>7 DEF Fades, n, rest

Moved(m, n, keys) ==
    \/ n = m \/ n = Prune(m, now) \/ \E key : n = Without(Prune(m, now), key)
    \/ \E key \in keys : \E value : n = Put(m, key, value, now, TtlMs, MaxEntries)

LEMMA MovedStore ==
    ASSUME now \in Nat, NEW m, NEW n, NEW keys, Store(m, keys), Moved(m, n, keys)
    PROVE  Store(n, keys)
<1>1. CASE n = m
  BY <1>1
<1>2. CASE n = Prune(m, now)
  BY <1>2, PruneStore
<1>3. CASE \E key : n = Without(Prune(m, now), key)
  <2>1. PICK key : n = Without(Prune(m, now), key)
    BY <1>3
  <2> QED
    BY <2>1, PruneStore
<1>4. CASE \E key \in keys : \E value : n = Put(m, key, value, now, TtlMs, MaxEntries)
  <2>1. PICK key \in keys : \E value : n = Put(m, key, value, now, TtlMs, MaxEntries)
    BY <1>4
  <2>2. PICK value : n = Put(m, key, value, now, TtlMs, MaxEntries)
    BY <2>1
  <2> QED
    BY <2>2, PutStore
<1> QED
  BY <1>1, <1>2, <1>3, <1>4 DEF Moved

-----------------------------------------------------------------------------
(* The requests, while nothing is captured.                                 *)
LEMMA CapturedBefore ==
    ASSUME Shape
    PROVE  /\ Len(captures) \in Nat /\ DOMAIN captures = 1 .. Len(captures)
           /\ \A i \in DOMAIN captures :
                captures[i].run \in Runs /\ captures[i].at \in Nat /\ captures[i].at <= now
<1>1. captures \in Seq([run : Runs, at : 0 .. now]) /\ now \in Nat
  BY DEF Shape
<1>2. ASSUME NEW i \in DOMAIN captures
      PROVE  captures[i] \in [run : Runs, at : 0 .. now]
  <2>1. PICK S : S = [run : Runs, at : 0 .. now]
    OBVIOUS
  <2>2. captures \in Seq(S)
    BY <1>1, <2>1
  <2>3. captures[i] \in S
    BY <2>2
  <2> QED
    BY <2>1, <2>3
<1>3. ASSUME NEW i \in DOMAIN captures
      PROVE  captures[i].run \in Runs /\ captures[i].at \in 0 .. now
  BY <1>2
<1> QED
  BY <1>1, <1>3

LEMMA RequestsKept ==
    ASSUME CInv, Fades(byRun, byRun', now, {}), Fades(bySession, bySession', now, {}),
           captures' = captures, now' \in Nat, now' >= now
    PROVE  RequestsOK'
<1> USE DEF CInv
<1>1. now \in Nat /\ TtlMs \in Nat
  BY ChatAssumption DEF Shape
<1>2. \A i \in DOMAIN captures : captures[i].at \in Nat
  BY CapturedBefore
<1>3. ASSUME NEW r \in Keys(byRun')
      PROVE  RunRequestOK(r)'
  <2>1. r \in Keys(byRun) /\ byRun'.entries[r] = byRun.entries[r]
    BY DEF Fades
  <2>2. RunRequestOK(r)
    BY <2>1 DEF RequestsOK
  <2> QED
    BY <2>1, <2>2 DEF RunRequestOK, Lookup, StoredFrom, Captured
<1>4. ASSUME NEW s \in Keys(bySession')
      PROVE  SessionRequestOK(s)'
  <2>1. s \in Keys(bySession) /\ bySession'.entries[s] = bySession.entries[s]
    BY DEF Fades
  <2>2. SessionRequestOK(s)
    BY <2>1 DEF RequestsOK
  <2> QED
    BY <2>1, <2>2 DEF SessionRequestOK, Lookup, LatestOf
<1>5. ASSUME NEW i \in DOMAIN captures
      PROVE  KeptSince(i)' \/ Forgotten(i)'
  <2> DEFINE r == captures[i].run
  <2>1. CASE Forgotten(i)
    <3>1. ~Recent(i) => ~Recent(i)'
      BY <1>1, <1>2 DEF Recent
    <3> QED
      BY <2>1, <3>1 DEF Forgotten, RunsSince
  <2>2. CASE KeptSince(i) /\ r \in Keys(byRun')
    BY <2>2 DEF KeptSince, RunsSince, Fades
  <2>3. CASE KeptSince(i) /\ r \notin Keys(byRun')
    <3>1. /\ r \in Keys(byRun) /\ ~Lives(byRun, r, now)
          /\ byRun.entries[r].expiresAt >= captures[i].at + TtlMs
      BY <2>3 DEF KeptSince, Fades
    <3>2. byRun.entries[r].expiresAt \in Nat
      BY <3>1 DEF MapsOK, Store
    <3>3. ~Recent(i)'
      BY <1>1, <1>2, <3>1, <3>2 DEF Lives, Recent
    <3> QED
      BY <3>3 DEF Forgotten
  <2> QED
    BY <2>1, <2>2, <2>3 DEF RequestsOK
<1> QED
  BY <1>3, <1>4, <1>5 DEF RequestsOK

-----------------------------------------------------------------------------
LEMMA RunsSinceFinite ==
    ASSUME Shape, NEW i \in DOMAIN captures
    PROVE  IsFiniteSet(RunsSince(i))
<1> DEFINE S == i + 1 .. Len(captures)
           f == [j \in S |-> captures[j].run]
<1>1. Len(captures) \in Nat /\ i \in Nat
  BY CapturedBefore
<1>2. IsFiniteSet(S)
  BY <1>1, FS_Interval
<1>3. f \in Surjection(S, RunsSince(i))
  BY DEF Surjection, RunsSince
<1> HIDE DEF S, f
<1> QED
  BY <1>2, <1>3, FS_Surjection

(* A request is captured: it becomes the last of its run's, and the run the *)
(* last in the map; the request that leaves the map for it was captured     *)
(* before those of MaxEntries other runs.                                   *)
LEMMA RequestCaptured ==
    ASSUME CInv, NEW r \in Runs, NEW s, s = SessionOf[r], now' = now,
           Puts(byRun, byRun', r, r, now, TtlMs, MaxEntries),
           Puts(bySession, bySession', s, r, now, TtlMs, MaxEntries),
           captures' = Append(captures, [run |-> r, at |-> now]),
           Shape'
    PROVE  RequestsOK'
<1> USE DEF CInv
<1>0. PICK n : n = Len(captures)
  OBVIOUS
<1>1. /\ now \in Nat /\ TtlMs \in Nat /\ MaxEntries \in Nat
      /\ s \in Sessions
  BY ChatAssumption DEF Shape
<1>2. /\ n \in Nat /\ DOMAIN captures = 1 .. n
      /\ DOMAIN captures' = 1 .. n + 1 /\ Len(captures') = n + 1
      /\ \A i \in 1 .. n : captures'[i] = captures[i]
      /\ captures'[n + 1] = [run |-> r, at |-> now]
  <2>1. captures \in Seq([run : Runs, at : 0 .. now])
    BY DEF Shape
  <2> QED
    BY <1>0, <2>1
<1>3. \A i \in 1 .. n : captures[i].run \in Runs /\ captures[i].at \in Nat
  BY <1>2, CapturedBefore
<1>4. /\ \A q : Captured(q) \subseteq Captured(q)' /\ n + 1 \in Captured(r)'
      /\ \A q : \A i \in Captured(q) : captures'[i] = captures[i]
  BY <1>2 DEF Captured
<1>5. ASSUME NEW i \in 1 .. n
      PROVE  RunsSince(i)' = RunsSince(i) \cup {r}
  <2>1. i + 1 .. n + 1 = (i + 1 .. n) \cup {n + 1}
    BY <1>2
  <2>2. RunsSince(i)' = {captures'[j].run : j \in i + 1 .. n + 1}
    BY <1>2 DEF RunsSince
  <2>3. /\ captures'[n + 1].run = r
        /\ \A j \in i + 1 .. n : captures'[j].run = captures[j].run
    BY <1>2
  <2>4. RunsSince(i) = {captures[j].run : j \in i + 1 .. n}
    BY <1>0 DEF RunsSince
  <2> QED
    BY <2>1, <2>2, <2>3, <2>4
<1>6. ASSUME NEW k \in Keys(byRun')
      PROVE  RunRequestOK(k)'
  <2>1. CASE k = r
    <3>1. byRun'.entries[k] = MapEntry(r, now + TtlMs)
      BY <2>1 DEF Puts
    <3>2. Lookup(byRun', k) = k
      BY <2>1, <3>1 DEF Lookup, MapEntry
    <3>3. byRun'.entries[k].expiresAt = captures'[n + 1].at + TtlMs
      BY <1>2, <3>1 DEF MapEntry
    <3> QED
      BY <1>4, <2>1, <3>2, <3>3 DEF RunRequestOK, StoredFrom
  <2>2. CASE k # r
    <3>1. k \in Keys(byRun) /\ byRun'.entries[k] = byRun.entries[k]
      BY <2>2 DEF Puts
    <3>2. RunRequestOK(k)
      BY <3>1 DEF RequestsOK
    <3> QED
      BY <1>4, <3>1, <3>2 DEF RunRequestOK, Lookup, StoredFrom
  <2> QED
    BY <2>1, <2>2
<1>7. ASSUME NEW k \in Keys(bySession')
      PROVE  SessionRequestOK(k)'
  <2>1. CASE k = s
    <3>1. bySession'.entries[k] = MapEntry(r, now + TtlMs)
      BY <2>1 DEF Puts
    <3>2. Lookup(bySession', k) = captures'[n + 1].run
      BY <1>2, <3>1 DEF Lookup, MapEntry
    <3>3. bySession'.entries[k].expiresAt = captures'[n + 1].at + TtlMs
      BY <1>2, <3>1 DEF MapEntry
    <3>4. LatestOf(k, n + 1)'
      BY <1>2, <2>1 DEF LatestOf
    <3> QED
      BY <1>2, <3>2, <3>3, <3>4 DEF SessionRequestOK
  <2>2. CASE k # s
    <3>1. k \in Keys(bySession) /\ bySession'.entries[k] = bySession.entries[k]
      BY <2>2 DEF Puts
    <3>2. PICK i \in 1 .. n :
             /\ LatestOf(k, i) /\ Lookup(bySession, k) = captures[i].run
             /\ bySession.entries[k].expiresAt = captures[i].at + TtlMs
      BY <1>2, <3>1 DEF RequestsOK, SessionRequestOK
    <3>3. ASSUME NEW j \in i + 1 .. n + 1
          PROVE  SessionOf[captures'[j].run] # k
      <4>1. CASE j = n + 1
        BY <1>2, <2>2, <4>1
      <4>2. CASE j # n + 1
        <5>1. j \in i + 1 .. n /\ j \in 1 .. n
          BY <1>2, <4>2
        <5> QED
          BY <1>0, <1>2, <3>2, <5>1 DEF LatestOf
      <4> QED
        BY <4>1, <4>2
    <3>4. LatestOf(k, i)'
      BY <1>2, <3>2, <3>3 DEF LatestOf
    <3> QED
      BY <1>2, <3>1, <3>2, <3>4 DEF SessionRequestOK, Lookup
  <2> QED
    BY <2>1, <2>2
<1>8. KeptSince(n + 1)'
  <2>1. captures'[n + 1].run = r /\ captures'[n + 1].at = now
    BY <1>2
  <2>2. r \in Keys(byRun') /\ byRun'.entries[r].expiresAt = now + TtlMs
    BY DEF Puts, MapEntry
  <2>3. \A q \in Keys(byRun') : <<r, q>> \notin byRun'.older
    BY DEF Puts
  <2>4. now + TtlMs >= now + TtlMs
    BY <1>1
  <2> QED
    BY <2>1, <2>2, <2>3, <2>4 DEF KeptSince
<1>9. ASSUME NEW i \in 1 .. n
      PROVE  KeptSince(i)' \/ Forgotten(i)'
  <2> DEFINE q == captures[i].run
             others == RunsSince(i)' \ {q}
  <2>1. captures'[i].run = q /\ captures'[i].at = captures[i].at /\ i \in DOMAIN captures
    BY <1>2
  <2>2. IsFiniteSet(others) /\ Cardinality(others) \in Nat
    <3>1. IsFiniteSet(RunsSince(i)')
      <4>1. IsFiniteSet(RunsSince(i))
        BY <2>1, RunsSinceFinite
      <4>2. IsFiniteSet(RunsSince(i) \cup {r})
        BY <4>1, FS_AddElement
      <4> QED
        BY <1>5, <4>2
    <3>2. IsFiniteSet(others)
      BY <3>1, FS_Subset
    <3> QED
      BY <3>2, FS_CardinalityType
  <2>3. CASE Forgotten(i)
    <3>1. CASE ~Recent(i)
      BY <2>1, <3>1 DEF Forgotten, Recent
    <3>2. CASE Cardinality(RunsSince(i) \ {q}) >= MaxEntries
      <4>1. RunsSince(i) \ {q} \subseteq others
        BY <1>5
      <4>2. Cardinality(RunsSince(i) \ {q}) <= Cardinality(others)
        BY <2>2, <4>1, FS_Subset
      <4>3. Cardinality(RunsSince(i) \ {q}) \in Nat
        BY <2>2, <4>1, FS_Subset, FS_CardinalityType
      <4>4. Cardinality(others) >= MaxEntries
        BY <1>1, <2>2, <3>2, <4>2, <4>3
      <4> QED
        BY <2>1, <4>4 DEF Forgotten
    <3> QED
      BY <2>3, <3>1, <3>2 DEF Forgotten
  <2>4. CASE KeptSince(i)
    <3>1. /\ q \in Keys(byRun) /\ byRun.entries[q].expiresAt >= captures[i].at + TtlMs
          /\ \A k \in Keys(byRun) : <<q, k>> \in byRun.older => k \in RunsSince(i) \ {q}
      BY <2>4 DEF KeptSince
    <3>2. CASE q = r
      <4>1. q \in Keys(byRun') /\ byRun'.entries[q].expiresAt = now + TtlMs
        BY <3>2 DEF Puts, MapEntry
      <4>2. \A k \in Keys(byRun') : <<q, k>> \notin byRun'.older
        BY <3>2 DEF Puts
      <4>3. now + TtlMs >= captures[i].at + TtlMs
        BY <1>1, <2>1, CapturedBefore
      <4> QED
        BY <2>1, <4>1, <4>2, <4>3 DEF KeptSince
    <3>3. CASE q # r /\ q \in Keys(byRun')
      <4>1. byRun'.entries[q] = byRun.entries[q]
        BY <3>3 DEF Puts
      <4>2. ASSUME NEW k \in Keys(byRun'), <<q, k>> \in byRun'.older
            PROVE  k \in others
        <5>1. CASE k = r
          BY <1>5, <3>3, <5>1
        <5>2. CASE k # r
          <6>1. k \in Keys(byRun) /\ <<q, k>> \in byRun.older
            BY <3>3, <4>2, <5>2 DEF Puts
          <6> QED
            BY <1>5, <3>1, <6>1
        <5> QED
          BY <5>1, <5>2
      <4> QED
        BY <2>1, <3>1, <3>3, <4>1, <4>2 DEF KeptSince
    <3>4. CASE q \notin Keys(byRun')
      <4>1. q # r
        BY <3>4 DEF Puts
      <4>2. CASE ~Lives(byRun, q, now)
        <5>1. byRun.entries[q].expiresAt \in Nat
          BY <3>1 DEF MapsOK, Store
        <5>2. ~Recent(i)'
          BY <1>1, <1>3, <2>1, <3>1, <4>2, <5>1 DEF Recent, Lives
        <5> QED
          BY <5>2 DEF Forgotten
      <4>3. CASE /\ Cardinality(Keys(byRun')) = MaxEntries
                 /\ \A k \in Keys(byRun') \ {r} : <<q, k>> \in byRun.older
        <5>1. ASSUME NEW k \in Keys(byRun')
              PROVE  k \in others
          <6>1. CASE k = r
            BY <1>5, <4>1, <6>1
          <6>2. CASE k # r
            <7>1. k \in Keys(byRun) /\ <<q, k>> \in byRun.older
              BY <4>3, <5>1, <6>2 DEF Puts
            <7> QED
              BY <1>5, <3>1, <7>1
          <6> QED
            BY <6>1, <6>2
        <5>2. Cardinality(Keys(byRun')) <= Cardinality(others)
          BY <2>2, <5>1, FS_Subset
        <5>3. Cardinality(others) >= MaxEntries
          BY <1>1, <2>2, <4>3, <5>2
        <5> QED
          BY <2>1, <5>3 DEF Forgotten
      <4> QED
        BY <3>1, <3>4, <4>2, <4>3 DEF Puts
    <3> QED
      BY <3>2, <3>3, <3>4
  <2> QED
    BY <1>2, <2>3, <2>4 DEF RequestsOK
<1>10. \A i \in DOMAIN captures' : KeptSince(i)' \/ Forgotten(i)'
  <2> TAKE i \in DOMAIN captures'
  <2>1. i \in 1 .. n \/ i = n + 1
    BY <1>2
  <2>2. CASE i = n + 1
    BY <1>8, <2>2
  <2> QED
    BY <1>9, <2>1, <2>2
<1> QED
  BY <1>6, <1>7, <1>10 DEF RequestsOK

(* The request a call is judged on, for the two promises of                 *)
(* JudgedOnOwnOrLatest.                                                      *)
LEMMA PromptIsOwn ==
    ASSUME CInv, NEW r \in Runs, NEW intent, intent = GetStoredPrompt(r)
    PROVE  /\ intent \in Runs \cup {None}
           /\ (\E i \in Captured(r) :
                  Recent(i) /\ Cardinality(RunsSince(i) \ {r}) < MaxEntries)
                => intent = r
           /\ intent # None =>
                \E i \in Captured(intent) :
                   Recent(i) /\ (intent = r \/ LatestOf(SessionOf[r], i))
<1> USE DEF CInv
<1>1. now \in Nat /\ TtlMs \in Nat /\ MaxEntries \in Nat
  BY ChatAssumption DEF Shape
<1>2. \A q : \A i \in Captured(q) : captures[i].at \in Nat /\ i \in DOMAIN captures
  BY CapturedBefore DEF Captured
<1>3. ASSUME NEW m, NEW k, NEW q, StoredFrom(m, k, q), Has(m, k, now)
      PROVE  \E i \in Captured(q) : Recent(i)
  <2>1. PICK i \in Captured(q) : m.entries[k].expiresAt = captures[i].at + TtlMs
    BY <1>3 DEF StoredFrom
  <2>2. captures[i].at + TtlMs > now
    BY <1>3, <2>1 DEF Has
  <2>3. Recent(i)
    BY <1>1, <1>2, <2>2 DEF Recent
  <2> QED
    BY <2>3
<1>4. ASSUME NEW i \in Captured(r), Recent(i),
             Cardinality(RunsSince(i) \ {r}) < MaxEntries
      PROVE  Has(byRun, r, now)
  <2>1. captures[i].run = r /\ i \in DOMAIN captures
    BY DEF Captured
  <2>2. IsFiniteSet(RunsSince(i) \ {r})
    BY <2>1, RunsSinceFinite, FS_Subset
  <2>3. Cardinality(RunsSince(i) \ {r}) \in Nat
    BY <2>2, FS_CardinalityType
  <2>4. ~Forgotten(i)
    BY <1>1, <1>4, <2>1, <2>3 DEF Forgotten
  <2>5. KeptSince(i)
    BY <2>1, <2>4 DEF RequestsOK
  <2>6. r \in Keys(byRun) /\ byRun.entries[r].expiresAt >= captures[i].at + TtlMs
    BY <2>1, <2>5 DEF KeptSince
  <2>7. byRun.entries[r].expiresAt \in Nat
    BY <2>6 DEF MapsOK, Store
  <2>8. byRun.entries[r].expiresAt > now
    BY <1>1, <1>2, <1>4, <2>6, <2>7 DEF Recent
  <2> QED
    BY <2>6, <2>8 DEF Has
<1>5. CASE Has(byRun, r, now)
  <2>1. RunRequestOK(r)
    BY <1>5 DEF Has, RequestsOK
  <2>2. intent = r
    BY <1>5, <2>1 DEF GetStoredPrompt, RunRequestOK
  <2>3. \E i \in Captured(intent) : Recent(i)
    BY <1>3, <1>5, <2>1, <2>2 DEF RunRequestOK
  <2> QED
    BY <2>2, <2>3
<1>6. CASE ~Has(byRun, r, now) /\ Has(bySession, SessionOf[r], now)
  <2>1. SessionRequestOK(SessionOf[r])
    BY <1>6 DEF Has, RequestsOK
  <2>2. PICK i \in DOMAIN captures :
           /\ LatestOf(SessionOf[r], i) /\ intent = captures[i].run
           /\ bySession.entries[SessionOf[r]].expiresAt = captures[i].at + TtlMs
    BY <1>6, <2>1 DEF GetStoredPrompt, SessionRequestOK
  <2>3. intent \in Runs /\ i \in Captured(intent)
    BY <2>2, CapturedBefore DEF Captured
  <2>4. captures[i].at + TtlMs > now
    BY <1>6, <2>2 DEF Has
  <2>5. Recent(i)
    BY <1>1, <1>2, <2>3, <2>4 DEF Recent
  <2> QED
    BY <1>4, <1>6, <2>2, <2>3, <2>5
<1>7. CASE ~Has(byRun, r, now) /\ ~Has(bySession, SessionOf[r], now)
  <2>1. intent = None
    BY <1>7 DEF GetStoredPrompt
  <2> QED
    BY <1>4, <1>7, <2>1
<1> QED
  BY <1>5, <1>6, <1>7

-----------------------------------------------------------------------------
(* The verdicts on the board.                                               *)
JudgedBut(c) == {d \in Calls \ {c} : calls[d].verdict # None}

LEMMA LostIs ==
    ASSUME NEW c \in Calls
    PROVE  /\ JudgedBut(c) = Judged \ {c}
           /\ Lost(c) <=> \/ now - calls[c].putAt >= TtlMs
                          \/ Cardinality(JudgedBut(c)) >= MaxEntries
  BY DEF JudgedBut, Judged, Lost

(* The verdict of c is lost once its entry has expired.                     *)
LEMMA ExpiredIsLost ==
    ASSUME Shape, MapsOK, NEW c \in Calls, OnBoard(c), ~Lives(decisions, c, now)
    PROVE  now - calls[c].putAt >= TtlMs
<1>1. /\ now \in Nat /\ TtlMs \in Nat /\ calls[c].putAt \in Nat
  BY ChatAssumption DEF Shape, CallOK
<1>2. decisions.entries[c].expiresAt = calls[c].putAt + TtlMs
  BY DEF OnBoard
<1> QED
  BY <1>1, <1>2 DEF Lives

(* A step that delivers nothing: the call c may ask, look at the board or   *)
(* get its answer; what is on the board only fades, but for its verdict.    *)
LEMMA BoardFades ==
    ASSUME CInv, NEW c \in Calls, Fades(decisions, decisions', now, {c}),
           now' \in Nat, now' >= now,
           \A d \in Calls \ {c} : calls'[d] = calls[d],
           calls'[c].verdict = calls[c].verdict,
           \/ calls'[c].asked = "answered"
           \/ /\ calls[c].asked # "answered"
              /\ calls'[c].putAt = calls[c].putAt /\ calls'[c].late = calls[c].late
              /\ \/ calls'[c].asked = calls[c].asked /\ calls'[c].looks = calls[c].looks
                    /\ Fades(decisions, decisions', now, {})
                 \/ ~Has(decisions, c, now)
    PROVE  BoardOK'
<1> USE DEF CInv
<1>1. now \in Nat /\ TtlMs \in Nat /\ \A d \in Calls : calls[d].putAt \in Nat
  BY ChatAssumption DEF Shape, CallOK
<1>2. \A d \in Calls : calls'[d].verdict = calls[d].verdict
  OBVIOUS
<1>3. Judged' = Judged /\ IsFiniteSet(Judged')
  BY <1>2 DEF Judged, BoardOK
<1>4. ASSUME NEW d \in Calls, Lost(d), calls'[d].putAt = calls[d].putAt
      PROVE  Lost(d)'
  <2>1. JudgedBut(d)' = JudgedBut(d)
    BY <1>2 DEF JudgedBut
  <2>2. now - calls[d].putAt >= TtlMs => now' - calls[d].putAt >= TtlMs
    BY <1>1
  <2>3. \/ now - calls[d].putAt >= TtlMs
        \/ Cardinality(JudgedBut(d)) >= MaxEntries
    BY <1>4, LostIs
  <2> QED
    BY <1>4, <2>1, <2>2, <2>3 DEF Lost, JudgedBut
<1>5. ASSUME NEW d \in Calls, OnBoard(d), ~Lives(decisions, d, now)
      PROVE  Lost(d)
  BY <1>5, ExpiredIsLost, LostIs
<1>6. \A d \in Keys(decisions') :
        d \in Judged' /\ Lookup(decisions', d) = calls'[d].verdict
  <2> TAKE d \in Keys(decisions')
  <2>1. d \in Keys(decisions) /\ decisions'.entries[d] = decisions.entries[d]
    BY DEF Fades
  <2>2. d \in Judged /\ Lookup(decisions, d) = calls[d].verdict
    BY <2>1 DEF BoardOK
  <2>3. d \in Calls
    BY <2>2 DEF Judged
  <2> QED
    BY <1>2, <1>3, <2>1, <2>2, <2>3 DEF Lookup
<1>7. ASSUME NEW d \in Judged', calls'[d].asked # "answered", ~calls'[d].late
      PROVE  OnBoard(d)' \/ Lost(d)'
  <2>1. d \in Calls /\ d \in Judged
    BY <1>3, <1>7 DEF Judged
  <2>2. calls[d].asked # "answered" /\ ~calls[d].late /\ calls'[d].putAt = calls[d].putAt
    BY <1>7, <2>1
  <2>3. OnBoard(d) \/ Lost(d)
    BY <2>1, <2>2 DEF BoardOK
  <2>4. CASE Lost(d)
    BY <1>4, <2>1, <2>2, <2>4
  <2>5. CASE OnBoard(d) /\ ~Lives(decisions, d, now)
    BY <1>4, <1>5, <2>1, <2>2, <2>5
  <2>6. CASE OnBoard(d) /\ Lives(decisions, d, now)
    <3>1. d \in Keys(decisions) /\ decisions.entries[d].expiresAt = calls[d].putAt + TtlMs
      BY <2>6 DEF OnBoard
    <3>2. Has(decisions, d, now)
      BY <2>6, <3>1 DEF Has, Lives
    <3>3. /\ d \in Keys(decisions')
          /\ calls'[d].asked = calls[d].asked /\ calls'[d].looks = calls[d].looks
      <4>1. CASE d = c
        BY <1>7, <2>6, <3>1, <3>2, <4>1 DEF Fades
      <4>2. CASE d # c
        BY <2>1, <2>6, <3>1, <4>2 DEF Fades
      <4> QED
        BY <4>1, <4>2
    <3>4. decisions'.entries[d].expiresAt = calls'[d].putAt + TtlMs
      BY <2>2, <3>1, <3>3 DEF Fades
    <3>5. OnBoard(d)'
      BY <2>6, <3>3, <3>4 DEF OnBoard, MayLook
    <3> QED
      BY <3>5
  <2> QED
    BY <2>3, <2>4, <2>5, <2>6
<1> QED
  BY <1>3, <1>6, <1>7 DEF BoardOK

(* A verdict is delivered: what leaves the board for it has expired, or is  *)
(* crowded out by as many other verdicts as the board holds.                *)
LEMMA VerdictDelivered ==
    ASSUME CInv, NEW c \in Calls, NEW verdict \in {"allow-once", "deny"}, MapsOK',
           GateDelivers(c, verdict)
    PROVE  BoardOK'
<1> USE DEF CInv
<1>1. /\ now \in Nat /\ TtlMs \in Nat /\ MaxEntries \in Nat
      /\ \A d \in Calls : calls[d].putAt \in Nat
  BY ChatAssumption DEF Shape, CallOK
<1>2. /\ now' = now /\ \A d \in Calls \ {c} : calls'[d] = calls[d]
      /\ calls'[c].verdict = verdict
      /\ calls'[c].putAt = IF calls[c].asked = "answered" THEN 0 ELSE now
      /\ calls'[c].late = (calls[c].asked = "waiting" /\ ~MayLook(c))
      /\ calls'[c].asked = calls[c].asked /\ calls'[c].looks = calls[c].looks
  BY DEF GateDelivers, Shape, CallOK, CallFields
<1>3. verdict # None
  BY DEF None
<1>4. Judged' = Judged \cup {c}
  BY <1>2, <1>3 DEF Judged
<1>5. IsFiniteSet(Judged')
  BY <1>4, FS_AddElement DEF BoardOK
<1>6. Puts(decisions, decisions', c, verdict, now, TtlMs, MaxEntries)
  <2>1. decisions' = Put(decisions, c, verdict, now, TtlMs, MaxEntries)
    BY DEF GateDelivers, BoardKey
  <2> QED
    BY <1>1, <2>1, PutStore DEF MapsOK
<1>7. \A d \in Keys(decisions') :
        d \in Judged' /\ Lookup(decisions', d) = calls'[d].verdict
  <2> TAKE d \in Keys(decisions')
  <2>1. CASE d = c
    BY <1>2, <1>4, <1>6, <2>1 DEF Puts, Lookup, MapEntry
  <2>2. CASE d # c
    <3>1. d \in Keys(decisions) /\ decisions'.entries[d] = decisions.entries[d]
      BY <1>6, <2>2 DEF Puts
    <3>2. d \in Judged /\ Lookup(decisions, d) = calls[d].verdict
      BY <3>1 DEF BoardOK
    <3>3. d \in Calls
      BY <3>2 DEF Judged
    <3> QED
      BY <1>2, <1>4, <2>2, <3>1, <3>2, <3>3 DEF Lookup
  <2> QED
    BY <2>1, <2>2
<1>8. ASSUME NEW d \in Judged', calls'[d].asked # "answered", ~calls'[d].late
      PROVE  OnBoard(d)' \/ Lost(d)'
  <2>1. d \in Calls
    BY <1>8 DEF Judged
  <2>2. CASE d = c
    <3>1. calls'[c].putAt = now /\ (calls[c].asked = "waiting" => MayLook(c))
      BY <1>2, <1>8, <2>2
    <3>2. c \in Keys(decisions') /\ decisions'.entries[c].expiresAt = now + TtlMs
      BY <1>6 DEF Puts, MapEntry
    <3>3. MayLook(c)' = MayLook(c)
      BY <1>2 DEF MayLook
    <3> QED
      BY <1>2, <2>2, <3>1, <3>2, <3>3 DEF OnBoard
  <2>3. CASE d # c
    <3>1. calls'[d] = calls[d] /\ d \in Judged
      BY <1>2, <1>4, <1>8, <2>1, <2>3
    <3>2. OnBoard(d) \/ Lost(d)
      BY <1>8, <3>1 DEF BoardOK
    <3>3. IsFiniteSet(JudgedBut(d)') /\ Cardinality(JudgedBut(d)') \in Nat
      <4>1. JudgedBut(d)' = Judged' \ {d}
        BY <2>1 DEF JudgedBut, Judged
      <4> QED
        BY <1>5, <4>1, FS_Subset, FS_CardinalityType
    <3>4. Cardinality(JudgedBut(d)') >= MaxEntries => Lost(d)'
      BY DEF Lost, JudgedBut
    <3>5. CASE Lost(d)
      <4>1. CASE now - calls[d].putAt >= TtlMs
        BY <1>2, <3>1, <4>1 DEF Lost
      <4>2. CASE Cardinality(JudgedBut(d)) >= MaxEntries
        <5>1. JudgedBut(d) \subseteq JudgedBut(d)'
          BY <1>2, <1>3 DEF JudgedBut
        <5>2. /\ Cardinality(JudgedBut(d)) <= Cardinality(JudgedBut(d)')
              /\ Cardinality(JudgedBut(d)) \in Nat
          BY <3>3, <5>1, FS_Subset, FS_CardinalityType
        <5>3. Cardinality(JudgedBut(d)') >= MaxEntries
          BY <1>1, <3>3, <4>2, <5>2
        <5> QED
          BY <3>4, <5>3
      <4> QED
        BY <2>1, <3>5, <4>1, <4>2, LostIs
    <3>6. CASE OnBoard(d) /\ d \in Keys(decisions')
      <4>1. decisions'.entries[d] = decisions.entries[d]
        BY <1>6, <2>3, <3>6 DEF Puts
      <4> QED
        BY <3>1, <3>6, <4>1 DEF OnBoard, MayLook
    <3>7. CASE OnBoard(d) /\ d \notin Keys(decisions')
      <4>1. d \in Keys(decisions)
        BY <3>7 DEF OnBoard
      <4>2. CASE ~Lives(decisions, d, now)
        <5>1. now - calls[d].putAt >= TtlMs
          BY <2>1, <3>7, <4>2, ExpiredIsLost
        <5> QED
          BY <1>2, <3>1, <5>1 DEF Lost
      <4>3. CASE Cardinality(Keys(decisions')) = MaxEntries
        <5>1. Keys(decisions') \subseteq JudgedBut(d)'
          BY <1>7, <3>7 DEF JudgedBut, Judged
        <5>2. Cardinality(Keys(decisions')) <= Cardinality(JudgedBut(d)')
          BY <3>3, <5>1, FS_Subset
        <5> QED
          BY <3>4, <4>3, <5>2
      <4> QED
        BY <1>6, <3>7, <4>1, <4>2, <4>3 DEF Puts
    <3> QED
      BY <3>2, <3>5, <3>6, <3>7
  <2> QED
    BY <2>2, <2>3
<1> QED
  BY <1>5, <1>7, <1>8 DEF BoardOK

-----------------------------------------------------------------------------
(* The steps.  What a step does with the maps of one kind, whichever it is. *)
LEMMA MapsMove ==
    ASSUME CInv, Moved(byRun, byRun', Runs), Moved(runMarks, runMarks', Runs),
           Moved(bySession, bySession', Sessions),
           Moved(sessionMarks, sessionMarks', Sessions),
           Moved(decisions, decisions', Calls)
    PROVE  MapsOK'
<1>1. now \in Nat /\ MapsOK
  BY DEF CInv, Shape
<1>2. Store(byRun', Runs) /\ Store(runMarks', Runs)
  BY <1>1, MovedStore DEF MapsOK
<1>3. Store(bySession', Sessions) /\ Store(sessionMarks', Sessions)
  BY <1>1, MovedStore DEF MapsOK
<1>4. Store(decisions', Calls)
  BY <1>1, MovedStore DEF MapsOK
<1> QED
  BY <1>2, <1>3, <1>4 DEF MapsOK

LEMMA MarksMove ==
    ASSUME NEW r, ReadMarks(r)
    PROVE  Moved(runMarks, runMarks', Runs) /\ Moved(sessionMarks, sessionMarks', Sessions)
  BY DEF ReadMarks, Moved

LEMMA MapsStay ==
    ASSUME NEW m, NEW keys
    PROVE  Moved(m, m, keys) /\ Moved(m, Prune(m, now), keys)
  BY DEF Moved

(* The shape of the calls, when one of them changes.                        *)
LEMMA ShapeKept ==
    ASSUME Shape, now' = now, captures' = captures, bridge' = bridge,
           retries' = retries, NEW c \in Calls, DOMAIN calls' = Calls,
           \A d \in Calls \ {c} : calls'[d] = calls[d], CallOK(calls'[c])
    PROVE  Shape'
  BY DEF Shape

Promised == HeardVerdict /\ JudgedOnOwnOrLatest

LEMMA CaptureStep ==
    ASSUME CInv, NEW p \in Prompts, CaptureTrustedIntent(p)
    PROVE  CInv' /\ Promised
<1> DEFINE r == p.run
           s == SessionOf[r]
           intents == captures' = Append(captures, [run |-> r, at |-> now])
<1>1. /\ r \in Runs /\ s \in Sessions
      /\ now' = now /\ decisions' = decisions /\ bridge' = bridge
      /\ retries' = retries /\ calls' = calls
  BY ChatAssumption DEF CaptureTrustedIntent
<1>2. \/ /\ byRun' = byRun /\ bySession' = bySession /\ captures' = captures
      \/ /\ byRun' = Put(byRun, r, r, now, TtlMs, MaxEntries)
         /\ bySession' = Put(bySession, s, r, now, TtlMs, MaxEntries)
         /\ intents
  BY DEF CaptureTrustedIntent
<1>3. /\ Moved(runMarks, runMarks', Runs) /\ Moved(sessionMarks, sessionMarks', Sessions)
      /\ Moved(decisions, decisions', Calls)
  <2>1. \/ runMarks' = runMarks
        \/ runMarks' = Put(runMarks, r, TRUE, now, TtlMs, MaxEntries)
    BY DEF CaptureTrustedIntent
  <2>2. \/ sessionMarks' = sessionMarks
        \/ sessionMarks' = Put(sessionMarks, s, TRUE, now, TtlMs, MaxEntries)
    BY DEF CaptureTrustedIntent
  <2> QED
    BY <1>1, <2>1, <2>2 DEF Moved
<1>4. Moved(byRun, byRun', Runs) /\ Moved(bySession, bySession', Sessions)
  BY <1>1, <1>2 DEF Moved
<1>5. MapsOK'
  BY <1>3, <1>4, MapsMove
<1>6. Shape'
  <2>1. now \in Nat /\ captures \in Seq([run : Runs, at : 0 .. now])
    BY DEF CInv, Shape
  <2>2. [run |-> r, at |-> now] \in [run : Runs, at : 0 .. now]
    BY <1>1, <2>1
  <2>3. captures' \in Seq([run : Runs, at : 0 .. now])
    <3>1. PICK S : S = [run : Runs, at : 0 .. now]
      OBVIOUS
    <3>2. intents => captures' \in Seq(S)
      BY <2>1, <2>2, <3>1
    <3> QED
      BY <1>2, <2>1, <3>1, <3>2
  <2> QED
    BY <1>1, <2>3 DEF CInv, Shape
<1>7. BoardOK'
  BY <1>1 DEF CInv, BoardOK, Judged, OnBoard, Lost, MayLook
<1>8. RequestsOK'
  <2>1. CASE byRun' = byRun /\ bySession' = bySession /\ captures' = captures
    <3>1. now' \in Nat /\ now' >= now
      BY <1>1 DEF CInv, Shape
    <3> QED
      BY <2>1, <3>1, Fading, RequestsKept
  <2>2. CASE /\ byRun' = Put(byRun, r, r, now, TtlMs, MaxEntries)
             /\ bySession' = Put(bySession, s, r, now, TtlMs, MaxEntries)
             /\ intents
    <3>1. now \in Nat /\ Store(byRun, Runs) /\ Store(bySession, Sessions)
      BY DEF CInv, Shape, MapsOK
    <3>2. /\ Puts(byRun, byRun', r, r, now, TtlMs, MaxEntries)
          /\ Puts(bySession, bySession', s, r, now, TtlMs, MaxEntries)
      BY <1>1, <2>2, <3>1, PutStore
    <3> HIDE DEF r
    <3> QED
      BY <1>1, <1>6, <2>2, <3>2, RequestCaptured
  <2> QED
    BY <1>2, <2>1, <2>2
<1>9. Promised
  BY <1>1 DEF Promised, HeardVerdict, JudgedOnOwnOrLatest
<1> QED
  BY <1>5, <1>6, <1>7, <1>8, <1>9 DEF CInv

LEMMA BeginsStep ==
    ASSUME CInv, NEW c \in Calls, GateBegins(c)
    PROVE  CInv' /\ Promised
<1> DEFINE r == RunOf[c]
           intent == GetStoredPrompt(r)
<1>1. /\ r \in Runs /\ ReadMarks(r) /\ calls[c].gate = "idle"
      /\ now' = now /\ decisions' = decisions /\ bridge' = bridge
      /\ retries' = retries /\ captures' = captures
  BY ChatAssumption DEF GateBegins
<1>2. \/ /\ calls' = [calls EXCEPT ![c].gate = "judging", ![c].intent = intent]
         /\ byRun' = Prune(byRun, now) /\ bySession' = Prune(bySession, now)
      \/ /\ calls' = [calls EXCEPT ![c].gate = "bypassed"]
         /\ byRun' = byRun /\ bySession' = bySession
  BY DEF GateBegins
<1>3. /\ intent \in Runs \cup {None}
      /\ (\E i \in Captured(r) :
             Recent(i) /\ Cardinality(RunsSince(i) \ {r}) < MaxEntries)
           => intent = r
      /\ intent # None =>
           \E i \in Captured(intent) :
              Recent(i) /\ (intent = r \/ LatestOf(SessionOf[r], i))
  BY <1>1, PromptIsOwn
<1> HIDE DEF intent
<1>4. /\ DOMAIN calls' = Calls /\ \A d \in Calls \ {c} : calls'[d] = calls[d]
      /\ DOMAIN calls'[c] = CallFields
      /\ calls'[c].verdict = calls[c].verdict /\ calls'[c].putAt = calls[c].putAt
      /\ calls'[c].late = calls[c].late /\ calls'[c].asked = calls[c].asked
      /\ calls'[c].looks = calls[c].looks /\ calls'[c].answer = calls[c].answer
      /\ \/ calls'[c].gate = "judging" /\ calls'[c].intent = intent
         \/ calls'[c].gate = "bypassed" /\ calls'[c].intent = calls[c].intent
  BY <1>2 DEF CInv, Shape, CallOK, CallFields
<1>5. Shape'
  <2>1. CallOK(calls'[c])
    BY <1>3, <1>4 DEF CInv, Shape, CallOK
  <2> QED
    BY <1>1, <1>4, <2>1, ShapeKept DEF CInv
<1>6. MapsOK'
  <2>1. Moved(byRun, byRun', Runs) /\ Moved(bySession, bySession', Sessions)
    BY <1>2, MapsStay
  <2> QED
    BY <1>1, <2>1, MapsStay, MarksMove, MapsMove
<1>7. RequestsOK'
  <2>1. now' \in Nat /\ now' >= now
    BY <1>1 DEF CInv, Shape
  <2>2. Fades(byRun, byRun', now, {}) /\ Fades(bySession, bySession', now, {})
    BY <1>2, Fading
  <2> QED
    BY <1>1, <2>1, <2>2, RequestsKept
<1>8. BoardOK'
  <2>1. \A d \in Calls :
          /\ calls'[d].verdict = calls[d].verdict /\ calls'[d].putAt = calls[d].putAt
          /\ calls'[d].late = calls[d].late /\ calls'[d].asked = calls[d].asked
          /\ calls'[d].looks = calls[d].looks
    BY <1>4
  <2>2. Judged' = Judged
    BY <2>1 DEF Judged
  <2>3. \A d \in Calls : Lost(d)' <=> Lost(d)
    <3> TAKE d \in Calls
    <3>1. JudgedBut(d)' = JudgedBut(d)
      BY <2>1 DEF JudgedBut
    <3> QED
      BY <1>1, <2>1, <3>1 DEF Lost, JudgedBut
  <2>4. \A d \in Calls : OnBoard(d)' <=> OnBoard(d)
    BY <1>1, <2>1 DEF OnBoard, MayLook
  <2>5. \A d \in Judged : d \in Calls
    BY DEF Judged
  <2>6. \A d \in Keys(decisions') :
          d \in Judged' /\ Lookup(decisions', d) = calls'[d].verdict
    BY <1>1, <2>1, <2>2, <2>5 DEF CInv, BoardOK
  <2> QED
    BY <2>1, <2>2, <2>3, <2>4, <2>5, <2>6 DEF CInv, BoardOK
<1>9. HeardVerdict
  <2>1. \A d \in Calls : calls'[d].answer = calls[d].answer
    BY <1>4
  <2> QED
    BY <2>1 DEF HeardVerdict
<1>10. JudgedOnOwnOrLatest
  <2>1. ASSUME NEW d \in Calls, calls[d].gate = "idle", calls'[d].gate = "judging"
        PROVE  d = c /\ calls'[d].intent = intent
    BY <1>4, <2>1
  <2> QED
    BY <1>3, <2>1 DEF JudgedOnOwnOrLatest
<1> QED
  BY <1>5, <1>6, <1>7, <1>8, <1>9, <1>10 DEF CInv, Promised

LEMMA DeliversStep ==
    ASSUME CInv, NEW c \in Calls, NEW verdict \in {"allow-once", "deny"},
           GateDelivers(c, verdict)
    PROVE  CInv' /\ Promised
<1>1. /\ now' = now /\ byRun' = byRun /\ bySession' = bySession
      /\ runMarks' = runMarks /\ sessionMarks' = sessionMarks
      /\ bridge' = bridge /\ retries' = retries /\ captures' = captures
  BY DEF GateDelivers
<1>2. /\ DOMAIN calls' = Calls /\ \A d \in Calls \ {c} : calls'[d] = calls[d]
      /\ DOMAIN calls'[c] = CallFields
      /\ calls'[c].gate = "judged" /\ calls'[c].intent = None
      /\ calls'[c].verdict = verdict /\ calls'[c].putAt \in {0, now}
      /\ calls'[c].late \in BOOLEAN /\ calls'[c].asked = calls[c].asked
      /\ calls'[c].looks = calls[c].looks /\ calls'[c].answer = calls[c].answer
  BY DEF GateDelivers, CInv, Shape, CallOK, CallFields
<1>3. Shape'
  <2>1. calls'[c].putAt \in Nat
    BY <1>2 DEF CInv, Shape
  <2>2. CallOK(calls'[c])
    BY <1>2, <2>1 DEF CInv, Shape, CallOK
  <2> QED
    BY <1>1, <1>2, <2>2, ShapeKept DEF CInv
<1>4. MapsOK'
  <2>1. Moved(decisions, decisions', Calls)
    BY DEF GateDelivers, BoardKey, Moved
  <2> QED
    BY <1>1, <2>1, MapsStay, MapsMove
<1>5. RequestsOK'
  <2>1. now' \in Nat /\ now' >= now
    BY <1>1 DEF CInv, Shape
  <2> QED
    BY <1>1, <2>1, Fading, RequestsKept
<1>6. BoardOK'
  BY <1>4, VerdictDelivered
<1>7. Promised
  <2>1. \A d \in Calls : calls'[d].answer = calls[d].answer
    BY <1>2
  <2>2. \A d \in Calls : calls'[d].gate = "judging" => calls[d].gate = "judging"
    BY <1>2
  <2> QED
    BY <2>1, <2>2 DEF Promised, HeardVerdict, JudgedOnOwnOrLatest
<1> QED
  BY <1>3, <1>4, <1>5, <1>6, <1>7 DEF CInv

(* What the bridge does with a call: an answer, or one look at the board.   *)
Asking(c) ==
    /\ DOMAIN calls' = Calls /\ \A d \in Calls \ {c} : calls'[d] = calls[d]
    /\ CallOK(calls'[c])
    /\ calls'[c].gate = calls[c].gate /\ calls'[c].verdict = calls[c].verdict
    /\ \/ calls'[c].asked = "answered"
       \/ /\ calls[c].asked # "answered" /\ ~Has(decisions, c, now)
          /\ calls'[c].putAt = calls[c].putAt /\ calls'[c].late = calls[c].late
          /\ calls'[c].answer = calls[c].answer

Heard(c, answer) ==
    /\ answer \in {"allow-once", "deny"} => answer = calls[c].verdict
    /\ answer = "unanswered" /\ calls[c].verdict # None => calls[c].late \/ Lost(c)

LEMMA AskingStep ==
    ASSUME CInv, NEW c \in Calls, Asking(c),
           calls'[c].answer # calls[c].answer => Heard(c, calls'[c].answer),
           Moved(runMarks, runMarks', Runs), Moved(sessionMarks, sessionMarks', Sessions),
           Moved(decisions, decisions', Calls), Fades(decisions, decisions', now, {c}),
           byRun' = byRun, bySession' = bySession, now' = now, captures' = captures,
           bridge' = bridge, retries' = retries
    PROVE  CInv' /\ Promised
<1>1. Shape'
  BY ShapeKept DEF Asking, CInv
<1>2. MapsOK'
  BY MapsStay, MapsMove
<1>3. now' \in Nat /\ now' >= now
  BY DEF CInv, Shape
<1>4. RequestsOK'
  BY <1>3, Fading, RequestsKept
<1>5. BoardOK'
  BY <1>3, BoardFades DEF Asking
<1>6. HeardVerdict
  <2>1. \A d \in Calls : calls'[d].answer # calls[d].answer => d = c
    BY DEF Asking
  <2> QED
    BY <2>1 DEF HeardVerdict, Heard
<1>7. JudgedOnOwnOrLatest
  <2>1. \A d \in Calls : calls'[d].gate = calls[d].gate
    BY DEF Asking
  <2> QED
    BY <2>1 DEF JudgedOnOwnOrLatest
<1> QED
  BY <1>1, <1>2, <1>4, <1>5, <1>6, <1>7 DEF CInv, Promised

LEMMA Answers ==
    ASSUME CInv, NEW c \in Calls, NEW answer, Answer(c, answer)
    PROVE  Asking(c) /\ calls'[c].answer = answer
<1>1. /\ DOMAIN calls' = Calls /\ \A d \in Calls \ {c} : calls'[d] = calls[d]
      /\ DOMAIN calls'[c] = CallFields
      /\ calls'[c].gate = calls[c].gate /\ calls'[c].intent = calls[c].intent
      /\ calls'[c].verdict = calls[c].verdict /\ calls'[c].putAt = 0
      /\ calls'[c].late = FALSE /\ calls'[c].asked = "answered"
      /\ calls'[c].looks = 0 /\ calls'[c].answer = answer
  BY DEF Answer, CInv, Shape, CallOK, CallFields
<1>2. 0 \in 0 .. PollAttempts
  BY ChatAssumption
<1>3. CallOK(calls[c]) /\ calls'[c].putAt \in Nat /\ calls'[c].late \in BOOLEAN
  <2>1. CallOK(calls[c])
    BY DEF CInv, Shape
  <2>2. calls'[c].putAt \in Nat
    BY <1>1
  <2>3. calls'[c].late \in BOOLEAN
    BY <1>1, Zenon
  <2> QED
    BY <2>1, <2>2, <2>3
<1>4. CallOK(calls'[c])
  BY <1>1, <1>2, <1>3 DEF CallOK
<1> QED
  BY <1>1, <1>4 DEF Asking

LEMMA Looks ==
    ASSUME CInv, NEW c \in Calls, NEW looks \in 0 .. PollAttempts, Look(c, looks),
           calls[c].asked # "answered"
    PROVE  /\ Asking(c)
           /\ calls'[c].answer # calls[c].answer => Heard(c, calls'[c].answer)
           /\ Moved(decisions, decisions', Calls) /\ Fades(decisions, decisions', now, {c})
<1>1. decisions' = Without(Prune(decisions, now), c)
  BY DEF Look, BoardKey
<1>2. Moved(decisions, decisions', Calls) /\ Fades(decisions, decisions', now, {c})
  BY <1>1, Fading DEF Moved
<1>3. CASE Has(decisions, c, now)
  <2>1. Answer(c, Lookup(decisions, c))
    BY <1>3 DEF Look, BoardKey
  <2>2. Asking(c) /\ calls'[c].answer = Lookup(decisions, c)
    BY <2>1, Answers
  <2>3. c \in Judged /\ Lookup(decisions, c) = calls[c].verdict
    BY <1>3 DEF Has, CInv, BoardOK
  <2>4. calls[c].verdict \in {"allow-once", "deny"}
    BY <2>3 DEF Judged, CInv, Shape, CallOK
  <2> QED
    BY <1>2, <2>2, <2>3, <2>4 DEF Heard
<1>4. CASE ~Has(decisions, c, now)
  <2>1. calls' = [calls EXCEPT ![c].asked = "waiting", ![c].looks = looks]
    BY <1>4 DEF Look, BoardKey
  <2>2. /\ DOMAIN calls' = Calls /\ \A d \in Calls \ {c} : calls'[d] = calls[d]
        /\ DOMAIN calls'[c] = CallFields
        /\ calls'[c].gate = calls[c].gate /\ calls'[c].intent = calls[c].intent
        /\ calls'[c].verdict = calls[c].verdict /\ calls'[c].putAt = calls[c].putAt
        /\ calls'[c].late = calls[c].late /\ calls'[c].asked = "waiting"
        /\ calls'[c].looks = looks /\ calls'[c].answer = calls[c].answer
    BY <2>1 DEF CInv, Shape, CallOK, CallFields
  <2>3. CallOK(calls'[c])
    BY <2>2 DEF CInv, Shape, CallOK
  <2> QED
    BY <1>2, <1>4, <2>2, <2>3 DEF Asking
<1> QED
  BY <1>3, <1>4

LEMMA ApprovalStep ==
    ASSUME CInv, NEW c \in Calls, NEW identified \in BOOLEAN,
           RequestApproval(c, identified)
    PROVE  CInv' /\ Promised
<1>1. /\ calls[c].asked = "no" /\ byRun' = byRun /\ bySession' = bySession
      /\ now' = now /\ captures' = captures /\ bridge' = bridge /\ retries' = retries
  BY DEF RequestApproval, stores
<1>2. Moved(runMarks, runMarks', Runs) /\ Moved(sessionMarks, sessionMarks', Sessions)
  <2>1. CASE ReadMarks(RunOf[c])
    BY <2>1, MarksMove
  <2>2. CASE runMarks' = runMarks /\ sessionMarks' = sessionMarks
    BY <2>2, MapsStay
  <2> QED
    BY <2>1, <2>2 DEF RequestApproval, stores
<1>3. \/ \E answer \in {"human", "unidentified"} : Answer(c, answer) /\ decisions' = decisions
      \/ Look(c, 1)
  BY DEF RequestApproval, stores
<1>4. CASE \E answer \in {"human", "unidentified"} :
             Answer(c, answer) /\ decisions' = decisions
  <2>1. PICK answer \in {"human", "unidentified"} :
               Answer(c, answer) /\ decisions' = decisions
    BY <1>4
  <2>2. Asking(c) /\ calls'[c].answer = answer
    BY <2>1, Answers
  <2>3. Heard(c, answer)
    BY DEF Heard
  <2>4. Moved(decisions, decisions', Calls) /\ Fades(decisions, decisions', now, {c})
    BY <2>1, MapsStay, Fading
  <2> QED
    BY <1>1, <1>2, <2>2, <2>3, <2>4, AskingStep
<1>5. CASE Look(c, 1)
  <2>1. 1 \in 0 .. PollAttempts
    BY ChatAssumption
  <2>2. /\ Asking(c)
        /\ calls'[c].answer # calls[c].answer => Heard(c, calls'[c].answer)
        /\ Moved(decisions, decisions', Calls) /\ Fades(decisions, decisions', now, {c})
    BY <1>1, <1>5, <2>1, Looks
  <2> QED
    BY <1>1, <1>2, <2>2, AskingStep
<1> QED
  BY <1>3, <1>4, <1>5

(* The last sleep is over: what was put before the last look is not on the  *)
(* board any more, for OnBoard has a look to come.                          *)
LEMMA PollStep ==
    ASSUME CInv, NEW c \in Calls, PollAgain(c)
    PROVE  CInv' /\ Promised
<1>1. /\ calls[c].asked = "waiting" /\ byRun' = byRun /\ bySession' = bySession
      /\ runMarks' = runMarks /\ sessionMarks' = sessionMarks
      /\ now' = now /\ captures' = captures /\ bridge' = bridge /\ retries' = retries
  BY DEF PollAgain
<1>2. Moved(runMarks, runMarks', Runs) /\ Moved(sessionMarks, sessionMarks', Sessions)
  BY <1>1, MapsStay
<1>3. CASE MayLook(c)
  <2>1. Look(c, calls[c].looks + 1)
    BY <1>3 DEF PollAgain
  <2>2. calls[c].looks + 1 \in 0 .. PollAttempts
    BY <1>3, ChatAssumption DEF MayLook, CInv, Shape, CallOK
  <2>3. /\ Asking(c)
        /\ calls'[c].answer # calls[c].answer => Heard(c, calls'[c].answer)
        /\ Moved(decisions, decisions', Calls) /\ Fades(decisions, decisions', now, {c})
    BY <1>1, <2>1, <2>2, Looks
  <2> QED
    BY <1>1, <1>2, <2>3, AskingStep
<1>4. CASE ~MayLook(c)
  <2>1. Answer(c, "unanswered") /\ decisions' = decisions
    BY <1>4 DEF PollAgain
  <2>2. Asking(c) /\ calls'[c].answer = "unanswered"
    BY <2>1, Answers
  <2>3. Heard(c, "unanswered")
    <3>1. SUFFICES ASSUME calls[c].verdict # None, ~calls[c].late
                   PROVE  Lost(c)
      BY DEF Heard
    <3>2. OnBoard(c) \/ Lost(c)
      BY <1>1, <3>1 DEF Judged, CInv, BoardOK
    <3> QED
      BY <1>1, <1>4, <3>2 DEF OnBoard
  <2>4. Moved(decisions, decisions', Calls) /\ Fades(decisions, decisions', now, {c})
    BY <2>1, MapsStay, Fading
  <2> QED
    BY <1>1, <1>2, <2>2, <2>3, <2>4, AskingStep
<1> QED
  BY <1>3, <1>4

(* The bridge comes and is wrapped, or the clock moves.                     *)
LEMMA QuietStep ==
    ASSUME CInv, stores' = stores, calls' = calls, captures' = captures,
           bridge' \in {"absent", "plain", "wrapped"}, retries' \in 0 .. AttachAttempts,
           now' \in Nat, now' >= now
    PROVE  CInv' /\ Promised
<1>1. /\ byRun' = byRun /\ bySession' = bySession /\ runMarks' = runMarks
      /\ sessionMarks' = sessionMarks /\ decisions' = decisions
  BY DEF stores
<1>2. Shape'
  <2>1. captures \in Seq([run : Runs, at : 0 .. now]) /\ now \in Nat
    BY DEF CInv, Shape
  <2>2. [run : Runs, at : 0 .. now] \subseteq [run : Runs, at : 0 .. now']
    BY <2>1
  <2>3. captures \in Seq([run : Runs, at : 0 .. now'])
    <3>1. PICK S, T : /\ S = [run : Runs, at : 0 .. now]
                      /\ T = [run : Runs, at : 0 .. now']
      OBVIOUS
    <3>2. captures \in Seq(S) /\ S \subseteq T
      BY <2>1, <2>2, <3>1
    <3>3. captures \in Seq(T)
      BY <3>2
    <3> QED
      BY <3>1, <3>3
  <2> QED
    BY <2>3 DEF CInv, Shape
<1>3. MapsOK'
  BY <1>1 DEF CInv, MapsOK
<1>4. RequestsOK'
  BY <1>1, Fading, RequestsKept
<1>5. BoardOK'
  <2>1. Judged' = Judged /\ \A d \in Calls : OnBoard(d)' <=> OnBoard(d)
    BY <1>1 DEF Judged, OnBoard, MayLook
  <2>2. ASSUME NEW d \in Calls, Lost(d)
        PROVE  Lost(d)'
    <3>1. now \in Nat /\ TtlMs \in Nat /\ calls[d].putAt \in Nat
      BY ChatAssumption DEF CInv, Shape, CallOK
    <3>2. now - calls[d].putAt >= TtlMs => now' - calls[d].putAt >= TtlMs
      BY <3>1
    <3> QED
      BY <2>2, <3>2 DEF Lost
  <2>3. \A d \in Judged : d \in Calls
    BY DEF Judged
  <2> QED
    BY <1>1, <2>1, <2>2, <2>3 DEF CInv, BoardOK
<1>6. Promised
  BY DEF Promised, HeardVerdict, JudgedOnOwnOrLatest
<1> QED
  BY <1>2, <1>3, <1>4, <1>5, <1>6 DEF CInv

LEMMA ChatStep == CInv /\ [Next]_chatvars => CInv' /\ Promised
<1> SUFFICES ASSUME CInv, [Next]_chatvars
             PROVE  CInv' /\ Promised
  OBVIOUS
<1>1. /\ now \in Nat /\ bridge \in {"absent", "plain", "wrapped"}
      /\ retries \in 0 .. AttachAttempts /\ AttachAttempts \in Nat
  BY ChatAssumption DEF CInv, Shape
<1>2. CASE \E p \in Prompts : CaptureTrustedIntent(p)
  BY <1>2, CaptureStep
<1>3. CASE \E c \in Calls : GateBegins(c)
  BY <1>3, BeginsStep
<1>4. CASE \E c \in Calls, verdict \in {"allow-once", "deny"} : GateDelivers(c, verdict)
  BY <1>4, DeliversStep
<1>5. CASE \E c \in Calls, identified \in BOOLEAN : RequestApproval(c, identified)
  BY <1>5, ApprovalStep
<1>6. CASE \E c \in Calls : PollAgain(c)
  BY <1>6, PollStep
<1>7. CASE AttachTimer
  <2>1. bridge' \in {"absent", "plain", "wrapped"} /\ retries' \in 0 .. AttachAttempts
    BY <1>1, <1>7 DEF AttachTimer, Attached
  <2> QED
    BY <1>1, <1>7, <2>1, QuietStep DEF AttachTimer
<1>8. CASE Register
  <2>1. bridge' \in {"absent", "plain", "wrapped"} /\ retries' \in 0 .. AttachAttempts
    BY <1>1, <1>8 DEF Register, Attached
  <2> QED
    BY <1>1, <1>8, <2>1, QuietStep DEF Register
<1>9. CASE GatewayRegisters
  BY <1>1, <1>9, QuietStep DEF GatewayRegisters
<1>10. CASE ClockAdvance
  BY <1>1, <1>10, QuietStep DEF ClockAdvance
<1>11. CASE UNCHANGED chatvars
  BY <1>1, <1>11, QuietStep DEF chatvars
<1> QED
  BY <1>2, <1>3, <1>4, <1>5, <1>6, <1>7, <1>8, <1>9, <1>10, <1>11 DEF Next

-----------------------------------------------------------------------------
(* The inductive invariant holds of every behaviour.                        *)
THEOREM ChatSound == Spec => []CInv
<1> QED
  BY ChatInit, ChatStep, PTL DEF Spec

(* The maps stay within their bound, in an order of insertion, and calls    *)
(* have the shape of the code: the stores of src/context-store.js and       *)
(* src/autoapprove-store.js, however they fill and expire.                  *)
THEOREM ChatTypeCorrect == Spec => []TypeOK
<1>1. CInv => TypeOK
  BY DEF CInv, Shape, MapsOK, Store, CallOK, TypeOK
<1> QED
  BY <1>1, ChatSound, PTL

(* The gateway hears the verdict on the call it asks about; an approval     *)
(* fails open without one only when there is none, when it was put after    *)
(* the last look (waitForBridgeDecision) or was lost to age or to other     *)
(* verdicts (putDecision).                                                  *)
THEOREM HearsVerdicts == Spec => VerdictIsHeard
<1>1. CInv /\ [Next]_chatvars => [HeardVerdict]_chatvars
  BY ChatStep DEF Promised
<1> QED
  BY <1>1, ChatSound, PTL DEF Spec, VerdictIsHeard

(* A call is judged on its own run's request while that is kept, and        *)
(* otherwise on none or the latest of its chat; never on another session's, *)
(* on one a later request of the chat replaced, or on one older than TtlMs  *)
(* (getStoredPrompt and the put of src/context-store.js).                   *)
THEOREM JudgesOwnOrLatest == Spec => IntentIsOwnOrLatest
<1>1. CInv /\ [Next]_chatvars => [JudgedOnOwnOrLatest]_chatvars
  BY ChatStep DEF Promised
<1> QED
  BY <1>1, ChatSound, PTL DEF Spec, IntentIsOwnOrLatest
=============================================================================
