------------------------------ MODULE ReadCache ------------------------------
(***************************************************************************)
(* The management read cache of src/go/read_cache.go and the requests that  *)
(* go through cachedRead: one flight per key, waiters that try again, a     *)
(* generation that clear() advances, expiry, and eviction by age and size.  *)
(* Data versions stand for the database: commits advance it, and only some  *)
(* of them (prices, settings, restore, cleanup) clear the cache afterwards. *)
(***************************************************************************)
EXTENDS Naturals, Sequences, FiniteSets, SequencesExt

CONSTANTS
    Readers,     \* GET requests, each of one cacheable response
    Writers,     \* requests and cleanups that commit and then clear the cache
    Keys,        \* request URLs
    Sizes,       \* sizes a response body may have
    MaxItems,    \* managementReadCacheItems
    MaxBytes,    \* managementReadCacheBytes
    MaxVersion,  \* bound on commits
    None

ASSUME CacheAssumption ==
    /\ None \notin Readers
    /\ Sizes \subseteq Nat \ {0}
    /\ MaxItems \in Nat \ {0} /\ MaxBytes \in Nat \ {0} /\ MaxVersion \in Nat

VARIABLES
    rpc,         \* where each request is in cachedRead
    key,         \* what it asks for
    gen,         \* the generation its flight began in
    leader,      \* the request whose flight it waits for
    reply,       \* what it loaded or was given
    floor,       \* (history) the version published when it began
    order,       \* keys of c.entries, least recently accessed first
    body,        \* c.entries[key].body
    expired,     \* keys whose entry is older than the TTL
    bytes,       \* c.bytes
    inflight,    \* c.inflight: the request loading each key
    generation,  \* c.generation
    version,     \* committed state of the database
    published,   \* (history) the version whose commit was last followed by clear()
    wpc          \* where each writer is

readerVars == <<rpc, key, gen, leader, reply, floor>>
cacheVars  == <<order, body, expired, bytes, inflight, generation>>
dataVars   == <<version, published, wpc>>
vars == <<readerVars, cacheVars, dataVars>>

NoReply == [version |-> 0, size |-> 0]   \* an error, or nothing yet
Cached == ToSet(order)

Init ==
    /\ rpc = [r \in Readers |-> "idle"]
    /\ key = [r \in Readers |-> None]
    /\ gen = [r \in Readers |-> 0]
    /\ leader = [r \in Readers |-> None]
    /\ reply = [r \in Readers |-> NoReply]
    /\ floor = [r \in Readers |-> 0]
    /\ order = <<>>
    /\ body = [k \in Keys |-> NoReply]
    /\ expired = {}
    /\ bytes = 0
    /\ inflight = [k \in Keys |-> None]
    /\ generation = 0
    /\ version = 1 /\ published = 1
    /\ wpc = [w \in Writers |-> "idle"]
-----------------------------------------------------------------------------
(* Entries. Callers hold c.mu, so each operation is one step.               *)

\* order has a key at most once.
Without(k) ==
    IF k \in Cached THEN RemoveAt(order, CHOOSE i \in DOMAIN order : order[i] = k) ELSE order

\* The bytes of the bodies of a sequence of different keys, one by one, and their number.
BytesOf(keys, bodies) == UNION {{k} \X (1..bodies[k].size) : k \in ToSet(keys)}
Weight(keys, bodies) == Cardinality(BytesOf(keys, bodies))
Fits(keys, bodies) == Len(keys) <= MaxItems /\ Weight(keys, bodies) <= MaxBytes

\* Mutant of Remove1: the deadline outlives its entry.
RemoveBody(k) ==
    /\ order' = Without(k)
    /\ body' = [body EXCEPT ![k] = NoReply]
    /\ bytes' = bytes - body[k].size
    /\ UNCHANGED expired

\* removeLocked
Remove1(k) ==
    /\ order' = Without(k)
    /\ body' = [body EXCEPT ![k] = NoReply]
    /\ expired' = expired \ {k}
    /\ bytes' = bytes - body[k].size

\* Mutant of Evictions: the oldest entry at most, an "if" for the "for".
EvictOne(keys, bodies) == IF Fits(keys, bodies) THEN 0 ELSE 1

\* The oldest entries evictOldestLocked removes before the others fit.
Evictions(keys, bodies) ==
    CHOOSE n \in 0..Len(keys) :
        /\ Fits(SubSeq(keys, n + 1, Len(keys)), bodies)
        /\ \A m \in 0..(n - 1) : ~Fits(SubSeq(keys, m + 1, Len(keys)), bodies)

\* setOwnedLocked
Insert(k, b) ==
    LET keys   == Append(Without(k), k)
        bodies == [body EXCEPT ![k] = b]
        n      == Evictions(keys, bodies)
        gone   == ToSet(SubSeq(keys, 1, n))
    IN  /\ order' = SubSeq(keys, n + 1, Len(keys))
        /\ body' = [x \in Keys |-> IF x \in gone THEN NoReply ELSE bodies[x]]
        /\ expired' = expired \ (gone \cup {k})
        /\ bytes' = bytes - body[k].size + b.size - Weight(SubSeq(keys, 1, n), bodies)

\* The look-up of acquire drops an expired entry.
DropExpired(k) ==
    IF k \in expired THEN Remove1(k) ELSE UNCHANGED <<order, body, expired, bytes>>
-----------------------------------------------------------------------------
(* cachedRead.                                                              *)

Start(r, k) ==
    /\ rpc[r] = "idle"
    /\ rpc' = [rpc EXCEPT ![r] = "acquire"]
    /\ key' = [key EXCEPT ![r] = k]
    /\ floor' = [floor EXCEPT ![r] = published]
    /\ UNCHANGED <<gen, leader, reply, cacheVars, dataVars>>

Hit(r) ==
    /\ rpc[r] = "acquire" /\ key[r] \in Cached \ expired
    /\ order' = Append(Without(key[r]), key[r])
    /\ reply' = [reply EXCEPT ![r] = body[key[r]]]
    /\ rpc' = [rpc EXCEPT ![r] = "done"]
    /\ UNCHANGED <<key, gen, leader, floor, body, expired, bytes, inflight, generation,
                   dataVars>>

\* Somebody loads this key already: wait until that flight is done.
Join(r) ==
    /\ rpc[r] = "acquire" /\ key[r] \notin Cached \ expired
    /\ inflight[key[r]] # None
    /\ DropExpired(key[r])
    /\ leader' = [leader EXCEPT ![r] = inflight[key[r]]]
    /\ rpc' = [rpc EXCEPT ![r] = "wait"]
    /\ UNCHANGED <<key, gen, reply, floor, inflight, generation, dataVars>>

\* Mutant of Lead: a second flight for a key that has one.
LeadRegardless(r) ==
    /\ rpc[r] = "acquire" /\ key[r] \notin Cached \ expired
    /\ DropExpired(key[r])
    /\ inflight' = [inflight EXCEPT ![key[r]] = r]
    /\ gen' = [gen EXCEPT ![r] = generation]
    /\ rpc' = [rpc EXCEPT ![r] = "load"]
    /\ UNCHANGED <<key, leader, reply, floor, generation, dataVars>>

Lead(r) ==
    /\ rpc[r] = "acquire" /\ key[r] \notin Cached \ expired
    /\ inflight[key[r]] = None
    /\ DropExpired(key[r])
    /\ inflight' = [inflight EXCEPT ![key[r]] = r]
    /\ gen' = [gen EXCEPT ![r] = generation]
    /\ rpc' = [rpc EXCEPT ![r] = "load"]
    /\ UNCHANGED <<key, leader, reply, floor, generation, dataVars>>

\* load(): the query, or a response that cannot be cached.
Query(r) ==
    /\ rpc[r] = "load"
    /\ \/ \E n \in Sizes : reply' = [reply EXCEPT ![r] = [version |-> version, size |-> n]]
       \/ UNCHANGED reply
    /\ rpc' = [rpc EXCEPT ![r] = "finish"]
    /\ UNCHANGED <<key, gen, leader, floor, cacheVars, dataVars>>

Cacheable(b) == b # NoReply /\ b.size <= MaxBytes

\* Mutant of Finish: the generation is not compared.
FinishAnyGeneration(r) ==
    /\ rpc[r] = "finish"
    /\ IF Cacheable(reply[r])
       THEN Insert(key[r], reply[r])
       ELSE UNCHANGED <<order, body, expired, bytes>>
    /\ inflight' = [inflight EXCEPT ![key[r]] = None]
    /\ rpc' = [rpc EXCEPT ![r] = "done"]
    /\ UNCHANGED <<key, gen, leader, reply, floor, generation, dataVars>>

\* Mutant of Finish: a response that is not stored leaves its flight in the map.
FinishStoredOnly(r) ==
    /\ rpc[r] = "finish"
    /\ IF Cacheable(reply[r]) /\ generation = gen[r]
       THEN Insert(key[r], reply[r]) /\ inflight' = [inflight EXCEPT ![key[r]] = None]
       ELSE UNCHANGED <<order, body, expired, bytes, inflight>>
    /\ rpc' = [rpc EXCEPT ![r] = "done"]
    /\ UNCHANGED <<key, gen, leader, reply, floor, generation, dataVars>>

\* finish: store unless the cache was cleared since acquire, close the flight.
Finish(r) ==
    /\ rpc[r] = "finish"
    /\ IF Cacheable(reply[r]) /\ generation = gen[r]
       THEN Insert(key[r], reply[r])
       ELSE UNCHANGED <<order, body, expired, bytes>>
    /\ inflight' = [inflight EXCEPT ![key[r]] = None]
    /\ rpc' = [rpc EXCEPT ![r] = "done"]
    /\ UNCHANGED <<key, gen, leader, reply, floor, generation, dataVars>>

\* The flight's channel is closed: look again.
Wake(r) ==
    /\ rpc[r] = "wait" /\ rpc[leader[r]] = "done"
    /\ rpc' = [rpc EXCEPT ![r] = "acquire"]
    /\ leader' = [leader EXCEPT ![r] = None]
    /\ UNCHANGED <<key, gen, reply, floor, cacheVars, dataVars>>

\* Time passes: an entry reaches expiresAt.
Expire(k) ==
    /\ k \in Cached \ expired
    /\ expired' = expired \cup {k}
    /\ UNCHANGED <<readerVars, order, body, bytes, inflight, generation, dataVars>>
-----------------------------------------------------------------------------
(* Changes of the data.                                                     *)

\* A usage batch commits; readers may see it up to a TTL later.
Ingest ==
    /\ version < MaxVersion
    /\ version' = version + 1
    /\ UNCHANGED <<readerVars, cacheVars, published, wpc>>

\* Prices, settings, a restore or a cleanup commit ...
Commit(w) ==
    /\ wpc[w] = "idle" /\ version < MaxVersion
    /\ version' = version + 1
    /\ wpc' = [wpc EXCEPT ![w] = "committed"]
    /\ UNCHANGED <<readerVars, cacheVars, published>>

\* ... and then clear the cache.
Clear(w) ==
    /\ wpc[w] = "committed"
    /\ order' = <<>>
    /\ body' = [k \in Keys |-> NoReply]
    /\ expired' = {}
    /\ bytes' = 0
    /\ generation' = generation + 1
    /\ wpc' = [wpc EXCEPT ![w] = "done"]
    /\ published' = version
    /\ UNCHANGED <<readerVars, inflight, version>>
-----------------------------------------------------------------------------
Read(r) == Hit(r) \/ Join(r) \/ Lead(r) \/ Query(r) \/ Finish(r) \/ Wake(r)

Finished ==
    /\ \A r \in Readers : rpc[r] = "done"
    /\ UNCHANGED vars

Next ==
    \/ \E r \in Readers : Read(r) \/ \E k \in Keys : Start(r, k)
    \/ \E k \in Keys : Expire(k)
    \/ \E w \in Writers : Commit(w) \/ Clear(w)
    \/ Ingest
    \/ Finished

Spec == Init /\ [][Next]_vars
-----------------------------------------------------------------------------
(* Properties.                                                              *)

\* Requests, entries and counters stay in their domains.
TypeOK ==
    /\ rpc \in [Readers -> {"idle", "acquire", "wait", "load", "finish", "done"}]
    /\ key \in [Readers -> Keys \cup {None}]
    /\ leader \in [Readers -> Readers \cup {None}]
    /\ order \in Seq(Keys) /\ expired \subseteq Cached
    /\ inflight \in [Keys -> Readers \cup {None}]
    /\ bytes \in Nat

\* c.bytes is the total of the stored bodies through insertion, replacement,
\* expiry, eviction and clear, and neither limit is exceeded (read_cache.go:72-91).
WithinLimits ==
    /\ bytes = Weight(order, body)
    /\ Len(order) <= MaxItems /\ bytes <= MaxBytes
    /\ \A i, j \in 1..Len(order) : order[i] = order[j] => i = j

\* At most one request loads a key, and no entry of that key is served meanwhile
\* (read_cache.go:94-112), whatever expires or is cleared during the load; so a
\* flight is always its loader's own and the early return of finish is never taken.
SingleFlight ==
    /\ \A r \in Readers : rpc[r] \in {"load", "finish"} => inflight[key[r]] = r
    /\ \A r, s \in Readers :
          rpc[r] \in {"load", "finish"} /\ rpc[s] \in {"load", "finish"} /\ key[r] = key[s]
              => r = s
    /\ \A k \in Keys : inflight[k] # None => k \notin Cached

\* A request that begins after clear() never gets a response older than the commit
\* that clear() followed, not even from a load that was under way (:120-122).
FreshAfterClear ==
    \A r \in Readers :
        rpc[r] = "done" /\ reply[r] # NoReply => reply[r].version >= floor[r]

\* A flight has a loader on its way to close it, and whoever waits does so for the flight of
\* such a loader of the same key or for one closed since: no failed, oversized or outdated
\* load leaves a key on which every later request waits for ever (read_cache.go:175-196).
EveryFlightLands ==
    LET Lands(r, k) == rpc[r] \in {"load", "finish"} /\ key[r] = k
    IN  /\ \A k \in Keys : inflight[k] # None => Lands(inflight[k], k)
        /\ \A r \in Readers : rpc[r] = "wait" =>
              Lands(leader[r], key[r]) \/ (rpc[leader[r]] = "done" /\ key[leader[r]] = key[r])

\* A flight is one load of its key, from its start to a close that reaches every waiter.
FlightsAreSound == SingleFlight /\ EveryFlightLands
=============================================================================
