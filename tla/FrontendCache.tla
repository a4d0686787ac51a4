--------------------------- MODULE FrontendCache ---------------------------
(***************************************************************************)
(* The cache of GET responses in the dashboard (cached() in app.js): a Map *)
(* in memory in front of entries in sessionStorage, which outlives a reload*)
(* of the page.  Entries carry an expiry, are keyed by management key and  *)
(* request, and the Map evicts its oldest entry.  A page load that comes to *)
(* its end uses the earliest expiry it met to time the next automatic      *)
(* refresh; one that fails is repeated after a fixed delay.  What the timer*)
(* does when it fires, and is busy, is in PageLoads.                       *)
(*                                                                         *)
(* cacheScope() hashes the key to 32 bits; the model takes the hash to be  *)
(* free of collisions, so an entry is keyed by the key itself.             *)
(***************************************************************************)
EXTENDS Integers, Sequences, FiniteSets, SequencesExt

CONSTANTS
    Keys, NoKey,  \* management keys, and none
    Paths,        \* the requests that go through cached(), range and filters included
    TTL,          \* FRONTEND_CACHE_TTL_MS, in ticks
    AutoRefresh,  \* AUTO_REFRESH_MS, in ticks
    RetryDelay,   \* the delay after a load that did not complete, in ticks
    MaxItems,     \* FRONTEND_CACHE_MAX_ITEMS
    MaxFlights,   \* bound on concurrent requests
    MaxTime,      \* bound on the clock
    MaxClears     \* bound on clears

ASSUME CacheAssumption ==
    /\ NoKey \notin Keys
    /\ {TTL, AutoRefresh, RetryDelay, MaxItems, MaxTime} \subseteq Nat \ {0}
    /\ {MaxFlights, MaxClears} \subseteq Nat

VARIABLES
    key,       \* state.managementKey
    mem,       \* state.cache, in insertion order
    session,   \* the entries in sessionStorage
    full,      \* sessionStorage.setItem throws (quota)
    flights,   \* requests under way: [k, path, owner]
    now, clears,
    loading,   \* a page load is under way
    completed, \* the last load to end came to its end
    opening,   \* the load init() awaits: awaited, superseded by another, or over
    deadline,  \* state.refreshDeadline
    timerAt,   \* due time of the timer
    used,      \* expiries of what the last page load has met, since the last clear
    served     \* the last entry that answered a call from the cache

loadVars == <<loading, completed, opening, timerAt>>
vars == <<key, mem, session, full, flights, now, clears, loadVars, deadline, used, served>>

NoTime == -1
CacheKey == (Keys \cup {NoKey}) \X Paths
\* owner and epoch are history: the key sent with the request, the clears before it was stored.
Entry == [k : CacheKey, exp : Nat, owner : Keys, epoch : Nat]
Held(store, k) == \E e \in store : e.k = k
Get(store, k) == CHOOSE e \in store : e.k = k
Without(store, k) == {e \in store : e.k # k}
\* The Map has an entry of a key at most once.
MemWithout(k) == RemoveAt(mem, CHOOSE i \in DOMAIN mem : mem[i].k = k)
Live(e) == e.exp > now

TrackCacheExpiryLatest(exp) == IF deadline = 0 \/ exp > deadline THEN exp ELSE deadline
TrackCacheExpiry(exp) == IF deadline = 0 \/ exp < deadline THEN exp ELSE deadline

Init ==
    /\ key \in Keys \cup {NoKey}
    /\ mem = <<>> /\ session = {} /\ full \in BOOLEAN
    /\ flights = {} /\ now = 1 /\ clears = 0
    /\ loading = TRUE /\ completed = FALSE /\ opening = "awaited"
    /\ deadline = 0 /\ timerAt = NoTime /\ used = {}
    /\ served = {}

clockVars == <<full, now, clears>>

\* The entry answers the call; served remembers it with the moment and the key.
Serve(e) ==
    /\ served' = {[entry |-> e, at |-> now, key |-> key, clears |-> clears]}
    /\ deadline' = TrackCacheExpiry(e.exp)
    /\ used' = IF loading THEN used \cup {e.exp} ELSE used

Fetch(p) ==
    /\ Cardinality(flights) < MaxFlights
    /\ flights' = flights \cup {[k |-> <<key, p>>, path |-> p, owner |-> key]}
    /\ UNCHANGED <<deadline, used, served>>

\* cached(): an entry of the Map.
LookupMem(p, force) ==
    LET k == <<key, p>> IN
    /\ key # NoKey /\ Held(ToSet(mem), k)
    /\ LET e == Get(ToSet(mem), k) IN
       IF ~force /\ Live(e)
       THEN Serve(e) /\ UNCHANGED <<mem, session, flights>>
       ELSE Fetch(p) /\ mem' = MemWithout(k) /\ session' = Without(session, k)
    /\ UNCHANGED <<key, clockVars, loadVars>>

\* cached(): none in the Map; a forced call does not look into sessionStorage.
LookupSession(p, force) ==
    LET k == <<key, p>> IN
    /\ key # NoKey /\ ~Held(ToSet(mem), k)
    /\ IF ~force /\ Held(session, k)
       THEN LET e == Get(session, k) IN
            IF Live(e)
            THEN Serve(e) /\ mem' = Append(mem, e) /\ UNCHANGED <<session, flights>>
            ELSE Fetch(p) /\ session' = Without(session, k) /\ UNCHANGED mem
       ELSE Fetch(p) /\ UNCHANGED <<mem, session>>
    /\ UNCHANGED <<key, clockVars, loadVars>>

-----------------------------------------------------------------------------
\* The oldest entries make room for one more, in both tiers.
Evicted == SubSeq(mem, 1, Len(mem) - MaxItems + 1)
Remaining == SubSeq(mem, Len(Evicted) + 1, Len(mem))

\* Map.set keeps the place of a key that is already there.
MapSetAppended(m, e) == Append(m, e)
MapSet(m, e) ==
    IF Held(ToSet(m), e.k)
    THEN [i \in DOMAIN m |-> IF m[i].k = e.k THEN e ELSE m[i]]
    ELSE Append(m, e)

\* cached(): the response is there.  The cache key was computed before the await.
StoredKeyNow(f) == <<key, f.path>>
StoredKey(f) == f.k

SessionAfterKeptOld(e) ==
    LET rest == session \ {s \in session : Held(ToSet(Evicted), s.k)} IN
    IF full \/ Held(rest, e.k) THEN rest ELSE rest \cup {e}
SessionAfter(e) ==
    LET rest == session \ {s \in session : Held(ToSet(Evicted), s.k)} IN
    IF full THEN rest ELSE Without(rest, e.k) \cup {e}

Answered(f) ==
    LET e == [k |-> StoredKey(f), exp |-> now + TTL, owner |-> f.owner, epoch |-> clears] IN
    /\ flights' = flights \ {f}
    /\ mem' = MapSet(Remaining, e)
    /\ session' = SessionAfter(e)
    /\ deadline' = TrackCacheExpiry(e.exp)
    /\ used' = IF loading THEN used \cup {e.exp} ELSE used
    /\ UNCHANGED <<key, clockVars, loadVars, served>>

\* An error, an abort or a navigation away from the page: nothing is stored.
Failed(f) ==
    /\ flights' = flights \ {f}
    /\ UNCHANGED <<key, mem, session, clockVars, loadVars, deadline, used, served>>

-----------------------------------------------------------------------------
\* clearFrontendCache: both tiers, every scope.
ForgetMemOnly == mem' = <<>> /\ deadline' = 0 /\ UNCHANGED session
Forget == mem' = <<>> /\ session' = {} /\ deadline' = 0

Cleared ==
    /\ clears < MaxClears
    /\ clears' = clears + 1
    /\ Forget
    /\ used' = {}
    /\ UNCHANGED <<full, flights, now, served>>

\* loadActivePage starts; the activation that was under way, if any, is aborted.
LoadBegins ==
    /\ loading' = TRUE /\ completed' = FALSE
    /\ opening' = IF opening = "awaited" THEN "superseded" ELSE opening

\* Prices or settings were saved, or a backup restored; a load may be under way.
ClearAfterSave == Cleared /\ UNCHANGED <<key, loadVars>>

\* The 401 of any request; a load under way ends when it next needs the key.
LoseKey == Cleared /\ key' = NoKey /\ UNCHANGED loadVars

\* A key is entered, and the page loads with it.
SaveKey(k) == Cleared /\ key' = k /\ LoadBegins /\ UNCHANGED timerAt

\* activateRange empties the Map only, and starts a page load.
ActivateRange ==
    /\ LoadBegins
    /\ mem' = <<>> /\ deadline' = 0 /\ used' = {}
    /\ UNCHANGED <<key, session, clockVars, flights, timerAt, served>>

\* The page is reloaded: sessionStorage stays, the key with it, and init() loads the page.
Reload ==
    /\ mem' = <<>> /\ flights' = {}
    /\ loading' = TRUE /\ completed' = FALSE /\ opening' = "awaited"
    /\ deadline' = 0 /\ timerAt' = NoTime /\ used' = {}
    /\ UNCHANGED <<key, session, clockVars, served>>

\* Any other load: navigation, the refresh button, the timer, a tab that is shown again.
StartLoad ==
    /\ LoadBegins
    /\ deadline' = 0 /\ used' = {}
    /\ UNCHANGED <<key, mem, session, clockVars, flights, timerAt, served>>

\* scheduleAutoRefresh, with a delay or by the deadline; watched: the tab is visible and the
\* settings page not open.
DueTime ==
    CASE deadline = 0   -> now + AutoRefresh
      [] deadline > now -> deadline
      [] OTHER          -> now
ScheduleAutoRefresh(watched, delay) ==
    timerAt' = IF ~watched \/ key = NoKey THEN NoTime
               ELSE IF delay # NoTime THEN now + delay ELSE DueTime

\* The newest activation returns.  When it is the one init() awaits, startAutoRefresh
\* follows at once and sets the timer by the deadline.
LoadEnds ==
    /\ loading
    /\ loading' = FALSE
    /\ opening' = IF opening = "awaited" THEN "over" ELSE opening
    /\ UNCHANGED <<key, mem, session, clockVars, flights, deadline, used, served>>

LoadCompletes(watched) ==
    /\ LoadEnds
    /\ completed' = TRUE
    /\ ScheduleAutoRefresh(watched, NoTime)

\* A request failed, the key was refused, or the load was aborted.
LoadFails(watched) ==
    /\ LoadEnds
    /\ completed' = FALSE
    /\ ScheduleAutoRefresh(watched, IF opening = "awaited" THEN NoTime ELSE RetryDelay)

\* init() goes on after its load was superseded.
StartAutoRefresh(watched) ==
    /\ opening = "superseded"
    /\ opening' = "over"
    /\ ScheduleAutoRefresh(watched, NoTime)
    /\ UNCHANGED <<key, mem, session, clockVars, flights, loading, completed, deadline,
                   used, served>>

\* The tab is hidden; the requests it aborts fail, and the load with them.
Hide ==
    /\ opening = "over"
    /\ timerAt' = NoTime
    /\ UNCHANGED <<key, mem, session, clockVars, flights, loading, completed, opening, deadline,
                   used, served>>

Tick ==
    /\ now < MaxTime
    /\ now' = now + 1
    /\ UNCHANGED <<key, mem, session, full, clears, flights, loadVars, deadline, used, served>>

Next ==
    \/ \E p \in Paths, force \in BOOLEAN : LookupMem(p, force) \/ LookupSession(p, force)
    \/ \E f \in flights : Answered(f) \/ Failed(f)
    \/ ClearAfterSave \/ LoseKey \/ (\E k \in Keys : SaveKey(k))
    \/ ActivateRange \/ Reload \/ StartLoad
    \/ \E watched \in BOOLEAN :
          LoadCompletes(watched) \/ LoadFails(watched) \/ StartAutoRefresh(watched)
    \/ Hide \/ Tick

Spec == Init /\ [][Next]_vars
-----------------------------------------------------------------------------
(* Properties. *)

TypeOK ==
    /\ key \in Keys \cup {NoKey} /\ {full, loading, completed} \subseteq BOOLEAN
    /\ opening \in {"awaited", "superseded", "over"}
    /\ ToSet(mem) \subseteq Entry /\ session \subseteq Entry
    /\ \A i, j \in DOMAIN mem : mem[i].k = mem[j].k => i = j
    /\ \A e, s \in session : e.k = s.k => e = s
    /\ now \in 1..MaxTime /\ clears \in 0..MaxClears
    /\ deadline \in Nat /\ timerAt \in Nat \cup {NoTime}

\* A call is answered from the cache only with what was received for the same key less
\* than a TTL ago, whichever tier it comes from and whatever was under way at a change
\* of key.
ServedIsOwn ==
    \A s \in served : s.entry.owner = s.key /\ s.at < s.entry.exp /\ s.entry.exp <= s.at + TTL

\* After clearFrontendCache nothing that was stored before it comes back, from neither
\* tier and not through a reload.
ClearForgets == \A s \in served : s.entry.epoch = s.clears

\* What the cache serves is well formed, of the key it is served to, alive, and stored since
\* the last clear.
ServedIsValid == TypeOK /\ ServedIsOwn /\ ClearForgets

\* As long as sessionStorage takes entries, every entry of the Map is also there, in the
\* same version: eviction, refetch and expiry never leave the tiers telling different things.
TiersAgree == ~full => ToSet(mem) \subseteq session

\* After a load that came to its end the timer is due before anything the load displays
\* expires, or at once if something already has; after one that did not, that may be put off
\* by the delay of the retry, and no longer (unless a clear came in between).
RefreshInTime ==
    ~loading /\ timerAt # NoTime =>
        \A exp \in used :
            timerAt <= exp \/ timerAt <= now + (IF completed THEN 0 ELSE RetryDelay)
=============================================================================
