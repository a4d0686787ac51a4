---------------------------- MODULE RollupStore -----------------------------
(***************************************************************************)
(* The event store and its queries (go/storage.go, go/query.go): request   *)
(* events with a rollup per minute and model beside them, written, pruned  *)
(* and restored in transactions, and the queries that answer from rollups  *)
(* for the full minutes of a range and from events for its edges.          *)
(*                                                                         *)
(* A minute has Minute milliseconds.  Requests and failures stand for all  *)
(* the sums of a row, the model for all the columns of its key.  What SQL  *)
(* computes in one statement sees one state of the database.               *)
(***************************************************************************)
EXTENDS Integers, FiniteSets, FiniteSetsExt

CONSTANTS
    Models, Minute,
    Times,               \* timestamps of events; 0 is none
    Bounds,              \* bounds of the ranges that are asked for
    Health, Slots,       \* minutes of a health bucket, number of buckets
    Trends, Weekly,      \* minutes of trend buckets, the one that stands for a week
    Offset, WeekOffset,  \* timeBucketOffset
    Sparse,              \* a trend of more minutes is not filled up
    Nows,                \* the clock of a summary
    PageSizes, MaxPage, MaxOffset,
    MaxEvents,           \* bound on stored events
    MaxId,               \* bound on events ever stored
    Windows,             \* ranges of the queries of several statements
    Idle

RollupStoreAssumption ==
    /\ {Minute, Health, Slots, MaxPage} \subseteq Nat \ {0} /\ PageSizes \subseteq Nat \ {0}
    /\ {Offset, WeekOffset, Sparse, MaxOffset, MaxEvents, MaxId} \subseteq Nat
    /\ Times \subseteq Nat \ {0} /\ Bounds \subseteq Nat /\ Trends \subseteq Nat \ {0}
    \* 15 divides 60, 360, 1440, 10080, 480 and 4320.
    /\ \A n \in Trends \cup {Offset, WeekOffset} : n % Health = 0
    /\ Nows \subseteq Nat /\ \A n \in Nows : n >= Slots * Health * Minute
    /\ \A w \in Windows : w.from \in Nat /\ w.to \in Nat /\ w.from <= w.to

VARIABLES
    events,   \* usage_events: [id, ts, model, failed]
    rollups,  \* usage_minute_rollups, by [minute, model]
    ids,      \* ids given so far
    query,    \* a query between two of its statements
    answer,   \* the last one that ended
    \* History: the events of the range stored during the whole query, and at some time.
    since, ever

vars == <<events, rollups, ids, query, answer, since, ever>>
storeVars == <<events, rollups, ids>>

Init ==
    /\ events = {} /\ rollups = [k \in {} |-> {}] /\ ids = 0
    /\ query = Idle /\ answer = Idle /\ since = {} /\ ever = {}

-----------------------------------------------------------------------------
(* Writing. *)

MinuteOf(e) == e.ts \div Minute
Key(e) == [minute |-> MinuteOf(e), model |-> e.model]
Sums(S) == [requests |-> Cardinality(S), failures |-> Cardinality({e \in S : e.failed})]
Grouped(S) == [k \in {Key(e) : e \in S} |-> Sums({e \in S : Key(e) = k})]

\* upsertRollupSQL for every event of b.  The statement inserts a row or adds to the one that
\* is there, so all events of a key together add their sums to it, in whatever order they come.
Written(r, b) ==
    [k \in DOMAIN r \cup {Key(e) : e \in b} |->
        LET old == IF k \in DOMAIN r THEN r[k] ELSE Sums({})
            new == Sums({e \in b : Key(e) = k})
        IN  [requests |-> old.requests + new.requests, failures |-> old.failures + new.failures]]

InRange(S, from, to) == {e \in S : from <= e.ts /\ e.ts <= to}
\* What happens to the rows of a query under way.
Observed ==
    IF query = Idle THEN UNCHANGED <<since, ever>>
    ELSE /\ since' = since \cap events'
         /\ ever' = ever \cup InRange(events', query.from, query.to)

Batches(n) ==
    {{[id |-> ids + i, ts |-> f[i].ts, model |-> f[i].model, failed |-> f[i].failed] : i \in 1..n} :
        f \in [1..n -> [ts : Times, model : Models, failed : BOOLEAN]]}

\* writeEventsTx of a batch, in a transaction of its own.
WriteBatch(b) ==
    /\ ids' = ids + Cardinality(b)
    /\ events' = events \cup b
    /\ rollups' = Written(rollups, b)
    /\ Observed /\ UNCHANGED <<query, answer>>

\* importBackup: both tables are emptied and written anew.
RestoreBackup(b) ==
    /\ ids' = ids + Cardinality(b)
    /\ events' = b
    /\ rollups' = Written([k \in {} |-> {}], b)
    /\ Observed /\ UNCHANGED <<query, answer>>

\* pruneEventsTx: the minute of the cutoff is built anew from what is left of it.
Younger(cutoff) == {k \in DOMAIN rollups : k.minute > cutoff \div Minute}
BoundaryKept(cutoff) ==
    [k \in {x \in DOMAIN rollups : x.minute = cutoff \div Minute} |-> rollups[k]]
Boundary(cutoff) ==
    IF cutoff % Minute = 0
    THEN [k \in {x \in DOMAIN rollups : x.minute = cutoff \div Minute} |-> rollups[k]]
    ELSE Grouped({e \in events : e.ts >= cutoff /\ MinuteOf(e) = cutoff \div Minute})
Prune(cutoff) ==
    /\ events' = {e \in events : e.ts >= cutoff}
    /\ rollups' = [k \in Younger(cutoff) \cup DOMAIN Boundary(cutoff) |->
                      IF k \in Younger(cutoff) THEN rollups[k] ELSE Boundary(cutoff)[k]]
    /\ Observed /\ UNCHANGED <<ids, query, answer>>

-----------------------------------------------------------------------------
(* Ranges. *)

\* splitAggregateRange: the full minutes, and the edges that need the events.
FullFrom(from) == from \div Minute + (IF from % Minute # 0 THEN 1 ELSE 0)
FullToWhole(to) == to \div Minute
FullTo(to) == to \div Minute - (IF to % Minute # Minute - 1 THEN 1 ELSE 0)
FullMinutes(from, to) == FullFrom(from)..FullTo(to)
Edges(from, to) ==
    IF FullFrom(from) > FullTo(to) THEN {[from |-> from, to |-> to]}
    ELSE {r \in {[from |-> from, to |-> FullFrom(from) * Minute - 1],
                 [from |-> (FullTo(to) + 1) * Minute, to |-> to]} : r.from <= r.to}
AtEdges(from, to) == {e \in events : \E r \in Edges(from, to) : r.from <= e.ts /\ e.ts <= r.to}

RowsOf(minutes) == {k \in DOMAIN rollups : k.minute \in minutes}
Requests(keys) == MapThenSumSet(LAMBDA k : rollups[k].requests, keys)
Failures(keys) == MapThenSumSet(LAMBDA k : rollups[k].failures, keys)

\* countEventsFromRollups
Count(from, to) == Requests(RowsOf(FullMinutes(from, to))) + Cardinality(AtEdges(from, to))

\* timeBucketMinute
BucketOffset(interval) == Offset + (IF interval = Weekly THEN WeekOffset ELSE 0)
TimeBucket(minute, interval) == minute - ((minute + BucketOffset(interval)) % interval)

\* chinaHealthRange, which has no edges.
HealthMinutes(now) ==
    LET end == (now \div (Health * Minute)) * Health
    IN  (end - (Slots - 1) * Health)..(end + Health - 1)

\* querySummaryAggregateRows groups the minutes of both ranges by the bucket of the
\* health grid, and moves those groups to the buckets of the trend afterwards.
KindTrendFirst(minute, from, to, now) ==
    CASE minute \in FullMinutes(from, to) -> "trend"
      [] minute \notin FullMinutes(from, to) /\ minute \in HealthMinutes(now) -> "health"
      [] OTHER -> "neither"
Kind(minute, from, to, now) ==
    CASE minute \in FullMinutes(from, to) \cap HealthMinutes(now) -> "both"
      [] minute \in FullMinutes(from, to) \ HealthMinutes(now) -> "trend"
      [] minute \in HealthMinutes(now) \ FullMinutes(from, to) -> "health"
      [] OTHER -> "neither"
GroupBucket(minute, kind, trend) == TimeBucket(minute, IF kind = "trend" THEN trend ELSE Health)
TrendBucket(minute, kind, trend) ==
    IF kind = "both" THEN TimeBucket(GroupBucket(minute, kind, trend), trend)
    ELSE GroupBucket(minute, kind, trend)

TrendRows(bucket, from, to, trend, now) ==
    {k \in DOMAIN rollups :
        LET kind == Kind(k.minute, from, to, now)
        IN  kind \in {"trend", "both"} /\ TrendBucket(k.minute, kind, trend) = bucket}
TrendEdge(bucket, from, to, trend) ==
    {e \in AtEdges(from, to) : TimeBucket(MinuteOf(e), trend) = bucket}
HealthRows(bucket, from, to, now) ==
    {k \in DOMAIN rollups :
        Kind(k.minute, from, to, now) \in {"health", "both"} /\ TimeBucket(k.minute, Health) = bucket}

\* The buckets that querySummaryAggregateRows returns, and those appendDenseTrend makes of them.
TrendBuckets(from, to, trend, now) ==
    {TrendBucket(k.minute, Kind(k.minute, from, to, now), trend) :
        k \in {x \in DOMAIN rollups : Kind(x.minute, from, to, now) \in {"trend", "both"}}}
    \cup {TimeBucket(MinuteOf(e), trend) : e \in AtEdges(from, to)}
DenseFromRange(buckets, from, to, trend, all) ==
    {b \in from \div Minute .. TimeBucket(to \div Minute, trend) : (b - from \div Minute) % trend = 0}
Dense(buckets, from, to, trend, all) ==
    LET first == TimeBucket(from \div Minute, trend)
        last == TimeBucket(to \div Minute, trend)
        sparse == all \/ last - first > Sparse
        start == IF sparse THEN Min(buckets) ELSE first
        end == IF sparse THEN Max(buckets) ELSE last
    IN  IF buckets = {} THEN {} ELSE {b \in start..end : (b - start) % trend = 0}

-----------------------------------------------------------------------------
(* Queries of several statements, between which the store may change. *)

Begin(q) ==
    /\ query = Idle /\ query' = q
    /\ since' = InRange(events, q.from, q.to) /\ ever' = since'
    /\ answer' = Idle /\ UNCHANGED storeVars
Answer(a) ==
    /\ query' = Idle /\ answer' = a
    /\ UNCHANGED <<storeVars, since, ever>>

\* queryDimension: the full minutes, then the edges.
DimensionBegins(w) ==
    Begin([kind |-> "dimension", from |-> w.from, to |-> w.to,
           sum |-> Requests(RowsOf(FullMinutes(w.from, w.to)))])
DimensionEnds ==
    /\ query # Idle /\ query.kind = "dimension"
    /\ Answer([kind |-> "requests",
               sum |-> query.sum + Cardinality(AtEdges(query.from, query.to))])

\* querySummary of all time: the first timestamp, then everything from there.
FirstTimestamp(to) ==
    LET S == {e.ts : e \in {x \in events : x.ts <= to}} IN IF S = {} THEN to ELSE Min(S)
AllBegins(w) ==
    Begin([kind |-> "all", from |-> 0, to |-> w.to, first |-> FirstTimestamp(w.to)])
AllEnds ==
    /\ query # Idle /\ query.kind = "all"
    /\ Answer([kind |-> "requests", sum |-> Count(query.first, query.to)])

\* eventPageOffset; a page that it refuses has no offset.
PageAllowed(page, size) == page <= MaxPage /\ page - 1 <= MaxOffset \div size
PageOffset(page, size) == (page - 1) * size
\* queryEvents: accessible_pages, then the rows, latest first.
AccessibleAll(total, size) ==
    Min({IF total = 0 THEN 0 ELSE (total - 1) \div size + 1, MaxPage})
AccessiblePages(total, size) ==
    Min({IF total = 0 THEN 0 ELSE (total - 1) \div size + 1, MaxPage, MaxOffset \div size + 1})
Before(e, S) == {x \in S : x.ts > e.ts \/ (x.ts = e.ts /\ x.id > e.id)}
PageRowsEarliest(S, offset, size) ==
    {e \in S : Cardinality(S) - 1 - Cardinality(Before(e, S)) \in offset..(offset + size - 1)}
PageRows(S, offset, size) ==
    {e \in S : Cardinality(Before(e, S)) >= offset /\ Cardinality(Before(e, S)) < offset + size}

EventsBegin(w, page, size) ==
    /\ PageAllowed(page, size)
    /\ Begin([kind |-> "events", from |-> w.from, to |-> w.to, page |-> page, size |-> size,
              total |-> Count(w.from, w.to)])
EventsEnd ==
    /\ query # Idle /\ query.kind = "events"
    /\ LET offset == PageOffset(query.page, query.size)
       IN  Answer([kind |-> "page", page |-> query.page, size |-> query.size, total |-> query.total,
                   rows |-> IF offset >= query.total THEN {}
                            ELSE PageRows(InRange(events, query.from, query.to), offset, query.size)])

-----------------------------------------------------------------------------
Next ==
    \/ \E n \in 1..Min({MaxId - ids, MaxEvents - Cardinality(events)}) :
          \E b \in Batches(n) : WriteBatch(b)
    \/ \E n \in 0..Min({MaxId - ids, MaxEvents}) : \E b \in Batches(n) : RestoreBackup(b)
    \/ \E cutoff \in Bounds : Prune(cutoff)
    \/ \E w \in Windows : DimensionBegins(w) \/ AllBegins(w)
                          \/ \E page \in 1..(MaxPage + 1), size \in PageSizes : EventsBegin(w, page, size)
    \/ DimensionEnds \/ AllEnds \/ EventsEnd

Spec == Init /\ [][Next]_vars

-----------------------------------------------------------------------------
(* Properties. *)

\* After any writes, restores and cleanups the rollups are the sums of the events that are
\* left, to the millisecond of the cutoff (storage.go:393), and no row without an event stays.
RollupsAreSums == rollups = Grouped(events)

\* The store moves whatever is asked, so what only depends on it is checked in the states
\* before the first query of several statements.
Quiet == query = Idle /\ answer = Idle

Pairs == {[from |-> f, to |-> t] : f \in Bounds, t \in Bounds}
RangesAsked == {r \in Pairs : r.from <= r.to}

\* The number of events counted with the help of rollups is the number of events, for every
\* range, one inside a minute or with edges in the middle of minutes (query.go:903, :1274).
CountIsExact == Quiet => \A r \in RangesAsked : Count(r.from, r.to) = Cardinality(InRange(events, r.from, r.to))

\* The bucket a timestamp belongs to: the last boundary that is not after it.
BucketOf(e, interval) ==
    Max({b \in (MinuteOf(e) - interval)..MinuteOf(e) : (b + BucketOffset(interval)) % interval = 0})

\* One statement answers for the trend and for the health grid, whose ranges overlap in any
\* way: every event of the range is in its bucket of the trend, every event of the last days
\* in its cell of the grid, and neither query takes from the other (query.go:469-610).
SummaryIsExact == Quiet =>
    \A r \in RangesAsked, trend \in Trends, now \in Nows :
        LET asked == InRange(events, r.from, r.to)
            recent == {e \in events : MinuteOf(e) \in HealthMinutes(now)}
        IN  /\ \A b \in TrendBuckets(r.from, r.to, trend, now) \cup {BucketOf(e, trend) : e \in asked} :
                  Requests(TrendRows(b, r.from, r.to, trend, now))
                      + Cardinality(TrendEdge(b, r.from, r.to, trend))
                  = Cardinality({e \in asked : BucketOf(e, trend) = b})
            /\ \A b \in {TimeBucket(k.minute, Health) : k \in DOMAIN rollups}
                         \cup {BucketOf(e, Health) : e \in recent} :
                  Failures(HealthRows(b, r.from, r.to, now))
                  = Cardinality({e \in recent : e.failed /\ BucketOf(e, Health) = b})

\* The trend that is displayed leaves no bucket out: its points add up to the totals, also
\* where all time and long ranges are not filled up with empty buckets (appendDenseTrend).
TrendAddsUp == Quiet =>
    \A r \in RangesAsked, trend \in Trends, now \in Nows, all \in BOOLEAN :
        LET buckets == TrendBuckets(r.from, r.to, trend, now)
        IN  buckets \subseteq Dense(buckets, r.from, r.to, trend, all)

\* The paging of the dashboard never offers a page that is refused, and every event within
\* the limit of the offset is on one of the pages offered (query.go:1439).
OfferedPagesWork == Quiet =>
    \A size \in PageSizes : \A total \in 0..(MaxPage * size + 1) :
        LET pages == 1..AccessiblePages(total, size)
        IN  /\ \A p \in pages : PageAllowed(p, size)
            /\ \A i \in 0..(total - 1) :
                  i <= MaxOffset /\ i < MaxPage * size =>
                      \E p \in pages : PageOffset(p, size) <= i /\ i < PageOffset(p, size) + size

\* An answer put together by several statements, with a batch, a cleanup or a restore in
\* between, counts every event of the range that was there all the time, none that was
\* never there, and none twice (query.go:247).
AnswersAreBetween ==
    answer # Idle =>
        CASE answer.kind = "requests" ->
                Cardinality(since) <= answer.sum /\ answer.sum <= Cardinality(ever)
          [] answer.kind = "page" ->
                /\ answer.rows \subseteq ever /\ Cardinality(answer.rows) <= answer.size
                /\ since = ever =>
                      /\ answer.total = Cardinality(ever)
                      /\ answer.rows = {e \in ever : Cardinality(Before(e, ever)) \div answer.size
                                                       = answer.page - 1}
=============================================================================
