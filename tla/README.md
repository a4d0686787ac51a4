# Usage Keeper in TLA+

Specifications, model-checking runs and proofs for the CLIProxyAPI usage keeper
plugin (`go/`): a Go plugin that takes usage records from its host, queues them in
memory, writes them in batches to SQLite, and serves statistics, settings, prices,
backup and restore to a dashboard that runs in the browser. Line numbers refer to the
files under `go/`; a bare number after `app.js` to `go/dashboard/app.js`.

## The system

| Component | State | Operations | Interacts with |
| --- | --- | --- | --- |
| Plugin runtime (`plugin.go`) | bounded channel, `queuedEvents`, `closed`, `done`, counters | `handleUsage`, `enqueue`, `runWriter`, `writeBatchWithRetry`, `pauseWriter`, `restoreBackup`, `prepareBackupExport`, `pruneExpired`, `close` | store, read cache, settings |
| Runtime lifecycle (`plugin.go`) | `activeRuntime`, `runtimeMu`, `runtimeTransitionMu` | `configureRuntime`, `newPluginRuntime`, `shutdownRuntime`, `currentRuntime` | every runtime, one database |
| Event store (`storage.go`) | tables `usage_events`, `usage_minute_rollups`, `plugin_settings` | `writeBatch`, `prune`, `loadIntSetting`, schema | writer, queries, backup |
| Storage metrics (`storage.go`) | snapshot, time of the last attempt, last errors | `storageStatus`, `invalidateStorageMetrics` | summary, settings |
| Read cache (`read_cache.go`) | entries, flights, generation, bytes | `acquire`, `finish`, `clear`, `cachedRead` | management requests, writer, settings, restore |
| Management (`management.go`) | none of its own | routes, `updateSettings`, `updatePrices` | everything |
| Pricing (`pricing.go`) | table `model_prices`, snapshot behind `priceMu` | `loadPriceSnapshot`, `replacePrices`, `resolvePrice`, costs | queries, backup |
| Backup (`backup.go`) | none | `readBackupEvents`, `importBackup`, CSV | runtime, pricing |
| Queries (`query.go`) | none | ranges, aggregates, trends, paging, dimensions | store, pricing |
| Decoding, privacy, config, ABI (`types.go`, `privacy.go`, `config.go`, `abi.go`, `main.go`) | none | parsing, redaction, dispatch | host |
| Dashboard loads (`dashboard/app.js`) | page, key, request ids, abort controllers, refresh timer, `pendingRequests` | `loadActivePage`, `loadEvents`, `api`, `runAutoRefresh`, `handleVisibilityChange` | management requests |
| Dashboard cache (`app.js`) | a Map and `sessionStorage`, `refreshDeadline` | `cached`, `clearFrontendCache`, `trackCacheExpiry` | loads |
| Dashboard selection (`app.js`) | filters, health lock, form, chips, banner, page of the table | submits, resets, chips, drilldowns, paging | loads, overview |
| Dashboard range, drawer, charts (`app.js`) | calendar, drawer content, animations, tooltip | form and calendar, `openUpstream`, `renderTrend`, `animateNumber` | loads |
| Dashboard prices (`app.js`) | rows of the price table, picker | edit, import, fill, pick, save, reload | PUT /prices |

What is hard in it:

* **Concurrency.** Host threads deliver records while the writer batches, a restore
  stops the writer, cleanup runs, and another thread replaces the runtime. Six locks
  (`runtimeMu`, `runtimeTransitionMu`, `queueMu`, `settingsMu`, `configMu`, `priceMu`),
  `metricsMu`, an atomic counter and a channel decide the order. In the browser there is
  one thread, but answers, timers, animation frames and clicks interleave at will.
* **Failure.** A transaction can fail cleanly, or its COMMIT can report an error after
  it was applied. Requests run out of time anywhere, also at a barrier. A management key
  is revoked while requests with it are under way.
* **Ordering.** A barrier must cut the stream of events; a response computed before a
  change must not be cached after it; two runtimes share one database for a while; an
  answer to an earlier question arrives after the answer to a later one.
* **Numbers.** Ranges in milliseconds are answered from rollups of minutes, buckets have
  offsets, a calendar converts between milliseconds and days of another time zone.

What makes each component correct: the runtime accounts for every event and never
stores one twice; a restore or export sees a clean cut; a hand-over loses nothing and
ends; a cached response is never older than the change that cleared the cache; rollups
and events agree and answers from them are exact; prices used are those confirmed; a
status that is not marked counts no row removed; the dashboard displays, marks, enables
and announces what is in force, and goes on refreshing.

## Modules

| Module | What it is |
| --- | --- |
| `UsageWriter` | one runtime: deliveries, queue, writer, barriers, cleanup, close |
| `EventLedger` | the promise of a runtime about each event, without any mechanism |
| `RuntimeHandover` | the chain of runtimes over one database, settings and restores |
| `ReadCache` | the management read cache and the requests going through it |
| `RollupStore` | events with millisecond times, rollups, ranges, trends, pages |
| `StorageStatus` | the storage metrics behind `metricsMu` |
| `PriceSnapshot` | the prices in memory behind `priceMu`, and the pool of connections |
| `StoreParts` | the three above in one state |
| `PageLoads` | page loads, detail loads, refresh timer, visibility and keys of the dashboard |
| `FrontendCache` | the two tiers of the dashboard's cache, and the due time of the refresh |
| `EventFilters` | what selects the rows of the request details |
| `RangeCalendar` | the form of the custom range |
| `DetailDrawer` | the detail drawer and its requests |
| `OverviewCharts` | animated key figures, trend chart, legend, tooltip |
| `PageParts` | the four above in one state |
| `PriceTable` | the price table of the settings page, with the server's list |
| `UsageWriterProofs` | theorems about one runtime and about the ledger, and that a runtime implements it |
| `RuntimeHandoverProofs` | theorems about the hand-over |
| `ReadCacheProofs` | theorems about the management cache |
| `StorePartsProofs` | theorems about rows, prices and metrics, each among the other parts of the store |
| `PageLoadsProofs`, `FrontendCacheProofs` | theorems about page loads and the browser's cache |
| `PagePartsProofs` | theorems about selection, calendar, drawer and charts, each among the other parts of the page |
| `PriceTableProofs` | theorems about the price table |
| `MC...` | symmetry sets and small values for TLC |

### UsageWriter

Every goroutine has a program counter whose steps are the points at which another
goroutine can interfere: `pc` for a delivery, `ppc` for a restore or export, `wpc` for
the writer, `closer` for the hand-over. Locks are not variables; an operator such as
`Readers` (holders of `queueMu.RLock`), `TransitionFree` or `SettingsFree` reads their
state off the program counters, so an action that takes a lock has it as its guard. Go's
RWMutex keeps new readers out while a writer waits: `QueueLockPending` (between the swap
of the active runtime and `close(r.queue)`, and while a call waits to send its barrier).

| Code | Actions |
| --- | --- |
| `handleUsage` | `Malformed`, `Call` |
| `enqueue` | `Enter`, `Load`, `Swap`, `Send`, `SendRefused`, `CountAccepted` |
| `runWriter` | `Receive`, `TakeEvent`, `TakeBarrier`, `LeaveBarrier`, `DrainDone`, `FlushTick`, `RetentionTick` |
| `pruneExpired`, `prune` | `PruneLock`, `Prune` |
| `writeBatchWithRetry`, `writeBatch` | `AttemptCommits`, `AttemptUncertain`, `AttemptFails`, `AttemptsExhausted` |
| `pauseWriter` | `SendBarrier`, `BarrierRefused`, `Ready`, `Cancel` |
| `restoreBackup`, exports | `Begin`, `LockSettings`, `Import`, `Read` |
| `updateSettings` | `UpdateSettings` |
| `configureRuntime`, `shutdownRuntime`, `close` | `Retire`, `SwapActive`, `CloseQueue`, `FinishClose` |

Data is abstract: an event is a name, `rows` says how many rows it has, a backup is the
rows some export saw (or none). The sleep between attempts is part of the next attempt.
`lastBatchSize`, `lastBatchNS`, `writeFailures` and error texts are left out. The clamp
of `queueLimit` (line 148) never applies because `parseConfig` yields at least one.
While `Retire` waits for `newPluginRuntime`, the next runtime may already clean up the
same database; to this one that looks like `UpdateSettings`.

`EventLedger` is what a reader needs to know of it: an event is new, rejected, pending,
and then once confirmed, lost or unknown, in sets (a batch commits as a whole); rows
appear only for confirmed or unknown sets, go by cleanup, and come back only from an
export. `Ledger == INSTANCE EventLedger WITH stage <- Stage, backups <- Backups` is the
refinement mapping.

### RuntimeHandover

A row is its age in days and a cleanup with `d` days removes the ages from `d` up, so
which value a cleanup used is visible in `rows`. `cpc` is the holder of
`runtimeTransitionMu` inside `configureRuntime` or `shutdownRuntime`; `rstate`, `wpc`
and `config` are per runtime; a request keeps the runtime it found (`Arrive`,
management.go:40). A settings transaction that has begun commits even if its runtime is
closed meanwhile, since `sql.DB.Close` leaves a connection in use alone (`UpdateBegin`,
`UpdateCommit`); `RestoreIsAlone` is about writers and cleanups, and does not exclude it.
`LoadSettings` includes the fallback of `loadIntSetting`: with a
missing or unreadable value the configured retention stays. The queue and batches are
one action `Write`; a writer told to close leaves from `select` (`Exit`).

### ReadCache

Every operation under `c.mu` is one action; the load between `acquire` and `finish` is
its own. `order` is the recency order that `lastAccess` and `clock` induce. `version` is
the state of the database; a commit raises it (`Ingest` for usage batches, which do not
clear the cache, `Commit` and then `Clear` for prices, settings, restore and the daily
cleanup). `published` and `floor` are history: the version a clear made mandatory, and
its value when a request began.

### RollupStore, StorageStatus, PriceSnapshot

`RollupStore` has `usage_events` as records and `usage_minute_rollups` as a function from
minute and model to sums. The upserts of a batch, row by row in the code, are one update
(`Written`: sums do not depend on the order), a cleanup keeps the minutes after the cutoff
(`Younger`) and rebuilds the boundary minute from the events left (`Boundary`), a restore
replaces both tables. What a query computes is an operator on the two tables with
the splitting of query.go: `FullMinutes` and `Edges` (`splitAggregateRange`), `Kind` and
`GroupBucket` (the one statement that serves trend and health grid), `Dense`
(`appendDenseTrend`), `AccessiblePages` and `PageAllowed`. Queries of several statements
(`DimensionBegins`/`DimensionEnds`, `AllBegins`/`AllEnds`, `EventsBegin`/`EventsEnd`) have
a commit of anybody between them; `since` and `ever` are history.

`StorageStatus` counts commits in `db` and has one step per stretch under `metricsMu`:
`Kept`, `Collect`, `Store`, `Invalidate`. `done` is the last change that returned and
`floor` its value when a request came.

`PriceSnapshot` has one step per stretch between locks, connections and commits:
`Look`, `LookAgain`, `Load`, `Keep` of `loadPriceSnapshot`, `OpenCursor`, `CloseCursor` of
the query that uses it, and `LockPrices`, `BeginTx`, `Commit`, `Drop`, `WriteFails` of
`replacePrices` and `importBackup`.

| Code | Definitions |
| --- | --- |
| `writeBatch`, `upsertRollupSQL` | `WriteBatch`, `Written` |
| `prune` | `Prune`, `Younger`, `Boundary` |
| `importBackup` | `RestoreBackup`, `LockPrices` ... `Drop`, `Change`, `Invalidate` |
| `splitAggregateRange`, `aggregateTotals` | `FullFrom`, `FullTo`, `FullMinutes`, `Edges`, `Count` |
| summary trend and health | `Kind`, `GroupBucket`, `TrendBucket`, `TrendRows`, `TrendEdge`, `HealthRows`, `Dense` |
| `events`, paging | `EventsBegin`, `EventsEnd`, `PageRows`, `PageAllowed`, `PageOffset`, `AccessiblePages` |
| `storageStatus`, `invalidateStorageMetrics` | `Ask`, `Kept`, `Collect`, `Store`, `Change`, `ChangeFails`, `Invalidate` |
| `updateSettings` | `ChangeSettings` |
| `loadPriceSnapshot`, `queryPrices` | `Look`, `LookAgain`, `Load`, `Keep`, `LoadFails` |

### PageLoads, FrontendCache

One action is one task of the browser's event loop: a click, a timer, an animation
frame, the answer to a request. A request id is only ever compared with the newest, so
an activation of `loadActivePage` or `loadEvents` carries `newest`, which the next one
takes away. An aborted fetch rejects before the next task; `Quiet` makes every other
action wait for it. `valid` is the key the server accepts; any answer may be a 401, which
drops the key (`DropKey`) and opens the dialog.

| Code | Actions |
| --- | --- |
| `loadActivePage` (882-906) | `LoadActivePage`, `Frame`, `LoadAnswered`, `SettingsAnswered`, `LoadAborts`, `Finally` |
| `loadEvents` | `LoadEvents`, `EventsAnswered`, `EventsAbort` |
| `scheduleAutoRefresh`, `runAutoRefresh` | `TimerFires`, `ScheduleAutoRefresh`, `LookAgain` |
| `handleVisibilityChange` | `Hide`, `Show` |
| `api`, `bindAuth` (864) | `Responding`, `DropKey`, `ChangeKey`, `CancelDialog`, `SaveKey` |
| `download`, `restoreBackup` | `Download`, `DownloadAnswered`, `RestoreBackup`, `RestoreAnswered` |
| `cached`, `trackCacheExpiry`, `clearFrontendCache` | `LookupMem`, `LookupSession`, `Answered`, `Failed`, `Serve`, `Forget`, `Tick` in `FrontendCache` |
| the end of a load and the due time of the timer (118-126, 902-907) | `LoadCompletes`, `LoadFails`, `StartAutoRefresh`, `ScheduleAutoRefresh`, `Hide` in `FrontendCache` |

`FrontendCache` keeps the Map in insertion order and `sessionStorage` beside it; a
`Reload` empties the first only. `owner`, `epoch`, `used` and `served` are history; `epoch`
counts the clears before a response was stored, not before it was requested. The
32 bit hash of the key in the cache key is taken to be free of collisions. A load that
comes to its end has the timer set by `deadline` (`LoadCompletes`), one that does not by
`RetryDelay`, the 5 s of app.js:906 (`LoadFails`); `completed` is that local variable.
`opening` follows the load that `init()` awaits: when it returns, `startAutoRefresh` sets
the timer by the deadline once more (app.js:85), at once or, if another load superseded
it, later (`StartAutoRefresh`). `timerAt` is what these set and `Hide` cancels; that a
timer which fires on a busy page waits another second is a step of `PageLoads`.

### EventFilters, RangeCalendar, DetailDrawer, OverviewCharts, PageParts

Each is about the state one corner of the page keeps, with the page and the range it is
shown for: `EventFilters` has form, filters, lock, banner, cells, dropdown texts, rows and
paging; `RangeCalendar` the calendar with its requests and the conversions between
milliseconds and inputs; `DetailDrawer` subject, content and requests; `OverviewCharts`
the animations, drawings, frames, resize timer and tooltip. Their clicks are bounded by
one constant each.

`PageParts` puts them side by side. They share no variable, and no property relates two
of them; whatever one does is a stutter of the others. `moving`, chosen initially, names
the part whose steps are explored, so the states add up instead of multiplying; a
behaviour in which all move violates a property of a part exactly when the behaviour of
that part alone does. The theorems do not need the argument: they are about the
behaviours of `PageParts` and `StoreParts`, which is built the same way, and in their
proofs a step of another part is one that leaves the variables of this part alone. In
`StoreParts` the properties of the queries are evaluated only where the store moves:
elsewhere its rows are those of the initial state.

### PriceTable

The rows of the table, the picker, loads and saves of the settings page, with the
server's list and its validation (`Valid`, exact names) beside the comparisons of the
browser in lower case (`Fold`). `clean` and `kept` are history: the table is what one lone
request was answered with; names the user did not drop. A save is five steps
(`SavePrices`, `SaveApplied`, `SaveListed`, `SaveAnswered`, `SaveFailed`), so a load may be
answered between any two of them. What `Array.filter`, `ORDER BY` and a `Map` make of a
list is the sequence of the items at some positions of it, in their order (`Among`):
`Filled` the rows with a name, `Sorted` names in the order of the table, `MapOf` for each
lower case form the last item, at the place of the first.

## Runs

| Run | Instance | States | Properties |
| --- | --- | --- | --- |
| `writer_safety` | 3 events (one old enough for cleanup), 1 restore, 1 export, queue 1, batch 2 | 3.3 M | `TypeOK`, `Placement`, `AdmissionIsExact`, `Conservation`, `HonestOutcomes`, `BarriersSeparate`, `ClosesCleanly` |
| `writer_liveness` | 2 events, 2 restores, fair | 238 K | `ImplementsLedger`, `AcceptedSettles`, `CloseEnds`, `PausesEnd` |
| `read_cache` | 3 requests, 3 keys, 2 entries or 3 bytes, 3 versions | 268 K | `TypeOK`, `WithinLimits`, `FlightsAreSound`, `FreshAfterClear` |
| `handover` | 2 runtimes, 1 update, 1 restore, fair | 121 K | `TypeOK`, `DatabaseIsExclusive`, `KeepsRowsWithinOneRuntime`, `HandoverEnds` |
| `stale_retention` | 2 runtimes, 1 update | violation | `KeepsPromisedRows`, see *Findings* |
| `store` | 4 times in 3 minutes, 2 events at a time of 3, every range within 0..9; 2 requests, 2 changes, 1 settings update; 3 queries, 2 writers, 2 connections | 626 K | `RollupsAreSums`, `QueriesAreExact`, `AnswersAreBetween`, `StatusIsHonest`, `PricesAreConfirmed`, `PoolNeverStarves` |
| `pages` | 2 ranges, 2 filters, 2 keys, 4 user actions | 2.2 M | `ControlsAreHonest`, `FreshShowsCurrent`, `NoStaleRender` |
| `page_liveness` | 1 range, 2 keys, 3 user actions, fair | 217 K | `RefreshRecurs` |
| `frontend_cache` | 2 keys, 3 requests, 2 entries, times 1 to 3 | 2.1 M | `ServedIsValid`, `TiersAgree`, `RefreshInTime` |
| `price_table` | 2 saves, 3 rows, 4 user actions, names that differ in case | 1.3 M | `TableIsHonest`, `OnlyDroppedVanish`, `SavableStays` |
| `page_parts` | 4, 8, 6 and 5 user actions or events in the four parts | 1.2 M | `SelectionIsTrue`, `RangeIsTrue`, `DrawerIsTrue`, `ChartsAreTrue`, `StepsAreTrue` |
| `hidden_filter` | the filters alone, 4 user actions | violation | `UpstreamFieldFollows`, see *Findings* |

What the properties say, in short:

* `AdmissionIsExact`: `queuedEvents` counts exactly the events reserved, queued or just
  received, and never lets the channel hold more than `QueueSize`. `Placement`: every
  sent event is in one place. `Conservation`: the counters add up. `HonestOutcomes`: no
  event has two rows, one counted as lost has none.
* `BarriersSeparate`, `ClosesCleanly`: restores and exports cut the stream at their
  barrier; a hand-over closes an unused, drained runtime. `DatabaseIsExclusive`: beside a
  restore no writer writes or cleans up, and outside a hand-over only the active runtime's
  is alive.
* `FlightsAreSound`, `FreshAfterClear`, `WithinLimits`: one load per key, every waiter on
  a flight that will be closed, nothing older than a clear served after it, limits kept.
* `RollupsAreSums`, `QueriesAreExact`, `AnswersAreBetween`: rollups agree with events to
  the millisecond; counts, trends, health cells and pages are exact; answers of several
  statements are bounded by what was there meanwhile.
* `StatusIsHonest`, `PricesAreConfirmed`, `PoolNeverStarves`: as their names say, with
  failed samples, uncertain commits and small pools.
* `NoStaleRender`, `FreshShowsCurrent`, `ControlsAreHonest`, `RefreshRecurs`: no region is
  overwritten with an earlier answer, "updated at" is true, spinner, timer and counter
  tell the truth, and a visible data page is loaded again and again.
* `ServedIsValid`, `TiersAgree`, `RefreshInTime`: the browser cache serves what was fetched
  for the same key, is not older than a TTL and was stored since the last clear; both tiers
  tell the same; after a load that came to its end the timer is due before anything displayed
  expires, after one that failed at most 5 s after its end.
* `TableIsHonest`, `OnlyDroppedVanish`, `SavableStays`: an untouched table is the server's
  list, a save deletes only what the user dropped, an import or fill blocks no save.
* `SelectionIsTrue`, `RangeIsTrue`, `DrawerIsTrue`, `ChartsAreTrue`: the corners of the
  page agree with what is in force; `StepsAreTrue`: what no step of them may do. Each is a
  conjunction of parts explained where they are defined.

Why the bounds are enough: with a queue of one, two senders already race for the last
place and a third finds it taken; one barrier and one event fill the channel of two. A
batch size of two has partial and full batches. Three attempts are the code's own
number. Two calls of each kind are enough for the pairs of locks they take. The cache
has room for two of three keys, so replacement, eviction by number and by size, and a
body too large to store all happen. Two runtimes are the most that can be alive at
once. The times of the store lie at both edges and inside a minute, ranges with every
bound lie before, inside, across and after them, and the two trend intervals are shorter
and longer than a health bucket. Two connections are fewer than the queries that want
one. On a page, two loads suffice for one to be overtaken, and the user's actions are as
many as the longest chain a mutation of the code needed to show itself, in most runs plus some. The
bounds are `MaxRuntimes`, `MaxVersion`, `MaxSampled`, `MaxReplaced`, `MaxId`, `MaxEvents`
(of the store: events; of the charts: events of the page), `MaxClicks` and the four
click bounds of `PageParts`, `MaxFlights`, `MaxRequests`, `MaxTime`, `MaxClears`, `MaxRows`,
`MaxWindow`, `MaxPages`, and the sizes of the sets; nothing else is cut off.

A record, a call or a user action happens a bounded number of times, so most behaviours
end; where the end is a quiet system the configuration does not check deadlock and says
so. `writer_safety`, `writer_liveness`, `read_cache`, `frontend_cache` check it: no state
is stuck there but the end.

### Fairness

* A goroutine that can run is scheduled (`WF` on each delivery, call, hand-over and on
  the writer); database calls return because each has a deadline (5 s for a batch, 10 s
  for cleanup, 15 s or 2 min for a request).
* Go's `select` chooses at random among ready cases, so a case that is ready again and
  again is taken: `SF` on `Receive`, `DrainDone` and `FlushTick`; in `RuntimeHandover`
  `SF` on `Exit`, and on a writer waiting for `settingsMu` because a Go mutex hands over
  to a waiter that starves.
* In the browser requests are answered, a visible tab is painted and timers fire: `WF` on
  `Answers`, `Frames` and `TimerFires(FALSE)`; the timer waits for the first entry to
  expire, so not every refresh is answered from the cache.
* No record, request, cancellation, click, tick of the retention timer or hand-over is
  assumed ever to come.

### Findings

* `stale_retention`: README.md:91 and the comment at plugin.go:343-345 say an old
  retention is not used once a newer value is committed, as both take the same lock. The
  lock belongs to a runtime. If the host reconfigures the plugin, the next runtime reads
  `retention_days` (plugin.go:83); the previous runtime, active until the swap, confirms
  a longer one; the next runtime keeps the old value in memory and cleans up with it.
  Within one runtime the statement holds (`KeepsRowsWithinOneRuntime` in `handover`).
* `hidden_filter`: `app_test.cjs` asserts that a reset leaves the upstream field empty,
  and the reset button clears it by hand (app.js:449-450). `activateRange` only calls
  `form.reset()` (368), which leaves a hidden input as it is: after a change of the range
  the filters are empty, the field keeps the upstream, and the next submit applies it
  again while the banner stays hidden.

### Observations

Behaviours met while modelling that contradict no statement of the repository. Those in
a model are steps of it; the properties hold with them.

* plugin.go:249: a cancelled barrier stays in the channel and occupies the slot reserved
  for a barrier (:88, :239); until the writer reaches it the next restore or export may be
  refused. A later try succeeds.
* management.go:110: PUT /prices commits; if listing the prices then fails, the response
  is an error and the read cache is not cleared. Its entries live 4 s.
* app.js:1049: a download without a key decrements `pendingRequests`, which it never
  incremented (1016), so the counter may be too small, never too large.
* app.js:993: a 401 to a request with an old key removes a new, valid key.
* app.js:949: a response that was requested before prices were saved or a backup restored,
  and arrives after `clearFrontendCache`, is stored and served for up to 60 s although it is
  older; a load of the details goes on when the settings page is opened, so it may be one.
* app.js:906: after a load that failed the timer is due 5 s later although something already
  displayed may expire before (a cached summary, say, before a failed analysis). After the
  first load it is not: `init()` goes on with `startAutoRefresh` (85), which replaces the
  5 s by the deadline, or by 60 s if nothing was met.
* app.js:359: after changes of the range entries of old ranges stay in `sessionStorage`
  beyond `FRONTEND_CACHE_MAX_ITEMS` until they expire and are asked for again.
* app.js:312, 348: after a failed fetch of the days a click in the form renders the
  calendar for no days, which says that there are no records.
* app.js:848: a merge compares names in lower case and drops a row whose name differs in
  case only; the picker (705) and the fill (3185) compare in other ways again, so names
  that differ in case may be offered twice or skipped.
* app.js:3166: edits typed while a load or a save of prices is under way are overwritten
  by its answer; a failed load leaves an empty table that a save would store.
* app.js: a pick for a row that was rendered away has no effect, though a message says
  that it was chosen; a clone of a clone gets a name twice, and the save is refused.
* app.js: a tab hidden during a yield of a load that then loses its key may be marked
  "updated at"; after a 401 the mark stays at "refreshing"; a failed load of the details
  leaves skeleton rows.
* app.js:368: after a change of the range the custom dropdown of the status keeps its old
  text; the tooltip of a chart that was replaced stays until the pointer moves.

## Proofs

All theorems hold for every value of the constants, from the assumption named in the
module of the component. These say what the code fixes: numbers are natural, sizes and
lengths positive, sets of different things disjoint, the value that stands for "nothing" is
none of the things; an offset of the time zone is less than a day, and the places of the
pointer beside and away from a chart are none of its points.
TLC evaluates each of them on the instances it checks.

Every invariant and every action property that a passing run checks is a theorem, and so is
the refinement; what is left to TLC is liveness (below).

| Theorem | Statement |
| --- | --- |
| `UsageWriterProofs` | |
| `WriterInvariant` | `Spec => []IInv` |
| `TypeCorrect`, `PlacementCorrect`, `AdmissionExactCorrect`, `ConservationCorrect` | `Spec => []TypeOK`, `[]Placement`, `[]AdmissionIsExact`, `[]Conservation` |
| `ClosesCleanlyCorrect`, `BarriersCorrect` | `Spec => []ClosesCleanly`, `[]BarriersSeparate` |
| `RuntimeImplementsLedger`, `OutcomesCorrect` | `Spec => ImplementsLedger`, `Spec => []HonestOutcomes` |
| `LedgerTypeCorrect`, `LedgerAtMostOneRow` | types and single rows of the ledger |
| `RuntimeHandoverProofs` | |
| `HandoverInvariant`, `TypeCorrect`, `ExclusiveCorrect` | `Spec => []IInv`, `[]TypeOK`, `[]DatabaseIsExclusive` |
| `RetentionCorrect` | `Spec => KeepsRowsWithinOneRuntime`, an action property |
| `ReadCacheProofs` | |
| `CacheInvariant`, `TypeCorrect`, `LimitsCorrect`, `FlightsCorrect`, `FreshCorrect` | `Spec => []IInv`, `[]TypeOK`, `[]WithinLimits`, `[]FlightsAreSound`, `[]FreshAfterClear` |
| `StorePartsProofs` | |
| `RowsInvariant`, `RollupsCorrect` | `Spec => []RowsInv`, `[]RollupsAreSums` |
| `QueriesCorrect` | `Spec => []QueriesAreExact` |
| `AnswersInvariant`, `AnswersCorrect` | `Spec => []AnswersInv`, `[]AnswersAreBetween` |
| `PriceInvariant`, `PricesCorrect`, `PoolCorrect` | `Spec => []PriceInv`, `[]PricesAreConfirmed`, `[]PoolNeverStarves` |
| `StatusInvariant`, `StatusCorrect` | `Spec => []StatusInv`, `[]StatusIsHonest` |
| `PageLoadsProofs` | |
| `PagesInvariant`, `ControlsCorrect`, `FreshnessCorrect` | `Spec => []IInv`, `[]ControlsAreHonest`, `[]FreshShowsCurrent` |
| `RenderingCorrect` | `Spec => NoStaleRender`, an action property |
| `FrontendCacheProofs` | |
| `BrowserCacheInvariant`, `ServedCorrect`, `TiersCorrect`, `RefreshCorrect` | `Spec => []IInv`, `[]ServedIsValid`, `[]TiersAgree`, `[]RefreshInTime` |
| `PriceTableProofs` | |
| `TableInvariant`, `TableCorrect` | `Spec => []IInv`, `[]TableIsHonest` |
| `VanishCorrect`, `SavableCorrect` | `Spec => OnlyDroppedVanish`, `SavableStays`, action properties |
| `PagePartsProofs` | |
| `SelectionInvariant`, `SelectionCorrect` | `Spec => []FilterInv`, `[]SelectionIsTrue` |
| `CalendarInvariant`, `RangeCorrect` | `Spec => []CalendarInv`, `[]RangeIsTrue` |
| `DrawerInvariant`, `DrawerCorrect` | `Spec => []DrawerInv`, `[]DrawerIsTrue` |
| `ChartsInvariant`, `ChartsCorrect` | `Spec => []ChartsInv`, `[]ChartsAreTrue` |
| `StepsCorrect` | `Spec => StepsAreTrue`, six action properties |

**A runtime.** None of `TypeOK`, `Placement`, `QueueAccounting` and `AdmissionBound` is
inductive alone. `queuedEvents` is decremented in `TakeEvent` and `SendRefused`; that it
stays a natural number needs `QueueAccounting`. That a decrement matches the removal of an
element from `Admitted` needs the element to be nowhere else in it, which is `Placement`.
`Placement` is kept by `TakeEvent`, `LeaveBarrier` and the settling of a batch only if the
writer's hand is empty where the code holds no item, which is `WriterControl`. And a place
beyond the limit is never reserved because a sender about to swap has loaded a value below
it (`AdmissionLimit`) and the swap compares. `IInv` is the conjunction; there is a lemma
for each part with a step for each action that can disturb it.

**The counters.** Each counter is the number of events of one fate (`Counts`), and the
events are divided among the fates, which is `Placement` again; settling a batch moves its
events from one of these sets to another, so `Conservation` is a sum of cardinalities of
disjoint sets.

**The ledger.** No event has two rows, and rows (or backups) exist only for events
confirmed or unknown; the step that needs an argument is that a batch being stored has no
rows yet, as its events are pending. The refinement maps every step of a runtime to a step
of the ledger or a stutter. It needs `IInv` for one fact above all: the events in a batch
are sent and not settled, so they are pending in the ledger when the batch is stored or
lost. A snapshot that no export has filled is empty, which keeps the backups of the ledger
what they should be. The theorems about the ledger are stated of its operators under the
refinement mapping, and `HonestOutcomes` is its `AtMostOneRow`.

**Barriers.** `ClosesCleanly` follows from `LocksHeld`: nothing is inside the runtime once
it has been swapped out, no call holds `runtimeTransitionMu` during a hand-over, and the
writer exits only from a closed, empty channel. `BarriersSeparate` follows from
`BarrierCut`: a barrier at position *i* of the channel has cut off exactly what is
settled, in the batch, in the writer's hand or before *i*. A send appends behind it, a
receive moves one event from before it to the hand, settling moves the batch to the
settled events, and at the barrier the flush has left nothing else.

**The hand-over.** The transition lock has one holder, a hand-over or one restore of the
runtime that is active (`Transit`); whatever is alive and not active is the runtime in the
hands of that holder (`Lives`); and a writer stands still for the restore that paused it
(`Paused`). `DatabaseIsExclusive` is read off these. For `KeepsRowsWithinOneRuntime` a
cleanup that has read the retention under `settingsMu` still has the current one when it
deletes (`Retention`); with a second runtime this lock says nothing, see *Findings*.

**The management cache.** `bytes` is the number of elements of the disjoint union of the
bodies, each numbered from one (`BytesOf`); an entry that goes takes exactly its own with it,
so the counter is exact and never below zero. `trimLocked` stops at the first suffix of the
recency order that fits, which exists since every nonempty set of numbers has a least
element (`LeastElement`). A load and the flight of its key belong together
(`Flights`), so an answer enters the cache only from the flight that is registered, and one
whose generation is the present one has seen the commit that the last clear followed
(`Versions`).

**Rows and rollups.** Ids of rows to come are new, so a batch and what is stored are
disjoint, and sums of disjoint sets of rows add up key by key (`WrittenIsGrouped`). A cutoff
divides the minutes into those before, the one it falls into and those after
(`CutIsGrouped`, from division with remainder): the first lose all their rows, the last
none, and what the boundary is rebuilt from is what is left of it.

**Queries.** `QueriesAreExact` follows from the invariant of the rows alone. A sum over rows
of rollups is the number of events with their keys (`RequestsCount`): the sum and the count
agree on the empty set, and on a set as soon as they agree on it without one element, which
decides it for finite sets, as a smallest one on which they differ would have to exist
(`ElementByElement`). Full minutes and edges divide a range (`RangeDivided`), so nothing is
counted twice. `timeBucketMinute` gives the last boundary that is not after the minute
(`TimeBucketIsLast`), and as intervals and offsets are multiples of the health grid's, the
boundary of a trend before a minute is also the last one before the cell it is in
(`BucketsNest`): moving whole cells to buckets of the trend loses nothing. This is where the
assumption that 15 divides all intervals and offsets is used.

**Answers.** Between two statements the rows that were there all the time become fewer and
those that were there at some time become more, so a count taken first stays between both
(`FoundStays`); for a dimension it is the full minutes that were counted and the edges that
still are, and they divide all three sets. A page has no more rows than its size since every
row has a place of its own (`RankGrows`), which needs ids to be distinct (`Numbered`).

**Prices.** The lock decides everything (`PriceHeld`): whoever is between taking and
releasing `priceMu` has it. So a snapshot differs from the table only behind a writer that
has committed and not yet dropped it, and connections are held only by open cursors and by
the transaction of the lock's holder.

**Metrics.** A sample and an invalidation both need `metricsMu`, so a sample under way
has read nothing older than the last change that returned, and what counts as recent is
that new or marked. A settings update does not invalidate; it forces a sample whose floor
is its own commit.

**Page loads.** At most one activation is the newest, and superseding it aborts it
(`Loads`). What the newest asks for is what page, range and filters say, and what it has
passed is on the page (`Current`); so it renders nothing else, and when it ends the page is
what "updated at" claims. `pendingRequests` is bounded by a sum of cardinalities of the
requests under way (`Counted`).

**The browser's cache.** Every entry in either tier is owned by the key in its cache key,
was stored since the last clear and expires within a TTL from now (`Owned`), and there is one
entry per key (`Distinct`), which storing and evicting keep. The deadline of a load is not after
the expiry of anything it has met (`Load`); what `scheduleAutoRefresh` makes of such a deadline
is one lemma (`Scheduling`), used for each of the three steps that set the timer.

**The price table.** `TableIsHonest` is not inductive: that an answer fills the table with
what is stored needs that a load or save marked as alone carries the list as it is now
(`LoneLoad`, `LoneSave`), which holds as whoever starts beside it takes the mark away, and
only a save changes the list. That a save of an untouched table leaves it untouched needs
that its list is the table's (`CleanSaves`), and that the server makes of its own list the
same again (`AppliedIs`). `OnlyDroppedVanish` needs that the names to keep are in the table
and in every list sent (`KeptIsThere`); for a merge this is that a name is lost only to one
of the same lower case form (`MergedIs`). All of it rests on `NthIs`: the positions of a
filter are numbered without a gap, as an injection between finite sets of the same size is
onto, so the sequence of its items has each of them once (`AmongIs`).

**The selection.** The hidden upstream field follows lock and banner (`FormFollows`), and all
questions under way on the overview are about what is selected (`QuestionsAreCurrent`), because
whoever changes the selection asks anew. The lock's cell is highlighted as the grid is drawn
anew whenever its window moves. `FormFollows` is one way only: that an empty lock and a hidden
banner leave the field empty is what the run `hidden_filter` refutes.

**The calendar.** A range in force was made of two days and two times of the form
(`InForce`), and the conversions between milliseconds and day, month and time are inverse to
each other (`Conversions`), so the form displays again what was applied. The months on
display lie between those of the first and the last day received (`MonthsFit`), and only an
open form waits for its newest request.

**The drawer.** The request number and the abort together let through only a request for
what was opened last while the drawer is open (`Guarded`), so content and subject agree.

**The charts.** All animations take the same time, so the youngest ends last, and it leads to
the figure wanted (`FiguresSettle`). Every drawing has a serial, and frames that were
requested by charts since replaced have smaller ones than the chart on display
(`HandlersAreCharts`), so they change nothing.

**Steps of the page.** `StepsAreTrue` follows from the four invariants, primed and unprimed;
its part about the tooltip needs that the first of the nearest points exists, again by
`LeastElement`.

What the proofs changed in the models. Writing them needed definitions without recursion
over data: the body sizes of `ReadCache` are counted instead of folded, the upserts of a batch
and the callbacks of a frame have a closed form, request sets of `PageLoads` are sets. An
attempt that failed showed that the cases of `EventFilters!Synced` overlapped, for a model no
longer on offer in a dropdown that was not being brought up to date (TLC takes the first case
that applies, the language leaves the choice open). `FreshShowsCurrent` said less than the
code does and is now stated for every region, and `ScheduleAutoRefresh` of `FrontendCache`
sets the timer also for a deadline already past, and none without a key. The boundaries by which
`SummaryIsExact` judges a bucket were those near the bounds of an instance; now they are those
of the minute itself, and the buckets it looks at include all that the query returns. The
filters, the sort and the merge of `PriceTable` were `SelectSeq` and a fold; they are closed
forms now, with the same states, and its assumption says what `parseImportedPrices`
guarantees of a file: every row has a name (app.js:3040, 3053, 3089).

Only model-checked: liveness (`AcceptedSettles`, `CloseEnds`, `PausesEnd`, `HandoverEnds`,
`RefreshRecurs`), which rests on fairness and on when an action is enabled; the prover
treats neither. The two violation runs refute what documents say and have no theorem.

## Plan

The runtime came first, then its hand-over and the cache, then store, prices and metrics,
then the dashboard, then the proofs of every safety property. What is left, in this order:

1. The response of PUT /prices with the read cache: `ReadCache` and `PriceSnapshot`
   composed.
2. Costs, record decoding and backup validation as operators.

## Not modelled

Text redaction, YAML and JSON parsing, C memory hand-over, static assets, CSS and markup,
number formatting, themes, toasts and focus, the export of prices, build scripts: string
or I/O code with no state to check. SQL is modelled by what a statement does to the tables.
Opening and migrating the schema, pragmas and file permissions are one step. Costs are
floating point sums of one row. A crash of the process loses the queue by design
(README.md:32) and leaves no state behind but the database, whose commits are atomic.
