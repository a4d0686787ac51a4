----------------------------- MODULE StoreParts -----------------------------
(***************************************************************************)
(* What surrounds the rows of the event store, together: the rows, their   *)
(* rollups and the queries (RollupStore), the storage metrics              *)
(* (StorageStatus), and the prices kept in memory (PriceSnapshot).  Each   *)
(* is guarded by a mutex of its own, or by the transactions of SQLite, and *)
(* they share no variable of a model, so whatever holds of a part whose    *)
(* neighbours rest holds of it whatever they do; moving says which one     *)
(* does not rest.                                                          *)
(***************************************************************************)
EXTENDS Integers, FiniteSets

CONSTANTS
    Models, Minute, Times, Bounds, Health, Slots, Trends, Weekly, Offset, WeekOffset, Sparse,
    Nows, PageSizes, MaxPage, MaxOffset, MaxEvents, MaxId, Windows, Idle,
    Inquirers, Changes, Settings, None, MaxSampled,
    Readers, Writers, Nobody, Connections, MaxReplaced,
    Parts

VARIABLES
    moving,
    \* RollupStore
    events, rollups, ids, query, answer, since, ever,
    \* StorageStatus
    db, holder, attempt, metrics, metricsPc, seen, reply, metricsDone, metricsFloor,
    \* PriceSnapshot
    table, loaded, lock, conns, pricePc, got, confirmed, priceFloor, doubtful

Rollups == INSTANCE RollupStore
Status == INSTANCE StorageStatus WITH
    Requests <- Inquirers, MaxVersion <- MaxSampled,
    pc <- metricsPc, done <- metricsDone, floor <- metricsFloor
Snapshot == INSTANCE PriceSnapshot WITH
    pc <- pricePc, floor <- priceFloor, MaxVersion <- MaxReplaced

ASSUME StorePartsAssumption ==
    /\ Rollups!RollupStoreAssumption /\ Status!StatusAssumption /\ Snapshot!PriceAssumption
    /\ Parts \subseteq {"rollups", "status", "prices"}

rollupVars == <<events, rollups, ids, query, answer, since, ever>>
statusVars == <<db, holder, attempt, metrics, metricsPc, seen, reply, metricsDone, metricsFloor>>
priceVars == <<table, loaded, lock, conns, pricePc, got, confirmed, priceFloor, doubtful>>
vars == <<moving, rollupVars, statusVars, priceVars>>

Init == moving \in Parts /\ Rollups!Init /\ Status!Init /\ Snapshot!Init

RollupsMove == moving = "rollups" /\ Rollups!Next /\ UNCHANGED <<moving, statusVars, priceVars>>
StatusMoves == moving = "status" /\ Status!Next /\ UNCHANGED <<moving, rollupVars, priceVars>>
PricesMove == moving = "prices" /\ Snapshot!Next /\ UNCHANGED <<moving, rollupVars, statusVars>>

Next == RollupsMove \/ StatusMoves \/ PricesMove

Spec == Init /\ [][Next]_vars

-----------------------------------------------------------------------------
(* The properties of the parts; each is explained where it is defined.     *)

\* The rows of a store at rest are those of the initial state, and the properties of the
\* queries hold or fail for them in the states where the store moves too.
RowsMove == moving = "rollups"

\* The rollups are the sums of the events that are left.
RollupsAreSums == Rollups!RollupsAreSums
\* Rollups and events together answer like events alone: the count of a range is exact, every
\* event is in its bucket of the trend and its cell of the health grid, the trend that is
\* displayed leaves no bucket out, and exactly the pages within the limits are offered.
QueriesAreExact ==
    RowsMove =>
        Rollups!CountIsExact /\ Rollups!SummaryIsExact /\ Rollups!TrendAddsUp /\ Rollups!OfferedPagesWork
\* An answer of several statements is bounded by what was there meanwhile.
AnswersAreBetween == Rollups!AnswersAreBetween
\* A storage status that is not marked stale counts no row known to be removed.
StatusIsHonest == Status!StatusIsHonest
\* No query uses prices older than those confirmed before it began.
PricesAreConfirmed == Snapshot!PricesAreConfirmed
\* Nobody holds a connection while waiting for the prices.
PoolNeverStarves == Snapshot!PoolNeverStarves
=============================================================================
