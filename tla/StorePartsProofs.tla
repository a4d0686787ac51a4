--------------------------- MODULE StorePartsProofs ---------------------------
(***************************************************************************)
(* The rows with their rollups, the prices and the storage metrics, each   *)
(* among the other parts of the store.                                     *)
(*                                                                         *)
(* The prices: whoever is between taking and releasing their lock has it,  *)
(* so a snapshot is only ever out of date behind a writer that has         *)
(* committed, and who waits for the lock has no connection.                *)
(*                                                                         *)
(* The metrics: a sample cannot be overtaken by an invalidation, since     *)
(* both need metricsMu, so whatever counts as recent is newer than the     *)
(* last change that returned, or is marked.                                *)
(*                                                                         *)
(* The rollups: a batch adds the sums of rows whose ids are new, and a     *)
(* cutoff divides the minutes into those that are kept, those that go, and *)
(* the one that is built anew from what is left of it.                     *)
(*                                                                         *)
(* The queries: full minutes and edges divide a range, and the buckets of  *)
(* every trend are made of whole buckets of the health grid, so the sums   *)
(* of rows of rollups and the events at the edges count each event once.   *)
(* What a query has found by its first statement stays between what was    *)
(* there all the time and what was there at some time.                     *)
(***************************************************************************)
EXTENDS StoreParts, TLAPS, FiniteSetTheorems, WellFoundedInduction

-----------------------------------------------------------------------------
(* The prices.                                                             *)

\* What is assumed of the constants of the prices.
LEMMA PricesAssumed ==
    /\ Connections \in Nat \ {0} /\ MaxReplaced \in Nat
    /\ Nobody \notin Readers \cup Writers /\ Readers \cap Writers = {}
BY StorePartsAssumption DEF Snapshot!PriceAssumption

PriceSteps == {"idle", "asks", "locks", "loads", "keeps", "priced", "reads", "done",
          "begins", "writes", "committed"}

\* The types the steps rely on.
PriceTyped ==
    /\ table \in Nat /\ loaded \in Nat /\ confirmed \in Nat /\ doubtful \in BOOLEAN
    /\ pricePc \in [Snapshot!Procs -> PriceSteps]
    /\ got \in [Readers -> Nat] /\ priceFloor \in [Readers -> Nat]

\* The lock is held exactly by the one between taking and releasing it.
PriceHeld ==
    /\ \A r \in Readers : lock = r <=> pricePc[r] \in {"loads", "keeps"}
    /\ \A w \in Writers : lock = w <=> pricePc[w] \in {"begins", "writes", "committed"}

\* A connection is held by a cursor or by a transaction under the lock.
Pooled ==
    \A p \in conns : \/ p \in Readers /\ pricePc[p] = "reads"
                     \/ p \in Writers /\ pricePc[p] = "writes"

\* As long as no commit was left in doubt: the snapshot, and the list a reader is about to
\* keep, are the table, except behind a writer that has committed and not yet dropped it.
PriceCurrent ==
    ~doubtful =>
        /\ confirmed <= table
        /\ loaded # 0 => loaded = table \/ \E w \in Writers : pricePc[w] = "committed"
        /\ \A r \in Readers :
              /\ priceFloor[r] <= confirmed
              /\ pricePc[r] = "keeps" => got[r] = table
              /\ pricePc[r] \in {"priced", "reads"} => got[r] >= priceFloor[r]

PriceInv == PriceTyped /\ PriceHeld /\ Pooled /\ PriceCurrent

\* The steps of a query or a backup.
LEMMA ReaderKeeps ==
  ASSUME PriceInv, NEW r \in Readers,
         \/ Snapshot!Begin(r) \/ Snapshot!Look(r) \/ Snapshot!LookAgain(r) \/ Snapshot!Load(r) \/ Snapshot!Keep(r)
         \/ Snapshot!LoadFails(r) \/ Snapshot!OpenCursor(r) \/ Snapshot!CloseCursor(r) \/ Snapshot!Again(r)
  PROVE  PriceInv'
<1> USE PricesAssumed DEF PriceInv, Snapshot!Goes, Snapshot!Procs
<1>1. CASE Snapshot!Begin(r)
  <2>1. PriceTyped'
    BY <1>1 DEF Snapshot!Begin, PriceTyped, PriceSteps
  <2>2. PriceHeld'
    BY <1>1 DEF Snapshot!Begin, PriceTyped, PriceHeld
  <2>3. Pooled'
    BY <1>1 DEF Snapshot!Begin, PriceTyped, PriceHeld, Pooled
  <2>4. PriceCurrent'
    BY <1>1 DEF Snapshot!Begin, PriceTyped, PriceHeld, PriceCurrent
  <2> QED
    BY <2>1, <2>2, <2>3, <2>4
<1>2. CASE Snapshot!Look(r)
  <2>1. PriceTyped'
    BY <1>2 DEF Snapshot!Look, PriceTyped, PriceSteps
  <2>2. PriceHeld'
    BY <1>2 DEF Snapshot!Look, PriceTyped, PriceHeld
  <2>3. Pooled'
    BY <1>2 DEF Snapshot!Look, PriceTyped, PriceHeld, Pooled
  <2>4. PriceCurrent'
    BY <1>2 DEF Snapshot!Look, PriceTyped, PriceHeld, PriceCurrent
  <2> QED
    BY <2>1, <2>2, <2>3, <2>4
<1>3. CASE Snapshot!LookAgain(r)
  <2>1. PriceTyped'
    BY <1>3 DEF Snapshot!LookAgain, PriceTyped, PriceSteps
  <2>2. PriceHeld'
    BY <1>3 DEF Snapshot!LookAgain, PriceTyped, PriceHeld
  <2>3. Pooled'
    BY <1>3 DEF Snapshot!LookAgain, PriceTyped, PriceHeld, Pooled
  <2>4. PriceCurrent'
    BY <1>3 DEF Snapshot!LookAgain, PriceTyped, PriceHeld, PriceCurrent
  <2> QED
    BY <2>1, <2>2, <2>3, <2>4
<1>4. CASE Snapshot!Load(r)
  <2>1. PriceTyped'
    BY <1>4 DEF Snapshot!Load, PriceTyped, PriceSteps
  <2>2. PriceHeld'
    BY <1>4 DEF Snapshot!Load, PriceTyped, PriceHeld
  <2>3. Pooled'
    BY <1>4 DEF Snapshot!Load, PriceTyped, PriceHeld, Pooled
  <2>4. PriceCurrent'
    BY <1>4 DEF Snapshot!Load, PriceTyped, PriceHeld, PriceCurrent
  <2> QED
    BY <2>1, <2>2, <2>3, <2>4
<1>5. CASE Snapshot!Keep(r)
  <2>1. PriceTyped'
    BY <1>5 DEF Snapshot!Keep, PriceTyped, PriceSteps
  <2>2. PriceHeld'
    BY <1>5 DEF Snapshot!Keep, PriceTyped, PriceHeld
  <2>3. Pooled'
    BY <1>5 DEF Snapshot!Keep, PriceTyped, PriceHeld, Pooled
  <2>4. PriceCurrent'
    BY <1>5 DEF Snapshot!Keep, PriceTyped, PriceHeld, PriceCurrent
  <2> QED
    BY <2>1, <2>2, <2>3, <2>4
<1>6. CASE Snapshot!LoadFails(r)
  <2>1. PriceTyped'
    BY <1>6 DEF Snapshot!LoadFails, PriceTyped, PriceSteps
  <2>2. PriceHeld'
    BY <1>6 DEF Snapshot!LoadFails, PriceTyped, PriceHeld
  <2>3. Pooled'
    BY <1>6 DEF Snapshot!LoadFails, PriceTyped, PriceHeld, Pooled
  <2>4. PriceCurrent'
    BY <1>6 DEF Snapshot!LoadFails, PriceTyped, PriceHeld, PriceCurrent
  <2> QED
    BY <2>1, <2>2, <2>3, <2>4
<1>7. CASE Snapshot!OpenCursor(r)
  <2>1. PriceTyped'
    BY <1>7 DEF Snapshot!OpenCursor, PriceTyped, PriceSteps
  <2>2. PriceHeld'
    BY <1>7 DEF Snapshot!OpenCursor, PriceTyped, PriceHeld
  <2>3. Pooled'
    BY <1>7 DEF Snapshot!OpenCursor, PriceTyped, PriceHeld, Pooled
  <2>4. PriceCurrent'
    BY <1>7 DEF Snapshot!OpenCursor, PriceTyped, PriceHeld, PriceCurrent
  <2> QED
    BY <2>1, <2>2, <2>3, <2>4
<1>8. CASE Snapshot!CloseCursor(r)
  <2>1. PriceTyped'
    BY <1>8 DEF Snapshot!CloseCursor, PriceTyped, PriceSteps
  <2>2. PriceHeld'
    BY <1>8 DEF Snapshot!CloseCursor, PriceTyped, PriceHeld
  <2>3. Pooled'
    BY <1>8 DEF Snapshot!CloseCursor, PriceTyped, PriceHeld, Pooled
  <2>4. PriceCurrent'
    BY <1>8 DEF Snapshot!CloseCursor, PriceTyped, PriceHeld, PriceCurrent
  <2> QED
    BY <2>1, <2>2, <2>3, <2>4
<1>9. CASE Snapshot!Again(r)
  <2>1. PriceTyped'
    BY <1>9 DEF Snapshot!Again, PriceTyped, PriceSteps
  <2>2. PriceHeld'
    BY <1>9 DEF Snapshot!Again, PriceTyped, PriceHeld
  <2>3. Pooled'
    BY <1>9 DEF Snapshot!Again, PriceTyped, PriceHeld, Pooled
  <2>4. PriceCurrent'
    BY <1>9 DEF Snapshot!Again, PriceTyped, PriceHeld, PriceCurrent
  <2> QED
    BY <2>1, <2>2, <2>3, <2>4
<1> QED
  BY <1>1, <1>2, <1>3, <1>4, <1>5, <1>6, <1>7, <1>8, <1>9

\* The steps of a replacement.
LEMMA WriterKeeps ==
  ASSUME PriceInv, NEW w \in Writers,
         \/ Snapshot!LockPrices(w) \/ Snapshot!BeginTx(w) \/ Snapshot!Commit(w) \/ Snapshot!Drop(w)
         \/ \E applied \in BOOLEAN : Snapshot!WriteFails(w, applied)
  PROVE  PriceInv'
<1> USE PricesAssumed DEF PriceInv, Snapshot!Goes, Snapshot!Procs
<1>1. CASE Snapshot!LockPrices(w)
  <2>1. PriceTyped'
    BY <1>1 DEF Snapshot!LockPrices, PriceTyped, PriceSteps
  <2>2. PriceHeld'
    BY <1>1 DEF Snapshot!LockPrices, PriceTyped, PriceHeld
  <2>3. Pooled'
    BY <1>1 DEF Snapshot!LockPrices, PriceTyped, PriceHeld, Pooled
  <2>4. PriceCurrent'
    BY <1>1 DEF Snapshot!LockPrices, PriceTyped, PriceHeld, PriceCurrent
  <2> QED
    BY <2>1, <2>2, <2>3, <2>4
<1>2. CASE Snapshot!BeginTx(w)
  <2>1. PriceTyped'
    BY <1>2 DEF Snapshot!BeginTx, PriceTyped, PriceSteps
  <2>2. PriceHeld'
    BY <1>2 DEF Snapshot!BeginTx, PriceTyped, PriceHeld
  <2>3. Pooled'
    BY <1>2 DEF Snapshot!BeginTx, PriceTyped, PriceHeld, Pooled
  <2>4. PriceCurrent'
    BY <1>2 DEF Snapshot!BeginTx, PriceTyped, PriceHeld, PriceCurrent
  <2> QED
    BY <2>1, <2>2, <2>3, <2>4
<1>3. CASE Snapshot!Commit(w)
  <2>1. PriceTyped'
    BY <1>3 DEF Snapshot!Commit, PriceTyped, PriceSteps
  <2>2. PriceHeld'
    BY <1>3 DEF Snapshot!Commit, PriceTyped, PriceHeld
  <2>3. Pooled'
    BY <1>3 DEF Snapshot!Commit, PriceTyped, PriceHeld, Pooled
  <2>4. PriceCurrent'
    BY <1>3 DEF Snapshot!Commit, PriceTyped, PriceHeld, PriceCurrent
  <2> QED
    BY <2>1, <2>2, <2>3, <2>4
<1>4. CASE Snapshot!Drop(w)
  <2>1. PriceTyped'
    BY <1>4 DEF Snapshot!Drop, PriceTyped, PriceSteps
  <2>2. PriceHeld'
    BY <1>4 DEF Snapshot!Drop, PriceTyped, PriceHeld
  <2>3. Pooled'
    BY <1>4 DEF Snapshot!Drop, PriceTyped, PriceHeld, Pooled
  <2>4. PriceCurrent'
    BY <1>4 DEF Snapshot!Drop, PriceTyped, PriceHeld, PriceCurrent
  <2> QED
    BY <2>1, <2>2, <2>3, <2>4
<1>5. CASE \E applied \in BOOLEAN : Snapshot!WriteFails(w, applied)
  <2>1. PriceTyped'
    BY <1>5 DEF Snapshot!WriteFails, PriceTyped, PriceSteps
  <2>2. PriceHeld'
    BY <1>5 DEF Snapshot!WriteFails, PriceTyped, PriceHeld
  <2>3. Pooled'
    BY <1>5 DEF Snapshot!WriteFails, PriceTyped, PriceHeld, Pooled
  <2>4. PriceCurrent'
    BY <1>5 DEF Snapshot!WriteFails, PriceTyped, PriceHeld, PriceCurrent
  <2> QED
    BY <2>1, <2>2, <2>3, <2>4
<1> QED
  BY <1>1, <1>2, <1>3, <1>4, <1>5

\* The invariant of the prices, for any queries, writers, pool and number of replacements.
THEOREM PriceInvariant == Spec => []PriceInv
<1>1. Init => PriceInv
  <2> SUFFICES ASSUME Init PROVE PriceInv
    OBVIOUS
  <2> USE DEF Init, Snapshot!Init, Snapshot!Procs
  <2>1. PriceTyped
    BY DEF PriceTyped, PriceSteps
  <2>2. PriceHeld
    BY PricesAssumed DEF PriceHeld
  <2>3. Pooled /\ PriceCurrent
    BY DEF Pooled, PriceCurrent
  <2> QED
    BY <2>1, <2>2, <2>3 DEF PriceInv
<1>2. PriceInv /\ [Next]_vars => PriceInv'
  <2> SUFFICES ASSUME PriceInv, [Next]_vars PROVE PriceInv'
    OBVIOUS
  <2>1. CASE PricesMove
    BY <2>1, ReaderKeeps, WriterKeeps DEF PricesMove, Snapshot!Next
  <2>2. CASE RollupsMove \/ StatusMoves \/ UNCHANGED vars
    BY <2>2 DEF RollupsMove, StatusMoves, vars, priceVars, PriceInv, PriceTyped, PriceHeld,
                Pooled, PriceCurrent
  <2> QED
    BY <2>1, <2>2 DEF Next
<1> QED
  BY <1>1, <1>2, PTL DEF Spec

\* No query works with prices older than those confirmed before it began (pricing.go:91-150).
THEOREM PricesCorrect == Spec => []PricesAreConfirmed
<1>1. PriceInv => PricesAreConfirmed
  BY PricesAssumed DEF PriceInv, PriceHeld, PriceCurrent, PricesAreConfirmed,
                       Snapshot!PricesAreConfirmed
<1> QED
  BY <1>1, PriceInvariant, PTL

\* Nobody waits for the lock of the prices while holding a connection, however small the
\* pool (backup.go:90-92).
THEOREM PoolCorrect == Spec => []PoolNeverStarves
<1>1. PriceInv => PoolNeverStarves
  BY DEF PriceInv, PriceHeld, Pooled, PoolNeverStarves, Snapshot!PoolNeverStarves
<1> QED
  BY <1>1, PriceInvariant, PTL
-----------------------------------------------------------------------------
(* The storage metrics.                                                    *)

Askers == Inquirers \cup Settings
Sample == [version : Nat, stale : BOOLEAN]
Steps == {"idle", "snapshot", "forced", "collected", "answered", "committed"}

\* The types the steps rely on.
Typed ==
    /\ db \in Nat \ {0} /\ metricsDone \in Nat /\ metrics \in Sample
    /\ metricsPc \in [Askers \cup Changes -> Steps]
    /\ seen \in [Askers -> Nat] /\ metricsFloor \in [Askers -> Nat]
    /\ reply \in [Askers -> Sample]

\* A sample under way has metricsMu.
Held == \A p \in Askers : metricsPc[p] = "collected" => holder = p

\* Every floor is one of the past; that of a request that may take the snapshot as it is was
\* reported before; what a sample has read, and what counts as recent, is not older than the
\* last change that returned.
Fresh ==
    /\ metricsDone <= db
    /\ attempt = "recent" => metrics.stale \/ metrics.version >= metricsDone
    /\ \A p \in Askers :
          /\ metricsFloor[p] <= db
          /\ metricsPc[p] = "snapshot" => metricsFloor[p] <= metricsDone
          /\ metricsPc[p] = "collected" /\ seen[p] # 0 =>
                seen[p] >= metricsDone /\ seen[p] >= metricsFloor[p]
          /\ metricsPc[p] = "answered" => reply[p].stale \/ reply[p].version >= metricsFloor[p]

StatusInv == Typed /\ Held /\ Fresh

\* What is assumed of the constants of the metrics.
LEMMA StatusAssumed ==
    /\ MaxSampled \in Nat /\ None \notin Askers
    /\ Changes \cap Askers = {}
BY StorePartsAssumption DEF Status!StatusAssumption, Askers

\* A sample keeps the invariant of the metrics,
LEMMA SampleKeeps ==
  ASSUME StatusInv, NEW p \in Askers, Status!Collect(p) \/ Status!Store(p)
  PROVE  StatusInv'
<1> USE DEF StatusInv
<1>1. CASE Status!Collect(p)
  <2>1. PICK v \in {0, db} : seen' = [seen EXCEPT ![p] = v]
    BY <1>1 DEF Status!Collect
  <2>2. Typed'
    BY <1>1, <2>1 DEF Status!Collect, Typed, Steps
  <2>3. Held'
    BY <1>1, StatusAssumed DEF Status!Collect, Typed, Held
  <2>4. Fresh'
    BY <1>1, <2>1 DEF Status!Collect, Typed, Fresh
  <2> QED
    BY <2>2, <2>3, <2>4
<1>2. CASE Status!Store(p)
  <2>1. Typed'
    BY <1>2 DEF Status!Store, Status!Later, Typed, Steps, Sample
  <2>2. Held'
    BY <1>2 DEF Status!Store, Typed, Held
  <2>3. Fresh'
    BY <1>2 DEF Status!Store, Status!Later, Typed, Held, Fresh, Sample
  <2> QED
    BY <2>1, <2>2, <2>3
<1> QED
  BY <1>1, <1>2

\* a request for them does,
LEMMA RequestKeeps ==
  ASSUME StatusInv, NEW p \in Askers,
         Status!Ask(p) \/ Status!Kept(p) \/ Status!Again(p) \/ Status!ChangeSettings(p)
  PROVE  StatusInv'
<1> USE DEF StatusInv
<1>1. CASE Status!Ask(p)
  <2>1. PICK kind \in {"snapshot", "forced"} : metricsPc' = [metricsPc EXCEPT ![p] = kind]
    BY <1>1 DEF Status!Ask
  <2> QED
    BY <1>1, <2>1 DEF Status!Ask, Typed, Held, Fresh, Steps
<1>2. CASE Status!Kept(p)
  BY <1>2 DEF Status!Kept, Typed, Held, Fresh, Steps, Sample
<1>3. CASE Status!Again(p)
  BY <1>3 DEF Status!Again, Status!NoSample, Typed, Held, Fresh, Steps, Sample
<1>4. CASE Status!ChangeSettings(p)
  BY <1>4 DEF Status!ChangeSettings, Typed, Held, Fresh, Steps
<1> QED
  BY <1>1, <1>2, <1>3, <1>4

\* and a change of the rows or the settings.
LEMMA ChangeKeeps ==
  ASSUME StatusInv, NEW c \in Changes,
         Status!Change(c) \/ Status!ChangeFails(c) \/ Status!Invalidate(c)
  PROVE  StatusInv'
<1> USE StatusAssumed DEF StatusInv
<1>1. CASE Status!Change(c)
  BY <1>1 DEF Status!Change, Typed, Held, Fresh, Steps
<1>2. CASE Status!ChangeFails(c)
  BY <1>2 DEF Status!ChangeFails, Typed, Held, Fresh, Steps
<1>3. CASE Status!Invalidate(c)
  BY <1>3 DEF Status!Invalidate, Typed, Held, Fresh, Steps
<1> QED
  BY <1>1, <1>2, <1>3

\* The invariant of the metrics, for any requests, changes and number of versions.
THEOREM StatusInvariant == Spec => []StatusInv
<1>1. Init => StatusInv
  <2> SUFFICES ASSUME Init PROVE StatusInv
    OBVIOUS
  <2>1. Typed
    BY DEF Init, Status!Init, Status!Procs, Status!Askers, Status!NoSample, Typed, Askers,
           Sample, Steps
  <2>2. Held /\ Fresh
    BY DEF Init, Status!Init, Status!Procs, Status!Askers, Held, Fresh, Askers
  <2> QED
    BY <2>1, <2>2 DEF StatusInv
<1>2. StatusInv /\ [Next]_vars => StatusInv'
  <2> SUFFICES ASSUME StatusInv, [Next]_vars PROVE StatusInv'
    OBVIOUS
  <2>1. CASE StatusMoves
    <3>1. Status!Next
      BY <2>1 DEF StatusMoves
    <3>2. CASE Status!TimePasses
      BY <3>2 DEF Status!TimePasses, StatusInv, Typed, Held, Fresh
    <3> QED
      BY <3>1, <3>2, SampleKeeps, RequestKeeps, ChangeKeeps
      DEF Status!Next, Status!Askers, Askers
  <2>2. CASE RollupsMove \/ PricesMove \/ UNCHANGED vars
    BY <2>2 DEF RollupsMove, PricesMove, vars, statusVars, StatusInv, Typed, Held, Fresh
  <2> QED
    BY <2>1, <2>2 DEF Next
<1> QED
  BY <1>1, <1>2, PTL DEF Spec

\* A status that does not call itself stale counts no row that was known to be removed
\* (storage.go:415-444, README.md:38-39).
THEOREM StatusCorrect == Spec => []StatusIsHonest
<1>1. StatusInv => StatusIsHonest
  BY DEF StatusInv, Fresh, StatusIsHonest, Status!StatusIsHonest, Status!Askers, Askers
<1> QED
  BY <1>1, StatusInvariant, PTL

-----------------------------------------------------------------------------
(* The rollups.                                                            *)

\* Division with a remainder, and what it says of the order of two timestamps.
LEMMA Division ==
  ASSUME NEW a \in Nat, NEW m \in Nat \ {0}
  PROVE  /\ a \div m \in Nat /\ a % m \in 0..(m - 1)
         /\ a = m * (a \div m) + (a % m)
<1>1. a % m \in 0..(m - 1)
  OBVIOUS
<1>2. a = m * (a \div m) + (a % m)
  OBVIOUS
<1>3. a \div m \in Int
  OBVIOUS
<1>4. a \div m >= 0
  BY <1>1, <1>2, <1>3
<1> QED
  BY <1>1, <1>2, <1>3, <1>4
\* Multiples of different numbers are a whole multiplier apart.
LEMMA Products ==
  ASSUME NEW x \in Nat, NEW y \in Nat, NEW m \in Nat \ {0}, x < y
  PROVE  m * x + m <= m * y /\ m * x \in Nat /\ m * y \in Nat
<1>1. m * (y - x - 1) >= 0 /\ m * y = m * x + m + m * (y - x - 1)
  OBVIOUS
<1> QED
  BY <1>1

\* Who is in an earlier minute is earlier, and nobody is before the start of a minute.
LEMMA DivisionInOrder ==
  ASSUME NEW a \in Nat, NEW b \in Nat, NEW m \in Nat \ {0}
  PROVE  /\ a \div m < b \div m => a < b
         /\ a \div m = b \div m /\ a % m = 0 => a <= b
<1>1. /\ a \div m \in Nat /\ a % m \in 0..(m - 1) /\ a = m * (a \div m) + (a % m)
      /\ b \div m \in Nat /\ b % m \in 0..(m - 1) /\ b = m * (b \div m) + (b % m)
  BY Division
<1> DEFINE x == a \div m  y == b \div m  s == a % m  t == b % m
<1>2. x \in Nat /\ y \in Nat /\ s \in 0..(m - 1) /\ t \in 0..(m - 1) /\ a = m * x + s /\ b = m * y + t
  BY <1>1
<1> HIDE DEF x, y, s, t
<1>3. ASSUME x < y PROVE a < b
  BY <1>2, <1>3, Products
<1>4. ASSUME x = y, s = 0 PROVE a <= b
  <2>1. m * x = m * y /\ m * x \in Nat
    BY <1>2, <1>4
  <2> QED
    BY <1>2, <1>4, <2>1
<1> QED
  BY <1>3, <1>4 DEF x, y, s

\* What the instance counts with is what the theorems about finite sets speak of.
LEMMA Counting == \A S : Rollups!Cardinality(S) = Cardinality(S)
  BY DEF Rollups!Cardinality, Cardinality

\* What is in two sets that are apart counts twice nowhere.
LEMMA DisjointUnion ==
  ASSUME NEW S, NEW T, IsFiniteSet(S), IsFiniteSet(T), S \cap T = {}
  PROVE  IsFiniteSet(S \cup T) /\ Cardinality(S \cup T) = Cardinality(S) + Cardinality(T)
<1>1. Cardinality(S \cup T) = Cardinality(S) + Cardinality(T) - Cardinality(S \cap T) /\ IsFiniteSet(S \cup T)
  BY FS_Union
<1>2. Cardinality(S) \in Nat /\ Cardinality(T) \in Nat /\ Cardinality(S \cap T) = 0
  BY FS_EmptySet, FS_CardinalityType
<1> QED
  BY <1>1, <1>2

\* The sums of rows that are apart add up.
LEMMA SumsAdd ==
  ASSUME NEW S, NEW T, IsFiniteSet(S), IsFiniteSet(T), S \cap T = {}
  PROVE  Rollups!Sums(S \cup T) = [requests |-> Rollups!Sums(S).requests + Rollups!Sums(T).requests,
                                   failures |-> Rollups!Sums(S).failures + Rollups!Sums(T).failures]
<1> DEFINE F(U) == {e \in U : e.failed}
<1>1. Cardinality(S \cup T) = Cardinality(S) + Cardinality(T)
  BY DisjointUnion
<1>2. Cardinality(F(S \cup T)) = Cardinality(F(S)) + Cardinality(F(T))
  <2>1. IsFiniteSet(F(S)) /\ IsFiniteSet(F(T))
    BY FS_Subset
  <2>2. F(S \cup T) = F(S) \cup F(T) /\ F(S) \cap F(T) = {}
    OBVIOUS
  <2> HIDE DEF F
  <2> QED
    BY <2>1, <2>2, DisjointUnion
<1> QED
  BY <1>1, <1>2, Counting DEF Rollups!Sums

\* No rows, no sums.
LEMMA NoSums == Rollups!Sums({}) = [requests |-> 0, failures |-> 0]
  BY FS_EmptySet, Counting DEF Rollups!Sums

\* The rows of one key.
Of(S, k) == {e \in S : Rollups!Key(e) = k}

\* Grouping gives each key the sums of its rows.
LEMMA GroupedOf ==
  ASSUME NEW S
  PROVE  Rollups!Grouped(S) = [k \in {Rollups!Key(e) : e \in S} |-> Rollups!Sums(Of(S, k))]
  BY DEF Rollups!Grouped, Of

\* Upserting the rows of a batch into the sums of others gives the sums of all.
LEMMA WrittenIsGrouped ==
  ASSUME NEW S, NEW b, IsFiniteSet(S), IsFiniteSet(b), S \cap b = {}
  PROVE  Rollups!Written(Rollups!Grouped(S), b) = Rollups!Grouped(S \cup b)
<1> DEFINE r == Rollups!Grouped(S)
           D == {Rollups!Key(e) : e \in S \cup b}
           Row(k) == LET old == IF k \in DOMAIN r THEN r[k] ELSE Rollups!Sums({})
                         new == Rollups!Sums(Of(b, k))
                     IN  [requests |-> old.requests + new.requests, failures |-> old.failures + new.failures]
<1>1. DOMAIN r = {Rollups!Key(e) : e \in S}
  BY GroupedOf
<1>2. Rollups!Written(r, b) = [k \in D |-> Row(k)]
  <2>1. DOMAIN r \cup {Rollups!Key(e) : e \in b} = D
    BY <1>1
  <2> QED
    BY <2>1 DEF Rollups!Written, Of
<1>3. ASSUME NEW k \in D PROVE Row(k) = Rollups!Sums(Of(S \cup b, k))
  <2>1. (IF k \in DOMAIN r THEN r[k] ELSE Rollups!Sums({})) = Rollups!Sums(Of(S, k))
    <3>1. CASE k \in DOMAIN r
      BY <1>1, <3>1, GroupedOf
    <3>2. CASE k \notin DOMAIN r
      <4>1. Of(S, k) = {}
        BY <1>1, <3>2 DEF Of
      <4> QED
        BY <3>2, <4>1
    <3> QED
      BY <3>1, <3>2
  <2>2. /\ Of(S \cup b, k) = Of(S, k) \cup Of(b, k) /\ Of(S, k) \cap Of(b, k) = {}
        /\ IsFiniteSet(Of(S, k)) /\ IsFiniteSet(Of(b, k))
    BY FS_Subset DEF Of
  <2>3. Rollups!Sums(Of(S, k) \cup Of(b, k))
          = [requests |-> Rollups!Sums(Of(S, k)).requests + Rollups!Sums(Of(b, k)).requests,
             failures |-> Rollups!Sums(Of(S, k)).failures + Rollups!Sums(Of(b, k)).failures]
    BY <2>2, SumsAdd
  <2> QED
    BY <2>1, <2>2, <2>3
<1>4. Rollups!Grouped(S \cup b) = [k \in D |-> Rollups!Sums(Of(S \cup b, k))]
  BY GroupedOf
<1> HIDE DEF Row, D, r
<1>5. [k \in D |-> Row(k)] = [k \in D |-> Rollups!Sums(Of(S \cup b, k))]
  BY <1>3
<1> QED
  BY <1>2, <1>4, <1>5 DEF r

\* An empty table is the one of no rows.
LEMMA EmptyIsGrouped == [k \in {} |-> {}] = Rollups!Grouped({})
  BY DEF Rollups!Grouped

\* A batch has as many rows as it should, with ids not given before.
LEMMA BatchAdds ==
  ASSUME ids \in Nat, NEW n \in Nat, NEW b \in Rollups!Batches(n)
  PROVE  /\ IsFiniteSet(b) /\ Cardinality(b) = n
         /\ \A e \in b : e.id \in (ids + 1)..(ids + n) /\ e.ts \in Nat
<1>1. PICK f \in [1..n -> [ts : Times, model : Models, failed : BOOLEAN]] :
          b = {[id |-> ids + i, ts |-> f[i].ts, model |-> f[i].model, failed |-> f[i].failed] : i \in 1..n}
  BY DEF Rollups!Batches
<1> DEFINE g == [i \in 1..n |-> [id |-> ids + i, ts |-> f[i].ts, model |-> f[i].model, failed |-> f[i].failed]]
<1>2. \A i \in 1..n : g[i].id = ids + i /\ g[i].ts \in Nat /\ g[i] \in b
  BY <1>1, StorePartsAssumption DEF Rollups!RollupStoreAssumption
<1>3. \A e \in b : \E i \in 1..n : g[i] = e
  BY <1>1
<1> HIDE DEF g
<1>4. g \in [1..n -> b]
  BY <1>2 DEF g
<1>5. g \in Bijection(1..n, b)
  <2>1. \A i, j \in 1..n : g[i] = g[j] => i = j
    BY <1>2
  <2> QED
    BY <1>3, <1>4, <2>1 DEF Bijection, Injection, Surjection, IsInjective
<1>6. IsFiniteSet(b) /\ Cardinality(b) = n
  BY <1>5, FS_Bijection, FS_Interval DEF ExistsBijection
<1> QED
  BY <1>2, <1>3, <1>6

\* The invariant: rows have the ids given so far, and the rollups are their sums.
RowsInv ==
    /\ IsFiniteSet(events) /\ ids \in Nat
    /\ \A e \in events : e.id \in 1..ids /\ e.ts \in Nat
    /\ rollups = Rollups!Grouped(events)

\* What a cleanup builds anew or keeps is what is left of each minute.
LEMMA CutIsGrouped ==
  ASSUME RowsInv, NEW cutoff \in Nat
  PROVE  [k \in Rollups!Younger(cutoff) \cup DOMAIN Rollups!Boundary(cutoff) |->
             IF k \in Rollups!Younger(cutoff) THEN rollups[k] ELSE Rollups!Boundary(cutoff)[k]]
         = Rollups!Grouped({e \in events : e.ts >= cutoff})
<1> DEFINE left == {e \in events : e.ts >= cutoff}
           m == cutoff \div Minute
           D == {Rollups!Key(e) : e \in left}
           bd == Rollups!Boundary(cutoff)
           yg == Rollups!Younger(cutoff)
<1>1. Minute \in Nat \ {0}
  BY StorePartsAssumption DEF Rollups!RollupStoreAssumption
<1>2. /\ DOMAIN rollups = {Rollups!Key(e) : e \in events}
      /\ \A k \in DOMAIN rollups : rollups[k] = Rollups!Sums(Of(events, k))
  BY GroupedOf DEF RowsInv
<1>3. \A e : Rollups!Key(e).minute = e.ts \div Minute
  BY DEF Rollups!Key, Rollups!MinuteOf
<1>4. ASSUME NEW e \in events PROVE /\ e.ts >= cutoff => e.ts \div Minute >= m
                                    /\ e.ts \div Minute > m => e.ts >= cutoff
                                    /\ e.ts \div Minute = m /\ cutoff % Minute = 0 => e.ts >= cutoff
                                    /\ e.ts \div Minute \in Nat /\ m \in Nat
  <2>1. e.ts \in Nat
    BY DEF RowsInv
  <2>2. /\ e.ts \div Minute < cutoff \div Minute => e.ts < cutoff
        /\ cutoff \div Minute < e.ts \div Minute => cutoff < e.ts
        /\ cutoff \div Minute = e.ts \div Minute /\ cutoff % Minute = 0 => cutoff <= e.ts
        /\ e.ts \div Minute \in Nat /\ cutoff \div Minute \in Nat
    BY <1>1, <2>1, DivisionInOrder, Division
  <2> QED
    BY <2>1, <2>2
<1>5. ASSUME NEW k PROVE (k \in yg => k.minute > m) /\ (k \in DOMAIN bd => k.minute = m)
  BY <1>3 DEF Rollups!Younger, Rollups!Boundary, Rollups!Grouped, Rollups!MinuteOf
<1>6. ASSUME NEW k, k.minute > m PROVE k \in yg <=> k \in D
  BY <1>2, <1>3, <1>4, <1>6 DEF Rollups!Younger
<1>7. ASSUME NEW k \in yg PROVE rollups[k] = Rollups!Sums(Of(left, k))
  <2>1. k \in DOMAIN rollups /\ k.minute > m
    BY DEF Rollups!Younger
  <2>2. Of(left, k) = Of(events, k)
    BY <1>3, <1>4, <2>1 DEF Of
  <2> QED
    BY <1>2, <2>1, <2>2
<1>8. (\A k \in DOMAIN bd : k \in D /\ bd[k] = Rollups!Sums(Of(left, k))) /\ (\A k \in D : k.minute = m => k \in DOMAIN bd)
  <2>1. CASE cutoff % Minute = 0
    <3>1. bd = [k \in {x \in DOMAIN rollups : x.minute = m} |-> rollups[k]]
      BY <2>1 DEF Rollups!Boundary
    <3>2. ASSUME NEW k \in DOMAIN rollups, k.minute = m PROVE Of(left, k) = Of(events, k) /\ k \in D
      BY <1>2, <1>3, <1>4, <2>1, <3>2 DEF Of
    <3>3. D \subseteq DOMAIN rollups
      BY <1>2
    <3> QED
      BY <1>2, <3>1, <3>2, <3>3
  <2>2. CASE cutoff % Minute # 0
    <3> DEFINE B == {e \in events : e.ts >= cutoff /\ Rollups!MinuteOf(e) = m}
    <3>1. bd = [k \in {Rollups!Key(e) : e \in B} |-> Rollups!Sums(Of(B, k))]
      BY <2>2, GroupedOf DEF Rollups!Boundary
    <3>2. \A e : Rollups!MinuteOf(e) = Rollups!Key(e).minute
      BY DEF Rollups!Key
    <3>3. ASSUME NEW k, k.minute = m PROVE Of(B, k) = Of(left, k)
      BY <3>2, <3>3 DEF Of
    <3>4. ASSUME NEW e \in B PROVE Rollups!Key(e) \in D /\ Rollups!Key(e).minute = m
      BY <3>2
    <3>5. ASSUME NEW k \in D, k.minute = m PROVE k \in {Rollups!Key(e) : e \in B}
      BY <3>2, <3>5
    <3> HIDE DEF B, D
    <3> QED
      BY <3>1, <3>3, <3>4, <3>5
  <2> QED
    BY <2>1, <2>2
<1>9. \A k \in D : k.minute = m \/ k.minute > m
  BY <1>3, <1>4
<1> HIDE DEF D, bd, yg
<1>10. DOMAIN bd \cup yg = D
  BY <1>5, <1>6, <1>8, <1>9
<1>11. [k \in yg \cup DOMAIN bd |-> IF k \in yg THEN rollups[k] ELSE bd[k]]
            = [k \in D |-> Rollups!Sums(Of(left, k))]
  BY <1>7, <1>8, <1>10
<1> QED
  BY <1>11, GroupedOf DEF D, bd, yg

\* A batch and a restore keep it,
LEMMA StoreKeeps ==
  ASSUME RowsInv, NEW n \in Nat, NEW b \in Rollups!Batches(n),
         Rollups!WriteBatch(b) \/ Rollups!RestoreBackup(b)
  PROVE  RowsInv'
<1>1. /\ IsFiniteSet(b) /\ Cardinality(b) = n
      /\ \A e \in b : e.id \in (ids + 1)..(ids + n) /\ e.ts \in Nat
  BY BatchAdds DEF RowsInv
<1>2. ids' = ids + n
  BY <1>1, Counting DEF Rollups!WriteBatch, Rollups!RestoreBackup
<1>3. CASE Rollups!WriteBatch(b)
  <2>1. events \cap b = {}
    BY <1>1 DEF RowsInv
  <2>2. events' = events \cup b /\ rollups' = Rollups!Written(rollups, b)
    BY <1>3 DEF Rollups!WriteBatch
  <2>3. rollups' = Rollups!Grouped(events')
    BY <1>1, <2>1, <2>2, WrittenIsGrouped DEF RowsInv
  <2>4. IsFiniteSet(events')
    BY <1>1, <2>2, FS_Union DEF RowsInv
  <2> QED
    BY <1>1, <1>2, <2>2, <2>3, <2>4 DEF RowsInv
<1>4. CASE Rollups!RestoreBackup(b)
  <2>1. events' = b /\ rollups' = Rollups!Written([k \in {} |-> {}], b)
    BY <1>4 DEF Rollups!RestoreBackup
  <2>2. rollups' = Rollups!Grouped({} \cup b)
    BY <1>1, <2>1, EmptyIsGrouped, WrittenIsGrouped, FS_EmptySet
  <2> QED
    BY <1>1, <1>2, <2>1, <2>2 DEF RowsInv
<1> QED
  BY <1>3, <1>4

\* and so does a cleanup at any millisecond.
LEMMA CutKeeps ==
  ASSUME RowsInv, NEW cutoff \in Nat, Rollups!Prune(cutoff)
  PROVE  RowsInv'
<1>1. /\ events' = {e \in events : e.ts >= cutoff} /\ ids' = ids
      /\ rollups' = [k \in Rollups!Younger(cutoff) \cup DOMAIN Rollups!Boundary(cutoff) |->
             IF k \in Rollups!Younger(cutoff) THEN rollups[k] ELSE Rollups!Boundary(cutoff)[k]]
  BY DEF Rollups!Prune
<1>2. rollups' = Rollups!Grouped(events')
  BY <1>1, CutIsGrouped
<1>3. IsFiniteSet(events')
  BY <1>1, FS_Subset DEF RowsInv
<1> QED
  BY <1>1, <1>2, <1>3 DEF RowsInv

\* The invariant of the rows, for any models, length of a minute, timestamps and bounds, whatever
\* metrics and prices do.
THEOREM RowsInvariant == Spec => []RowsInv
<1>1. Init => RowsInv
  BY FS_EmptySet, EmptyIsGrouped DEF Init, Rollups!Init, RowsInv
<1>2. RowsInv /\ [Next]_vars => RowsInv'
  <2> SUFFICES ASSUME RowsInv, [Next]_vars PROVE RowsInv'
    OBVIOUS
  <2>1. CASE Rollups!Next
    <3>1. ASSUME NEW m, NEW n \in 1..m, NEW b \in Rollups!Batches(n), Rollups!WriteBatch(b)
          PROVE  RowsInv'
      BY <3>1, StoreKeeps
    <3>2. ASSUME NEW m, NEW n \in 0..m, NEW b \in Rollups!Batches(n), Rollups!RestoreBackup(b)
          PROVE  RowsInv'
      BY <3>2, StoreKeeps
    <3>3. ASSUME NEW cutoff \in Bounds, Rollups!Prune(cutoff)
          PROVE  RowsInv'
      BY <3>3, CutKeeps, StorePartsAssumption DEF Rollups!RollupStoreAssumption
    <3>4. CASE UNCHANGED <<events, rollups, ids>>
      BY <3>4 DEF RowsInv
    <3>5. ASSUME NEW w \in Windows,
                 Rollups!DimensionBegins(w) \/ Rollups!AllBegins(w)
                 \/ \E page \in 1..(MaxPage + 1), size \in PageSizes : Rollups!EventsBegin(w, page, size)
          PROVE  UNCHANGED <<events, rollups, ids>>
      BY <3>5 DEF Rollups!DimensionBegins, Rollups!AllBegins, Rollups!EventsBegin, Rollups!Begin,
         Rollups!storeVars
    <3>6. ASSUME Rollups!DimensionEnds \/ Rollups!AllEnds \/ Rollups!EventsEnd
          PROVE  UNCHANGED <<events, rollups, ids>>
      BY <3>6 DEF Rollups!DimensionEnds, Rollups!AllEnds, Rollups!EventsEnd, Rollups!Answer,
         Rollups!storeVars
    <3> QED
      BY <2>1, <3>1, <3>2, <3>3, <3>4, <3>5, <3>6 DEF Rollups!Next
  <2>2. CASE UNCHANGED rollupVars
    BY <2>2 DEF rollupVars, RowsInv
  <2>3. Rollups!Next \/ UNCHANGED rollupVars
    BY DEF Next, RollupsMove, StatusMoves, PricesMove, vars
  <2> QED
    BY <2>1, <2>2, <2>3
<1> QED
  BY <1>1, <1>2, PTL DEF Spec

\* After any writes, restores and cleanups the rollups are the sums of the events that are left
\* (storage.go:393).
THEOREM RollupsCorrect == Spec => []RollupsAreSums
<1>1. RowsInv => RollupsAreSums
  BY DEF RowsInv, RollupsAreSums, Rollups!RollupsAreSums
<1> QED
  BY <1>1, RowsInvariant, PTL

-----------------------------------------------------------------------------
(* The queries.                                                            *)

\* Every set of numbers that is not empty has a least one.
LEMMA LeastElement ==
  ASSUME NEW S \in SUBSET Nat, S # {}
  PROVE  \E n \in S : \A m \in S : n <= m
<1> DEFINE R == {ss \in Nat \X Nat : ss[1] < ss[2]}
<1>1. \A m, n \in Nat : m < n => <<m, n>> \in R
  OBVIOUS
<1>2. IsWellFoundedOn(R, Nat)
  BY NatLessThanWellFounded DEF OpToRel
<1>3. \E x \in S : \A y \in S : ~ (<<y, x>> \in R)
  BY <1>2, WFMin
<1> HIDE DEF R
<1>4. PICK n \in S : \A y \in S : ~ (<<y, n>> \in R)
  BY <1>3
<1>5. \A m \in S : ~ (m < n)
  BY <1>1, <1>4
<1> QED
  BY <1>5

\* What two functions of the subsets of a finite set have in common for each set as soon as
\* they have it for the set without one of its elements, they have in common for all.
LEMMA ElementByElement ==
  ASSUME NEW K, IsFiniteSet(K), NEW f, NEW g, f[{}] = g[{}],
         \A s \in SUBSET K : s # {} => \E x \in s : f[s \ {x}] = g[s \ {x}] => f[s] = g[s]
  PROVE  f[K] = g[K]
<1> DEFINE Bad == {n \in Nat : \E s \in SUBSET K : Cardinality(s) = n /\ f[s] # g[s]}
<1>1. \A s \in SUBSET K : IsFiniteSet(s) /\ Cardinality(s) \in Nat
  BY FS_Subset, FS_CardinalityType
<1>2. Bad = {}
  <2> SUFFICES ASSUME Bad # {} PROVE FALSE
    OBVIOUS
  <2>1. PICK n \in Bad : \A m \in Bad : n <= m
    BY LeastElement
  <2>2. PICK s \in SUBSET K : Cardinality(s) = n /\ f[s] # g[s]
    BY <2>1
  <2>3. PICK x \in s : f[s \ {x}] = g[s \ {x}] => f[s] = g[s]
    BY <2>2
  <2>4. Cardinality(s \ {x}) = n - 1 /\ s \ {x} \in SUBSET K
    BY <1>1, <2>2, FS_RemoveElement
  <2>7. n - 1 \in Nat
    BY <1>1, <2>4
  <2>5. n - 1 \in Bad
    BY <2>2, <2>3, <2>4, <2>7
  <2>6. n \in Nat /\ n <= n - 1
    BY <2>1, <2>5
  <2> QED
    BY <2>6
<1> QED
  BY <1>1, <1>2

\* The rows whose keys are in s, counted.
Those(s) == {e \in events : Rollups!Key(e) \in s}
FailedOf(S) == {e \in S : e.failed}

\* Without one of the keys there are as many rows less as its rollup says.
LEMMA ThoseRemoved ==
  ASSUME RowsInv, NEW s \in SUBSET DOMAIN rollups, NEW x \in s
  PROVE  /\ Cardinality(Those(s)) = rollups[x].requests + Cardinality(Those(s \ {x}))
         /\ Cardinality(FailedOf(Those(s))) = rollups[x].failures + Cardinality(FailedOf(Those(s \ {x})))
<1>1. rollups[x] = Rollups!Sums(Of(events, x))
  BY GroupedOf DEF RowsInv
<1>2. rollups[x].requests = Cardinality(Of(events, x))
      /\ rollups[x].failures = Cardinality(FailedOf(Of(events, x)))
  BY <1>1, Counting DEF Rollups!Sums, FailedOf
<1>3. IsFiniteSet(events)
  BY DEF RowsInv
<1>4. /\ Those(s) = Of(events, x) \cup Those(s \ {x}) /\ Of(events, x) \cap Those(s \ {x}) = {}
      /\ IsFiniteSet(Of(events, x)) /\ IsFiniteSet(Those(s \ {x}))
  BY <1>3, FS_Subset DEF Those, Of
<1>5. /\ FailedOf(Those(s)) = FailedOf(Of(events, x)) \cup FailedOf(Those(s \ {x}))
      /\ FailedOf(Of(events, x)) \cap FailedOf(Those(s \ {x})) = {}
      /\ IsFiniteSet(FailedOf(Of(events, x))) /\ IsFiniteSet(FailedOf(Those(s \ {x})))
  BY <1>4, FS_Subset DEF FailedOf
<1>6. Cardinality(Those(s)) = Cardinality(Of(events, x)) + Cardinality(Those(s \ {x}))
  BY <1>4, DisjointUnion
<1>7. Cardinality(FailedOf(Those(s))) = Cardinality(FailedOf(Of(events, x))) + Cardinality(FailedOf(Those(s \ {x})))
  BY <1>5, DisjointUnion
<1> QED
  BY <1>2, <1>6, <1>7

\* There are finitely many rows of rollups.
LEMMA KeysFinite ==
  ASSUME RowsInv
  PROVE  IsFiniteSet(DOMAIN rollups)
<1> DEFINE key == [e \in events |-> Rollups!Key(e)]
<1>1. DOMAIN rollups = {Rollups!Key(e) : e \in events} /\ IsFiniteSet(events)
  BY GroupedOf DEF RowsInv
<1>2. key \in Surjection(events, DOMAIN rollups)
  BY <1>1 DEF Surjection
<1> QED
  BY <1>1, <1>2, FS_Surjection

\* Adding up rows of rollups counts the events with their keys.
LEMMA RequestsCount ==
  ASSUME RowsInv, NEW K \in SUBSET DOMAIN rollups
  PROVE  Rollups!Requests(K) = Cardinality(Those(K))
<1> DEFINE Add(f) == [s \in SUBSET K |-> IF s = {} THEN 0
                         ELSE rollups[CHOOSE x \in s : TRUE].requests + f[s \ {CHOOSE x \in s : TRUE}]]
           sum == CHOOSE f : f = Add(f)
           count == [s \in SUBSET K |-> Cardinality(Those(s))]
<1>1. Rollups!Requests(K) = sum[K]
  BY DEF Rollups!Requests, Rollups!MapThenSumSet, Rollups!MapThenFoldSet
<1>2. count[{}] = 0
  BY FS_EmptySet DEF Those
<1>3. ASSUME NEW s \in SUBSET K, s # {}
      PROVE  LET x == CHOOSE x \in s : TRUE
             IN  x \in s /\ s \ {x} \in SUBSET K /\ count[s] = rollups[x].requests + count[s \ {x}]
  <2> DEFINE x == CHOOSE x \in s : TRUE
  <2>1. x \in s
    BY <1>3
  <2> HIDE DEF x
  <2>2. s \ {x} \in SUBSET K /\ s \in SUBSET DOMAIN rollups
    OBVIOUS
  <2>3. Cardinality(Those(s)) = rollups[x].requests + Cardinality(Those(s \ {x}))
    BY <2>1, <2>2, ThoseRemoved
  <2>4. count[s] = rollups[x].requests + count[s \ {x}]
    BY <2>2, <2>3
  <2> QED
    BY <2>1, <2>2, <2>4 DEF x
<1>4. count = Add(count)
  <2>1. count = [s \in SUBSET K |-> count[s]]
    OBVIOUS
  <2> HIDE DEF count
  <2> QED
    BY <1>2, <1>3, <2>1
<1>5. sum = Add(sum)
  <2> HIDE DEF count, Add
  <2> QED
    BY <1>4
<1>6. sum[{}] = 0
  <2> HIDE DEF sum
  <2> QED
    BY <1>5
<1>7. ASSUME NEW s \in SUBSET K, s # {}
      PROVE  \E x \in s : sum[s \ {x}] = count[s \ {x}] => sum[s] = count[s]
  <2> DEFINE x == CHOOSE x \in s : TRUE
  <2>1. x \in s /\ s \ {x} \in SUBSET K /\ count[s] = rollups[x].requests + count[s \ {x}]
    <3> HIDE DEF count
    <3> QED
      BY <1>3, <1>7
  <2>2. sum[s] = rollups[x].requests + sum[s \ {x}]
    <3> HIDE DEF sum
    <3> QED
      BY <1>5, <1>7
  <2> HIDE DEF x, sum, count
  <2> QED
    BY <2>1, <2>2
<1>8. IsFiniteSet(K)
  BY KeysFinite, FS_Subset
<1>9. sum[K] = count[K]
  <2>1. sum[{}] = count[{}]
    BY <1>2, <1>6
  <2>2. \A s \in SUBSET K : s # {} => \E x \in s : sum[s \ {x}] = count[s \ {x}] => sum[s] = count[s]
    BY <1>7
  <2> HIDE DEF sum, count, Add
  <2> QED
    BY <1>8, <2>1, <2>2, ElementByElement
<1> QED
  BY <1>1, <1>9

\* And adding up failures counts the failed ones.
LEMMA FailuresCount ==
  ASSUME RowsInv, NEW K \in SUBSET DOMAIN rollups
  PROVE  Rollups!Failures(K) = Cardinality(FailedOf(Those(K)))
<1> DEFINE Add(f) == [s \in SUBSET K |-> IF s = {} THEN 0
                         ELSE rollups[CHOOSE x \in s : TRUE].failures + f[s \ {CHOOSE x \in s : TRUE}]]
           sum == CHOOSE f : f = Add(f)
           count == [s \in SUBSET K |-> Cardinality(FailedOf(Those(s)))]
<1>1. Rollups!Failures(K) = sum[K]
  BY DEF Rollups!Failures, Rollups!MapThenSumSet, Rollups!MapThenFoldSet
<1>2. count[{}] = 0
  BY FS_EmptySet DEF FailedOf, Those
<1>3. ASSUME NEW s \in SUBSET K, s # {}
      PROVE  LET x == CHOOSE x \in s : TRUE
             IN  x \in s /\ s \ {x} \in SUBSET K /\ count[s] = rollups[x].failures + count[s \ {x}]
  <2> DEFINE x == CHOOSE x \in s : TRUE
  <2>1. x \in s
    BY <1>3
  <2> HIDE DEF x
  <2>2. s \ {x} \in SUBSET K /\ s \in SUBSET DOMAIN rollups
    OBVIOUS
  <2>3. Cardinality(FailedOf(Those(s))) = rollups[x].failures + Cardinality(FailedOf(Those(s \ {x})))
    BY <2>1, <2>2, ThoseRemoved
  <2>4. count[s] = rollups[x].failures + count[s \ {x}]
    BY <2>2, <2>3
  <2> QED
    BY <2>1, <2>2, <2>4 DEF x
<1>4. count = Add(count)
  <2>1. count = [s \in SUBSET K |-> count[s]]
    OBVIOUS
  <2> HIDE DEF count
  <2> QED
    BY <1>2, <1>3, <2>1
<1>5. sum = Add(sum)
  <2> HIDE DEF count, Add
  <2> QED
    BY <1>4
<1>6. sum[{}] = 0
  <2> HIDE DEF sum
  <2> QED
    BY <1>5
<1>7. ASSUME NEW s \in SUBSET K, s # {}
      PROVE  \E x \in s : sum[s \ {x}] = count[s \ {x}] => sum[s] = count[s]
  <2> DEFINE x == CHOOSE x \in s : TRUE
  <2>1. x \in s /\ s \ {x} \in SUBSET K /\ count[s] = rollups[x].failures + count[s \ {x}]
    <3> HIDE DEF count
    <3> QED
      BY <1>3, <1>7
  <2>2. sum[s] = rollups[x].failures + sum[s \ {x}]
    <3> HIDE DEF sum
    <3> QED
      BY <1>5, <1>7
  <2> HIDE DEF x, sum, count
  <2> QED
    BY <2>1, <2>2
<1>8. IsFiniteSet(K)
  BY KeysFinite, FS_Subset
<1>9. sum[K] = count[K]
  <2>1. sum[{}] = count[{}]
    BY <1>2, <1>6
  <2>2. \A s \in SUBSET K : s # {} => \E x \in s : sum[s \ {x}] = count[s \ {x}] => sum[s] = count[s]
    BY <1>7
  <2> HIDE DEF sum, count, Add
  <2> QED
    BY <1>8, <2>1, <2>2, ElementByElement
<1> QED
  BY <1>1, <1>9

\* A quotient is less than n exactly for the numbers before the multiple.
LEMMA BeforeMultiple ==
  ASSUME NEW t \in Nat, NEW n \in Nat, NEW m \in Nat \ {0}
  PROVE  t \div m < n <=> t < m * n
<1> DEFINE x == t \div m  r == t % m
<1>1. x \in Nat /\ r \in 0..(m - 1) /\ t = m * x + r
  BY Division
<1> HIDE DEF x, r
<1>2. ASSUME x < n PROVE t < m * n
  <2>1. m * x + m <= m * n /\ m * x \in Nat /\ m * n \in Nat
    BY <1>1, <1>2, Products
  <2> QED
    BY <1>1, <2>1
<1>3. ASSUME n < x PROVE ~(t < m * n)
  <2>1. m * n + m <= m * x /\ m * x \in Nat /\ m * n \in Nat
    BY <1>1, <1>3, Products
  <2> QED
    BY <1>1, <2>1
<1>4. ASSUME n = x PROVE ~(t < m * n)
  <2>1. m * n = m * x /\ m * x \in Nat
    BY <1>1, <1>4
  <2> QED
    BY <1>1, <2>1
<1>5. x < n \/ n < x \/ n = x
  BY <1>1
<1>6. x < n => ~(n < x) /\ n # x
  BY <1>1
<1> QED
  BY <1>2, <1>3, <1>4, <1>5, <1>6 DEF x

\* Where the full minutes of a range begin and end.
LEMMA FullEnds ==
  ASSUME NEW from \in Nat, NEW to \in Nat
  PROVE  /\ Rollups!FullFrom(from) \in Nat /\ Rollups!FullTo(to) \in Int /\ Rollups!FullTo(to) + 1 \in Nat
         /\ Minute * Rollups!FullFrom(from) \in Nat /\ from <= Minute * Rollups!FullFrom(from)
         /\ Minute * (Rollups!FullTo(to) + 1) \in Nat /\ Minute * (Rollups!FullTo(to) + 1) <= to + 1
<1>1. Minute \in Nat \ {0}
  BY StorePartsAssumption DEF Rollups!RollupStoreAssumption
<1>2. /\ Rollups!FullFrom(from) \in Nat /\ Minute * Rollups!FullFrom(from) \in Nat
      /\ from <= Minute * Rollups!FullFrom(from)
  <2>1. PICK q \in Nat, r \in 0..(Minute - 1) : q = from \div Minute /\ r = from % Minute /\ from = Minute * q + r
    BY <1>1, Division
  <2>2. Minute * q \in Nat /\ Minute * (q + 1) = Minute * q + Minute
    BY <1>1
  <2>3. Rollups!FullFrom(from) = q + (IF r # 0 THEN 1 ELSE 0)
    BY <2>1 DEF Rollups!FullFrom
  <2>4. CASE r = 0
    <3>1. Rollups!FullFrom(from) = q
      BY <2>3, <2>4
    <3> QED
      BY <2>1, <2>2, <2>4, <3>1
  <2>5. CASE r # 0
    <3>1. Rollups!FullFrom(from) = q + 1
      BY <2>3, <2>5
    <3> QED
      BY <1>1, <2>1, <2>2, <3>1
  <2> QED
    BY <2>4, <2>5
<1>3. /\ Rollups!FullTo(to) \in Int /\ Rollups!FullTo(to) + 1 \in Nat
      /\ Minute * (Rollups!FullTo(to) + 1) \in Nat /\ Minute * (Rollups!FullTo(to) + 1) <= to + 1
  <2>1. PICK q \in Nat, r \in 0..(Minute - 1) : q = to \div Minute /\ r = to % Minute /\ to = Minute * q + r
    BY <1>1, Division
  <2>2. Minute * q \in Nat /\ Minute * (q + 1) = Minute * q + Minute
    BY <1>1
  <2>3. Rollups!FullTo(to) = q - (IF r # Minute - 1 THEN 1 ELSE 0)
    BY <2>1 DEF Rollups!FullTo
  <2>4. CASE r = Minute - 1
    <3>1. Rollups!FullTo(to) = q
      BY <2>3, <2>4
    <3> QED
      BY <1>1, <2>1, <2>2, <2>4, <3>1
  <2>5. CASE r # Minute - 1
    <3>1. Rollups!FullTo(to) = q - 1
      BY <2>3, <2>5
    <3>2. (q - 1) + 1 = q
      OBVIOUS
    <3> QED
      BY <2>1, <2>2, <3>1, <3>2
  <2> QED
    BY <2>4, <2>5
<1> QED
  BY <1>2, <1>3

OnEdge(t, from, to) == \E r \in Rollups!Edges(from, to) : r.from <= t /\ t <= r.to

\* Full minutes and edges divide a range.
LEMMA RangeDivided ==
  ASSUME NEW from \in Nat, NEW to \in Nat, from <= to, NEW t \in Nat
  PROVE  LET full == t \div Minute \in Rollups!FullMinutes(from, to)
         IN  /\ from <= t /\ t <= to <=> full \/ OnEdge(t, from, to)
             /\ ~(full /\ OnEdge(t, from, to))
<1> DEFINE F == Rollups!FullFrom(from)  T == Rollups!FullTo(to)
<1>1. Minute \in Nat \ {0}
  BY StorePartsAssumption DEF Rollups!RollupStoreAssumption
<1>2. F \in Nat /\ T \in Int /\ T + 1 \in Nat
  BY FullEnds
<1>3. PICK a \in Nat : a = F * Minute /\ a = Minute * F /\ from <= a
  BY <1>1, <1>2, FullEnds
<1>4. PICK z \in Nat : z = (T + 1) * Minute /\ z = Minute * (T + 1) /\ z <= to + 1
  BY <1>1, <1>2, FullEnds
<1> HIDE DEF F, T
<1>5. (t \div Minute < F <=> t < a) /\ (t \div Minute < T + 1 <=> t < z) /\ t \div Minute \in Nat
  <2>1. t \div Minute < F <=> t < Minute * F
    BY <1>1, <1>2, BeforeMultiple
  <2>2. t \div Minute < T + 1 <=> t < Minute * (T + 1)
    BY <1>1, <1>2, BeforeMultiple
  <2> QED
    BY <1>1, <1>3, <1>4, <2>1, <2>2, Division
<1>6. t \div Minute \in Rollups!FullMinutes(from, to) <=> a <= t /\ t < z
  <2>1. t \div Minute \in Rollups!FullMinutes(from, to) <=> F <= t \div Minute /\ t \div Minute <= T
    BY <1>2, <1>5 DEF Rollups!FullMinutes, F, T
  <2> QED
    BY <1>2, <1>3, <1>4, <1>5, <2>1
<1>7. Rollups!Edges(from, to) =
          IF F > T THEN {[from |-> from, to |-> to]}
          ELSE {r \in {[from |-> from, to |-> a - 1], [from |-> z, to |-> to]} : r.from <= r.to}
  BY <1>3, <1>4 DEF Rollups!Edges, F, T
<1>8. CASE F > T
  <2>1. OnEdge(t, from, to) <=> from <= t /\ t <= to
    <3>1. Rollups!Edges(from, to) = {[from |-> from, to |-> to]}
      BY <1>7, <1>8
    <3> QED
      BY <3>1 DEF OnEdge
  <2>2. z <= a
    <3>1. T + 1 < F \/ T + 1 = F
      BY <1>2, <1>8
    <3>2. T + 1 < F => Minute * (T + 1) + Minute <= Minute * F
      BY <1>1, <1>2, Products
    <3> QED
      BY <1>1, <1>3, <1>4, <3>1, <3>2
  <2> QED
    BY <1>3, <1>4, <1>6, <2>1, <2>2
<1>9. CASE ~(F > T)
  <2>1. OnEdge(t, from, to) <=> (from <= t /\ t <= a - 1) \/ (z <= t /\ t <= to)
    <3> DEFINE low == [from |-> from, to |-> a - 1]  high == [from |-> z, to |-> to]
    <3>1. Rollups!Edges(from, to) = {r \in {low, high} : r.from <= r.to}
      BY <1>7, <1>9
    <3>2. low.from = from /\ low.to = a - 1 /\ high.from = z /\ high.to = to
      OBVIOUS
    <3> HIDE DEF low, high
    <3>3. OnEdge(t, from, to) <=>
             (low.from <= low.to /\ low.from <= t /\ t <= low.to)
             \/ (high.from <= high.to /\ high.from <= t /\ t <= high.to)
      BY <3>1 DEF OnEdge
    <3> QED
      BY <1>3, <1>4, <3>2, <3>3
  <2>2. a <= z
    <3>1. F < T + 1 => Minute * F + Minute <= Minute * (T + 1)
      BY <1>1, <1>2, Products
    <3> QED
      BY <1>1, <1>2, <1>3, <1>4, <1>9, <3>1
  <2> QED
    BY <1>3, <1>4, <1>6, <2>1, <2>2
<1> QED
  BY <1>8, <1>9

\* The part of a set of events in full minutes of a range, and the part at its edges.
Inside(S, from, to) == {e \in S : Rollups!MinuteOf(e) \in Rollups!FullMinutes(from, to)}
Outside(S, from, to) == {e \in S : OnEdge(e.ts, from, to)}

\* What of a set of events is in a range is in full minutes or at the edges, and counted once.
LEMMA Halves ==
  ASSUME NEW S, IsFiniteSet(S), \A e \in S : e.ts \in Nat,
         NEW from \in Nat, NEW to \in Nat, from <= to
  PROVE  /\ Rollups!InRange(S, from, to) = Inside(S, from, to) \cup Outside(S, from, to)
         /\ Inside(S, from, to) \cap Outside(S, from, to) = {}
         /\ IsFiniteSet(Inside(S, from, to)) /\ IsFiniteSet(Outside(S, from, to))
         /\ Cardinality(Rollups!InRange(S, from, to))
              = Cardinality(Inside(S, from, to)) + Cardinality(Outside(S, from, to))
         /\ Cardinality(Inside(S, from, to)) \in Nat /\ Cardinality(Outside(S, from, to)) \in Nat
<1>1. ASSUME NEW e \in S
      PROVE  LET full == Rollups!MinuteOf(e) \in Rollups!FullMinutes(from, to)
             IN  /\ from <= e.ts /\ e.ts <= to <=> full \/ OnEdge(e.ts, from, to)
                 /\ ~(full /\ OnEdge(e.ts, from, to))
  BY RangeDivided DEF Rollups!MinuteOf
<1>2. /\ Rollups!InRange(S, from, to) = Inside(S, from, to) \cup Outside(S, from, to)
      /\ Inside(S, from, to) \cap Outside(S, from, to) = {}
  BY <1>1 DEF Rollups!InRange, Inside, Outside
<1>3. IsFiniteSet(Inside(S, from, to)) /\ IsFiniteSet(Outside(S, from, to))
  BY FS_Subset DEF Inside, Outside
<1> QED
  BY <1>2, <1>3, DisjointUnion, FS_CardinalityType

\* Each event has its row of rollups, and the rows of some minutes have their events.
LEMMA RowsOfMinutes ==
  ASSUME RowsInv, NEW M
  PROVE  /\ Rollups!RowsOf(M) \in SUBSET DOMAIN rollups
         /\ Those(Rollups!RowsOf(M)) = {e \in events : Rollups!MinuteOf(e) \in M}
<1>1. DOMAIN rollups = {Rollups!Key(e) : e \in events}
  BY GroupedOf DEF RowsInv
<1>2. \A e : Rollups!Key(e).minute = Rollups!MinuteOf(e)
  BY DEF Rollups!Key
<1> QED
  BY <1>1, <1>2 DEF Rollups!RowsOf, Those

\* The rollups of the full minutes count the events in them.
LEMMA InsideCount ==
  ASSUME RowsInv, NEW from, NEW to
  PROVE  Rollups!Requests(Rollups!RowsOf(Rollups!FullMinutes(from, to))) = Cardinality(Inside(events, from, to))
  BY RequestsCount, RowsOfMinutes DEF Inside

\* The events read at the edges are those outside the full minutes.
LEMMA AtEdgesIsOutside ==
  ASSUME NEW from, NEW to
  PROVE  Rollups!AtEdges(from, to) = Outside(events, from, to)
  BY DEF Rollups!AtEdges, Outside, OnEdge

\* The count of any range is the number of its events.
LEMMA Counts ==
  ASSUME RowsInv, NEW from \in Nat, NEW to \in Nat, from <= to
  PROVE  Rollups!Count(from, to) = Cardinality(Rollups!InRange(events, from, to))
<1>1. Rollups!Count(from, to) = Cardinality(Inside(events, from, to)) + Cardinality(Outside(events, from, to))
  BY InsideCount, AtEdgesIsOutside, Counting DEF Rollups!Count
<1>2. IsFiniteSet(events) /\ \A e \in events : e.ts \in Nat
  BY DEF RowsInv
<1> QED
  BY <1>1, <1>2, Halves

\* The bounds of the ranges that are asked for.
LEMMA RangesAre ==
  ASSUME NEW r \in Rollups!RangesAsked
  PROVE  r.from \in Nat /\ r.to \in Nat /\ r.from <= r.to
BY StorePartsAssumption DEF Rollups!RollupStoreAssumption, Rollups!RangesAsked, Rollups!Pairs

\* So is that of all ranges that are asked for (query.go:903).
LEMMA CountIsExact ==
  ASSUME RowsInv
  PROVE  Rollups!CountIsExact
<1> SUFFICES ASSUME NEW r \in Rollups!RangesAsked
             PROVE  Rollups!Count(r.from, r.to) = Rollups!Cardinality(Rollups!InRange(events, r.from, r.to))
  BY DEF Rollups!CountIsExact
<1>1. r.from \in Nat /\ r.to \in Nat /\ r.from <= r.to
  BY RangesAre
<1> QED
  BY <1>1, Counts, Counting

-----------------------------------------------------------------------------
(* Buckets.                                                                *)

\* Multiples of different numbers are a whole multiplier apart, also below zero.
LEMMA ProductsBelow ==
  ASSUME NEW x \in Int, NEW y \in Int, NEW m \in Nat \ {0}, x < y
  PROVE  m * x + m <= m * y /\ m * x \in Int /\ m * y \in Int
<1>1. m * (y - x - 1) >= 0 /\ m * y = m * x + m + m * (y - x - 1)
  OBVIOUS
<1> QED
  BY <1>1

Multiple(a, m) == \E q \in Int : a = m * q

\* Who leaves no remainder is a multiple.
LEMMA Multiples ==
  ASSUME NEW a \in Int, NEW m \in Nat \ {0}
  PROVE  a % m = 0 <=> Multiple(a, m)
<1>1. PICK d \in Int, r \in 0..(m - 1) : r = a % m /\ a = m * d + r
  <2>1. a \div m \in Int /\ a % m \in 0..(m - 1)
    OBVIOUS
  <2>2. a = m * (a \div m) + (a % m)
    OBVIOUS
  <2> QED
    BY <2>1, <2>2
<1>2. m * d \in Int
  OBVIOUS
<1>3. ASSUME r = 0 PROVE Multiple(a, m)
  <2>1. a = m * d
    BY <1>1, <1>2, <1>3
  <2> QED
    BY <2>1 DEF Multiple
<1>4. ASSUME NEW q \in Int, a = m * q PROVE r = 0
  <2>1. d < q => m * d + m <= m * q
    BY ProductsBelow
  <2>2. q < d => m * q + m <= m * d
    BY ProductsBelow
  <2>3. m * q \in Int /\ (d = q => m * d = m * q)
    OBVIOUS
  <2> QED
    BY <1>1, <1>2, <1>4, <2>1, <2>2, <2>3
<1>5. Multiple(a, m) => r = 0
  BY <1>4 DEF Multiple
<1> QED
  BY <1>1, <1>3, <1>5

\* Sums and differences of multiples are multiples.
LEMMA MultiplesAdd ==
  ASSUME NEW a \in Int, NEW b \in Int, NEW m \in Nat \ {0}, Multiple(a, m), Multiple(b, m)
  PROVE  Multiple(a + b, m) /\ Multiple(a - b, m)
<1>1. PICK p \in Int : a = m * p
  BY DEF Multiple
<1>2. PICK q \in Int : b = m * q
  BY DEF Multiple
<1>3. a + b = m * (p + q) /\ a - b = m * (p - q)
  BY <1>1, <1>2
<1>4. p + q \in Int /\ p - q \in Int
  OBVIOUS
<1> QED
  BY <1>3, <1>4 DEF Multiple

\* A multiple of a multiple.
LEMMA MultiplesNest ==
  ASSUME NEW a \in Int, NEW m \in Nat \ {0}, NEW n \in Nat \ {0}, Multiple(a, n), Multiple(n, m)
  PROVE  Multiple(a, m)
<1>1. PICK p \in Int : a = n * p
  BY DEF Multiple
<1>2. PICK q \in Int : n = m * q
  BY DEF Multiple
<1>3. a = m * (q * p) /\ q * p \in Int
  BY <1>1, <1>2
<1> QED
  BY <1>3 DEF Multiple

\* The constants of the buckets.
LEMMA Intervals ==
    /\ Minute \in Nat \ {0} /\ Health \in Nat \ {0}
    /\ \A i \in Trends \cup {Health} :
          /\ i \in Nat \ {0} /\ Multiple(i, Health)
          /\ Rollups!BucketOffset(i) \in Nat /\ Multiple(Rollups!BucketOffset(i), Health)
<1>1. /\ Minute \in Nat \ {0} /\ Health \in Nat \ {0} /\ Offset \in Nat /\ WeekOffset \in Nat
      /\ Offset % Health = 0 /\ WeekOffset % Health = 0
      /\ \A i \in Trends : i \in Nat \ {0} /\ i % Health = 0
  BY StorePartsAssumption DEF Rollups!RollupStoreAssumption
<1>2. /\ Multiple(Offset, Health) /\ Multiple(WeekOffset, Health)
      /\ \A i \in Trends : Multiple(i, Health)
  BY <1>1, Multiples
<1>3. Multiple(Health, Health)
  <2>1. Health = Health * 1
    BY <1>1
  <2> QED
    BY <2>1 DEF Multiple
<1>4. Multiple(Offset + WeekOffset, Health)
  BY <1>1, <1>2, MultiplesAdd
<1>5. \A i : Rollups!BucketOffset(i) = IF i = Weekly THEN Offset + WeekOffset ELSE Offset
  BY <1>1 DEF Rollups!BucketOffset
<1> QED
  BY <1>1, <1>2, <1>3, <1>4, <1>5

\* Where a bucket of i minutes begins.
Begins(b, i) == b \in Int /\ Multiple(b + Rollups!BucketOffset(i), i)

\* A minute belongs to the last bucket that does not begin after it.
LEMMA TimeBucketIsLast ==
  ASSUME NEW i \in Trends \cup {Health}, NEW n \in Nat
  PROVE  LET b == Rollups!TimeBucket(n, i)
         IN  /\ Begins(b, i) /\ b <= n /\ n - i < b
             /\ \A c \in Int : Begins(c, i) /\ c <= n => c <= b
<1> DEFINE k == Rollups!BucketOffset(i)
           b == Rollups!TimeBucket(n, i)
<1>1. i \in Nat \ {0} /\ k \in Nat
  BY Intervals
<1>2. PICK q \in Nat, r \in 0..(i - 1) : r = (n + k) % i /\ n + k = i * q + r
  <2>1. n + k \in Nat
    BY <1>1
  <2> QED
    BY <1>1, <2>1, Division
<1>3. b = n - r
  BY <1>2 DEF Rollups!TimeBucket
<1> HIDE DEF b, k
<1>4. i * q \in Int
  BY <1>1
<1>5. b \in Int /\ b <= n /\ n - i < b /\ b + k = i * q
  BY <1>1, <1>2, <1>3, <1>4
<1>6. Begins(b, i)
  BY <1>5 DEF Begins, Multiple, k
<1>7. ASSUME NEW c \in Int, Begins(c, i), c <= n PROVE c <= b
  <2>1. PICK p \in Int : c + k = i * p
    BY <1>7 DEF Begins, Multiple, k
  <2>2. q < p => i * q + i <= i * p
    BY <1>1, ProductsBelow
  <2>3. p < q => i * p + i <= i * q
    BY <1>1, ProductsBelow
  <2>4. i * p \in Int /\ (p = q => i * p = i * q)
    BY <1>1
  <2> QED
    BY <1>1, <1>2, <1>4, <1>5, <1>7, <2>1, <2>2, <2>3, <2>4
<1> QED
  BY <1>5, <1>6, <1>7 DEF b

\* It is the bucket by which the events are judged.
LEMMA BucketIsLast ==
  ASSUME NEW i \in Trends \cup {Health}, NEW e, Rollups!MinuteOf(e) \in Nat
  PROVE  Rollups!BucketOf(e, i) = Rollups!TimeBucket(Rollups!MinuteOf(e), i)
<1> DEFINE n == Rollups!MinuteOf(e)  b == Rollups!TimeBucket(n, i)
           S == {c \in (n - i)..n : (c + Rollups!BucketOffset(i)) % i = 0}
<1>1. i \in Nat \ {0} /\ Rollups!BucketOffset(i) \in Nat
  BY Intervals
<1>2. /\ Begins(b, i) /\ b <= n /\ n - i < b
      /\ \A c \in Int : Begins(c, i) /\ c <= n => c <= b
  BY TimeBucketIsLast
<1>3. \A c \in Int : (c + Rollups!BucketOffset(i)) % i = 0 <=> Begins(c, i)
  BY <1>1, Multiples DEF Begins
<1> HIDE DEF b
<1>4. b \in S /\ b \in Int
  BY <1>1, <1>2, <1>3 DEF Begins
<1>5. \A c \in S : c \in Int /\ c <= b
  BY <1>1, <1>2, <1>3
<1>6. \A c \in S : (\A d \in S : c >= d) => c = b
  BY <1>4, <1>5
<1>7. \A d \in S : b >= d
  BY <1>4, <1>5
<1> HIDE DEF S
<1>8. (CHOOSE c \in S : \A d \in S : c >= d) = b
  BY <1>4, <1>6, <1>7
<1> QED
  BY <1>8 DEF S, Rollups!BucketOf, Rollups!Max, b

\* Buckets of the trend are made of whole buckets of the health grid.
LEMMA BucketsNest ==
  ASSUME NEW i \in Trends, NEW n \in Nat
  PROVE  /\ Rollups!TimeBucket(n, Health) \in Nat
         /\ Rollups!TimeBucket(Rollups!TimeBucket(n, Health), i) = Rollups!TimeBucket(n, i)
<1> DEFINE x == Rollups!TimeBucket(n, Health)  b == Rollups!TimeBucket(n, i)
           k == Rollups!BucketOffset(i)  h == Rollups!BucketOffset(Health)
<1>1. /\ Health \in Nat \ {0} /\ i \in Nat \ {0} /\ k \in Nat /\ h \in Nat
      /\ Multiple(i, Health) /\ Multiple(k, Health) /\ Multiple(h, Health)
  BY Intervals
<1>2. /\ Begins(x, Health) /\ x <= n
      /\ \A c \in Int : Begins(c, Health) /\ c <= n => c <= x
  BY TimeBucketIsLast
<1>3. /\ Begins(b, i) /\ b <= n
      /\ \A c \in Int : Begins(c, i) /\ c <= n => c <= b
  BY TimeBucketIsLast
<1>4. Begins(0, Health)
  BY <1>1 DEF Begins
<1>5. x \in Nat
  BY <1>2, <1>4 DEF Begins
<1>6. b <= x
  <2>1. b \in Int /\ Multiple(b + k, Health)
    BY <1>1, <1>3, MultiplesNest DEF Begins
  <2>2. Multiple((b + k) - k, Health)
    BY <1>1, <2>1, MultiplesAdd
  <2>3. Multiple(b + h, Health)
    <3>1. (b + k) - k = b
      BY <1>1, <2>1
    <3> QED
      BY <1>1, <2>1, <2>2, <3>1, MultiplesAdd
  <2> QED
    BY <1>2, <1>3, <2>1, <2>3 DEF Begins
<1>7. LET y == Rollups!TimeBucket(x, i)
      IN  Begins(y, i) /\ y <= x /\ \A c \in Int : Begins(c, i) /\ c <= x => c <= y
  BY <1>5, TimeBucketIsLast
<1> HIDE DEF x, b
<1>8. LET y == Rollups!TimeBucket(x, i) IN y \in Int /\ y <= b /\ b <= y /\ b \in Int
  BY <1>2, <1>3, <1>5, <1>6, <1>7 DEF Begins
<1>9. Rollups!TimeBucket(x, i) = b
  BY <1>8
<1> QED
  BY <1>5, <1>9 DEF x, b

\* Keys of rollups and minutes of events are numbers.
LEMMA MinutesAre ==
  ASSUME RowsInv
  PROVE  /\ \A e \in events : Rollups!MinuteOf(e) \in Nat /\ Rollups!Key(e).minute = Rollups!MinuteOf(e)
                              /\ Rollups!Key(e) \in DOMAIN rollups
         /\ \A k \in DOMAIN rollups : k.minute \in Nat
<1>1. DOMAIN rollups = {Rollups!Key(e) : e \in events}
  BY GroupedOf DEF RowsInv
<1>2. \A e \in events : Rollups!MinuteOf(e) \in Nat
  BY Intervals, Division DEF RowsInv, Rollups!MinuteOf
<1>3. \A e : Rollups!Key(e).minute = Rollups!MinuteOf(e)
  BY DEF Rollups!Key
<1> QED
  BY <1>1, <1>2, <1>3

\* The groups of the one statement, taken apart.
LEMMA KindOf ==
  ASSUME NEW n, NEW from, NEW to, NEW now
  PROVE  LET kind == Rollups!Kind(n, from, to, now)
         IN  /\ kind \in {"trend", "both"} <=> n \in Rollups!FullMinutes(from, to)
             /\ kind \in {"health", "both"} <=> n \in Rollups!HealthMinutes(now)
             /\ kind = "both" \/ kind = "trend" \/ kind \notin {"trend", "both"}
<1>1. CASE n \in Rollups!FullMinutes(from, to) /\ n \in Rollups!HealthMinutes(now)
  BY <1>1 DEF Rollups!Kind
<1>2. CASE n \in Rollups!FullMinutes(from, to) /\ n \notin Rollups!HealthMinutes(now)
  BY <1>2 DEF Rollups!Kind
<1>3. CASE n \notin Rollups!FullMinutes(from, to) /\ n \in Rollups!HealthMinutes(now)
  BY <1>3 DEF Rollups!Kind
<1>4. CASE n \notin Rollups!FullMinutes(from, to) /\ n \notin Rollups!HealthMinutes(now)
  BY <1>4 DEF Rollups!Kind
<1> QED
  BY <1>1, <1>2, <1>3, <1>4

\* Rows that were grouped for the health grid go to the bucket of the trend they belong to.
LEMMA TrendBucketIs ==
  ASSUME NEW n \in Nat, NEW trend \in Trends, NEW kind \in {"trend", "both"}
  PROVE  Rollups!TrendBucket(n, kind, trend) = Rollups!TimeBucket(n, trend)
<1>1. CASE kind = "trend"
  BY <1>1 DEF Rollups!TrendBucket, Rollups!GroupBucket
<1>2. CASE kind = "both"
  <2>1. Rollups!TrendBucket(n, kind, trend) = Rollups!TimeBucket(Rollups!TimeBucket(n, Health), trend)
    BY <1>2 DEF Rollups!TrendBucket, Rollups!GroupBucket
  <2> QED
    BY <2>1, BucketsNest
<1> QED
  BY <1>1, <1>2

\* The events of a bucket.
OfBucket(S, i, b) == {e \in S : Rollups!TimeBucket(Rollups!MinuteOf(e), i) = b}

\* The rows and the events at the edges that make up a bucket of the trend,
LEMMA TrendOf ==
  ASSUME RowsInv, NEW from, NEW to, NEW trend \in Trends, NEW now, NEW b
  PROVE  /\ Rollups!TrendRows(b, from, to, trend, now) \in SUBSET DOMAIN rollups
         /\ Those(Rollups!TrendRows(b, from, to, trend, now))
              = OfBucket(Inside(events, from, to), trend, b)
         /\ Rollups!TrendEdge(b, from, to, trend)
              = OfBucket(Outside(events, from, to), trend, b)
<1> DEFINE rows == Rollups!TrendRows(b, from, to, trend, now)
<1>1. ASSUME NEW k \in DOMAIN rollups
      PROVE  k \in rows <=> /\ k.minute \in Rollups!FullMinutes(from, to)
                            /\ Rollups!TimeBucket(k.minute, trend) = b
  <2> DEFINE kind == Rollups!Kind(k.minute, from, to, now)
  <2>1. k \in rows <=> kind \in {"trend", "both"} /\ Rollups!TrendBucket(k.minute, kind, trend) = b
    BY DEF Rollups!TrendRows
  <2>2. kind \in {"trend", "both"} <=> k.minute \in Rollups!FullMinutes(from, to)
    BY KindOf
  <2>3. k.minute \in Nat
    BY MinutesAre
  <2> HIDE DEF kind, rows
  <2>4. kind \in {"trend", "both"} =>
            Rollups!TrendBucket(k.minute, kind, trend) = Rollups!TimeBucket(k.minute, trend)
    BY <2>3, TrendBucketIs
  <2> QED
    BY <2>1, <2>2, <2>4
<1>2. rows \in SUBSET DOMAIN rollups
  BY DEF Rollups!TrendRows
<1> HIDE DEF rows
<1>3. Those(rows) = OfBucket(Inside(events, from, to), trend, b)
  BY <1>1, MinutesAre DEF Those, Inside, OfBucket
<1> QED
  BY <1>2, <1>3, AtEdgesIsOutside DEF rows, Rollups!TrendEdge, OfBucket

\* and those that make up a cell of the health grid.
LEMMA HealthOf ==
  ASSUME RowsInv, NEW from, NEW to, NEW now, NEW b
  PROVE  /\ Rollups!HealthRows(b, from, to, now) \in SUBSET DOMAIN rollups
         /\ Those(Rollups!HealthRows(b, from, to, now))
              = {e \in events : /\ Rollups!MinuteOf(e) \in Rollups!HealthMinutes(now)
                                /\ Rollups!TimeBucket(Rollups!MinuteOf(e), Health) = b}
<1> DEFINE rows == Rollups!HealthRows(b, from, to, now)
<1>1. ASSUME NEW k \in DOMAIN rollups
      PROVE  k \in rows <=> /\ k.minute \in Rollups!HealthMinutes(now)
                            /\ Rollups!TimeBucket(k.minute, Health) = b
  BY KindOf DEF Rollups!HealthRows
<1>2. rows \in SUBSET DOMAIN rollups
  BY DEF Rollups!HealthRows
<1> HIDE DEF rows
<1>3. Those(rows) = {e \in events : /\ Rollups!MinuteOf(e) \in Rollups!HealthMinutes(now)
                                    /\ Rollups!TimeBucket(Rollups!MinuteOf(e), Health) = b}
  BY <1>1, MinutesAre DEF Those
<1> QED
  BY <1>2, <1>3 DEF rows

\* Rows and edges together count the events of a bucket of the trend,
LEMMA TrendIsExact ==
  ASSUME RowsInv, NEW from \in Nat, NEW to \in Nat, from <= to, NEW trend \in Trends, NEW now, NEW b
  PROVE  Rollups!Requests(Rollups!TrendRows(b, from, to, trend, now))
             + Cardinality(Rollups!TrendEdge(b, from, to, trend))
         = Cardinality({e \in Rollups!InRange(events, from, to) : Rollups!BucketOf(e, trend) = b})
<1> DEFINE rows == Rollups!TrendRows(b, from, to, trend, now)
           ins == Inside(events, from, to)
           outs == Outside(events, from, to)
<1>1. IsFiniteSet(events) /\ \A e \in events : e.ts \in Nat
  BY DEF RowsInv
<1>2. /\ Rollups!InRange(events, from, to) = ins \cup outs /\ ins \cap outs = {}
      /\ IsFiniteSet(ins) /\ IsFiniteSet(outs)
  BY <1>1, Halves
<1>3. ins \subseteq events /\ outs \subseteq events
  BY DEF Inside, Outside
<1>4. rows \in SUBSET DOMAIN rollups /\ Those(rows) = OfBucket(ins, trend, b)
  <2>1. rows \in SUBSET DOMAIN rollups
    BY TrendOf
  <2>2. Those(rows) = OfBucket(ins, trend, b)
    BY TrendOf
  <2> QED
    BY <2>1, <2>2
<1>5. Rollups!Requests(rows) = Cardinality(OfBucket(ins, trend, b))
  <2> HIDE DEF rows, ins
  <2> QED
    BY <1>4, RequestsCount
<1>6. Rollups!TrendEdge(b, from, to, trend) = OfBucket(outs, trend, b)
  BY TrendOf
<1> HIDE DEF rows, ins, outs
<1>7. \A e \in ins \cup outs : Rollups!BucketOf(e, trend) = Rollups!TimeBucket(Rollups!MinuteOf(e), trend)
  BY <1>3, MinutesAre, BucketIsLast
<1>8. {e \in Rollups!InRange(events, from, to) : Rollups!BucketOf(e, trend) = b}
        = OfBucket(ins, trend, b) \cup OfBucket(outs, trend, b)
  BY <1>2, <1>7 DEF OfBucket
<1>9. /\ OfBucket(ins, trend, b) \cap OfBucket(outs, trend, b) = {}
      /\ IsFiniteSet(OfBucket(ins, trend, b)) /\ IsFiniteSet(OfBucket(outs, trend, b))
  BY <1>2, FS_Subset DEF OfBucket
<1>10. Cardinality(OfBucket(ins, trend, b) \cup OfBucket(outs, trend, b))
         = Cardinality(OfBucket(ins, trend, b)) + Cardinality(OfBucket(outs, trend, b))
  BY <1>9, DisjointUnion
<1>11. Cardinality({e \in Rollups!InRange(events, from, to) : Rollups!BucketOf(e, trend) = b})
         = Cardinality(OfBucket(ins, trend, b)) + Cardinality(OfBucket(outs, trend, b))
  BY <1>8, <1>10, Zenon
<1> QED
  BY <1>5, <1>6, <1>11 DEF rows

\* and the rows alone the failed ones of a cell of the health grid.
LEMMA HealthIsExact ==
  ASSUME RowsInv, NEW from, NEW to, NEW now, NEW b
  PROVE  Rollups!Failures(Rollups!HealthRows(b, from, to, now))
         = Cardinality({e \in {x \in events : Rollups!MinuteOf(x) \in Rollups!HealthMinutes(now)} :
                            e.failed /\ Rollups!BucketOf(e, Health) = b})
<1> DEFINE rows == Rollups!HealthRows(b, from, to, now)
           cell == {e \in events : /\ Rollups!MinuteOf(e) \in Rollups!HealthMinutes(now)
                                   /\ Rollups!TimeBucket(Rollups!MinuteOf(e), Health) = b}
<1>1. rows \in SUBSET DOMAIN rollups /\ Those(rows) = cell
  BY HealthOf
<1>2. Rollups!Failures(rows) = Cardinality(FailedOf(Those(rows)))
  <2> HIDE DEF rows
  <2> QED
    BY <1>1, FailuresCount
<1>3. \A e \in events : Rollups!BucketOf(e, Health) = Rollups!TimeBucket(Rollups!MinuteOf(e), Health)
  BY MinutesAre, BucketIsLast
<1>4. FailedOf(cell) = {e \in {x \in events : Rollups!MinuteOf(x) \in Rollups!HealthMinutes(now)} :
                            e.failed /\ Rollups!BucketOf(e, Health) = b}
  BY <1>3 DEF FailedOf
<1> QED
  BY <1>1, <1>2, <1>4

\* One statement answers for both, and neither takes from the other (query.go:469-610).
LEMMA SummaryIsExact ==
  ASSUME RowsInv
  PROVE  Rollups!SummaryIsExact
<1>1. ASSUME NEW r \in Rollups!RangesAsked, NEW trend \in Trends, NEW now \in Nows, NEW b
      PROVE  Rollups!Requests(Rollups!TrendRows(b, r.from, r.to, trend, now))
                 + Cardinality(Rollups!TrendEdge(b, r.from, r.to, trend))
             = Cardinality({e \in Rollups!InRange(events, r.from, r.to) : Rollups!BucketOf(e, trend) = b})
  BY RangesAre, TrendIsExact
<1>2. ASSUME NEW r \in Rollups!RangesAsked, NEW now \in Nows, NEW b
      PROVE  Rollups!Failures(Rollups!HealthRows(b, r.from, r.to, now))
             = Cardinality({e \in {x \in events : Rollups!MinuteOf(x) \in Rollups!HealthMinutes(now)} :
                                e.failed /\ Rollups!BucketOf(e, Health) = b})
  BY HealthIsExact
<1>3. ASSUME NEW r \in Rollups!RangesAsked, NEW trend \in Trends, NEW now \in Nows, NEW b
      PROVE  Rollups!Requests(Rollups!TrendRows(b, r.from, r.to, trend, now))
                 + Rollups!Cardinality(Rollups!TrendEdge(b, r.from, r.to, trend))
             = Rollups!Cardinality({e \in Rollups!InRange(events, r.from, r.to) : Rollups!BucketOf(e, trend) = b})
  <2> DEFINE edge == Rollups!TrendEdge(b, r.from, r.to, trend)
             all == {e \in Rollups!InRange(events, r.from, r.to) : Rollups!BucketOf(e, trend) = b}
  <2>1. Rollups!Cardinality(edge) = Cardinality(edge) /\ Rollups!Cardinality(all) = Cardinality(all)
    BY Counting
  <2>2. Rollups!Requests(Rollups!TrendRows(b, r.from, r.to, trend, now)) + Cardinality(edge) = Cardinality(all)
    BY <1>1
  <2> QED
    BY <2>1, <2>2, Zenon
<1>4. ASSUME NEW r \in Rollups!RangesAsked, NEW now \in Nows, NEW b
      PROVE  Rollups!Failures(Rollups!HealthRows(b, r.from, r.to, now))
             = Rollups!Cardinality({e \in {x \in events : Rollups!MinuteOf(x) \in Rollups!HealthMinutes(now)} :
                            e.failed /\ Rollups!BucketOf(e, Health) = b})
  <2> DEFINE all == {e \in {x \in events : Rollups!MinuteOf(x) \in Rollups!HealthMinutes(now)} :
                        e.failed /\ Rollups!BucketOf(e, Health) = b}
  <2>1. Rollups!Cardinality(all) = Cardinality(all)
    BY Counting
  <2>2. Rollups!Failures(Rollups!HealthRows(b, r.from, r.to, now)) = Cardinality(all)
    BY <1>2
  <2> QED
    BY <2>1, <2>2, Zenon
<1> QED
  BY <1>3, <1>4 DEF Rollups!SummaryIsExact

\* Division keeps the order.
LEMMA DivisionKeepsOrder ==
  ASSUME NEW s \in Nat, NEW t \in Nat, s <= t, NEW m \in Nat \ {0}
  PROVE  s \div m <= t \div m
<1>1. s \div m \in Nat /\ t \div m \in Nat /\ (t \div m < s \div m => t < s)
  BY Division, DivisionInOrder
<1> DEFINE p == s \div m  q == t \div m
<1> HIDE DEF p, q
<1>2. p \in Nat /\ q \in Nat /\ (q < p => t < s)
  BY <1>1 DEF p, q
<1>3. p <= q
  BY <1>2
<1> QED
  BY <1>3 DEF p, q

\* A set of numbers between two others has a least and a greatest one.
LEMMA ExtremesAre ==
  ASSUME NEW S \in SUBSET Int, S # {}, NEW a \in Int, NEW z \in Int, \A x \in S : a <= x /\ x <= z
  PROVE  /\ Rollups!Min(S) \in S /\ \A x \in S : Rollups!Min(S) <= x
         /\ Rollups!Max(S) \in S /\ \A x \in S : x <= Rollups!Max(S)
<1>1. \E x \in S : \A y \in S : x <= y
  <2> DEFINE D == {x - a : x \in S}
  <2>0. S \subseteq Int /\ \A x \in S : x - a \in Nat
    OBVIOUS
  <2>1. D \in SUBSET Nat /\ D # {}
    BY <2>0
  <2>2. PICK d \in D : \A c \in D : d <= c
    <3> HIDE DEF D
    <3> QED
      BY <2>1, LeastElement
  <2>3. PICK x \in S : d = x - a
    BY <2>2
  <2>4. \A y \in S : y - a \in D
    OBVIOUS
  <2>5. \A y \in S : x - a <= y - a
    BY <2>2, <2>3, <2>4
  <2>6. \A y \in S : x <= y
    <3> HIDE DEF D
    <3> QED
      BY <2>0, <2>5
  <2> QED
    BY <2>6
<1>2. \E x \in S : \A y \in S : x >= y
  <2> DEFINE D == {z - x : x \in S}
  <2>0. S \subseteq Int /\ \A x \in S : z - x \in Nat
    OBVIOUS
  <2>1. D \in SUBSET Nat /\ D # {}
    BY <2>0
  <2>2. PICK d \in D : \A c \in D : d <= c
    <3> HIDE DEF D
    <3> QED
      BY <2>1, LeastElement
  <2>3. PICK x \in S : d = z - x
    BY <2>2
  <2>4. \A y \in S : z - y \in D
    OBVIOUS
  <2>5. \A y \in S : z - x <= z - y
    BY <2>2, <2>3, <2>4
  <2>6. \A y \in S : x >= y
    <3> HIDE DEF D
    <3> QED
      BY <2>0, <2>5
  <2> QED
    BY <2>6
<1>3. Rollups!Min(S) \in S /\ \A x \in S : Rollups!Min(S) <= x
  BY <1>1 DEF Rollups!Min
<1>4. Rollups!Max(S) \in S /\ \A x \in S : Rollups!Max(S) >= x
  BY <1>2 DEF Rollups!Max
<1>5. \A x \in S : x <= Rollups!Max(S)
  BY <1>4
<1> QED
  BY <1>3, <1>4, <1>5

\* Full minutes of a range are minutes of the range.
LEMMA FullWithin ==
  ASSUME NEW from \in Nat, NEW to \in Nat, NEW n \in Rollups!FullMinutes(from, to)
  PROVE  from \div Minute <= n /\ n <= to \div Minute
<1> DEFINE a == from \div Minute  z == to \div Minute
<1>1. a \in Nat /\ z \in Nat
  BY Intervals, Division
<1>2. Rollups!FullFrom(from) \in {a, a + 1} /\ Rollups!FullTo(to) \in {z, z - 1}
  BY <1>1 DEF Rollups!FullFrom, Rollups!FullTo
<1> HIDE DEF a, z
<1>3. n \in Int /\ Rollups!FullFrom(from) <= n /\ n <= Rollups!FullTo(to)
  BY <1>1, <1>2 DEF Rollups!FullMinutes
<1>4. a <= n /\ n <= z
  BY <1>1, <1>2, <1>3
<1> QED
  BY <1>4 DEF a, z

\* Every bucket of the trend belongs to a minute of the range.
LEMMA TrendBucketsAre ==
  ASSUME RowsInv, NEW from \in Nat, NEW to \in Nat, from <= to, NEW trend \in Trends, NEW now,
         NEW b \in Rollups!TrendBuckets(from, to, trend, now)
  PROVE  \E n \in Nat : /\ from \div Minute <= n /\ n <= to \div Minute
                        /\ b = Rollups!TimeBucket(n, trend)
<1>1. \/ \E k \in DOMAIN rollups :
            LET kind == Rollups!Kind(k.minute, from, to, now)
            IN  kind \in {"trend", "both"} /\ b = Rollups!TrendBucket(k.minute, kind, trend)
      \/ \E e \in Rollups!AtEdges(from, to) : b = Rollups!TimeBucket(Rollups!MinuteOf(e), trend)
  BY DEF Rollups!TrendBuckets
<1>2. ASSUME NEW k \in DOMAIN rollups, NEW kind, kind = Rollups!Kind(k.minute, from, to, now),
             kind \in {"trend", "both"}, b = Rollups!TrendBucket(k.minute, kind, trend)
      PROVE  /\ k.minute \in Nat /\ from \div Minute <= k.minute /\ k.minute <= to \div Minute
             /\ b = Rollups!TimeBucket(k.minute, trend)
  <2>1. k.minute \in Nat
    BY MinutesAre
  <2>2. k.minute \in Rollups!FullMinutes(from, to)
    BY <1>2, KindOf
  <2>3. Rollups!TrendBucket(k.minute, kind, trend) = Rollups!TimeBucket(k.minute, trend)
    BY <1>2, <2>1, TrendBucketIs
  <2> QED
    BY <1>2, <2>1, <2>2, <2>3, FullWithin
<1>3. ASSUME NEW e \in Rollups!AtEdges(from, to), b = Rollups!TimeBucket(Rollups!MinuteOf(e), trend)
      PROVE  /\ Rollups!MinuteOf(e) \in Nat
             /\ from \div Minute <= Rollups!MinuteOf(e) /\ Rollups!MinuteOf(e) <= to \div Minute
  <2>1. e \in events /\ OnEdge(e.ts, from, to)
    BY AtEdgesIsOutside DEF Outside
  <2>2. e.ts \in Nat
    BY <2>1 DEF RowsInv
  <2>3. from <= e.ts /\ e.ts <= to
    BY <2>1, <2>2, RangeDivided
  <2>4. Rollups!MinuteOf(e) \in Nat /\ Minute \in Nat \ {0}
    BY <2>1, MinutesAre, Intervals
  <2> QED
    BY <2>2, <2>3, <2>4, DivisionKeepsOrder DEF Rollups!MinuteOf
<1> QED
  BY <1>1, <1>2, <1>3

\* Buckets of one interval are a multiple of it apart.
LEMMA BucketsApart ==
  ASSUME NEW i \in Trends, NEW b, NEW c, Begins(b, i), Begins(c, i)
  PROVE  (b - c) % i = 0
<1>1. i \in Nat \ {0} /\ Rollups!BucketOffset(i) \in Nat /\ b \in Int /\ c \in Int
  BY Intervals DEF Begins
<1>2. Multiple((b + Rollups!BucketOffset(i)) - (c + Rollups!BucketOffset(i)), i)
  BY <1>1, MultiplesAdd DEF Begins
<1>3. (b + Rollups!BucketOffset(i)) - (c + Rollups!BucketOffset(i)) = b - c /\ b - c \in Int
  BY <1>1
<1> QED
  BY <1>1, <1>2, <1>3, Multiples

\* What is displayed keeps every bucket.
LEMMA DenseKeeps ==
  ASSUME RowsInv, NEW from \in Nat, NEW to \in Nat, from <= to, NEW trend \in Trends, NEW now, NEW all
  PROVE  LET buckets == Rollups!TrendBuckets(from, to, trend, now)
         IN  buckets \subseteq Rollups!Dense(buckets, from, to, trend, all)
<1> DEFINE buckets == Rollups!TrendBuckets(from, to, trend, now)
           first == Rollups!TimeBucket(from \div Minute, trend)
           last == Rollups!TimeBucket(to \div Minute, trend)
<1>1. from \div Minute \in Nat /\ to \div Minute \in Nat
  BY Intervals, Division
<1>2. Begins(first, trend) /\ Begins(last, trend) /\ first \in Int /\ last \in Int
  BY <1>1, TimeBucketIsLast DEF Begins
<1>3. ASSUME NEW b \in buckets
      PROVE  Begins(b, trend) /\ b \in Int /\ first <= b /\ b <= last
  <2>1. PICK n \in Nat : from \div Minute <= n /\ n <= to \div Minute /\ b = Rollups!TimeBucket(n, trend)
    BY TrendBucketsAre
  <2>2. Begins(b, trend) /\ b <= n /\ \A c \in Int : Begins(c, trend) /\ c <= n => c <= b
    BY <2>1, TimeBucketIsLast
  <2>3. first <= from \div Minute
    BY <1>1, TimeBucketIsLast
  <2>4. \A c \in Int : Begins(c, trend) /\ c <= to \div Minute => c <= last
    BY <1>1, TimeBucketIsLast
  <2>5. b \in Int
    BY <2>2 DEF Begins
  <2> HIDE DEF first, last
  <2>6. first <= n /\ b <= to \div Minute
    BY <1>1, <1>2, <2>1, <2>2, <2>3, <2>5
  <2> QED
    BY <1>2, <2>2, <2>4, <2>5, <2>6
<1> HIDE DEF buckets, first, last
<1>4. CASE buckets = {}
  BY <1>4 DEF buckets
<1>5. CASE buckets # {}
  <2>1. /\ Rollups!Min(buckets) \in buckets /\ \A x \in buckets : Rollups!Min(buckets) <= x
        /\ Rollups!Max(buckets) \in buckets /\ \A x \in buckets : x <= Rollups!Max(buckets)
    <3>1. buckets \in SUBSET Int
      BY <1>3
    <3> QED
      BY <1>2, <1>3, <1>5, <3>1, ExtremesAre
  <2>2. ASSUME NEW start \in {first, Rollups!Min(buckets)}, NEW end \in {last, Rollups!Max(buckets)}
        PROVE  buckets \subseteq {b \in start..end : (b - start) % trend = 0}
    <3>1. start \in Int /\ end \in Int /\ Begins(start, trend) /\ \A b \in buckets : start <= b /\ b <= end
      BY <1>2, <1>3, <2>1
    <3>2. \A b \in buckets : b \in start..end
      BY <1>3, <3>1
    <3>3. \A b \in buckets : (b - start) % trend = 0
      BY <1>3, <3>1, BucketsApart
    <3> QED
      BY <3>2, <3>3
  <2>3. PICK start \in {first, Rollups!Min(buckets)}, end \in {last, Rollups!Max(buckets)} :
          Rollups!Dense(buckets, from, to, trend, all) = {b \in start..end : (b - start) % trend = 0}
    BY <1>5 DEF Rollups!Dense, first, last
  <2>4. buckets \subseteq Rollups!Dense(buckets, from, to, trend, all)
    BY <2>2, <2>3
  <2> QED
    BY <2>4 DEF buckets
<1> QED
  BY <1>4, <1>5

\* Every trend that is displayed adds up to its totals.
LEMMA TrendAddsUp ==
  ASSUME RowsInv
  PROVE  Rollups!TrendAddsUp
BY RangesAre, DenseKeeps DEF Rollups!TrendAddsUp

\* The number of pages offered is the smallest of three.
LEMMA PagesAre ==
  ASSUME NEW size \in PageSizes, NEW total \in Nat, NEW pages,
         pages = (IF total = 0 THEN 0 ELSE (total - 1) \div size + 1)
  PROVE  LET n == Rollups!AccessiblePages(total, size)
         IN  /\ n \in Nat /\ n <= pages /\ n <= MaxPage /\ n <= MaxOffset \div size + 1
             /\ n \in {pages, MaxPage, MaxOffset \div size + 1}
<1> DEFINE most == MaxOffset \div size + 1  S == {pages, MaxPage, most}
<1>1. size \in Nat \ {0} /\ MaxPage \in Nat /\ MaxOffset \in Nat
  BY StorePartsAssumption DEF Rollups!RollupStoreAssumption
<1>2. most \in Nat
  <2>1. MaxOffset \div size \in Nat
    BY <1>1, Division
  <2> QED
    BY <2>1
<1>3. pages \in Nat
  <2>1. CASE total = 0
    BY <2>1
  <2>2. CASE total # 0
    <3>1. total - 1 \in Nat
      BY <2>2
    <3>2. (total - 1) \div size \in Nat
      BY <1>1, <3>1, Division
    <3> QED
      BY <2>2, <3>2
  <2> QED
    BY <2>1, <2>2
<1>4. Rollups!AccessiblePages(total, size) = Rollups!Min(S)
  BY DEF Rollups!AccessiblePages
<1> HIDE DEF most
<1>5. PICK z \in Int : \A x \in S : 0 <= x /\ x <= z
  <2>1. \A x \in S : 0 <= x /\ x <= pages + MaxPage + most
    BY <1>1, <1>2, <1>3
  <2>2. pages + MaxPage + most \in Int
    BY <1>1, <1>2, <1>3
  <2> QED
    BY <2>1, <2>2
<1>6. Rollups!Min(S) \in S /\ \A x \in S : Rollups!Min(S) <= x
  <2>1. S \in SUBSET Int /\ S # {} /\ 0 \in Int
    BY <1>1, <1>2, <1>3
  <2> HIDE DEF S
  <2> QED
    BY <1>5, <2>1, ExtremesAre
<1>7. Rollups!Min(S) \in Nat
  BY <1>1, <1>2, <1>3, <1>6
<1> QED
  BY <1>4, <1>6, <1>7 DEF most

\* Each page offered is allowed,
LEMMA OfferedAreAllowed ==
  ASSUME NEW size \in PageSizes, NEW total \in Nat, NEW p \in 1..Rollups!AccessiblePages(total, size)
  PROVE  Rollups!PageAllowed(p, size)
<1> DEFINE most == MaxOffset \div size
<1>1. size \in Nat \ {0} /\ MaxPage \in Nat /\ MaxOffset \in Nat
  BY StorePartsAssumption DEF Rollups!RollupStoreAssumption
<1>2. most \in Nat
  BY <1>1, Division
<1>3. LET n == Rollups!AccessiblePages(total, size) IN n \in Nat /\ n <= MaxPage /\ n <= most + 1
  BY PagesAre
<1> HIDE DEF most
<1>4. p <= MaxPage /\ p - 1 <= most
  BY <1>1, <1>2, <1>3
<1> QED
  BY <1>4 DEF most, Rollups!PageAllowed

\* and each event within the limits has its page.
LEMMA OfferedAreEnough ==
  ASSUME NEW size \in PageSizes, NEW total \in Nat, NEW i \in 0..(total - 1),
         i <= MaxOffset, i < MaxPage * size
  PROVE  \E p \in 1..Rollups!AccessiblePages(total, size) :
            Rollups!PageOffset(p, size) <= i /\ i < Rollups!PageOffset(p, size) + size
<1> DEFINE q == i \div size  most == MaxOffset \div size  full == (total - 1) \div size
           n == Rollups!AccessiblePages(total, size)
<1>1. size \in Nat \ {0} /\ MaxPage \in Nat /\ MaxOffset \in Nat
  BY StorePartsAssumption DEF Rollups!RollupStoreAssumption
<1>2. i \in Nat /\ total - 1 \in Nat /\ i <= total - 1 /\ total # 0
  OBVIOUS
<1>3. q <= most /\ q <= full
  BY <1>1, <1>2, DivisionKeepsOrder
<1>4. q < MaxPage
  <2>1. size * MaxPage = MaxPage * size
    BY <1>1
  <2> QED
    BY <1>1, <1>2, <2>1, BeforeMultiple
<1>5. q \in Nat /\ most \in Nat /\ full \in Nat
  BY <1>1, <1>2, Division
<1>6. PICK r \in 0..(size - 1) : i = size * q + r
  <2>1. i % size \in 0..(size - 1) /\ i = size * q + (i % size)
    BY <1>1, <1>2, Division
  <2> HIDE DEF q
  <2> QED
    BY <2>1
<1>7. n \in Nat /\ n \in {full + 1, MaxPage, most + 1}
  <2>1. n \in Nat /\ n \in {IF total = 0 THEN 0 ELSE full + 1, MaxPage, most + 1}
    BY PagesAre
  <2> QED
    BY <1>2, <2>1
<1> HIDE DEF q, most, full, n
<1>8. q + 1 \in 1..n
  BY <1>1, <1>3, <1>4, <1>5, <1>7
<1>9. Rollups!PageOffset(q + 1, size) = size * q /\ size * q \in Nat
  <2>1. (q + 1) - 1 = q /\ q * size = size * q /\ size * q \in Nat
    BY <1>1, <1>5
  <2> QED
    BY <2>1 DEF Rollups!PageOffset
<1>10. Rollups!PageOffset(q + 1, size) <= i /\ i < Rollups!PageOffset(q + 1, size) + size
  BY <1>1, <1>6, <1>9
<1> QED
  BY <1>8, <1>10 DEF n

\* Paging offers what it allows, and reaches what is within the limits (query.go:1439).
LEMMA OfferedPagesWork == Rollups!OfferedPagesWork
<1>1. ASSUME NEW size \in PageSizes, NEW total \in 0..(MaxPage * size + 1)
      PROVE  total \in Nat
  BY <1>1
<1> QED
  BY <1>1, OfferedAreAllowed, OfferedAreEnough DEF Rollups!OfferedPagesWork

\* The queries that answer from rollups and events together answer like events alone, for
\* every range, trend, clock and page size, whatever was written, restored and pruned
\* (query.go:469-610, :903, :1439): the invariant of the rows is all they need.
THEOREM QueriesCorrect == Spec => []QueriesAreExact
<1>1. RowsInv => QueriesAreExact
  BY CountIsExact, SummaryIsExact, TrendAddsUp, OfferedPagesWork DEF QueriesAreExact
<1> QED
  BY <1>1, RowsInvariant, PTL

-----------------------------------------------------------------------------
(* Answers of several statements.                                          *)

\* Rows that can be listed latest first.
Listed(S) ==
    /\ IsFiniteSet(S)
    /\ \A e \in S : e.ts \in Nat /\ e.id \in Nat
    /\ \A e, f \in S : e.id = f.id => e = f
Rank(e, S) == Cardinality(Rollups!Before(e, S))

\* The place of a row is one of as many places as there are rows,
LEMMA RankBelow ==
  ASSUME NEW S, Listed(S), NEW e \in S
  PROVE  Rank(e, S) \in Nat /\ Rank(e, S) < Cardinality(S)
<1>1. Rollups!Before(e, S) \subseteq S \ {e} /\ IsFiniteSet(S)
  BY DEF Listed, Rollups!Before
<1>2. Cardinality(S \ {e}) = Cardinality(S) - 1 /\ IsFiniteSet(S \ {e})
  BY <1>1, FS_RemoveElement
<1>3. Cardinality(Rollups!Before(e, S)) <= Cardinality(S \ {e}) /\ IsFiniteSet(Rollups!Before(e, S))
  BY <1>1, <1>2, FS_Subset
<1>4. Cardinality(S) \in Nat /\ Cardinality(Rollups!Before(e, S)) \in Nat
  BY <1>1, <1>3, FS_CardinalityType
<1> QED
  BY <1>2, <1>3, <1>4 DEF Rank

\* and later for the rows that come later.
LEMMA RankGrows ==
  ASSUME NEW S, Listed(S), NEW e \in S, NEW f \in S, e \in Rollups!Before(f, S)
  PROVE  Rank(e, S) < Rank(f, S)
<1>1. Rollups!Before(e, S) \subseteq Rollups!Before(f, S) /\ e \notin Rollups!Before(e, S)
  BY DEF Listed, Rollups!Before
<1>2. IsFiniteSet(Rollups!Before(f, S))
  BY FS_Subset DEF Listed, Rollups!Before
<1>3. /\ Cardinality(Rollups!Before(e, S)) <= Cardinality(Rollups!Before(f, S))
      /\ Cardinality(Rollups!Before(e, S)) # Cardinality(Rollups!Before(f, S))
  BY <1>1, <1>2, FS_Subset
<1> QED
  BY <1>3, RankBelow DEF Rank

\* A page has no more rows than its size.
LEMMA PageIsLimited ==
  ASSUME NEW S, Listed(S), NEW offset \in Nat, NEW size \in Nat \ {0}
  PROVE  LET rows == Rollups!PageRows(S, offset, size)
         IN  rows \subseteq S /\ Cardinality(rows) <= size
<1> DEFINE rows == Rollups!PageRows(S, offset, size)
           places == offset..(offset + size - 1)
           place == [e \in rows |-> Rank(e, S)]
<1>1. rows \subseteq S
  BY DEF Rollups!PageRows
<1>2. \A e \in rows : Rank(e, S) >= offset /\ Rank(e, S) < offset + size
  BY Counting DEF Rollups!PageRows, Rank
<1> HIDE DEF rows
<1>3. ASSUME NEW e \in rows PROVE Rank(e, S) \in places
  BY <1>1, <1>2, RankBelow
<1>4. ASSUME NEW e \in rows, NEW f \in rows, Rank(e, S) = Rank(f, S) PROVE e = f
  <2>1. e \in Rollups!Before(f, S) \/ f \in Rollups!Before(e, S) \/ e = f
    BY <1>1 DEF Listed, Rollups!Before
  <2>2. Rank(e, S) \in Nat /\ Rank(f, S) \in Nat
    BY <1>1, RankBelow
  <2> QED
    BY <1>1, <1>4, <2>1, <2>2, RankGrows
<1> HIDE DEF places
<1>5. place \in Injection(rows, places)
  BY <1>3, <1>4 DEF Injection, IsInjective
<1>6. IsFiniteSet(places) /\ Cardinality(places) = size
  BY FS_Interval DEF places
<1>7. Cardinality(rows) <= Cardinality(places)
  BY <1>5, <1>6, FS_Injection DEF ExistsInjection
<1> QED
  BY <1>1, <1>6, <1>7 DEF rows

\* The rows of a page are those whose place divided by its size gives the page.
LEMMA PlacesOfPage ==
  ASSUME NEW n \in Nat, NEW p \in Nat, NEW size \in Nat \ {0}
  PROVE  n \div size = p <=> p * size <= n /\ n < p * size + size
<1> DEFINE q == n \div size
<1>1. q \in Nat /\ (q < p <=> n < size * p) /\ (q < p + 1 <=> n < size * (p + 1))
  <2>1. q < p <=> n < size * p
    BY BeforeMultiple
  <2>2. p + 1 \in Nat
    OBVIOUS
  <2>3. q < p + 1 <=> n < size * (p + 1)
    BY <2>2, BeforeMultiple
  <2>4. q \in Nat
    BY Division
  <2> QED
    BY <2>1, <2>3, <2>4
<1>2. PICK a \in Nat : p * size = a /\ size * p = a /\ size * (p + 1) = a + size
  <2>1. size * p = p * size /\ size * (p + 1) = p * size + size /\ p * size \in Nat
    OBVIOUS
  <2> QED
    BY <2>1
<1> HIDE DEF q
<1>3. q = p <=> ~(q < p) /\ q < p + 1
  BY <1>1
<1>4. q = p <=> a <= n /\ n < a + size
  BY <1>1, <1>2, <1>3
<1> QED
  BY <1>2, <1>4 DEF q

\* What a query under way has found, bounded by two sets of rows.
Found(q, S, E) ==
    /\ q.kind = "dimension" =>
          /\ q.sum \in Nat
          /\ Cardinality(Inside(S, q.from, q.to)) <= q.sum /\ q.sum <= Cardinality(Inside(E, q.from, q.to))
    /\ q.kind = "all" =>
          q.first \in Nat /\ q.from <= q.first /\ q.first <= q.to /\ \A e \in S : q.first <= e.ts
    /\ q.kind = "events" =>
          /\ q.total \in Nat /\ Cardinality(S) <= q.total /\ q.total <= Cardinality(E)
          /\ q.page \in Nat \ {0} /\ q.size \in Nat \ {0}

\* The range of a query under way, and what of it was stored all the time and at some time.
Watched(q, stored, S, E) ==
    /\ q.from \in Nat /\ q.to \in Nat /\ q.from <= q.to
    /\ S \subseteq Rollups!InRange(stored, q.from, q.to)
    /\ Rollups!InRange(stored, q.from, q.to) \subseteq E
    /\ IsFiniteSet(E) /\ \A e \in E : e.ts \in Nat /\ q.from <= e.ts /\ e.ts <= q.to

Numbered(S) == \A e, f \in S : e.id = f.id => e = f

\* The invariant of the answers.
AnswersInv ==
    /\ Numbered(events)
    /\ query # Idle => answer = Idle /\ Watched(query, events, since, ever) /\ Found(query, since, ever)
    /\ AnswersAreBetween

\* Subsets have no more elements.
LEMMA Fewer ==
  ASSUME NEW S, NEW T, IsFiniteSet(T), S \subseteq T
  PROVE  /\ IsFiniteSet(S) /\ Cardinality(S) \in Nat /\ Cardinality(T) \in Nat
         /\ Cardinality(S) <= Cardinality(T)
  BY FS_Subset, FS_CardinalityType

\* What was found stays between the two sets when one shrinks and the other grows.
LEMMA FoundStays ==
  ASSUME NEW q, NEW S, NEW E, Found(q, S, E), IsFiniteSet(S),
         NEW S2 \in SUBSET S, NEW E2, E \subseteq E2, IsFiniteSet(E2)
  PROVE  Found(q, S2, E2)
<1>1. /\ Inside(S2, q.from, q.to) \subseteq Inside(S, q.from, q.to)
      /\ Inside(E, q.from, q.to) \subseteq Inside(E2, q.from, q.to)
  BY DEF Inside
<1>2. IsFiniteSet(Inside(S, q.from, q.to)) /\ IsFiniteSet(Inside(E2, q.from, q.to))
  BY FS_Subset DEF Inside
<1>3. /\ Cardinality(Inside(S2, q.from, q.to)) <= Cardinality(Inside(S, q.from, q.to))
      /\ Cardinality(Inside(E, q.from, q.to)) <= Cardinality(Inside(E2, q.from, q.to))
      /\ Cardinality(Inside(S2, q.from, q.to)) \in Nat /\ Cardinality(Inside(S, q.from, q.to)) \in Nat
      /\ Cardinality(Inside(E, q.from, q.to)) \in Nat /\ Cardinality(Inside(E2, q.from, q.to)) \in Nat
  BY <1>1, <1>2, Fewer
<1>4. /\ Cardinality(S2) <= Cardinality(S) /\ Cardinality(E) <= Cardinality(E2)
      /\ Cardinality(S2) \in Nat /\ Cardinality(S) \in Nat /\ Cardinality(E) \in Nat /\ Cardinality(E2) \in Nat
  BY Fewer
<1>5. CASE q.kind = "dimension"
  <2>1. /\ q.sum \in Nat
        /\ Cardinality(Inside(S, q.from, q.to)) <= q.sum /\ q.sum <= Cardinality(Inside(E, q.from, q.to))
    BY <1>5 DEF Found
  <2>2. Cardinality(Inside(S2, q.from, q.to)) <= q.sum /\ q.sum <= Cardinality(Inside(E2, q.from, q.to))
    BY <1>3, <2>1
  <2> QED
    BY <1>5, <2>1, <2>2 DEF Found
<1>6. CASE q.kind = "all"
  BY <1>6 DEF Found
<1>7. CASE q.kind = "events"
  <2>1. q.total \in Nat /\ Cardinality(S) <= q.total /\ q.total <= Cardinality(E)
    BY <1>7 DEF Found
  <2>2. Cardinality(S2) <= q.total /\ q.total <= Cardinality(E2)
    BY <1>4, <2>1
  <2> QED
    BY <1>7, <2>1, <2>2 DEF Found
<1> QED
  BY <1>5, <1>6, <1>7 DEF Found

\* Whatever happens to the rows, a query under way is kept informed.
LEMMA ObservedStays ==
  ASSUME RowsInv, RowsInv', AnswersInv, Rollups!Observed, query' = query, answer' = answer,
         Numbered(events')
  PROVE  AnswersInv'
<1>1. CASE query = Idle
  <2>1. since' = since /\ ever' = ever
    BY <1>1 DEF Rollups!Observed
  <2>2. AnswersAreBetween'
    BY <2>1 DEF AnswersInv, AnswersAreBetween, Rollups!AnswersAreBetween
  <2> QED
    BY <1>1, <2>2 DEF AnswersInv
<1>2. CASE query # Idle
  <2> DEFINE asked == Rollups!InRange(events', query.from, query.to)
  <2>1. since' = since \cap events' /\ ever' = ever \cup asked
    BY <1>2 DEF Rollups!Observed
  <2>2. answer = Idle /\ Watched(query, events, since, ever) /\ Found(query, since, ever)
    BY <1>2 DEF AnswersInv
  <2>3. IsFiniteSet(events') /\ \A e \in events' : e.ts \in Nat
    BY DEF RowsInv
  <2>4. asked \subseteq events' /\ \A e \in asked : query.from <= e.ts /\ e.ts <= query.to
    BY DEF Rollups!InRange
  <2>5. since' \subseteq asked
    BY <2>1, <2>2 DEF Watched, Rollups!InRange
  <2>6. IsFiniteSet(ever') /\ IsFiniteSet(ever) /\ IsFiniteSet(since)
    <3>1. since \subseteq ever /\ IsFiniteSet(ever)
      BY <2>2 DEF Watched
    <3>2. IsFiniteSet(asked)
      BY <2>3, <2>4, FS_Subset
    <3> QED
      BY <2>1, <3>1, <3>2, FS_Subset, FS_Union
  <2>7. Watched(query, events', since', ever')
    <3>1. \A e \in ever' : e.ts \in Nat /\ query.from <= e.ts /\ e.ts <= query.to
      BY <2>1, <2>2, <2>3, <2>4 DEF Watched
    <3> QED
      BY <2>1, <2>2, <2>5, <2>6, <3>1 DEF Watched
  <2>8. Found(query, since', ever')
    <3>1. since' \subseteq since /\ ever \subseteq ever'
      BY <2>1
    <3> QED
      BY <2>2, <2>6, <3>1, FoundStays
  <2>9. AnswersAreBetween'
    BY <2>2 DEF AnswersAreBetween, Rollups!AnswersAreBetween
  <2> QED
    BY <2>2, <2>7, <2>8, <2>9 DEF AnswersInv
<1> QED
  BY <1>1, <1>2

\* What a query finds when it begins.
LEMMA BeginsWatched ==
  ASSUME RowsInv, AnswersInv, NEW q, Rollups!Begin(q),
         q.from \in Nat, q.to \in Nat, q.from <= q.to,
         LET asked == Rollups!InRange(events, q.from, q.to) IN Found(q, asked, asked)
  PROVE  AnswersInv'
<1> DEFINE asked == Rollups!InRange(events, q.from, q.to)
<1>1. /\ query' = q /\ since' = asked /\ ever' = asked /\ answer' = Idle /\ events' = events
  BY DEF Rollups!Begin, Rollups!storeVars
<1>2. asked \subseteq events /\ IsFiniteSet(events) /\ \A e \in events : e.ts \in Nat
  BY DEF RowsInv, Rollups!InRange
<1>3. IsFiniteSet(asked)
  BY <1>2, FS_Subset
<1>4. \A e \in asked : q.from <= e.ts /\ e.ts <= q.to
  BY DEF Rollups!InRange
<1>5. Watched(q, events, asked, asked)
  BY <1>2, <1>3, <1>4 DEF Watched
<1>6. AnswersAreBetween'
  BY <1>1 DEF AnswersAreBetween, Rollups!AnswersAreBetween
<1>7. Numbered(events')
  BY <1>1 DEF AnswersInv
<1> QED
  BY <1>1, <1>5, <1>6, <1>7 DEF AnswersInv

\* The bounds of the ranges of queries of several statements.
LEMMA WindowsAre ==
  ASSUME NEW w \in Windows
  PROVE  w.from \in Nat /\ w.to \in Nat /\ w.from <= w.to
BY StorePartsAssumption DEF Rollups!RollupStoreAssumption

\* The full minutes of what is in a range are the full minutes of the range.
LEMMA InsideOfAsked ==
  ASSUME RowsInv, NEW from \in Nat, NEW to \in Nat, from <= to
  PROVE  Inside(Rollups!InRange(events, from, to), from, to) = Inside(events, from, to)
<1>1. IsFiniteSet(events) /\ \A e \in events : e.ts \in Nat
  BY DEF RowsInv
<1>2. Rollups!InRange(events, from, to) = Inside(events, from, to) \cup Outside(events, from, to)
  BY <1>1, Halves
<1>3. Inside(events, from, to) \subseteq Rollups!InRange(events, from, to)
  BY <1>2
<1>4. Rollups!InRange(events, from, to) \subseteq events
  BY DEF Rollups!InRange
<1> QED
  BY <1>3, <1>4 DEF Inside

\* The first statement of a dimension counts the full minutes,
LEMMA DimensionBeginsWell ==
  ASSUME RowsInv, AnswersInv, NEW w \in Windows, Rollups!DimensionBegins(w)
  PROVE  AnswersInv'
<1> DEFINE q == [kind |-> "dimension", from |-> w.from, to |-> w.to,
                 sum |-> Rollups!Requests(Rollups!RowsOf(Rollups!FullMinutes(w.from, w.to)))]
           asked == Rollups!InRange(events, w.from, w.to)
<1>1. q.kind = "dimension" /\ q.from = w.from /\ q.to = w.to
      /\ q.sum = Rollups!Requests(Rollups!RowsOf(Rollups!FullMinutes(w.from, w.to)))
  OBVIOUS
<1>2. Rollups!Begin(q)
  BY DEF Rollups!DimensionBegins
<1> HIDE DEF q
<1>3. w.from \in Nat /\ w.to \in Nat /\ w.from <= w.to
  BY WindowsAre
<1>4. q.sum = Cardinality(Inside(asked, w.from, w.to))
  BY <1>1, <1>3, InsideCount, InsideOfAsked
<1>5. Cardinality(Inside(asked, w.from, w.to)) \in Nat
  <2>1. IsFiniteSet(Inside(asked, w.from, w.to))
    BY FS_Subset DEF RowsInv, Inside, Rollups!InRange
  <2> QED
    BY <2>1, FS_CardinalityType
<1>6. Found(q, asked, asked)
  BY <1>1, <1>4, <1>5 DEF Found
<1> QED
  BY <1>1, <1>2, <1>3, <1>6, BeginsWatched

\* The first timestamp is not after any in the range.
LEMMA FirstIs ==
  ASSUME RowsInv, NEW to \in Nat
  PROVE  LET first == Rollups!FirstTimestamp(to)
         IN  first \in Nat /\ first <= to /\ \A e \in events : e.ts <= to => first <= e.ts
<1> DEFINE S == {e.ts : e \in {x \in events : x.ts <= to}}
<1>1. \A e \in events : e.ts \in Nat
  BY DEF RowsInv
<1>2. Rollups!FirstTimestamp(to) = IF S = {} THEN to ELSE Rollups!Min(S)
  BY DEF Rollups!FirstTimestamp
<1>3. S \in SUBSET Int /\ \A x \in S : 0 <= x /\ x <= to
  BY <1>1
<1>4. \A e \in events : e.ts <= to => e.ts \in S
  OBVIOUS
<1> HIDE DEF S
<1>5. CASE S = {}
  BY <1>2, <1>4, <1>5
<1>6. CASE S # {}
  <2>1. Rollups!Min(S) \in S /\ \A x \in S : Rollups!Min(S) <= x
    <3>1. 0 \in Int /\ to \in Int
      OBVIOUS
    <3> QED
      BY <1>3, <1>6, <3>1, ExtremesAre
  <2>2. Rollups!FirstTimestamp(to) = Rollups!Min(S)
    BY <1>2, <1>6
  <2>3. Rollups!Min(S) \in Nat /\ Rollups!Min(S) <= to
    <3>1. Rollups!Min(S) \in Int /\ 0 <= Rollups!Min(S) /\ Rollups!Min(S) <= to
      BY <1>3, <2>1
    <3> QED
      BY <3>1
  <2>4. \A e \in events : e.ts <= to => Rollups!Min(S) <= e.ts
    BY <1>4, <2>1
  <2> QED
    BY <2>2, <2>3, <2>4
<1> QED
  BY <1>5, <1>6

\* that of all time finds where it begins,
LEMMA AllBeginsWell ==
  ASSUME RowsInv, AnswersInv, NEW w \in Windows, Rollups!AllBegins(w)
  PROVE  AnswersInv'
<1> DEFINE q == [kind |-> "all", from |-> 0, to |-> w.to, first |-> Rollups!FirstTimestamp(w.to)]
           asked == Rollups!InRange(events, 0, w.to)
<1>1. q.kind = "all" /\ q.from = 0 /\ q.to = w.to /\ q.first = Rollups!FirstTimestamp(w.to)
  OBVIOUS
<1>2. Rollups!Begin(q)
  BY DEF Rollups!AllBegins
<1> HIDE DEF q
<1>3. w.to \in Nat
  BY WindowsAre
<1>4. q.first \in Nat /\ q.first <= w.to /\ \A e \in events : e.ts <= w.to => q.first <= e.ts
  BY <1>1, <1>3, FirstIs
<1>5. Found(q, asked, asked)
  BY <1>1, <1>4 DEF Found, Rollups!InRange
<1> QED
  BY <1>1, <1>2, <1>3, <1>5, BeginsWatched

\* and that of a page counts all rows.
LEMMA EventsBeginWell ==
  ASSUME RowsInv, AnswersInv, NEW w \in Windows, NEW page \in 1..(MaxPage + 1), NEW size \in PageSizes,
         Rollups!EventsBegin(w, page, size)
  PROVE  AnswersInv'
<1> DEFINE q == [kind |-> "events", from |-> w.from, to |-> w.to, page |-> page, size |-> size,
                 total |-> Rollups!Count(w.from, w.to)]
           asked == Rollups!InRange(events, w.from, w.to)
<1>1. /\ q.kind = "events" /\ q.from = w.from /\ q.to = w.to /\ q.page = page /\ q.size = size
      /\ q.total = Rollups!Count(w.from, w.to)
  OBVIOUS
<1>2. Rollups!Begin(q)
  BY DEF Rollups!EventsBegin
<1> HIDE DEF q
<1>3. w.from \in Nat /\ w.to \in Nat /\ w.from <= w.to
  BY WindowsAre
<1>4. page \in Nat \ {0} /\ size \in Nat \ {0}
  BY StorePartsAssumption DEF Rollups!RollupStoreAssumption
<1>5. q.total = Cardinality(asked) /\ Cardinality(asked) \in Nat
  <2>1. IsFiniteSet(asked)
    BY FS_Subset DEF RowsInv, Rollups!InRange
  <2> QED
    BY <1>1, <1>3, <2>1, Counts, FS_CardinalityType
<1>6. Found(q, asked, asked)
  BY <1>1, <1>4, <1>5 DEF Found
<1> QED
  BY <1>1, <1>2, <1>3, <1>6, BeginsWatched

\* What ends leaves the rows alone, and no query is under way.
LEMMA AnswerLeaves ==
  ASSUME NEW a, Rollups!Answer(a)
  PROVE  query' = Idle /\ answer' = a /\ events' = events /\ since' = since /\ ever' = ever
BY DEF Rollups!Answer, Rollups!storeVars

\* An answer that is a number.
LEMMA NumberAnswers ==
  ASSUME AnswersInv, NEW n, Rollups!Answer([kind |-> "requests", sum |-> n]),
         Cardinality(since) <= n, n <= Cardinality(ever)
  PROVE  AnswersInv'
<1> DEFINE a == [kind |-> "requests", sum |-> n]
<1>1. query' = Idle /\ answer' = a /\ events' = events /\ since' = since /\ ever' = ever
  BY AnswerLeaves
<1>2. a.kind = "requests" /\ a.sum = n
  OBVIOUS
<1> HIDE DEF a
<1>3. Rollups!Cardinality(since) = Cardinality(since) /\ Rollups!Cardinality(ever) = Cardinality(ever)
  BY Counting
<1>4. AnswersAreBetween'
  BY <1>1, <1>2, <1>3 DEF AnswersAreBetween, Rollups!AnswersAreBetween
<1> QED
  BY <1>1, <1>4 DEF AnswersInv

\* Between the two statements rows of the full minutes and of the edges come and go.
LEMMA DimensionEndsWell ==
  ASSUME RowsInv, AnswersInv, Rollups!DimensionEnds
  PROVE  AnswersInv'
<1> DEFINE from == query.from  to == query.to
<1>1. /\ query # Idle /\ query.kind = "dimension"
      /\ Rollups!Answer([kind |-> "requests", sum |-> query.sum + Cardinality(Outside(events, from, to))])
  BY Counting, AtEdgesIsOutside DEF Rollups!DimensionEnds
<1>2. Watched(query, events, since, ever) /\ Found(query, since, ever)
  BY <1>1 DEF AnswersInv
<1>3. /\ from \in Nat /\ to \in Nat /\ from <= to
      /\ since \subseteq Rollups!InRange(events, from, to)
      /\ Rollups!InRange(events, from, to) \subseteq ever
      /\ IsFiniteSet(ever) /\ \A e \in ever : e.ts \in Nat /\ from <= e.ts /\ e.ts <= to
  BY <1>2 DEF Watched
<1>4. /\ query.sum \in Nat
      /\ Cardinality(Inside(since, from, to)) <= query.sum /\ query.sum <= Cardinality(Inside(ever, from, to))
  BY <1>1, <1>2 DEF Found
<1> HIDE DEF from, to
<1>5. IsFiniteSet(events) /\ \A e \in events : e.ts \in Nat
  BY DEF RowsInv
<1>6. IsFiniteSet(since) /\ since \subseteq events /\ since \subseteq ever
  BY <1>3, FS_Subset DEF Rollups!InRange
<1>7. Rollups!InRange(since, from, to) = since /\ Rollups!InRange(ever, from, to) = ever
  BY <1>3, <1>6 DEF Rollups!InRange
<1>8. Cardinality(since) = Cardinality(Inside(since, from, to)) + Cardinality(Outside(since, from, to))
  <2>1. \A e \in since : e.ts \in Nat
    BY <1>3, <1>6
  <2>2. Cardinality(Rollups!InRange(since, from, to))
          = Cardinality(Inside(since, from, to)) + Cardinality(Outside(since, from, to))
    BY <1>3, <1>6, <2>1, Halves
  <2> QED
    BY <1>7, <2>2
<1>9. Cardinality(ever) = Cardinality(Inside(ever, from, to)) + Cardinality(Outside(ever, from, to))
  BY <1>3, <1>7, Halves
<1>10. Outside(since, from, to) \subseteq Outside(events, from, to)
  BY <1>6 DEF Outside
<1>11. Outside(events, from, to) \subseteq Outside(ever, from, to)
  <2>1. Rollups!InRange(events, from, to) = Inside(events, from, to) \cup Outside(events, from, to)
    BY <1>3, <1>5, Halves
  <2>2. Outside(events, from, to) \subseteq ever
    BY <1>3, <2>1
  <2> QED
    BY <2>2 DEF Outside
<1>12. IsFiniteSet(Outside(events, from, to)) /\ IsFiniteSet(Outside(ever, from, to))
  BY <1>3, <1>5, FS_Subset DEF Outside
<1>13. /\ Cardinality(Outside(since, from, to)) <= Cardinality(Outside(events, from, to))
       /\ Cardinality(Outside(events, from, to)) <= Cardinality(Outside(ever, from, to))
       /\ Cardinality(Outside(since, from, to)) \in Nat /\ Cardinality(Outside(events, from, to)) \in Nat
       /\ Cardinality(Outside(ever, from, to)) \in Nat
  BY <1>10, <1>11, <1>12, Fewer
<1>14. Cardinality(Inside(since, from, to)) \in Nat /\ Cardinality(Inside(ever, from, to)) \in Nat
  <2>1. IsFiniteSet(Inside(since, from, to)) /\ IsFiniteSet(Inside(ever, from, to))
    BY <1>3, <1>6, FS_Subset DEF Inside
  <2> QED
    BY <2>1, FS_CardinalityType
<1>15. LET n == query.sum + Cardinality(Outside(events, from, to))
       IN  Cardinality(since) <= n /\ n <= Cardinality(ever)
  BY <1>4, <1>8, <1>9, <1>13, <1>14
<1> QED
  BY <1>1, <1>15, NumberAnswers

\* All time is counted from the timestamp that was the first.
LEMMA AllEndsWell ==
  ASSUME RowsInv, AnswersInv, Rollups!AllEnds
  PROVE  AnswersInv'
<1> DEFINE first == query.first  to == query.to  asked == Rollups!InRange(events, first, to)
<1>1. /\ query # Idle /\ query.kind = "all"
      /\ Rollups!Answer([kind |-> "requests", sum |-> Rollups!Count(first, to)])
  BY DEF Rollups!AllEnds
<1>2. Watched(query, events, since, ever) /\ Found(query, since, ever)
  BY <1>1 DEF AnswersInv
<1>3. first \in Nat /\ query.from <= first /\ first <= to /\ \A e \in since : first <= e.ts
  BY <1>1, <1>2 DEF Found
<1>4. /\ query.from \in Nat /\ to \in Nat
      /\ since \subseteq Rollups!InRange(events, query.from, to)
      /\ Rollups!InRange(events, query.from, to) \subseteq ever /\ IsFiniteSet(ever)
  BY <1>2 DEF Watched
<1> HIDE DEF first, to
<1>5. \A e \in events : e.ts \in Nat
  BY DEF RowsInv
<1>6. since \subseteq asked
  BY <1>3, <1>4 DEF Rollups!InRange
<1>7. asked \subseteq ever
  <2>1. asked \subseteq Rollups!InRange(events, query.from, to)
    BY <1>3, <1>4, <1>5 DEF Rollups!InRange
  <2> QED
    BY <1>4, <2>1
<1>8. Rollups!Count(first, to) = Cardinality(asked)
  BY <1>3, <1>4, Counts
<1> HIDE DEF asked
<1>9. IsFiniteSet(asked)
  BY <1>4, <1>7, FS_Subset
<1>10. Cardinality(since) <= Cardinality(asked) /\ Cardinality(asked) <= Cardinality(ever)
  BY <1>4, <1>6, <1>7, <1>9, Fewer
<1> QED
  BY <1>1, <1>8, <1>10, NumberAnswers

\* A page of the rows, after the number of all.
LEMMA EventsEndWell ==
  ASSUME RowsInv, AnswersInv, Rollups!EventsEnd
  PROVE  AnswersInv'
<1> DEFINE p == query.page - 1  size == query.size  total == query.total
           offset == Rollups!PageOffset(query.page, query.size)
           asked == Rollups!InRange(events, query.from, query.to)
           rows == IF offset >= total THEN {} ELSE Rollups!PageRows(asked, offset, size)
           a == [kind |-> "page", page |-> query.page, size |-> size, total |-> total, rows |-> rows]
<1>1. query # Idle /\ query.kind = "events" /\ Rollups!Answer(a)
  BY DEF Rollups!EventsEnd
<1>2. Watched(query, events, since, ever) /\ Found(query, since, ever)
  BY <1>1 DEF AnswersInv
<1>3. /\ total \in Nat /\ Cardinality(since) <= total /\ total <= Cardinality(ever)
      /\ query.page \in Nat \ {0} /\ size \in Nat \ {0}
  BY <1>1, <1>2 DEF Found
<1>4. asked \subseteq ever /\ since \subseteq asked /\ IsFiniteSet(ever)
  BY <1>2 DEF Watched
<1>5. a.kind = "page" /\ a.page = query.page /\ a.size = size /\ a.total = total /\ a.rows = rows
  OBVIOUS
<1>6. query' = Idle /\ answer' = a /\ events' = events /\ since' = since /\ ever' = ever
  BY <1>1, AnswerLeaves
<1>7. Listed(asked)
  <2>1. asked \subseteq events
    BY DEF Rollups!InRange
  <2>2. IsFiniteSet(asked)
    BY <1>4, FS_Subset
  <2>3. \A e \in events : e.ts \in Nat /\ e.id \in Nat
    BY DEF RowsInv
  <2> QED
    BY <2>1, <2>2, <2>3 DEF Listed, AnswersInv, Numbered
<1>8. p \in Nat /\ offset = p * size /\ offset \in Nat
  BY <1>3 DEF Rollups!PageOffset
<1> HIDE DEF a, p, size, total, asked
<1>9. rows \subseteq asked /\ Cardinality(rows) <= size
  <2> HIDE DEF offset
  <2>1. Rollups!PageRows(asked, offset, size) \subseteq asked
        /\ Cardinality(Rollups!PageRows(asked, offset, size)) <= size
    BY <1>3, <1>7, <1>8, PageIsLimited
  <2>2. Cardinality({}) = 0
    BY FS_EmptySet
  <2> QED
    BY <1>3, <2>1, <2>2
<1>10. ASSUME since = ever
       PROVE  /\ total = Cardinality(ever)
              /\ rows = {e \in ever : Rank(e, ever) \div size = p}
  <2>1. asked = ever /\ Cardinality(ever) \in Nat
    BY <1>4, <1>10, FS_CardinalityType
  <2>2. total = Cardinality(ever)
    BY <1>3, <1>10, <2>1
  <2> HIDE DEF offset
  <2>3. ASSUME NEW e \in ever
        PROVE  /\ Rank(e, ever) \in Nat /\ Rank(e, ever) < total
               /\ Rank(e, ever) \div size = p <=> offset <= Rank(e, ever) /\ Rank(e, ever) < offset + size
    <3>1. Rank(e, ever) \in Nat /\ Rank(e, ever) < total
      BY <1>7, <2>1, <2>2, RankBelow
    <3> QED
      BY <1>3, <1>8, <3>1, PlacesOfPage
  <2>4. Rollups!PageRows(ever, offset, size) = {e \in ever : Rank(e, ever) >= offset /\ Rank(e, ever) < offset + size}
    BY Counting DEF Rollups!PageRows, Rank
  <2>5. CASE offset >= total
    <3>1. \A e \in ever : ~(offset <= Rank(e, ever))
      BY <1>3, <1>8, <2>3, <2>5
    <3>2. rows = {}
      BY <2>5
    <3> QED
      BY <2>2, <2>3, <3>1, <3>2
  <2>6. CASE ~(offset >= total)
    <3>1. rows = Rollups!PageRows(ever, offset, size)
      BY <2>1, <2>6
    <3>2. \A e \in ever : Rank(e, ever) \div size = p <=> Rank(e, ever) >= offset /\ Rank(e, ever) < offset + size
      BY <1>8, <2>3
    <3> HIDE DEF rows
    <3> QED
      BY <2>2, <2>4, <3>1, <3>2
  <2> QED
    BY <2>5, <2>6
<1> HIDE DEF rows, offset
<1>11. AnswersAreBetween'
  <2>1. a.rows \subseteq ever /\ Rollups!Cardinality(a.rows) <= a.size
    BY <1>4, <1>5, <1>9, Counting
  <2>2. since = ever =>
           /\ a.total = Rollups!Cardinality(ever)
           /\ a.rows = {e \in ever : Rollups!Cardinality(Rollups!Before(e, ever)) \div a.size = a.page - 1}
    BY <1>5, <1>10, Counting DEF Rank, p
  <2> QED
    BY <1>5, <1>6, <2>1, <2>2 DEF AnswersAreBetween, Rollups!AnswersAreBetween
<1> QED
  BY <1>6, <1>11 DEF AnswersInv

\* Every row has its own id, whatever is written and restored.
LEMMA NumbersStay ==
  ASSUME RowsInv, Numbered(events), NEW n \in Nat, NEW b \in Rollups!Batches(n),
         Rollups!WriteBatch(b) \/ Rollups!RestoreBackup(b)
  PROVE  Numbered(events')
<1>1. \A e \in b : e.id \in (ids + 1)..(ids + n)
  BY BatchAdds DEF RowsInv
<1>2. PICK f \in [1..n -> [ts : Times, model : Models, failed : BOOLEAN]] :
          b = {[id |-> ids + i, ts |-> f[i].ts, model |-> f[i].model, failed |-> f[i].failed] : i \in 1..n}
  BY DEF Rollups!Batches
<1>3. Numbered(b)
  <2> SUFFICES ASSUME NEW i \in 1..n, NEW j \in 1..n, ids + i = ids + j PROVE i = j
    BY <1>2 DEF Numbered
  <2> QED
    BY DEF RowsInv
<1>4. \A e \in events, g \in b : e.id # g.id
  BY <1>1 DEF RowsInv
<1>5. events' = events \cup b \/ events' = b
  BY DEF Rollups!WriteBatch, Rollups!RestoreBackup
<1> QED
  BY <1>3, <1>4, <1>5 DEF Numbered

\* The invariant of the answers holds whatever the store does between two statements.
THEOREM AnswersInvariant == Spec => []AnswersInv
<1>1. Init => AnswersInv
  BY DEF Init, Rollups!Init, AnswersInv, Numbered, AnswersAreBetween, Rollups!AnswersAreBetween
<1>2. RowsInv /\ RowsInv' /\ AnswersInv /\ [Next]_vars => AnswersInv'
  <2> SUFFICES ASSUME RowsInv, RowsInv', AnswersInv, [Next]_vars PROVE AnswersInv'
    OBVIOUS
  <2>1. CASE Rollups!Next
    <3>1. ASSUME NEW m, NEW n \in 1..m, NEW b \in Rollups!Batches(n), Rollups!WriteBatch(b)
          PROVE  AnswersInv'
      <4>1. Numbered(events')
        BY <3>1, NumbersStay DEF AnswersInv
      <4>2. Rollups!Observed /\ query' = query /\ answer' = answer
        BY <3>1 DEF Rollups!WriteBatch
      <4> QED
        BY <4>1, <4>2, ObservedStays
    <3>2. ASSUME NEW m, NEW n \in 0..m, NEW b \in Rollups!Batches(n), Rollups!RestoreBackup(b)
          PROVE  AnswersInv'
      <4>1. Numbered(events')
        BY <3>2, NumbersStay DEF AnswersInv
      <4>2. Rollups!Observed /\ query' = query /\ answer' = answer
        BY <3>2 DEF Rollups!RestoreBackup
      <4> QED
        BY <4>1, <4>2, ObservedStays
    <3>3. ASSUME NEW cutoff \in Bounds, Rollups!Prune(cutoff)
          PROVE  AnswersInv'
      <4>1. Numbered(events')
        BY <3>3 DEF AnswersInv, Numbered, Rollups!Prune
      <4>2. Rollups!Observed /\ query' = query /\ answer' = answer
        BY <3>3 DEF Rollups!Prune
      <4> QED
        BY <4>1, <4>2, ObservedStays
    <3>4. ASSUME NEW w \in Windows, Rollups!DimensionBegins(w) PROVE AnswersInv'
      BY <3>4, DimensionBeginsWell
    <3>5. ASSUME NEW w \in Windows, Rollups!AllBegins(w) PROVE AnswersInv'
      BY <3>5, AllBeginsWell
    <3>6. ASSUME NEW w \in Windows, NEW page \in 1..(MaxPage + 1), NEW size \in PageSizes,
                 Rollups!EventsBegin(w, page, size)
          PROVE  AnswersInv'
      BY <3>6, EventsBeginWell
    <3>7. ASSUME Rollups!DimensionEnds \/ Rollups!AllEnds \/ Rollups!EventsEnd PROVE AnswersInv'
      BY <3>7, DimensionEndsWell, AllEndsWell, EventsEndWell
    <3> QED
      BY <2>1, <3>1, <3>2, <3>3, <3>4, <3>5, <3>6, <3>7 DEF Rollups!Next
  <2>2. CASE UNCHANGED rollupVars
    BY <2>2 DEF rollupVars, AnswersInv, AnswersAreBetween, Rollups!AnswersAreBetween
  <2>3. Rollups!Next \/ UNCHANGED rollupVars
    BY DEF Next, RollupsMove, StatusMoves, PricesMove, vars
  <2> QED
    BY <2>1, <2>2, <2>3
<1> QED
  BY <1>1, <1>2, RowsInvariant, PTL DEF Spec

\* An answer put together by several statements counts every event of the range that was there
\* all the time, none that was never there and none twice, and a page read while the range did
\* not change is the page it says (query.go:247).
THEOREM AnswersCorrect == Spec => []AnswersAreBetween
<1>1. AnswersInv => AnswersAreBetween
  BY DEF AnswersInv
<1> QED
  BY <1>1, AnswersInvariant, PTL
=============================================================================
