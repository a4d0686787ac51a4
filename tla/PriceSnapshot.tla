--------------------------- MODULE PriceSnapshot ----------------------------
(***************************************************************************)
(* The prices the store keeps in memory (go/pricing.go loadPriceSnapshot,  *)
(* replacePrices; go/backup.go): a snapshot behind a read-write lock that  *)
(* queries fill and writers drop, and the pool of database connections,    *)
(* which is awaited with the lock held.                                    *)
(*                                                                         *)
(* The table is a version that each replacement advances.                  *)
(***************************************************************************)
EXTENDS Naturals, FiniteSets

CONSTANTS
    Readers,     \* queries and backups: they need the prices, then a cursor
    Writers,     \* PUT /prices and restores
    Nobody,      \* priceMu is free for writers
    Connections, \* sqliteMaxOpenConnections
    MaxVersion   \* bound on replacements

PriceAssumption ==
    /\ Connections \in Nat \ {0} /\ MaxVersion \in Nat
    /\ Nobody \notin Readers \cup Writers /\ Readers \cap Writers = {}

VARIABLES
    table,     \* the committed prices
    loaded,    \* the snapshot, 0 without one
    lock,      \* who has priceMu.Lock
    conns,     \* who has a connection
    pc,
    got,       \* the prices a reader uses
    confirmed, \* history: the last version a writer was told of
    floor,     \* history: confirmed when the reader began
    doubtful   \* history: a commit reported an error and applied

vars == <<table, loaded, lock, conns, pc, got, confirmed, floor, doubtful>>
Procs == Readers \cup Writers

Init ==
    /\ table = 1 /\ loaded = 0 /\ lock = Nobody /\ conns = {}
    /\ pc = [p \in Procs |-> "idle"]
    /\ got = [r \in Readers |-> 0] /\ confirmed = 1 /\ floor = [r \in Readers |-> 0]
    /\ doubtful = FALSE

Goes(p, step) == pc' = [pc EXCEPT ![p] = step]
Free == Cardinality(conns) < Connections

\* readBackupEvents with the cursor opened before the prices are loaded.
BeginCursorFirst(r) ==
    /\ pc[r] = "idle" /\ Free
    /\ conns' = conns \cup {r}
    /\ Goes(r, "asks") /\ floor' = [floor EXCEPT ![r] = confirmed]
    /\ UNCHANGED <<table, loaded, lock, got, confirmed, doubtful>>
Begin(r) ==
    /\ pc[r] = "idle"
    /\ Goes(r, "asks") /\ floor' = [floor EXCEPT ![r] = confirmed]
    /\ UNCHANGED <<table, loaded, lock, conns, got, confirmed, doubtful>>

\* The first look, under the read lock, which ends at once.
Look(r) ==
    /\ pc[r] = "asks" /\ lock = Nobody
    /\ IF loaded # 0 THEN got' = [got EXCEPT ![r] = loaded] /\ Goes(r, "priced")
       ELSE Goes(r, "locks") /\ UNCHANGED got
    /\ UNCHANGED <<table, loaded, lock, conns, confirmed, floor, doubtful>>

\* The second look, under the lock: another query may have filled the snapshot.
LookAgain(r) ==
    /\ pc[r] = "locks" /\ lock = Nobody
    /\ IF loaded # 0 THEN got' = [got EXCEPT ![r] = loaded] /\ Goes(r, "priced") /\ UNCHANGED lock
       ELSE lock' = r /\ Goes(r, "loads") /\ UNCHANGED got
    /\ UNCHANGED <<table, loaded, conns, confirmed, floor, doubtful>>

\* queryPrices: the list is complete when the connection is given back.
Load(r) ==
    /\ pc[r] = "loads" /\ Free
    /\ got' = [got EXCEPT ![r] = table]
    /\ Goes(r, "keeps")
    /\ UNCHANGED <<table, loaded, lock, conns, confirmed, floor, doubtful>>
Keep(r) ==
    /\ pc[r] = "keeps"
    /\ loaded' = got[r] /\ lock' = Nobody /\ Goes(r, "priced")
    /\ UNCHANGED <<table, conns, got, confirmed, floor, doubtful>>
LoadFails(r) ==
    /\ pc[r] = "loads"
    /\ lock' = Nobody /\ Goes(r, "done")
    /\ UNCHANGED <<table, loaded, conns, got, confirmed, floor, doubtful>>

\* The query itself, with a cursor that keeps its connection.
OpenCursor(r) ==
    /\ pc[r] = "priced" /\ (Free \/ r \in conns)
    /\ conns' = conns \cup {r} /\ Goes(r, "reads")
    /\ UNCHANGED <<table, loaded, lock, got, confirmed, floor, doubtful>>
CloseCursor(r) ==
    /\ pc[r] = "reads"
    /\ conns' = conns \ {r} /\ Goes(r, "done")
    /\ UNCHANGED <<table, loaded, lock, got, confirmed, floor, doubtful>>
Again(r) ==
    /\ pc[r] = "done" /\ Goes(r, "idle")
    /\ got' = [got EXCEPT ![r] = 0] /\ floor' = [floor EXCEPT ![r] = 0]
    /\ UNCHANGED <<table, loaded, lock, conns, confirmed, doubtful>>

-----------------------------------------------------------------------------
\* replacePrices and importBackup.
LockPrices(w) ==
    /\ pc[w] = "idle" /\ lock = Nobody /\ table < MaxVersion
    /\ lock' = w /\ Goes(w, "begins")
    /\ UNCHANGED <<table, loaded, conns, got, confirmed, floor, doubtful>>
BeginTx(w) ==
    /\ pc[w] = "begins" /\ Free
    /\ conns' = conns \cup {w} /\ Goes(w, "writes")
    /\ UNCHANGED <<table, loaded, lock, got, confirmed, floor, doubtful>>
\* The commit and the snapshot are two steps; the lock is held for both.
Commit(w) ==
    /\ pc[w] = "writes"
    /\ table' = table + 1 /\ conns' = conns \ {w} /\ Goes(w, "committed")
    /\ UNCHANGED <<loaded, lock, got, confirmed, floor, doubtful>>
DropKept(w) ==
    /\ pc[w] = "committed"
    /\ confirmed' = table /\ lock' = Nobody /\ Goes(w, "idle")
    /\ UNCHANGED <<table, loaded, conns, got, floor, doubtful>>
Drop(w) ==
    /\ pc[w] = "committed"
    /\ loaded' = 0
    /\ confirmed' = table /\ lock' = Nobody /\ Goes(w, "idle")
    /\ UNCHANGED <<table, conns, got, floor, doubtful>>
\* An error; reported of a commit it leaves open whether that applied, and the snapshot stays.
WriteFails(w, applied) ==
    /\ pc[w] \in {"begins", "writes"} /\ (applied => pc[w] = "writes")
    /\ table' = IF applied THEN table + 1 ELSE table
    /\ doubtful' = (doubtful \/ applied)
    /\ conns' = conns \ {w} /\ lock' = Nobody /\ Goes(w, "idle")
    /\ UNCHANGED <<loaded, got, confirmed, floor>>

Next ==
    \/ \E r \in Readers : \/ Begin(r) \/ Look(r) \/ LookAgain(r) \/ Load(r) \/ Keep(r)
                          \/ LoadFails(r) \/ OpenCursor(r) \/ CloseCursor(r) \/ Again(r)
    \/ \E w \in Writers : \/ LockPrices(w) \/ BeginTx(w) \/ Commit(w) \/ Drop(w)
                          \/ \E applied \in BOOLEAN : WriteFails(w, applied)

Spec == Init /\ [][Next]_vars
-----------------------------------------------------------------------------
\* The snapshot is the table whenever nobody replaces it, and a query never works with prices
\* older than those confirmed before it began; only a commit that reported an error although
\* it applied may leave an old snapshot behind (pricing.go:147).
PricesAreConfirmed ==
    ~doubtful =>
        /\ lock = Nobody /\ loaded # 0 => loaded = table
        /\ \A r \in Readers : pc[r] \in {"priced", "reads"} => got[r] >= floor[r]

\* Whoever has the lock and waits for a connection gets one: no connection is held by somebody
\* who waits for the lock, however small the pool ("could otherwise deadlock a
\* single-connection pool", backup.go:90-92).
PoolNeverStarves ==
    lock # Nobody /\ ~Free =>
        \A p \in conns : p = lock \/ pc[p] = "reads"
=============================================================================
