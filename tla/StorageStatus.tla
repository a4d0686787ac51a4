--------------------------- MODULE StorageStatus ----------------------------
(***************************************************************************)
(* The storage metrics (go/storage.go storageStatus): a sample of the      *)
(* database that is kept for a few seconds, taken anew when a request      *)
(* forces it or after a cleanup or a restore, and marked stale when it     *)
(* could not be taken.  /summary asks for a snapshot; reading the settings *)
(* and changing them force a sample.                                       *)
(*                                                                         *)
(* The database is a version that every change of many rows advances.      *)
(***************************************************************************)
EXTENDS Integers

CONSTANTS
    Requests,    \* /summary and GET /settings
    Changes,     \* cleanups and restores
    Settings,    \* PUT /settings, which prune
    None,        \* nobody holds metricsMu
    MaxVersion   \* bound on changes

StatusAssumption ==
    /\ MaxVersion \in Nat /\ None \notin Requests \cup Settings
    /\ Changes \cap (Requests \cup Settings) = {}

VARIABLES
    db,       \* the committed version
    holder,   \* who holds metricsMu
    attempt,  \* metricsAttempt: "zero", "recent", "old"
    metrics,  \* the last sample that succeeded, and whether a later one failed
    pc, seen, \* of every process; what the sample under way has read, 0 if it failed
    reply,    \* the status a request was answered with
    done, floor  \* history: version of the last change that returned; at the start of a request

vars == <<db, holder, attempt, metrics, pc, seen, reply, done, floor>>
Askers == Requests \cup Settings
Procs == Askers \cup Changes
NoSample == [version |-> 0, stale |-> FALSE]

Init ==
    /\ db = 1 /\ done = 1
    /\ holder = None /\ attempt = "zero" /\ metrics = NoSample
    /\ pc = [p \in Procs |-> "idle"] /\ seen = [p \in Askers |-> 0]
    /\ reply = [p \in Askers |-> NoSample] /\ floor = [p \in Askers |-> 0]

\* storageStatus: the mutex is held while the sample is taken.
Ask(p) ==
    /\ p \in Requests /\ pc[p] = "idle"
    /\ \E kind \in {"snapshot", "forced"} : pc' = [pc EXCEPT ![p] = kind]
    /\ floor' = [floor EXCEPT ![p] = done]
    /\ UNCHANGED <<db, holder, attempt, metrics, seen, reply, done>>

Kept(p) ==
    /\ holder = None /\ pc[p] = "snapshot" /\ attempt = "recent"
    /\ reply' = [reply EXCEPT ![p] = metrics]
    /\ pc' = [pc EXCEPT ![p] = "answered"]
    /\ UNCHANGED <<db, holder, attempt, metrics, seen, done, floor>>

Collect(p) ==
    /\ holder = None
    /\ pc[p] = "forced" \/ (pc[p] = "snapshot" /\ attempt # "recent")
    /\ holder' = p
    /\ seen' \in {[seen EXCEPT ![p] = v] : v \in {0, db}}
    /\ pc' = [pc EXCEPT ![p] = "collected"]
    /\ UNCHANGED <<db, attempt, metrics, reply, done, floor>>

Later(a, b) == IF a > b THEN a ELSE b
StoreSilently(p) ==
    /\ pc[p] = "collected"
    /\ attempt' = "recent"
    /\ metrics' = IF seen[p] # 0 THEN [version |-> seen[p], stale |-> FALSE] ELSE metrics
    /\ reply' = [reply EXCEPT ![p] = metrics']
    /\ holder' = None /\ pc' = [pc EXCEPT ![p] = "answered"]
    /\ done' = IF p \in Settings THEN Later(done, floor[p]) ELSE done
    /\ UNCHANGED <<db, seen, floor>>
Store(p) ==
    /\ pc[p] = "collected"
    /\ attempt' = "recent"
    /\ metrics' = IF seen[p] # 0 THEN [version |-> seen[p], stale |-> FALSE]
                  ELSE [metrics EXCEPT !.stale = TRUE]
    /\ reply' = [reply EXCEPT ![p] = metrics']
    /\ holder' = None /\ pc' = [pc EXCEPT ![p] = "answered"]
    /\ done' = IF p \in Settings THEN Later(done, floor[p]) ELSE done
    /\ UNCHANGED <<db, seen, floor>>

Again(p) ==
    /\ pc[p] = "answered" /\ pc' = [pc EXCEPT ![p] = "idle"]
    /\ reply' = [reply EXCEPT ![p] = NoSample] /\ floor' = [floor EXCEPT ![p] = 0]
    /\ seen' = [seen EXCEPT ![p] = 0]
    /\ UNCHANGED <<db, holder, attempt, metrics, done>>

\* prune and importBackup: the commit, then the invalidation, which waits for the mutex.
Change(c) ==
    /\ c \in Changes /\ pc[c] = "idle" /\ db < MaxVersion
    /\ db' = db + 1
    /\ pc' = [pc EXCEPT ![c] = "committed"]
    /\ UNCHANGED <<holder, attempt, metrics, seen, reply, done, floor>>
\* A commit that reports an error leaves open whether it applied, and nothing is invalidated.
ChangeFails(c) ==
    /\ c \in Changes /\ pc[c] = "idle" /\ db < MaxVersion
    /\ db' = db + 1
    /\ UNCHANGED <<holder, attempt, metrics, pc, seen, reply, done, floor>>
Invalidate(c) ==
    /\ c \in Changes /\ pc[c] = "committed" /\ holder = None
    /\ attempt' = "zero"
    /\ done' = db /\ pc' = [pc EXCEPT ![c] = "idle"]
    /\ UNCHANGED <<db, holder, metrics, seen, reply, floor>>

\* updateSettings does not invalidate, but its answer forces a sample.
ChangeSettings(p) ==
    /\ p \in Settings /\ pc[p] = "idle" /\ db < MaxVersion
    /\ db' = db + 1 /\ floor' = [floor EXCEPT ![p] = db']
    /\ pc' = [pc EXCEPT ![p] = "forced"]
    /\ UNCHANGED <<holder, attempt, metrics, seen, reply, done>>

TimePasses ==
    /\ attempt = "recent" /\ attempt' = "old"
    /\ UNCHANGED <<db, holder, metrics, pc, seen, reply, done, floor>>

Next ==
    \/ \E p \in Askers : Ask(p) \/ Kept(p) \/ Collect(p) \/ Store(p) \/ Again(p) \/ ChangeSettings(p)
    \/ \E c \in Changes : Change(c) \/ ChangeFails(c) \/ Invalidate(c)
    \/ TimePasses

Spec == Init /\ [][Next]_vars
-----------------------------------------------------------------------------
\* A status that does not call itself stale counts no row that a cleanup, a restore or a
\* change of the settings had removed, and had reported so, before it was asked for ("清理和恢复成功后使存储快照失效",
\* README.md:38), also when that was answered with a failed sample; after a failure the
\* earlier numbers come with the mark (README.md:39).
StatusIsHonest ==
    \A p \in Askers : pc[p] = "answered" => reply[p].stale \/ reply[p].version >= floor[p]
=============================================================================
