--------------------------- MODULE RuntimeHandover ---------------------------
(***************************************************************************)
(* The runtimes that configureRuntime and shutdownRuntime (src/go/plugin.go)*)
(* create and retire one after the other over one database, with what runs  *)
(* beside a hand-over: each runtime's writer and its retention cleanup, PUT *)
(* /settings requests that keep the runtime they found when they arrived,   *)
(* and restores. UsageWriter has the inside of one runtime.                 *)
(*                                                                         *)
(* A row is its age in days, which does not change in the time modelled; a  *)
(* cleanup with d days deletes the ages from d up.                          *)
(***************************************************************************)
EXTENDS Naturals

CONSTANTS
    MaxRuntimes,   \* bound on configureRuntime calls that succeed
    Updates,       \* PUT /settings requests
    Restores,      \* POST /restore requests
    Days,          \* values of retention_days
    None

Runtimes == 1..MaxRuntimes

ASSUME HandoverAssumption ==
    /\ MaxRuntimes \in Nat \ {0}
    /\ Days \subseteq Nat \ {0} /\ None \notin Days

VARIABLES
    cpc,        \* where the holder of runtimeTransitionMu is, if it configures
    active,     \* activeRuntime; 0 for nil
    moving,     \* the runtime being opened or closed
    rstate,     \* each runtime's life
    config,     \* each runtime's config.RetentionDays
    wpc,        \* where each writer is
    captured,   \* the retention a cleanup works with
    upc,        \* where each settings request is
    rpc,        \* where each restore is
    target,     \* the runtime a request found when it arrived
    value,      \* the retention a settings request asks for
    stored,     \* retention_days in plugin_settings
    promised,   \* (history) the retention last confirmed to a client
    rows        \* usage_events, by age

configureVars == <<cpc, active, moving, rstate>>
writerVars    == <<config, wpc, captured>>
requestVars   == <<upc, rpc, target, value>>
dataVars      == <<stored, promised, rows>>
vars == <<configureVars, writerVars, requestVars, dataVars>>

Requests == Updates \cup Restores
Ages == Days

Init ==
    /\ cpc = "idle" /\ active = 0 /\ moving = 0
    /\ rstate = [r \in Runtimes |-> "none"]
    /\ config \in [Runtimes -> Days]        \* from each plugin configuration
    /\ wpc = [r \in Runtimes |-> "none"]
    /\ captured = [r \in Runtimes |-> None]
    /\ upc = [u \in Updates |-> "idle"]
    /\ rpc = [s \in Restores |-> "idle"]
    /\ target = [q \in Requests |-> 0]
    /\ value = [u \in Updates |-> None]
    /\ stored \in Days \cup {None}
    /\ promised = None
    /\ rows = Ages

Goto(pc, self, place) == [pc EXCEPT ![self] = place]

TransitionFree ==
    cpc = "idle" /\ \A s \in Restores : rpc[s] \notin {"pausing", "paused", "importing"}

\* Places of a settings request that holds settingsMu.
Holding == {"locked", "begun", "committed"}

SettingsFree(r) ==
    /\ wpc[r] # "pruning"
    /\ \A u \in Updates : target[u] = r => upc[u] \notin Holding
    /\ \A s \in Restores : target[s] = r => rpc[s] # "importing"

Younger(days) == {a \in rows : a < days}
-----------------------------------------------------------------------------
(* configureRuntime, newPluginRuntime, shutdownRuntime, close.              *)

Fresh == {r \in Runtimes : rstate[r] = "none"}
Next1 == CHOOSE r \in Fresh : \A s \in Fresh : r <= s

Configure ==
    /\ TransitionFree /\ Fresh # {}
    /\ cpc' = "opening"
    /\ UNCHANGED <<active, moving, rstate, writerVars, requestVars, dataVars>>

\* newPluginRuntime fails: the runtime in place stays.
OpenFails ==
    /\ cpc = "opening"
    /\ cpc' = "idle"
    /\ UNCHANGED <<active, moving, rstate, writerVars, requestVars, dataVars>>

\* Mutant of LoadSettings: a missing setting is not replaced by the configured one.
LoadWithoutFallback ==
    /\ cpc = "opening"
    /\ LET r == Next1 IN
        /\ config' = [config EXCEPT ![r] = stored]
        /\ rstate' = [rstate EXCEPT ![r] = "open"]
        /\ wpc' = Goto(wpc, r, "prune")
        /\ moving' = r
    /\ cpc' = "loaded"
    /\ UNCHANGED <<active, captured, requestVars, dataVars>>

\* The stored retention replaces the configured one unless it is missing or
\* cannot be read (loadIntSetting); then the writer starts, with a cleanup.
LoadSettings ==
    /\ cpc = "opening"
    /\ LET r == Next1 IN
        /\ \/ UNCHANGED config
           \/ stored # None /\ config' = [config EXCEPT ![r] = stored]
        /\ rstate' = [rstate EXCEPT ![r] = "open"]
        /\ wpc' = Goto(wpc, r, "prune")
        /\ moving' = r
    /\ cpc' = "loaded"
    /\ UNCHANGED <<active, captured, requestVars, dataVars>>

\* Mutant of Retire: configureRuntime returns without waiting for close().
RetireInBackground(previous) ==
    /\ cpc' = "idle" /\ moving' = 0
    /\ rstate' = [r \in Runtimes |-> IF r = previous THEN "closing" ELSE rstate[r]]

\* Closing begins as soon as nothing can reach the runtime through activeRuntime.
Retire(previous) ==
    IF previous = 0
    THEN cpc' = "idle" /\ moving' = 0 /\ UNCHANGED rstate
    ELSE cpc' = "closing" /\ moving' = previous
         /\ rstate' = [rstate EXCEPT ![previous] = "closing"]

\* activeRuntime = next, and the previous one is closed.
Swap ==
    /\ cpc = "loaded"
    /\ active' = moving
    /\ Retire(active)
    /\ UNCHANGED <<writerVars, requestVars, dataVars>>

Shutdown ==
    /\ TransitionFree /\ active # 0
    /\ active' = 0
    /\ Retire(active)
    /\ UNCHANGED <<writerVars, requestVars, dataVars>>

CloseDone ==
    /\ cpc = "closing" /\ wpc[moving] = "exited"
    /\ rstate' = [rstate EXCEPT ![moving] = "closed"]
    /\ cpc' = "idle" /\ moving' = 0
    /\ UNCHANGED <<active, writerVars, requestVars, dataVars>>
-----------------------------------------------------------------------------
(* The writer of runtime r.                                                 *)

Write(r) ==
    /\ wpc[r] = "select"
    /\ \E a \in Ages : rows' = rows \cup {a}
    /\ UNCHANGED <<configureVars, writerVars, requestVars, stored, promised>>

CleanupDue(r) ==
    /\ wpc[r] = "select"
    /\ wpc' = Goto(wpc, r, "prune")
    /\ UNCHANGED <<configureVars, config, captured, requestVars, dataVars>>

\* Mutant of CleanupLock: settingsMu is not taken.
CleanupUnlocked(r) ==
    /\ wpc[r] = "prune"
    /\ wpc' = Goto(wpc, r, "pruning")
    /\ captured' = [captured EXCEPT ![r] = config[r]]
    /\ UNCHANGED <<configureVars, config, requestVars, dataVars>>

\* pruneExpired takes settingsMu and then reads the configuration.
CleanupLock(r) ==
    /\ wpc[r] = "prune" /\ SettingsFree(r)
    /\ wpc' = Goto(wpc, r, "pruning")
    /\ captured' = [captured EXCEPT ![r] = config[r]]
    /\ UNCHANGED <<configureVars, config, requestVars, dataVars>>

\* prune commits, or fails and deletes nothing.
Cleanup(r) ==
    /\ wpc[r] = "pruning"
    /\ rows' = Younger(captured[r]) \/ UNCHANGED rows
    /\ wpc' = Goto(wpc, r, "select")
    /\ captured' = [captured EXCEPT ![r] = None]
    /\ UNCHANGED <<configureVars, config, requestVars, stored, promised>>

\* The closed channel is drained.
Exit(r) ==
    /\ wpc[r] = "select" /\ rstate[r] = "closing"
    /\ wpc' = Goto(wpc, r, "exited")
    /\ UNCHANGED <<configureVars, config, captured, requestVars, dataVars>>
-----------------------------------------------------------------------------
(* updateSettings, on the runtime that was active when the request arrived. *)

Arrive(q) ==
    /\ active # 0 /\ target[q] = 0
    /\ target' = [target EXCEPT ![q] = active]
    /\ UNCHANGED <<configureVars, writerVars, upc, rpc, value, dataVars>>

UpdateLock(u) ==
    /\ upc[u] = "idle" /\ target[u] # 0 /\ SettingsFree(target[u])
    /\ upc' = Goto(upc, u, "locked")
    /\ \E d \in Days : value' = [value EXCEPT ![u] = d]
    /\ UNCHANGED <<configureVars, writerVars, rpc, target, dataVars>>

\* BeginTx, which a closed database refuses.
UpdateBegin(u) ==
    /\ upc[u] = "locked" /\ rstate[target[u]] # "closed"
    /\ upc' = Goto(upc, u, "begun")
    /\ UNCHANGED <<configureVars, writerVars, rpc, target, value, dataVars>>

\* One transaction saves the retention and deletes what it no longer keeps.  Once begun it
\* keeps its connection, and commits although the database is closed in between.
UpdateCommit(u) ==
    /\ upc[u] = "begun"
    /\ stored' = value[u]
    /\ rows' = Younger(value[u])
    /\ upc' = Goto(upc, u, "committed")
    /\ UNCHANGED <<configureVars, writerVars, rpc, target, value, promised>>

\* The transaction cannot begin or fails, or its COMMIT reports an error after it applied.
UpdateFails(u) ==
    /\ \/ upc[u] \in {"locked", "begun"} /\ UNCHANGED <<stored, rows>>
       \/ upc[u] = "begun" /\ stored' = value[u] /\ rows' = Younger(value[u])
    /\ upc' = Goto(upc, u, "failed")
    /\ UNCHANGED <<configureVars, writerVars, rpc, target, value, promised>>

\* The runtime takes the new retention and the client gets its 200.
UpdatePublish(u) ==
    /\ upc[u] = "committed"
    /\ config' = [config EXCEPT ![target[u]] = value[u]]
    /\ promised' = value[u]
    /\ upc' = Goto(upc, u, "done")
    /\ UNCHANGED <<configureVars, wpc, captured, rpc, target, value, stored, rows>>
-----------------------------------------------------------------------------
(* restoreBackup, on the runtime that was active when the request arrived.  *)

\* runtimeTransitionMu.Lock and the currentRuntime() check.
RestoreBegin(s) ==
    /\ rpc[s] = "idle" /\ target[s] # 0 /\ TransitionFree
    /\ rpc' = Goto(rpc, s, IF active = target[s] THEN "pausing" ELSE "unavailable")
    /\ UNCHANGED <<configureVars, writerVars, upc, target, value, dataVars>>

\* pauseWriter: the writer stops at the barrier, or the call gives up.
RestorePause(s) ==
    /\ rpc[s] = "pausing"
    /\ \/ /\ wpc[target[s]] = "select"
          /\ wpc' = Goto(wpc, target[s], "paused")
          /\ rpc' = Goto(rpc, s, "paused")
       \/ UNCHANGED wpc /\ rpc' = Goto(rpc, s, "cancelled")
    /\ UNCHANGED <<configureVars, config, captured, upc, target, value, dataVars>>

RestoreLock(s) ==
    /\ rpc[s] = "paused" /\ SettingsFree(target[s])
    /\ rpc' = Goto(rpc, s, "importing")
    /\ UNCHANGED <<configureVars, writerVars, upc, target, value, dataVars>>

\* Mutant of RestoreImport: the writer is not resumed.
ImportWithoutResume(s) ==
    /\ rpc[s] = "importing"
    /\ \E backup \in SUBSET Ages : rows' = backup \/ UNCHANGED rows
    /\ rpc' = Goto(rpc, s, "done")
    /\ UNCHANGED <<configureVars, writerVars, upc, target, value, stored, promised>>

\* importBackup, then resume.
RestoreImport(s) ==
    /\ rpc[s] = "importing"
    /\ \E backup \in SUBSET Ages : rows' = backup \/ UNCHANGED rows
    /\ rpc' = Goto(rpc, s, "done")
    /\ wpc' = Goto(wpc, target[s], "select")
    /\ UNCHANGED <<configureVars, config, captured, upc, target, value, stored, promised>>
-----------------------------------------------------------------------------
Transition == OpenFails \/ LoadSettings \/ Swap \/ CloseDone

Clean(r) == CleanupLock(r) \/ Cleanup(r)

Update(u) ==
    UpdateLock(u) \/ UpdateBegin(u) \/ UpdateCommit(u) \/ UpdateFails(u) \/ UpdatePublish(u)

Restore(s) == RestoreBegin(s) \/ RestorePause(s) \/ RestoreLock(s) \/ RestoreImport(s)

Next ==
    \/ Configure \/ Shutdown \/ Transition
    \/ \E r \in Runtimes : Write(r) \/ CleanupDue(r) \/ Clean(r) \/ Exit(r)
    \/ \E q \in Requests : Arrive(q)
    \/ \E u \in Updates : Update(u)
    \/ \E s \in Restores : Restore(s)

Spec == Init /\ [][Next]_vars

\* Goroutines are scheduled, transactions end (10 s or the request's deadline), and
\* a writer told to close is not passed over for ever by its other select cases.
FairSpec ==
    /\ Spec
    /\ WF_vars(Transition)
    /\ \A r \in Runtimes : SF_vars(Clean(r)) /\ SF_vars(Exit(r))
    /\ \A u \in Updates : WF_vars(Update(u))
    /\ \A s \in Restores : WF_vars(Restore(s))
-----------------------------------------------------------------------------
(* Properties.                                                              *)

TypeOK ==
    /\ cpc \in {"idle", "opening", "loaded", "closing"}
    /\ active \in Runtimes \cup {0} /\ moving \in Runtimes \cup {0}
    /\ rstate \in [Runtimes -> {"none", "open", "closing", "closed"}]
    /\ config \in [Runtimes -> Days]
    /\ wpc \in [Runtimes -> {"none", "prune", "pruning", "select", "paused", "exited"}]
    /\ captured \in [Runtimes -> Days \cup {None}]
    /\ upc \in [Updates -> {"idle", "locked", "begun", "committed", "done", "failed"}]
    /\ rpc \in [Restores -> {"idle", "pausing", "paused", "importing", "done",
                             "cancelled", "unavailable"}]
    /\ target \in [Requests -> Runtimes \cup {0}]
    /\ value \in [Updates -> Days \cup {None}]
    /\ stored \in Days \cup {None} /\ promised \in Days \cup {None}
    /\ rows \subseteq Ages

\* While a restore replaces the rows no other runtime's writer can write or clean up, not
\* even that of one being retired: it has exited, and the writer of the runtime restored
\* stands still (plugin.go:61-76, 258-278).
RestoreIsAlone ==
    \A s \in Restores :
        rpc[s] \in {"paused", "importing"} =>
            /\ wpc[target[s]] = "paused"
            /\ \A r \in Runtimes \ {target[s]} : wpc[r] \in {"none", "exited"}

\* Between hand-overs the active runtime is the only one with an open store or a
\* live writer (plugin.go:61-76, 105-115).
OneLiveRuntime ==
    cpc = "idle" =>
        \A r \in Runtimes :
            IF r = active
            THEN rstate[r] = "open" /\ wpc[r] \notin {"none", "exited"}
            ELSE rstate[r] \in {"none", "closed"} /\ wpc[r] \in {"none", "exited"}

\* Writers and cleanups have the database one at a time: beside a restore there is none, and
\* outside a hand-over only that of the active runtime.
DatabaseIsExclusive == RestoreIsAlone /\ OneLiveRuntime

\* README.md:91: settings updates and the background cleanup take the same lock, so
\* after a change of the retention the old value is not used for a cleanup again: no
\* row younger than the retention last confirmed is ever deleted by one.
KeepsPromisedRows ==
    [][\A r \in Runtimes : Cleanup(r) /\ promised # None =>
           \A a \in rows \ rows' : a >= promised]_vars

\* Within one runtime the statement holds: as long as no other was ever opened, a cleanup
\* never works with a retention read before the last one was confirmed.
KeepsRowsWithinOneRuntime ==
    [][\A r \in Runtimes :
           Cleanup(r) /\ promised # None /\ (\A q \in Runtimes \ {r} : rstate[q] = "none") =>
               \A a \in rows \ rows' : a >= promised]_vars

\* A hand-over ends: close() waits for a writer that may wait for settingsMu.
HandoverEnds == (cpc = "closing") ~> (cpc = "idle")
=============================================================================
