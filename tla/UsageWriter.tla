----------------------------- MODULE UsageWriter -----------------------------
(***************************************************************************)
(* One pluginRuntime of src/go/plugin.go from the moment newPluginRuntime   *)
(* starts its writer goroutine until close() returns: the goroutines that   *)
(* deliver usage records, the bounded channel with its extra slot, the      *)
(* writer with batching and bounded retry, the restore and export calls     *)
(* that pause it at a barrier, retention cleanup, and the hand-over of the  *)
(* active runtime by configureRuntime or shutdownRuntime.                   *)
(*                                                                         *)
(* Locks are not variables: who holds runtimeMu, queueMu, settingsMu and    *)
(* runtimeTransitionMu follows from where each goroutine is.                *)
(***************************************************************************)
EXTENDS Naturals, Sequences, FiniteSets

CONSTANTS
    Events,      \* usage records, each delivered by one goroutine
    Restorers,   \* management requests that restore a backup
    Exporters,   \* management requests that export one
    Expired,     \* the events old enough for retention cleanup to delete
    QueueSize,   \* config.QueueSize: most events the queue may hold
    BatchSize,   \* config.BatchSize
    Nil          \* no item in the writer's hand

Pausers == Restorers \cup Exporters

ASSUME WriterAssumption ==
    /\ IsFiniteSet(Events)
    /\ Expired \subseteq Events
    /\ Events \cap Pausers = {}
    /\ Restorers \cap Exporters = {}
    /\ Nil \notin Events \cup Pausers
    /\ QueueSize \in Nat \ {0}
    /\ BatchSize \in Nat \ {0}

MaxAttempts == 3

\* The channel keeps one slot more than the event limit, for a barrier.
ChannelCapacity == QueueSize + 1

VARIABLES
    pc,             \* where each record's delivery is
    seen,           \* queuedEvents as its CAS loop last loaded it
    ppc,            \* where each restore or export call is
    cut,            \* (history) the events sent before a call's barrier
    snapshot,       \* rows as a finished export read them
    closer,         \* where the hand-over to the next runtime is
    queue,          \* the channel: events and barriers, a barrier named by its call
    queuedEvents,   \* the atomic counter of admission
    wpc,            \* where the writer goroutine is
    hand,           \* the item it has received
    batch,          \* the events it will write next
    cont,           \* where it goes once the batch is settled
    attempt,        \* write attempts of this batch that have failed
    accepted, dropped, written, writeDropped, writeUncertain,
    rows,           \* how many rows of usage_events each event has
    fate            \* (history) how the writer settled each event

senderVars  == <<pc, seen>>
pauserVars  == <<ppc, cut, snapshot>>
writerVars  == <<wpc, hand, batch, cont, attempt>>
counterVars == <<accepted, dropped, written, writeDropped, writeUncertain>>
storeVars   == <<rows, fate>>
vars == <<senderVars, pauserVars, closer, queue, queuedEvents, writerVars,
          counterVars, storeVars>>

NoRows == [e \in Events |-> 0]
-----------------------------------------------------------------------------
(* Locks, channels and sets read off the goroutines' positions.             *)

Closed == closer \in {"draining", "closed"}

\* queueMu.RLock is held from the closed check to the end of enqueue.
Readers == {e \in Events : pc[e] \in {"open", "loaded", "reserved", "sent"}}

\* runtimeMu.RLock is held by handleUsage around the whole of enqueue.
Delivering == {e \in Events : pc[e] = "called"} \cup Readers

\* A goroutine waiting in queueMu.Lock keeps new readers out.
QueueLockPending ==
    closer = "swapped" \/ \E p \in Pausers : ppc[p] = "locking"

TransitionFree ==
    /\ closer \in {"idle", "closed"}
    /\ \A p \in Pausers :
          ppc[p] \notin {"locking", "waiting", "settings", "importing", "reading"}

SettingsFree == wpc # "pruning" /\ \A p \in Pausers : ppc[p] # "importing"

\* barrier.ready is closed while the writer stands at p's barrier;
\* barrier.resume is closed once p needs the pause no longer.
ReadyBeforeFlush(p) == hand = p   \* mutant: ready is closed before the flush
BarrierReady(p) == wpc = "paused" /\ hand = p
ResumedUnlessCancelled(p) ==      \* mutant: no close(resume) on ctx.Done
    ppc[p] \in {"reading", "restored", "exported", "failed"}
ResumedUnlessFailed(p) ==         \* mutant: resume is not deferred
    ppc[p] \in {"reading", "restored", "exported", "cancelled"}
Resumed(p) == ppc[p] \in {"reading", "restored", "exported", "failed", "cancelled"}

Sent     == {e \in Events : pc[e] \in {"sent", "counted"}}
Items    == {queue[i] : i \in 1..Len(queue)}
InFlight == ((Items \cup {hand}) \cap Events) \cup batch
Settled  == {e \in Events : fate[e] # "none"}

-----------------------------------------------------------------------------
Init ==
    /\ pc = [e \in Events |-> "idle"]
    /\ seen = [e \in Events |-> 0]
    /\ ppc = [p \in Pausers |-> "idle"]
    /\ cut = [p \in Pausers |-> {}]
    /\ snapshot = [p \in Pausers |-> NoRows]
    /\ closer = "idle"
    /\ queue = <<>>
    /\ queuedEvents = 0
    /\ wpc = "prune"
    /\ hand = Nil
    /\ batch = {}
    /\ cont = "select"
    /\ attempt = 0
    /\ accepted = 0 /\ dropped = 0
    /\ written = 0 /\ writeDropped = 0 /\ writeUncertain = 0
    /\ rows = NoRows
    /\ fate = [e \in Events |-> "none"]
-----------------------------------------------------------------------------
(* handleUsage and enqueue.                                                 *)

Refuse(e) ==
    /\ pc' = [pc EXCEPT ![e] = "rejected"]
    /\ dropped' = dropped + 1
    /\ UNCHANGED <<accepted, written, writeDropped, writeUncertain>>

\* The record does not decode: counted as dropped, never queued.
Malformed(e) ==
    /\ pc[e] = "idle" /\ closer = "idle"
    /\ Refuse(e)
    /\ UNCHANGED <<seen, pauserVars, closer, queue, queuedEvents, writerVars, storeVars>>

\* runtimeMu.RLock; the active runtime is this one.
Call(e) ==
    /\ pc[e] = "idle" /\ closer = "idle"
    /\ pc' = [pc EXCEPT ![e] = "called"]
    /\ UNCHANGED <<seen, pauserVars, closer, queue, queuedEvents, writerVars,
                   counterVars, storeVars>>

\* queueMu.RLock and the closed check.
Enter(e) ==
    /\ pc[e] = "called"
    /\ ~QueueLockPending
    /\ IF Closed
       THEN Refuse(e)
       ELSE pc' = [pc EXCEPT ![e] = "open"] /\ UNCHANGED counterVars
    /\ UNCHANGED <<seen, pauserVars, closer, queue, queuedEvents, writerVars, storeVars>>

\* queuedEvents.Load and the limit check.
Load(e) ==
    /\ pc[e] = "open"
    /\ IF queuedEvents >= QueueSize
       THEN Refuse(e) /\ UNCHANGED seen
       ELSE /\ pc' = [pc EXCEPT ![e] = "loaded"]
            /\ seen' = [seen EXCEPT ![e] = queuedEvents]
            /\ UNCHANGED counterVars
    /\ UNCHANGED <<pauserVars, closer, queue, queuedEvents, writerVars, storeVars>>

\* Mutant of Swap: add without comparing.
AddWithoutCompare(e) ==
    /\ pc[e] = "loaded"
    /\ queuedEvents' = queuedEvents + 1
    /\ pc' = [pc EXCEPT ![e] = "reserved"]
    /\ seen' = [seen EXCEPT ![e] = 0]
    /\ UNCHANGED <<pauserVars, closer, queue, writerVars, counterVars, storeVars>>

\* queuedEvents.CompareAndSwap: reserve a place or load again.
Swap(e) ==
    /\ pc[e] = "loaded"
    /\ IF queuedEvents = seen[e]
       THEN /\ queuedEvents' = queuedEvents + 1
            /\ pc' = [pc EXCEPT ![e] = "reserved"]
       ELSE /\ pc' = [pc EXCEPT ![e] = "open"]
            /\ UNCHANGED queuedEvents
    /\ seen' = [seen EXCEPT ![e] = 0]
    /\ UNCHANGED <<pauserVars, closer, queue, writerVars, counterVars, storeVars>>

\* The non-blocking send finds room; accepted is counted one step later.
Send(e) ==
    /\ pc[e] = "reserved"
    /\ Len(queue) < ChannelCapacity
    /\ queue' = Append(queue, e)
    /\ pc' = [pc EXCEPT ![e] = "sent"]
    /\ UNCHANGED <<seen, pauserVars, closer, queuedEvents, writerVars,
                   counterVars, storeVars>>

\* Mutant of SendRefused: the reserved place is not given back.
RefuseKeepingPlace(e) ==
    /\ pc[e] = "reserved"
    /\ Len(queue) >= ChannelCapacity
    /\ Refuse(e)
    /\ UNCHANGED <<seen, pauserVars, closer, queue, queuedEvents, writerVars, storeVars>>

\* The send finds the channel full of barriers and events: give the place back.
SendRefused(e) ==
    /\ pc[e] = "reserved"
    /\ Len(queue) >= ChannelCapacity
    /\ queuedEvents' = queuedEvents - 1
    /\ Refuse(e)
    /\ UNCHANGED <<seen, pauserVars, closer, queue, writerVars, storeVars>>

CountAccepted(e) ==
    /\ pc[e] = "sent"
    /\ accepted' = accepted + 1
    /\ pc' = [pc EXCEPT ![e] = "counted"]
    /\ UNCHANGED <<seen, pauserVars, closer, queue, queuedEvents, writerVars,
                   dropped, written, writeDropped, writeUncertain, storeVars>>
-----------------------------------------------------------------------------
(* runWriter.                                                               *)

\* flush(), after which the writer goes on at next.
FlushThen(next) ==
    IF batch = {}
    THEN wpc' = next /\ UNCHANGED <<cont, attempt>>
    ELSE wpc' = "writing" /\ cont' = next /\ attempt' = 0

Receive ==
    /\ wpc = "select" /\ queue # <<>>
    /\ hand' = Head(queue)
    /\ queue' = Tail(queue)
    /\ wpc' = "received"
    /\ UNCHANGED <<senderVars, pauserVars, closer, queuedEvents, batch, cont,
                   attempt, counterVars, storeVars>>

TakeEvent ==
    /\ wpc = "received" /\ hand \in Events
    /\ queuedEvents' = queuedEvents - 1
    /\ batch' = batch \cup {hand}
    /\ hand' = Nil
    /\ IF Cardinality(batch') >= BatchSize
       THEN wpc' = "writing" /\ cont' = "select" /\ attempt' = 0
       ELSE wpc' = "select" /\ UNCHANGED <<cont, attempt>>
    /\ UNCHANGED <<senderVars, pauserVars, closer, queue, counterVars, storeVars>>

\* Mutants of TakeBarrier: subtract a barrier too; pause without a flush; skip it.
TakeBarrierCounted ==
    /\ wpc = "received" /\ hand \in Pausers
    /\ queuedEvents' = queuedEvents - 1
    /\ FlushThen("paused")
    /\ UNCHANGED <<senderVars, pauserVars, closer, queue, hand, batch, counterVars, storeVars>>
TakeBarrierUnflushed ==
    /\ wpc = "received" /\ hand \in Pausers
    /\ wpc' = "paused"
    /\ UNCHANGED <<senderVars, pauserVars, closer, queue, queuedEvents, hand, batch, cont,
                   attempt, counterVars, storeVars>>
SkipBarrier ==
    /\ wpc = "received" /\ hand \in Pausers
    /\ wpc' = "select" /\ hand' = Nil
    /\ UNCHANGED <<senderVars, pauserVars, closer, queue, queuedEvents, batch, cont,
                   attempt, counterVars, storeVars>>

\* Barriers are not counted in queuedEvents. The pause begins after the flush.
TakeBarrier ==
    /\ wpc = "received" /\ hand \in Pausers
    /\ FlushThen("paused")
    /\ UNCHANGED <<senderVars, pauserVars, closer, queue, queuedEvents, hand, batch,
                   counterVars, storeVars>>

LeaveBarrier ==
    /\ wpc = "paused" /\ Resumed(hand)
    /\ wpc' = "select"
    /\ hand' = Nil
    /\ UNCHANGED <<senderVars, pauserVars, closer, queue, queuedEvents, batch, cont,
                   attempt, counterVars, storeVars>>

\* Mutant of DrainDone: return without the last flush.
ExitUnflushed ==
    /\ wpc = "select" /\ Closed /\ queue = <<>>
    /\ wpc' = "exited"
    /\ UNCHANGED <<senderVars, pauserVars, closer, queue, queuedEvents, hand, batch, cont,
                   attempt, counterVars, storeVars>>

\* The channel is closed and empty.
DrainDone ==
    /\ wpc = "select" /\ Closed /\ queue = <<>>
    /\ FlushThen("exited")
    /\ UNCHANGED <<senderVars, pauserVars, closer, queue, queuedEvents, hand, batch,
                   counterVars, storeVars>>

FlushTick ==
    /\ wpc = "select" /\ batch # {}
    /\ FlushThen("select")
    /\ UNCHANGED <<senderVars, pauserVars, closer, queue, queuedEvents, hand, batch,
                   counterVars, storeVars>>

RetentionTick ==
    /\ wpc = "select"
    /\ FlushThen("prune")
    /\ UNCHANGED <<senderVars, pauserVars, closer, queue, queuedEvents, hand, batch,
                   counterVars, storeVars>>

\* pruneExpired waits for settingsMu.
PruneLock ==
    /\ wpc = "prune" /\ SettingsFree
    /\ wpc' = "pruning"
    /\ UNCHANGED <<senderVars, pauserVars, closer, queue, queuedEvents, hand, batch,
                   cont, attempt, counterVars, storeVars>>

Delete(gone) == rows' = [e \in Events |-> IF e \in gone THEN 0 ELSE rows[e]]

\* The transaction of prune; nothing goes when it fails.
Prune ==
    /\ wpc = "pruning"
    /\ \E gone \in SUBSET Expired : Delete(gone)
    /\ wpc' = "select"
    /\ UNCHANGED <<senderVars, pauserVars, closer, queue, queuedEvents, hand, batch,
                   cont, attempt, counterVars, fate>>
-----------------------------------------------------------------------------
(* writeBatchWithRetry and writeBatch.                                      *)

Insert == rows' = [e \in Events |-> IF e \in batch THEN rows[e] + 1 ELSE rows[e]]

\* Mutant of BatchSettled: the batch is not truncated.
BatchKept(outcome) ==
    /\ fate' = [e \in Events |-> IF e \in batch THEN outcome ELSE fate[e]]
    /\ wpc' = cont
    /\ cont' = "select"
    /\ attempt' = 0
    /\ UNCHANGED <<senderVars, pauserVars, closer, queue, queuedEvents, hand, batch, accepted>>

BatchSettled(outcome) ==
    /\ fate' = [e \in Events |-> IF e \in batch THEN outcome ELSE fate[e]]
    /\ batch' = {}
    /\ wpc' = cont
    /\ cont' = "select"
    /\ attempt' = 0
    /\ UNCHANGED <<senderVars, pauserVars, closer, queue, queuedEvents, hand, accepted>>

AttemptCommits ==
    /\ wpc = "writing"
    /\ Insert
    /\ written' = written + Cardinality(batch)
    /\ BatchSettled("confirmed")
    /\ UNCHANGED <<dropped, writeDropped, writeUncertain>>

\* Mutants of AttemptUncertain: try again as after a clean failure; call it a loss.
UncertainRetried ==
    /\ wpc = "writing"
    /\ attempt < MaxAttempts - 1
    /\ Insert \/ UNCHANGED rows
    /\ attempt' = attempt + 1
    /\ UNCHANGED <<senderVars, pauserVars, closer, queue, queuedEvents, wpc, hand,
                   batch, cont, counterVars, fate>>
UncertainIsLost ==
    /\ wpc = "writing"
    /\ Insert \/ UNCHANGED rows
    /\ writeDropped' = writeDropped + Cardinality(batch)
    /\ dropped' = dropped + Cardinality(batch)
    /\ BatchSettled("lost")
    /\ UNCHANGED <<written, writeUncertain>>

\* COMMIT (or ROLLBACK) reported an error: the rows may be there or not.
AttemptUncertain ==
    /\ wpc = "writing"
    /\ Insert \/ UNCHANGED rows
    /\ writeUncertain' = writeUncertain + Cardinality(batch)
    /\ BatchSettled("unknown")
    /\ UNCHANGED <<dropped, written, writeDropped>>

\* A clean failure before the last attempt: sleep, then try again.
AttemptFails ==
    /\ wpc = "writing"
    /\ attempt < MaxAttempts - 1
    /\ attempt' = attempt + 1
    /\ UNCHANGED <<senderVars, pauserVars, closer, queue, queuedEvents, wpc, hand,
                   batch, cont, counterVars, storeVars>>

\* Mutant of AttemptsExhausted: one per batch instead of one per event.
ExhaustedCountsBatches ==
    /\ wpc = "writing"
    /\ attempt = MaxAttempts - 1
    /\ writeDropped' = writeDropped + 1
    /\ dropped' = dropped + 1
    /\ BatchSettled("lost")
    /\ UNCHANGED <<written, writeUncertain, rows>>

AttemptsExhausted ==
    /\ wpc = "writing"
    /\ attempt = MaxAttempts - 1
    /\ writeDropped' = writeDropped + Cardinality(batch)
    /\ dropped' = dropped + Cardinality(batch)
    /\ BatchSettled("lost")
    /\ UNCHANGED <<written, writeUncertain, rows>>
-----------------------------------------------------------------------------
(* restoreBackup, exportBackup and pauseWriter.                             *)

Goto(p, place) == ppc' = [ppc EXCEPT ![p] = place]

\* runtimeTransitionMu.Lock, then the currentRuntime() check.
Begin(p) ==
    /\ ppc[p] = "idle" /\ TransitionFree
    /\ Goto(p, IF closer = "idle" THEN "locking" ELSE "unavailable")
    /\ UNCHANGED <<senderVars, cut, snapshot, closer, queue, queuedEvents, writerVars,
                   counterVars, storeVars>>

\* Under queueMu.Lock: the closed check and the send of the barrier.
SendBarrier(p) ==
    /\ ppc[p] = "locking" /\ Readers = {}
    /\ Len(queue) < ChannelCapacity
    /\ IF Closed
       THEN Goto(p, "unavailable") /\ UNCHANGED <<cut, queue>>
       ELSE /\ queue' = Append(queue, p)
            /\ cut' = [cut EXCEPT ![p] = Sent]
            /\ Goto(p, "waiting")
    /\ UNCHANGED <<senderVars, snapshot, closer, queuedEvents, writerVars,
                   counterVars, storeVars>>

\* "writer queue cannot accept restore barrier"
BarrierRefused(p) ==
    /\ ppc[p] = "locking" /\ Readers = {}
    /\ Len(queue) >= ChannelCapacity
    /\ Goto(p, "refused")
    /\ UNCHANGED <<senderVars, cut, snapshot, closer, queue, queuedEvents, writerVars,
                   counterVars, storeVars>>

\* A restore keeps the writer paused; an export resumes it at once.
Ready(p) ==
    /\ ppc[p] = "waiting" /\ BarrierReady(p)
    /\ Goto(p, IF p \in Restorers THEN "settings" ELSE "reading")
    /\ UNCHANGED <<senderVars, cut, snapshot, closer, queue, queuedEvents, writerVars,
                   counterVars, storeVars>>

\* The request's context ends first: the barrier stays in the channel, resumed.
Cancel(p) ==
    /\ ppc[p] = "waiting"
    /\ Goto(p, "cancelled")
    /\ UNCHANGED <<senderVars, cut, snapshot, closer, queue, queuedEvents, writerVars,
                   counterVars, storeVars>>

LockSettings(p) ==
    /\ ppc[p] = "settings" /\ SettingsFree
    /\ Goto(p, "importing")
    /\ UNCHANGED <<senderVars, cut, snapshot, closer, queue, queuedEvents, writerVars,
                   counterVars, storeVars>>

\* A backup is the output of some export of these rows, or an empty one.
Payloads == {NoRows} \cup {snapshot[q] : q \in Exporters}

\* importBackup replaces every row in one transaction, then the deferred
\* unlocks and resume run. A reported error may follow a commit that applied.
Import(p) ==
    /\ ppc[p] = "importing"
    /\ \/ \E payload \in Payloads :
             rows' = payload /\ Goto(p, "restored")
       \/ \E payload \in Payloads \cup {rows} :
             rows' = payload /\ Goto(p, "failed")
    /\ UNCHANGED <<senderVars, cut, snapshot, closer, queue, queuedEvents, writerVars,
                   counterVars, fate>>

\* The read transaction of readBackupEvents, with runtimeTransitionMu held.
Read(p) ==
    /\ ppc[p] = "reading"
    /\ \/ snapshot' = [snapshot EXCEPT ![p] = rows] /\ Goto(p, "exported")
       \/ UNCHANGED snapshot /\ Goto(p, "failed")
    /\ UNCHANGED <<senderVars, cut, closer, queue, queuedEvents, writerVars,
                   counterVars, storeVars>>
-----------------------------------------------------------------------------
(* updateSettings: a new retention deletes in the settings transaction.     *)

UpdateSettings ==
    /\ SettingsFree /\ closer # "closed"
    /\ \E gone \in SUBSET Expired : Delete(gone)
    /\ UNCHANGED <<senderVars, pauserVars, closer, queue, queuedEvents, writerVars,
                   counterVars, fate>>
-----------------------------------------------------------------------------
(* configureRuntime and shutdownRuntime, and close().                       *)

MoveCloser(from, to) ==
    /\ closer = from
    /\ closer' = to
    /\ UNCHANGED <<senderVars, pauserVars, queue, queuedEvents, writerVars,
                   counterVars, storeVars>>

Retire == TransitionFree /\ MoveCloser("idle", "swapping")

\* Mutant of SwapActive: deliveries do not hold runtimeMu.
SwapUnderDeliveries == MoveCloser("swapping", "swapped")

\* runtimeMu.Lock waits for every delivery under way.
SwapActive == Delivering = {} /\ MoveCloser("swapping", "swapped")

CloseQueue == Readers = {} /\ MoveCloser("swapped", "draining")

FinishClose == wpc = "exited" /\ MoveCloser("draining", "closed")
-----------------------------------------------------------------------------
Deliver(e) ==
    \/ Enter(e) \/ Load(e) \/ Swap(e) \/ Send(e) \/ SendRefused(e) \/ CountAccepted(e)

Writer ==
    \/ Receive \/ TakeEvent \/ TakeBarrier \/ LeaveBarrier \/ DrainDone
    \/ PruneLock \/ Prune
    \/ AttemptCommits \/ AttemptUncertain \/ AttemptFails \/ AttemptsExhausted

Pause(p) ==
    \/ SendBarrier(p) \/ BarrierRefused(p) \/ Ready(p) \/ LockSettings(p)
    \/ Import(p) \/ Read(p)

Close == SwapActive \/ CloseQueue \/ FinishClose

\* Every record was delivered, every call returned and the runtime is closed.
Finished ==
    /\ closer = "closed"
    /\ \A e \in Events : pc[e] \in {"idle", "counted", "rejected"}
    /\ \A p \in Pausers : ppc[p] # "idle"
    /\ UNCHANGED vars

Next ==
    \/ \E e \in Events : Malformed(e) \/ Call(e) \/ Deliver(e)
    \/ \E p \in Pausers : Begin(p) \/ Cancel(p) \/ Pause(p)
    \/ Writer \/ FlushTick \/ RetentionTick
    \/ UpdateSettings
    \/ Retire \/ Close
    \/ Finished

Spec == Init /\ [][Next]_vars
-----------------------------------------------------------------------------
(* Fairness. Goroutines that can run are scheduled, database calls return   *)
(* (each has a deadline), and Go's select picks at random among its ready   *)
(* cases, so neither the queue nor the flush ticker is passed over for      *)
(* ever. Nothing says that records, calls, cancellations, retention ticks   *)
(* or a hand-over ever come.                                                *)
Fairness ==
    /\ \A e \in Events : WF_vars(Deliver(e))
    /\ \A p \in Pausers : WF_vars(Pause(p))
    /\ WF_vars(Writer)
    /\ SF_vars(Receive) /\ SF_vars(DrainDone) /\ SF_vars(FlushTick)
    /\ WF_vars(Close)

FairSpec == Spec /\ Fairness
-----------------------------------------------------------------------------
(* The abstract specification this one implements.                          *)

Stage ==
    [e \in Events |->
        IF fate[e] # "none" THEN fate[e]
        ELSE IF pc[e] \in {"sent", "counted"} THEN "pending"
        ELSE IF pc[e] = "rejected" THEN "rejected"
        ELSE "new"]

Backups == Payloads

Ledger == INSTANCE EventLedger WITH stage <- Stage, backups <- Backups

\* Whatever the goroutines do, each event moves through the stages of EventLedger
\* and the rows change only as its steps allow.
ImplementsLedger == Ledger!Spec
-----------------------------------------------------------------------------
(* Properties.                                                              *)

\* Every variable stays in its domain; in particular queuedEvents never goes
\* below zero, and the writer's hand is full exactly where the code holds an item.
TypeOK ==
    /\ pc \in [Events -> {"idle", "called", "open", "loaded", "reserved", "sent",
                          "counted", "rejected"}]
    /\ seen \in [Events -> Nat]
    /\ ppc \in [Pausers -> {"idle", "locking", "waiting", "settings", "importing",
                            "reading", "restored", "exported", "failed", "cancelled",
                            "refused", "unavailable"}]
    /\ cut \in [Pausers -> SUBSET Events]
    /\ snapshot \in [Pausers -> [Events -> Nat]]
    /\ closer \in {"idle", "swapping", "swapped", "draining", "closed"}
    /\ queue \in Seq(Events \cup Pausers)
    /\ wpc \in {"prune", "pruning", "select", "received", "writing", "paused", "exited"}
    /\ hand \in Events \cup Pausers \cup {Nil}
    /\ batch \in SUBSET Events
    /\ cont \in {"select", "paused", "prune", "exited"}
    /\ attempt \in 0..(MaxAttempts - 1)
    /\ queuedEvents \in Nat /\ accepted \in Nat /\ dropped \in Nat
    /\ written \in Nat /\ writeDropped \in Nat /\ writeUncertain \in Nat
    /\ rows \in [Events -> Nat]
    /\ fate \in [Events -> {"none", "confirmed", "lost", "unknown"}]

\* A sent event is in exactly one place: once in the channel, in the writer's
\* hand, in the batch, or settled; and a barrier is in at most one place too.
Placement ==
    /\ \A i, j \in 1..Len(queue) : queue[i] = queue[j] => i = j
    /\ hand \notin Items
    /\ batch \cap (Items \cup {hand}) = {}
    /\ InFlight \cap Settled = {}
    /\ Sent = InFlight \cup Settled
    /\ \A p \in (Items \cup {hand}) \cap Pausers :
          ppc[p] \notin {"idle", "locking", "refused", "unavailable"}

\* queuedEvents (plugin.go:151-169, 208) counts exactly the events that are
\* reserved by a sender, in the channel, or received and not yet subtracted.
Admitted == {e \in Events : pc[e] = "reserved"} \cup ((Items \cup {hand}) \cap Events)

QueueAccounting == queuedEvents = Cardinality(Admitted)

\* However many senders race through the CAS loop, the channel never holds more
\* events than QueueSize (plugin.go:151-160), so the extra slot is not theirs.
AdmissionBound == Cardinality(Items \cap Events) <= QueueSize

\* Admission counts exactly and keeps its limit, so that a failed send gives its place back
\* and the extra slot of the channel stays with the barriers.
AdmissionIsExact == QueueAccounting /\ AdmissionBound

\* No accepted event disappears or is counted twice: what was sent is confirmed,
\* dropped after retries, uncertain, or still held by the queue or the writer. And
\* dropped covers malformed and refused records and write_dropped, but not
\* write_uncertain (README.md:31).
Conservation ==
    /\ accepted + Cardinality({e \in Events : pc[e] = "sent"})
           = written + writeDropped + writeUncertain + Cardinality(InFlight)
    /\ dropped = Cardinality({e \in Events : pc[e] = "rejected"}) + writeDropped

\* An event the writer has counted as lost has no row and never gets one; a row
\* belongs to an event counted as written or uncertain; and no history of retries,
\* cleanups, exports and restores gives an event two rows (plugin.go:325-330).
HonestOutcomes ==
    \A e \in Events :
        /\ rows[e] <= 1
        /\ rows[e] = 1 => fate[e] \in {"confirmed", "unknown"}

\* When a restore replaces the rows, the events settled so far are exactly those
\* sent before its barrier: they are all overwritten, later ones all come after
\* (README.md:33), and the writer stands still (plugin.go:264-277).
RestoreCutsAtBarrier ==
    \A p \in Restorers :
        ppc[p] \in {"settings", "importing"} =>
            /\ wpc = "paused" /\ hand = p
            /\ Settled = cut[p]

\* An export reads only after every event sent before its barrier was settled,
\* though the writer already runs again (plugin.go:298-313).
ExportSeesEarlierEvents ==
    \A p \in Exporters :
        ppc[p] \in {"reading", "exported"} => cut[p] \subseteq Settled

\* Restores and exports alike: what was accepted before the barrier of a pause is settled
\* before its work, and what was accepted later stays out of a restore.
BarriersSeparate == RestoreCutsAtBarrier /\ ExportSeesEarlierEvents

\* The closed checks of enqueue and pauseWriter and the <-r.done case are never
\* taken: the locks keep a runtime open while a delivery or a pause is inside it.
OpenWhileUsed ==
    /\ Delivering # {} => ~Closed
    /\ \A p \in Pausers : ppc[p] \in {"locking", "waiting"} => ~Closed /\ wpc # "exited"

\* close() returns only when nothing sent is left unsettled (README.md:32).
DrainedAtClose == closer = "closed" => Sent \subseteq Settled

\* A hand-over closes a runtime under nobody's feet and with nothing left in its queue.
ClosesCleanly == OpenWhileUsed /\ DrainedAtClose

\* Every event that enters the queue is settled, whatever pauses, cancellations,
\* cleanups and hand-overs happen meanwhile.
AcceptedSettles == \A e \in Events : (pc[e] = "sent") ~> (fate[e] # "none")

\* Every restore or export that got runtimeTransitionMu returns: settingsMu,
\* queueMu and the barrier never wait on each other in a circle.
PausesEnd ==
    \A p \in Pausers :
        (ppc[p] = "locking") ~>
        (ppc[p] \in {"restored", "exported", "failed", "cancelled", "refused", "unavailable"})

\* A hand-over that started drains the runtime and returns.
CloseEnds == (closer = "swapping") ~> (closer = "closed")
=============================================================================
