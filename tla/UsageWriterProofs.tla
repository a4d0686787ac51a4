------------------------- MODULE UsageWriterProofs -------------------------
(***************************************************************************)
(* Safety of one plugin runtime, for any set of events, restore and export  *)
(* calls and any queue and batch size. The inductive invariant IInv has five *)
(* parts, each of which needs the others: the types (queuedEvents is only    *)
(* decremented when it is positive), where the writer can hold an item       *)
(* (WriterControl), that a sent event is in one place (Placement), that      *)
(* queuedEvents is the number of admitted events (QueueAccounting), and that *)
(* admission respects the limit (AdmissionLimit).                            *)
(***************************************************************************)
EXTENDS UsageWriter, FiniteSetTheorems, TLAPS

\* Items of a sequence, for the lemmas on the channel.
ItemsOf(q) == {q[i] : i \in 1..Len(q)}
Uniq(q) == \A i, j \in 1..Len(q) : q[i] = q[j] => i = j

\* What a send does to the items of a channel, and that it keeps them distinct.
LEMMA AppendItems ==
  ASSUME NEW S, NEW q \in Seq(S), NEW x \in S
  PROVE  /\ Append(q, x) \in Seq(S)
         /\ ItemsOf(Append(q, x)) = ItemsOf(q) \cup {x}
         /\ Uniq(q) /\ x \notin ItemsOf(q) => Uniq(Append(q, x))
<1> DEFINE r == Append(q, x)
<1>1. /\ r \in Seq(S) /\ Len(r) = Len(q) + 1 /\ Len(q) \in Nat
      /\ r[Len(q) + 1] = x
      /\ \A i \in 1..Len(q) : r[i] = q[i]
  OBVIOUS
<1> HIDE DEF r
<1>2. ItemsOf(r) = ItemsOf(q) \cup {x}
  BY <1>1 DEF ItemsOf
<1>3. ASSUME Uniq(q), x \notin ItemsOf(q)
      PROVE  Uniq(r)
  BY <1>1, <1>3 DEF ItemsOf, Uniq
<1> QED
  BY <1>1, <1>2, <1>3 DEF r

\* What a receive does: the head leaves, and is in the channel no more.
LEMMA TailItems ==
  ASSUME NEW S, NEW q \in Seq(S), q # <<>>
  PROVE  /\ Head(q) \in S /\ Tail(q) \in Seq(S)
         /\ ItemsOf(q) = ItemsOf(Tail(q)) \cup {Head(q)}
         /\ Uniq(q) => Uniq(Tail(q)) /\ Head(q) \notin ItemsOf(Tail(q))
<1> DEFINE r == Tail(q)
<1>1. /\ r \in Seq(S) /\ Len(q) = Len(r) + 1 /\ Len(r) \in Nat
      /\ \A i \in 1..Len(r) : r[i] = q[i + 1]
      /\ Head(q) = q[1] /\ Head(q) \in S
  OBVIOUS
<1> HIDE DEF r
<1>2. ItemsOf(q) = ItemsOf(r) \cup {q[1]}
  <2>1. ASSUME NEW i \in 1..Len(q), i # 1
        PROVE  i - 1 \in 1..Len(r) /\ r[i - 1] = q[i]
    BY <1>1, <2>1
  <2>2. ItemsOf(q) \subseteq ItemsOf(r) \cup {q[1]}
    BY <2>1 DEF ItemsOf
  <2>3. ItemsOf(r) \cup {q[1]} \subseteq ItemsOf(q)
    BY <1>1 DEF ItemsOf
  <2> QED
    BY <2>2, <2>3
<1>3. ASSUME Uniq(q)
      PROVE  Uniq(r) /\ q[1] \notin ItemsOf(r)
  BY <1>1, <1>3 DEF ItemsOf, Uniq
<1> QED
  BY <1>1, <1>2, <1>3 DEF r
-----------------------------------------------------------------------------
\* The channel after a send and after a receive.
LEMMA ItemsAfterSend ==
  ASSUME TypeOK, NEW x \in Events \cup Pausers, queue' = Append(queue, x)
  PROVE  /\ Items' = Items \cup {x}
         /\ Uniq(queue) /\ x \notin Items => Uniq(queue')
<1>1. Items = ItemsOf(queue) /\ Items' = ItemsOf(queue')
  BY DEF Items, ItemsOf
<1>2. queue \in Seq(Events \cup Pausers)
  BY DEF TypeOK
<1> QED
  BY <1>1, <1>2, AppendItems

\* The channel after a receive.
LEMMA ItemsAfterReceive ==
  ASSUME TypeOK, Uniq(queue), queue # <<>>, queue' = Tail(queue)
  PROVE  /\ Head(queue) \in Events \cup Pausers
         /\ Items = Items' \cup {Head(queue)}
         /\ Uniq(queue') /\ Head(queue) \notin Items'
<1>1. Items = ItemsOf(queue) /\ Items' = ItemsOf(queue')
  BY DEF Items, ItemsOf
<1>2. queue \in Seq(Events \cup Pausers)
  BY DEF TypeOK
<1> QED
  BY <1>1, <1>2, TailItems

\* Sets of events are finite.
LEMMA FiniteEvents ==
  ASSUME NEW S \in SUBSET Events
  PROVE  IsFiniteSet(S) /\ Cardinality(S) \in Nat
BY WriterAssumption, FS_Subset, FS_CardinalityType

\* Type correctness of a step, given that queuedEvents stays a natural number.
LEMMA TypeStep ==
  ASSUME TypeOK, [Next]_vars, queuedEvents' \in Nat
  PROVE  TypeOK'
<1> USE DEF TypeOK, senderVars, pauserVars, writerVars, counterVars, storeVars, MaxAttempts
<1>1. ASSUME NEW e \in Events, Malformed(e) \/ Call(e) \/ Enter(e) \/ Load(e) \/ Swap(e)
      PROVE  TypeOK'
  <2>1. CASE Malformed(e)
    BY <2>1 DEF Malformed, Refuse
  <2>2. CASE Call(e)
    BY <2>2 DEF Call
  <2>3. CASE Enter(e)
    <3>1. CASE Closed
      <4>1. Refuse(e) /\ UNCHANGED <<seen, pauserVars, closer, queue, queuedEvents,
                                      writerVars, storeVars>>
        BY <2>3, <3>1 DEF Enter
      <4> QED
        BY <4>1 DEF Refuse
    <3>2. CASE ~Closed
      BY <2>3, <3>2 DEF Enter
    <3> QED
      BY <3>1, <3>2
  <2>4. CASE Load(e)
    <3>1. CASE queuedEvents >= QueueSize
      <4>1. Refuse(e) /\ UNCHANGED <<seen, pauserVars, closer, queue, queuedEvents,
                                      writerVars, storeVars>>
        BY <2>4, <3>1 DEF Load
      <4> QED
        BY <4>1 DEF Refuse
    <3>2. CASE ~(queuedEvents >= QueueSize)
      BY <2>4, <3>2 DEF Load
    <3> QED
      BY <3>1, <3>2
  <2>5. CASE Swap(e)
    BY <2>5 DEF Swap
  <2> QED
    BY <1>1, <2>1, <2>2, <2>3, <2>4, <2>5
<1>2. ASSUME NEW e \in Events, Send(e) \/ SendRefused(e) \/ CountAccepted(e)
      PROVE  TypeOK'
  <2>1. CASE Send(e)
    <3>1. Append(queue, e) \in Seq(Events \cup Pausers)
      BY AppendItems
    <3> QED
      BY <2>1, <3>1 DEF Send
  <2>2. CASE SendRefused(e)
    BY <2>2 DEF SendRefused, Refuse
  <2>3. CASE CountAccepted(e)
    BY <2>3 DEF CountAccepted
  <2> QED
    BY <1>2, <2>1, <2>2, <2>3
<1>3. CASE Receive
  <2>1. Head(queue) \in Events \cup Pausers /\ Tail(queue) \in Seq(Events \cup Pausers)
    BY <1>3, TailItems DEF Receive
  <2> QED
    BY <1>3, <2>1 DEF Receive
<1>4. CASE TakeEvent
  BY <1>4 DEF TakeEvent
<1>5. CASE TakeBarrier \/ LeaveBarrier \/ DrainDone \/ FlushTick \/ RetentionTick \/ PruneLock
  <2>1. ASSUME NEW next \in {"select", "paused", "prune", "exited"}, FlushThen(next)
        PROVE  /\ wpc' \in {"writing", "select", "paused", "prune", "exited"}
               /\ cont' \in {"select", "paused", "prune", "exited"}
               /\ attempt' \in 0..2
    BY <2>1 DEF FlushThen
  <2>2. CASE TakeBarrier
    BY <2>1, <2>2 DEF TakeBarrier
  <2>3. CASE DrainDone
    BY <2>1, <2>3 DEF DrainDone
  <2>4. CASE FlushTick
    BY <2>1, <2>4 DEF FlushTick
  <2>5. CASE RetentionTick
    BY <2>1, <2>5 DEF RetentionTick
  <2> QED
    BY <1>5, <2>2, <2>3, <2>4, <2>5 DEF LeaveBarrier, PruneLock
<1>6. CASE Prune \/ UpdateSettings
  <2>1. ASSUME NEW gone \in SUBSET Expired, Delete(gone)
        PROVE  rows' \in [Events -> Nat]
    BY <2>1 DEF Delete
  <2>2. rows' \in [Events -> Nat]
    BY <1>6, <2>1 DEF Prune, UpdateSettings
  <2>3. CASE Prune
    BY <2>2, <2>3 DEF Prune
  <2>4. CASE UpdateSettings
    BY <2>2, <2>4 DEF UpdateSettings
  <2> QED
    BY <1>6, <2>3, <2>4
<1>7. CASE AttemptCommits \/ AttemptUncertain \/ AttemptFails \/ AttemptsExhausted
  <2>1. Cardinality(batch) \in Nat
    BY FiniteEvents
  <2>2. CASE AttemptCommits
    BY <2>1, <2>2 DEF AttemptCommits, BatchSettled, Insert, MaxAttempts
  <2>3. CASE AttemptUncertain
    BY <2>1, <2>3 DEF AttemptUncertain, BatchSettled, Insert, MaxAttempts
  <2>4. CASE AttemptFails
    BY <2>4 DEF AttemptFails, MaxAttempts
  <2>5. CASE AttemptsExhausted
    BY <2>1, <2>5 DEF AttemptsExhausted, BatchSettled, MaxAttempts
  <2> QED
    BY <1>7, <2>2, <2>3, <2>4, <2>5
<1>8. ASSUME NEW p \in Pausers,
             Begin(p) \/ SendBarrier(p) \/ BarrierRefused(p) \/ Ready(p) \/ Cancel(p)
      PROVE  TypeOK'
  <2>1. Append(queue, p) \in Seq(Events \cup Pausers) /\ Sent \in SUBSET Events
    BY AppendItems DEF Sent
  <2>2. CASE Begin(p)
    BY <2>2 DEF Begin, Goto
  <2>3. CASE SendBarrier(p)
    BY <2>1, <2>3 DEF SendBarrier, Goto
  <2>4. CASE BarrierRefused(p) \/ Ready(p)
    BY <2>4 DEF BarrierRefused, Ready, Goto
  <2>5. CASE Cancel(p)
    BY <2>5 DEF Cancel, Goto
  <2> QED
    BY <1>8, <2>2, <2>3, <2>4, <2>5
<1>9. ASSUME NEW p \in Pausers, LockSettings(p) \/ Import(p) \/ Read(p)
      PROVE  TypeOK'
  <2>1. Payloads \in SUBSET [Events -> Nat]
    BY DEF Payloads, NoRows, Pausers
  <2>2. CASE LockSettings(p)
    BY <2>2 DEF LockSettings, Goto
  <2>3. CASE Import(p)
    <3>1. PICK to \in {"restored", "failed"} : Goto(p, to)
      BY <2>3 DEF Import
    <3>2. rows' \in [Events -> Nat]
      BY <2>1, <2>3 DEF Import
    <3>3. UNCHANGED <<senderVars, cut, snapshot, closer, queue, queuedEvents, writerVars,
                      counterVars, fate>>
      BY <2>3 DEF Import
    <3> QED
      BY <3>1, <3>2, <3>3 DEF Goto
  <2>4. CASE Read(p)
    <3>1. PICK to \in {"exported", "failed"} : Goto(p, to)
      BY <2>4 DEF Read
    <3>2. snapshot' \in [Pausers -> [Events -> Nat]]
      BY <2>4 DEF Read
    <3>3. UNCHANGED <<senderVars, cut, closer, queue, queuedEvents, writerVars, counterVars, storeVars>>
      BY <2>4 DEF Read
    <3> QED
      BY <3>1, <3>2, <3>3 DEF Goto
  <2> QED
    BY <1>9, <2>2, <2>3, <2>4
<1>10. CASE Retire \/ Close \/ Finished \/ UNCHANGED vars
  <2>1. CASE Retire
    BY <2>1 DEF Retire, MoveCloser
  <2>2. CASE Close
    BY <2>2 DEF Close, SwapActive, CloseQueue, FinishClose, MoveCloser
  <2>3. CASE Finished \/ UNCHANGED vars
    BY <2>3 DEF Finished, vars
  <2> QED
    BY <1>10, <2>1, <2>2, <2>3
<1> QED
  BY <1>1, <1>2, <1>3, <1>4, <1>5, <1>6, <1>7, <1>8, <1>9, <1>10
  DEF Next, Deliver, Writer, Pause
-----------------------------------------------------------------------------
(* Parts of the inductive invariant.                                       *)

\* The writer holds an event only between the receive and the append, a barrier
\* from the receive until it is resumed, and it pauses, cleans up and exits with an
\* empty batch only: each of these is preceded by a flush (plugin.go:201-227).
WriterControl ==
    /\ wpc = "received" => hand # Nil
    /\ hand \in Events => wpc = "received"
    /\ hand \in Pausers /\ wpc # "received"
          <=> wpc = "paused" \/ (wpc = "writing" /\ cont = "paused")
    /\ wpc # "writing" => cont = "select"
    /\ wpc \in {"paused", "prune", "pruning", "exited"} => batch = {}

\* Admission never passes the limit: a sender about to swap has seen a free place.
AdmissionLimit ==
    /\ queuedEvents <= QueueSize
    /\ \A e \in Events : pc[e] = "loaded" => seen[e] < QueueSize

\* flush(): the next position of the writer, and what it leaves in the batch.
LEMMA FlushPosition ==
  ASSUME NEW next, FlushThen(next), cont = "select"
  PROVE  \/ batch = {} /\ wpc' = next /\ cont' = "select"
         \/ batch # {} /\ wpc' = "writing" /\ cont' = next
BY DEF FlushThen

\* Every step of the writer leaves it where WriterControl says; no other step moves it.
LEMMA ControlStep ==
  ASSUME TypeOK, WriterControl, [Next]_vars
  PROVE  WriterControl'
<1> USE DEF senderVars, pauserVars, writerVars
<1>1. CASE UNCHANGED writerVars
  BY <1>1 DEF WriterControl
<1>2. CASE Receive
  <2>1. Head(queue) \in Events \cup Pausers
    BY <1>2, TailItems DEF Receive, TypeOK
  <2> QED
    BY <1>2, <2>1, WriterAssumption DEF Receive, WriterControl
<1>3. CASE TakeEvent
  BY <1>3, WriterAssumption DEF TakeEvent, WriterControl
<1>4. CASE TakeBarrier
  <2>1. cont = "select" /\ hand \in Pausers /\ hand \notin Events /\ hand # Nil
    BY <1>4, WriterAssumption DEF TakeBarrier, WriterControl
  <2> QED
    BY <1>4, <2>1, FlushPosition DEF TakeBarrier, WriterControl
<1>5. CASE LeaveBarrier
  BY <1>5, WriterAssumption DEF LeaveBarrier, WriterControl
<1>6. CASE DrainDone \/ FlushTick \/ RetentionTick
  <2>1. PICK next \in {"exited", "select", "prune"} : FlushThen(next)
    BY <1>6 DEF DrainDone, FlushTick, RetentionTick
  <2>2. wpc = "select" /\ cont = "select" /\ UNCHANGED <<hand, batch>>
    BY <1>6 DEF DrainDone, FlushTick, RetentionTick, WriterControl
  <2> QED
    BY <2>1, <2>2, FlushPosition, WriterAssumption DEF WriterControl
<1>7. CASE PruneLock \/ Prune
  BY <1>7 DEF PruneLock, Prune, WriterControl
<1>8. CASE AttemptCommits \/ AttemptUncertain \/ AttemptsExhausted
  <2>1. PICK outcome : wpc = "writing" /\ BatchSettled(outcome)
    BY <1>8 DEF AttemptCommits, AttemptUncertain, AttemptsExhausted
  <2> QED
    BY <2>1 DEF BatchSettled, WriterControl, TypeOK
<1>9. CASE AttemptFails
  BY <1>9 DEF AttemptFails, WriterControl
<1>10. [Next]_vars => \/ UNCHANGED writerVars \/ Writer \/ FlushTick \/ RetentionTick
  <2>1. ASSUME NEW e \in Events, Malformed(e) \/ Call(e) \/ Deliver(e)
        PROVE  UNCHANGED writerVars
    BY <2>1 DEF Deliver, Malformed, Call, Enter, Load, Swap, Send, SendRefused, CountAccepted
  <2>2. ASSUME NEW p \in Pausers, Begin(p) \/ Cancel(p) \/ Pause(p)
        PROVE  UNCHANGED writerVars
    BY <2>2 DEF Pause, Begin, Cancel, SendBarrier, BarrierRefused, Ready, LockSettings,
       Import, Read
  <2>3. CASE UpdateSettings \/ Retire \/ Close \/ Finished \/ UNCHANGED vars
    BY <2>3 DEF UpdateSettings, Retire, Close, SwapActive, CloseQueue, FinishClose,
       MoveCloser, Finished, vars
  <2> QED
    BY <2>1, <2>2, <2>3 DEF Next
<1> QED
  BY <1>1, <1>2, <1>3, <1>4, <1>5, <1>6, <1>7, <1>8, <1>9, <1>10 DEF Writer
-----------------------------------------------------------------------------
\* Calls that have no barrier in the channel or in the writer's hand.
NoBarrier == {"idle", "locking", "refused", "unavailable"}

BarrierKept ==
    \A p \in Pausers : ppc[p] \notin NoBarrier => ppc'[p] \notin NoBarrier

\* Steps that move no item, settle nothing and send no event keep Placement.
LEMMA PlacementFrame ==
  ASSUME Placement, UNCHANGED <<queue, hand, batch, fate>>, Sent' = Sent, BarrierKept
  PROVE  Placement'
BY DEF Placement, Items, InFlight, Settled, BarrierKept, NoBarrier

\* Moving one record's delivery changes Sent as it changes that record.
LEMMA SentAfterMove ==
  ASSUME TypeOK, NEW e \in Events, NEW place, pc' = [pc EXCEPT ![e] = place]
  PROVE  Sent' = IF place \in {"sent", "counted"} THEN Sent \cup {e} ELSE Sent \ {e}
BY DEF TypeOK, Sent

\* Deliveries: only a successful send adds an item.
LEMMA PlacementDeliver ==
  ASSUME TypeOK, Placement, NEW e \in Events, Malformed(e) \/ Call(e) \/ Deliver(e)
  PROVE  Placement'
<1> USE DEF pauserVars, writerVars, storeVars
<1>1. CASE Send(e)
  <2>1. /\ queue' = Append(queue, e) /\ pc[e] = "reserved"
        /\ UNCHANGED <<hand, batch, fate, ppc>>
        /\ pc' = [pc EXCEPT ![e] = "sent"]
    BY <1>1 DEF Send
  <2>2. e \notin Sent /\ Sent' = Sent \cup {e}
    BY <2>1, SentAfterMove DEF Sent
  <2>3. e \notin InFlight /\ e \notin Settled /\ e \notin Items
    BY <2>2 DEF Placement, InFlight
  <2>4. Items' = Items \cup {e} /\ Uniq(queue')
    BY <2>1, <2>3, ItemsAfterSend DEF Placement, Uniq
  <2>5. InFlight' = InFlight \cup {e} /\ Settled' = Settled
    BY <2>1, <2>4 DEF InFlight, Settled
  <2>6. hand # e
    BY <2>3 DEF InFlight
  <2>7. e \notin batch
    BY <2>3 DEF InFlight
  <2>8. e \notin Pausers
    BY WriterAssumption
  <2> QED
    BY <2>1, <2>2, <2>3, <2>4, <2>5, <2>6, <2>7, <2>8 DEF Placement, Uniq
<1>2. CASE ~Send(e)
  <2>1. UNCHANGED <<queue, hand, batch, fate, ppc>>
    BY <1>2 DEF Malformed, Call, Deliver, Enter, Load, Swap, SendRefused, CountAccepted
  <2>2. PICK from \in {"idle", "called", "open", "loaded", "reserved", "sent"},
             to \in {"rejected", "called", "open", "loaded", "reserved", "counted"} :
          /\ pc[e] = from /\ pc' = [pc EXCEPT ![e] = to]
          /\ from = "sent" <=> to = "counted"
    BY <1>2 DEF Malformed, Call, Deliver, Enter, Load, Swap, SendRefused, CountAccepted, Refuse
  <2>3. Sent' = Sent
    BY <2>2 DEF Sent, TypeOK
  <2> QED
    BY <2>1, <2>3, PlacementFrame DEF BarrierKept
<1> QED
  BY <1>1, <1>2

\* Restore and export calls: only a barrier that is sent adds an item.
LEMMA PlacementPause ==
  ASSUME TypeOK, Placement, WriterControl, NEW p \in Pausers, Begin(p) \/ Cancel(p) \/ Pause(p)
  PROVE  Placement'
<1> USE DEF senderVars, writerVars, storeVars
<1>1. CASE SendBarrier(p) /\ queue' # queue
  <2>1. /\ queue' = Append(queue, p) /\ ppc[p] = "locking"
        /\ ppc' = [ppc EXCEPT ![p] = "waiting"]
        /\ UNCHANGED <<hand, batch, fate, pc>>
    BY <1>1 DEF SendBarrier, Goto
  <2>2. p \notin Items \cup {hand}
    BY <2>1 DEF Placement
  <2>3. Items' = Items \cup {p} /\ Uniq(queue')
    BY <2>1, <2>2, ItemsAfterSend DEF Placement, Uniq
  <2>4. p \notin Events
    BY WriterAssumption
  <2>5. InFlight' = InFlight /\ Settled' = Settled /\ Sent' = Sent
    BY <2>1, <2>3, <2>4 DEF InFlight, Settled, Sent
  <2>6. \A q \in Pausers : q # p => ppc'[q] = ppc[q]
    BY <2>1 DEF TypeOK
  <2>7. ppc'[p] = "waiting"
    BY <2>1 DEF TypeOK
  <2>8. p \notin batch
    BY <2>4 DEF TypeOK
  <2> QED
    BY <2>1, <2>2, <2>3, <2>5, <2>6, <2>7, <2>8 DEF Placement, Uniq
<1>2. CASE ~(SendBarrier(p) /\ queue' # queue)
  <2>1. UNCHANGED <<queue, hand, batch, fate, pc>>
    BY <1>2 DEF Begin, Cancel, Pause, SendBarrier, BarrierRefused, Ready, LockSettings, Import, Read
  <2>2. PICK to : ppc' = [ppc EXCEPT ![p] = to] /\ (to \in NoBarrier => ppc[p] \in NoBarrier)
    BY <1>2 DEF Begin, Cancel, Pause, SendBarrier, BarrierRefused, Ready, LockSettings, Import,
       Read, Goto, NoBarrier
  <2>3. BarrierKept /\ Sent' = Sent
    BY <2>1, <2>2 DEF BarrierKept, TypeOK, Sent
  <2> QED
    BY <2>1, <2>3, PlacementFrame
<1> QED
  BY <1>1, <1>2

\* The writer: items move from the channel to its hand, to the batch, and are settled.
LEMMA PlacementWriter ==
  ASSUME TypeOK, Placement, WriterControl, Writer \/ FlushTick \/ RetentionTick
  PROVE  Placement'
<1> USE DEF senderVars, pauserVars
<1>1. CASE Receive
  <2>1. /\ hand = Nil /\ hand' = Head(queue) /\ queue' = Tail(queue)
        /\ UNCHANGED <<batch, fate, pc, ppc>>
    BY <1>1 DEF Receive, WriterControl, TypeOK, storeVars
  <2>2. /\ Items = Items' \cup {hand'} /\ Uniq(queue') /\ hand' \notin Items'
    BY <1>1, <2>1, ItemsAfterReceive DEF Receive, Placement, Uniq
  <2>3. InFlight' = InFlight /\ Settled' = Settled /\ Sent' = Sent
    BY <2>1, <2>2, WriterAssumption DEF InFlight, Settled, Sent
  <2> QED
    BY <2>1, <2>2, <2>3 DEF Placement, Uniq
<1>2. CASE TakeEvent
  <2>1. /\ hand \in Events /\ hand' = Nil /\ batch' = batch \cup {hand}
        /\ UNCHANGED <<queue, fate, pc, ppc>>
    BY <1>2 DEF TakeEvent, storeVars
  <2>2. InFlight' = InFlight /\ Settled' = Settled /\ Sent' = Sent /\ Items' = Items
    BY <2>1, WriterAssumption DEF InFlight, Settled, Sent, Items, TypeOK
  <2>3. Nil \notin Items /\ Nil \notin batch \cup {hand} /\ Nil \notin Pausers
    <3>1. Items \subseteq Events \cup Pausers
      BY DEF TypeOK, Items
    <3> QED
      BY <2>1, <3>1, WriterAssumption DEF TypeOK
  <2> QED
    BY <2>1, <2>2, <2>3 DEF Placement
<1>3. CASE LeaveBarrier
  <2>1. /\ hand \in Pausers /\ hand' = Nil
        /\ UNCHANGED <<queue, batch, fate, pc, ppc>>
    BY <1>3 DEF LeaveBarrier, WriterControl, storeVars
  <2>2. hand \notin Events
    BY <2>1, WriterAssumption
  <2>3. InFlight' = InFlight /\ Settled' = Settled /\ Sent' = Sent /\ Items' = Items
    BY <2>1, <2>2, WriterAssumption DEF InFlight, Settled, Sent, Items
  <2>4. Nil \notin Items /\ Nil \notin batch /\ Nil \notin Pausers
    <3>1. Items \subseteq Events \cup Pausers
      BY DEF TypeOK, Items
    <3> QED
      BY <3>1, WriterAssumption DEF TypeOK
  <2> QED
    BY <2>1, <2>3, <2>4 DEF Placement
<1>4. CASE AttemptCommits \/ AttemptUncertain \/ AttemptsExhausted
  <2>1. PICK outcome \in {"confirmed", "unknown", "lost"} : BatchSettled(outcome)
    BY <1>4 DEF AttemptCommits, AttemptUncertain, AttemptsExhausted
  <2>2. /\ fate' = [e \in Events |-> IF e \in batch THEN outcome ELSE fate[e]]
        /\ batch' = {}
        /\ UNCHANGED <<queue, hand, pc, ppc>>
    BY <2>1 DEF BatchSettled
  <2>3. Settled' = Settled \cup batch
    BY <2>1, <2>2 DEF Settled, TypeOK
  <2>4. InFlight' = InFlight \ batch /\ batch \subseteq InFlight
    BY <2>2 DEF InFlight, Items, Placement
  <2>5. Items' = Items /\ Sent' = Sent
    BY <2>2 DEF Items, Sent
  <2> QED
    BY <2>2, <2>3, <2>4, <2>5 DEF Placement
<1>5. CASE \/ TakeBarrier \/ DrainDone \/ PruneLock \/ Prune \/ AttemptFails
           \/ FlushTick \/ RetentionTick
  <2>1. UNCHANGED <<queue, hand, batch, fate, pc, ppc>>
    BY <1>5 DEF TakeBarrier, DrainDone, PruneLock, Prune, AttemptFails, FlushTick,
       RetentionTick, storeVars
  <2> QED
    BY <2>1, PlacementFrame DEF Sent, BarrierKept
<1> QED
  BY <1>1, <1>2, <1>3, <1>4, <1>5 DEF Writer

\* Every step keeps each sent event, and each barrier, in one place.
LEMMA PlacementStep ==
  ASSUME TypeOK, Placement, WriterControl, [Next]_vars
  PROVE  Placement'
<1>1. CASE UpdateSettings \/ Retire \/ Close \/ Finished \/ UNCHANGED vars
  <2>1. UNCHANGED <<queue, hand, batch, fate, pc, ppc>>
    BY <1>1 DEF UpdateSettings, Retire, Close, SwapActive, CloseQueue, FinishClose,
       MoveCloser, Finished, vars, senderVars, pauserVars, writerVars, storeVars
  <2> QED
    BY <2>1, PlacementFrame DEF Sent, BarrierKept
<1> QED
  BY <1>1, PlacementDeliver, PlacementPause, PlacementWriter DEF Next
-----------------------------------------------------------------------------
\* queuedEvents follows the admitted set through every step.
LEMMA AdmittedFinite ==
  ASSUME TypeOK
  PROVE  IsFiniteSet(Admitted) /\ Cardinality(Admitted) \in Nat
BY FiniteEvents DEF Admitted

\* Steps that leave the admitted set and the counter alone keep the accounting.
LEMMA AccountingFrame ==
  ASSUME QueueAccounting, Admitted' = Admitted, UNCHANGED queuedEvents
  PROVE  QueueAccounting'
BY DEF QueueAccounting

\* Taking an event the counter covers out of the admitted set.
LEMMA AccountingRemove ==
  ASSUME TypeOK, QueueAccounting, NEW e \in Admitted, Admitted' = Admitted \ {e},
         queuedEvents' = queuedEvents - 1
  PROVE  QueueAccounting' /\ queuedEvents' \in Nat
<1>1. IsFiniteSet(Admitted) /\ Cardinality(Admitted) \in Nat
  BY AdmittedFinite
<1>2. Cardinality(Admitted \ {e}) = Cardinality(Admitted) - 1
  BY <1>1, FS_RemoveElement
<1>3. Cardinality(Admitted \ {e}) \in Nat
  BY <1>1, FS_RemoveElement, FS_CardinalityType
<1> QED
  BY <1>2, <1>3 DEF QueueAccounting

\* Deliveries: the swap reserves, the send moves, the refused send gives back.
LEMMA AccountingDeliver ==
  ASSUME TypeOK, Placement, QueueAccounting, AdmissionLimit, NEW e \in Events,
         Malformed(e) \/ Call(e) \/ Deliver(e)
  PROVE  QueueAccounting' /\ AdmissionLimit' /\ queuedEvents' \in Nat
<1> USE DEF writerVars, pauserVars
<1>1. CASE Swap(e) /\ queuedEvents = seen[e]
  <2>1. /\ pc[e] = "loaded" /\ pc' = [pc EXCEPT ![e] = "reserved"]
        /\ seen' = [seen EXCEPT ![e] = 0] /\ queuedEvents' = queuedEvents + 1
        /\ UNCHANGED <<queue, hand>>
    BY <1>1 DEF Swap
  <2>2. e \notin Admitted
    BY <2>1 DEF Admitted, Placement, Sent, InFlight
  <2>3. Admitted' = Admitted \cup {e}
    BY <2>1 DEF Admitted, Items, TypeOK
  <2>4. Cardinality(Admitted') = Cardinality(Admitted) + 1
    BY <2>2, <2>3, AdmittedFinite, FS_AddElement
  <2>5. queuedEvents + 1 <= QueueSize
    BY <1>1, <2>1, WriterAssumption DEF AdmissionLimit, TypeOK
  <2> QED
    BY <2>1, <2>4, <2>5 DEF QueueAccounting, AdmissionLimit, TypeOK
<1>2. CASE Send(e)
  <2>1. /\ pc[e] = "reserved" /\ pc' = [pc EXCEPT ![e] = "sent"]
        /\ queue' = Append(queue, e) /\ UNCHANGED <<hand, seen, queuedEvents>>
    BY <1>2 DEF Send
  <2>2. Items' = Items \cup {e}
    BY <2>1, ItemsAfterSend
  <2>3. Admitted' = Admitted
    BY <2>1, <2>2 DEF Admitted, TypeOK
  <2> QED
    BY <2>1, <2>3, AccountingFrame DEF AdmissionLimit, TypeOK
<1>3. CASE SendRefused(e)
  <2>1. /\ pc[e] = "reserved" /\ pc' = [pc EXCEPT ![e] = "rejected"]
        /\ queuedEvents' = queuedEvents - 1 /\ UNCHANGED <<queue, hand, seen>>
    BY <1>3 DEF SendRefused, Refuse
  <2>2. e \notin (Items \cup {hand})
    BY <2>1 DEF Placement, Sent, InFlight
  <2>3. e \in Admitted /\ Admitted' = Admitted \ {e}
    BY <2>1, <2>2 DEF Admitted, Items, TypeOK
  <2>4. QueueAccounting' /\ queuedEvents' \in Nat
    BY <2>1, <2>3, AccountingRemove
  <2> QED
    BY <2>1, <2>4, WriterAssumption DEF AdmissionLimit, TypeOK
<1>4. CASE Load(e) /\ queuedEvents < QueueSize
  <2>1. /\ pc[e] = "open" /\ pc' = [pc EXCEPT ![e] = "loaded"]
        /\ seen' = [seen EXCEPT ![e] = queuedEvents]
        /\ UNCHANGED <<queue, hand, queuedEvents>>
    BY <1>4, WriterAssumption DEF Load, TypeOK
  <2>2. Admitted' = Admitted
    BY <2>1 DEF Admitted, Items, TypeOK
  <2> QED
    BY <1>4, <2>1, <2>2, AccountingFrame DEF AdmissionLimit, TypeOK
<1>5. CASE \/ Malformed(e) \/ Call(e) \/ Enter(e) \/ CountAccepted(e)
           \/ (Load(e) /\ ~(queuedEvents < QueueSize))
           \/ (Swap(e) /\ queuedEvents # seen[e])
  <2>1. PICK to \in {"rejected", "called", "open", "counted"} :
           pc' = [pc EXCEPT ![e] = to]
    BY <1>5, WriterAssumption
    DEF Malformed, Call, Enter, CountAccepted, Load, Swap, Refuse, TypeOK
  <2>2. pc[e] # "reserved" /\ UNCHANGED <<queue, hand, queuedEvents>>
    BY <1>5 DEF Malformed, Call, Enter, CountAccepted, Load, Swap
  <2>3. UNCHANGED seen \/ seen' = [seen EXCEPT ![e] = 0]
    BY <1>5, WriterAssumption DEF Malformed, Call, Enter, CountAccepted, Load, Swap, TypeOK
  <2>4. Admitted' = Admitted
    BY <2>1, <2>2 DEF Admitted, Items, TypeOK
  <2>5. AdmissionLimit'
    BY <2>1, <2>2, <2>3 DEF AdmissionLimit, TypeOK
  <2> QED
    BY <2>2, <2>4, <2>5, AccountingFrame DEF TypeOK
<1> QED
  BY <1>1, <1>2, <1>3, <1>4, <1>5 DEF Deliver

\* Restore and export calls: a barrier is not an admitted event.
LEMMA AccountingPause ==
  ASSUME TypeOK, QueueAccounting, NEW p \in Pausers, Begin(p) \/ Cancel(p) \/ Pause(p)
  PROVE  QueueAccounting' /\ UNCHANGED <<pc, seen, queuedEvents>>
<1>1. /\ UNCHANGED <<pc, seen, hand, queuedEvents>>
      /\ UNCHANGED queue \/ queue' = Append(queue, p)
  BY DEF Pause, Begin, Cancel, SendBarrier, BarrierRefused, Ready, LockSettings, Import,
     Read, Goto, senderVars, writerVars
<1>2. p \notin Events
  BY WriterAssumption
<1>3. Items' \cap Events = Items \cap Events
  <2>1. CASE UNCHANGED queue
    BY <2>1 DEF Items
  <2>2. CASE queue' = Append(queue, p)
    BY <1>2, <2>2, ItemsAfterSend
  <2> QED
    BY <1>1, <2>1, <2>2
<1>4. Admitted' = Admitted
  BY <1>1, <1>3 DEF Admitted
<1> QED
  BY <1>1, <1>4, AccountingFrame

\* The writer: a receive keeps an event admitted until the counter is decremented.
LEMMA AccountingWriter ==
  ASSUME TypeOK, Placement, WriterControl, QueueAccounting,
         Writer \/ FlushTick \/ RetentionTick
  PROVE  /\ QueueAccounting' /\ queuedEvents' \in Nat
         /\ queuedEvents' <= queuedEvents /\ UNCHANGED <<pc, seen>>
<1> USE DEF senderVars
<1>1. CASE Receive
  <2>1. /\ hand = Nil /\ hand' = Head(queue) /\ queue' = Tail(queue) /\ queue # <<>>
        /\ UNCHANGED <<pc, seen, queuedEvents>>
    BY <1>1 DEF Receive, WriterControl, TypeOK
  <2>2. Items = Items' \cup {hand'}
    BY <2>1, ItemsAfterReceive DEF Placement, Uniq
  <2>3. Admitted' = Admitted
    BY <2>1, <2>2, WriterAssumption DEF Admitted
  <2> QED
    BY <2>1, <2>3, AccountingFrame DEF TypeOK
<1>2. CASE TakeEvent
  <2>1. /\ hand \in Events /\ hand' = Nil /\ queuedEvents' = queuedEvents - 1
        /\ UNCHANGED <<queue, pc, seen>>
    BY <1>2 DEF TakeEvent
  <2>2. hand \in Sent /\ hand \notin Items
    BY <2>1 DEF Placement, InFlight
  <2>3. hand \in Admitted /\ Admitted' = Admitted \ {hand}
    BY <2>1, <2>2, WriterAssumption DEF Admitted, Items, Sent
  <2> QED
    BY <2>1, <2>3, AccountingRemove DEF TypeOK
<1>3. CASE LeaveBarrier
  <2>1. hand \in Pausers /\ hand' = Nil /\ UNCHANGED <<queue, pc, seen, queuedEvents>>
    BY <1>3 DEF LeaveBarrier, WriterControl
  <2>2. Admitted' = Admitted
    BY <2>1, WriterAssumption DEF Admitted, Items
  <2> QED
    BY <2>1, <2>2, AccountingFrame DEF TypeOK
<1>4. CASE \/ TakeBarrier \/ DrainDone \/ PruneLock \/ Prune \/ FlushTick \/ RetentionTick
           \/ AttemptCommits \/ AttemptUncertain \/ AttemptFails \/ AttemptsExhausted
  <2>1. UNCHANGED <<queue, hand, pc, seen, queuedEvents>>
    BY <1>4 DEF TakeBarrier, DrainDone, PruneLock, Prune, FlushTick, RetentionTick,
       AttemptCommits, AttemptUncertain, AttemptFails, AttemptsExhausted, BatchSettled
  <2>2. Admitted' = Admitted
    BY <2>1 DEF Admitted, Items
  <2> QED
    BY <2>1, <2>2, AccountingFrame DEF TypeOK
<1> QED
  BY <1>1, <1>2, <1>3, <1>4 DEF Writer

\* Every step keeps the accounting and the admission limit.
LEMMA AccountingStep ==
  ASSUME TypeOK, Placement, WriterControl, QueueAccounting, AdmissionLimit, [Next]_vars
  PROVE  QueueAccounting' /\ AdmissionLimit' /\ queuedEvents' \in Nat
<1>1. CASE \E e \in Events : Malformed(e) \/ Call(e) \/ Deliver(e)
  BY <1>1, AccountingDeliver
<1>2. CASE \E p \in Pausers : Begin(p) \/ Cancel(p) \/ Pause(p)
  BY <1>2, AccountingPause DEF AdmissionLimit, TypeOK
<1>3. CASE Writer \/ FlushTick \/ RetentionTick
  BY <1>3, AccountingWriter, WriterAssumption DEF AdmissionLimit, TypeOK
<1>4. CASE UpdateSettings \/ Retire \/ Close \/ Finished \/ UNCHANGED vars
  <2>1. UNCHANGED <<queue, hand, pc, seen, queuedEvents>>
    BY <1>4 DEF UpdateSettings, Retire, Close, SwapActive, CloseQueue, FinishClose,
       MoveCloser, Finished, vars, senderVars, writerVars
  <2>2. Admitted' = Admitted
    BY <2>1 DEF Admitted, Items
  <2> QED
    BY <2>1, <2>2, AccountingFrame DEF AdmissionLimit, TypeOK
<1> QED
  BY <1>1, <1>2, <1>3, <1>4 DEF Next
-----------------------------------------------------------------------------
(* The inductive invariant. The types need the accounting (queuedEvents is  *)
(* decremented), the accounting needs every event in one place only, and    *)
(* that needs to know where the writer can be holding something.            *)

IInv == TypeOK /\ WriterControl /\ Placement /\ QueueAccounting /\ AdmissionLimit

\* The runtime as newPluginRuntime leaves it satisfies the invariant.
LEMMA InitInvariant == Init => IInv
<1> SUFFICES ASSUME Init PROVE IInv
  OBVIOUS
<1> USE DEF Init
<1>1. Items = {} /\ Sent = {} /\ Settled = {} /\ InFlight = {}
  BY WriterAssumption DEF Items, Sent, Settled, InFlight
<1>2. Admitted = {}
  BY <1>1, WriterAssumption DEF Admitted
<1>3. TypeOK
  BY WriterAssumption DEF TypeOK, NoRows, MaxAttempts
<1>4. WriterControl
  BY WriterAssumption DEF WriterControl
<1>5. Placement
  BY <1>1, WriterAssumption DEF Placement
<1>6. QueueAccounting
  BY <1>2, FS_EmptySet DEF QueueAccounting
<1>7. AdmissionLimit
  BY WriterAssumption DEF AdmissionLimit
<1> QED
  BY <1>3, <1>4, <1>5, <1>6, <1>7 DEF IInv

\* Every step keeps the invariant.
LEMMA NextInvariant == IInv /\ [Next]_vars => IInv'
BY TypeStep, ControlStep, PlacementStep, AccountingStep DEF IInv

\* The inductive invariant holds in every reachable state.
THEOREM WriterInvariant == Spec => []IInv
BY InitInvariant, NextInvariant, PTL DEF Spec

\* Every variable of the runtime keeps its type; queuedEvents never goes negative.
THEOREM TypeCorrect == Spec => []TypeOK
<1>1. IInv => TypeOK
  BY DEF IInv
<1> QED
  BY <1>1, WriterInvariant, PTL

\* queuedEvents counts exactly the reserved, queued and just received events.
THEOREM AccountingCorrect == Spec => []QueueAccounting
<1>1. IInv => QueueAccounting
  BY DEF IInv
<1> QED
  BY <1>1, WriterInvariant, PTL

\* Every sent event is in exactly one place, whatever the interleaving.
THEOREM PlacementCorrect == Spec => []Placement
<1>1. IInv => Placement
  BY DEF IInv
<1> QED
  BY <1>1, WriterInvariant, PTL

\* For any number of senders the channel holds at most QueueSize events.
THEOREM AdmissionCorrect == Spec => []AdmissionBound
<1>1. ASSUME IInv PROVE AdmissionBound
  <2>1. Items \cap Events \subseteq Admitted /\ IsFiniteSet(Admitted)
    BY <1>1, AdmittedFinite DEF IInv, Admitted
  <2>2. /\ Cardinality(Items \cap Events) <= Cardinality(Admitted)
        /\ Cardinality(Items \cap Events) \in Nat /\ Cardinality(Admitted) \in Nat
    BY <2>1, FS_Subset, FS_CardinalityType
  <2> QED
    BY <1>1, <2>2, WriterAssumption
    DEF IInv, QueueAccounting, AdmissionLimit, AdmissionBound
<1> QED
  BY <1>1, WriterInvariant, PTL

\* Admission counts exactly and keeps its limit (plugin.go:151-169).
THEOREM AdmissionExactCorrect == Spec => []AdmissionIsExact
<1>1. QueueAccounting /\ AdmissionBound => AdmissionIsExact
  BY DEF AdmissionIsExact
<1> QED
  BY <1>1, AccountingCorrect, AdmissionCorrect, PTL
-----------------------------------------------------------------------------
(* The counters of /status.  Each is the number of the events it counts, and *)
(* a sent event is in one place, so the counters add up.                     *)

\* The events whose delivery is at v, and those settled as v.
Place(v) == {e \in Events : pc[e] = v}
Fated(v) == {e \in Events : fate[e] = v}

Counts ==
    /\ accepted = Cardinality(Place("counted"))
    /\ dropped = Cardinality(Place("rejected")) + Cardinality(Fated("lost"))
    /\ written = Cardinality(Fated("confirmed"))
    /\ writeDropped = Cardinality(Fated("lost"))
    /\ writeUncertain = Cardinality(Fated("unknown"))

\* Finite sets without a common element.
LEMMA DisjointUnion ==
  ASSUME NEW S, NEW T, IsFiniteSet(S), IsFiniteSet(T), S \cap T = {}
  PROVE  IsFiniteSet(S \cup T) /\ Cardinality(S \cup T) = Cardinality(S) + Cardinality(T)
<1>1. Cardinality(S \cap T) = 0
  BY FS_EmptySet
<1>2. /\ IsFiniteSet(S \cup T)
      /\ Cardinality(S \cup T) = Cardinality(S) + Cardinality(T) - Cardinality(S \cap T)
  BY FS_Union
<1>3. Cardinality(S) \in Nat /\ Cardinality(T) \in Nat
  BY FS_CardinalityType
<1> QED
  BY <1>1, <1>2, <1>3

\* Moving one record's delivery takes it from one set of events to another.
LEMMA PlaceAfterMove ==
  ASSUME TypeOK, NEW e \in Events, NEW to, pc' = [pc EXCEPT ![e] = to], NEW v
  PROVE  /\ v = to /\ pc[e] # v => Cardinality(Place(v)') = Cardinality(Place(v)) + 1
         /\ v # to /\ pc[e] # v => Place(v)' = Place(v)
<1>1. IsFiniteSet(Place(v))
  BY FiniteEvents DEF Place
<1>2. CASE v = to /\ pc[e] # v
  <2>1. Place(v)' = Place(v) \cup {e} /\ e \notin Place(v)
    BY <1>2 DEF TypeOK, Place
  <2> QED
    BY <1>1, <1>2, <2>1, FS_AddElement
<1>3. CASE v # to /\ pc[e] # v
  BY <1>3 DEF TypeOK, Place
<1> QED
  BY <1>2, <1>3

\* Settling the batch adds its events to those of that outcome.
LEMMA FatedAfterSettle ==
  ASSUME TypeOK, Placement, NEW outcome \in {"confirmed", "lost", "unknown"},
         BatchSettled(outcome), NEW v \in {"confirmed", "lost", "unknown"}
  PROVE  /\ v = outcome => Cardinality(Fated(v)') = Cardinality(Fated(v)) + Cardinality(batch)
         /\ v # outcome => Fated(v)' = Fated(v)
<1>1. \A e \in batch : fate[e] = "none"
  BY DEF Placement, InFlight, Settled, TypeOK
<1>2. fate' = [e \in Events |-> IF e \in batch THEN outcome ELSE fate[e]]
  BY DEF BatchSettled
<1>3. CASE v = outcome
  <2>1. Fated(v)' = Fated(v) \cup batch /\ Fated(v) \cap batch = {}
    BY <1>1, <1>2, <1>3 DEF Fated, TypeOK
  <2>2. /\ IsFiniteSet(Fated(v)) /\ IsFiniteSet(batch)
        /\ Cardinality(Fated(v)) \in Nat /\ Cardinality(batch) \in Nat
    BY FiniteEvents DEF Fated, TypeOK
  <2> QED
    BY <1>3, <2>1, <2>2, DisjointUnion
<1>4. CASE v # outcome
  BY <1>1, <1>2, <1>4 DEF Fated, TypeOK
<1> QED
  BY <1>3, <1>4

\* A delivery that ends is counted once, as accepted or as dropped.
LEMMA CountsDeliver ==
  ASSUME TypeOK, Counts, NEW e \in Events, Malformed(e) \/ Call(e) \/ Deliver(e)
  PROVE  Counts'
<1> USE DEF storeVars
<1>1. UNCHANGED fate /\ \A v : Fated(v)' = Fated(v)
  BY DEF Malformed, Call, Deliver, Enter, Load, Swap, Send, SendRefused, CountAccepted, Fated
<1>2. Cardinality(Place("rejected")) \in Nat /\ Cardinality(Fated("lost")) \in Nat
  BY FiniteEvents DEF Place, Fated
<1>3. CASE Refuse(e) /\ pc[e] \notin {"rejected", "counted"}
  <2>1. pc' = [pc EXCEPT ![e] = "rejected"] /\ dropped' = dropped + 1
        /\ UNCHANGED <<accepted, written, writeDropped, writeUncertain>>
    BY <1>3 DEF Refuse
  <2>2. /\ Cardinality(Place("rejected")') = Cardinality(Place("rejected")) + 1
        /\ Place("counted")' = Place("counted")
    BY <1>3, <2>1, PlaceAfterMove
  <2> QED
    BY <1>1, <1>2, <2>1, <2>2 DEF Counts
<1>4. CASE CountAccepted(e)
  <2>1. /\ pc[e] = "sent" /\ pc' = [pc EXCEPT ![e] = "counted"] /\ accepted' = accepted + 1
        /\ UNCHANGED <<dropped, written, writeDropped, writeUncertain>>
    BY <1>4 DEF CountAccepted
  <2>2. /\ Cardinality(Place("counted")') = Cardinality(Place("counted")) + 1
        /\ Place("rejected")' = Place("rejected")
    <3>1. pc[e] # "counted" /\ pc[e] # "rejected"
      BY <2>1
    <3> QED
      BY <2>1, <3>1, PlaceAfterMove
  <2> QED
    BY <1>1, <2>1, <2>2 DEF Counts
<1>5. CASE /\ UNCHANGED counterVars /\ pc[e] \notin {"rejected", "counted"}
           /\ \E to : to \notin {"rejected", "counted"} /\ pc' = [pc EXCEPT ![e] = to]
  <2>1. Place("rejected")' = Place("rejected") /\ Place("counted")' = Place("counted")
    <3>1. PICK to : to \notin {"rejected", "counted"} /\ pc' = [pc EXCEPT ![e] = to]
      BY <1>5
    <3> QED
      BY <1>5, <3>1, PlaceAfterMove
  <2> QED
    BY <1>1, <1>5, <2>1 DEF Counts, counterVars
<1> QED
  BY <1>3, <1>4, <1>5
  DEF Malformed, Call, Deliver, Enter, Load, Swap, Send, SendRefused

\* An attempt that settles the batch counts its events, by its outcome.
LEMMA CountsSettle ==
  ASSUME TypeOK, Placement, Counts, AttemptCommits \/ AttemptUncertain \/ AttemptsExhausted
  PROVE  Counts'
<1>1. /\ UNCHANGED <<pc, accepted>> /\ \A v : Place(v)' = Place(v)
  BY DEF AttemptCommits, AttemptUncertain, AttemptsExhausted, BatchSettled, senderVars, Place
<1>2. CASE AttemptCommits
  BY <1>1, <1>2, FatedAfterSettle DEF AttemptCommits, Counts
<1>3. CASE AttemptUncertain
  BY <1>1, <1>3, FatedAfterSettle DEF AttemptUncertain, Counts
<1>4. CASE AttemptsExhausted
  <2>1. /\ Cardinality(Place("rejected")) \in Nat /\ Cardinality(Fated("lost")) \in Nat
        /\ Cardinality(batch) \in Nat
    BY FiniteEvents DEF Place, Fated, TypeOK
  <2>2. /\ dropped' = dropped + Cardinality(batch)
        /\ writeDropped' = writeDropped + Cardinality(batch)
        /\ UNCHANGED <<written, writeUncertain>> /\ BatchSettled("lost")
    BY <1>4 DEF AttemptsExhausted
  <2>3. /\ Cardinality(Fated("lost")') = Cardinality(Fated("lost")) + Cardinality(batch)
        /\ Fated("confirmed")' = Fated("confirmed") /\ Fated("unknown")' = Fated("unknown")
    BY <2>2, FatedAfterSettle
  <2> QED
    BY <1>1, <2>1, <2>2, <2>3 DEF Counts
<1> QED
  BY <1>2, <1>3, <1>4

\* Every step counts what it does.
LEMMA CountsStep ==
  ASSUME TypeOK, Placement, Counts, [Next]_vars
  PROVE  Counts'
<1>1. CASE \E e \in Events : Malformed(e) \/ Call(e) \/ Deliver(e)
  BY <1>1, CountsDeliver
<1>2. CASE AttemptCommits \/ AttemptUncertain \/ AttemptsExhausted
  BY <1>2, CountsSettle
<1>3. CASE UNCHANGED <<pc, fate, counterVars>>
  BY <1>3 DEF Counts, Place, Fated, counterVars
<1>4. [Next]_vars =>
        \/ \E e \in Events : Malformed(e) \/ Call(e) \/ Deliver(e)
        \/ AttemptCommits \/ AttemptUncertain \/ AttemptsExhausted
        \/ UNCHANGED <<pc, fate, counterVars>>
  <2> USE DEF senderVars, storeVars
  <2>1. ASSUME NEW p \in Pausers, Begin(p) \/ Cancel(p) \/ Pause(p)
        PROVE  UNCHANGED <<pc, fate, counterVars>>
    BY <2>1 DEF Pause, Begin, Cancel, SendBarrier, BarrierRefused, Ready, LockSettings,
       Import, Read
  <2>2. CASE FlushTick \/ RetentionTick \/ Writer
    BY <2>2 DEF Writer, Receive, TakeEvent, TakeBarrier, LeaveBarrier, DrainDone, PruneLock,
       Prune, AttemptFails, FlushTick, RetentionTick
  <2>3. CASE UpdateSettings \/ Retire \/ Close \/ Finished \/ UNCHANGED vars
    BY <2>3 DEF UpdateSettings, Retire, Close, SwapActive, CloseQueue, FinishClose,
       MoveCloser, Finished, vars
  <2> QED
    BY <2>1, <2>2, <2>3 DEF Next
<1> QED
  BY <1>1, <1>2, <1>3, <1>4

\* The counters add up: whatever was sent is settled or in flight, once (README.md:31).
LEMMA CountsAddUp ==
  ASSUME TypeOK, Placement, Counts
  PROVE  Conservation
<1> DEFINE c == Cardinality(Fated("confirmed"))
           l == Cardinality(Fated("lost"))
           u == Cardinality(Fated("unknown"))
<1>1. /\ Sent = Place("sent") \cup Place("counted") /\ Place("sent") \cap Place("counted") = {}
      /\ IsFiniteSet(Place("sent")) /\ IsFiniteSet(Place("counted"))
      /\ Cardinality(Place("sent")) \in Nat /\ Cardinality(Place("counted")) \in Nat
  BY FiniteEvents DEF Sent, Place
<1>2. Cardinality(Sent) = Cardinality(Place("counted")) + Cardinality(Place("sent"))
  BY <1>1, DisjointUnion
<1>3. /\ IsFiniteSet(Fated("confirmed")) /\ IsFiniteSet(Fated("lost"))
      /\ IsFiniteSet(Fated("unknown")) /\ c \in Nat /\ l \in Nat /\ u \in Nat
  BY FiniteEvents DEF Fated
<1>4. /\ IsFiniteSet(Fated("confirmed") \cup Fated("lost"))
      /\ Cardinality(Fated("confirmed") \cup Fated("lost")) = c + l
  <2>1. Fated("confirmed") \cap Fated("lost") = {}
    BY DEF Fated
  <2> QED
    BY <1>3, <2>1, DisjointUnion
<1>5. Cardinality(Settled) = c + l + u
  <2>1. /\ (Fated("confirmed") \cup Fated("lost")) \cap Fated("unknown") = {}
        /\ Settled = (Fated("confirmed") \cup Fated("lost")) \cup Fated("unknown")
    BY DEF TypeOK, Fated, Settled
  <2> QED
    BY <1>3, <1>4, <2>1, DisjointUnion
<1>6. Cardinality(Sent) = Cardinality(InFlight) + Cardinality(Settled)
      /\ Cardinality(InFlight) \in Nat
  <2>1. /\ IsFiniteSet(InFlight) /\ IsFiniteSet(Settled)
        /\ Cardinality(InFlight) \in Nat /\ Cardinality(Settled) \in Nat
    BY FiniteEvents DEF TypeOK, InFlight, Settled
  <2>2. Sent = InFlight \cup Settled /\ InFlight \cap Settled = {}
    BY DEF Placement
  <2> QED
    BY <2>1, <2>2, DisjointUnion
<1>7. Cardinality(Place("counted")) + Cardinality(Place("sent"))
          = c + l + u + Cardinality(InFlight)
  <2> HIDE DEF c, l, u
  <2> QED
    BY <1>1, <1>2, <1>3, <1>5, <1>6
<1> QED
  BY <1>7 DEF Counts, Conservation, Place

\* No accepted event disappears or is counted twice (plugin.go:187-365, README.md:31).
THEOREM ConservationCorrect == Spec => []Conservation
<1>1. Init => Counts
  <2> SUFFICES ASSUME Init PROVE Counts
    OBVIOUS
  <2>1. /\ Place("counted") = {} /\ Place("rejected") = {}
        /\ Fated("confirmed") = {} /\ Fated("lost") = {} /\ Fated("unknown") = {}
    BY DEF Init, Place, Fated
  <2>2. Cardinality({}) = 0
    BY FS_EmptySet
  <2>3. accepted = 0 /\ dropped = 0 + 0 /\ written = 0 /\ writeDropped = 0 /\ writeUncertain = 0
    BY DEF Init
  <2> QED
    BY <2>1, <2>2, <2>3 DEF Counts
<1>2. IInv /\ Counts /\ [Next]_vars => Counts'
  BY CountsStep DEF IInv
<1>3. IInv /\ Counts => Conservation
  BY CountsAddUp DEF IInv
<1> QED
  BY <1>1, <1>2, <1>3, WriterInvariant, PTL DEF Spec
-----------------------------------------------------------------------------
(***************************************************************************)
(* Hand-over and barriers of one runtime. LocksHeld: nothing is inside the   *)
(* runtime once it is swapped out, and at most what is queued is left when   *)
(* the writer exits. BarrierCut: a barrier in the channel has before it      *)
(* exactly the events sent before it, namely those settled, in the batch, in *)
(* the writer's hand or ahead in the channel. From these follow that a       *)
(* runtime is open while used, drained when closed, and that restores and    *)
(* exports cut the stream of events where they should.                       *)
(***************************************************************************)

\* Restore and export calls that hold runtimeTransitionMu.
Holding == {"locking", "waiting", "settings", "importing", "reading"}

\* What the locks give: deliveries and calls end before the runtime is closed, and
\* the writer exits, with an empty channel, only after that.
LocksHeld ==
    /\ closer \notin {"idle", "swapping"} => Delivering = {}
    /\ closer # "idle" => \A p \in Pausers : ppc[p] \notin Holding
    /\ wpc = "exited" \/ cont = "exited" => Closed /\ queue = <<>>
    /\ closer = "closed" => wpc = "exited"

\* Where a delivery goes: inside the runtime until it is counted or refused.
Inside == {"called", "open", "loaded", "reserved", "sent"}

\* Deliveries keep the locks: only Call enters, and only while the runtime is active.
LEMMA LocksDeliver ==
  ASSUME TypeOK, LocksHeld, NEW e \in Events, Malformed(e) \/ Call(e) \/ Deliver(e)
  PROVE  LocksHeld'
<1> USE DEF pauserVars, writerVars
<1>1. UNCHANGED <<closer, ppc, wpc, cont>>
  BY DEF Malformed, Call, Deliver, Enter, Load, Swap, Send, SendRefused, CountAccepted
<1>2. CASE Malformed(e) \/ Call(e)
  <2>1. closer = "idle" /\ UNCHANGED queue
    BY <1>2 DEF Malformed, Call
  <2> QED
    BY <1>1, <2>1 DEF LocksHeld, Closed
<1>3. CASE Deliver(e)
  <2>1. pc[e] \in Inside /\ \E place : pc' = [pc EXCEPT ![e] = place]
    BY <1>3 DEF Deliver, Enter, Load, Swap, Send, SendRefused, CountAccepted, Refuse, Inside
  <2>2. Delivering # {} /\ Delivering' \subseteq Delivering
    BY <2>1 DEF Delivering, Readers, TypeOK, Inside
  <2>3. ~Closed /\ closer \notin {"swapped", "draining", "closed"}
    BY <2>2 DEF LocksHeld, Closed
  <2> QED
    BY <1>1, <2>2, <2>3 DEF LocksHeld, Closed, TypeOK
<1> QED
  BY <1>2, <1>3

\* Calls keep the locks: they begin only while no hand-over is under way.
LEMMA LocksPause ==
  ASSUME TypeOK, LocksHeld, NEW p \in Pausers, Begin(p) \/ Cancel(p) \/ Pause(p)
  PROVE  LocksHeld'
<1> USE DEF senderVars, writerVars
<1>1. /\ UNCHANGED <<closer, pc, wpc, cont>>
      /\ \E place : Goto(p, place)
  BY DEF Pause, Begin, Cancel, SendBarrier, BarrierRefused, Ready, LockSettings, Import, Read
<1>2. Delivering' = Delivering /\ Closed' = Closed
  BY <1>1 DEF Delivering, Readers, Closed
<1>3. CASE Begin(p)
  <2>1. UNCHANGED queue /\ (closer # "idle" => ppc' = [ppc EXCEPT ![p] = "unavailable"])
    BY <1>3 DEF Begin, Goto
  <2> QED
    BY <1>1, <1>2, <2>1 DEF LocksHeld, Holding, TypeOK
<1>4. CASE Cancel(p) \/ Pause(p)
  <2>1. ppc[p] \in Holding
    BY <1>4 DEF Cancel, Pause, SendBarrier, BarrierRefused, Ready, LockSettings, Import,
       Read, Holding
  <2>2. closer = "idle" /\ ~Closed
    BY <2>1 DEF LocksHeld, Closed
  <2> QED
    BY <1>1, <1>2, <2>2 DEF LocksHeld
<1> QED
  BY <1>3, <1>4

\* The writer keeps the locks: it leaves by DrainDone only and never comes back.
LEMMA LocksWriter ==
  ASSUME TypeOK, WriterControl, LocksHeld, Writer \/ FlushTick \/ RetentionTick
  PROVE  LocksHeld'
<1> USE DEF senderVars, pauserVars
<1>1. UNCHANGED <<closer, pc, ppc>>
  BY DEF Writer, Receive, TakeEvent, TakeBarrier, LeaveBarrier, DrainDone, PruneLock, Prune,
     AttemptCommits, AttemptUncertain, AttemptFails, AttemptsExhausted, BatchSettled,
     FlushTick, RetentionTick
<1>2. Delivering' = Delivering /\ Closed' = Closed
  BY <1>1 DEF Delivering, Readers, Closed
<1>3. wpc # "exited" /\ closer # "closed"
  BY DEF Writer, Receive, TakeEvent, TakeBarrier, LeaveBarrier, DrainDone, PruneLock, Prune,
     AttemptCommits, AttemptUncertain, AttemptFails, AttemptsExhausted, FlushTick,
     RetentionTick, LocksHeld
<1>4. (wpc' = "exited" \/ cont' = "exited") => Closed /\ queue = <<>> /\ queue' = <<>>
  <2>1. CASE DrainDone
    BY <2>1 DEF DrainDone
  <2>2. CASE AttemptCommits \/ AttemptUncertain \/ AttemptFails \/ AttemptsExhausted
    BY <2>2, <1>3 DEF AttemptCommits, AttemptUncertain, AttemptFails, AttemptsExhausted,
       BatchSettled, LocksHeld
  <2>3. CASE TakeBarrier \/ FlushTick \/ RetentionTick
    <3>1. cont = "select"
      BY <2>3 DEF TakeBarrier, FlushTick, RetentionTick, WriterControl
    <3> QED
      BY <2>3, <3>1 DEF TakeBarrier, FlushTick, RetentionTick, FlushThen
  <2>4. CASE Receive \/ TakeEvent \/ LeaveBarrier \/ PruneLock \/ Prune
    <3>1. cont = "select"
      BY <2>4 DEF Receive, TakeEvent, LeaveBarrier, PruneLock, Prune, WriterControl
    <3> QED
      BY <2>4, <3>1 DEF Receive, TakeEvent, LeaveBarrier, PruneLock, Prune
  <2> QED
    BY <2>1, <2>2, <2>3, <2>4 DEF Writer
<1> QED
  BY <1>1, <1>2, <1>3, <1>4 DEF LocksHeld

\* Every step keeps the locks.
LEMMA LocksStep ==
  ASSUME TypeOK, WriterControl, LocksHeld, [Next]_vars
  PROVE  LocksHeld'
<1>1. CASE \E e \in Events : Malformed(e) \/ Call(e) \/ Deliver(e)
  BY <1>1, LocksDeliver
<1>2. CASE \E p \in Pausers : Begin(p) \/ Cancel(p) \/ Pause(p)
  BY <1>2, LocksPause
<1>3. CASE Writer \/ FlushTick \/ RetentionTick
  BY <1>3, LocksWriter
<1>4. CASE Retire \/ Close
  <2>1. UNCHANGED <<pc, ppc, wpc, cont, queue>>
    BY <1>4 DEF Retire, Close, SwapActive, CloseQueue, FinishClose, MoveCloser, senderVars,
       pauserVars, writerVars
  <2>2. Delivering' = Delivering
    BY <2>1 DEF Delivering, Readers
  <2>3. CASE Retire
    BY <2>1, <2>2, <2>3 DEF Retire, MoveCloser, TransitionFree, LocksHeld, Holding, Closed
  <2>4. CASE SwapActive
    BY <2>1, <2>2, <2>4 DEF SwapActive, MoveCloser, LocksHeld, Closed
  <2>5. CASE CloseQueue \/ FinishClose
    BY <2>1, <2>2, <2>5 DEF CloseQueue, FinishClose, MoveCloser, LocksHeld, Closed
  <2> QED
    BY <1>4, <2>3, <2>4, <2>5 DEF Close
<1>5. CASE UpdateSettings \/ Finished \/ UNCHANGED vars
  <2>1. UNCHANGED <<pc, ppc, wpc, cont, queue, closer>>
    BY <1>5 DEF UpdateSettings, Finished, vars, senderVars, pauserVars, writerVars
  <2> QED
    BY <2>1 DEF LocksHeld, Delivering, Readers, Closed
<1> QED
  BY <1>1, <1>2, <1>3, <1>4, <1>5 DEF Next
-----------------------------------------------------------------------------
\* The locks hold in every reachable state.
LEMMA LocksInvariant == Spec => []LocksHeld
<1>1. Init => LocksHeld
  BY DEF Init, LocksHeld, Delivering, Readers, Closed, Holding
<1>2. IInv /\ LocksHeld /\ [Next]_vars => LocksHeld'
  BY LocksStep DEF IInv
<1> QED
  BY <1>1, <1>2, WriterInvariant, PTL DEF Spec

\* No delivery or pause ever meets a closed runtime (plugin.go:129, 261).
THEOREM OpenWhileUsedCorrect == Spec => []OpenWhileUsed
<1>1. LocksHeld => OpenWhileUsed
  BY DEF LocksHeld, OpenWhileUsed, Closed, Holding
<1> QED
  BY <1>1, LocksInvariant, PTL

\* When close() returns, everything sent is settled (plugin.go:354-365).
THEOREM DrainedCorrect == Spec => []DrainedAtClose
<1>1. ASSUME IInv, LocksHeld, closer = "closed"
      PROVE  Sent \subseteq Settled
  <2>1. queue = <<>> /\ wpc = "exited"
    BY <1>1 DEF LocksHeld
  <2>2. Items = {} /\ batch = {} /\ hand \notin Events
    BY <1>1, <2>1 DEF Items, IInv, WriterControl
  <2> QED
    BY <1>1, <2>2 DEF IInv, Placement, InFlight
<1>2. IInv /\ LocksHeld => DrainedAtClose
  BY <1>1 DEF DrainedAtClose
<1> QED
  BY <1>2, WriterInvariant, LocksInvariant, PTL
-----------------------------------------------------------------------------
(* The cut.                                                                 *)

\* The events that have left the channel, and those ahead of position i in it.
Passed == Settled \cup batch \cup ({hand} \cap Events)
Ahead(q, i) == {q[j] : j \in 1..(i - 1)} \cap Events

\* A barrier has been overtaken by nothing and has overtaken nothing: while it is
\* queued, in the writer's hand, and while a restore works behind it.
BarrierCut ==
    /\ \A p \in Pausers : ppc[p] = "waiting" =>
          /\ p \in Items \cup {hand}
          /\ \A i \in 1..Len(queue) : queue[i] = p => cut[p] = Passed \cup Ahead(queue, i)
    /\ \A p \in Pausers : ppc[p] \in {"waiting", "settings", "importing"} /\ hand = p =>
          cut[p] = Settled \cup batch
    /\ \A p \in Pausers : ppc[p] \in {"settings", "importing"} => wpc = "paused" /\ hand = p
    /\ \A p \in Pausers : ppc[p] \in {"reading", "exported"} => cut[p] \subseteq Settled
    /\ \A p \in Pausers : ppc[p] \in {"settings", "importing"} => p \in Restorers

\* Steps that touch neither the channel nor what has left it, nor any call.
LEMMA CutFrame ==
  ASSUME BarrierCut, UNCHANGED <<queue, ppc, cut, hand, batch, fate>>, wpc' = wpc
  PROVE  BarrierCut'
BY DEF BarrierCut, Items, Passed, Ahead, Settled

\* A send changes the channel behind every barrier that is in it.
LEMMA CutSend ==
  ASSUME TypeOK, BarrierCut, NEW e \in Events, Send(e)
  PROVE  BarrierCut'
<1> USE DEF pauserVars, writerVars, storeVars
<1>1. queue' = Append(queue, e) /\ UNCHANGED <<ppc, cut, hand, batch, fate, wpc>>
  BY DEF Send
<1>2. /\ Len(queue) \in Nat /\ Len(queue') = Len(queue) + 1 /\ queue'[Len(queue) + 1] = e
      /\ \A i \in 1..Len(queue) : queue'[i] = queue[i]
  BY <1>1 DEF TypeOK
<1>3. Items' = Items \cup {e}
  BY <1>1, ItemsAfterSend
<1>4. Passed' = Passed /\ Settled' = Settled
  BY <1>1 DEF Passed, Settled
<1>5. ASSUME NEW p \in Pausers, ppc'[p] = "waiting", NEW i \in 1..Len(queue'), queue'[i] = p
      PROVE  cut'[p] = Passed' \cup Ahead(queue', i)
  <2>1. i \in 1..Len(queue) /\ queue[i] = p
    BY <1>2, <1>5, WriterAssumption
  <2>2. Ahead(queue', i) = Ahead(queue, i)
    BY <1>2, <2>1 DEF Ahead
  <2> QED
    BY <1>1, <1>4, <1>5, <2>1, <2>2 DEF BarrierCut
<1> QED
  BY <1>1, <1>3, <1>4, <1>5 DEF BarrierCut

\* Deliveries keep the cut.
LEMMA CutDeliver ==
  ASSUME TypeOK, BarrierCut, NEW e \in Events, Malformed(e) \/ Call(e) \/ Deliver(e)
  PROVE  BarrierCut'
<1>1. CASE Send(e)
  BY <1>1, CutSend
<1>2. CASE ~Send(e)
  <2>1. UNCHANGED <<queue, ppc, cut, hand, batch, fate, wpc>>
    BY <1>2 DEF Malformed, Call, Deliver, Enter, Load, Swap, SendRefused, CountAccepted,
       pauserVars, writerVars, storeVars
  <2> QED
    BY <2>1, CutFrame
<1> QED
  BY <1>1, <1>2

\* A barrier that is sent has everything sent before it ahead of it or past it.
LEMMA CutSendBarrier ==
  ASSUME TypeOK, Placement, BarrierCut, NEW p \in Pausers, SendBarrier(p), ~Closed
  PROVE  BarrierCut'
<1> USE DEF senderVars, writerVars, storeVars
<1>1. /\ ppc[p] = "locking" /\ ppc' = [ppc EXCEPT ![p] = "waiting"]
      /\ queue' = Append(queue, p) /\ cut' = [cut EXCEPT ![p] = Sent]
      /\ UNCHANGED <<hand, batch, fate, wpc>>
  BY DEF SendBarrier, Goto
<1>2. /\ Len(queue) \in Nat /\ Len(queue') = Len(queue) + 1 /\ queue'[Len(queue) + 1] = p
      /\ \A i \in 1..Len(queue) : queue'[i] = queue[i]
  BY <1>1 DEF TypeOK
<1>3. Items' = Items \cup {p} /\ p \notin Items /\ hand # p
  BY <1>1, ItemsAfterSend DEF Placement
<1>4. Passed' = Passed /\ Settled' = Settled
  BY <1>1 DEF Passed, Settled
<1>5. \A i \in 1..Len(queue) : queue[i] # p
  BY <1>3 DEF Items
<1>6. Sent = Passed \cup Ahead(queue', Len(queue) + 1)
  <2>1. Ahead(queue', Len(queue) + 1) = Items \cap Events
    BY <1>2 DEF Ahead, Items
  <2> QED
    BY <2>1 DEF Placement, InFlight, Passed
<1>7. ASSUME NEW q \in Pausers, ppc'[q] = "waiting", NEW i \in 1..Len(queue'), queue'[i] = q
      PROVE  cut'[q] = Passed' \cup Ahead(queue', i)
  <2>1. CASE q = p
    <3>1. i = Len(queue) + 1
      BY <1>2, <1>5, <1>7, <2>1
    <3> QED
      BY <1>1, <1>4, <1>6, <2>1, <3>1 DEF TypeOK
  <2>2. CASE q # p
    <3>1. i \in 1..Len(queue) /\ queue[i] = q /\ ppc[q] = "waiting" /\ cut'[q] = cut[q]
      BY <1>1, <1>2, <1>7, <2>2 DEF TypeOK
    <3>2. Ahead(queue', i) = Ahead(queue, i)
      BY <1>2, <3>1 DEF Ahead
    <3> QED
      BY <1>4, <3>1, <3>2 DEF BarrierCut
  <2> QED
    BY <2>1, <2>2
<1> QED
  BY <1>1, <1>3, <1>4, <1>7 DEF BarrierCut, TypeOK

\* Calls keep the cut: a call that goes on behind its barrier is at it.
LEMMA CutPause ==
  ASSUME TypeOK, WriterControl, Placement, BarrierCut, NEW p \in Pausers,
         Begin(p) \/ Cancel(p) \/ Pause(p)
  PROVE  BarrierCut'
<1> USE DEF senderVars, writerVars, storeVars
<1>1. CASE SendBarrier(p) /\ ~Closed
  BY <1>1, CutSendBarrier
<1>2. CASE ~(SendBarrier(p) /\ ~Closed)
  <2>1. /\ UNCHANGED <<queue, cut, hand, batch, fate, wpc>>
        /\ \E place : ppc' = [ppc EXCEPT ![p] = place]
    BY <1>2 DEF Pause, Begin, Cancel, SendBarrier, BarrierRefused, Ready, LockSettings,
       Import, Read, Goto
  <2>2. PICK place : ppc' = [ppc EXCEPT ![p] = place]
    BY <2>1
  <2>3. /\ Items' = Items /\ Passed' = Passed /\ Settled' = Settled
        /\ \A i \in 1..Len(queue) : Ahead(queue', i) = Ahead(queue, i)
    BY <2>1 DEF Items, Passed, Settled
  <2>4. place # "waiting"
    BY <1>2, <2>2 DEF Pause, Begin, Cancel, SendBarrier, BarrierRefused, Ready, LockSettings,
       Import, Read, Goto, TypeOK
  <2>5. place \in {"settings", "importing"} =>
           /\ wpc = "paused" /\ hand = p /\ p \in Restorers
           /\ ppc[p] \in {"waiting", "settings", "importing"}
    <3>1. CASE Ready(p)
      BY <2>2, <3>1 DEF Ready, Goto, BarrierReady, TypeOK
    <3>2. CASE LockSettings(p)
      BY <3>2 DEF LockSettings, BarrierCut
    <3>3. CASE ~Ready(p) /\ ~LockSettings(p)
      BY <1>2, <2>2, <3>3 DEF Pause, Begin, Cancel, SendBarrier, BarrierRefused, Import,
         Read, Goto, TypeOK
    <3> QED
      BY <3>1, <3>2, <3>3
  <2>6. place \in {"reading", "exported"} => cut[p] \subseteq Settled
    <3>1. CASE Ready(p)
      BY <3>1 DEF Ready, BarrierReady, BarrierCut, WriterControl
    <3>2. CASE Read(p)
      BY <3>2 DEF Read, BarrierCut
    <3>3. CASE ~Ready(p) /\ ~Read(p)
      BY <1>2, <2>2, <3>3 DEF Pause, Begin, Cancel, SendBarrier, BarrierRefused, Import,
         LockSettings, Goto, TypeOK
    <3> QED
      BY <3>1, <3>2, <3>3
  <2> QED
    BY <2>1, <2>2, <2>3, <2>4, <2>5, <2>6 DEF BarrierCut, TypeOK
<1> QED
  BY <1>1, <1>2
-----------------------------------------------------------------------------
\* What the writer receives it takes past every barrier behind it.
LEMMA CutReceive ==
  ASSUME TypeOK, WriterControl, Placement, BarrierCut, Receive
  PROVE  BarrierCut'
<1> USE DEF senderVars, pauserVars, storeVars
<1>1. /\ wpc = "select" /\ queue # <<>> /\ hand' = Head(queue) /\ queue' = Tail(queue)
      /\ UNCHANGED <<ppc, cut, batch, fate>>
  BY DEF Receive
<1>2. /\ Len(queue') \in Nat /\ Len(queue) = Len(queue') + 1
      /\ \A i \in 1..Len(queue') : queue'[i] = queue[i + 1]
      /\ hand' = queue[1]
  BY <1>1 DEF TypeOK
<1>3. Items = Items' \cup {hand'}
  BY <1>1, ItemsAfterReceive DEF Placement, Uniq
<1>4. hand \notin Events /\ hand \notin Pausers /\ \A p \in Pausers : ppc[p] \notin {"settings", "importing"}
  BY <1>1 DEF WriterControl, BarrierCut
<1>5. Settled' = Settled /\ Passed = Settled \cup batch
      /\ Passed' = Passed \cup ({queue[1]} \cap Events)
  BY <1>1, <1>2, <1>4 DEF Settled, Passed
<1>6. ASSUME NEW p \in Pausers, ppc[p] = "waiting", NEW i \in 1..Len(queue'), queue'[i] = p
      PROVE  cut[p] = Passed' \cup Ahead(queue', i)
  <2>1. i + 1 \in 1..Len(queue) /\ queue[i + 1] = p
    BY <1>2, <1>6
  <2>2. cut[p] = Passed \cup Ahead(queue, i + 1)
    BY <1>6, <2>1 DEF BarrierCut
  <2>3. Ahead(queue, i + 1) = ({queue[1]} \cap Events) \cup Ahead(queue', i)
    <3>1. \A j \in 1..i : j = 1 \/ (j - 1 \in 1..(i - 1) /\ queue'[j - 1] = queue[j])
      BY <1>2, <2>1
    <3>2. \A j \in 1..(i - 1) : j + 1 \in 1..i /\ queue'[j] = queue[j + 1]
      BY <1>2, <2>1
    <3>3. 1 \in 1..i /\ (i + 1) - 1 = i
      BY <2>1
    <3>4. {queue[j] : j \in 1..i} = {queue[1]} \cup {queue'[j] : j \in 1..(i - 1)}
      <4>1. ASSUME NEW j \in 1..i
            PROVE  queue[j] \in {queue[1]} \cup {queue'[k] : k \in 1..(i - 1)}
        <5>1. CASE j = 1
          BY <5>1
        <5>2. CASE j - 1 \in 1..(i - 1) /\ queue'[j - 1] = queue[j]
          <6> DEFINE k == j - 1
          <6> HIDE DEF k
          <6>1. k \in 1..(i - 1) /\ queue'[k] = queue[j]
            BY <5>2 DEF k
          <6> QED
            BY <6>1
        <5> QED
          BY <3>1, <5>1, <5>2
      <4>2. ASSUME NEW j \in 1..(i - 1)
            PROVE  queue'[j] \in {queue[k] : k \in 1..i}
        <5> DEFINE k == j + 1
        <5> HIDE DEF k
        <5>1. k \in 1..i /\ queue'[j] = queue[k]
          BY <3>2 DEF k
        <5> QED
          BY <5>1
      <4> QED
        BY <3>3, <4>1, <4>2
    <3>5. Ahead(queue, i + 1) = {queue[j] : j \in 1..i} \cap Events
      BY <3>3 DEF Ahead
    <3> QED
      BY <3>4, <3>5 DEF Ahead
  <2> QED
    BY <1>5, <2>2, <2>3
<1>7. ASSUME NEW p \in Pausers, ppc[p] = "waiting", hand' = p
      PROVE  cut[p] = Settled \cup batch
  <2>1. 1 \in 1..Len(queue) /\ queue[1] = p
    BY <1>2, <1>7
  <2>2. cut[p] = Passed \cup Ahead(queue, 1)
    BY <1>7, <2>1 DEF BarrierCut
  <2>3. Ahead(queue, 1) = {}
    BY DEF Ahead
  <2> QED
    BY <1>5, <2>2, <2>3
<1> QED
  BY <1>1, <1>3, <1>4, <1>5, <1>6, <1>7 DEF BarrierCut

\* The other steps of the writer keep the channel and what has passed.
LEMMA CutWriter ==
  ASSUME TypeOK, WriterControl, Placement, BarrierCut, Writer \/ FlushTick \/ RetentionTick
  PROVE  BarrierCut'
<1> USE DEF senderVars, pauserVars, storeVars
<1>1. CASE Receive
  BY <1>1, CutReceive
<1>2. CASE TakeEvent
  <2>1. /\ hand \in Events /\ hand' = Nil /\ batch' = batch \cup {hand} /\ wpc = "received"
        /\ UNCHANGED <<queue, ppc, cut, fate>>
    BY <1>2 DEF TakeEvent
  <2>2. Passed' = Passed /\ Settled' = Settled /\ Items' = Items
    BY <2>1, WriterAssumption DEF Passed, Settled, Items
  <2>3. \A p \in Pausers : hand # p /\ hand' # p /\ ppc[p] \notin {"settings", "importing"}
    BY <2>1, WriterAssumption DEF BarrierCut
  <2> QED
    BY <2>1, <2>2, <2>3 DEF BarrierCut
<1>3. CASE LeaveBarrier
  <2>1. /\ wpc = "paused" /\ hand \in Pausers /\ hand' = Nil /\ Resumed(hand)
        /\ UNCHANGED <<queue, ppc, cut, batch, fate>>
    BY <1>3 DEF LeaveBarrier, WriterControl
  <2>2. Passed' = Passed /\ Settled' = Settled /\ Items' = Items
    BY <2>1, WriterAssumption DEF Passed, Settled, Items
  <2>3. \A p \in Pausers : hand' # p /\ (ppc[p] \in {"waiting", "settings", "importing"} => hand # p)
    BY <2>1, WriterAssumption DEF Resumed
  <2> QED
    BY <2>1, <2>2, <2>3 DEF BarrierCut
<1>4. CASE \/ TakeBarrier \/ DrainDone \/ PruneLock \/ Prune \/ FlushTick \/ RetentionTick
           \/ AttemptFails
  <2>1. wpc # "paused" /\ UNCHANGED <<queue, ppc, cut, hand, batch, fate>>
    BY <1>4 DEF TakeBarrier, DrainDone, PruneLock, Prune, FlushTick, RetentionTick,
       AttemptFails
  <2>2. Passed' = Passed /\ Settled' = Settled /\ Items' = Items
    BY <2>1 DEF Passed, Settled, Items
  <2> QED
    BY <2>1, <2>2 DEF BarrierCut
<1>5. CASE AttemptCommits \/ AttemptUncertain \/ AttemptsExhausted
  <2>1. PICK outcome \in {"confirmed", "unknown", "lost"} :
           wpc = "writing" /\ BatchSettled(outcome)
    BY <1>5 DEF AttemptCommits, AttemptUncertain, AttemptsExhausted
  <2>2. /\ batch' = {} /\ UNCHANGED <<queue, ppc, cut, hand>>
        /\ Settled' = Settled \cup batch
    BY <2>1 DEF BatchSettled, Settled, TypeOK
  <2>3. Passed' = Passed /\ Items' = Items /\ Settled' \cup batch' = Settled \cup batch
    BY <2>2 DEF Passed, Items
  <2>4. \A p \in Pausers : ppc[p] \notin {"settings", "importing"}
    BY <2>1 DEF BarrierCut
  <2> QED
    BY <2>2, <2>3, <2>4 DEF BarrierCut
<1> QED
  BY <1>1, <1>2, <1>3, <1>4, <1>5 DEF Writer

\* Every step keeps the cut.
LEMMA CutStep ==
  ASSUME TypeOK, WriterControl, Placement, BarrierCut, [Next]_vars
  PROVE  BarrierCut'
<1>1. CASE \E e \in Events : Malformed(e) \/ Call(e) \/ Deliver(e)
  BY <1>1, CutDeliver
<1>2. CASE \E p \in Pausers : Begin(p) \/ Cancel(p) \/ Pause(p)
  BY <1>2, CutPause
<1>3. CASE Writer \/ FlushTick \/ RetentionTick
  BY <1>3, CutWriter
<1>4. CASE UpdateSettings \/ Retire \/ Close \/ Finished \/ UNCHANGED vars
  <2>1. UNCHANGED <<queue, ppc, cut, hand, batch, fate, wpc>>
    BY <1>4 DEF UpdateSettings, Retire, Close, SwapActive, CloseQueue, FinishClose,
       MoveCloser, Finished, vars, senderVars, pauserVars, writerVars, storeVars
  <2> QED
    BY <2>1, CutFrame
<1> QED
  BY <1>1, <1>2, <1>3, <1>4 DEF Next

\* The cut holds in every reachable state.
LEMMA CutInvariant == Spec => []BarrierCut
<1>1. Init => BarrierCut
  BY DEF Init, BarrierCut
<1>2. IInv /\ BarrierCut /\ [Next]_vars => BarrierCut'
  BY CutStep DEF IInv
<1> QED
  BY <1>1, <1>2, WriterInvariant, PTL DEF Spec

\* A restore replaces exactly what was sent before its barrier, behind a writer that
\* stands still (plugin.go:264-277).
THEOREM RestoreCutCorrect == Spec => []RestoreCutsAtBarrier
<1>1. ASSUME IInv, BarrierCut, NEW p \in Restorers, ppc[p] \in {"settings", "importing"}
      PROVE  wpc = "paused" /\ hand = p /\ Settled = cut[p]
  <2>1. p \in Pausers
    BY DEF Pausers
  <2>2. wpc = "paused" /\ hand = p
    BY <1>1, <2>1 DEF BarrierCut
  <2>3. batch = {}
    BY <1>1, <2>2 DEF IInv, WriterControl
  <2>4. cut[p] = Settled \cup batch
    BY <1>1, <2>1, <2>2 DEF BarrierCut
  <2> QED
    BY <2>2, <2>3, <2>4
<1>2. IInv /\ BarrierCut => RestoreCutsAtBarrier
  BY <1>1 DEF RestoreCutsAtBarrier
<1> QED
  BY <1>2, WriterInvariant, CutInvariant, PTL

\* An export reads after everything sent before its barrier was settled, though the
\* writer runs again (plugin.go:298-313).
THEOREM ExportCorrect == Spec => []ExportSeesEarlierEvents
<1>1. BarrierCut => ExportSeesEarlierEvents
  BY DEF BarrierCut, ExportSeesEarlierEvents, Pausers
<1> QED
  BY <1>1, CutInvariant, PTL

\* A runtime is closed under nobody's feet and drained (plugin.go:61-76, 354-365).
THEOREM ClosesCleanlyCorrect == Spec => []ClosesCleanly
<1>1. OpenWhileUsed /\ DrainedAtClose => ClosesCleanly
  BY DEF ClosesCleanly
<1> QED
  BY <1>1, OpenWhileUsedCorrect, DrainedCorrect, PTL

\* Restores and exports cut the stream of events at their barriers (plugin.go:258-313).
THEOREM BarriersCorrect == Spec => []BarriersSeparate
<1>1. RestoreCutsAtBarrier /\ ExportSeesEarlierEvents => BarriersSeparate
  BY DEF BarriersSeparate
<1> QED
  BY <1>1, RestoreCutCorrect, ExportCorrect, PTL
-----------------------------------------------------------------------------
(* The refinement. The runtime implements EventLedger, and so keeps what is  *)
(* proved of the ledger: every event has one row at most, and only when it   *)
(* was counted as written or uncertain. The proof needs from IInv that a     *)
(* batch holds sent, unsettled events only, and that an export has stored no *)
(* snapshot before it ends.                                                  *)

\* The snapshot of an export is empty until the export is done.
SnapshotUnset ==
    \A p \in Pausers : ppc[p] \notin {"exported", "failed"} => snapshot[p] = NoRows

\* Only Read sets a snapshot, and after it the call is over.
LEMMA SnapshotStep ==
  ASSUME TypeOK, SnapshotUnset, [Next]_vars
  PROVE  SnapshotUnset'
<1> USE DEF SnapshotUnset, TypeOK
<1>1. CASE UNCHANGED <<ppc, snapshot>>
  BY <1>1 DEF NoRows
<1>2. ASSUME NEW p \in Pausers, Begin(p) \/ Cancel(p) \/ SendBarrier(p)
             \/ BarrierRefused(p) \/ Ready(p) \/ LockSettings(p) \/ Import(p)
      PROVE  SnapshotUnset'
  <2>1. /\ UNCHANGED snapshot /\ ppc[p] \notin {"exported", "failed"}
        /\ \E place : Goto(p, place)
    BY <1>2 DEF Begin, Cancel, SendBarrier, BarrierRefused, Ready, LockSettings, Import, Goto
  <2> QED
    BY <2>1 DEF Goto, NoRows
<1>3. ASSUME NEW p \in Pausers, Read(p)
      PROVE  SnapshotUnset'
  BY <1>3 DEF Read, Goto, NoRows
<1>4. [Next]_vars =>
        \/ UNCHANGED <<ppc, snapshot>>
        \/ \E p \in Pausers : Begin(p) \/ Cancel(p) \/ Pause(p)
  <2> USE DEF pauserVars
  <2>1. ASSUME NEW e \in Events, Malformed(e) \/ Call(e) \/ Deliver(e)
        PROVE  UNCHANGED <<ppc, snapshot>>
    BY <2>1 DEF Deliver, Malformed, Call, Enter, Load, Swap, Send, SendRefused, CountAccepted
  <2>2. CASE Writer \/ FlushTick \/ RetentionTick
    BY <2>2 DEF Writer, Receive, TakeEvent, TakeBarrier, LeaveBarrier, DrainDone, PruneLock,
       Prune, AttemptCommits, AttemptUncertain, AttemptFails, AttemptsExhausted,
       BatchSettled, FlushTick, RetentionTick
  <2>3. CASE UpdateSettings \/ Retire \/ Close \/ Finished \/ UNCHANGED vars
    BY <2>3 DEF UpdateSettings, Retire, Close, SwapActive, CloseQueue, FinishClose,
       MoveCloser, Finished, vars
  <2> QED
    BY <2>1, <2>2, <2>3 DEF Next
<1> QED
  BY <1>1, <1>2, <1>3, <1>4 DEF Pause
-----------------------------------------------------------------------------
\* What the refinement rests on.
RInv == IInv /\ SnapshotUnset

\* The initial runtime is the initial ledger: nothing has happened to any event.
LEMMA RefinementInit == Init => Ledger!Init
<1> SUFFICES ASSUME Init PROVE Ledger!Init
  OBVIOUS
<1>1. Stage = [e \in Events |-> "new"]
  BY DEF Init, Stage
<1>2. Payloads = {NoRows}
  BY DEF Init, Payloads, Pausers
<1> QED
  BY <1>1, <1>2 DEF Init, Ledger!Init, Backups, NoRows, Ledger!NoRows

\* Steps that settle nothing and move no record into or out of a visible stage.
LEMMA StageFrame ==
  ASSUME UNCHANGED fate,
         \A e \in Events : \/ pc'[e] = pc[e]
                           \/ {pc[e], pc'[e]} \subseteq {"sent", "counted"}
                           \/ {pc[e], pc'[e]} \subseteq {"idle", "called", "open", "loaded",
                                                         "reserved"}
  PROVE  Stage' = Stage
BY DEF Stage

\* Steps that no stage, row or snapshot shows.
LEMMA LedgerStutter ==
  ASSUME UNCHANGED <<rows, snapshot>>, Stage' = Stage
  PROVE  UNCHANGED Ledger!vars
BY DEF Ledger!vars, Backups, Payloads, NoRows

\* An event that was not sent is new or rejected in the ledger.
LEMMA UnsentStage ==
  ASSUME Placement, NEW e \in Events, e \notin Sent
  PROVE  fate[e] = "none" /\ Stage[e] = IF pc[e] = "rejected" THEN "rejected" ELSE "new"
BY DEF Placement, Settled, Sent, Stage

\* A record is refused, or queued, at most once.
LEMMA RefusedStage ==
  ASSUME TypeOK, Placement, NEW e \in Events, Refuse(e), UNCHANGED <<fate, rows, snapshot>>,
         pc[e] \in {"idle", "called", "open", "reserved"}
  PROVE  Ledger!Reject(e)
<1>1. fate[e] = "none" /\ Stage[e] = "new"
  BY UnsentStage DEF Sent
<1>2. Stage' = [Stage EXCEPT ![e] = "rejected"]
  BY <1>1 DEF Refuse, Stage, TypeOK
<1> QED
  BY <1>1, <1>2 DEF Ledger!Reject, Backups, Payloads, NoRows

\* Deliveries map to Reject, Admit or nothing.
LEMMA RefinementDeliver ==
  ASSUME RInv, NEW e \in Events, Malformed(e) \/ Call(e) \/ Deliver(e)
  PROVE  [Ledger!Next]_(Ledger!vars)
<1> USE DEF pauserVars, storeVars
<1>0. TypeOK /\ Placement
  BY DEF RInv, IInv
<1>1. CASE \/ Malformed(e) \/ SendRefused(e)
           \/ Enter(e) /\ Closed
           \/ Load(e) /\ queuedEvents >= QueueSize
  <2>1. /\ Refuse(e) /\ UNCHANGED <<fate, rows, snapshot>>
        /\ pc[e] \in {"idle", "called", "open", "reserved"}
    BY <1>1 DEF Malformed, SendRefused, Enter, Load
  <2> QED
    BY <1>0, <2>1, RefusedStage DEF Ledger!Next
<1>2. CASE Send(e)
  <2>1. pc[e] = "reserved" /\ pc' = [pc EXCEPT ![e] = "sent"] /\ UNCHANGED <<fate, rows, snapshot>>
    BY <1>2 DEF Send
  <2>2. fate[e] = "none" /\ Stage[e] = "new"
    BY <1>0, <2>1, UnsentStage DEF Sent
  <2>3. Stage' = [Stage EXCEPT ![e] = "pending"]
    BY <1>0, <2>1, <2>2 DEF Stage, TypeOK
  <2>4. Ledger!Admit(e)
    BY <2>1, <2>2, <2>3 DEF Ledger!Admit, Backups, Payloads, NoRows
  <2> QED
    BY <2>4 DEF Ledger!Next
<1>3. CASE \/ Call(e) \/ Swap(e) \/ CountAccepted(e)
           \/ Enter(e) /\ ~Closed
           \/ Load(e) /\ ~(queuedEvents >= QueueSize)
  <2>1. /\ UNCHANGED <<fate, rows, snapshot>>
        /\ \E from, to : /\ pc[e] = from /\ pc' = [pc EXCEPT ![e] = to]
                         /\ \/ {from, to} \subseteq {"sent", "counted"}
                            \/ {from, to} \subseteq {"idle", "called", "open", "loaded",
                                                     "reserved"}
    BY <1>3 DEF Call, Swap, CountAccepted, Enter, Load
  <2>2. Stage' = Stage
    BY <1>0, <2>1, StageFrame DEF TypeOK
  <2> QED
    BY <2>1, <2>2, LedgerStutter
<1> QED
  BY <1>1, <1>2, <1>3 DEF Deliver

\* Restore and export calls map to Restore, Export or nothing.
LEMMA RefinementPause ==
  ASSUME RInv, NEW p \in Pausers, Begin(p) \/ Cancel(p) \/ Pause(p)
  PROVE  [Ledger!Next]_(Ledger!vars)
<1> USE DEF senderVars, storeVars
<1>1. UNCHANGED <<pc, fate>> /\ Stage' = Stage
  BY DEF Pause, Begin, Cancel, SendBarrier, BarrierRefused, Ready, LockSettings, Import,
     Read, Stage
<1>2. CASE \/ Begin(p) \/ Cancel(p) \/ SendBarrier(p) \/ BarrierRefused(p) \/ Ready(p)
           \/ LockSettings(p)
  BY <1>1, <1>2, LedgerStutter DEF Begin, Cancel, SendBarrier, BarrierRefused, Ready,
     LockSettings
<1>3. CASE Import(p)
  <2>1. UNCHANGED snapshot /\ (rows' \in Payloads \/ UNCHANGED rows)
    BY <1>3 DEF Import
  <2>2. Backups' = Backups
    BY <2>1 DEF Backups, Payloads, NoRows
  <2>3. CASE rows' \in Payloads
    <3>1. Ledger!Restore(rows')
      BY <1>1, <2>2 DEF Ledger!Restore
    <3> QED
      BY <2>3, <3>1 DEF Ledger!Next, Backups
  <2>4. CASE UNCHANGED rows
    BY <1>1, <2>1, <2>4, LedgerStutter
  <2> QED
    BY <2>1, <2>3, <2>4
<1>4. CASE Read(p)
  <2>1. CASE UNCHANGED snapshot
    BY <1>1, <1>4, <2>1, LedgerStutter DEF Read
  <2>2. CASE snapshot' = [snapshot EXCEPT ![p] = rows]
    <3>1. CASE p \in Exporters
      <4>1. snapshot[p] = NoRows
        BY <1>4, <3>1 DEF Read, RInv, SnapshotUnset
      <4>2. Payloads' = Payloads \cup {rows}
        BY <2>2, <3>1, <4>1 DEF Payloads, NoRows, RInv, IInv, TypeOK, Pausers
      <4>3. Ledger!Export
        BY <1>1, <1>4, <4>2 DEF Read, Ledger!Export, Backups
      <4> QED
        BY <4>3 DEF Ledger!Next
    <3>2. CASE p \notin Exporters
      <4>1. Payloads' = Payloads
        BY <2>2, <3>2 DEF Payloads, NoRows, RInv, IInv, TypeOK, Pausers
      <4> QED
        BY <1>1, <1>4, <4>1 DEF Read, Ledger!vars, Backups
    <3> QED
      BY <3>1, <3>2
  <2> QED
    BY <1>4, <2>1, <2>2 DEF Read
<1> QED
  BY <1>2, <1>3, <1>4 DEF Pause

\* A batch is pending until it is settled, and settling it changes its stage only.
LEMMA SettledStage ==
  ASSUME RInv, wpc = "writing", NEW outcome \in {"confirmed", "lost", "unknown"},
         BatchSettled(outcome)
  PROVE  /\ batch \in SUBSET Ledger!Pending
         /\ Ledger!Settle(batch, outcome)
<1>1. batch \subseteq Sent /\ batch \cap Settled = {} /\ batch \subseteq Events
  BY DEF RInv, IInv, Placement, InFlight, TypeOK
<1>2. \A e \in batch : Stage[e] = "pending"
  BY <1>1 DEF Stage, Sent, Settled
<1>3. Stage' = [e \in Events |-> IF e \in batch THEN outcome ELSE Stage[e]]
  BY DEF BatchSettled, Stage, senderVars
<1> QED
  BY <1>1, <1>2, <1>3 DEF Ledger!Pending, Ledger!Settle

\* The writer maps to Confirm, Lose, Doubt, Purge or nothing.
LEMMA RefinementWriter ==
  ASSUME RInv, Writer \/ FlushTick \/ RetentionTick \/ UpdateSettings
  PROVE  [Ledger!Next]_(Ledger!vars)
<1> USE DEF senderVars, pauserVars, storeVars
<1>1. UNCHANGED <<pc, snapshot>> /\ Backups' = Backups
  BY DEF Writer, Receive, TakeEvent, TakeBarrier, LeaveBarrier, DrainDone, PruneLock, Prune,
     AttemptCommits, AttemptUncertain, AttemptFails, AttemptsExhausted, BatchSettled,
     FlushTick, RetentionTick, UpdateSettings, Backups, Payloads, NoRows
<1>2. CASE \/ Receive \/ TakeEvent \/ TakeBarrier \/ LeaveBarrier \/ DrainDone \/ PruneLock
           \/ FlushTick \/ RetentionTick \/ AttemptFails
  <2>1. UNCHANGED <<rows, fate>>
    BY <1>2 DEF Receive, TakeEvent, TakeBarrier, LeaveBarrier, DrainDone, PruneLock,
       FlushTick, RetentionTick, AttemptFails
  <2> QED
    BY <1>1, <2>1, LedgerStutter DEF Stage
<1>3. CASE Prune \/ UpdateSettings
  <2>1. UNCHANGED fate /\ \E gone \in SUBSET Expired : Delete(gone)
    BY <1>3 DEF Prune, UpdateSettings
  <2>2. Stage' = Stage
    BY <1>1, <2>1 DEF Stage
  <2>3. \E gone \in SUBSET Events : Ledger!Purge(gone)
    BY <1>1, <2>1, <2>2, WriterAssumption DEF Delete, Ledger!Purge
  <2> QED
    BY <2>3 DEF Ledger!Next
<1>4. CASE AttemptCommits
  <2>1. batch \in SUBSET Ledger!Pending /\ Ledger!Settle(batch, "confirmed")
    BY <1>4, SettledStage DEF AttemptCommits
  <2>2. Ledger!Confirm(batch)
    BY <1>1, <1>4, <2>1 DEF AttemptCommits, Insert, Ledger!Confirm, Ledger!Store
  <2> QED
    BY <2>1, <2>2 DEF Ledger!Next
<1>5. CASE AttemptUncertain
  <2>1. batch \in SUBSET Ledger!Pending /\ Ledger!Settle(batch, "unknown")
    BY <1>5, SettledStage DEF AttemptUncertain
  <2>2. Ledger!Doubt(batch)
    BY <1>1, <1>5, <2>1 DEF AttemptUncertain, Insert, Ledger!Doubt, Ledger!Store
  <2> QED
    BY <2>1, <2>2 DEF Ledger!Next
<1>6. CASE AttemptsExhausted
  <2>1. batch \in SUBSET Ledger!Pending /\ Ledger!Settle(batch, "lost")
    BY <1>6, SettledStage DEF AttemptsExhausted
  <2>2. Ledger!Lose(batch)
    BY <1>1, <1>6, <2>1 DEF AttemptsExhausted, Ledger!Lose
  <2> QED
    BY <2>1, <2>2 DEF Ledger!Next
<1> QED
  BY <1>2, <1>3, <1>4, <1>5, <1>6 DEF Writer

\* Every step of the runtime is a step of the ledger or leaves it alone.
LEMMA RefinementStep ==
  ASSUME RInv, [Next]_vars
  PROVE  [Ledger!Next]_(Ledger!vars)
<1>1. CASE \E e \in Events : Malformed(e) \/ Call(e) \/ Deliver(e)
  BY <1>1, RefinementDeliver
<1>2. CASE \E p \in Pausers : Begin(p) \/ Cancel(p) \/ Pause(p)
  BY <1>2, RefinementPause
<1>3. CASE Writer \/ FlushTick \/ RetentionTick \/ UpdateSettings
  BY <1>3, RefinementWriter
<1>4. CASE Retire \/ Close \/ Finished \/ UNCHANGED vars
  <2>1. UNCHANGED <<pc, fate, rows, snapshot>>
    BY <1>4 DEF Retire, Close, SwapActive, CloseQueue, FinishClose, MoveCloser, Finished,
       vars, senderVars, pauserVars, storeVars
  <2> QED
    BY <2>1, LedgerStutter DEF Stage
<1> QED
  BY <1>1, <1>2, <1>3, <1>4 DEF Next
-----------------------------------------------------------------------------
\* The runtime keeps what the refinement rests on.
LEMMA RefinementInvariant == Spec => []RInv
<1>1. Init => SnapshotUnset
  BY DEF Init, SnapshotUnset
<1>2. IInv /\ SnapshotUnset /\ [Next]_vars => SnapshotUnset'
  BY SnapshotStep DEF IInv
<1>3. IInv /\ SnapshotUnset <=> RInv
  BY DEF RInv
<1> QED
  BY <1>1, <1>2, <1>3, WriterInvariant, PTL DEF Spec

\* Whatever the goroutines do, the runtime implements the ledger (plugin.go:117-365).
THEOREM RuntimeImplementsLedger == Spec => ImplementsLedger
<1>1. RInv /\ [Next]_vars => [Ledger!Next]_(Ledger!vars)
  BY RefinementStep
<1> QED
  BY <1>1, RefinementInit, RefinementInvariant, PTL DEF Spec, ImplementsLedger, Ledger!Spec
-----------------------------------------------------------------------------
(* What the ledger promises, and so the runtime.                           *)

\* The ledger's stages, rows and backups stay in their domains.
THEOREM LedgerTypeCorrect == Ledger!Spec => []Ledger!TypeOK
<1>1. Ledger!Init => Ledger!TypeOK
  BY DEF Ledger!Init, Ledger!TypeOK, Ledger!NoRows
<1>2. Ledger!TypeOK /\ [Ledger!Next]_(Ledger!vars) => Ledger!TypeOK'
  <2> SUFFICES ASSUME Ledger!TypeOK, [Ledger!Next]_(Ledger!vars)
               PROVE  Ledger!TypeOK'
    OBVIOUS
  <2> USE DEF Ledger!TypeOK
  <2>1. CASE \E e \in Events : Ledger!Reject(e) \/ Ledger!Admit(e)
    BY <2>1 DEF Ledger!Reject, Ledger!Admit
  <2>2. CASE \E S \in SUBSET Ledger!Pending : Ledger!Confirm(S) \/ Ledger!Lose(S) \/ Ledger!Doubt(S)
    BY <2>2 DEF Ledger!Confirm, Ledger!Lose, Ledger!Doubt, Ledger!Settle, Ledger!Store
  <2>3. CASE \E gone \in SUBSET Events : Ledger!Purge(gone)
    BY <2>3 DEF Ledger!Purge
  <2>4. CASE Ledger!Export
    BY <2>4 DEF Ledger!Export
  <2>5. CASE \E backup \in Backups : Ledger!Restore(backup)
    BY <2>5 DEF Ledger!Restore
  <2>6. CASE UNCHANGED Ledger!vars
    BY <2>6 DEF Ledger!vars
  <2> QED
    BY <2>1, <2>2, <2>3, <2>4, <2>5, <2>6 DEF Ledger!Next
<1> QED
  BY <1>1, <1>2, PTL DEF Ledger!Spec

\* A step that settles the pending events S keeps every backed set of rows backed:
\* none of those events had a row.
LEMMA SettledRowsStayBacked ==
  ASSUME Ledger!TypeOK, NEW S \in SUBSET Ledger!Pending, NEW outcome \in {"confirmed", "lost", "unknown"},
         Ledger!Settle(S, outcome), NEW r \in [Events -> Nat], Ledger!Backed(r)
  PROVE  Ledger!Backed(r)' /\ \A e \in S : r[e] = 0
BY DEF Ledger!TypeOK, Ledger!Settle, Ledger!Pending, Ledger!Backed

\* An event has at most one row, only once it was confirmed or is unknown, and so
\* has every set of rows a restore may bring back.
THEOREM LedgerAtMostOneRow == Ledger!Spec => []Ledger!AtMostOneRow
<1>1. Ledger!Init => Ledger!AtMostOneRow
  BY DEF Ledger!Init, Ledger!AtMostOneRow, Ledger!Backed, Ledger!NoRows
<1>2. Ledger!TypeOK /\ Ledger!AtMostOneRow /\ [Ledger!Next]_(Ledger!vars) => Ledger!AtMostOneRow'
  <2> SUFFICES ASSUME Ledger!TypeOK, Ledger!AtMostOneRow, [Ledger!Next]_(Ledger!vars)
               PROVE  Ledger!AtMostOneRow'
    OBVIOUS
  <2>1. ASSUME NEW e \in Events, Ledger!Reject(e) \/ Ledger!Admit(e)
        PROVE  Ledger!AtMostOneRow'
    BY <2>1 DEF Ledger!Reject, Ledger!Admit, Ledger!AtMostOneRow, Ledger!Backed, Ledger!TypeOK
  <2>2. ASSUME NEW S \in SUBSET Ledger!Pending, Ledger!Confirm(S) \/ Ledger!Lose(S) \/ Ledger!Doubt(S)
        PROVE  Ledger!AtMostOneRow'
    <3> USE DEF Ledger!AtMostOneRow, Ledger!TypeOK
    <3>1. CASE Ledger!Confirm(S)
      <4>1. Ledger!Backed(rows)'
        BY <3>1 DEF Ledger!Confirm, Ledger!Settle, Ledger!Store, Ledger!Pending, Ledger!Backed
      <4>2. \A b \in Backups : Ledger!Backed(b)'
        BY <3>1, SettledRowsStayBacked DEF Ledger!Confirm
      <4> QED
        BY <4>1, <4>2, <3>1 DEF Ledger!Confirm, Ledger!Backed
    <3>2. CASE Ledger!Lose(S)
      <4>1. Ledger!Backed(rows)' /\ \A b \in Backups : Ledger!Backed(b)'
        BY <3>2 DEF Ledger!Lose, Ledger!Settle, Ledger!Pending, Ledger!Backed
      <4> QED
        BY <4>1, <3>2 DEF Ledger!Lose, Ledger!Backed
    <3>3. CASE Ledger!Doubt(S)
      <4>1. Ledger!Backed(rows)' /\ \A b \in Backups : Ledger!Backed(b)'
        BY <3>3 DEF Ledger!Doubt, Ledger!Settle, Ledger!Store, Ledger!Pending, Ledger!Backed
      <4> QED
        BY <4>1, <3>3 DEF Ledger!Doubt, Ledger!Backed
    <3> QED
      BY <2>2, <3>1, <3>2, <3>3
  <2>3. ASSUME NEW gone \in SUBSET Events, Ledger!Purge(gone)
        PROVE  Ledger!AtMostOneRow'
    BY <2>3 DEF Ledger!Purge, Ledger!AtMostOneRow, Ledger!Backed, Ledger!TypeOK
  <2>4. CASE Ledger!Export
    BY <2>4 DEF Ledger!Export, Ledger!AtMostOneRow, Ledger!Backed, Ledger!TypeOK
  <2>5. ASSUME NEW backup \in Backups, Ledger!Restore(backup)
        PROVE  Ledger!AtMostOneRow'
    BY <2>5 DEF Ledger!Restore, Ledger!AtMostOneRow, Ledger!Backed, Ledger!TypeOK
  <2>6. CASE UNCHANGED Ledger!vars
    BY <2>6 DEF Ledger!vars, Ledger!AtMostOneRow, Ledger!Backed
  <2> QED
    BY <2>1, <2>2, <2>3, <2>4, <2>5, <2>6 DEF Ledger!Next
<1> QED
  BY <1>1, <1>2, LedgerTypeCorrect, PTL DEF Ledger!Spec

\* No retry, restore or cleanup gives an event a second row, or one that was counted
\* as lost a first (plugin.go:325-340).
THEOREM OutcomesCorrect == Spec => []HonestOutcomes
<1>1. Ledger!AtMostOneRow => HonestOutcomes
  <2> SUFFICES ASSUME Ledger!AtMostOneRow, NEW e \in Events
               PROVE  /\ rows[e] <= 1
                      /\ rows[e] = 1 => fate[e] \in {"confirmed", "unknown"}
    BY DEF HonestOutcomes
  <2>1. Stage[e] \in {"confirmed", "unknown"} => fate[e] \in {"confirmed", "unknown"}
    BY DEF Stage
  <2> QED
    BY <2>1 DEF Ledger!AtMostOneRow, Ledger!Backed
<1> QED
  BY <1>1, LedgerAtMostOneRow, RuntimeImplementsLedger, PTL DEF ImplementsLedger
=============================================================================
