------------------------ MODULE RuntimeHandoverProofs ------------------------
(***************************************************************************)
(* Who may use the database, for any number of runtimes, requests and      *)
(* restores.  Transit: runtimeTransitionMu is held by one configuration    *)
(* change or by one restore, of the runtime that is active.  Lives: a      *)
(* runtime that is not active is unopened, closed, or the one in the hands *)
(* of whoever holds that mutex.  Retention: what a cleanup read under      *)
(* settingsMu is still the configuration when it deletes, and that is what *)
(* was promised as long as there was one runtime only.                     *)
(***************************************************************************)
EXTENDS RuntimeHandover, TLAPS

InTransit == {"pausing", "paused", "importing"}

\* runtimeTransitionMu has one holder, and a restore has it for the active runtime.
Transit ==
    /\ cpc # "idle" => \A s \in Restores : rpc[s] \notin InTransit
    /\ \A s, t \in Restores : rpc[s] \in InTransit /\ rpc[t] \in InTransit => s = t
    /\ \A s \in Restores : rpc[s] \in InTransit => target[s] = active /\ active # 0

\* Runtimes are opened in the order of their numbers.
InOrder ==
    /\ \E n \in 1..(MaxRuntimes + 1) : Fresh = n..MaxRuntimes
    /\ cpc = "opening" => Fresh # {}

\* Whoever is neither active, unopened nor closed is being opened or closed right now, and a
\* writer lives from the opening of its runtime until it exits in closing.
Lives ==
    /\ active # 0 => rstate[active] = "open"
    /\ cpc \in {"loaded", "closing"} => moving \in Runtimes /\ moving # active
    /\ cpc = "loaded" => rstate[moving] = "open"
    /\ cpc = "closing" => rstate[moving] = "closing"
    /\ \A r \in Runtimes :
          /\ rstate[r] = "open" /\ r # active => cpc = "loaded" /\ moving = r
          /\ rstate[r] = "closing" => cpc = "closing" /\ moving = r
          /\ wpc[r] = "none" <=> rstate[r] = "none"
          /\ wpc[r] = "exited" => rstate[r] \in {"closing", "closed"}
          /\ rstate[r] = "closed" => wpc[r] = "exited"

\* A writer stands still for the restore that paused it.
Paused ==
    \A s \in Restores : rpc[s] \in {"paused", "importing"} => wpc[target[s]] = "paused"

\* A request is under way on a runtime that was opened, with a value.
Asked ==
    /\ \A q \in Requests : target[q] # 0 => rstate[target[q]] # "none"
    /\ \A u \in Updates : upc[u] # "idle" => target[u] # 0 /\ value[u] \in Days

\* settingsMu keeps what a cleanup works with; a promise is kept by the only runtime.
Retention ==
    /\ \A r \in Runtimes : wpc[r] = "pruning" =>
          /\ captured[r] = config[r]
          /\ \A u \in Updates : target[u] = r => upc[u] \notin Holding
    /\ promised # None =>
          \A r \in Runtimes : (\A q \in Runtimes \ {r} : rstate[q] = "none") =>
              rstate[r] # "none" /\ config[r] = promised

IInv == TypeOK /\ Transit /\ InOrder /\ Lives /\ Paused /\ Asked /\ Retention

\* The next runtime to open is the first of those that were not.
LEMMA NextFresh ==
  ASSUME InOrder, Fresh # {}
  PROVE  \E n \in Runtimes : Next1 = n /\ Fresh = n..MaxRuntimes
<1> USE HandoverAssumption
<1>1. PICK n \in 1..(MaxRuntimes + 1) : Fresh = n..MaxRuntimes
  BY DEF InOrder
<1>2. n \in Fresh /\ n \in Runtimes /\ \A s \in Fresh : n <= s
  BY <1>1 DEF Runtimes
<1>3. \A m \in Fresh : (\A s \in Fresh : m <= s) => m = n
  BY <1>1, <1>2 DEF Runtimes
<1> QED
  BY <1>1, <1>2, <1>3 DEF Next1

\* The writer's steps.
LEMMA WriterKeeps ==
  ASSUME IInv, NEW r \in Runtimes,
         Write(r) \/ CleanupDue(r) \/ Clean(r) \/ Exit(r)
  PROVE  IInv'
<1> USE HandoverAssumption DEF IInv, Goto, Holding
<1>1. CASE Write(r)
  <2>1. TypeOK'
    BY <1>1 DEF Write, configureVars, writerVars, requestVars, dataVars, TypeOK
  <2>2. Transit'
    BY <1>1 DEF Write, configureVars, writerVars, requestVars, dataVars, TypeOK, Transit
  <2>3. InOrder'
    BY <1>1 DEF Write, configureVars, writerVars, requestVars, dataVars, TypeOK, InOrder, Fresh
  <2>4. Lives'
    BY <1>1 DEF Write, configureVars, writerVars, requestVars, dataVars, TypeOK, Lives
  <2>5. Paused'
    BY <1>1 DEF Write, configureVars, writerVars, requestVars, dataVars, TypeOK, Paused
  <2>6. Asked'
    BY <1>1 DEF Write, configureVars, writerVars, requestVars, dataVars, TypeOK, Asked
  <2>7. Retention'
    BY <1>1 DEF Write, configureVars, writerVars, requestVars, dataVars, TypeOK, Retention
  <2> QED
    BY <2>1, <2>2, <2>3, <2>4, <2>5, <2>6, <2>7
<1>2. CASE CleanupDue(r)
  <2>1. TypeOK'
    BY <1>2 DEF CleanupDue, configureVars, writerVars, requestVars, dataVars, TypeOK
  <2>2. Transit'
    BY <1>2 DEF CleanupDue, configureVars, writerVars, requestVars, dataVars, TypeOK, Transit
  <2>3. InOrder'
    BY <1>2 DEF CleanupDue, configureVars, writerVars, requestVars, dataVars, TypeOK, InOrder, Fresh
  <2>4. Lives'
    BY <1>2 DEF CleanupDue, configureVars, writerVars, requestVars, dataVars, TypeOK, Lives
  <2>5. Paused'
    BY <1>2 DEF CleanupDue, configureVars, writerVars, requestVars, dataVars, TypeOK, Paused,
       Transit, Asked, InTransit, Requests
  <2>6. Asked'
    BY <1>2 DEF CleanupDue, configureVars, writerVars, requestVars, dataVars, TypeOK, Asked
  <2>7. Retention'
    BY <1>2 DEF CleanupDue, configureVars, writerVars, requestVars, dataVars, TypeOK, Retention
  <2> QED
    BY <2>1, <2>2, <2>3, <2>4, <2>5, <2>6, <2>7
<1>3. CASE CleanupLock(r)
  <2>1. TypeOK'
    BY <1>3 DEF CleanupLock, configureVars, writerVars, requestVars, dataVars, SettingsFree, TypeOK
  <2>2. Transit'
    BY <1>3 DEF CleanupLock, configureVars, writerVars, requestVars, dataVars, SettingsFree, TypeOK,
       Transit
  <2>3. InOrder'
    BY <1>3 DEF CleanupLock, configureVars, writerVars, requestVars, dataVars, SettingsFree, TypeOK,
       InOrder, Fresh
  <2>4. Lives'
    BY <1>3 DEF CleanupLock, configureVars, writerVars, requestVars, dataVars, SettingsFree, TypeOK,
       Lives
  <2>5. Paused'
    BY <1>3 DEF CleanupLock, configureVars, writerVars, requestVars, dataVars, SettingsFree, TypeOK,
       Paused, Transit, Asked, InTransit, Requests
  <2>6. Asked'
    BY <1>3 DEF CleanupLock, configureVars, writerVars, requestVars, dataVars, SettingsFree, TypeOK,
       Asked
  <2>7. Retention'
    BY <1>3 DEF CleanupLock, configureVars, writerVars, requestVars, dataVars, SettingsFree, TypeOK,
       Retention
  <2> QED
    BY <2>1, <2>2, <2>3, <2>4, <2>5, <2>6, <2>7
<1>4. CASE Cleanup(r)
  <2>1. TypeOK'
    BY <1>4 DEF Cleanup, configureVars, writerVars, requestVars, dataVars, Younger, TypeOK
  <2>2. Transit'
    BY <1>4 DEF Cleanup, configureVars, writerVars, requestVars, dataVars, Younger, TypeOK, Transit
  <2>3. InOrder'
    BY <1>4 DEF Cleanup, configureVars, writerVars, requestVars, dataVars, Younger, TypeOK, InOrder,
       Fresh
  <2>4. Lives'
    BY <1>4 DEF Cleanup, configureVars, writerVars, requestVars, dataVars, Younger, TypeOK, Lives
  <2>5. Paused'
    BY <1>4 DEF Cleanup, configureVars, writerVars, requestVars, dataVars, Younger, TypeOK, Paused,
       Transit, Asked, InTransit, Requests
  <2>6. Asked'
    BY <1>4 DEF Cleanup, configureVars, writerVars, requestVars, dataVars, Younger, TypeOK, Asked
  <2>7. Retention'
    BY <1>4 DEF Cleanup, configureVars, writerVars, requestVars, dataVars, Younger, TypeOK,
       Retention
  <2> QED
    BY <2>1, <2>2, <2>3, <2>4, <2>5, <2>6, <2>7
<1>5. CASE Exit(r)
  <2>1. TypeOK'
    BY <1>5 DEF Exit, configureVars, writerVars, requestVars, dataVars, TypeOK
  <2>2. Transit'
    BY <1>5 DEF Exit, configureVars, writerVars, requestVars, dataVars, TypeOK, Transit
  <2>3. InOrder'
    BY <1>5 DEF Exit, configureVars, writerVars, requestVars, dataVars, TypeOK, InOrder, Fresh
  <2>4. Lives'
    BY <1>5 DEF Exit, configureVars, writerVars, requestVars, dataVars, TypeOK, Lives
  <2>5. Paused'
    BY <1>5 DEF Exit, configureVars, writerVars, requestVars, dataVars, TypeOK, Paused, Transit,
       Asked, InTransit, Requests
  <2>6. Asked'
    BY <1>5 DEF Exit, configureVars, writerVars, requestVars, dataVars, TypeOK, Asked
  <2>7. Retention'
    BY <1>5 DEF Exit, configureVars, writerVars, requestVars, dataVars, TypeOK, Retention
  <2> QED
    BY <2>1, <2>2, <2>3, <2>4, <2>5, <2>6, <2>7
<1> QED
  BY <1>1, <1>2, <1>3, <1>4, <1>5 DEF Clean

\* The steps of a settings request, and the arrival of any request.
LEMMA UpdateKeeps ==
  ASSUME IInv, (\E q \in Requests : Arrive(q)) \/ \E u \in Updates : Update(u)
  PROVE  IInv'
<1> USE HandoverAssumption DEF IInv, Goto, Holding
<1>1. CASE \E q \in Requests : Arrive(q)
  <2>1. TypeOK'
    BY <1>1 DEF Arrive, configureVars, writerVars, requestVars, dataVars, Requests, Lives, TypeOK
  <2>2. Transit'
    BY <1>1 DEF Arrive, configureVars, writerVars, requestVars, dataVars, Requests, Lives, TypeOK,
       Transit
  <2>3. InOrder'
    BY <1>1 DEF Arrive, configureVars, writerVars, requestVars, dataVars, Requests, Lives, TypeOK,
       InOrder, Fresh
  <2>4. Lives'
    BY <1>1 DEF Arrive, configureVars, writerVars, requestVars, dataVars, Requests, Lives, TypeOK
  <2>5. Paused'
    BY <1>1 DEF Arrive, configureVars, writerVars, requestVars, dataVars, Requests, Lives, TypeOK,
       Transit, InTransit, Paused
  <2>6. Asked'
    BY <1>1 DEF Arrive, configureVars, writerVars, requestVars, dataVars, Requests, Lives, TypeOK,
       Asked
  <2>7. Retention'
    BY <1>1 DEF Arrive, configureVars, writerVars, requestVars, dataVars, Requests, Lives, TypeOK,
       Asked, Retention
  <2> QED
    BY <2>1, <2>2, <2>3, <2>4, <2>5, <2>6, <2>7
<1>2. CASE \E u \in Updates : UpdateLock(u)
  <2>1. TypeOK'
    BY <1>2 DEF UpdateLock, configureVars, writerVars, requestVars, dataVars, SettingsFree,
       Requests, TypeOK
  <2>2. Transit'
    BY <1>2 DEF UpdateLock, configureVars, writerVars, requestVars, dataVars, SettingsFree,
       Requests, TypeOK, Transit
  <2>3. InOrder'
    BY <1>2 DEF UpdateLock, configureVars, writerVars, requestVars, dataVars, SettingsFree,
       Requests, TypeOK, InOrder, Fresh
  <2>4. Lives'
    BY <1>2 DEF UpdateLock, configureVars, writerVars, requestVars, dataVars, SettingsFree,
       Requests, TypeOK, Lives
  <2>5. Paused'
    BY <1>2 DEF UpdateLock, configureVars, writerVars, requestVars, dataVars, SettingsFree,
       Requests, TypeOK, Paused
  <2>6. Asked'
    BY <1>2 DEF UpdateLock, configureVars, writerVars, requestVars, dataVars, SettingsFree,
       Requests, TypeOK, Asked
  <2>7. Retention'
    BY <1>2 DEF UpdateLock, configureVars, writerVars, requestVars, dataVars, SettingsFree,
       Requests, TypeOK, Retention
  <2> QED
    BY <2>1, <2>2, <2>3, <2>4, <2>5, <2>6, <2>7
<1>3. CASE \E u \in Updates : UpdateCommit(u)
  <2>1. TypeOK'
    BY <1>3 DEF UpdateCommit, configureVars, writerVars, requestVars, dataVars, Younger, Requests,
       Asked, TypeOK
  <2>2. Transit'
    BY <1>3 DEF UpdateCommit, configureVars, writerVars, requestVars, dataVars, Younger, Requests,
       Asked, TypeOK, Transit
  <2>3. InOrder'
    BY <1>3 DEF UpdateCommit, configureVars, writerVars, requestVars, dataVars, Younger, Requests,
       Asked, TypeOK, InOrder, Fresh
  <2>4. Lives'
    BY <1>3 DEF UpdateCommit, configureVars, writerVars, requestVars, dataVars, Younger, Requests,
       Asked, TypeOK, Lives
  <2>5. Paused'
    BY <1>3 DEF UpdateCommit, configureVars, writerVars, requestVars, dataVars, Younger, Requests,
       Asked, TypeOK, Paused
  <2>6. Asked'
    BY <1>3 DEF UpdateCommit, configureVars, writerVars, requestVars, dataVars, Younger, Requests,
       Asked, TypeOK
  <2>7. Retention'
    BY <1>3 DEF UpdateCommit, configureVars, writerVars, requestVars, dataVars, Younger, Requests,
       Asked, TypeOK, Retention
  <2> QED
    BY <2>1, <2>2, <2>3, <2>4, <2>5, <2>6, <2>7
<1>4. CASE \E u \in Updates : UpdateFails(u)
  <2>1. TypeOK'
    BY <1>4 DEF UpdateFails, configureVars, writerVars, requestVars, dataVars, Younger, Requests,
       Asked, TypeOK
  <2>2. Transit'
    BY <1>4 DEF UpdateFails, configureVars, writerVars, requestVars, dataVars, Younger, Requests,
       Asked, TypeOK, Transit
  <2>3. InOrder'
    BY <1>4 DEF UpdateFails, configureVars, writerVars, requestVars, dataVars, Younger, Requests,
       Asked, TypeOK, InOrder, Fresh
  <2>4. Lives'
    BY <1>4 DEF UpdateFails, configureVars, writerVars, requestVars, dataVars, Younger, Requests,
       Asked, TypeOK, Lives
  <2>5. Paused'
    BY <1>4 DEF UpdateFails, configureVars, writerVars, requestVars, dataVars, Younger, Requests,
       Asked, TypeOK, Paused
  <2>6. Asked'
    BY <1>4 DEF UpdateFails, configureVars, writerVars, requestVars, dataVars, Younger, Requests,
       Asked, TypeOK
  <2>7. Retention'
    BY <1>4 DEF UpdateFails, configureVars, writerVars, requestVars, dataVars, Younger, Requests,
       Asked, TypeOK, Retention
  <2> QED
    BY <2>1, <2>2, <2>3, <2>4, <2>5, <2>6, <2>7
<1>5. CASE \E u \in Updates : UpdatePublish(u)
  <2>1. TypeOK'
    BY <1>5 DEF UpdatePublish, configureVars, writerVars, requestVars, dataVars, Requests, Asked,
       TypeOK
  <2>2. Transit'
    BY <1>5 DEF UpdatePublish, configureVars, writerVars, requestVars, dataVars, Requests, Asked,
       TypeOK, Transit
  <2>3. InOrder'
    BY <1>5 DEF UpdatePublish, configureVars, writerVars, requestVars, dataVars, Requests, Asked,
       TypeOK, InOrder, Fresh
  <2>4. Lives'
    BY <1>5 DEF UpdatePublish, configureVars, writerVars, requestVars, dataVars, Requests, Asked,
       TypeOK, Lives
  <2>5. Paused'
    BY <1>5 DEF UpdatePublish, configureVars, writerVars, requestVars, dataVars, Requests, Asked,
       TypeOK, Paused
  <2>6. Asked'
    BY <1>5 DEF UpdatePublish, configureVars, writerVars, requestVars, dataVars, Requests, Asked,
       TypeOK
  <2>7. Retention'
    BY <1>5 DEF UpdatePublish, configureVars, writerVars, requestVars, dataVars, Requests, Asked,
       TypeOK, Retention
  <2> QED
    BY <2>1, <2>2, <2>3, <2>4, <2>5, <2>6, <2>7
<1>6. CASE \E u \in Updates : UpdateBegin(u)
  <2>1. TypeOK'
    BY <1>6 DEF UpdateBegin, configureVars, writerVars, requestVars, dataVars, Requests,
       Asked, TypeOK
  <2>2. Transit'
    BY <1>6 DEF UpdateBegin, configureVars, writerVars, requestVars, dataVars, Requests,
       Asked, TypeOK, Transit
  <2>3. InOrder'
    BY <1>6 DEF UpdateBegin, configureVars, writerVars, requestVars, dataVars, Requests,
       Asked, TypeOK, InOrder, Fresh
  <2>4. Lives'
    BY <1>6 DEF UpdateBegin, configureVars, writerVars, requestVars, dataVars, Requests,
       Asked, TypeOK, Lives
  <2>5. Paused'
    BY <1>6 DEF UpdateBegin, configureVars, writerVars, requestVars, dataVars, Requests,
       Asked, TypeOK, Paused
  <2>6. Asked'
    BY <1>6 DEF UpdateBegin, configureVars, writerVars, requestVars, dataVars, Requests,
       Asked, TypeOK
  <2>7. Retention'
    BY <1>6 DEF UpdateBegin, configureVars, writerVars, requestVars, dataVars, Requests,
       Asked, TypeOK, Retention
  <2> QED
    BY <2>1, <2>2, <2>3, <2>4, <2>5, <2>6, <2>7
<1> QED
  BY <1>1, <1>2, <1>3, <1>4, <1>5, <1>6 DEF Update

\* The steps of a restore.
LEMMA RestoreKeeps ==
  ASSUME IInv, NEW s \in Restores, Restore(s)
  PROVE  IInv'
<1> USE HandoverAssumption DEF IInv, Goto, Holding
<1>1. CASE RestoreBegin(s)
  <2>1. TypeOK'
    BY <1>1 DEF RestoreBegin, configureVars, writerVars, requestVars, dataVars, Requests, Asked,
       InTransit, TransitionFree, TypeOK
  <2>2. Transit'
    BY <1>1 DEF RestoreBegin, configureVars, writerVars, requestVars, dataVars, Requests, Asked,
       InTransit, TransitionFree, TypeOK, Transit
  <2>3. InOrder'
    BY <1>1 DEF RestoreBegin, configureVars, writerVars, requestVars, dataVars, Requests, Asked,
       InTransit, TransitionFree, TypeOK, InOrder, Fresh
  <2>4. Lives'
    BY <1>1 DEF RestoreBegin, configureVars, writerVars, requestVars, dataVars, Requests, Asked,
       InTransit, TransitionFree, TypeOK, Lives
  <2>5. Paused'
    BY <1>1 DEF RestoreBegin, configureVars, writerVars, requestVars, dataVars, Requests, Asked,
       InTransit, TransitionFree, TypeOK, Paused
  <2>6. Asked'
    BY <1>1 DEF RestoreBegin, configureVars, writerVars, requestVars, dataVars, Requests, Asked,
       InTransit, TransitionFree, TypeOK
  <2>7. Retention'
    BY <1>1 DEF RestoreBegin, configureVars, writerVars, requestVars, dataVars, Requests, Asked,
       InTransit, TransitionFree, TypeOK, Retention
  <2> QED
    BY <2>1, <2>2, <2>3, <2>4, <2>5, <2>6, <2>7
<1>2. CASE RestorePause(s)
  <2>1. TypeOK'
    BY <1>2 DEF RestorePause, configureVars, writerVars, requestVars, dataVars, Requests, Asked,
       InTransit, TypeOK
  <2>2. Transit'
    BY <1>2 DEF RestorePause, configureVars, writerVars, requestVars, dataVars, Requests, Asked,
       InTransit, TypeOK, Transit
  <2>3. InOrder'
    BY <1>2 DEF RestorePause, configureVars, writerVars, requestVars, dataVars, Requests, Asked,
       InTransit, TypeOK, InOrder, Fresh
  <2>4. Lives'
    BY <1>2 DEF RestorePause, configureVars, writerVars, requestVars, dataVars, Requests, Asked,
       InTransit, TypeOK, Lives
  <2>5. Paused'
    BY <1>2 DEF RestorePause, configureVars, writerVars, requestVars, dataVars, Requests, Asked,
       InTransit, TypeOK, Transit, Paused
  <2>6. Asked'
    BY <1>2 DEF RestorePause, configureVars, writerVars, requestVars, dataVars, Requests, Asked,
       InTransit, TypeOK
  <2>7. Retention'
    BY <1>2 DEF RestorePause, configureVars, writerVars, requestVars, dataVars, Requests, Asked,
       InTransit, TypeOK, Retention
  <2> QED
    BY <2>1, <2>2, <2>3, <2>4, <2>5, <2>6, <2>7
<1>3. CASE RestoreLock(s)
  <2>1. TypeOK'
    BY <1>3 DEF RestoreLock, configureVars, writerVars, requestVars, dataVars, Requests, Asked,
       InTransit, SettingsFree, TypeOK
  <2>2. Transit'
    BY <1>3 DEF RestoreLock, configureVars, writerVars, requestVars, dataVars, Requests, Asked,
       InTransit, SettingsFree, TypeOK, Transit
  <2>3. InOrder'
    BY <1>3 DEF RestoreLock, configureVars, writerVars, requestVars, dataVars, Requests, Asked,
       InTransit, SettingsFree, TypeOK, InOrder, Fresh
  <2>4. Lives'
    BY <1>3 DEF RestoreLock, configureVars, writerVars, requestVars, dataVars, Requests, Asked,
       InTransit, SettingsFree, TypeOK, Lives
  <2>5. Paused'
    BY <1>3 DEF RestoreLock, configureVars, writerVars, requestVars, dataVars, Requests, Asked,
       InTransit, SettingsFree, TypeOK, Paused
  <2>6. Asked'
    BY <1>3 DEF RestoreLock, configureVars, writerVars, requestVars, dataVars, Requests, Asked,
       InTransit, SettingsFree, TypeOK
  <2>7. Retention'
    BY <1>3 DEF RestoreLock, configureVars, writerVars, requestVars, dataVars, Requests, Asked,
       InTransit, SettingsFree, TypeOK, Retention
  <2> QED
    BY <2>1, <2>2, <2>3, <2>4, <2>5, <2>6, <2>7
<1>4. CASE RestoreImport(s)
  <2>1. TypeOK'
    BY <1>4 DEF RestoreImport, configureVars, writerVars, requestVars, dataVars, Requests, Asked,
       InTransit, TypeOK
  <2>2. Transit'
    BY <1>4 DEF RestoreImport, configureVars, writerVars, requestVars, dataVars, Requests, Asked,
       InTransit, TypeOK, Transit
  <2>3. InOrder'
    BY <1>4 DEF RestoreImport, configureVars, writerVars, requestVars, dataVars, Requests, Asked,
       InTransit, TypeOK, InOrder, Fresh
  <2>4. Lives'
    BY <1>4 DEF RestoreImport, configureVars, writerVars, requestVars, dataVars, Requests, Asked,
       InTransit, TypeOK, Transit, Paused, Lives
  <2>5. Paused'
    BY <1>4 DEF RestoreImport, configureVars, writerVars, requestVars, dataVars, Requests, Asked,
       InTransit, TypeOK, Transit, Paused
  <2>6. Asked'
    BY <1>4 DEF RestoreImport, configureVars, writerVars, requestVars, dataVars, Requests, Asked,
       InTransit, TypeOK
  <2>7. Retention'
    BY <1>4 DEF RestoreImport, configureVars, writerVars, requestVars, dataVars, Requests, Asked,
       InTransit, TypeOK, Retention
  <2> QED
    BY <2>1, <2>2, <2>3, <2>4, <2>5, <2>6, <2>7
<1> QED
  BY <1>1, <1>2, <1>3, <1>4 DEF Restore

\* The steps of configureRuntime and shutdownRuntime.
LEMMA HandoverKeeps ==
  ASSUME IInv, Configure \/ Shutdown \/ Transition
  PROVE  IInv'
<1> USE HandoverAssumption DEF IInv, Goto, Holding
<1>1. CASE Configure
  <2>1. TypeOK'
    BY <1>1 DEF Configure, configureVars, writerVars, requestVars, dataVars, TransitionFree,
       InTransit, TypeOK
  <2>2. Transit'
    BY <1>1 DEF Configure, configureVars, writerVars, requestVars, dataVars, TransitionFree,
       InTransit, TypeOK, Transit
  <2>3. InOrder'
    BY <1>1 DEF Configure, configureVars, writerVars, requestVars, dataVars, TransitionFree,
       InTransit, TypeOK, InOrder, Fresh
  <2>4. Lives'
    BY <1>1 DEF Configure, configureVars, writerVars, requestVars, dataVars, TransitionFree,
       InTransit, TypeOK, Lives
  <2>5. Paused'
    BY <1>1 DEF Configure, configureVars, writerVars, requestVars, dataVars, TransitionFree,
       InTransit, TypeOK, Paused
  <2>6. Asked'
    BY <1>1 DEF Configure, configureVars, writerVars, requestVars, dataVars, TransitionFree,
       InTransit, TypeOK, Asked
  <2>7. Retention'
    BY <1>1 DEF Configure, configureVars, writerVars, requestVars, dataVars, TransitionFree,
       InTransit, TypeOK, Retention
  <2> QED
    BY <2>1, <2>2, <2>3, <2>4, <2>5, <2>6, <2>7
<1>2. CASE OpenFails
  <2>1. TypeOK'
    BY <1>2 DEF OpenFails, configureVars, writerVars, requestVars, dataVars, TypeOK
  <2>2. Transit'
    BY <1>2 DEF OpenFails, configureVars, writerVars, requestVars, dataVars, TypeOK, Transit
  <2>3. InOrder'
    BY <1>2 DEF OpenFails, configureVars, writerVars, requestVars, dataVars, TypeOK, InOrder, Fresh
  <2>4. Lives'
    BY <1>2 DEF OpenFails, configureVars, writerVars, requestVars, dataVars, TypeOK, Lives
  <2>5. Paused'
    BY <1>2 DEF OpenFails, configureVars, writerVars, requestVars, dataVars, TypeOK, Paused
  <2>6. Asked'
    BY <1>2 DEF OpenFails, configureVars, writerVars, requestVars, dataVars, TypeOK, Asked
  <2>7. Retention'
    BY <1>2 DEF OpenFails, configureVars, writerVars, requestVars, dataVars, TypeOK, Retention
  <2> QED
    BY <2>1, <2>2, <2>3, <2>4, <2>5, <2>6, <2>7
<1>3. CASE LoadSettings
  <2>1. PICK n \in Runtimes : Next1 = n /\ Fresh = n..MaxRuntimes
    BY <1>3, NextFresh DEF LoadSettings, InOrder
  <2>2. /\ cpc = "opening" /\ cpc' = "loaded" /\ moving' = n
        /\ rstate' = [rstate EXCEPT ![n] = "open"] /\ wpc' = [wpc EXCEPT ![n] = "prune"]
        /\ \E d \in Days : config' = [config EXCEPT ![n] = d]
        /\ UNCHANGED <<active, captured, requestVars, dataVars>>
    <3>1. UNCHANGED config => config' = [config EXCEPT ![n] = config[n]]
      BY DEF TypeOK
    <3>2. config[n] \in Days /\ (stored # None => stored \in Days)
      BY DEF TypeOK
    <3> QED
      BY <1>3, <2>1, <3>1, <3>2 DEF LoadSettings
  <2>3. rstate[n] = "none" /\ wpc[n] = "none"
    <3>1. n \in Fresh
      BY <2>1 DEF Runtimes
    <3> QED
      BY <3>1 DEF Fresh, Lives
  <2>4. TypeOK'
    BY <2>2 DEF requestVars, dataVars, TypeOK
  <2>5. Transit'
    BY <2>2 DEF requestVars, Transit
  <2>6. InOrder'
    <3>1. Fresh' = Fresh \ {n}
      BY <2>2 DEF Fresh, TypeOK
    <3>2. Fresh' = (n + 1)..MaxRuntimes /\ n + 1 \in 1..(MaxRuntimes + 1)
      BY <2>1, <3>1 DEF Runtimes
    <3> QED
      BY <2>2, <3>2 DEF InOrder
  <2>7. Lives'
    <3>1. /\ rstate \in [Runtimes -> {"none", "open", "closing", "closed"}] /\ active # n
          /\ wpc \in [Runtimes -> {"none", "prune", "pruning", "select", "paused", "exited"}]
          /\ active # 0 => active \in Runtimes
      BY <2>3 DEF TypeOK, Lives, Runtimes
    <3>2. \A r \in Runtimes \ {n} : rstate'[r] = rstate[r] /\ wpc'[r] = wpc[r]
      BY <2>2, <3>1
    <3>3. rstate'[n] = "open" /\ wpc'[n] = "prune"
      BY <2>2, <3>1
    <3> QED
      BY <2>2, <3>1, <3>2, <3>3 DEF Lives
  <2>8. Paused'
    BY <2>2, <2>3 DEF requestVars, TypeOK, Transit, InTransit, Paused
  <2>9. Asked'
    BY <2>2 DEF requestVars, TypeOK, Asked
  <2>10. Retention'
    BY <2>2, <2>3 DEF requestVars, dataVars, TypeOK, Retention
  <2> QED
    BY <2>4, <2>5, <2>6, <2>7, <2>8, <2>9, <2>10
<1>4. CASE Swap
  <2>1. TypeOK'
    BY <1>4 DEF Swap, configureVars, writerVars, requestVars, dataVars, Retire, Transit, InTransit,
       Lives, TypeOK
  <2>2. Transit'
    BY <1>4 DEF Swap, configureVars, writerVars, requestVars, dataVars, Retire, Transit, InTransit,
       Lives, TypeOK
  <2>3. InOrder'
    BY <1>4 DEF Swap, configureVars, writerVars, requestVars, dataVars, Retire, Transit, InTransit,
       Lives, TypeOK, InOrder, Fresh
  <2>4. Lives'
    <3>1. /\ cpc = "loaded" /\ moving \in Runtimes /\ moving # active /\ active' = moving
          /\ rstate[moving] = "open" /\ UNCHANGED wpc /\ 0 \notin Runtimes
      BY <1>4 DEF Swap, writerVars, Lives, Runtimes
    <3>2. CASE active = 0
      BY <1>4, <3>1, <3>2 DEF Swap, Retire, TypeOK, Lives
    <3>3. CASE active # 0
      <4>1. /\ cpc' = "closing" /\ moving' = active
            /\ rstate' = [rstate EXCEPT ![active] = "closing"]
        BY <1>4, <3>3 DEF Swap, Retire
      <4> QED
        BY <3>1, <3>3, <4>1 DEF TypeOK, Lives
    <3> QED
      BY <3>2, <3>3
  <2>5. Paused'
    BY <1>4 DEF Swap, configureVars, writerVars, requestVars, dataVars, Retire, Transit, InTransit,
       Lives, TypeOK, Paused
  <2>6. Asked'
    BY <1>4 DEF Swap, configureVars, writerVars, requestVars, dataVars, Retire, Transit, InTransit,
       Lives, TypeOK, Asked
  <2>7. Retention'
    BY <1>4 DEF Swap, configureVars, writerVars, requestVars, dataVars, Retire, Transit, InTransit,
       Lives, TypeOK, Retention
  <2> QED
    BY <2>1, <2>2, <2>3, <2>4, <2>5, <2>6, <2>7
<1>5. CASE Shutdown
  <2>1. TypeOK'
    BY <1>5 DEF Shutdown, configureVars, writerVars, requestVars, dataVars, Retire, TransitionFree,
       InTransit, Lives, TypeOK
  <2>2. Transit'
    BY <1>5 DEF Shutdown, configureVars, writerVars, requestVars, dataVars, Retire, TransitionFree,
       InTransit, Lives, TypeOK, Transit
  <2>3. InOrder'
    BY <1>5 DEF Shutdown, configureVars, writerVars, requestVars, dataVars, Retire, TransitionFree,
       InTransit, Lives, TypeOK, InOrder, Fresh
  <2>4. Lives'
    BY <1>5 DEF Shutdown, configureVars, writerVars, requestVars, dataVars, Retire, TransitionFree,
       InTransit, Lives, TypeOK
  <2>5. Paused'
    BY <1>5 DEF Shutdown, configureVars, writerVars, requestVars, dataVars, Retire, TransitionFree,
       InTransit, Lives, TypeOK, Paused
  <2>6. Asked'
    BY <1>5 DEF Shutdown, configureVars, writerVars, requestVars, dataVars, Retire, TransitionFree,
       InTransit, Lives, TypeOK, Asked
  <2>7. Retention'
    BY <1>5 DEF Shutdown, configureVars, writerVars, requestVars, dataVars, Retire, TransitionFree,
       InTransit, Lives, TypeOK, Retention
  <2> QED
    BY <2>1, <2>2, <2>3, <2>4, <2>5, <2>6, <2>7
<1>6. CASE CloseDone
  <2>1. TypeOK'
    BY <1>6 DEF CloseDone, configureVars, writerVars, requestVars, dataVars, Lives, TypeOK
  <2>2. Transit'
    BY <1>6 DEF CloseDone, configureVars, writerVars, requestVars, dataVars, Lives, TypeOK, Transit
  <2>3. InOrder'
    BY <1>6 DEF CloseDone, configureVars, writerVars, requestVars, dataVars, Lives, TypeOK, InOrder,
       Fresh
  <2>4. Lives'
    BY <1>6 DEF CloseDone, configureVars, writerVars, requestVars, dataVars, Lives, TypeOK
  <2>5. Paused'
    BY <1>6 DEF CloseDone, configureVars, writerVars, requestVars, dataVars, Lives, TypeOK, Paused
  <2>6. Asked'
    BY <1>6 DEF CloseDone, configureVars, writerVars, requestVars, dataVars, Lives, TypeOK, Asked
  <2>7. Retention'
    BY <1>6 DEF CloseDone, configureVars, writerVars, requestVars, dataVars, Lives, TypeOK,
       Retention
  <2> QED
    BY <2>1, <2>2, <2>3, <2>4, <2>5, <2>6, <2>7
<1> QED
  BY <1>1, <1>2, <1>3, <1>4, <1>5, <1>6 DEF Transition

\* The invariant of the hand-over.
THEOREM HandoverInvariant == Spec => []IInv
<1>1. Init => IInv
  <2> SUFFICES ASSUME Init PROVE IInv
    OBVIOUS
  <2> USE HandoverAssumption DEF Init
  <2>1. TypeOK
    BY DEF TypeOK, Ages
  <2>2. Fresh = 1..MaxRuntimes /\ 1 \in 1..(MaxRuntimes + 1)
    BY DEF Fresh, Runtimes
  <2>3. InOrder
    BY <2>2 DEF InOrder
  <2>4. Transit /\ Lives /\ Paused
    BY DEF Transit, InTransit, Lives, Paused
  <2>5. Asked /\ Retention
    BY DEF Asked, Retention, Requests
  <2> QED
    BY <2>1, <2>3, <2>4, <2>5 DEF IInv
<1>2. IInv /\ [Next]_vars => IInv'
  <2> SUFFICES ASSUME IInv, [Next]_vars PROVE IInv'
    OBVIOUS
  <2>1. CASE UNCHANGED vars
    BY <2>1 DEF vars, configureVars, writerVars, requestVars, dataVars, IInv, TypeOK, Transit,
       InOrder, Fresh, Lives, Paused, Asked, Retention
  <2> QED
    BY <2>1, HandoverKeeps, WriterKeeps, UpdateKeeps, RestoreKeeps DEF Next
<1> QED
  BY <1>1, <1>2, PTL DEF Spec

\* Runtimes, writers and requests stay in their domains.
THEOREM TypeCorrect == Spec => []TypeOK
<1>1. IInv => TypeOK
  BY DEF IInv
<1> QED
  BY <1>1, HandoverInvariant, PTL

\* No writer works beside a restore, and between hand-overs the active runtime is the only
\* live one (plugin.go:61-76, 105-115, 258-278).
THEOREM ExclusiveCorrect == Spec => []DatabaseIsExclusive
<1>1. IInv => RestoreIsAlone
  <2> SUFFICES ASSUME IInv, NEW s \in Restores, rpc[s] \in {"paused", "importing"}
               PROVE  /\ wpc[target[s]] = "paused"
                      /\ \A r \in Runtimes \ {target[s]} : wpc[r] \in {"none", "exited"}
    BY DEF RestoreIsAlone
  <2>1. cpc = "idle" /\ target[s] = active
    BY DEF IInv, Transit, InTransit
  <2>2. \A r \in Runtimes \ {active} : rstate[r] \in {"none", "closed"}
    BY <2>1 DEF IInv, TypeOK, Lives
  <2> QED
    BY <2>1, <2>2 DEF IInv, Lives, Paused
<1>2. IInv => OneLiveRuntime
  <2> SUFFICES ASSUME IInv, cpc = "idle", NEW r \in Runtimes
               PROVE  IF r = active
                      THEN rstate[r] = "open" /\ wpc[r] \notin {"none", "exited"}
                      ELSE rstate[r] \in {"none", "closed"} /\ wpc[r] \in {"none", "exited"}
    BY DEF OneLiveRuntime
  <2>1. CASE r = active
    BY <2>1, HandoverAssumption DEF IInv, Lives, Runtimes
  <2>2. CASE r # active
    BY <2>2 DEF IInv, TypeOK, Lives
  <2> QED
    BY <2>1, <2>2
<1> QED
  BY <1>1, <1>2, HandoverInvariant, PTL DEF DatabaseIsExclusive

\* As long as one runtime only was ever opened, no cleanup deletes a row younger than the
\* retention last confirmed (README.md:91).
THEOREM RetentionCorrect == Spec => KeepsRowsWithinOneRuntime
<1> DEFINE Kept ==
      \A r \in Runtimes :
          Cleanup(r) /\ promised # None /\ (\A q \in Runtimes \ {r} : rstate[q] = "none") =>
              \A a \in rows \ rows' : a >= promised
<1>1. ASSUME IInv PROVE Kept
  <2> SUFFICES ASSUME NEW r \in Runtimes, Cleanup(r), promised # None,
                      \A q \in Runtimes \ {r} : rstate[q] = "none",
                      NEW a \in rows \ rows'
               PROVE  a >= promised
    OBVIOUS
  <2>1. captured[r] = promised
    BY <1>1 DEF Cleanup, IInv, Retention
  <2>2. a \in Nat /\ promised \in Nat
    BY <1>1, HandoverAssumption DEF IInv, TypeOK, Ages
  <2>3. ~(a < captured[r])
    BY DEF Cleanup, Younger
  <2> QED
    BY <2>1, <2>2, <2>3
<1>2. IInv => [Kept]_vars
  BY <1>1
<1>3. [][Kept]_vars => KeepsRowsWithinOneRuntime
  BY PTL DEF KeepsRowsWithinOneRuntime
<1> QED
  BY <1>2, <1>3, HandoverInvariant, PTL
=============================================================================
