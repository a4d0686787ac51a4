----------------------------- MODULE PageLoads -----------------------------
(***************************************************************************)
(* How the dashboard (go/dashboard/app.js) loads what it shows: the page   *)
(* load with its request id and abort controller, the separate load of the *)
(* request details, the automatic refresh, the visibility of the tab, and  *)
(* the management key that any response may invalidate.                    *)
(*                                                                         *)
(* One action is one task of the browser's event loop: a click, a timer, an*)
(* animation frame, a response.  An aborted fetch rejects in a microtask,  *)
(* before the next task; Quiet makes every other action wait for it.       *)
(* A request id is only ever compared with the newest one, so an activation *)
(* carries the result: newest says that its id is state.loadRequestID (or  *)
(* state.eventRequestID), and the next activation takes that away.         *)
(***************************************************************************)
EXTENDS Integers, FiniteSets, FiniteSetsExt

CONSTANTS
    Ranges,     \* the time ranges a user may activate
    Filters,    \* what else selects the request details: health lock, form, page
    NoFilter,   \* no lock, no filter, first page
    Keys,       \* management keys a user may enter
    NoKey,      \* state.managementKey = ''
    None,       \* nothing rendered yet
    Skeleton,   \* placeholder rows while the details load
    MaxClicks   \* bound on user actions, visibility changes and key changes

ASSUME PageAssumption ==
    /\ NoFilter \in Filters
    /\ NoKey \notin Keys
    /\ MaxClicks \in Nat

VARIABLES
    page, visible, range, filter,
    key,             \* state.managementKey
    valid,           \* the key the server accepts
    dialog,          \* the modal key dialog is open
    loads,           \* activations of loadActivePage that have not returned
    loading, freshness,
    evs,             \* activations of loadEvents that have not returned
    strays,          \* per key, open requests of settings loads that have already failed
    downloads,       \* keys of the downloads in flight
    restores,        \* keys of the POST /restore in flight
    pending,         \* state.pendingRequests
    timer,           \* autoRefreshTimer is set
    ready,           \* startAutoRefresh has run
    shown,           \* the parameters of what each region displays
    clicks           \* what is left of MaxClicks

vars == <<page, visible, range, filter, key, valid, dialog, loads, loading,
          freshness, evs, strays, downloads, restores, pending, timer, ready, shown, clicks>>

sideVars == <<strays, downloads, restores>>

Pages == {"overview", "interfaces", "settings"}
View == [range : Ranges, filter : Filters]
SettingsRequests == {"settings", "prices", "analysis"}
Requests == SettingsRequests \cup {"summary", "events", "interfaces"}
Yields == {"yield1", "yield2"}

StepsOf(p) == CASE p = "overview" -> {"summary", "yield1", "analysis", "yield2", "events"}
                [] p = "interfaces" -> {"interfaces"}
                [] p = "settings" -> {"settings"}

Load == [newest : BOOLEAN, page : Pages, step : Requests \cup Yields,
         open : SUBSET Requests, range : Ranges, view : View, evNewest : BOOLEAN,
         key : Keys \cup {NoKey}, aborted : BOOLEAN, first : BOOLEAN]
Ev == [newest : BOOLEAN, view : View, key : Keys, aborted : BOOLEAN]

-----------------------------------------------------------------------------
\* An aborted fetch whose rejection has not been delivered yet.
Rejecting(l) == l.aborted /\ l.open # {}
Quiet == (\A l \in loads : ~Rejecting(l)) /\ (\A e \in evs : ~e.aborted)

\* A new id: nobody else's is the newest any more.  The newest load, if it still
\* runs, is the one whose controller is in state.loadController.
SupersededLoads == {IF l.newest THEN [l EXCEPT !.newest = FALSE, !.aborted = TRUE] ELSE l : l \in loads}
AbortedLoads == {IF l.newest THEN [l EXCEPT !.aborted = TRUE] ELSE l : l \in loads}
WithoutEvents(ls) == {[l EXCEPT !.evNewest = FALSE] : l \in ls}
AbortedEvents == {IF e.newest THEN [e EXCEPT !.aborted = TRUE] ELSE e : e \in evs}
SupersededEvents == {[e EXCEPT !.newest = FALSE] : e \in AbortedEvents}

\* scheduleAutoRefresh: the old timer goes, a new one only where a refresh may run.
ScheduleAutoRefresh == timer' = (visible' /\ key' # NoKey /\ page' # "settings")

CurrentView == [range |-> range, filter |-> filter]

\* loadOverview loads the details itself and supersedes what loadEvents has under way.
EventsRunOn == evs
EventsAfterStart == IF page' = "overview" THEN SupersededEvents ELSE evs

(***************************************************************************)
(* loadActivePage.  The caller has already changed page, range, filter and *)
(* key, so the load reads their new values.  closed: how many requests the  *)
(* calling task has just finished; dlg: whether it leaves the dialog open;  *)
(* hit: the first cached() call finds a live entry.                         *)
(***************************************************************************)
FirstRequest(p) == CASE p = "overview" -> "summary" [] p = "interfaces" -> "interfaces" [] OTHER -> "settings"

LoadsAtStart == IF page' = "overview" THEN WithoutEvents(SupersededLoads) ELSE SupersededLoads

NewLoadOldPage(hit) ==
    [newest |-> TRUE, page |-> page,
     step |-> IF hit THEN "yield1" ELSE FirstRequest(page'),
     open |-> IF hit THEN {} ELSE IF page' = "settings" THEN SettingsRequests ELSE {FirstRequest(page')},
     range |-> range', view |-> [range |-> range', filter |-> filter'],
     evNewest |-> page' = "overview", key |-> key', aborted |-> FALSE, first |-> FALSE]
NewLoad(hit) ==
    [newest |-> TRUE, page |-> page',
     step |-> IF hit THEN "yield1" ELSE FirstRequest(page'),
     open |-> IF hit THEN {} ELSE IF page' = "settings" THEN SettingsRequests ELSE {FirstRequest(page')},
     range |-> range', view |-> [range |-> range', filter |-> filter'],
     evNewest |-> page' = "overview", key |-> key', aborted |-> FALSE, first |-> FALSE]

LoadActivePage(closed, dlg, hit) ==
    /\ hit => key' # NoKey /\ page' # "settings"
    /\ evs' = EventsAfterStart
    /\ UNCHANGED ready
    /\ \/ /\ key' = NoKey                    \* api() throws AuthRequired at once
          /\ loads' = LoadsAtStart
          /\ dialog' = TRUE /\ loading' = FALSE /\ freshness' = "stale"
          /\ pending' = pending - closed
          /\ ScheduleAutoRefresh
          /\ UNCHANGED shown
       \/ /\ key' # NoKey
          /\ dialog' = dlg
          /\ IF hit /\ page' = "interfaces"  \* the whole page comes from the cache
             THEN /\ loads' = LoadsAtStart
                  /\ shown' = [shown EXCEPT !.interfaces = range']
                  /\ loading' = FALSE /\ freshness' = "fresh"
                  /\ pending' = pending - closed
                  /\ ScheduleAutoRefresh
             ELSE /\ loads' = LoadsAtStart \cup {NewLoad(hit)}
                  /\ shown' = IF hit THEN [shown EXCEPT !.summary = range'] ELSE shown
                  /\ loading' = TRUE /\ freshness' = "stale"
                  /\ pending' = pending - closed + Cardinality(NewLoad(hit).open)
                  /\ UNCHANGED timer

(***************************************************************************)
(* The ways an activation l returns.  finally compares ids before it touches*)
(* the page; the activation init awaits also lets startAutoRefresh run.    *)
(***************************************************************************)
FinallyAnyId(l) ==
    /\ loading' = FALSE
    /\ ready' = (ready \/ l.first)
    /\ IF l.newest \/ l.first THEN ScheduleAutoRefresh ELSE UNCHANGED timer
Finally(l) ==
    /\ loading' = IF l.newest THEN FALSE ELSE loading
    /\ ready' = (ready \/ l.first)
    /\ IF l.newest \/ l.first THEN ScheduleAutoRefresh ELSE UNCHANGED timer

CompletedAnyId(l) == freshness' = "fresh" /\ Finally(l)
Completed(l) ==
    /\ freshness' = IF l.newest THEN "fresh" ELSE freshness
    /\ Finally(l)

FailedForGood(l) ==
    /\ freshness' = "error"
    /\ loading' = IF l.newest THEN FALSE ELSE loading
    /\ ready' = (ready \/ l.first) /\ UNCHANGED timer
FailedStillLoading(l) ==
    /\ freshness' = "error"
    /\ ready' = (ready \/ l.first) /\ ScheduleAutoRefresh
    /\ UNCHANGED loading
Failed(l) == freshness' = "error" /\ Finally(l)
FailedQuietly(l) == UNCHANGED freshness /\ Finally(l)

-----------------------------------------------------------------------------
(* api() and the continuation after it. *)

\* The 401 branch of api() and download(): whatever key is current is dropped.
DropKey == key' = NoKey /\ dialog' = TRUE

FirstLoad(k, hit) ==
    [newest |-> TRUE, page |-> "overview", step |-> IF hit THEN "yield1" ELSE "summary",
     open |-> IF hit THEN {} ELSE {"summary"}, range |-> range, view |-> CurrentView,
     evNewest |-> TRUE, key |-> k, aborted |-> FALSE, first |-> TRUE]

\* After the synchronous part of init(): the first load runs, or has asked for a key.
Init ==
    /\ page = "overview" /\ visible = TRUE /\ filter = NoFilter
    /\ range \in Ranges
    /\ valid \in Keys /\ key \in Keys \cup {NoKey}
    /\ strays = [k \in Keys |-> 0]
    /\ evs = {} /\ downloads = {} /\ restores = {} /\ timer = FALSE
    /\ freshness = "stale"
    /\ clicks = MaxClicks
    /\ IF key = NoKey
       THEN /\ dialog = TRUE /\ loads = {} /\ loading = FALSE /\ ready = TRUE /\ pending = 0
            /\ shown = [summary |-> None, analysis |-> None, interfaces |-> None, events |-> None]
       ELSE /\ dialog = FALSE /\ loading = TRUE /\ ready = FALSE
            /\ \E hit \in BOOLEAN :
                  /\ loads = {FirstLoad(key, hit)}
                  /\ pending = IF hit THEN 0 ELSE 1
                  /\ shown = [summary |-> IF hit THEN range ELSE None, analysis |-> None,
                              interfaces |-> None, events |-> None]

\* The rejection of an aborted load: AbortError, so neither a toast nor an error state.
LoadAborts(l) ==
    /\ Rejecting(l)
    /\ loads' = loads \ {l}
    /\ pending' = pending - Cardinality(l.open)
    /\ UNCHANGED <<page, visible, range, filter, key, valid, dialog, evs, sideVars, shown, clicks>>
    /\ FailedQuietly(l)

EventsAbortUncounted(e) ==
    /\ e.aborted
    /\ evs' = evs \ {e}
    /\ UNCHANGED <<page, visible, range, filter, key, valid, dialog, loads, loading, pending,
                   freshness, sideVars, timer, ready, shown, clicks>>
EventsAbort(e) ==
    /\ e.aborted
    /\ evs' = evs \ {e}
    /\ pending' = pending - 1
    /\ UNCHANGED <<page, visible, range, filter, key, valid, dialog, loads, loading,
                   freshness, sideVars, timer, ready, shown, clicks>>

\* What loadOverview and loadInterfaces render once the data of a step is there.
Rendered(l, step) ==
    CASE step = "summary"    -> [shown EXCEPT !.summary = l.range]
      [] step = "analysis"   -> [shown EXCEPT !.analysis = l.range]
      [] step = "events"     -> [shown EXCEPT !.events = l.view]
      [] step = "interfaces" -> [shown EXCEPT !.interfaces = l.range]
      [] OTHER -> shown

AfterStep(step) == CASE step = "summary" -> "yield1" [] step = "analysis" -> "yield2" [] OTHER -> "done"

\* Whether a continuation may still render: the guards after each await of loadOverview.
Fits(l, step) ==
    l.newest /\ ~l.aborted /\ (step = "events" => l.evNewest)

\* The data of a step is there: render it, then yield to the browser or return.
Proceed(l, step) ==
    /\ shown' = IF Fits(l, step) THEN Rendered(l, step) ELSE shown
    /\ IF Fits(l, step) /\ AfterStep(step) # "done"
       THEN /\ loads' = (loads \ {l}) \cup {[l EXCEPT !.step = AfterStep(step), !.open = {}]}
            /\ UNCHANGED <<loading, freshness, timer, ready>>
       ELSE loads' = loads \ {l} /\ Completed(l)

\* requestAnimationFrame resolves, which it does not while the tab is hidden.
Frame(l, hit) ==
    /\ Quiet /\ visible /\ l.step \in Yields
    /\ UNCHANGED <<page, visible, range, filter, key, valid, evs,
                   sideVars, clicks>>
    /\ LET step == IF l.step = "yield1" THEN "analysis" ELSE "events"
           moot == ~Fits(l, step)
           asked == [l EXCEPT !.step = step, !.range = range, !.key = key, !.open = {step}] IN
       \/ /\ moot
          /\ loads' = loads \ {l} /\ Completed(l) /\ UNCHANGED <<pending, shown, dialog>>
       \/ /\ ~moot /\ key = NoKey
          /\ loads' = loads \ {l} /\ dialog' = TRUE /\ FailedQuietly(l) /\ UNCHANGED <<pending, shown>>
       \/ /\ ~moot /\ key # NoKey /\ hit
          /\ shown' = Rendered([l EXCEPT !.range = range], step)
          /\ IF step = "analysis"
             THEN /\ loads' = (loads \ {l}) \cup {[l EXCEPT !.step = "yield2", !.range = range]}
                  /\ UNCHANGED <<loading, freshness, timer, ready>>
             ELSE loads' = loads \ {l} /\ Completed(l)
          /\ UNCHANGED <<pending, dialog>>
       \/ /\ ~moot /\ key # NoKey /\ ~hit
          /\ loads' = (loads \ {l}) \cup {asked}
          /\ pending' = pending + 1
          /\ UNCHANGED <<loading, freshness, timer, ready, shown, dialog>>

Responding(l) == Quiet /\ l.open # {}
OnlyLoads == UNCHANGED <<page, visible, range, filter, valid, evs,
                         sideVars, clicks>>

\* The answer to the single request of an overview or interfaces load.
LoadAnswered(l) ==
    /\ Responding(l) /\ l.page # "settings" /\ OnlyLoads
    /\ pending' = pending - 1
    /\ \/ l.key = valid /\ UNCHANGED <<key, dialog>> /\ Proceed(l, l.step)
       \/ /\ l.key # valid /\ DropKey
          /\ loads' = loads \ {l} /\ FailedQuietly(l) /\ UNCHANGED shown
       \/ /\ UNCHANGED <<key, dialog, shown>>        \* an error status or a network failure
          /\ loads' = loads \ {l} /\ Failed(l)

\* One answer of the three loadSettings awaits together; that of /analysis may fail.
\* The first other failure ends the activation, whose open requests run on as strays.
SettingsAnswered(l, request, answer) ==
    /\ Responding(l) /\ l.page = "settings" /\ request \in l.open
    /\ UNCHANGED <<page, visible, range, filter, valid, evs, downloads, restores, clicks, shown>>
    /\ pending' = pending - 1
    /\ CASE answer = "ok"     -> l.key = valid /\ UNCHANGED <<key, dialog>>
         [] answer = "denied" -> l.key # valid /\ DropKey
         [] answer = "failed" -> UNCHANGED <<key, dialog>>
    /\ \/ /\ answer = "ok" \/ request = "analysis"
          /\ UNCHANGED strays
          /\ IF l.open = {request}
             THEN loads' = loads \ {l} /\ Completed(l)
             ELSE /\ loads' = (loads \ {l}) \cup {[l EXCEPT !.open = @ \ {request}]}
                  /\ UNCHANGED <<loading, freshness, timer, ready>>
       \/ /\ answer # "ok" /\ request # "analysis"
          /\ loads' = loads \ {l}
          /\ strays' = [strays EXCEPT ![l.key] = @ + Cardinality(l.open) - 1]
          /\ IF answer = "failed" THEN Failed(l) ELSE FailedQuietly(l)

\* The answer to a request whose load failed without it: nobody awaits it any more.
StrayAnswered(k) ==
    /\ Quiet /\ strays[k] > 0
    /\ strays' = [strays EXCEPT ![k] = @ - 1]
    /\ pending' = pending - 1
    /\ UNCHANGED <<key, dialog>> \/ (k # valid /\ DropKey)
    /\ UNCHANGED <<page, visible, range, filter, valid, loads, loading, freshness, evs, downloads,
                   restores, timer, ready, shown, clicks>>

\* The answer to loadEvents; its finally does nothing the other variables show.
EventsAnswered(e) ==
    /\ Quiet
    /\ evs' = evs \ {e}
    /\ pending' = pending - 1
    /\ \/ /\ e.key = valid /\ UNCHANGED <<key, dialog>>
          /\ shown' = IF e.newest THEN [shown EXCEPT !.events = e.view] ELSE shown
       \/ e.key # valid /\ DropKey /\ UNCHANGED shown
       \/ UNCHANGED <<key, dialog, shown>>
    /\ UNCHANGED <<page, visible, range, filter, valid, loads, loading, freshness,
                   sideVars, timer, ready, clicks>>

\* download() counts its own request and clamps the counter when it ends.
DownloadAnswered(k) ==
    /\ Quiet /\ k \in downloads
    /\ downloads' = downloads \ {k}
    /\ pending' = Max({0, pending - 1})
    /\ \/ UNCHANGED <<key, dialog>>
       \/ k # valid /\ DropKey
    /\ UNCHANGED <<page, visible, range, filter, valid, loads, loading, freshness, evs,
                   strays, restores, timer, ready, shown, clicks>>

\* A restored backup empties the cache and reloads whatever page is open by then.
RestoreAnswered(k) ==
    /\ Quiet /\ k \in restores
    /\ restores' = restores \ {k}
    /\ UNCHANGED <<page, visible, range, filter, valid, strays, downloads, clicks>>
    /\ \/ k = valid /\ UNCHANGED key /\ LoadActivePage(1, dialog, FALSE)
       \/ /\ \/ UNCHANGED <<key, dialog>>
             \/ k # valid /\ DropKey
          /\ pending' = pending - 1
          /\ UNCHANGED <<loads, loading, freshness, evs, timer, ready, shown>>

-----------------------------------------------------------------------------
(* The timer, the tab and the user. *)

LookNoMore == timer' = FALSE
LookAgain == ScheduleAutoRefresh

\* runAutoRefresh: a busy page is looked at again one second later.
TimerFires(hit) ==
    /\ Quiet /\ timer
    /\ UNCHANGED <<page, visible, range, filter, key, valid, sideVars, clicks>>
    /\ \/ /\ ~visible \/ key = NoKey \/ page = "settings"
          /\ timer' = FALSE
          /\ UNCHANGED <<dialog, loads, loading, freshness, evs, pending, ready, shown>>
       \/ /\ visible /\ key # NoKey /\ page # "settings"
          /\ IF loading \/ pending > 0
             THEN /\ LookAgain
                  /\ UNCHANGED <<dialog, loads, loading, freshness, evs,
                                 pending, ready, shown>>
             ELSE LoadActivePage(0, dialog, hit)

Click == Quiet /\ clicks > 0 /\ clicks' = clicks - 1

\* visibilitychange is heard once startAutoRefresh has run.
Hide ==
    /\ Click /\ visible
    /\ visible' = FALSE
    /\ IF ready
       THEN timer' = FALSE /\ loads' = AbortedLoads /\ evs' = AbortedEvents
       ELSE UNCHANGED <<timer, loads, evs>>
    /\ UNCHANGED <<page, range, filter, key, valid, dialog, loading, freshness,
                   sideVars, pending, ready, shown>>

Show(hit) ==
    /\ Click /\ ~visible
    /\ visible' = TRUE
    /\ UNCHANGED <<page, range, filter, key, valid, sideVars>>
    /\ IF ready /\ key # NoKey /\ page # "settings"
       THEN LoadActivePage(0, dialog, hit)
       ELSE /\ IF ready THEN ScheduleAutoRefresh ELSE UNCHANGED timer
            /\ UNCHANGED <<dialog, loads, loading, freshness, evs,
                           pending, ready, shown>>

UserActs == Click /\ visible /\ ~dialog

\* A click on another entry of the navigation.
Navigate(p, hit) ==
    /\ UserActs /\ p # page
    /\ page' = p
    /\ UNCHANGED <<visible, range, filter, key, valid, sideVars>>
    /\ LoadActivePage(0, dialog, hit)

\* The refresh button is disabled while loading.
Refresh ==
    /\ UserActs /\ ~loading
    /\ UNCHANGED <<page, visible, range, filter, key, valid, sideVars>>
    /\ LoadActivePage(0, dialog, FALSE)

ActivateRange(r) ==
    /\ UserActs /\ page # "settings"
    /\ range' = r /\ filter' = NoFilter
    /\ UNCHANGED <<page, visible, key, valid, sideVars>>
    /\ LoadActivePage(0, dialog, FALSE)

\* Every change of the filters or of the details' page ends in loadEvents(true).
LoadEvents(f) ==
    /\ UserActs /\ page = "overview"
    /\ filter' = f
    /\ loads' = WithoutEvents(loads)
    /\ shown' = [shown EXCEPT !.events = Skeleton]
    /\ IF key = NoKey
       THEN evs' = SupersededEvents /\ dialog' = TRUE /\ UNCHANGED pending
       ELSE /\ evs' = SupersededEvents \cup
                      {[newest |-> TRUE, view |-> [range |-> range, filter |-> f], key |-> key, aborted |-> FALSE]}
            /\ pending' = pending + 1
            /\ UNCHANGED dialog
    /\ UNCHANGED <<page, visible, range, key, valid, loading, freshness, sideVars, timer, ready>>

\* The CSV of the overview, the backup of the settings.
Download ==
    /\ UserActs /\ page # "interfaces"
    /\ IF key = NoKey
       THEN dialog' = TRUE /\ pending' = Max({0, pending - 1}) /\ UNCHANGED downloads
       ELSE /\ key \notin downloads
            /\ downloads' = downloads \cup {key} /\ pending' = pending + 1 /\ UNCHANGED dialog
    /\ UNCHANGED <<page, visible, range, filter, key, valid, loads, loading, freshness,
                   evs, strays, restores, timer, ready, shown>>

RestoreBackup ==
    /\ UserActs /\ page = "settings"
    /\ IF key = NoKey
       THEN dialog' = TRUE /\ UNCHANGED <<restores, pending>>
       ELSE /\ key \notin restores
            /\ restores' = restores \cup {key} /\ pending' = pending + 1 /\ UNCHANGED dialog
    /\ UNCHANGED <<page, visible, range, filter, key, valid, loads, loading, freshness,
                   evs, strays, downloads, timer, ready, shown>>

OnlyDialog == UNCHANGED <<page, visible, range, filter, key, loads, loading, freshness,
                          evs, sideVars, pending, timer, ready, shown>>

ChangeKey == UserActs /\ page = "settings" /\ dialog' = TRUE /\ UNCHANGED valid /\ OnlyDialog
CancelDialog == Quiet /\ visible /\ dialog /\ dialog' = FALSE /\ UNCHANGED <<valid, clicks>> /\ OnlyDialog

SaveKey(k) ==
    /\ Click /\ visible /\ dialog
    /\ key' = k
    /\ UNCHANGED <<page, visible, range, filter, valid, sideVars>>
    /\ LoadActivePage(0, FALSE, FALSE)

\* The operator of the server replaces the management key.
RotateKey(k) == Click /\ k # valid /\ valid' = k /\ UNCHANGED dialog /\ OnlyDialog

-----------------------------------------------------------------------------
Answers ==
    \/ \E l \in loads : LoadAborts(l) \/ LoadAnswered(l)
                      \/ \E r \in SettingsRequests, a \in {"ok", "denied", "failed"} : SettingsAnswered(l, r, a)
    \/ \E e \in evs : EventsAbort(e) \/ EventsAnswered(e)
    \/ \E k \in Keys : DownloadAnswered(k) \/ RestoreAnswered(k) \/ StrayAnswered(k)

Frames == \E l \in loads, hit \in BOOLEAN : Frame(l, hit)
Timer == \E hit \in BOOLEAN : TimerFires(hit)

User ==
    \/ Hide \/ (\E hit \in BOOLEAN : Show(hit))
    \/ \E p \in Pages, hit \in BOOLEAN : Navigate(p, hit)
    \/ Refresh \/ (\E r \in Ranges : ActivateRange(r)) \/ (\E f \in Filters : LoadEvents(f))
    \/ Download \/ RestoreBackup \/ ChangeKey \/ CancelDialog
    \/ (\E k \in Keys : SaveKey(k) \/ RotateKey(k))

Next == Answers \/ Frames \/ Timer \/ User

Spec == Init /\ [][Next]_vars

\* The browser answers every request in the end, paints a visible tab and fires timers;
\* the timer waits for the first entry to expire, so not every refresh hits the cache.
FairSpec == Spec /\ WF_vars(Answers) /\ WF_vars(Frames) /\ WF_vars(TimerFires(FALSE))

-----------------------------------------------------------------------------
(* Properties. *)

TypeOK ==
    /\ page \in Pages /\ range \in Ranges /\ filter \in Filters
    /\ {visible, dialog, loading, timer, ready} \subseteq BOOLEAN
    /\ key \in Keys \cup {NoKey} /\ valid \in Keys
    /\ loads \subseteq Load /\ evs \subseteq Ev
    /\ \A l \in loads : l.step \in StepsOf(l.page) /\ (l.step \in Yields <=> l.open = {})
    /\ strays \in [Keys -> Nat]
    /\ freshness \in {"stale", "fresh", "error"}
    /\ downloads \subseteq Keys /\ restores \subseteq Keys
    /\ pending \in Int /\ clicks \in 0..MaxClicks
    /\ \A region \in {"summary", "analysis", "interfaces"} : shown[region] \in Ranges \cup {None}
    /\ shown.events \in View \cup {None, Skeleton}

\* "Updated at" under the title tells the truth: while a key is known, every region of
\* the open page then shows the range and the filters the controls show (the details may
\* be a skeleton while they load and after a failure).
FreshShowsCurrent ==
    freshness = "fresh" /\ key # NoKey =>
        /\ page = "overview" =>
              /\ shown.summary = range /\ shown.analysis = range
              /\ shown.events \in {CurrentView, Skeleton}
        /\ page = "interfaces" => shown.interfaces = range

\* No region of the open page is ever overwritten with the answer to an earlier
\* question, whatever order the answers, frames and clicks come in.
NoStaleRender ==
    [][/\ shown'.summary # shown.summary => shown'.summary = range'
       /\ shown'.analysis # shown.analysis => shown'.analysis = range'
       /\ shown'.interfaces # shown.interfaces => shown'.interfaces = range'
       /\ page' = "overview" /\ shown'.events # shown.events =>
             shown'.events \in {Skeleton, [range |-> range', filter |-> filter']}]_vars

\* The spinner turns, and the refresh button is disabled, exactly while the newest
\* activation of loadActivePage has not returned, and that one loads the open page.
LoadingIsHonest ==
    /\ loading <=> \E l \in loads : l.newest
    /\ \A l \in loads : l.newest => l.page = page

\* The automatic refresh never dies: a visible data page with a key either loads or
\* has a timer, after failures, 401s, aborts, and page and visibility changes alike.
RefreshNeverDies ==
    ready /\ visible /\ key # NoKey /\ page # "settings" => loading \/ timer

\* The requests under way: of the loads, of the details, of downloads and restores, and strays.
OpenOf(ls) == UNION {{l} \X l.open : l \in ls}
StraysOf(ss) == UNION {{k} \X (1..ss[k]) : k \in Keys}
OpenRequests ==
    Cardinality(OpenOf(loads)) + Cardinality(evs) + Cardinality(downloads)
        + Cardinality(restores) + Cardinality(StraysOf(strays))

\* pendingRequests never counts a request that is over: it would put off every refresh.
PendingNeverLeaks == pending <= OpenRequests

\* The controls tell the truth in every state: domains, spinner, timer and request counter.
ControlsAreHonest == TypeOK /\ LoadingIsHonest /\ RefreshNeverDies /\ PendingNeverLeaks

\* A load does not spin for ever in a visible tab, and a visible data page with a key is
\* loaded again and again.
RefreshRecurs ==
    /\ loading ~> (~loading \/ ~visible)
    /\ <>[](ready /\ visible /\ key # NoKey /\ page # "settings") => []<>loading
=============================================================================
