---------------------------- MODULE DetailDrawer ----------------------------
(***************************************************************************)
(* The drawer of the dashboard (go/dashboard/app.js): openUpstream fetches *)
(* what it shows, openEventDetail has it at hand, closeDrawer aborts, and  *)
(* navigation, a new range and the drilldown close it.  An answer may come *)
(* after its drawer was closed, or filled by another opener.               *)
(*                                                                         *)
(* state.drawerRequestID is only compared with the newest id: a request    *)
(* carries newest, which the next increment takes away.  An aborted fetch  *)
(* may already have its response, so it ends in any of the three ways.     *)
(***************************************************************************)
EXTENDS Integers, FiniteSets

CONSTANTS
    Ranges, DefaultRange,
    Upstreams, Events,
    Nothing,      \* no content yet
    MaxRequests,  \* bound on concurrent requests of the drawer
    MaxClicks     \* bound on user actions

DrawerAssumption ==
    /\ DefaultRange \in Ranges /\ MaxRequests \in Nat /\ MaxClicks \in Nat
    /\ Upstreams \cap Events = {}

VARIABLES
    page, range,
    open,        \* the drawer is-open (and neither inert nor hidden)
    subject,     \* what was opened last, with the range of that moment
    content,     \* what the title and the content of the drawer are about
    recent,      \* the events whose buttons the content of an upstream offers
    requests,    \* requests for /upstream under way
    clicks

vars == <<page, range, open, subject, content, recent, requests, clicks>>

Subject == [item : Upstreams \cup Events, range : Ranges]
Content == [of : Subject, state : {"loading", "loaded", "failed"}]
Request == [of : Subject, newest : BOOLEAN, aborted : BOOLEAN]

Init ==
    /\ page = "overview" /\ range = DefaultRange
    /\ open = FALSE /\ subject = Nothing /\ content = Nothing /\ recent = {}
    /\ requests = {} /\ clicks = MaxClicks

\* drawerController aborts the newest request, drawerRequestID makes it an old one.
Superseded == {IF r.newest THEN [r EXCEPT !.newest = FALSE, !.aborted = TRUE] ELSE r : r \in requests}

Click == clicks > 0 /\ clicks' = clicks - 1

\* The page behind an open drawer stays within reach of the keyboard.
OpenUpstream(u) ==
    /\ Click /\ page = "interfaces"
    /\ Cardinality(requests) < MaxRequests
    /\ open' = TRUE
    /\ subject' = [item |-> u, range |-> range]
    /\ content' = [of |-> subject', state |-> "loading"]
    /\ recent' = {}
    /\ requests' = Superseded \cup {[of |-> subject', newest |-> TRUE, aborted |-> FALSE]}
    /\ UNCHANGED <<page, range>>

\* A row of the request details, or a recent request of the upstream on display.
OpenEventDetail(e) ==
    /\ Click
    /\ page = "overview" \/ (open /\ e \in recent)
    /\ open' = TRUE
    /\ subject' = [item |-> e, range |-> range]
    /\ content' = [of |-> subject', state |-> "loaded"]
    /\ recent' = {}
    /\ requests' = Superseded
    /\ UNCHANGED <<page, range>>

CloseDrawerQuietly == open' = FALSE /\ UNCHANGED <<subject, content, recent, requests>>
CloseDrawer == open' = FALSE /\ requests' = Superseded /\ UNCHANGED <<subject, content, recent>>

\* The close button, the scrim or Escape.
Close == Click /\ open /\ CloseDrawer /\ UNCHANGED <<page, range>>

Navigate(p) == Click /\ p # page /\ page' = p /\ CloseDrawer /\ UNCHANGED range

ActivateRangeOpen(r) ==
    /\ Click /\ page # "settings"
    /\ range' = r
    /\ UNCHANGED <<page, open, subject, content, recent, requests>>
ActivateRange(r) ==
    /\ Click /\ page # "settings"
    /\ range' = r
    /\ CloseDrawer /\ UNCHANGED page

\* "Drill down" in the content of an upstream.
DrilldownUpstream ==
    /\ Click /\ open /\ page = "interfaces"
    /\ subject.item \in Upstreams /\ content.state = "loaded"
    /\ page' = "overview"
    /\ CloseDrawer /\ UNCHANGED range

\* openUpstream after its await.
CurrentAlways(r) == TRUE
Current(r) == r.newest /\ ~r.aborted

UpstreamAnswered(r, events) ==
    /\ requests' = requests \ {r}
    /\ IF Current(r)
       THEN content' = [of |-> r.of, state |-> "loaded"] /\ recent' = events
       ELSE UNCHANGED <<content, recent>>
    /\ UNCHANGED <<page, range, open, subject, clicks>>

UpstreamFailedSilently(r) ==
    /\ requests' = requests \ {r}
    /\ UNCHANGED <<page, range, open, subject, content, recent, clicks>>
UpstreamFailed(r) ==
    /\ requests' = requests \ {r}
    /\ content' = IF Current(r) THEN [of |-> r.of, state |-> "failed"] ELSE content
    /\ UNCHANGED <<page, range, open, subject, recent, clicks>>

Answers == \E r \in requests : UpstreamFailed(r) \/ \E events \in SUBSET Events : UpstreamAnswered(r, events)

Next ==
    \/ Answers
    \/ \E u \in Upstreams : OpenUpstream(u)
    \/ \E e \in Events : OpenEventDetail(e)
    \/ Close \/ DrilldownUpstream
    \/ \E p \in {"overview", "interfaces", "settings"} : Navigate(p)
    \/ \E r \in Ranges : ActivateRange(r)

Spec == Init /\ [][Next]_vars
-----------------------------------------------------------------------------
(* Properties. *)

TypeOK ==
    /\ page \in {"overview", "interfaces", "settings"} /\ range \in Ranges /\ open \in BOOLEAN
    /\ subject \in Subject \cup {Nothing} /\ content \in Content \cup {Nothing}
    /\ recent \subseteq Events /\ requests \subseteq Request /\ clicks \in 0..MaxClicks
    /\ Cardinality({r \in requests : r.newest}) <= 1

\* An open drawer is about what was opened last, whatever answers are still under way.
ShowsLastOpened == open => content.of = subject

\* An open drawer belongs to the page and to the range on display.
FitsThePage ==
    open => /\ content.of.range = range
            /\ page # "settings"
            /\ content.of.item \in Upstreams => page = "interfaces"

\* Nobody fills a drawer that is closed: it would open next time with old content.
NotFilledClosed == ~open /\ ~open' => content' = content /\ recent' = recent

\* The skeleton goes: a drawer that loads waits for a request that is still under way and
\* whose answer or error it will show.
LoadingIsAwaited ==
    open /\ content.state = "loading" =>
        \E r \in requests : Current(r) /\ r.of = content.of

\* What an open drawer shows is right, fits its surroundings, and will come.
DrawerIsTrue == ShowsLastOpened /\ FitsThePage /\ LoadingIsAwaited
=============================================================================
