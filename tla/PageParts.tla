----------------------------- MODULE PageParts ------------------------------
(***************************************************************************)
(* The parts of the dashboard that surround its loads, together: the       *)
(* selection of the rows (EventFilters), the custom time range             *)
(* (RangeCalendar), the detail drawer (DetailDrawer), and the charts       *)
(* (OverviewCharts).  Each keeps the page and the range it is shown for,   *)
(* and they share no other state, so whatever holds of a part whose        *)
(* neighbours rest holds of it whatever they do; moving says which one     *)
(* does not rest.                                                          *)
(***************************************************************************)
EXTENDS Integers, FiniteSets

CONSTANTS
    Ranges, DefaultRange,
    Queries, Models, FilterUpstreams, Empty, NoSlot, None, Skeleton, Cells, MaxWindow, MaxPages,
    LastDay, DaysPerMonth, SecondsPerDay, Ms, Offset, NoDay, BadTime, NoRange,
    Upstreams, Events, Nothing, MaxRequests,
    Figures, Between, Blank, Duration, Trends, Dims, Widths, StartWidth, Fallback, Plot,
    Beside, Away, NoTip,
    FilterClicks, CalendarClicks, DrawerClicks, ChartEvents,  \* what the user does in each part
    Parts

VARIABLES
    moving,
    \* EventFilters
    filterPage, filterRange, field, filters, lock, banner, options, label, resetting, window,
    selected, eventPage, eventPages, prev, next, load, request, rows, ok, filterClicks,
    \* RangeCalendar
    calendarPage, range, custom, summary, form, days, from, to, editing, month, loading, times,
    status, apply, error, current, old, answer, calendarClicks,
    \* DetailDrawer
    drawerPage, drawerRange, open, subject, content, recent, requests, drawerClicks,
    \* OverviewCharts
    chartPage, width, target, shown, previous, running, data, active, drawn, handler, pointer,
    frame, stale, tip, resizing, events

Filters == INSTANCE EventFilters WITH
    page <- filterPage, range <- filterRange, clicks <- filterClicks, MaxClicks <- FilterClicks,
    Upstreams <- FilterUpstreams
Calendar == INSTANCE RangeCalendar WITH
    page <- calendarPage, clicks <- calendarClicks, MaxClicks <- CalendarClicks
Drawer == INSTANCE DetailDrawer WITH
    page <- drawerPage, range <- drawerRange, clicks <- drawerClicks, MaxClicks <- DrawerClicks
Charts == INSTANCE OverviewCharts WITH
    page <- chartPage, MaxEvents <- ChartEvents, Values <- Figures, Hidden <- NoTip

ASSUME PartsAssumption ==
    /\ Filters!FilterAssumption /\ Calendar!CalendarAssumption
    /\ Drawer!DrawerAssumption /\ Charts!OverviewChartsAssumption
    /\ Parts \subseteq {"filters", "calendar", "drawer", "charts"}

filterVars == <<filterPage, filterRange, field, filters, lock, banner, options, label, resetting,
                window, selected, eventPage, eventPages, prev, next, load, request, rows, ok,
                filterClicks>>
calendarVars == <<calendarPage, range, custom, summary, form, days, from, to, editing, month,
                  loading, times, status, apply, error, current, old, answer, calendarClicks>>
drawerVars == <<drawerPage, drawerRange, open, subject, content, recent, requests, drawerClicks>>
chartVars == <<chartPage, width, target, shown, previous, running, data, active, drawn, handler,
               pointer, frame, stale, tip, resizing, events>>
vars == <<moving, filterVars, calendarVars, drawerVars, chartVars>>

Init ==
    /\ moving \in Parts
    /\ Filters!Init /\ Calendar!Init /\ Drawer!Init /\ Charts!Init

FiltersMove ==
    /\ moving = "filters" /\ Filters!Next
    /\ UNCHANGED <<moving, calendarVars, drawerVars, chartVars>>
CalendarMoves ==
    /\ moving = "calendar" /\ Calendar!Next
    /\ UNCHANGED <<moving, filterVars, drawerVars, chartVars>>
DrawerMoves ==
    /\ moving = "drawer" /\ Drawer!Next
    /\ UNCHANGED <<moving, filterVars, calendarVars, chartVars>>
ChartsMove ==
    /\ moving = "charts" /\ Charts!Next
    /\ UNCHANGED <<moving, filterVars, calendarVars, drawerVars>>

Next == FiltersMove \/ CalendarMoves \/ DrawerMoves \/ ChartsMove

Spec == Init /\ [][Next]_vars

-----------------------------------------------------------------------------
(* The properties of the parts; each conjunct is explained where it is      *)
(* defined.                                                                *)

\* Filters, health lock, banner, highlighted cells, rows and paging buttons agree with each
\* other through any sequence of clicks, answers and failures.
SelectionIsTrue ==
    /\ Filters!TypeOK
    /\ Filters!LockReplacesUpstream /\ Filters!BannerIsTrue
    /\ Filters!LockIsHighlighted /\ Filters!RowsAreApplied

\* Without an upstream filter its hidden field is empty (not so: see the findings).
UpstreamFieldFollows == Filters!UpstreamFieldFollows

\* The form of the custom range keeps its days in order and its months within the records,
\* waits for its newest request only, and its buttons say what a submit would do and which
\* range is in force.
RangeIsTrue ==
    /\ Calendar!TypeOK
    /\ Calendar!ApplyTells /\ Calendar!LoadingIsCurrent
    /\ Calendar!SelectionOrdered /\ Calendar!MonthsWithinRecords /\ Calendar!SummaryTells

\* An open drawer is about what was opened last, belongs to the page and the range on display,
\* and while it loads a request is under way whose answer or error it will show.
DrawerIsTrue == Drawer!DrawerIsTrue

\* Key figures at rest and the trend chart are those of the last answer, whatever animations,
\* resizes and clicks on the legend came in between, and no chart is laid out on a hidden page.
ChartsAreTrue ==
    Charts!TypeOK /\ Charts!KpiSettles /\ Charts!DrawnIsCurrent /\ Charts!DrawnVisible

\* What no step may do: change the selection and keep the page number, leave a dropdown with
\* the text of another value, apply days of an answer that is not the newest, shift the range
\* when its form is opened, fill a drawer that is closed, or let the tooltip describe a chart
\* that is gone.
StepsAreTrue ==
    [][/\ Filters!StartsAtFirstPage /\ Filters!LabelStaysTrue
       /\ Calendar!AppliesRecorded /\ Calendar!OpensOnRange
       /\ Drawer!NotFilledClosed
       /\ Charts!TipTurnsHonest]_vars
=============================================================================
