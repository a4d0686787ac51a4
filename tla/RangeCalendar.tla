--------------------------- MODULE RangeCalendar ---------------------------
(***************************************************************************)
(* The custom time range of the dashboard (go/dashboard/app.js): the form  *)
(* with its two month calendar, the fetch of the days that have records,   *)
(* the selection of two days and two times, and the range that results.    *)
(*                                                                         *)
(* Days and months are numbers; a day has SecondsPerDay seconds, a second  *)
(* Ms milliseconds.  calendar.requestID is only compared with the newest   *)
(* id: current says that the newest request is under way, old counts those *)
(* whose answer nobody waits for.                                          *)
(***************************************************************************)
EXTENDS Integers, FiniteSets, FiniteSetsExt

CONSTANTS
    LastDay, DaysPerMonth, SecondsPerDay, Ms,
    Offset,       \* China Standard Time is UTC plus Offset milliseconds
    NoDay, BadTime, NoRange,
    MaxRequests,  \* bound on requests nobody waits for
    MaxClicks     \* bound on user actions

CalendarAssumption ==
    /\ {LastDay, DaysPerMonth, SecondsPerDay, Ms} \subseteq Nat \ {0}
    /\ Offset \in Nat /\ Offset < SecondsPerDay * Ms
    /\ MaxRequests \in Nat /\ MaxClicks \in Nat
    /\ NoDay \notin 1..LastDay /\ BadTime \notin 0..(SecondsPerDay - 1)
    /\ NoRange \notin [from : Nat, to : Nat]

VARIABLES
    page, range,  \* range: "preset" or "custom"
    custom,       \* state.customRange, in milliseconds
    summary,      \* the button that names the custom range, hidden or its text
    form,         \* the form is visible
    days, from, to, editing, month, loading,  \* calendar
    times,        \* the two time inputs
    status,       \* what #range-calendars displays
    apply,        \* the apply button is enabled
    error,        \* the message of a refused submit is visible
    current, old, \* requests for /events/dates under way
    answer,       \* history: the days the newest request was answered with, if it was
    clicks

vars == <<page, range, custom, summary, form, days, from, to, editing, month, loading, times,
          status, apply, error, current, old, answer, clicks>>
rangeVars == <<page, range, custom, summary>>
requestVars == <<current, old, answer>>

Days == 1..LastDay
Times == 0..(SecondsPerDay - 1)
MonthOf(d) == (d - 1) \div DaysPerMonth + 1
FirstMonth == MonthOf(Min(days))
LastMonth == MonthOf(Max(days))

\* chinaInputToMillis; a day or a time that is missing makes it null (here -1).
Invalid == -1
ToMillis(d, t) ==
    IF d = NoDay \/ t = BadTime THEN Invalid ELSE (d * SecondsPerDay + t) * Ms - Offset

\* chinaMillisToInput, cut to the second.
InputDay(v) == (v + Offset) \div (SecondsPerDay * Ms)
InputTimeUnwrapped(v) == (v + Offset) \div Ms
InputTime(v) == ((v + Offset) % (SecondsPerDay * Ms)) \div Ms
Input(v) == [day |-> InputDay(v), time |-> InputTime(v)]

Hidden == [shown |-> FALSE]

Init ==
    /\ page = "overview" /\ range = "preset" /\ custom = NoRange /\ summary = Hidden
    /\ form = FALSE /\ days = {} /\ from = NoDay /\ to = NoDay /\ editing = "from"
    /\ month = Invalid /\ loading = FALSE /\ times = [from |-> 0, to |-> SecondsPerDay - 1]
    /\ status = "loading" /\ apply = FALSE /\ error = FALSE
    /\ current = FALSE /\ old = 0 /\ answer = {}
    /\ clicks = MaxClicks

\* What the submit handler accepts.
Acceptable(load, recorded, f, t, tt) ==
    /\ ~load /\ f \in recorded /\ t \in recorded
    /\ ToMillis(f, tt.from) # Invalid /\ ToMillis(t, tt.to) # Invalid
    /\ ToMillis(f, tt.from) <= ToMillis(t, tt.to)

\* renderRangeSummary
RenderRangeSummary ==
    summary' = IF range' = "custom" /\ custom' # NoRange /\ page' # "settings"
               THEN [shown |-> TRUE, from |-> Input(custom'.from), to |-> Input(custom'.to - (Ms - 1))]
               ELSE Hidden

\* updateCalendarSelection; otherwise is the status that stays if nothing is rendered.
UpdateSelectionOldTimes(render, otherwise) ==
    /\ apply' = Acceptable(loading', days', from', to', times)
    /\ error' = FALSE
    /\ status' = IF render /\ ~loading' THEN IF days' = {} THEN "none" ELSE "calendar" ELSE otherwise
UpdateSelection(render, otherwise) ==
    /\ apply' = Acceptable(loading', days', from', to', times')
    /\ error' = FALSE
    /\ status' = IF render /\ ~loading' THEN IF days' = {} THEN "none" ELSE "calendar" ELSE otherwise

Click == clicks > 0 /\ clicks' = clicks - 1

\* hideCustomRangeForm leaves loading and the selection alone.
Hide ==
    /\ form' = FALSE /\ error' = FALSE
    /\ current' = FALSE /\ old' = old + (IF current THEN 1 ELSE 0)

\* The custom button opens the form with the range in force and fetches the days.
PrefilledRounded == IF range = "custom" THEN [from |-> Input(custom.from), to |-> Input(custom.to - Ms)]
                    ELSE [from |-> [day |-> NoDay, time |-> 0], to |-> [day |-> NoDay, time |-> SecondsPerDay - 1]]
Prefilled == IF range = "custom" THEN [from |-> Input(custom.from), to |-> Input(custom.to)]
             ELSE [from |-> [day |-> NoDay, time |-> 0], to |-> [day |-> NoDay, time |-> SecondsPerDay - 1]]
OpenForm ==
    /\ Click /\ ~form /\ page # "settings"
    /\ old + (IF current THEN 1 ELSE 0) < MaxRequests
    /\ form' = TRUE
    /\ from' = Prefilled.from.day /\ to' = Prefilled.to.day /\ editing' = "from"
    /\ times' = [from |-> Prefilled.from.time, to |-> Prefilled.to.time]
    /\ current' = TRUE /\ old' = old + (IF current THEN 1 ELSE 0)
    /\ answer' = {}
    /\ loading' = TRUE /\ days' = {}
    /\ UpdateSelection(TRUE, "loading")
    /\ UNCHANGED <<rangeVars, month>>

\* The custom button again, cancel, Escape, or a press outside of the form.
CloseForm ==
    /\ Click /\ form
    /\ Hide
    /\ UNCHANGED <<rangeVars, days, from, to, editing, month, loading, times, status, apply, answer>>

\* loadCalendarDays after its await.
AfterAnswer(d, recorded) == IF d \in recorded THEN d ELSE NoDay

FirstShown(recorded, f) ==
    MonthOf(IF f # NoDay THEN f ELSE Max(recorded)) - (IF Cardinality(recorded) > 1 THEN 1 ELSE 0)

DaysAnswered(recorded) ==
    /\ current
    /\ current' = FALSE /\ answer' = {recorded}
    /\ days' = recorded
    /\ from' = AfterAnswer(from, recorded) /\ to' = AfterAnswer(to, recorded)
    /\ month' = IF recorded = {} THEN Invalid ELSE FirstShown(recorded, from')
    /\ loading' = FALSE
    /\ UNCHANGED <<rangeVars, form, editing, times, old, clicks>>
    /\ UpdateSelection(TRUE, status)

DaysFailedLoading ==
    /\ current
    /\ current' = FALSE /\ answer' = {}
    /\ UNCHANGED <<loading, apply, error>>
    /\ status' = "failed"
    /\ UNCHANGED <<rangeVars, form, days, from, to, editing, month, times, old, clicks>>
DaysFailed ==
    /\ current
    /\ current' = FALSE /\ answer' = {}
    /\ loading' = FALSE
    /\ UNCHANGED <<rangeVars, form, days, from, to, editing, month, times, old, clicks>>
    /\ UpdateSelection(FALSE, "failed")

\* An answer nobody waits for, or its failure.
StaleAnswered ==
    /\ old > 0 /\ old' = old - 1
    /\ UNCHANGED <<rangeVars, form, days, from, to, editing, month, loading, times, status, apply,
                   error, current, answer, clicks>>

-----------------------------------------------------------------------------
InForm == Click /\ form /\ UNCHANGED <<rangeVars, form, days, loading, requestVars>>

EditSide(side) ==
    /\ InForm
    /\ editing' = side
    /\ UNCHANGED <<from, to, month, times>>
    /\ UpdateSelection(TRUE, status)

EditTime(side, t) ==
    /\ InForm
    /\ times' = [times EXCEPT ![side] = t]
    /\ UNCHANGED <<from, to, editing, month>>
    /\ UpdateSelection(TRUE, status)

\* A day of one of the two months on display.
PickedKeepTo(d) ==
    IF editing = "from" THEN [from |-> d, to |-> to, editing |-> "to"]
    ELSE [from |-> from, to |-> d, editing |-> "to"]
Picked(d) ==
    CASE editing = "from" ->
            [from |-> d, to |-> IF to # NoDay /\ to < d THEN NoDay ELSE to, editing |-> "to"]
      [] editing = "to" /\ from # NoDay /\ d < from -> [from |-> d, to |-> NoDay, editing |-> "to"]
      [] OTHER -> [from |-> from, to |-> d, editing |-> "to"]

PickDay(d) ==
    /\ InForm
    /\ status = "calendar" /\ d \in days /\ MonthOf(d) \in {month, month + 1}
    /\ from' = Picked(d).from /\ to' = Picked(d).to /\ editing' = Picked(d).editing
    /\ UNCHANGED <<month, times>>
    /\ UpdateSelection(TRUE, status)

\* The arrows beside the months, enabled as renderCalendars left them.
ShiftMonthFar(by) ==
    /\ InForm
    /\ status = "calendar"
    /\ IF by < 0 THEN month - 1 >= FirstMonth ELSE month <= LastMonth
    /\ month' = month + by
    /\ UNCHANGED <<from, to, editing, times, status, apply, error>>
ShiftMonth(by) ==
    /\ InForm
    /\ status = "calendar"
    /\ IF by < 0 THEN month - 1 >= FirstMonth ELSE month + 1 <= LastMonth
    /\ month' = month + by
    /\ UNCHANGED <<from, to, editing, times, status, apply, error>>

\* activateRange, as far as this form is concerned.
Activate(r) ==
    /\ range' = r
    /\ Hide
    /\ RenderRangeSummary

SubmitAnyDay ==
    /\ Click /\ form /\ ~loading /\ ToMillis(from, times.from) # Invalid /\ ToMillis(to, times.to) # Invalid
    /\ UNCHANGED <<page, days, from, to, editing, month, loading, times, status, apply, answer>>
    /\ custom' = [from |-> ToMillis(from, times.from), to |-> ToMillis(to, times.to) + Ms - 1]
    /\ Activate("custom")
Submit ==
    /\ Click /\ form
    /\ ~loading /\ from \in days /\ to \in days
    /\ UNCHANGED <<page, days, from, to, editing, month, loading, times, status, apply, answer>>
    /\ IF Acceptable(loading, days, from, to, times)
       THEN /\ custom' = [from |-> ToMillis(from, times.from), to |-> ToMillis(to, times.to) + Ms - 1]
            /\ Activate("custom")
       ELSE error' = TRUE /\ UNCHANGED <<range, custom, summary, form, current, old>>

ActivatePreset ==
    /\ Click /\ page # "settings"
    /\ UNCHANGED <<page, custom, days, from, to, editing, month, loading, times, status, apply, answer>>
    /\ Activate("preset")

NavigateKeepSummary(p) ==
    /\ Click /\ p # page
    /\ page' = p
    /\ UNCHANGED <<range, custom, summary, days, from, to, editing, month, loading, times, status, apply, answer>>
    /\ IF p = "settings" THEN Hide ELSE UNCHANGED <<form, error, current, old>>
Navigate(p) ==
    /\ Click /\ p # page
    /\ page' = p
    /\ UNCHANGED <<range, custom, days, from, to, editing, month, loading, times, status, apply, answer>>
    /\ RenderRangeSummary
    /\ IF p = "settings" THEN Hide ELSE UNCHANGED <<form, error, current, old>>

Answers == DaysFailed \/ StaleAnswered \/ \E recorded \in SUBSET Days : DaysAnswered(recorded)

Next ==
    \/ Answers
    \/ OpenForm \/ CloseForm \/ Submit \/ ActivatePreset
    \/ \E side \in {"from", "to"} : EditSide(side) \/ \E t \in Times \cup {BadTime} : EditTime(side, t)
    \/ \E d \in Days : PickDay(d)
    \/ \E by \in {-1, 1} : ShiftMonth(by)
    \/ \E p \in {"overview", "interfaces", "settings"} : Navigate(p)

Spec == Init /\ [][Next]_vars
-----------------------------------------------------------------------------
(* Properties. *)

Millis == 0..((LastDay + 1) * SecondsPerDay * Ms)
TypeOK ==
    /\ page \in {"overview", "interfaces", "settings"} /\ range \in {"preset", "custom"}
    /\ custom = NoRange \/ (custom.from \in Millis /\ custom.to \in Millis)
    /\ days \subseteq Days /\ {from, to} \subseteq Days \cup {NoDay} /\ editing \in {"from", "to"}
    /\ month \in -1..(MonthOf(LastDay) + 1) /\ {times.from, times.to} \subseteq Times \cup {BadTime}
    /\ status \in {"loading", "none", "calendar", "failed"}
    /\ {form, loading, apply, error, current} \subseteq BOOLEAN
    /\ old \in 0..MaxRequests /\ answer \subseteq SUBSET Days /\ clicks \in 0..MaxClicks

\* Only days of the newest answer come into force, a whole number of seconds and never
\* backwards, whatever older answers and selections are around (README.md:7).
AppliesRecorded ==
    custom' # custom =>
        /\ \E recorded \in answer : {InputDay(custom'.from), InputDay(custom'.to)} \subseteq recorded
        /\ custom'.from <= custom'.to /\ (custom'.to + 1 - custom'.from) % Ms = 0

\* The apply button is enabled exactly when a submit would be accepted.
ApplyTells == form => (apply <=> Acceptable(loading, days, from, to, times))

\* The form waits exactly while its newest request is under way, also after it was
\* closed in the middle of a request and opened again.
LoadingIsCurrent == form => (loading <=> current)

\* The two days never cross, in whatever order they are picked.
SelectionOrdered == from # NoDay /\ to # NoDay => from <= to

\* The arrows lead to every month with records, and to none but the one before them.
MonthsWithinRecords ==
    form /\ status = "calendar" => FirstMonth - 1 <= month /\ month <= LastMonth

\* The button that names the custom range is there exactly while that range is in force
\* on a page with data, and names it to the second.
SummaryTells ==
    summary = IF range = "custom" /\ page # "settings"
              THEN [shown |-> TRUE, from |-> Input(custom.from), to |-> Input(custom.to)]
              ELSE Hidden

\* Opening the form on a custom range and applying it again changes nothing: the
\* conversions between milliseconds and inputs are inverse to each other.
OpensOnRange ==
    OpenForm /\ range = "custom" =>
        /\ ToMillis(from', times'.from) = custom.from
        /\ ToMillis(to', times'.to) + Ms - 1 = custom.to
=============================================================================
