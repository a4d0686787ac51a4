---------------------------- MODULE EventFilters ----------------------------
(***************************************************************************)
(* What selects the rows of the request details (go/dashboard/app.js): the *)
(* filter form, state.eventFilters with its chips, the lock on a cell of   *)
(* the health grid, the upstream drilldown, the banner that announces both, *)
(* the page of the table, and the custom dropdowns drawn over the selects. *)
(*                                                                         *)
(* Of the requests only the newest counts (PageLoads is about the others): *)
(* load is the newest loadActivePage, request the newest loadEvents.  The  *)
(* provider select is handled like the model select, which stands for both.*)
(***************************************************************************)
EXTENDS Integers, FiniteSets

CONSTANTS
    Ranges, DefaultRange,
    Queries, Models, Upstreams,
    Empty,      \* '' in a field, an absent filter
    NoSlot,     \* state.healthFilter = null
    None,       \* no request, no rows
    Skeleton,   \* placeholder rows
    Cells,      \* cells in the health grid
    MaxWindow,  \* bound on the first slot of the grid
    MaxPages,   \* bound on the pages of an answer
    MaxClicks   \* bound on user actions

FilterAssumption ==
    /\ Cells \in Nat \ {0} /\ MaxWindow \in Nat /\ MaxPages \in Nat /\ MaxClicks \in Nat
    /\ DefaultRange \in Ranges /\ Empty \notin Queries \cup Models \cup Upstreams
    /\ NoSlot \notin 0..(MaxWindow + Cells - 1) /\ None \notin 0..MaxWindow

VARIABLES
    page, range,
    field,      \* the fields of #event-filters, the hidden one included
    filters,    \* state.eventFilters; the chips show its entries
    lock,       \* state.healthFilter, by its slot
    banner,     \* hidden, or what its text announces
    options,    \* the models the select offers
    label,      \* what the custom dropdowns display
    resetting,  \* the timeout of the reset button is pending
    window,     \* slot of the first cell of the health grid, None without cells
    selected,   \* cells marked is-selected
    eventPage, eventPages,
    prev, next, \* the paging buttons are enabled
    load, request,
    rows,       \* the parameters of the rows displayed
    ok,         \* the last question about rows has been answered
    clicks      \* what is left of MaxClicks

formVars == <<field, label, options, resetting>>
gridVars == <<window, selected>>
pagerVars == <<eventPages, prev, next>>
vars == <<page, range, formVars, filters, lock, banner, gridVars, eventPage, pagerVars,
          load, request, rows, ok, clicks>>

Names == {"q", "model", "status", "upstream"}
Selects == {"model", "status"}
Statuses == {"success", "failure"}
Values == Queries \cup Models \cup Upstreams \cup Statuses \cup {Empty}
Form == [q : Queries \cup {Empty}, model : Models \cup {Empty},
         status : Statuses \cup {Empty}, upstream : Upstreams \cup {Empty}]
EmptyForm == [n \in Names |-> Empty]
Slots == 0..(MaxWindow + Cells - 1)

\* eventParams: the lock replaces the time range.
Params == [base |-> IF lock = NoSlot THEN range ELSE lock, filters |-> filters, page |-> eventPage]
ParamsSet == [base : Ranges \cup Slots, filters : Form, page : 1..(MaxPages + 1)]
NextParams == [base |-> IF lock' = NoSlot THEN range' ELSE lock', filters |-> filters', page |-> eventPage']

Init ==
    /\ page = "overview" /\ range = DefaultRange
    /\ field = EmptyForm /\ filters = EmptyForm /\ lock = NoSlot /\ banner = "hidden"
    /\ options = {} /\ label = [n \in Selects |-> Empty] /\ resetting = FALSE
    /\ window = None /\ selected = {}
    /\ eventPage = 1 /\ eventPages = 0 /\ prev = TRUE /\ next = TRUE
    /\ load = [step |-> "summary", params |-> Params, rows |-> TRUE]
    /\ request = None /\ rows = None /\ ok = FALSE
    /\ clicks = MaxClicks

-----------------------------------------------------------------------------
\* loadEvents: a new question about rows, which the page load leaves to it.
LoadEvents ==
    /\ request' = NextParams /\ rows' = Skeleton /\ ok' = FALSE
    /\ load' = IF load = None THEN None ELSE [load EXCEPT !.rows = FALSE]
    /\ UNCHANGED pagerVars

\* loadActivePage: the overview reads eventParams before it awaits anything.
LoadActivePage ==
    /\ load' = [step |-> IF page' = "overview" THEN "summary" ELSE "interfaces",
                params |-> NextParams, rows |-> page' = "overview"]
    /\ request' = IF page' = "overview" THEN None ELSE request
    /\ ok' = FALSE
    /\ UNCHANGED <<rows, pagerVars>>

\* renderEvents, of an answer with n accessible pages.
NextEnabledUnlessEmpty(p, n) == n > 0
NextEnabled(p, n) == n > 0 /\ p.page < n
RenderEvents(p, n) ==
    /\ rows' = p /\ ok' = TRUE
    /\ eventPages' = n
    /\ prev' = (p.page > 1) /\ next' = NextEnabled(p, n)

\* syncCustomSelectOptions: the label of the option that matches, or of the first one.
Synced(lab, form, names, offered) ==
    [n \in Selects |->
        CASE n \notin names -> lab[n]
          [] n \in names /\ n = "model" /\ form[n] \notin offered -> Empty
          [] OTHER -> form[n]]

Answering == UNCHANGED <<page, range, filters, lock, banner, resetting, eventPage, clicks>>

\* renderHealth moves the window, back too when the server answers from its cache, and draws
\* the cells whose signature changed; without any point (w = None) it removes them all.
CellSelectedAsBefore(i, changed, w) == i \in selected
CellSelected(i, changed, w) == IF i \in changed THEN w + i = lock ELSE i \in selected

SummaryAnswered(w, changed) ==
    /\ load # None /\ load.step = "summary"
    /\ w \notin {window, None} => changed = 0..(Cells - 1)
    /\ w = None => changed = {}
    /\ window' = w
    /\ selected' = IF w = None THEN {} ELSE {i \in 0..(Cells - 1) : CellSelected(i, changed, w)}
    /\ load' = [load EXCEPT !.step = "analysis"]
    /\ Answering /\ UNCHANGED <<field, label, options, pagerVars, request, rows, ok>>

\* fillSelect keeps the choice if the new options still have it.
AnalysisAnswered(models) ==
    /\ load # None /\ load.step = "analysis"
    /\ options' = models
    /\ field' = [field EXCEPT !["model"] = IF @ \in models THEN @ ELSE Empty]
    /\ label' = Synced(label, field', {"model"}, models)
    /\ load' = IF load.rows THEN [load EXCEPT !.step = "events"] ELSE None
    /\ Answering /\ UNCHANGED <<gridVars, pagerVars, request, rows, ok>>

\* The last answer of a page load.
LoadEnds(n) ==
    /\ load # None /\ load.step \in {"events", "interfaces"}
    /\ load' = None
    /\ IF load.rows THEN RenderEvents(load.params, n) ELSE UNCHANGED <<rows, ok, pagerVars>>
    /\ Answering /\ UNCHANGED <<field, label, options, gridVars, request>>

LoadFails ==
    /\ load # None
    /\ load' = None
    /\ Answering /\ UNCHANGED <<field, label, options, gridVars, pagerVars, request, rows, ok>>

EventsAnswered(n) ==
    /\ request # None
    /\ request' = None
    /\ RenderEvents(request, n)
    /\ Answering /\ UNCHANGED <<field, label, options, gridVars, load>>

EventsFail ==
    /\ request # None
    /\ request' = None
    /\ Answering /\ UNCHANGED <<field, label, options, gridVars, pagerVars, load, rows, ok>>

-----------------------------------------------------------------------------
Click == clicks > 0 /\ clicks' = clicks - 1
OnOverview == Click /\ page = "overview" /\ UNCHANGED <<page, range>>

\* A field is typed into, or an option picked; nothing applies before the submit.
Edit(n, v) ==
    /\ OnOverview /\ n # "upstream"
    /\ n = "model" => v \in options \cup {Empty}
    /\ [field EXCEPT ![n] = v] \in Form
    /\ field' = [field EXCEPT ![n] = v]
    /\ label' = IF n \in Selects THEN [label EXCEPT ![n] = v] ELSE label
    /\ UNCHANGED <<options, resetting, filters, lock, banner, gridVars, eventPage, pagerVars,
                   load, request, rows, ok>>

\* A dropdown is opened, which brings its label up to date, and closed.
OpenSelect(n) ==
    /\ OnOverview
    /\ label' = Synced(label, field, {n}, options)
    /\ UNCHANGED <<field, options, resetting, filters, lock, banner, gridVars, eventPage, pagerVars,
                   load, request, rows, ok>>

Submit ==
    /\ OnOverview
    /\ filters' = field
    /\ eventPage' = 1
    /\ UNCHANGED <<formVars, lock, banner, gridVars>>
    /\ LoadEvents

\* HTMLFormElement.reset leaves the value of a hidden input alone.
FormReset == [field EXCEPT !["q"] = Empty, !["model"] = Empty, !["status"] = Empty]

\* The reset button; the labels follow in a task of their own.
EventReset ==
    /\ OnOverview
    /\ field' = [FormReset EXCEPT !["upstream"] = Empty]
    /\ filters' = EmptyForm
    /\ lock' = NoSlot /\ banner' = "hidden" /\ selected' = {}
    /\ eventPage' = 1
    /\ resetting' = TRUE
    /\ UNCHANGED <<label, options, window>>
    /\ LoadEvents

ResetTimeout ==
    /\ resetting
    /\ resetting' = FALSE
    /\ field' = [field EXCEPT !["model"] = Empty, !["status"] = Empty]
    /\ label' = [n \in Selects |-> Empty]
    /\ UNCHANGED <<page, range, options, filters, lock, banner, gridVars, eventPage, pagerVars,
                   load, request, rows, ok, clicks>>

ChipBannerStays(n) == banner
ChipBanner(n) == IF n = "upstream" THEN "hidden" ELSE banner

RemoveChipSamePage(n) ==
    /\ OnOverview /\ filters[n] # Empty
    /\ filters' = [filters EXCEPT ![n] = Empty]
    /\ field' = [field EXCEPT ![n] = Empty]
    /\ label' = Synced(label, field', {n}, options)
    /\ banner' = ChipBanner(n)
    /\ UNCHANGED <<options, resetting, lock, gridVars, eventPage>>
    /\ LoadEvents
RemoveChip(n) ==
    /\ OnOverview /\ filters[n] # Empty
    /\ filters' = [filters EXCEPT ![n] = Empty]
    /\ field' = [field EXCEPT ![n] = Empty]
    /\ label' = Synced(label, field', {n}, options)
    /\ banner' = ChipBanner(n)
    /\ eventPage' = 1
    /\ UNCHANGED <<options, resetting, lock, gridVars>>
    /\ LoadEvents

\* The buttons keep the state of the last answer while the next one is under way.
Turn(by) ==
    /\ OnOverview
    /\ IF by < 0 THEN prev /\ eventPage > 1 ELSE next /\ eventPage < eventPages
    /\ eventPage' = eventPage + by
    /\ UNCHANGED <<formVars, filters, lock, banner, gridVars>>
    /\ LoadEvents

-----------------------------------------------------------------------------
\* setEventFilterForm: every field, every dropdown and the chips follow next.
SetFormUnsynced(next_) == field' = next_ /\ UNCHANGED label /\ filters' = next_
SetForm(next_) ==
    /\ field' = next_
    /\ label' = Synced(label, field', Selects, options)
    /\ filters' = next_

\* A click on a cell with requests; failing says that some of them failed.
ApplyHealthDrilldown(i, failing) ==
    /\ OnOverview /\ window # None
    /\ lock' = window + i /\ selected' = {i}
    /\ banner' = "slot"
    /\ eventPage' = 1
    /\ SetForm([EmptyForm EXCEPT !["status"] = IF failing THEN "failure" ELSE Empty])
    /\ UNCHANGED <<options, resetting, window>>
    /\ LoadEvents

\* The button in the banner.
ClearHealthDrilldown ==
    /\ OnOverview /\ banner # "hidden"
    /\ lock' = NoSlot /\ selected' = {} /\ banner' = "hidden"
    /\ SetForm(EmptyForm)
    /\ eventPage' = 1
    /\ UNCHANGED <<options, resetting, window>>
    /\ LoadEvents

\* The button in the drawer of an upstream, which only the interfaces page opens.
DrilldownUpstreamLocked(u) ==
    /\ Click /\ page = "interfaces"
    /\ page' = "overview"
    /\ selected' = {}
    /\ SetForm([EmptyForm EXCEPT !["upstream"] = u])
    /\ eventPage' = 1 /\ banner' = "upstream"
    /\ UNCHANGED <<range, options, resetting, window, lock>>
    /\ LoadActivePage
DrilldownUpstream(u) ==
    /\ Click /\ page = "interfaces"
    /\ page' = "overview"
    /\ lock' = NoSlot /\ selected' = {}
    /\ SetForm([EmptyForm EXCEPT !["upstream"] = u])
    /\ eventPage' = 1 /\ banner' = "upstream"
    /\ UNCHANGED <<range, options, resetting, window>>
    /\ LoadActivePage

\* Navigation, the refresh button and the automatic refresh.
Load(p) ==
    /\ Click /\ page' = p
    /\ UNCHANGED <<range, formVars, filters, lock, banner, gridVars, eventPage>>
    /\ LoadActivePage

\* A preset or the custom range; the selects are reset behind their dropdowns.
ActivateRange(r) ==
    /\ Click
    /\ range' = r
    /\ eventPage' = 1
    /\ filters' = EmptyForm /\ lock' = NoSlot /\ banner' = "hidden" /\ selected' = {}
    /\ field' = FormReset
    /\ UNCHANGED <<page, label, options, resetting, window>>
    /\ LoadActivePage

-----------------------------------------------------------------------------
Answers ==
    \/ \E w \in 0..MaxWindow \cup {None}, changed \in SUBSET (0..(Cells - 1)) : SummaryAnswered(w, changed)
    \/ \E models \in SUBSET Models : AnalysisAnswered(models)
    \/ \E n \in 0..MaxPages : LoadEnds(n) \/ EventsAnswered(n)
    \/ LoadFails \/ EventsFail \/ ResetTimeout

User ==
    \/ \E n \in Names, v \in Values : Edit(n, v)
    \/ \E n \in Selects : OpenSelect(n)
    \/ Submit \/ EventReset \/ ClearHealthDrilldown
    \/ \E n \in Names : RemoveChip(n)
    \/ \E by \in {-1, 1} : Turn(by)
    \/ \E i \in 0..(Cells - 1), failing \in BOOLEAN : ApplyHealthDrilldown(i, failing)
    \/ \E u \in Upstreams : DrilldownUpstream(u)
    \/ \E p \in {"overview", "interfaces"} : Load(p)
    \/ \E r \in Ranges : ActivateRange(r)

Next == Answers \/ User

Spec == Init /\ [][Next]_vars
-----------------------------------------------------------------------------
(* Properties. *)

TypeOK ==
    /\ page \in {"overview", "interfaces"} /\ range \in Ranges
    /\ field \in Form /\ filters \in Form
    /\ lock \in Slots \cup {NoSlot} /\ banner \in {"hidden", "slot", "upstream"}
    /\ options \subseteq Models /\ label \in [Selects -> Values]
    /\ window \in 0..MaxWindow \cup {None} /\ selected \subseteq 0..(Cells - 1)
    /\ eventPage \in 1..(MaxPages + 1) /\ eventPages \in 0..MaxPages
    /\ {resetting, prev, next, ok} \subseteq BOOLEAN
    /\ request \in ParamsSet \cup {None} /\ rows \in ParamsSet \cup {None, Skeleton}
    /\ load = None \/ load \in [step : {"summary", "analysis", "events", "interfaces"},
                                params : ParamsSet, rows : BOOLEAN]
    /\ clicks \in 0..MaxClicks

\* A lock on a time slot and an upstream filter replace each other, through any sequence
\* of submits, resets, chips, drilldowns and range changes ("an upstream drilldown
\* replaces the health-cell lock", app_test.cjs).
LockReplacesUpstream == lock # NoSlot => filters["upstream"] = Empty

\* The banner never announces what no longer holds, and a lock never goes unannounced.
BannerIsTrue ==
    /\ banner = "slot" <=> lock # NoSlot
    /\ banner = "upstream" => filters["upstream"] # Empty

\* The grid marks exactly the locked slot, also after the window has moved on and
\* although cells with unchanged figures are not drawn again.
LockIsHighlighted ==
    window # None => selected = {i \in 0..(Cells - 1) : window + i = lock}

\* With nothing under way and the last answer received, the rows are those of the lock,
\* range, chips and page on display, and an enabled paging button leads somewhere.
RowsAreApplied ==
    page = "overview" /\ load = None /\ request = None /\ ok =>
        /\ rows = Params
        /\ prev <=> eventPage > 1
        /\ next <=> eventPage < eventPages

\* Whatever changes the selection of the rows starts again at the first page.
StartsAtFirstPage == <<range, lock, filters>>' # <<range, lock, filters>> => eventPage' = 1

\* A dropdown that shows the value of its select goes on doing so, except that a range
\* change and, until its timeout, the reset button change selects behind their dropdowns.
LabelStaysTrue ==
    label = [n \in Selects |-> field[n]] =>
        \/ label' = [n \in Selects |-> field'[n]]
        \/ EventReset \/ \E r \in Ranges : ActivateRange(r)

\* Without an upstream filter the hidden field is empty, so that a submit brings none
\* back (the assertions after each way to remove it in app_test.cjs).
UpstreamFieldFollows == filters["upstream"] = Empty => field["upstream"] = Empty
=============================================================================
