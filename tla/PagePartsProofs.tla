--------------------------- MODULE PagePartsProofs ---------------------------
(***************************************************************************)
(* The parts of the page.  A step of the page is one of a part or leaves   *)
(* that part alone, so the invariant of a part speaks of its variables     *)
(* only.                                                                   *)
(*                                                                         *)
(* The drawer: what the two guards of openUpstream, the request number and *)
(* the abort, achieve together is that a request that would still be       *)
(* rendered is one for what was opened last, in a drawer that is open.     *)
(* From this follow what it shows, where, and that its skeleton goes.      *)
(*                                                                         *)
(* The selection: whatever changes it asks for the rows anew, so of all    *)
(* questions the one whose answer is rendered is about what is selected,   *)
(* and the hidden field of the form follows lock and banner.               *)
(*                                                                         *)
(* The calendar: a range in force is made of two days and two times of the *)
(* form, which the conversions give back; the months on display belong to  *)
(* the days received, and only an open form waits.                         *)
(*                                                                         *)
(* The charts: the youngest animation leads to the figure wanted and ends  *)
(* last, only charts have handlers, and the frames requested by charts     *)
(* that were replaced have a smaller serial than the one on display.       *)
(***************************************************************************)
EXTENDS PageParts, Sequences, TLAPS, WellFoundedInduction, SequenceTheorems

-----------------------------------------------------------------------------
(* The drawer.                                                             *)

\* The types the steps rely on.
DrawerTyped ==
    /\ drawerPage \in {"overview", "interfaces", "settings"} /\ drawerRange \in Ranges /\ open \in BOOLEAN
    /\ requests \subseteq Drawer!Request

\* An open drawer displays what was opened last, and that belongs to page and range.
Displayed ==
    open => /\ content.of = subject /\ subject.range = drawerRange
            /\ drawerPage # "settings" /\ (subject.item \in Upstreams => drawerPage = "interfaces")

\* The guards let through only a request for what was opened last.
Guarded == \A r \in requests : Drawer!Current(r) => open /\ r.of = subject

DrawerInv == DrawerTyped /\ Displayed /\ Guarded /\ Drawer!LoadingIsAwaited

\* Aborting the newest request leaves none that would be rendered.
LEMMA SupersededOld ==
  ASSUME requests \subseteq Drawer!Request
  PROVE  Drawer!Superseded \subseteq Drawer!Request /\ \A r \in Drawer!Superseded : ~Drawer!Current(r)
  BY DEF Drawer!Superseded, Drawer!Request, Drawer!Current

\* Whatever closes the drawer keeps the invariant, and so may page and range change with it.
LEMMA DrawerCloseKeeps ==
  ASSUME DrawerInv, Drawer!CloseDrawer,
         drawerPage' \in {"overview", "interfaces", "settings"}, drawerRange' \in Ranges
  PROVE  DrawerInv'
  BY SupersededOld DEF DrawerInv, DrawerTyped, Displayed, Guarded, Drawer!LoadingIsAwaited,
     Drawer!CloseDrawer

\* Opening an upstream: its request is the only one to be rendered.
LEMMA DrawerOpenKeeps ==
  ASSUME DrawerInv, NEW u \in Upstreams, Drawer!OpenUpstream(u)
  PROVE  DrawerInv'
<1> DEFINE new == [of |-> subject', newest |-> TRUE, aborted |-> FALSE]
<1>1. /\ open' = TRUE /\ subject' = [item |-> u, range |-> drawerRange]
      /\ content' = [of |-> subject', state |-> "loading"]
      /\ requests' = Drawer!Superseded \cup {new}
      /\ drawerPage = "interfaces" /\ drawerPage' = drawerPage /\ drawerRange' = drawerRange
  BY DEF Drawer!OpenUpstream
<1>2. subject' \in Drawer!Subject
  BY <1>1 DEF Drawer!Subject, DrawerInv, DrawerTyped
<1>3. new \in Drawer!Request /\ Drawer!Current(new) /\ new.of = subject'
  BY <1>2 DEF Drawer!Request, Drawer!Current
<1>4. DrawerTyped'
  BY <1>1, <1>3, SupersededOld DEF DrawerInv, DrawerTyped
<1>5. Displayed'
  BY <1>1 DEF Displayed
<1>6. Guarded'
  BY <1>1, <1>3, SupersededOld DEF Guarded, DrawerInv, DrawerTyped, Drawer!Current
<1>7. Drawer!LoadingIsAwaited'
  BY <1>1, <1>3 DEF Drawer!LoadingIsAwaited, Drawer!Current
<1> QED
  BY <1>4, <1>5, <1>6, <1>7 DEF DrawerInv

\* Opening the detail of an event needs no request.
LEMMA DrawerEventKeeps ==
  ASSUME DrawerInv, NEW e \in Events, Drawer!OpenEventDetail(e)
  PROVE  DrawerInv'
<1>1. /\ open' = TRUE /\ subject' = [item |-> e, range |-> drawerRange]
      /\ content' = [of |-> subject', state |-> "loaded"]
      /\ requests' = Drawer!Superseded /\ drawerPage' = drawerPage /\ drawerRange' = drawerRange
      /\ drawerPage = "overview" \/ open
  BY DEF Drawer!OpenEventDetail
<1>2. drawerPage # "settings" /\ e \notin Upstreams
  BY <1>1, PartsAssumption DEF DrawerInv, Displayed, Drawer!DrawerAssumption
<1> QED
  BY <1>1, <1>2, SupersededOld DEF DrawerInv, DrawerTyped, Displayed, Guarded,
     Drawer!LoadingIsAwaited

\* An answer or an error ends the loading if its request is the current one; another one
\* leaves the current request under way.
LEMMA DrawerAnswerKeeps ==
  ASSUME DrawerInv, NEW r \in requests,
         Drawer!UpstreamFailed(r) \/ \E es \in SUBSET Events : Drawer!UpstreamAnswered(r, es)
  PROVE  DrawerInv'
<1>1. /\ requests' = requests \ {r} /\ UNCHANGED <<drawerPage, drawerRange, open, subject>>
      /\ ~Drawer!Current(r) => content' = content
      /\ Drawer!Current(r) => content'.of = r.of /\ content'.state \in {"loaded", "failed"}
  BY DEF Drawer!UpstreamFailed, Drawer!UpstreamAnswered
<1>2. DrawerTyped' /\ Guarded'
  BY <1>1 DEF DrawerInv, DrawerTyped, Guarded, Drawer!Current
<1>3. Displayed'
  BY <1>1 DEF DrawerInv, Displayed, Guarded
<1>4. Drawer!LoadingIsAwaited'
  BY <1>1 DEF DrawerInv, Drawer!LoadingIsAwaited, Drawer!Current
<1> QED
  BY <1>2, <1>3, <1>4 DEF DrawerInv

\* The invariant of the drawer, for any upstreams, events, ranges and bounds, whatever the rest
\* of the page does.
THEOREM DrawerInvariant == Spec => []DrawerInv
<1>1. Init => DrawerInv
  BY PartsAssumption DEF Init, Drawer!Init, Drawer!DrawerAssumption, DrawerInv, DrawerTyped,
                         Displayed, Guarded, Drawer!LoadingIsAwaited
<1>2. DrawerInv /\ [Next]_vars => DrawerInv'
  <2> SUFFICES ASSUME DrawerInv, [Next]_vars PROVE DrawerInv'
    OBVIOUS
  <2> USE DEF DrawerInv, DrawerTyped
  <2>1. CASE Drawer!Answers
    BY <2>1, DrawerAnswerKeeps DEF Drawer!Answers
  <2>2. CASE \E u \in Upstreams : Drawer!OpenUpstream(u)
    BY <2>2, DrawerOpenKeeps
  <2>3. CASE \E e \in Events : Drawer!OpenEventDetail(e)
    BY <2>3, DrawerEventKeeps
  <2>4. CASE Drawer!Close
    BY <2>4, DrawerCloseKeeps DEF Drawer!Close
  <2>5. CASE Drawer!DrilldownUpstream
    BY <2>5, DrawerCloseKeeps DEF Drawer!DrilldownUpstream
  <2>6. CASE \E p \in {"overview", "interfaces", "settings"} : Drawer!Navigate(p)
    BY <2>6, DrawerCloseKeeps DEF Drawer!Navigate
  <2>7. CASE \E r \in Ranges : Drawer!ActivateRange(r)
    BY <2>7, DrawerCloseKeeps DEF Drawer!ActivateRange
  <2>8. CASE UNCHANGED drawerVars
    BY <2>8 DEF drawerVars, Displayed, Guarded, Drawer!LoadingIsAwaited, Drawer!Current
  <2>9. Drawer!Next \/ UNCHANGED drawerVars
    BY DEF Next, DrawerMoves, FiltersMove, CalendarMoves, ChartsMove, vars
  <2> QED
    BY <2>1, <2>2, <2>3, <2>4, <2>5, <2>6, <2>7, <2>8, <2>9 DEF Drawer!Next
<1> QED
  BY <1>1, <1>2, PTL DEF Spec

\* An open drawer is about what was opened last, fits its page and range and waits only for
\* a request that will fill it (openUpstream, app.js:2276), whatever the rest of the page does.
THEOREM DrawerCorrect == Spec => []DrawerIsTrue
<1>1. DrawerInv => DrawerIsTrue
  BY DEF DrawerInv, Displayed, DrawerIsTrue, Drawer!DrawerIsTrue, Drawer!ShowsLastOpened,
         Drawer!FitsThePage
<1> QED
  BY <1>1, DrawerInvariant, PTL

-----------------------------------------------------------------------------
(* The selection of the rows.                                              *)

\* A submit takes the form over as it is, so the hidden field has to follow lock and banner.
FormFollows ==
    /\ lock # NoSlot => field.upstream = Empty
    /\ banner = "upstream" => field.upstream # Empty

\* What is asked or displayed is what is selected: whatever changes the selection asks anew.
QuestionsAreCurrent ==
    filterPage = "overview" =>
        /\ load # None /\ load.rows => load.params = Filters!Params
        /\ request # None => request = Filters!Params
        /\ ok => /\ rows = Filters!Params
                 /\ prev <=> eventPage > 1
                 /\ next <=> eventPage < eventPages

\* The types of the selection and the form, and those of questions and answers.
SelectionTyped ==
    /\ filterPage \in {"overview", "interfaces"} /\ filterRange \in Ranges
    /\ field \in Filters!Form /\ filters \in Filters!Form
    /\ lock \in Filters!Slots \cup {NoSlot} /\ banner \in {"hidden", "slot", "upstream"}
    /\ options \subseteq Models /\ label \in [Filters!Selects -> Filters!Values]
    /\ window \in 0..MaxWindow \cup {None} /\ selected \subseteq 0..(Cells - 1)
    /\ eventPage \in 1..(MaxPages + 1) /\ resetting \in BOOLEAN
    /\ filterClicks \in 0..FilterClicks
AnswersTyped ==
    /\ eventPages \in 0..MaxPages /\ {prev, next, ok} \subseteq BOOLEAN
    /\ request \in Filters!ParamsSet \cup {None} /\ rows \in Filters!ParamsSet \cup {None, Skeleton}
    /\ load = None \/ load \in [step : {"summary", "analysis", "events", "interfaces"},
                                params : Filters!ParamsSet, rows : BOOLEAN]

Consistent ==
    Filters!LockReplacesUpstream /\ Filters!BannerIsTrue /\ Filters!LockIsHighlighted /\ FormFollows

FilterInv == SelectionTyped /\ AnswersTyped /\ Consistent /\ QuestionsAreCurrent

\* Emptying a field leaves a form, whose other fields are as before.
LEMMA FormEdits ==
  ASSUME NEW f \in Filters!Form, NEW n \in Filters!Names
  PROVE  /\ [f EXCEPT ![n] = Empty] \in Filters!Form /\ [f EXCEPT ![n] = Empty][n] = Empty
         /\ \A m \in Filters!Names \ {n} : [f EXCEPT ![n] = Empty][m] = f[m]
  BY DEF Filters!Form, Filters!Names

\* The empty form is one, and fields hold what a dropdown can display.
LEMMA FormTypes ==
  /\ Filters!EmptyForm \in Filters!Form /\ \A n \in Filters!Names : Filters!EmptyForm[n] = Empty
  /\ \A f \in Filters!Form : \A n \in Filters!Names : f[n] \in Filters!Values
  BY DEF Filters!Form, Filters!Names, Filters!EmptyForm, Filters!Values

\* Bringing dropdowns up to date gives them values.
LEMMA LabelTypes ==
  ASSUME NEW l \in [Filters!Selects -> Filters!Values], NEW f \in Filters!Form, NEW names, NEW offered
  PROVE  Filters!Synced(l, f, names, offered) \in [Filters!Selects -> Filters!Values]
  BY FormTypes DEF Filters!Synced, Filters!Selects, Filters!Values, Filters!Names

\* What is selected makes a question.
LEMMA ParamTypes ==
  ASSUME SelectionTyped
  PROVE  Filters!Params \in Filters!ParamsSet
  BY PartsAssumption DEF SelectionTyped, Filters!Params, Filters!ParamsSet

\* A question asked in a step is about the selection after it.
LEMMA NewParams ==
  ASSUME SelectionTyped'
  PROVE  Filters!NextParams \in Filters!ParamsSet /\ Filters!NextParams = (Filters!Params)'
  BY DEF SelectionTyped, Filters!NextParams, Filters!ParamsSet, Filters!Params

\* Whoever changes the selection asks for the rows, here or with the whole page.
LEMMA Asking ==
  ASSUME FilterInv, SelectionTyped', Filters!LoadEvents \/ Filters!LoadActivePage
  PROVE  AnswersTyped' /\ QuestionsAreCurrent'
<1>1. Filters!NextParams \in Filters!ParamsSet /\ Filters!NextParams = (Filters!Params)'
  BY NewParams
<1>2. AnswersTyped
  BY DEF FilterInv
<1>3. CASE Filters!LoadEvents
  BY <1>1, <1>2, <1>3 DEF Filters!LoadEvents, AnswersTyped, QuestionsAreCurrent, Filters!pagerVars
<1>4. CASE Filters!LoadActivePage
  BY <1>1, <1>2, <1>4 DEF Filters!LoadActivePage, AnswersTyped, QuestionsAreCurrent,
     Filters!pagerVars
<1> QED
  BY <1>3, <1>4

USE DEF Filters!LockReplacesUpstream, Filters!BannerIsTrue, Filters!LockIsHighlighted, FormFollows

\* Whatever changes the selection keeps lock, banner, grid and form in agreement and asks anew:
\* a submit, whose hidden field follows the lock,
LEMMA SubmitKeeps ==
  ASSUME SelectionTyped, Consistent, Filters!Submit
  PROVE  SelectionTyped' /\ Consistent' /\ Filters!LoadEvents
  BY PartsAssumption DEF SelectionTyped, Consistent, Filters!Submit, Filters!OnOverview,
     Filters!Click,
     Filters!formVars, Filters!gridVars, Filters!FilterAssumption

\* the reset button, which clears all of them,
LEMMA EventResetKeeps ==
  ASSUME SelectionTyped, Consistent, Filters!EventReset
  PROVE  SelectionTyped' /\ Consistent' /\ Filters!LoadEvents
  BY PartsAssumption, FormTypes DEF SelectionTyped, Consistent, Filters!EventReset,
     Filters!OnOverview, Filters!Click,
     Filters!FilterAssumption, Filters!Names, Filters!FormReset, Filters!Form

\* a chip, which takes its banner along,
LEMMA RemoveChipKeeps ==
  ASSUME SelectionTyped, Consistent, NEW n \in Filters!Names, Filters!RemoveChip(n)
  PROVE  SelectionTyped' /\ Consistent' /\ Filters!LoadEvents
<1>1. /\ field' \in Filters!Form /\ filters' \in Filters!Form
      /\ field'["upstream"] = IF n = "upstream" THEN Empty ELSE field["upstream"]
      /\ filters'["upstream"] = IF n = "upstream" THEN Empty ELSE filters["upstream"]
      /\ filters[n] # Empty
  <2>1. /\ field \in Filters!Form /\ filters \in Filters!Form /\ filters[n] # Empty
        /\ field' = [field EXCEPT ![n] = Empty] /\ filters' = [filters EXCEPT ![n] = Empty]
    BY DEF SelectionTyped, Filters!RemoveChip
  <2>2. "upstream" \in Filters!Names
    BY DEF Filters!Names
  <2> QED
    <3>1. ASSUME NEW f \in Filters!Form
          PROVE  /\ [f EXCEPT ![n] = Empty] \in Filters!Form
                 /\ [f EXCEPT ![n] = Empty]["upstream"] = IF n = "upstream" THEN Empty ELSE f["upstream"]
      BY <2>2, FormEdits
    <3> QED
      BY <2>1, <3>1
<1>2. label' \in [Filters!Selects -> Filters!Values]
  BY <1>1, LabelTypes DEF Filters!RemoveChip, SelectionTyped
<1>3. /\ banner' = IF n = "upstream" THEN "hidden" ELSE banner
      /\ UNCHANGED <<filterPage, filterRange, options, resetting, lock, window, selected>>
      /\ eventPage' = 1 /\ filterClicks > 0 /\ filterClicks' = filterClicks - 1 /\ Filters!LoadEvents
  BY DEF Filters!RemoveChip, Filters!ChipBanner, Filters!OnOverview, Filters!Click, Filters!gridVars
<1> QED
  BY <1>1, <1>2, <1>3, PartsAssumption DEF SelectionTyped, Consistent, Filters!FilterAssumption

\* a paging button, which stays within the pages of the last answer,
LEMMA TurnKeeps ==
  ASSUME FilterInv, NEW by \in {-1, 1}, Filters!Turn(by)
  PROVE  SelectionTyped' /\ Consistent' /\ Filters!LoadEvents
  BY PartsAssumption DEF FilterInv, SelectionTyped, AnswersTyped, Consistent, Filters!Turn,
     Filters!OnOverview, Filters!Click,
     Filters!FilterAssumption, Filters!formVars, Filters!gridVars

\* (the whole form is set)
LEMMA SetFormSets ==
  ASSUME SelectionTyped, NEW f \in Filters!Form, Filters!SetForm(f)
  PROVE  field' = f /\ filters' = f /\ label' \in [Filters!Selects -> Filters!Values]
  BY LabelTypes DEF Filters!SetForm, SelectionTyped

\* a cell of the grid, which replaces an upstream filter,
LEMMA HealthDrilldownKeeps ==
  ASSUME SelectionTyped, Consistent, NEW i \in 0..(Cells - 1), NEW failing \in BOOLEAN,
         Filters!ApplyHealthDrilldown(i, failing)
  PROVE  SelectionTyped' /\ Consistent' /\ Filters!LoadEvents
<1> DEFINE f == [Filters!EmptyForm EXCEPT !["status"] = IF failing THEN "failure" ELSE Empty]
<1>1. f \in Filters!Form /\ f["upstream"] = Empty
  BY DEF Filters!Form, Filters!EmptyForm, Filters!Names, Filters!Statuses
<1>2. field' = f /\ filters' = f /\ label' \in [Filters!Selects -> Filters!Values]
  BY <1>1, SetFormSets DEF Filters!ApplyHealthDrilldown
<1>3. /\ window # None /\ lock' = window + i /\ selected' = {i} /\ banner' = "slot"
      /\ UNCHANGED <<filterPage, filterRange, options, resetting, window>>
      /\ eventPage' = 1 /\ filterClicks > 0 /\ filterClicks' = filterClicks - 1 /\ Filters!LoadEvents
  BY DEF Filters!ApplyHealthDrilldown, Filters!OnOverview, Filters!Click
<1>4. window \in Nat /\ lock' \in Filters!Slots /\ lock' # NoSlot
  BY <1>3, PartsAssumption DEF SelectionTyped, Filters!Slots, Filters!FilterAssumption
<1>5. Filters!LockIsHighlighted'
  BY <1>3, <1>4, PartsAssumption DEF SelectionTyped, Filters!FilterAssumption
<1> HIDE DEF f
<1> QED
  BY <1>1, <1>2, <1>3, <1>4, <1>5, PartsAssumption DEF SelectionTyped, Consistent,
     Filters!FilterAssumption

\* the button of the banner,
LEMMA ClearHealthDrilldownKeeps ==
  ASSUME SelectionTyped, Consistent, Filters!ClearHealthDrilldown
  PROVE  SelectionTyped' /\ Consistent' /\ Filters!LoadEvents
<1>1. field' = Filters!EmptyForm /\ filters' = Filters!EmptyForm /\ label' \in [Filters!Selects -> Filters!Values]
  BY FormTypes, SetFormSets DEF Filters!ClearHealthDrilldown
<1> QED
  BY <1>1, FormTypes, PartsAssumption DEF SelectionTyped, Consistent, Filters!FilterAssumption,
     Filters!ClearHealthDrilldown,
     Filters!OnOverview, Filters!Click, Filters!Names

\* the drilldown to an upstream, which replaces a lock,
LEMMA UpstreamDrilldownKeeps ==
  ASSUME SelectionTyped, Consistent, NEW u \in FilterUpstreams, Filters!DrilldownUpstream(u)
  PROVE  SelectionTyped' /\ Consistent' /\ Filters!LoadActivePage
<1> DEFINE f == [Filters!EmptyForm EXCEPT !["upstream"] = u]
<1>1. f \in Filters!Form /\ f["upstream"] = u
  BY DEF Filters!Form, Filters!EmptyForm, Filters!Names, Filters!Statuses
<1>2. field' = f /\ filters' = f /\ label' \in [Filters!Selects -> Filters!Values]
  BY <1>1, SetFormSets DEF Filters!DrilldownUpstream
<1> HIDE DEF f
<1> QED
  BY <1>1, <1>2, PartsAssumption DEF SelectionTyped, Consistent, Filters!FilterAssumption,
     Filters!DrilldownUpstream,
     Filters!Click

\* a page load, which changes nothing of the selection,
LEMMA LoadKeeps ==
  ASSUME SelectionTyped, Consistent, NEW p \in {"overview", "interfaces"}, Filters!Load(p)
  PROVE  SelectionTyped' /\ Consistent' /\ Filters!LoadActivePage
  BY PartsAssumption DEF SelectionTyped, Consistent, Filters!FilterAssumption, Filters!Load,
     Filters!Click, Filters!formVars, Filters!gridVars

\* and another range, which clears all but the labels.
LEMMA RangeKeeps ==
  ASSUME SelectionTyped, Consistent, NEW r \in Ranges, Filters!ActivateRange(r)
  PROVE  SelectionTyped' /\ Consistent' /\ Filters!LoadActivePage
  BY PartsAssumption, FormTypes DEF SelectionTyped, Consistent, Filters!FilterAssumption,
     Filters!ActivateRange,
     Filters!Click, Filters!FormReset, Filters!Form, Filters!Names

\* Steps that leave the selection alone: typing,
LEMMA EditKeeps ==
  ASSUME FilterInv, NEW n \in Filters!Names, NEW v \in Filters!Values, Filters!Edit(n, v)
  PROVE  FilterInv'
<1>1. /\ SelectionTyped /\ AnswersTyped /\ n # "upstream"
      /\ field' = [field EXCEPT ![n] = v] /\ field' \in Filters!Form
      /\ label' = IF n \in Filters!Selects THEN [label EXCEPT ![n] = v] ELSE label
      /\ UNCHANGED <<filterPage, filterRange, options, resetting, filters, lock, banner, window, selected,
                     eventPage, eventPages, prev, next, load, request, rows, ok>>
      /\ filterClicks > 0 /\ filterClicks' = filterClicks - 1
  BY DEF FilterInv, Filters!Edit, Filters!OnOverview, Filters!Click, Filters!gridVars,
     Filters!pagerVars
<1>2. field'["upstream"] = field["upstream"] /\ label' \in [Filters!Selects -> Filters!Values]
  BY <1>1 DEF SelectionTyped, Filters!Form
<1>3. SelectionTyped' /\ AnswersTyped'
  BY <1>1, <1>2, PartsAssumption DEF SelectionTyped, AnswersTyped, Filters!FilterAssumption
<1>4. Consistent' /\ QuestionsAreCurrent'
  BY <1>1, <1>2 DEF FilterInv, Consistent, QuestionsAreCurrent, Filters!Params
<1> QED
  BY <1>3, <1>4 DEF FilterInv

\* opening a dropdown,
LEMMA OpenSelectKeeps ==
  ASSUME FilterInv, NEW n \in Filters!Selects, Filters!OpenSelect(n)
  PROVE  FilterInv'
<1>1. /\ SelectionTyped /\ AnswersTyped
      /\ UNCHANGED <<filterPage, filterRange, field, options, resetting, filters, lock, banner, window, selected,
                     eventPage, eventPages, prev, next, load, request, rows, ok>>
      /\ filterClicks > 0 /\ filterClicks' = filterClicks - 1
  BY DEF FilterInv, Filters!OpenSelect, Filters!OnOverview, Filters!Click, Filters!gridVars,
     Filters!pagerVars
<1>2. label' \in [Filters!Selects -> Filters!Values]
  BY LabelTypes DEF SelectionTyped, FilterInv, Filters!OpenSelect
<1>3. SelectionTyped' /\ AnswersTyped'
  BY <1>1, <1>2, PartsAssumption DEF SelectionTyped, AnswersTyped, Filters!FilterAssumption
<1>4. Consistent' /\ QuestionsAreCurrent'
  BY <1>1, <1>2 DEF FilterInv, Consistent, QuestionsAreCurrent, Filters!Params
<1> QED
  BY <1>3, <1>4 DEF FilterInv

\* the timeout of the reset button,
LEMMA ResetTimeoutKeeps ==
  ASSUME FilterInv, Filters!ResetTimeout
  PROVE  FilterInv'
<1>1. /\ SelectionTyped /\ AnswersTyped
      /\ field' = [field EXCEPT !["model"] = Empty, !["status"] = Empty]
      /\ label' = [n \in Filters!Selects |-> Empty] /\ resetting' = FALSE
      /\ UNCHANGED <<filterPage, filterRange, options, filters, lock, banner, window, selected,
                     eventPage, eventPages, prev, next, load, request, rows, ok, filterClicks>>
  BY DEF FilterInv, Filters!ResetTimeout, Filters!gridVars, Filters!pagerVars
<1>2. /\ field'["upstream"] = field["upstream"] /\ field' \in Filters!Form
      /\ label' \in [Filters!Selects -> Filters!Values]
  BY <1>1 DEF SelectionTyped, Filters!Form, Filters!Values
<1>3. SelectionTyped'
  BY <1>1, <1>2 DEF SelectionTyped
<1>4. AnswersTyped'
  <2>1. eventPages \in 0..MaxPages /\ {prev, next, ok} \subseteq BOOLEAN
    BY <1>1 DEF AnswersTyped
  <2>2. /\ request \in Filters!ParamsSet \cup {None}
        /\ rows \in Filters!ParamsSet \cup {None, Skeleton}
        /\ load = None \/ load \in [step : {"summary", "analysis", "events", "interfaces"},
                                    params : Filters!ParamsSet, rows : BOOLEAN]
    BY <1>1 DEF AnswersTyped
  <2> QED
    BY <1>1, <2>1, <2>2 DEF AnswersTyped
<1>5. Consistent' /\ QuestionsAreCurrent'
  BY <1>1, <1>2 DEF FilterInv, Consistent, QuestionsAreCurrent, Filters!Params
<1> QED
  BY <1>3, <1>4, <1>5 DEF FilterInv

\* The grid: whatever its cells were, those of another window are all drawn anew.
LEMMA SummaryAnsweredKeeps ==
  ASSUME FilterInv, NEW w \in 0..MaxWindow \cup {None}, NEW changed \in SUBSET (0..(Cells - 1)),
         Filters!SummaryAnswered(w, changed)
  PROVE  FilterInv'
<1>1. /\ SelectionTyped /\ AnswersTyped /\ load # None
      /\ w \notin {window, None} => changed = 0..(Cells - 1)
      /\ window' = w /\ load' = [load EXCEPT !.step = "analysis"]
      /\ selected' = IF w = None THEN {}
                     ELSE {i \in 0..(Cells - 1) : IF i \in changed THEN w + i = lock ELSE i \in selected}
      /\ UNCHANGED <<filterPage, filterRange, filters, lock, banner, resetting, eventPage, filterClicks,
                     field, label, options, eventPages, prev, next, request, rows, ok>>
  BY DEF FilterInv, Filters!SummaryAnswered, Filters!CellSelected, Filters!Answering,
     Filters!pagerVars
<1>2. w # None /\ window # w => \A i \in 0..(Cells - 1) : i \in changed
  BY <1>1
<1>3. w # None /\ window = w => selected = {i \in 0..(Cells - 1) : w + i = lock}
  BY PartsAssumption DEF FilterInv, Consistent, Filters!FilterAssumption
<1>4. w # None => selected' = {i \in 0..(Cells - 1) : w + i = lock}
  BY <1>1, <1>2, <1>3
<1>5. Consistent'
  BY <1>1, <1>4 DEF FilterInv, Consistent
<1>6. SelectionTyped' /\ AnswersTyped' /\ QuestionsAreCurrent'
  <2>1. selected' \subseteq 0..(Cells - 1) /\ window' \in 0..MaxWindow \cup {None}
    BY <1>1
  <2> QED
    BY <1>1, <2>1 DEF SelectionTyped, AnswersTyped, FilterInv, QuestionsAreCurrent, Filters!Params
<1> QED
  BY <1>5, <1>6 DEF FilterInv, Consistent

\* New options may take the model out of the form, never the upstream.
LEMMA AnalysisAnsweredKeeps ==
  ASSUME FilterInv, NEW models \in SUBSET Models, Filters!AnalysisAnswered(models)
  PROVE  FilterInv'
<1>1. /\ SelectionTyped /\ AnswersTyped /\ load # None
      /\ options' = models
      /\ field' = [field EXCEPT !["model"] = IF field["model"] \in models THEN field["model"] ELSE Empty]
      /\ label' = Filters!Synced(label, field', {"model"}, models)
      /\ load' = IF load.rows THEN [load EXCEPT !.step = "events"] ELSE None
      /\ UNCHANGED <<filterPage, filterRange, filters, lock, banner, resetting, eventPage, filterClicks,
                     window, selected, eventPages, prev, next, request, rows, ok>>
  BY DEF FilterInv, Filters!AnalysisAnswered, Filters!Answering, Filters!pagerVars, Filters!gridVars
<1>2. field'["upstream"] = field["upstream"] /\ field' \in Filters!Form
  BY <1>1 DEF SelectionTyped, Filters!Form
<1>3. label' \in [Filters!Selects -> Filters!Values]
  BY <1>1, <1>2, LabelTypes DEF SelectionTyped
<1>4. SelectionTyped' /\ AnswersTyped'
  BY <1>1, <1>2, <1>3 DEF SelectionTyped, AnswersTyped
<1>5. Consistent' /\ QuestionsAreCurrent'
  BY <1>1, <1>2 DEF FilterInv, Consistent, AnswersTyped, QuestionsAreCurrent, Filters!Params
<1> QED
  BY <1>4, <1>5 DEF FilterInv

\* Rows that are rendered are those of the newest question, whose page is the one selected.
LEMMA AnswerKeeps ==
  ASSUME FilterInv, NEW n \in 0..MaxPages,
         Filters!LoadEnds(n) \/ Filters!LoadFails \/ Filters!EventsAnswered(n) \/ Filters!EventsFail
  PROVE  FilterInv'
<1>1. /\ SelectionTyped /\ AnswersTyped
      /\ UNCHANGED <<filterPage, filterRange, filters, lock, banner, resetting, eventPage, filterClicks,
                     field, label, options, window, selected>>
  BY DEF FilterInv, Filters!Answering, Filters!gridVars, Filters!LoadEnds, Filters!LoadFails,
     Filters!EventsAnswered, Filters!EventsFail
<1>2. Consistent' /\ SelectionTyped'
  BY <1>1 DEF FilterInv, Consistent, SelectionTyped
<1>3. ASSUME NEW p \in Filters!ParamsSet, Filters!RenderEvents(p, n), filterPage = "overview" => p = Filters!Params,
             load' \in {None, load}, request' \in {None, request}
      PROVE  AnswersTyped' /\ QuestionsAreCurrent'
  <2>1. p.page \in Nat \ {0} /\ n \in Nat /\ (filterPage = "overview" => p.page = eventPage)
    BY <1>1, <1>3, PartsAssumption DEF Filters!ParamsSet, Filters!FilterAssumption, Filters!Params
  <2>2. /\ rows' = p /\ ok' = TRUE /\ eventPages' = n
        /\ prev' = (p.page > 1) /\ next' = (n > 0 /\ p.page < n)
    BY <1>3 DEF Filters!RenderEvents, Filters!NextEnabled
  <2>3. AnswersTyped'
    BY <1>1, <1>3, <2>2 DEF AnswersTyped
  <2> QED
    <3>1. ASSUME filterPage' = "overview" PROVE rows' = (Filters!Params)' /\ p.page = eventPage'
      BY <1>1, <1>3, <2>1, <2>2, <3>1 DEF Filters!Params
    <3>2. ASSUME filterPage' = "overview"
          PROVE  (prev' <=> eventPage' > 1) /\ (next' <=> eventPage' < eventPages')
      <4>1. (p.page > 1 <=> eventPage' > 1) /\ (n > 0 /\ p.page < n <=> eventPage' < eventPages')
        BY <2>1, <2>2, <3>1, <3>2
      <4>2. (prev' <=> p.page > 1) /\ (next' <=> n > 0 /\ p.page < n)
        BY <2>2
      <4> QED
        BY <4>1, <4>2
    <3>3. ASSUME filterPage' = "overview"
          PROVE  /\ load' # None /\ load'.rows => load'.params = (Filters!Params)'
                 /\ request' # None => request' = (Filters!Params)'
      BY <1>1, <1>3, <3>3 DEF FilterInv, QuestionsAreCurrent, Filters!Params
    <3> QED
      BY <2>3, <3>1, <3>2, <3>3 DEF QuestionsAreCurrent
<1>4. ASSUME UNCHANGED <<rows, ok, eventPages, prev, next>>, load' \in {None, load}, request' \in {None, request}
      PROVE  AnswersTyped' /\ QuestionsAreCurrent'
  BY <1>1, <1>4 DEF FilterInv, Consistent, AnswersTyped, QuestionsAreCurrent, Filters!Params
<1>5. CASE Filters!LoadEnds(n)
  <2>1. CASE load.rows
    <3>1. /\ load.params \in Filters!ParamsSet /\ (filterPage = "overview" => load.params = Filters!Params)
          /\ Filters!RenderEvents(load.params, n) /\ load' = None /\ request' = request
      BY <1>1, <1>5, <2>1 DEF Filters!LoadEnds, AnswersTyped, FilterInv, QuestionsAreCurrent
    <3> QED
      BY <1>2, <1>3, <3>1 DEF FilterInv
  <2>2. CASE ~load.rows
    <3>1. UNCHANGED <<rows, ok, eventPages, prev, next>> /\ load' = None /\ request' = request
      BY <1>5, <2>2 DEF Filters!LoadEnds, Filters!pagerVars
    <3> QED
      BY <1>2, <1>4, <3>1 DEF FilterInv
  <2> QED
    BY <1>2, <2>1, <2>2 DEF FilterInv, Consistent
<1>6. CASE Filters!EventsAnswered(n)
  <2>1. AnswersTyped' /\ QuestionsAreCurrent'
    BY <1>1, <1>3, <1>6 DEF Filters!EventsAnswered, AnswersTyped, FilterInv, QuestionsAreCurrent
  <2> QED
    BY <1>2, <2>1 DEF FilterInv, Consistent
<1>7. CASE Filters!LoadFails \/ Filters!EventsFail
  <2>1. AnswersTyped' /\ QuestionsAreCurrent'
    BY <1>4, <1>7 DEF Filters!LoadFails, Filters!EventsFail, Filters!pagerVars
  <2> QED
    BY <1>2, <2>1 DEF FilterInv, Consistent
<1> QED
  BY <1>5, <1>6, <1>7

\* The invariant of the selection, for any filters, ranges, grid, pages and bounds, whatever the
\* rest of the page does.
THEOREM SelectionInvariant == Spec => []FilterInv
<1>1. Init => FilterInv
  <2> SUFFICES ASSUME Filters!Init PROVE FilterInv
    BY DEF Init
  <2>0. /\ MaxPages \in Nat /\ FilterClicks \in Nat /\ DefaultRange \in Ranges
        /\ Filters!EmptyForm \in Filters!Form
    BY PartsAssumption, FormTypes DEF Filters!FilterAssumption
  <2> USE <2>0 DEF Filters!Init
  <2>1. SelectionTyped
    <3>1. filterPage \in {"overview", "interfaces"} /\ filterRange \in Ranges
      OBVIOUS
    <3>2. field \in Filters!Form /\ filters \in Filters!Form
      OBVIOUS
    <3>3. lock \in Filters!Slots \cup {NoSlot} /\ banner \in {"hidden", "slot", "upstream"}
      OBVIOUS
    <3>4. options \subseteq Models /\ label \in [Filters!Selects -> Filters!Values]
      BY DEF Filters!Values
    <3>5. window \in 0..MaxWindow \cup {None} /\ selected \subseteq 0..(Cells - 1)
      OBVIOUS
    <3>6. eventPage \in 1..(MaxPages + 1) /\ resetting \in BOOLEAN /\ filterClicks \in 0..FilterClicks
      <4>1. eventPage = 1 /\ filterClicks = FilterClicks /\ resetting = FALSE
        OBVIOUS
      <4>2. eventPage \in 1..(MaxPages + 1) /\ filterClicks \in 0..FilterClicks
        BY <2>0, <4>1, SMT
      <4> QED
        BY <4>1, <4>2
    <3> QED
      BY <3>1, <3>2, <3>3, <3>4, <3>5, <3>6 DEF SelectionTyped
  <2>2. Filters!Params \in Filters!ParamsSet
    BY <2>1, ParamTypes
  <2>3. AnswersTyped
    <3>1. load \in [step : {"summary", "analysis", "events", "interfaces"},
                    params : Filters!ParamsSet, rows : BOOLEAN]
      BY <2>2
    <3>2. request \in Filters!ParamsSet \cup {None} /\ rows \in Filters!ParamsSet \cup {None, Skeleton}
      OBVIOUS
    <3>3. eventPages \in 0..MaxPages /\ {prev, next, ok} \subseteq BOOLEAN
      <4>1. eventPages = 0 /\ prev = TRUE /\ next = TRUE /\ ok = FALSE
        OBVIOUS
      <4>2. eventPages \in 0..MaxPages
        BY <2>0, <4>1, SMT
      <4> QED
        BY <4>1, <4>2
    <3> QED
      BY <3>1, <3>2, <3>3 DEF AnswersTyped
  <2>4. Consistent /\ QuestionsAreCurrent
    BY DEF Consistent, QuestionsAreCurrent, Filters!Params, Filters!EmptyForm, Filters!Names
  <2> QED
    BY <2>1, <2>3, <2>4 DEF FilterInv
<1>2. FilterInv /\ [Next]_vars => FilterInv'
  <2> SUFFICES ASSUME FilterInv, [Next]_vars PROVE FilterInv'
    OBVIOUS
  <2>0. SelectionTyped /\ Consistent
    BY DEF FilterInv, Consistent
  <2>a. ASSUME SelectionTyped', Consistent', Filters!LoadEvents \/ Filters!LoadActivePage
        PROVE  FilterInv'
    BY <2>a, Asking DEF FilterInv, Consistent
  <2>1. CASE Filters!Answers
    <3>1. 0 \in 0..MaxPages
      BY PartsAssumption DEF Filters!FilterAssumption
    <3> QED
      BY <2>1, <3>1, SummaryAnsweredKeeps, AnalysisAnsweredKeeps, AnswerKeeps, ResetTimeoutKeeps
         DEF Filters!Answers
  <2>2. CASE Filters!User
    <3>1. CASE \E n \in Filters!Names, v \in Filters!Values : Filters!Edit(n, v)
      BY <3>1, EditKeeps
    <3>2. CASE \E n \in Filters!Selects : Filters!OpenSelect(n)
      BY <3>2, OpenSelectKeeps
    <3>3. CASE Filters!Submit
      BY <2>0, <2>a, <3>3, SubmitKeeps
    <3>4. CASE Filters!EventReset
      BY <2>0, <2>a, <3>4, EventResetKeeps
    <3>5. CASE Filters!ClearHealthDrilldown
      BY <2>0, <2>a, <3>5, ClearHealthDrilldownKeeps
    <3>6. CASE \E n \in Filters!Names : Filters!RemoveChip(n)
      BY <2>0, <2>a, <3>6, RemoveChipKeeps
    <3>7. CASE \E by \in {-1, 1} : Filters!Turn(by)
      BY <2>a, <3>7, TurnKeeps
    <3>8. CASE \E i \in 0..(Cells - 1), failing \in BOOLEAN : Filters!ApplyHealthDrilldown(i, failing)
      BY <2>0, <2>a, <3>8, HealthDrilldownKeeps
    <3>9. CASE \E u \in FilterUpstreams : Filters!DrilldownUpstream(u)
      BY <2>0, <2>a, <3>9, UpstreamDrilldownKeeps
    <3>10. CASE \E p \in {"overview", "interfaces"} : Filters!Load(p)
      BY <2>0, <2>a, <3>10, LoadKeeps
    <3>11. CASE \E r \in Ranges : Filters!ActivateRange(r)
      BY <2>0, <2>a, <3>11, RangeKeeps
    <3> QED
      BY <2>2, <3>1, <3>2, <3>3, <3>4, <3>5, <3>6, <3>7, <3>8, <3>9, <3>10, <3>11 DEF Filters!User
  <2>3. CASE UNCHANGED filterVars
    BY <2>3 DEF filterVars, FilterInv, QuestionsAreCurrent, SelectionTyped, AnswersTyped,
       Consistent, Filters!Params
  <2>4. Filters!Next \/ UNCHANGED filterVars
    BY DEF Next, DrawerMoves, FiltersMove, CalendarMoves, ChartsMove, vars
  <2> QED
    BY <2>1, <2>2, <2>3, <2>4 DEF Filters!Next
<1> QED
  BY <1>1, <1>2, PTL DEF Spec

\* Filters, lock, banner, grid, rows and paging buttons agree through any sequence of clicks,
\* answers and failures (setEventFilterForm, app.js:555), whatever the rest of the page does.
THEOREM SelectionCorrect == Spec => []SelectionIsTrue
<1>1. FilterInv => SelectionIsTrue
  BY DEF FilterInv, Consistent, SelectionTyped, AnswersTyped, Filters!TypeOK, SelectionIsTrue,
     QuestionsAreCurrent, Filters!RowsAreApplied
<1> QED
  BY <1>1, SelectionInvariant, PTL

HIDE DEF Filters!LockReplacesUpstream, Filters!BannerIsTrue, Filters!LockIsHighlighted, FormFollows

-----------------------------------------------------------------------------
(* The calendar.                                                           *)

\* Every set of numbers that is not empty has a least one.
LEMMA LeastElement ==
  ASSUME NEW S \in SUBSET Nat, S # {}
  PROVE  \E n \in S : \A m \in S : n <= m
<1> DEFINE R == {ss \in Nat \X Nat : ss[1] < ss[2]}
<1>1. \A m, n \in Nat : m < n => <<m, n>> \in R
  OBVIOUS
<1>2. IsWellFoundedOn(R, Nat)
  BY NatLessThanWellFounded DEF OpToRel
<1>3. \E x \in S : \A y \in S : ~ (<<y, x>> \in R)
  BY <1>2, WFMin
<1> HIDE DEF R
<1>4. PICK n \in S : \A y \in S : ~ (<<y, n>> \in R)
  BY <1>3
<1>5. \A m \in S : ~ (m < n)
  BY <1>1, <1>4
<1> QED
  BY <1>5

\* One that stays below a number has a greatest one.
LEMMA GreatestElement ==
  ASSUME NEW N \in Nat, NEW S \in SUBSET 0..N, S # {}
  PROVE  \E n \in S : \A m \in S : n >= m
<1> DEFINE R == {N - d : d \in S}
<1>0. S \subseteq Nat /\ \A d \in S : d <= N
  OBVIOUS
<1>1. R \subseteq Nat /\ R # {}
  <2>1. \A d \in S : N - d \in Nat
    BY <1>0
  <2> QED
    BY <2>1
<1>2. PICK x \in R : \A y \in R : x <= y
  BY <1>1, LeastElement
<1>3. PICK n \in S : x = N - n
  BY <1>2
<1>4. ASSUME NEW m \in S
      PROVE  n >= m
  <2>1. N - m \in R
    OBVIOUS
  <2>2. N - n <= N - m
    BY <1>2, <1>3, <2>1
  <2>3. n \in Nat /\ m \in Nat
    BY <1>0
  <2> QED
    BY <2>2, <2>3
<1> QED
  BY <1>4

\* Quotient and remainder of a number.
LEMMA Division ==
  ASSUME NEW a \in Nat, NEW m \in Nat \ {0}
  PROVE  /\ a \div m \in Nat /\ a % m \in 0..(m - 1)
         /\ a = m * (a \div m) + (a % m)
<1>1. a % m \in 0..(m - 1)
  OBVIOUS
<1>2. a = m * (a \div m) + (a % m)
  OBVIOUS
<1>3. a \div m \in Int
  OBVIOUS
<1>4. a \div m >= 0
  BY <1>1, <1>2, <1>3
<1> QED
  BY <1>1, <1>2, <1>3, <1>4

\* Multiples of m lie at least m apart.
LEMMA Products ==
  ASSUME NEW x \in Nat, NEW y \in Nat, NEW m \in Nat \ {0}, x < y
  PROVE  m * x + m <= m * y /\ m * x \in Nat /\ m * y \in Nat
<1>1. m * (y - x - 1) >= 0 /\ m * y = m * x + m + m * (y - x - 1)
  OBVIOUS
<1> QED
  BY <1>1

\* A number has only one quotient and one remainder.
LEMMA Quotient ==
  ASSUME NEW m \in Nat \ {0}, NEW q \in Nat, NEW r \in 0..(m - 1)
  PROVE  (m * q + r) \div m = q /\ (m * q + r) % m = r
<1> DEFINE a == m * q + r  p == a \div m  s == a % m
<1>1. m * q \in Nat /\ a \in Nat
  OBVIOUS
<1>2. p \in Nat /\ s \in 0..(m - 1) /\ a = m * p + s
  BY <1>1, Division
<1>3. m * q + r = m * p + s
  BY <1>2
<1> HIDE DEF p, s
<1>4. ~(p < q)
  BY <1>2, <1>3, Products
<1>5. ~(q < p)
  BY <1>2, <1>3, Products
<1>6. p = q
  BY <1>2, <1>4, <1>5
<1>7. s = r
  BY <1>2, <1>3, <1>6
<1> QED
  BY <1>6, <1>7 DEF p, s

\* Months follow each other as days do.
LEMMA MonthsInOrder ==
  ASSUME NEW a \in Nat \ {0}, NEW b \in Nat \ {0}, a <= b
  PROVE  Calendar!MonthOf(a) <= Calendar!MonthOf(b) /\ Calendar!MonthOf(a) \in Nat \ {0}
         /\ Calendar!MonthOf(b) \in Nat \ {0}
<1> DEFINE m == DaysPerMonth  x == (a - 1) \div m  y == (b - 1) \div m
           s == (a - 1) % m  t == (b - 1) % m
<1>1. m \in Nat \ {0}
  BY PartsAssumption DEF Calendar!CalendarAssumption
<1>2. /\ x \in Nat /\ s \in 0..(m - 1) /\ a - 1 = m * x + s
      /\ y \in Nat /\ t \in 0..(m - 1) /\ b - 1 = m * y + t
  <2>1. a - 1 \in Nat /\ b - 1 \in Nat
    OBVIOUS
  <2>2. x \in Nat /\ s \in 0..(m - 1) /\ a - 1 = m * x + s
    BY <1>1, <2>1, Division
  <2>3. y \in Nat /\ t \in 0..(m - 1) /\ b - 1 = m * y + t
    BY <1>1, <2>1, Division
  <2> QED
    BY <2>2, <2>3
<1>3. Calendar!MonthOf(a) = x + 1 /\ Calendar!MonthOf(b) = y + 1
  BY DEF Calendar!MonthOf
<1> HIDE DEF m, x, y, s, t
<1>4. ~(y < x)
  BY <1>1, <1>2, Products
<1> QED
  BY <1>2, <1>3, <1>4

\* A day, in milliseconds.
DayLength == SecondsPerDay * Ms

\* The lengths are positive, and what stands for no day and for no time is none.
LEMMA Lengths ==
  /\ SecondsPerDay \in Nat \ {0} /\ Ms \in Nat \ {0} /\ DayLength \in Nat \ {0}
  /\ Offset \in Nat /\ Offset < DayLength
  /\ LastDay \in Nat \ {0} /\ NoDay \notin Calendar!Days /\ BadTime \notin Calendar!Times
<1>1. SecondsPerDay \in Nat \ {0} /\ Ms \in Nat \ {0} /\ Offset \in Nat /\ Offset < SecondsPerDay * Ms
      /\ LastDay \in Nat \ {0} /\ NoDay \notin Calendar!Days /\ BadTime \notin Calendar!Times
  BY PartsAssumption DEF Calendar!CalendarAssumption, Calendar!Days, Calendar!Times
<1>2. SecondsPerDay * Ms \in Nat \ {0}
  BY <1>1
<1> QED
  BY <1>1, <1>2 DEF DayLength

\* A day and a time, as milliseconds and back, with any milliseconds of the second added.
LEMMA Conversions ==
  ASSUME NEW d \in Calendar!Days, NEW t \in Calendar!Times, NEW r \in 0..(Ms - 1)
  PROVE  LET v == Calendar!ToMillis(d, t) + r
         IN  /\ v \in Nat /\ v < (LastDay + 1) * DayLength /\ Calendar!ToMillis(d, t) \in Nat
             /\ v + Offset = DayLength * d + (Ms * t + r) /\ Ms * t + r \in 0..(DayLength - 1)
             /\ Calendar!InputDay(v) = d /\ Calendar!InputTime(v) = t
<1> DEFINE v == Calendar!ToMillis(d, t) + r
           u == Ms * t + r
<1>1. d \in Nat \ {0} /\ d <= LastDay /\ t \in 0..(SecondsPerDay - 1) /\ Ms \in Nat \ {0}
      /\ SecondsPerDay \in Nat \ {0} /\ DayLength \in Nat \ {0} /\ DayLength = SecondsPerDay * Ms
      /\ Offset \in Nat /\ Offset < DayLength
      /\ LastDay \in Nat \ {0}
  BY Lengths DEF Calendar!Days, Calendar!Times, DayLength
<1>2. Calendar!ToMillis(d, t) = (d * SecondsPerDay + t) * Ms - Offset
  BY Lengths DEF Calendar!ToMillis
<1>3. (d * SecondsPerDay + t) * Ms = DayLength * d + Ms * t
  BY <1>1
<1>4. Ms * t + Ms <= DayLength /\ Ms * t \in Nat
  <2>1. t < SecondsPerDay /\ t \in Nat
    BY <1>1
  <2> QED
    BY <1>1, <2>1, Products
<1>5. u \in 0..(DayLength - 1)
  BY <1>1, <1>4
<1>6. /\ DayLength * d >= DayLength /\ DayLength * d + DayLength <= (LastDay + 1) * DayLength
      /\ DayLength * d \in Nat
  <2>1. 0 < d /\ d < LastDay + 1 /\ d \in Nat /\ LastDay + 1 \in Nat
    BY <1>1
  <2>2. DayLength * 0 + DayLength <= DayLength * d /\ DayLength * d \in Nat
    BY <1>1, <2>1, Products
  <2>3. DayLength * d + DayLength <= DayLength * (LastDay + 1)
    BY <1>1, <2>1, Products
  <2> QED
    BY <1>1, <2>2, <2>3
<1>7. v + Offset = DayLength * d + u /\ v \in Int
  BY <1>1, <1>2, <1>3, <1>4, <1>6
<1>8. v \in Nat /\ Calendar!ToMillis(d, t) \in Nat /\ v < (LastDay + 1) * DayLength
  <2>1. (LastDay + 1) * DayLength \in Nat
    BY <1>1
  <2> QED
    BY <1>1, <1>2, <1>3, <1>4, <1>5, <1>6, <1>7, <2>1
<1>9. Calendar!InputDay(v) = d
  BY <1>1, <1>5, <1>7, Quotient DEF Calendar!InputDay, DayLength
<1>10. (v + Offset) % DayLength = u
  <2>1. (DayLength * d + u) % DayLength = u
    BY <1>1, <1>5, Quotient
  <2> QED
    BY <1>7, <2>1
<1>11. u \div Ms = t
  BY <1>1, Quotient
<1>12. Calendar!InputTime(v) = t
  BY <1>10, <1>11 DEF Calendar!InputTime, DayLength
<1> QED
  BY <1>5, <1>7, <1>8, <1>9, <1>12

\* Who is not later in milliseconds is not on a later day.
LEMMA DaysInOrder ==
  ASSUME NEW f \in Calendar!Days, NEW t \in Calendar!Days, NEW tf \in Calendar!Times, NEW tt \in Calendar!Times,
         Calendar!ToMillis(f, tf) <= Calendar!ToMillis(t, tt)
  PROVE  f <= t
<1> DEFINE v == Calendar!ToMillis(f, tf)  w == Calendar!ToMillis(t, tt)
<1>1. 0 \in 0..(Ms - 1) /\ DayLength \in Nat \ {0} /\ Offset \in Nat
  BY Lengths
<1>2. /\ v + 0 + Offset = DayLength * f + (Ms * tf + 0) /\ Ms * tf + 0 \in 0..(DayLength - 1) /\ v \in Nat
      /\ w + 0 + Offset = DayLength * t + (Ms * tt + 0) /\ Ms * tt + 0 \in 0..(DayLength - 1) /\ w \in Nat
  BY <1>1, Conversions
<1> DEFINE a == Ms * tf + 0  b == Ms * tt + 0
<1>3. /\ v + Offset = DayLength * f + a /\ a \in 0..(DayLength - 1) /\ v \in Nat /\ v <= w
      /\ w + Offset = DayLength * t + b /\ b \in 0..(DayLength - 1) /\ w \in Nat
      /\ f \in Nat /\ t \in Nat
  BY <1>2 DEF Calendar!Days
<1> HIDE DEF a, b, v, w
<1>4. ASSUME t < f PROVE FALSE
  <2>1. DayLength * t + DayLength <= DayLength * f /\ DayLength * t \in Nat /\ DayLength * f \in Nat
    BY <1>1, <1>3, <1>4, Products
  <2> QED
    BY <1>1, <1>3, <2>1
<1> QED
  BY <1>3, <1>4

\* The first and the last day of a set of days.
LEMMA Extremes ==
  ASSUME NEW S \in SUBSET Calendar!Days, S # {}
  PROVE  /\ Calendar!Min(S) \in S /\ \A d \in S : Calendar!Min(S) <= d
         /\ Calendar!Max(S) \in S /\ \A d \in S : d <= Calendar!Max(S)
<1>1. S \subseteq Nat /\ \A d \in S : d <= LastDay
  BY DEF Calendar!Days
<1>2. \E n \in S : \A m \in S : n <= m
  BY <1>1, LeastElement
<1>3. LastDay \in Nat /\ S \in SUBSET (0..LastDay)
  BY <1>1, Lengths
<1>7. \E k \in S : \A m \in S : k >= m
  BY <1>3, GreatestElement
<1>8. Calendar!Min(S) \in S /\ \A d \in S : Calendar!Min(S) <= d
  BY <1>2 DEF Calendar!Min
<1>9. Calendar!Max(S) \in S /\ \A d \in S : Calendar!Max(S) >= d
  BY <1>7 DEF Calendar!Max
<1> QED
  BY <1>1, <1>8, <1>9

-----------------------------------------------------------------------------
\* A range in force is one of two days and times of the form, the later one to the end of its second.
Recorded(c) ==
    \E f, t \in Calendar!Days, tf, tt \in Calendar!Times :
        /\ c = [from |-> Calendar!ToMillis(f, tf), to |-> Calendar!ToMillis(t, tt) + (Ms - 1)]
        /\ Calendar!ToMillis(f, tf) <= Calendar!ToMillis(t, tt)

\* What a time input may hold.
TimeTexts == Calendar!Times \cup {BadTime}
\* The types the steps rely on; one more request fits unless one is under way.
CalendarTyped ==
    /\ calendarPage \in {"overview", "interfaces", "settings"} /\ range \in {"preset", "custom"}
    /\ days \subseteq Calendar!Days /\ from \in Calendar!Days \cup {NoDay}
    /\ to \in Calendar!Days \cup {NoDay} /\ editing \in {"from", "to"}
    /\ month \in -1..(Calendar!MonthOf(LastDay) + 1) /\ times \in [from : TimeTexts, to : TimeTexts]
    /\ status \in {"loading", "none", "calendar", "failed"}
    /\ form \in BOOLEAN /\ loading \in BOOLEAN /\ apply \in BOOLEAN /\ error \in BOOLEAN
    /\ current \in BOOLEAN /\ old \in Nat /\ old + (IF current THEN 1 ELSE 0) <= MaxRequests
    /\ answer \subseteq SUBSET Calendar!Days
    /\ calendarClicks \in 0..CalendarClicks

\* A range that was applied stays one the form can display again.
InForce ==
    /\ custom = NoRange \/ Recorded(custom)
    /\ range = "custom" => Recorded(custom)

\* The months on display belong to the days received, also while the form is closed.
MonthsFit ==
    /\ days # {} => Calendar!FirstMonth - 1 <= month /\ month <= Calendar!LastMonth
    /\ status = "calendar" => days # {}

\* Closing the form aborts its request, and leaves loading to the next one that opens it.
Waiting == (current => form) /\ Calendar!LoadingIsCurrent /\ Calendar!ApplyTells

\* The inductive invariant of the calendar.
CalendarInv ==
    /\ CalendarTyped /\ InForce /\ MonthsFit /\ Waiting
    /\ Calendar!SelectionOrdered /\ Calendar!SummaryTells

\* What a range in force displays, and the form it prefills.
LEMMA RecordedShows ==
  ASSUME NEW c, Recorded(c)
  PROVE  /\ c # NoRange /\ c.from \in Calendar!Millis /\ c.to \in Calendar!Millis
         /\ Calendar!Input(c.to - (Ms - 1)) = Calendar!Input(c.to)
         /\ Calendar!InputDay(c.from) \in Calendar!Days /\ Calendar!InputTime(c.from) \in Calendar!Times
         /\ Calendar!InputDay(c.to) \in Calendar!Days /\ Calendar!InputTime(c.to) \in Calendar!Times
         /\ Calendar!InputDay(c.from) <= Calendar!InputDay(c.to)
<1>1. PICK f \in Calendar!Days, t \in Calendar!Days, tf \in Calendar!Times, tt \in Calendar!Times :
          /\ c = [from |-> Calendar!ToMillis(f, tf), to |-> Calendar!ToMillis(t, tt) + (Ms - 1)]
          /\ Calendar!ToMillis(f, tf) <= Calendar!ToMillis(t, tt)
  BY DEF Recorded
<1> DEFINE v == Calendar!ToMillis(f, tf)  w == Calendar!ToMillis(t, tt)
<1>2. 0 \in 0..(Ms - 1) /\ Ms - 1 \in 0..(Ms - 1) /\ Ms \in Nat \ {0} /\ DayLength \in Nat \ {0} /\ LastDay \in Nat
  BY Lengths
<1>3. /\ v \in Nat /\ v + 0 < (LastDay + 1) * DayLength
      /\ Calendar!InputDay(v + 0) = f /\ Calendar!InputTime(v + 0) = tf
  BY <1>2, Conversions
<1>4. /\ w \in Nat /\ w + (Ms - 1) < (LastDay + 1) * DayLength
      /\ Calendar!InputDay(w + (Ms - 1)) = t /\ Calendar!InputTime(w + (Ms - 1)) = tt
  BY <1>2, Conversions
<1>5. Calendar!InputDay(w + 0) = t /\ Calendar!InputTime(w + 0) = tt
  BY <1>2, Conversions
<1>6. c.from = v + 0 /\ c.to = w + (Ms - 1) /\ c.to - (Ms - 1) = w + 0 /\ v + 0 \in Nat
      /\ w + (Ms - 1) \in Nat /\ c \in [from : Nat, to : Nat]
  BY <1>1, <1>2, <1>3, <1>4
<1>7. c # NoRange
  BY <1>6, PartsAssumption DEF Calendar!CalendarAssumption
<1>8. Calendar!Millis = 0..((LastDay + 1) * DayLength)
  <2>1. (LastDay + 1) * SecondsPerDay * Ms = (LastDay + 1) * (SecondsPerDay * Ms)
    BY Lengths
  <2> QED
    BY <2>1 DEF Calendar!Millis, DayLength
<1>9. c.from \in Calendar!Millis /\ c.to \in Calendar!Millis
  <2>1. (LastDay + 1) * DayLength \in Nat
    BY <1>2
  <2> QED
    BY <1>3, <1>4, <1>6, <1>8, <2>1
<1>10. f <= t
  BY <1>1, DaysInOrder
<1> HIDE DEF v, w
<1> QED
  BY <1>3, <1>4, <1>5, <1>6, <1>7, <1>9, <1>10 DEF Calendar!Input

\* The button that names the range is brought up to date with range and page.
LEMMA SummaryFollows ==
  ASSUME InForce', Calendar!RenderRangeSummary
  PROVE  Calendar!SummaryTells'
<1>1. CASE range' = "custom" /\ calendarPage' # "settings"
  <2>1. Recorded(custom')
    BY <1>1 DEF InForce
  <2>2. custom' # NoRange /\ Calendar!Input(custom'.to - (Ms - 1)) = Calendar!Input(custom'.to)
    BY <2>1, RecordedShows
  <2> QED
    BY <1>1, <2>2 DEF Calendar!RenderRangeSummary, Calendar!SummaryTells
<1>2. CASE ~(range' = "custom" /\ calendarPage' # "settings")
  BY <1>2 DEF Calendar!RenderRangeSummary, Calendar!SummaryTells
<1> QED
  BY <1>1, <1>2

\* What an abort of the newest request leaves.
LEMMA HideKeeps ==
  ASSUME CalendarTyped, Calendar!Hide
  PROVE  /\ form' = FALSE /\ error' = FALSE /\ current' = FALSE
         /\ old' \in Nat /\ old' + (IF current' THEN 1 ELSE 0) <= MaxRequests
<1>1. form' = FALSE /\ error' = FALSE /\ current' = FALSE /\ old' = old + (IF current THEN 1 ELSE 0)
  BY DEF Calendar!Hide
<1> QED
  BY <1>1 DEF CalendarTyped

\* A click is one of those the bound allows.
LEMMA ClickCounts ==
  ASSUME CalendarTyped, Calendar!Click
  PROVE  calendarClicks' \in 0..CalendarClicks
  BY PartsAssumption DEF CalendarTyped, Calendar!Click, Calendar!CalendarAssumption

\* Opening the form prefills it with two days in order, and disables the apply button.
LEMMA OpenFormKeeps ==
  ASSUME CalendarInv, Calendar!OpenForm
  PROVE  CalendarInv'
<1> DEFINE P == Calendar!Prefilled
<1>1. /\ P.from.day \in Calendar!Days \cup {NoDay} /\ P.to.day \in Calendar!Days \cup {NoDay}
      /\ P.from.time \in TimeTexts /\ P.to.time \in TimeTexts
      /\ P.from.day # NoDay /\ P.to.day # NoDay => P.from.day <= P.to.day
  <2>1. CASE range = "custom"
    <3>1. Recorded(custom)
      BY <2>1 DEF CalendarInv, InForce
    <3>2. P = [from |-> Calendar!Input(custom.from), to |-> Calendar!Input(custom.to)]
      BY <2>1 DEF Calendar!Prefilled
    <3> QED
      BY <3>1, <3>2, RecordedShows DEF Calendar!Input, TimeTexts
  <2>2. CASE range # "custom"
    <3>1. 0 \in Calendar!Times /\ SecondsPerDay - 1 \in Calendar!Times
      BY Lengths DEF Calendar!Times
    <3> QED
      BY <2>2, <3>1 DEF Calendar!Prefilled, TimeTexts
  <2> QED
    BY <2>1, <2>2
<1>2. /\ form' = TRUE /\ from' = P.from.day /\ to' = P.to.day /\ editing' = "from"
      /\ times' = [from |-> P.from.time, to |-> P.to.time]
      /\ current' = TRUE /\ old' = old + (IF current THEN 1 ELSE 0) /\ old' < MaxRequests
      /\ answer' = {} /\ loading' = TRUE /\ days' = {} /\ status' = "loading" /\ error' = FALSE
      /\ apply' = Calendar!Acceptable(loading', days', from', to', times')
      /\ UNCHANGED <<calendarPage, range, custom, summary, month>>
  BY DEF Calendar!OpenForm, Calendar!UpdateSelection, Calendar!rangeVars
<1>3. calendarClicks' \in 0..CalendarClicks
  BY ClickCounts DEF CalendarInv, Calendar!OpenForm
<1> HIDE DEF P
<1>4. old' \in Nat /\ old' + (IF current' THEN 1 ELSE 0) <= MaxRequests
  BY <1>2, PartsAssumption DEF CalendarInv, CalendarTyped, Calendar!CalendarAssumption
<1>5. times' \in [from : TimeTexts, to : TimeTexts]
  BY <1>1, <1>2
<1>6. apply' = FALSE
  BY <1>2 DEF Calendar!Acceptable
<1>7. CalendarTyped'
  BY <1>1, <1>2, <1>3, <1>4, <1>5, <1>6 DEF CalendarInv, CalendarTyped
<1>8. InForce' /\ MonthsFit' /\ Waiting' /\ Calendar!SelectionOrdered' /\ Calendar!SummaryTells'
  BY <1>1, <1>2, <1>6 DEF CalendarInv, InForce, MonthsFit, Waiting, Calendar!LoadingIsCurrent,
     Calendar!ApplyTells,
     Calendar!SelectionOrdered, Calendar!SummaryTells, Calendar!Acceptable
<1> QED
  BY <1>7, <1>8 DEF CalendarInv

\* Whatever leaves the selection and its months alone, and the form closed or as it is, keeps
\* all that is said of them.
LEMMA SelectionStays ==
  ASSUME CalendarInv, CalendarTyped', InForce', Calendar!SummaryTells',
         UNCHANGED <<days, from, to, month, loading, times, status, apply>>,
         UNCHANGED <<form, current>> \/ (form' = FALSE /\ current' = FALSE)
  PROVE  CalendarInv'
  BY DEF CalendarInv, MonthsFit, Waiting, Calendar!LoadingIsCurrent, Calendar!ApplyTells,
     Calendar!SelectionOrdered,
     Calendar!FirstMonth, Calendar!LastMonth

\* Closing the form aborts the request and leaves the selection.
LEMMA CloseFormKeeps ==
  ASSUME CalendarInv, Calendar!CloseForm
  PROVE  CalendarInv'
<1>1. /\ form' = FALSE /\ error' = FALSE /\ current' = FALSE
      /\ old' \in Nat /\ old' + (IF current' THEN 1 ELSE 0) <= MaxRequests
      /\ calendarClicks' \in 0..CalendarClicks
  BY HideKeeps, ClickCounts DEF CalendarInv, Calendar!CloseForm
<1>2. UNCHANGED <<calendarPage, range, custom, summary, days, from, to, editing, month, loading, times, status,
                  apply, answer>>
  BY DEF Calendar!CloseForm, Calendar!rangeVars
<1>3. CalendarTyped'
  BY <1>1, <1>2 DEF CalendarInv, CalendarTyped
<1>4. InForce' /\ Calendar!SummaryTells'
  BY <1>2 DEF CalendarInv, InForce, Calendar!SummaryTells
<1> QED
  BY <1>1, <1>2, <1>3, <1>4, SelectionStays

\* A submit either puts the selection into force or displays why not.
LEMMA SubmitRangeKeeps ==
  ASSUME CalendarInv, Calendar!Submit
  PROVE  CalendarInv'
<1>1. /\ UNCHANGED <<calendarPage, days, from, to, editing, month, loading, times, status, apply, answer>>
      /\ calendarClicks' \in 0..CalendarClicks /\ ~loading /\ form
  BY ClickCounts DEF CalendarInv, Calendar!Submit
<1>2. CASE Calendar!Acceptable(loading, days, from, to, times)
  <2>1. /\ custom' = [from |-> Calendar!ToMillis(from, times.from), to |-> Calendar!ToMillis(to, times.to) + Ms - 1]
        /\ range' = "custom" /\ Calendar!Hide /\ Calendar!RenderRangeSummary
    BY <1>2 DEF Calendar!Submit, Calendar!Activate
  <2>2. /\ from \in Calendar!Days /\ to \in Calendar!Days
        /\ times.from \in Calendar!Times /\ times.to \in Calendar!Times
        /\ Calendar!ToMillis(from, times.from) <= Calendar!ToMillis(to, times.to)
    BY <1>2 DEF CalendarInv, CalendarTyped, Calendar!Acceptable, Calendar!ToMillis, TimeTexts
  <2>3. Recorded(custom')
    <3>1. Calendar!ToMillis(to, times.to) \in Int /\ Ms \in Nat
      <4>1. 0 \in 0..(Ms - 1)
        BY Lengths
      <4> QED
        BY <2>2, <4>1, Conversions, Lengths
    <3>2. Calendar!ToMillis(to, times.to) + Ms - 1 = Calendar!ToMillis(to, times.to) + (Ms - 1)
      BY <3>1
    <3> QED
      BY <2>1, <2>2, <3>2 DEF Recorded
  <2>4. InForce'
    BY <2>3 DEF InForce
  <2>5. /\ form' = FALSE /\ error' = FALSE /\ current' = FALSE
        /\ old' \in Nat /\ old' + (IF current' THEN 1 ELSE 0) <= MaxRequests
    BY <2>1, HideKeeps DEF CalendarInv
  <2>6. CalendarTyped'
    BY <1>1, <2>1, <2>5 DEF CalendarInv, CalendarTyped
  <2> QED
    BY <1>1, <2>1, <2>4, <2>5, <2>6, SummaryFollows, SelectionStays
<1>3. CASE ~Calendar!Acceptable(loading, days, from, to, times)
  <2>1. error' = TRUE /\ UNCHANGED <<range, custom, summary, form, current, old>>
    BY <1>3 DEF Calendar!Submit
  <2>2. CalendarTyped'
    BY <1>1, <2>1 DEF CalendarInv, CalendarTyped
  <2>3. InForce' /\ Calendar!SummaryTells'
    BY <1>1, <2>1 DEF CalendarInv, InForce, Calendar!SummaryTells
  <2> QED
    BY <1>1, <2>1, <2>2, <2>3, SelectionStays
<1> QED
  BY <1>2, <1>3

\* A preset closes the form and hides the button that names the range.
LEMMA PresetKeeps ==
  ASSUME CalendarInv, Calendar!ActivatePreset
  PROVE  CalendarInv'
<1>1. /\ UNCHANGED <<calendarPage, custom, days, from, to, editing, month, loading, times, status, apply, answer>>
      /\ range' = "preset" /\ Calendar!Hide /\ Calendar!RenderRangeSummary
      /\ calendarClicks' \in 0..CalendarClicks
  BY ClickCounts DEF CalendarInv, Calendar!ActivatePreset, Calendar!Activate
<1>2. /\ form' = FALSE /\ error' = FALSE /\ current' = FALSE
      /\ old' \in Nat /\ old' + (IF current' THEN 1 ELSE 0) <= MaxRequests
  BY <1>1, HideKeeps DEF CalendarInv
<1>3. CalendarTyped'
  BY <1>1, <1>2 DEF CalendarInv, CalendarTyped
<1>4. InForce'
  BY <1>1 DEF CalendarInv, InForce
<1> QED
  BY <1>1, <1>2, <1>3, <1>4, SummaryFollows, SelectionStays

\* Another page may close the form; the button follows the page.
LEMMA NavigateRangeKeeps ==
  ASSUME CalendarInv, NEW p \in {"overview", "interfaces", "settings"}, Calendar!Navigate(p)
  PROVE  CalendarInv'
<1>1. /\ UNCHANGED <<range, custom, days, from, to, editing, month, loading, times, status, apply, answer>>
      /\ calendarPage' = p /\ Calendar!RenderRangeSummary /\ calendarClicks' \in 0..CalendarClicks
      /\ Calendar!Hide \/ UNCHANGED <<form, error, current, old>>
  BY ClickCounts DEF CalendarInv, Calendar!Navigate
<1>2. /\ error' \in BOOLEAN /\ old' \in Nat /\ old' + (IF current' THEN 1 ELSE 0) <= MaxRequests
      /\ UNCHANGED <<form, current>> \/ (form' = FALSE /\ current' = FALSE)
  <2>1. CASE Calendar!Hide
    BY <2>1, HideKeeps DEF CalendarInv
  <2>2. CASE UNCHANGED <<form, error, current, old>>
    BY <2>2 DEF CalendarInv, CalendarTyped
  <2> QED
    BY <1>1, <2>1, <2>2
<1>3. CalendarTyped'
  <2>1. form' \in BOOLEAN /\ current' \in BOOLEAN
    BY <1>2 DEF CalendarInv, CalendarTyped
  <2>2. /\ calendarPage' \in {"overview", "interfaces", "settings"} /\ range' \in {"preset", "custom"}
        /\ days' \subseteq Calendar!Days /\ from' \in Calendar!Days \cup {NoDay}
        /\ to' \in Calendar!Days \cup {NoDay} /\ editing' \in {"from", "to"}
        /\ month' \in -1..(Calendar!MonthOf(LastDay) + 1) /\ times' \in [from : TimeTexts, to : TimeTexts]
    BY <1>1 DEF CalendarInv, CalendarTyped
  <2>3. /\ status' \in {"loading", "none", "calendar", "failed"}
        /\ loading' \in BOOLEAN /\ apply' \in BOOLEAN /\ answer' \subseteq SUBSET Calendar!Days
    BY <1>1 DEF CalendarInv, CalendarTyped
  <2> QED
    BY <1>1, <1>2, <2>1, <2>2, <2>3 DEF CalendarTyped
<1>4. InForce'
  BY <1>1 DEF CalendarInv, InForce
<1> QED
  BY <1>1, <1>2, <1>3, <1>4, SummaryFollows, SelectionStays

\* An answer nobody waits for changes nothing.
LEMMA StaleKeeps ==
  ASSUME CalendarInv, Calendar!StaleAnswered
  PROVE  CalendarInv'
<1>1. /\ UNCHANGED <<calendarPage, range, custom, summary, form, days, from, to, editing, month, loading, times,
                     status, apply, error, current, answer, calendarClicks>>
      /\ old > 0 /\ old' = old - 1
  BY DEF Calendar!StaleAnswered, Calendar!rangeVars
<1>2. CalendarTyped'
  <2>1. old' \in Nat /\ old' + (IF current' THEN 1 ELSE 0) <= MaxRequests
    <3>1. MaxRequests \in Nat /\ old \in Nat
      BY PartsAssumption DEF CalendarInv, CalendarTyped, Calendar!CalendarAssumption
    <3>2. old + (IF current THEN 1 ELSE 0) <= MaxRequests
      BY DEF CalendarInv, CalendarTyped
    <3> QED
      BY <1>1, <3>1, <3>2
  <2>2. /\ calendarPage' \in {"overview", "interfaces", "settings"} /\ range' \in {"preset", "custom"}
        /\ days' \subseteq Calendar!Days /\ from' \in Calendar!Days \cup {NoDay}
        /\ to' \in Calendar!Days \cup {NoDay} /\ editing' \in {"from", "to"}
        /\ month' \in -1..(Calendar!MonthOf(LastDay) + 1) /\ times' \in [from : TimeTexts, to : TimeTexts]
    BY <1>1 DEF CalendarInv, CalendarTyped
  <2>3. /\ status' \in {"loading", "none", "calendar", "failed"}
        /\ form' \in BOOLEAN /\ loading' \in BOOLEAN /\ apply' \in BOOLEAN /\ error' \in BOOLEAN
        /\ current' \in BOOLEAN /\ answer' \subseteq SUBSET Calendar!Days
        /\ calendarClicks' \in 0..CalendarClicks
    BY <1>1 DEF CalendarInv, CalendarTyped
  <2> QED
    BY <2>1, <2>2, <2>3 DEF CalendarTyped
<1>3. InForce' /\ Calendar!SummaryTells'
  BY <1>1 DEF CalendarInv, InForce, Calendar!SummaryTells
<1> QED
  BY <1>1, <1>2, <1>3, SelectionStays

\* A change of the selection in the open form, after which the form is brought up to date.
LEMMA SelectionMoves ==
  ASSUME CalendarInv, Calendar!InForm, Calendar!UpdateSelection(TRUE, status),
         from' \in Calendar!Days \cup {NoDay}, to' \in Calendar!Days \cup {NoDay}, editing' \in {"from", "to"},
         times' \in [from : TimeTexts, to : TimeTexts], UNCHANGED month, Calendar!SelectionOrdered'
  PROVE  CalendarInv'
<1>1. /\ UNCHANGED <<calendarPage, range, custom, summary, form, days, loading, current, old, answer>>
      /\ form /\ calendarClicks' \in 0..CalendarClicks
  BY ClickCounts DEF CalendarInv, Calendar!InForm, Calendar!rangeVars, Calendar!requestVars
<1>2. /\ apply' = Calendar!Acceptable(loading', days', from', to', times') /\ error' = FALSE
      /\ status' = IF ~loading' THEN IF days' = {} THEN "none" ELSE "calendar" ELSE status
  BY DEF Calendar!UpdateSelection
<1>3. apply' \in BOOLEAN
  BY <1>2 DEF Calendar!Acceptable
<1>4. CalendarTyped'
  BY <1>1, <1>2, <1>3 DEF CalendarInv, CalendarTyped
<1>5. InForce' /\ Calendar!SummaryTells'
  BY <1>1 DEF CalendarInv, InForce, Calendar!SummaryTells
<1>6. MonthsFit'
  BY <1>1, <1>2 DEF CalendarInv, MonthsFit, Calendar!FirstMonth, Calendar!LastMonth
<1>7. Waiting'
  BY <1>1, <1>2 DEF CalendarInv, Waiting, Calendar!LoadingIsCurrent, Calendar!ApplyTells
<1> QED
  BY <1>4, <1>5, <1>6, <1>7 DEF CalendarInv

\* Choosing which of the two days is picked next.
LEMMA EditSideKeeps ==
  ASSUME CalendarInv, NEW side \in {"from", "to"}, Calendar!EditSide(side)
  PROVE  CalendarInv'
<1>1. /\ Calendar!InForm /\ Calendar!UpdateSelection(TRUE, status)
      /\ editing' = side /\ UNCHANGED <<from, to, month, times>>
  BY DEF Calendar!EditSide
<1>2. Calendar!SelectionOrdered'
  BY <1>1 DEF CalendarInv, Calendar!SelectionOrdered
<1> QED
  BY <1>1, <1>2, SelectionMoves DEF CalendarInv, CalendarTyped

\* A time, or a text that is none.
LEMMA EditTimeKeeps ==
  ASSUME CalendarInv, NEW side \in {"from", "to"}, NEW t \in TimeTexts, Calendar!EditTime(side, t)
  PROVE  CalendarInv'
<1>1. /\ Calendar!InForm /\ Calendar!UpdateSelection(TRUE, status)
      /\ times' = [times EXCEPT ![side] = t] /\ UNCHANGED <<from, to, month, editing>>
  BY DEF Calendar!EditTime
<1>2. Calendar!SelectionOrdered'
  BY <1>1 DEF CalendarInv, Calendar!SelectionOrdered
<1>3. times' \in [from : TimeTexts, to : TimeTexts]
  BY <1>1 DEF CalendarInv, CalendarTyped
<1> QED
  BY <1>1, <1>2, <1>3, SelectionMoves DEF CalendarInv, CalendarTyped

\* Picking a day drops the other one where the two would cross.
LEMMA PickDayKeeps ==
  ASSUME CalendarInv, NEW d \in Calendar!Days, Calendar!PickDay(d)
  PROVE  CalendarInv'
<1>1. /\ Calendar!InForm /\ Calendar!UpdateSelection(TRUE, status)
      /\ from' = Calendar!Picked(d).from /\ to' = Calendar!Picked(d).to /\ editing' = Calendar!Picked(d).editing
      /\ UNCHANGED <<month, times>>
  BY DEF Calendar!PickDay
<1>2. /\ from \in Calendar!Days \cup {NoDay} /\ to \in Calendar!Days \cup {NoDay}
      /\ editing \in {"from", "to"} /\ times \in [from : TimeTexts, to : TimeTexts]
      /\ from # NoDay /\ to # NoDay => from <= to
      /\ d \in Nat /\ \A x \in Calendar!Days : x \in Nat
  BY DEF CalendarInv, CalendarTyped, Calendar!SelectionOrdered, Calendar!Days
<1>3. CASE editing = "from"
  <2>1. /\ from' = d /\ editing' = "to"
        /\ to' = IF to # NoDay /\ to < d THEN NoDay ELSE to
    BY <1>1, <1>3 DEF Calendar!Picked
  <2>2. Calendar!SelectionOrdered'
    BY <1>2, <2>1 DEF Calendar!SelectionOrdered
  <2> QED
    BY <1>1, <1>2, <2>1, <2>2, SelectionMoves
<1>4. CASE editing = "to" /\ from # NoDay /\ d < from
  <2>1. from' = d /\ editing' = "to" /\ to' = NoDay
    BY <1>1, <1>4 DEF Calendar!Picked
  <2>2. Calendar!SelectionOrdered'
    BY <2>1 DEF Calendar!SelectionOrdered
  <2> QED
    BY <1>1, <1>2, <2>1, <2>2, SelectionMoves
<1>5. CASE editing = "to" /\ ~(from # NoDay /\ d < from)
  <2>1. from' = from /\ editing' = "to" /\ to' = d
    BY <1>1, <1>5 DEF Calendar!Picked
  <2>2. Calendar!SelectionOrdered'
    BY <1>2, <1>5, <2>1 DEF Calendar!SelectionOrdered
  <2> QED
    BY <1>1, <1>2, <2>1, <2>2, SelectionMoves
<1> QED
  BY <1>2, <1>3, <1>4, <1>5

\* The months of days that are there, first and last.
LEMMA MonthBounds ==
  ASSUME NEW S \in SUBSET Calendar!Days, S # {}
  PROVE  /\ Calendar!MonthOf(Calendar!Min(S)) \in Nat \ {0}
         /\ Calendar!MonthOf(Calendar!Max(S)) \in Nat \ {0}
         /\ Calendar!MonthOf(Calendar!Max(S)) <= Calendar!MonthOf(LastDay)
         /\ \A d \in S : /\ Calendar!MonthOf(d) \in Nat
                         /\ Calendar!MonthOf(Calendar!Min(S)) <= Calendar!MonthOf(d)
                         /\ Calendar!MonthOf(d) <= Calendar!MonthOf(Calendar!Max(S))
<1>1. /\ Calendar!Min(S) \in S /\ \A d \in S : Calendar!Min(S) <= d
      /\ Calendar!Max(S) \in S /\ \A d \in S : d <= Calendar!Max(S)
  BY Extremes
<1>2. \A d \in S : d \in Nat \ {0} /\ d <= LastDay
  BY DEF Calendar!Days
<1>3. LastDay \in Nat \ {0}
  BY Lengths
<1>4. ASSUME NEW d \in S PROVE /\ Calendar!MonthOf(d) \in Nat
                               /\ Calendar!MonthOf(Calendar!Min(S)) <= Calendar!MonthOf(d)
                               /\ Calendar!MonthOf(d) <= Calendar!MonthOf(Calendar!Max(S))
  BY <1>1, <1>2, MonthsInOrder
<1> QED
  BY <1>1, <1>2, <1>3, <1>4, MonthsInOrder

\* The arrows stay between the month before the first day and that of the last.
LEMMA ShiftMonthKeeps ==
  ASSUME CalendarInv, NEW by \in {-1, 1}, Calendar!ShiftMonth(by)
  PROVE  CalendarInv'
<1>1. /\ UNCHANGED <<calendarPage, range, custom, summary, form, days, loading, current, old, answer,
                     from, to, editing, times, status, apply, error>>
      /\ calendarClicks' \in 0..CalendarClicks /\ status = "calendar" /\ month' = month + by
      /\ IF by < 0 THEN month - 1 >= Calendar!FirstMonth ELSE month + 1 <= Calendar!LastMonth
  BY ClickCounts DEF CalendarInv, Calendar!ShiftMonth, Calendar!InForm, Calendar!rangeVars,
     Calendar!requestVars
<1>2. days # {} /\ days \in SUBSET Calendar!Days /\ month \in Int
      /\ Calendar!FirstMonth - 1 <= month /\ month <= Calendar!LastMonth
  BY <1>1 DEF CalendarInv, CalendarTyped, MonthsFit
<1>3. /\ Calendar!FirstMonth \in Nat \ {0} /\ Calendar!LastMonth \in Nat \ {0}
      /\ Calendar!LastMonth <= Calendar!MonthOf(LastDay) /\ Calendar!MonthOf(LastDay) \in Nat
  <2>1. LastDay \in Calendar!Days /\ LastDay \in Nat \ {0} /\ LastDay <= LastDay
    BY Lengths DEF Calendar!Days
  <2>2. Calendar!MonthOf(LastDay) \in Nat
    BY <2>1, MonthsInOrder
  <2> QED
    BY <1>2, <2>2, MonthBounds DEF Calendar!FirstMonth, Calendar!LastMonth
<1>4. /\ Calendar!FirstMonth - 1 <= month' /\ month' <= Calendar!LastMonth
      /\ month' \in -1..(Calendar!MonthOf(LastDay) + 1)
  BY <1>1, <1>2, <1>3
<1>5. CalendarTyped'
  BY <1>1, <1>4 DEF CalendarInv, CalendarTyped
<1>6. MonthsFit'
  BY <1>1, <1>2, <1>4 DEF MonthsFit, Calendar!FirstMonth, Calendar!LastMonth
<1> QED
  BY <1>1, <1>5, <1>6 DEF CalendarInv, InForce, Waiting, Calendar!LoadingIsCurrent,
     Calendar!ApplyTells,
     Calendar!SelectionOrdered, Calendar!SummaryTells

\* The newest answer drops the days it does not contain and shows the month of the first.
LEMMA DaysAnsweredKeeps ==
  ASSUME CalendarInv, NEW S \in SUBSET Calendar!Days, Calendar!DaysAnswered(S)
  PROVE  CalendarInv'
<1>1. /\ UNCHANGED <<calendarPage, range, custom, summary, form, editing, times, old, calendarClicks>>
      /\ current /\ current' = FALSE /\ answer' = {S} /\ days' = S /\ loading' = FALSE /\ error' = FALSE
      /\ from' = Calendar!AfterAnswer(from, S) /\ to' = Calendar!AfterAnswer(to, S)
      /\ month' = IF S = {} THEN -1 ELSE Calendar!FirstShown(S, from')
      /\ apply' = Calendar!Acceptable(loading', days', from', to', times')
      /\ status' = IF S = {} THEN "none" ELSE "calendar"
  BY DEF Calendar!DaysAnswered, Calendar!rangeVars, Calendar!UpdateSelection, Calendar!Invalid
<1>2. /\ from' \in S \cup {NoDay} /\ to' \in S \cup {NoDay}
      /\ (from' # NoDay => from' = from)
      /\ (to' # NoDay => to' = to)
  BY <1>1 DEF Calendar!AfterAnswer
<1>3. ASSUME S # {} PROVE month' \in Int /\ Calendar!MonthOf(Calendar!Min(S)) - 1 <= month'
                          /\ month' <= Calendar!MonthOf(Calendar!Max(S))
  <2> DEFINE d == IF from' # NoDay THEN from' ELSE Calendar!Max(S)
             k == IF Calendar!Cardinality(S) > 1 THEN 1 ELSE 0
  <2>1. d \in S
    BY <1>2, <1>3, Extremes
  <2>2. month' = Calendar!MonthOf(d) - k /\ k \in {0, 1}
    BY <1>1, <1>3 DEF Calendar!FirstShown
  <2> HIDE DEF d, k
  <2>3. /\ Calendar!MonthOf(Calendar!Min(S)) \in Nat /\ Calendar!MonthOf(Calendar!Max(S)) \in Nat
        /\ Calendar!MonthOf(d) \in Nat
        /\ Calendar!MonthOf(Calendar!Min(S)) <= Calendar!MonthOf(d)
        /\ Calendar!MonthOf(d) <= Calendar!MonthOf(Calendar!Max(S))
    BY <1>3, <2>1, MonthBounds
  <2> QED
    BY <2>2, <2>3
<1>4. month' \in -1..(Calendar!MonthOf(LastDay) + 1)
  <2>1. LastDay \in Nat \ {0} /\ LastDay <= LastDay
    BY Lengths
  <2>2. Calendar!MonthOf(LastDay) \in Nat
    BY <2>1, MonthsInOrder
  <2>3. S # {} => /\ Calendar!MonthOf(Calendar!Max(S)) <= Calendar!MonthOf(LastDay)
                  /\ Calendar!MonthOf(Calendar!Min(S)) \in Nat /\ Calendar!MonthOf(Calendar!Max(S)) \in Nat
    BY MonthBounds
  <2> QED
    BY <1>1, <1>3, <2>2, <2>3
<1>5. apply' \in BOOLEAN
  BY <1>1 DEF Calendar!Acceptable
<1>6. CalendarTyped'
  <2>1. old' + (IF current' THEN 1 ELSE 0) <= MaxRequests /\ old' \in Nat
    BY <1>1, PartsAssumption DEF CalendarInv, CalendarTyped, Calendar!CalendarAssumption
  <2> QED
    BY <1>1, <1>2, <1>4, <1>5, <2>1 DEF CalendarInv, CalendarTyped
<1>7. MonthsFit'
  BY <1>1, <1>3 DEF MonthsFit, Calendar!FirstMonth, Calendar!LastMonth
<1>8. Waiting' /\ InForce' /\ Calendar!SelectionOrdered' /\ Calendar!SummaryTells'
  BY <1>1, <1>2 DEF CalendarInv, InForce, Waiting, Calendar!LoadingIsCurrent, Calendar!ApplyTells,
     Calendar!SelectionOrdered, Calendar!SummaryTells
<1> QED
  BY <1>6, <1>7, <1>8 DEF CalendarInv

\* The newest request fails: the form waits no longer.
LEMMA DaysFailedKeeps ==
  ASSUME CalendarInv, Calendar!DaysFailed
  PROVE  CalendarInv'
<1>1. /\ UNCHANGED <<calendarPage, range, custom, summary, form, days, from, to, editing, month, times, old,
                     calendarClicks>>
      /\ current /\ current' = FALSE /\ answer' = {} /\ loading' = FALSE /\ error' = FALSE /\ status' = "failed"
      /\ apply' = Calendar!Acceptable(loading', days', from', to', times')
  BY DEF Calendar!DaysFailed, Calendar!rangeVars, Calendar!UpdateSelection
<1>2. apply' \in BOOLEAN
  BY <1>1 DEF Calendar!Acceptable
<1>3. CalendarTyped'
  <2>1. old' + (IF current' THEN 1 ELSE 0) <= MaxRequests /\ old' \in Nat
    BY <1>1, PartsAssumption DEF CalendarInv, CalendarTyped, Calendar!CalendarAssumption
  <2> QED
    BY <1>1, <1>2, <2>1 DEF CalendarInv, CalendarTyped
<1>4. Waiting' /\ InForce' /\ MonthsFit' /\ Calendar!SelectionOrdered' /\ Calendar!SummaryTells'
  BY <1>1 DEF CalendarInv, InForce, MonthsFit, Waiting, Calendar!LoadingIsCurrent,
     Calendar!ApplyTells,
     Calendar!SelectionOrdered, Calendar!SummaryTells, Calendar!FirstMonth, Calendar!LastMonth
<1> QED
  BY <1>3, <1>4 DEF CalendarInv

\* The inductive invariant of the calendar holds in every state.
THEOREM CalendarInvariant == Spec => []CalendarInv
<1>1. Init => CalendarInv
  <2> SUFFICES ASSUME Calendar!Init PROVE CalendarInv
    BY DEF Init
  <2>1. /\ 0 \in TimeTexts /\ SecondsPerDay - 1 \in TimeTexts /\ LastDay \in Nat \ {0} /\ LastDay <= LastDay
    BY Lengths DEF TimeTexts, Calendar!Times
  <2>2. Calendar!MonthOf(LastDay) \in Nat /\ MaxRequests \in Nat /\ CalendarClicks \in Nat
    BY <2>1, MonthsInOrder, PartsAssumption DEF Calendar!CalendarAssumption
  <2>5. /\ calendarPage = "overview" /\ range = "preset" /\ custom = NoRange /\ summary = Calendar!Hidden
        /\ form = FALSE /\ days = {} /\ from = NoDay /\ to = NoDay /\ editing = "from" /\ month = -1
        /\ loading = FALSE /\ times = [from |-> 0, to |-> SecondsPerDay - 1] /\ status = "loading"
        /\ apply = FALSE /\ error = FALSE /\ current = FALSE /\ old = 0 /\ answer = {}
        /\ calendarClicks = CalendarClicks
    BY DEF Calendar!Init, Calendar!Invalid
  <2>3. CalendarTyped
    <3>1. form \in BOOLEAN /\ loading \in BOOLEAN /\ apply \in BOOLEAN /\ error \in BOOLEAN /\ current \in BOOLEAN
      BY <2>5
    <3>3. times \in [from : TimeTexts, to : TimeTexts]
      BY <2>1, <2>5
    <3>4. month \in -1..(Calendar!MonthOf(LastDay) + 1)
      BY <2>2, <2>5
    <3>5. old \in Nat /\ old + (IF current THEN 1 ELSE 0) <= MaxRequests /\ calendarClicks \in 0..CalendarClicks
      BY <2>2, <2>5
    <3>6. /\ calendarPage \in {"overview", "interfaces", "settings"} /\ range \in {"preset", "custom"}
          /\ days \subseteq Calendar!Days /\ from \in Calendar!Days \cup {NoDay}
          /\ to \in Calendar!Days \cup {NoDay} /\ editing \in {"from", "to"}
      BY <2>5
    <3>7. status \in {"loading", "none", "calendar", "failed"} /\ answer \subseteq SUBSET Calendar!Days
      BY <2>5
    <3> QED
      BY <3>1, <3>3, <3>4, <3>5, <3>6, <3>7 DEF CalendarTyped
  <2>4. InForce /\ MonthsFit /\ Waiting /\ Calendar!SelectionOrdered /\ Calendar!SummaryTells
    BY DEF Calendar!Init, InForce, MonthsFit, Waiting, Calendar!LoadingIsCurrent,
       Calendar!ApplyTells,
       Calendar!SelectionOrdered, Calendar!SummaryTells
  <2> QED
    BY <2>3, <2>4 DEF CalendarInv
<1>2. CalendarInv /\ [Next]_vars => CalendarInv'
  <2> SUFFICES ASSUME CalendarInv, [Next]_vars PROVE CalendarInv'
    OBVIOUS
  <2>1. CASE Calendar!Answers
    BY <2>1, DaysFailedKeeps, StaleKeeps, DaysAnsweredKeeps DEF Calendar!Answers
  <2>2. CASE Calendar!OpenForm
    BY <2>2, OpenFormKeeps
  <2>3. CASE Calendar!CloseForm
    BY <2>3, CloseFormKeeps
  <2>4. CASE Calendar!Submit
    BY <2>4, SubmitRangeKeeps
  <2>5. CASE Calendar!ActivatePreset
    BY <2>5, PresetKeeps
  <2>6. CASE \E side \in {"from", "to"} :
                 Calendar!EditSide(side) \/ \E t \in Calendar!Times \cup {BadTime} : Calendar!EditTime(side, t)
    BY <2>6, EditSideKeeps, EditTimeKeeps DEF TimeTexts
  <2>7. CASE \E d \in Calendar!Days : Calendar!PickDay(d)
    BY <2>7, PickDayKeeps
  <2>8. CASE \E by \in {-1, 1} : Calendar!ShiftMonth(by)
    BY <2>8, ShiftMonthKeeps
  <2>9. CASE \E p \in {"overview", "interfaces", "settings"} : Calendar!Navigate(p)
    BY <2>9, NavigateRangeKeeps
  <2>10. CASE UNCHANGED calendarVars
    BY <2>10 DEF calendarVars, CalendarInv, CalendarTyped, InForce, MonthsFit, Waiting,
       Calendar!LoadingIsCurrent,
       Calendar!ApplyTells, Calendar!SelectionOrdered, Calendar!SummaryTells, Calendar!FirstMonth,
       Calendar!LastMonth
  <2>11. Calendar!Next \/ UNCHANGED calendarVars
    BY DEF Next, DrawerMoves, FiltersMove, CalendarMoves, ChartsMove, vars
  <2> QED
    BY <2>1, <2>2, <2>3, <2>4, <2>5, <2>6, <2>7, <2>8, <2>9, <2>10, <2>11 DEF Calendar!Next
<1> QED
  BY <1>1, <1>2, PTL DEF Spec

\* Form, selection, months and the button that names the range agree through any sequence of
\* answers, failures, picks and submits (updateCalendarSelection, app.js:337), whatever the rest
\* of the page does.
THEOREM RangeCorrect == Spec => []RangeIsTrue
<1>1. CalendarInv => RangeIsTrue
  <2> SUFFICES ASSUME CalendarInv PROVE RangeIsTrue
    OBVIOUS
  <2>1. custom = NoRange \/ (custom.from \in Calendar!Millis /\ custom.to \in Calendar!Millis)
    BY RecordedShows DEF CalendarInv, InForce
  <2>2. old \in 0..MaxRequests
    BY PartsAssumption DEF CalendarInv, CalendarTyped, Calendar!CalendarAssumption
  <2>3. {times.from, times.to} \subseteq Calendar!Times \cup {BadTime}
    BY DEF CalendarInv, CalendarTyped, TimeTexts
  <2>4. Calendar!TypeOK
    BY <2>1, <2>2, <2>3 DEF CalendarInv, CalendarTyped, Calendar!TypeOK
  <2>5. Calendar!MonthsWithinRecords
    BY DEF CalendarInv, MonthsFit, Calendar!MonthsWithinRecords
  <2> QED
    BY <2>4, <2>5 DEF CalendarInv, Waiting, RangeIsTrue
<1> QED
  BY <1>1, CalendarInvariant, PTL

-----------------------------------------------------------------------------
(* The charts.                                                             *)

\* What may be drawn, and the frames that a chart may have requested.
Kinds == {"none", "noUsage", "noDims", "chart"}
Drawing == [kind : Kinds, data : Trends \cup {Charts!NoTrend}, dims : SUBSET Dims,
            width : Widths \cup {Fallback}, serial : Nat]
ChartDrawing == {g \in Drawing : g.kind = "chart"}
Ask == [drawing : ChartDrawing, pointer : 0..Plot \cup {Beside}]
Animation == [to : Figures, left : 0..Duration]

\* The types the steps rely on.
ChartsTyped ==
    /\ chartPage \in {"overview", "other"} /\ width \in Widths
    /\ data \in Trends \cup {Charts!NoTrend} /\ active \in SUBSET Dims
    /\ resizing \in BOOLEAN /\ events \in 0..ChartEvents

\* The youngest animation leads to the figure wanted and is the last to end.
FiguresSettle ==
    /\ target \in Figures \cup {Blank} /\ shown \in Figures \cup {Blank, Between} /\ previous = target
    /\ running \in Seq(Animation)
    /\ \A i, j \in DOMAIN running : i <= j => running[i].left <= running[j].left
    /\ running # <<>> => target # Blank /\ running[Len(running)].to = target
    /\ running = <<>> => shown = target

\* Every drawing takes an event, the one of a resize that of the resize.
DrawingIsTrue ==
    /\ drawn \in Drawing
    /\ drawn.serial + (IF resizing THEN 1 ELSE 0) + events <= ChartEvents
    /\ Charts!DrawnIsCurrent /\ Charts!DrawnVisible

\* Only charts have handlers, and the frames of those that were replaced are older.
HandlersAreCharts ==
    /\ handler \in Drawing /\ handler.serial <= drawn.serial
    /\ handler # Charts!NoDrawing => handler.kind = "chart"
    /\ frame \in BOOLEAN /\ pointer \in 0..Plot \cup {Beside, Away}
    /\ frame => handler # Charts!NoDrawing /\ pointer # Away
    /\ stale \in Seq(Ask) /\ \A i \in DOMAIN stale : stale[i].drawing.serial < handler.serial

\* The inductive invariant of the charts.
ChartsInv == ChartsTyped /\ FiguresSettle /\ DrawingIsTrue /\ HandlersAreCharts

\* What is assumed of the constants.
LEMMA ChartConstants ==
  /\ Duration \in Nat \ {0} /\ Plot \in Nat \ {0} /\ ChartEvents \in Nat
  /\ \A d \in Trends : d.times \in Seq(Nat) /\ d.usage \in BOOLEAN
  /\ StartWidth \in Widths /\ Fallback \notin Widths
  /\ Between \notin Figures \cup {Blank} /\ Blank \notin Figures
  /\ Beside \notin 0..Plot /\ Away \notin 0..Plot /\ Beside # Away
  BY PartsAssumption DEF Charts!OverviewChartsAssumption

\* The frame that is requested, as a sequence.
LEMMA AskedIsOne ==
  ASSUME HandlersAreCharts
  PROVE  /\ Charts!Asked \in Seq(Ask)
         /\ \A i \in DOMAIN Charts!Asked : Charts!Asked[i].drawing = handler
<1>1. CASE frame
  <2>1. handler \in ChartDrawing /\ pointer \in 0..Plot \cup {Beside}
    BY <1>1 DEF HandlersAreCharts, ChartDrawing
  <2>2. [drawing |-> handler, pointer |-> pointer] \in Ask
    BY <2>1 DEF Ask
  <2> QED
    BY <1>1, <2>2 DEF Charts!Asked
<1>2. CASE ~frame
  BY <1>2 DEF Charts!Asked
<1> QED
  BY <1>1, <1>2

\* A drawing replaces the one before; a message keeps the handlers of the last chart.
LEMMA RenderKeeps ==
  ASSUME ChartsTyped, DrawingIsTrue, HandlersAreCharts,
         NEW d \in Trends \cup {Charts!NoTrend}, NEW dims \in SUBSET Dims, Charts!RenderTrend(d, dims),
         chartPage = "overview"
  PROVE  /\ HandlersAreCharts'
         /\ drawn' \in Drawing /\ drawn'.serial = drawn.serial + 1
         /\ drawn'.kind = Charts!KindOf(d, dims) /\ drawn'.data = d /\ drawn'.dims = dims
         /\ drawn'.width # Fallback
<1> DEFINE new == [kind |-> Charts!KindOf(d, dims), data |-> d, dims |-> dims, width |-> width,
                   serial |-> drawn.serial + 1]
<1>1. /\ drawn' = new
      /\ IF new.kind = "chart"
         THEN handler' = new /\ pointer' = Away /\ frame' = FALSE /\ stale' = stale \o Charts!Asked
         ELSE UNCHANGED <<handler, pointer, frame, stale>>
  BY DEF Charts!RenderTrend, Charts!ClientWidth
<1>2. Charts!KindOf(d, dims) \in Kinds
  BY ChartConstants DEF Charts!KindOf, Kinds, Charts!NoTrend
<1>3. drawn.serial \in Nat /\ width \in Widths
  BY DEF DrawingIsTrue, Drawing, ChartsTyped
<1>4. new \in Drawing /\ new.serial = drawn.serial + 1 /\ new.width # Fallback
  BY <1>2, <1>3, ChartConstants DEF Drawing
<1>5. new.kind = Charts!KindOf(d, dims) /\ new.data = d /\ new.dims = dims
  OBVIOUS
<1> HIDE DEF new
<1>6. CASE new.kind = "chart"
  <2>1. handler' = new /\ pointer' = Away /\ frame' = FALSE /\ stale' = stale \o Charts!Asked
    BY <1>1, <1>6
  <2>2. stale \in Seq(Ask) /\ Charts!Asked \in Seq(Ask)
    BY AskedIsOne DEF HandlersAreCharts
  <2>3. stale' \in Seq(Ask)
    BY <2>1, <2>2, ConcatProperties
  <2>4. ASSUME NEW i \in DOMAIN stale' PROVE stale'[i].drawing.serial < handler'.serial
    <3>1. handler.serial \in Nat /\ handler.serial <= drawn.serial
      BY DEF HandlersAreCharts, Drawing
    <3>2. CASE i \in DOMAIN stale
      <4>1. stale'[i] = stale[i] /\ stale[i] \in Ask
        BY <2>1, <2>2, <3>2, ConcatProperties
      <4>2. stale[i].drawing.serial < handler.serial /\ stale[i].drawing.serial \in Nat
        BY <3>2, <4>1 DEF HandlersAreCharts, Ask, ChartDrawing, Drawing
      <4> QED
        BY <1>3, <1>4, <2>1, <3>1, <4>1, <4>2
    <3>3. CASE i \notin DOMAIN stale
      <4>1. i - Len(stale) \in DOMAIN Charts!Asked /\ stale'[i] = Charts!Asked[i - Len(stale)]
        BY <2>1, <2>2, <3>3, ConcatProperties
      <4>2. stale'[i].drawing = handler
        BY <4>1, AskedIsOne
      <4> QED
        BY <1>3, <1>4, <2>1, <3>1, <4>2
    <3> QED
      BY <3>2, <3>3
  <2>5. handler' \in Drawing /\ handler'.serial <= drawn'.serial /\ handler'.kind = "chart"
    BY <1>1, <1>3, <1>4, <1>6, <2>1
  <2> QED
    BY <1>1, <1>4, <1>5, <2>1, <2>3, <2>4, <2>5 DEF HandlersAreCharts
<1>7. CASE new.kind # "chart"
  <2>1. UNCHANGED <<handler, pointer, frame, stale>>
    BY <1>1, <1>7
  <2>2. handler'.serial <= drawn'.serial
    BY <1>1, <1>3, <1>4, <2>1 DEF HandlersAreCharts, Drawing
  <2> QED
    BY <1>1, <1>4, <1>5, <2>1, <2>2 DEF HandlersAreCharts
<1> QED
  BY <1>6, <1>7

\* A new figure is displayed at once or by an animation that ends last.
LEMMA AnimateKeeps ==
  ASSUME FiguresSettle, NEW v \in Figures, Charts!AnimateNumber(v)
  PROVE  FiguresSettle'
<1>1. target' = v /\ previous' = v /\ v # Blank /\ previous = target
  BY ChartConstants DEF Charts!AnimateNumber, FiguresSettle
<1>2. CASE previous \in {Blank, v}
  <2>1. shown' = v /\ running' = running
    BY <1>2 DEF Charts!AnimateNumber
  <2>2. running # <<>> => target = v
    BY <1>1, <1>2 DEF FiguresSettle
  <2> QED
    BY <1>1, <2>1, <2>2 DEF FiguresSettle
<1>3. CASE previous \notin {Blank, v}
  <2> DEFINE a == [to |-> v, left |-> Duration]
  <2>1. running' = Append(running, a) /\ shown' = shown
    BY <1>3 DEF Charts!AnimateNumber
  <2>2. a \in Animation /\ running \in Seq(Animation) /\ a.left = Duration /\ a.to = v /\ Duration \in Nat
    BY ChartConstants DEF Animation, FiguresSettle
  <2> HIDE DEF a
  <2>3. /\ running' \in Seq(Animation) /\ Len(running') = Len(running) + 1
        /\ \A i \in 1..Len(running) : running'[i] = running[i]
        /\ running'[Len(running) + 1] = a /\ Len(running) \in Nat
        /\ DOMAIN running' = 1..(Len(running) + 1) /\ DOMAIN running = 1..Len(running)
    BY <2>1, <2>2, AppendProperties, LenProperties
  <2>4. ASSUME NEW i \in DOMAIN running', NEW j \in DOMAIN running', i <= j
        PROVE  running'[i].left <= running'[j].left
    <3>1. CASE j = Len(running) + 1
      <4>1. running'[i] \in Animation
        BY <2>3, ElementOfSeq
      <4> QED
        BY <2>2, <2>3, <3>1, <4>1 DEF Animation
    <3>2. CASE j # Len(running) + 1
      <4>1. i \in DOMAIN running /\ j \in DOMAIN running
        BY <2>3, <2>4, <3>2
      <4> QED
        BY <2>3, <2>4, <4>1 DEF FiguresSettle
    <3> QED
      BY <3>1, <3>2
  <2>5. running' # <<>> /\ running'[Len(running')].to = v
    BY <2>2, <2>3
  <2> QED
    BY <1>1, <2>1, <2>3, <2>4, <2>5 DEF FiguresSettle
<1> QED
  BY <1>2, <1>3

\* The clock brings all animations nearer to their end.
LEMMA ClockKeeps ==
  ASSUME FiguresSettle, Charts!ClockTicks
  PROVE  FiguresSettle'
<1>1. /\ running' = [i \in DOMAIN running |-> [running[i] EXCEPT !.left = IF @ = 0 THEN 0 ELSE @ - 1]]
      /\ UNCHANGED <<target, shown, previous>> /\ running # <<>>
  BY DEF Charts!ClockTicks
<1>2. running \in Seq(Animation) /\ Duration \in Nat
  BY ChartConstants DEF FiguresSettle
<1>3. ASSUME NEW i \in DOMAIN running
      PROVE  /\ running[i] \in Animation /\ running'[i] \in Animation /\ running'[i].to = running[i].to
             /\ running'[i].left = IF running[i].left = 0 THEN 0 ELSE running[i].left - 1
  <2>1. running[i] \in Animation
    BY <1>2, ElementOfSeq
  <2>2. running'[i] = [running[i] EXCEPT !.left = IF @ = 0 THEN 0 ELSE @ - 1]
    BY <1>1
  <2> QED
    BY <1>2, <2>1, <2>2 DEF Animation
<1>4. DOMAIN running' = 1..Len(running) /\ DOMAIN running = 1..Len(running) /\ Len(running) \in Nat
  BY <1>1, <1>2, LenProperties
<1>5. running' \in Seq(Animation) /\ Len(running') = Len(running)
  <2>1. running' = [i \in 1..Len(running) |-> running'[i]]
    BY <1>1, <1>4
  <2>2. \A i \in 1..Len(running) : running'[i] \in Animation
    BY <1>3, <1>4
  <2>3. running' \in Seq(Animation)
    BY <1>4, <2>1, <2>2, IsASeq
  <2> QED
    BY <1>4, <2>3, LenProperties
<1>6. ASSUME NEW i \in DOMAIN running', NEW j \in DOMAIN running', i <= j
      PROVE  running'[i].left <= running'[j].left
  <2>1. running[i].left <= running[j].left
    BY <1>4, <1>6 DEF FiguresSettle
  <2>2. running[i].left \in Nat /\ running[j].left \in Nat
    BY <1>3, <1>4 DEF Animation
  <2> QED
    BY <1>3, <1>4, <2>1, <2>2
<1>7. running' # <<>> /\ running'[Len(running')].to = running[Len(running)].to
  <2>1. Len(running) \in DOMAIN running
    BY <1>1, <1>2, <1>4, EmptySeq
  <2> QED
    BY <1>3, <1>4, <1>5, <2>1
<1> QED
  BY <1>1, <1>5, <1>6, <1>7 DEF FiguresSettle

\* A frame ends the oldest animations; with the youngest the figure is the one wanted.
LEMMA FrameKeepsFigures ==
  ASSUME FiguresSettle, Charts!FrameRuns
  PROVE  FiguresSettle'
<1>1. /\ shown' = IF running = <<>> THEN shown ELSE Charts!Written(running[Len(running)])
      /\ running' = IF Charts!GoesOn = {} THEN <<>> ELSE SubSeq(running, Charts!Min(Charts!GoesOn), Len(running))
      /\ UNCHANGED <<target, previous>>
  BY DEF Charts!FrameRuns
<1>2. /\ running \in Seq(Animation) /\ DOMAIN running = 1..Len(running) /\ Len(running) \in Nat
      /\ \A i \in DOMAIN running : running[i] \in Animation
  BY LenProperties, ElementOfSeq DEF FiguresSettle
<1>3. CASE running = <<>>
  <2>1. Charts!GoesOn = {}
    BY <1>3 DEF Charts!GoesOn
  <2> QED
    BY <1>1, <1>3, <2>1 DEF FiguresSettle
<1>4. CASE running # <<>>
  <2> DEFINE n == Len(running)
  <2>1. n \in DOMAIN running /\ running[n].to = target /\ running[n] \in Animation /\ target # Blank
    BY <1>2, <1>4, EmptySeq DEF FiguresSettle
  <2>2. shown' = IF running[n].left = 0 THEN target ELSE Between
    BY <1>1, <1>4, <2>1 DEF Charts!Written
  <2>3. CASE Charts!GoesOn = {}
    <3>1. running[n].left = 0
      BY <2>1, <2>3 DEF Charts!GoesOn, Animation
    <3>2. running' = <<>> /\ shown' = target
      BY <1>1, <2>2, <2>3, <3>1
    <3>3. running' \in Seq(Animation) /\ DOMAIN running' = {}
      BY <3>2
    <3> QED
      BY <1>1, <3>2, <3>3 DEF FiguresSettle
  <2>4. CASE Charts!GoesOn # {}
    <3> DEFINE m == Charts!Min(Charts!GoesOn)
    <3>1. m \in 1..n
      <4>1. Charts!GoesOn \in SUBSET Nat /\ Charts!GoesOn \subseteq 1..n
        BY <1>2 DEF Charts!GoesOn
      <4>2. \E i \in Charts!GoesOn : \A j \in Charts!GoesOn : i <= j
        BY <2>4, <4>1, LeastElement
      <4>3. m \in Charts!GoesOn
        BY <4>2 DEF Charts!Min
      <4> QED
        BY <4>1, <4>3
    <3>2. running' = SubSeq(running, m, n)
      BY <1>1, <2>4
    <3> HIDE DEF m
    <3>3. /\ running' \in Seq(Animation) /\ Len(running') = n - m + 1
          /\ \A i \in 1..(n - m + 1) : running'[i] = running[m + i - 1]
      BY <1>2, <3>1, <3>2, SubSeqProperties
    <3>4. DOMAIN running' = 1..(n - m + 1)
      BY <3>3, LenProperties
    <3>5. ASSUME NEW i \in DOMAIN running', NEW j \in DOMAIN running', i <= j
          PROVE  running'[i].left <= running'[j].left
      <4>1. /\ m + i - 1 \in DOMAIN running /\ m + j - 1 \in DOMAIN running /\ m + i - 1 <= m + j - 1
            /\ running'[i] = running[m + i - 1] /\ running'[j] = running[m + j - 1]
        <5>1. i \in 1..(n - m + 1) /\ j \in 1..(n - m + 1) /\ m \in Nat /\ n \in Nat
          BY <1>2, <3>1, <3>4
        <5>2. m + i - 1 \in 1..n /\ m + j - 1 \in 1..n /\ m + i - 1 <= m + j - 1
          BY <3>1, <3>5, <5>1
        <5> QED
          BY <1>2, <3>3, <5>1, <5>2
      <4> QED
        BY <4>1 DEF FiguresSettle
    <3>6. running' # <<>> /\ running'[Len(running')] = running[n]
      <4>1. n - m + 1 \in 1..(n - m + 1) /\ m + (n - m + 1) - 1 = n
        BY <1>2, <3>1
      <4>2. running'[n - m + 1] = running[m + (n - m + 1) - 1]
        BY <3>3, <4>1
      <4> QED
        BY <3>3, <3>4, <4>1, <4>2
    <3>7. shown' \in Figures \cup {Blank, Between} /\ target \in Figures \cup {Blank}
      BY <2>2 DEF FiguresSettle
    <3> QED
      BY <1>1, <2>1, <3>3, <3>5, <3>6, <3>7 DEF FiguresSettle
  <2> QED
    BY <2>3, <2>4
<1> QED
  BY <1>3, <1>4

\* What is left of the handlers once their frames have run.
LEMMA FrameKeepsHandlers ==
  ASSUME HandlersAreCharts, Charts!FrameRuns
  PROVE  HandlersAreCharts'
<1>1. UNCHANGED <<drawn, handler, pointer>> /\ frame' = FALSE /\ stale' = <<>>
  BY DEF Charts!FrameRuns
<1>2. stale' \in Seq(Ask) /\ DOMAIN stale' = {}
  BY <1>1
<1> QED
  BY <1>1, <1>2 DEF HandlersAreCharts

\* The inductive invariant of the charts holds in every state.
THEOREM ChartsInvariant == Spec => []ChartsInv
<1>1. Init => ChartsInv
  <2> SUFFICES ASSUME Charts!Init PROVE ChartsInv
    BY DEF Init
  <2>1. /\ chartPage = "overview" /\ width = StartWidth /\ target = Blank /\ shown = Blank /\ previous = Blank
        /\ running = <<>> /\ data = Charts!NoTrend /\ active = Dims /\ drawn = Charts!NoDrawing
        /\ handler = Charts!NoDrawing /\ pointer = Away /\ frame = FALSE /\ stale = <<>> /\ resizing = FALSE
        /\ events = ChartEvents
    BY DEF Charts!Init
  <2>2. ChartsTyped
    <3>1. events \in 0..ChartEvents
      BY <2>1, ChartConstants
    <3>2. resizing \in BOOLEAN
      BY <2>1
    <3> QED
      BY <2>1, <3>1, <3>2, ChartConstants DEF ChartsTyped
  <2>3. FiguresSettle
    <3>1. running \in Seq(Animation) /\ DOMAIN running = {}
      BY <2>1
    <3> QED
      BY <2>1, <3>1 DEF FiguresSettle
  <2>4. Charts!NoDrawing \in Drawing /\ Charts!NoDrawing.serial = 0 /\ Charts!NoDrawing.kind = "none"
    BY DEF Charts!NoDrawing, Drawing, Kinds
  <2>5. DrawingIsTrue
    BY <2>1, <2>4, ChartConstants DEF DrawingIsTrue, Charts!DrawnIsCurrent, Charts!DrawnVisible
  <2>6. HandlersAreCharts
    <3>1. stale \in Seq(Ask) /\ DOMAIN stale = {}
      BY <2>1
    <3> QED
      <4>1. handler \in Drawing /\ handler.serial <= drawn.serial
        BY <2>1, <2>4
      <4>2. frame \in BOOLEAN /\ ~frame /\ pointer \in 0..Plot \cup {Beside, Away}
        BY <2>1
      <4> QED
        BY <2>1, <3>1, <4>1, <4>2 DEF HandlersAreCharts
  <2> QED
    BY <2>2, <2>3, <2>5, <2>6 DEF ChartsInv
<1>2. ChartsInv /\ [Next]_vars => ChartsInv'
  <2> SUFFICES ASSUME ChartsInv, [Next]_vars PROVE ChartsInv'
    OBVIOUS
  <2>1. ChartsTyped /\ FiguresSettle /\ DrawingIsTrue /\ HandlersAreCharts
    BY DEF ChartsInv
  <2>2. events \in Nat /\ drawn.serial \in Nat /\ ChartEvents \in Nat
        /\ drawn.serial + (IF resizing THEN 1 ELSE 0) + events <= ChartEvents
    BY <2>1, ChartConstants DEF ChartsTyped, DrawingIsTrue, Drawing
  <2>3. ASSUME NEW v \in Figures, NEW d \in Trends, Charts!SummaryAnswered(v, d) PROVE ChartsInv'
    <3>1. /\ events > 0 /\ events' = events - 1 /\ chartPage = "overview" /\ Charts!AnimateNumber(v)
          /\ data' = d /\ Charts!RenderTrend(d, active) /\ UNCHANGED <<chartPage, width, active, tip, resizing>>
      BY <2>3 DEF Charts!SummaryAnswered, Charts!Event
    <3>2. active \in SUBSET Dims /\ d \in Trends \cup {Charts!NoTrend}
      BY <2>1 DEF ChartsTyped
    <3>3. /\ HandlersAreCharts' /\ drawn' \in Drawing /\ drawn'.serial = drawn.serial + 1
          /\ drawn'.kind = Charts!KindOf(d, active) /\ drawn'.data = d /\ drawn'.dims = active
          /\ drawn'.width # Fallback
      BY <2>1, <3>1, <3>2, RenderKeeps
    <3>4. FiguresSettle'
      BY <2>1, <3>1, AnimateKeeps
    <3>5. ChartsTyped'
      BY <2>1, <2>2, <3>1 DEF ChartsTyped
    <3>6. drawn'.serial + (IF resizing' THEN 1 ELSE 0) + events' <= ChartEvents
      BY <2>2, <3>1, <3>3
    <3>7. DrawingIsTrue'
      BY <3>1, <3>3, <3>6 DEF DrawingIsTrue, Charts!DrawnIsCurrent, Charts!DrawnVisible
    <3> QED
      BY <3>3, <3>4, <3>5, <3>7 DEF ChartsInv
  <2>4. ASSUME NEW dim \in Dims, Charts!ToggleDim(dim) PROVE ChartsInv'
    <3> DEFINE dims == Charts!SymDiff(active, {dim})
    <3>1. /\ events > 0 /\ events' = events - 1 /\ chartPage = "overview" /\ active' = dims
          /\ Charts!RenderTrend(data, dims)
          /\ UNCHANGED <<chartPage, width, target, shown, previous, running, data, tip, resizing>>
      BY <2>4 DEF Charts!ToggleDim, Charts!Event, Charts!kpiVars
    <3>2. dims \in SUBSET Dims /\ data \in Trends \cup {Charts!NoTrend}
      BY <2>1 DEF ChartsTyped, Charts!SymDiff
    <3> HIDE DEF dims
    <3>3. /\ HandlersAreCharts' /\ drawn' \in Drawing /\ drawn'.serial = drawn.serial + 1
          /\ drawn'.kind = Charts!KindOf(data, dims) /\ drawn'.data = data /\ drawn'.dims = dims
          /\ drawn'.width # Fallback
      BY <2>1, <3>1, <3>2, RenderKeeps
    <3>4. FiguresSettle'
      BY <2>1, <3>1 DEF FiguresSettle
    <3>5. ChartsTyped'
      BY <2>1, <2>2, <3>1, <3>2 DEF ChartsTyped
    <3>6. drawn'.serial + (IF resizing' THEN 1 ELSE 0) + events' <= ChartEvents
      BY <2>2, <3>1, <3>3
    <3>7. DrawingIsTrue'
      BY <3>1, <3>3, <3>6 DEF DrawingIsTrue, Charts!DrawnIsCurrent, Charts!DrawnVisible
    <3> QED
      BY <3>3, <3>4, <3>5, <3>7 DEF ChartsInv
  <2>5. ASSUME Charts!Redraw PROVE ChartsInv'
    <3>1. /\ resizing /\ resizing' = FALSE
          /\ UNCHANGED <<chartPage, width, target, shown, previous, running, data, active, tip, events>>
          /\ IF chartPage = "overview" /\ data.times # <<>> THEN Charts!RenderTrend(data, active)
             ELSE UNCHANGED <<drawn, handler, pointer, frame, stale>>
      BY <2>5 DEF Charts!Redraw, Charts!kpiVars, Charts!chartVars
    <3>2. FiguresSettle' /\ ChartsTyped'
      BY <2>1, <3>1 DEF FiguresSettle, ChartsTyped
    <3>3. CASE chartPage = "overview" /\ data.times # <<>>
      <4>1. active \in SUBSET Dims /\ data \in Trends \cup {Charts!NoTrend} /\ Charts!RenderTrend(data, active)
        BY <2>1, <3>1, <3>3 DEF ChartsTyped
      <4>2. /\ HandlersAreCharts' /\ drawn' \in Drawing /\ drawn'.serial = drawn.serial + 1
            /\ drawn'.kind = Charts!KindOf(data, active) /\ drawn'.data = data /\ drawn'.dims = active
            /\ drawn'.width # Fallback
        BY <2>1, <3>3, <4>1, RenderKeeps
      <4>3. drawn'.serial + (IF resizing' THEN 1 ELSE 0) + events' <= ChartEvents
        BY <2>2, <3>1, <4>2
      <4>4. DrawingIsTrue'
        BY <3>1, <4>2, <4>3 DEF DrawingIsTrue, Charts!DrawnIsCurrent, Charts!DrawnVisible
      <4> QED
        BY <3>2, <4>2, <4>4 DEF ChartsInv
    <3>4. CASE ~(chartPage = "overview" /\ data.times # <<>>)
      <4>1. UNCHANGED <<drawn, handler, pointer, frame, stale>>
        BY <3>1, <3>4
      <4>2. drawn'.serial + (IF resizing' THEN 1 ELSE 0) + events' <= ChartEvents
        BY <2>2, <3>1, <4>1
      <4>3. DrawingIsTrue' /\ HandlersAreCharts'
        BY <2>1, <3>1, <4>1, <4>2 DEF DrawingIsTrue, HandlersAreCharts, Charts!DrawnIsCurrent,
           Charts!DrawnVisible
      <4> QED
        BY <3>2, <4>3 DEF ChartsInv
    <3> QED
      BY <3>3, <3>4
  <2>6. ASSUME Charts!FrameRuns PROVE ChartsInv'
    <3>1. UNCHANGED <<chartPage, width, data, active, drawn, resizing, events>>
      BY <2>6 DEF Charts!FrameRuns
    <3>2. ChartsTyped' /\ DrawingIsTrue'
      BY <2>1, <3>1 DEF ChartsTyped, DrawingIsTrue, Charts!DrawnIsCurrent, Charts!DrawnVisible
    <3> QED
      BY <2>1, <2>6, <3>2, FrameKeepsFigures, FrameKeepsHandlers DEF ChartsInv
  <2>7. ASSUME Charts!ClockTicks PROVE ChartsInv'
    <3>1. UNCHANGED <<chartPage, width, data, active, drawn, handler, pointer, frame, stale, resizing, events>>
      BY <2>7 DEF Charts!ClockTicks, Charts!chartVars
    <3>2. ChartsTyped' /\ DrawingIsTrue' /\ HandlersAreCharts'
      BY <2>1, <3>1 DEF ChartsTyped, DrawingIsTrue, HandlersAreCharts, Charts!DrawnIsCurrent,
         Charts!DrawnVisible
    <3> QED
      BY <2>1, <2>7, <3>2, ClockKeeps DEF ChartsInv
  <2>8. ASSUME UNCHANGED <<target, shown, previous, running, drawn, handler, stale, data, active>>, ChartsTyped',
               drawn.serial + (IF resizing' THEN 1 ELSE 0) + events' <= ChartEvents,
               pointer' \in 0..Plot \cup {Beside, Away}, frame' \in BOOLEAN,
               frame' => handler # Charts!NoDrawing /\ pointer' # Away
        PROVE  ChartsInv'
    <3>1. FiguresSettle'
      BY <2>1, <2>8 DEF FiguresSettle
    <3>2. HandlersAreCharts'
      BY <2>1, <2>8 DEF HandlersAreCharts
    <3>3. events' \in Nat /\ drawn' = drawn
      BY <2>8 DEF ChartsTyped
    <3>5. DrawingIsTrue'
      BY <2>1, <2>8, <3>3 DEF DrawingIsTrue, Charts!DrawnIsCurrent, Charts!DrawnVisible
    <3> QED
      BY <2>8, <3>1, <3>2, <3>5 DEF ChartsInv
  <2>9. ASSUME Charts!Navigate PROVE ChartsInv'
    <3>1. /\ chartPage' \in {"overview", "other"} /\ events > 0 /\ events' = events - 1
          /\ UNCHANGED <<width, target, shown, previous, running, data, active, drawn, handler, pointer, frame, stale,
                         resizing>>
      BY <2>9 DEF Charts!Navigate, Charts!Event, Charts!kpiVars, Charts!chartVars
    <3>2. ChartsTyped'
      BY <2>1, <2>2, <3>1 DEF ChartsTyped
    <3> QED
      BY <2>1, <2>2, <2>8, <3>1, <3>2 DEF HandlersAreCharts
  <2>10. ASSUME NEW w \in Widths, Charts!Resize(w) PROVE ChartsInv'
    <3>1. /\ width' = w /\ resizing' = TRUE /\ events > 0 /\ events' = events - 1
          /\ UNCHANGED <<chartPage, target, shown, previous, running, data, active, drawn, handler, pointer, frame, stale>>
      BY <2>10 DEF Charts!Resize, Charts!Event, Charts!kpiVars, Charts!chartVars
    <3>2. ChartsTyped'
      BY <2>1, <2>2, <3>1 DEF ChartsTyped
    <3>3. drawn.serial + (IF resizing' THEN 1 ELSE 0) + events' <= ChartEvents
      BY <2>2, <3>1
    <3> QED
      BY <2>1, <2>8, <3>1, <3>2, <3>3 DEF HandlersAreCharts
  <2>11. ASSUME NEW x \in 0..Plot \cup {Beside}, Charts!PointerMoves(x) PROVE ChartsInv'
    <3>1. /\ pointer' = x /\ frame' = TRUE /\ events > 0 /\ events' = events - 1 /\ handler # Charts!NoDrawing
          /\ UNCHANGED <<chartPage, width, target, shown, previous, running, data, active, drawn, handler, stale, resizing>>
      BY <2>11 DEF Charts!PointerMoves, Charts!Event, Charts!kpiVars
    <3>2. ChartsTyped'
      BY <2>1, <2>2, <3>1 DEF ChartsTyped
    <3>3. x # Away /\ x \in 0..Plot \cup {Beside, Away}
      BY ChartConstants
    <3> QED
      BY <2>2, <2>8, <3>1, <3>2, <3>3
  <2>12. ASSUME Charts!PointerLeaves PROVE ChartsInv'
    <3>1. /\ pointer' = Away /\ frame' = FALSE /\ events > 0 /\ events' = events - 1
          /\ UNCHANGED <<chartPage, width, target, shown, previous, running, data, active, drawn, handler, stale, resizing>>
      BY <2>12 DEF Charts!PointerLeaves, Charts!Event, Charts!kpiVars
    <3>2. ChartsTyped'
      BY <2>1, <2>2, <3>1 DEF ChartsTyped
    <3>3. drawn.serial + (IF resizing' THEN 1 ELSE 0) + events' <= ChartEvents
      BY <2>2, <3>1
    <3>4. frame' \in BOOLEAN /\ ~frame' /\ pointer' \in 0..Plot \cup {Beside, Away}
      BY <3>1
    <3> QED
      BY <2>8, <3>1, <3>2, <3>3, <3>4
  <2>13. ASSUME UNCHANGED chartVars PROVE ChartsInv'
    BY <2>1, <2>13 DEF chartVars, ChartsInv, ChartsTyped, FiguresSettle, DrawingIsTrue,
       HandlersAreCharts,
       Charts!DrawnIsCurrent, Charts!DrawnVisible
  <2>14. Charts!Next \/ UNCHANGED chartVars
    BY DEF Next, DrawerMoves, FiltersMove, CalendarMoves, ChartsMove, vars
  <2> QED
    BY <2>3, <2>4, <2>5, <2>6, <2>7, <2>9, <2>10, <2>11, <2>12, <2>13, <2>14 DEF Charts!Next
<1> QED
  BY <1>1, <1>2, PTL DEF Spec

\* Key figures and trend chart settle on the last answer (animateNumber, app.js:1106; renderTrend,
\* app.js:1225) whatever animations, resizes and clicks on the legend come in between.
THEOREM ChartsCorrect == Spec => []ChartsAreTrue
<1>1. ChartsInv => ChartsAreTrue
  <2> SUFFICES ASSUME ChartsInv PROVE ChartsAreTrue
    OBVIOUS
  <2>1. ChartsTyped /\ FiguresSettle /\ DrawingIsTrue /\ HandlersAreCharts
    BY DEF ChartsInv
  <2>2. drawn.serial <= ChartEvents + 1
    BY <2>1, ChartConstants DEF ChartsTyped, DrawingIsTrue, Drawing
  <2>3. running \in Seq([to : Figures, left : 0..Duration])
    BY <2>1 DEF FiguresSettle, Animation
  <2>4. Charts!TypeOK
    BY <2>1, <2>2, <2>3 DEF ChartsTyped, FiguresSettle, HandlersAreCharts, Charts!TypeOK
  <2> QED
    BY <2>1, <2>4 DEF ChartsAreTrue, FiguresSettle, DrawingIsTrue, Charts!KpiSettles
<1> QED
  BY <1>1, ChartsInvariant, PTL

-----------------------------------------------------------------------------
(* What no step of the page may do.                                        *)

\* The dropdown of the models has only those that are offered, or none.
ModelOffered == field["model"] \in options \cup {Empty}

\* A form with the model emptied, or none at all, displays no model.
LEMMA OfferedInvariant == Spec => []ModelOffered
<1>1. Init => ModelOffered
  BY DEF Init, Filters!Init, ModelOffered, Filters!EmptyForm, Filters!Names
<1>2. FilterInv /\ ModelOffered /\ [Next]_vars => ModelOffered'
  <2> SUFFICES ASSUME FilterInv, ModelOffered, [Next]_vars PROVE ModelOffered'
    OBVIOUS
  <2>1. field \in Filters!Form /\ "model" \in Filters!Names /\ DOMAIN field = Filters!Names
    BY DEF FilterInv, SelectionTyped, Filters!Form, Filters!Names
  <2>2. CASE field' = field /\ options' = options
    BY <2>2 DEF ModelOffered
  <2>3. CASE field' \in Filters!Form /\ field'["model"] = Empty
    BY <2>3 DEF ModelOffered
  <2>4. ASSUME NEW models \in SUBSET Models, Filters!AnalysisAnswered(models) PROVE ModelOffered'
    <3>1. options' = models /\ field' = [field EXCEPT !["model"] = IF field["model"] \in models THEN field["model"] ELSE Empty]
      BY <2>4 DEF Filters!AnalysisAnswered
    <3> QED
      BY <2>1, <3>1 DEF ModelOffered
  <2>5. CASE Filters!Answers
    <3>1. ASSUME NEW w \in 0..MaxWindow \cup {None}, NEW changed \in SUBSET (0..(Cells - 1)), Filters!SummaryAnswered(w, changed)
          PROVE  field' = field /\ options' = options
      BY <3>1 DEF Filters!SummaryAnswered
    <3>2. ASSUME NEW n \in 0..MaxPages, Filters!LoadEnds(n) \/ Filters!EventsAnswered(n)
          PROVE  field' = field /\ options' = options
      BY <3>2 DEF Filters!LoadEnds, Filters!EventsAnswered
    <3>3. ASSUME Filters!LoadFails \/ Filters!EventsFail PROVE field' = field /\ options' = options
      BY <3>3 DEF Filters!LoadFails, Filters!EventsFail
    <3>4. ASSUME Filters!ResetTimeout PROVE field'["model"] = Empty
      BY <2>1, <3>4 DEF Filters!ResetTimeout, Filters!Names
    <3> QED
      BY <2>2, <2>4, <2>5, <3>1, <3>2, <3>3, <3>4 DEF Filters!Answers, ModelOffered
  <2>6. ASSUME NEW n \in Filters!Names, NEW v \in Filters!Values, Filters!Edit(n, v) PROVE ModelOffered'
    <3>1. field' = [field EXCEPT ![n] = v] /\ options' = options /\ (n = "model" => v \in options \cup {Empty})
      BY <2>6 DEF Filters!Edit
    <3> QED
      BY <2>1, <3>1 DEF ModelOffered
  <2>7. ASSUME NEW n \in Filters!Names, Filters!RemoveChip(n) PROVE ModelOffered'
    <3>1. field' = [field EXCEPT ![n] = Empty] /\ options' = options
      BY <2>7 DEF Filters!RemoveChip
    <3> QED
      BY <2>1, <3>1 DEF ModelOffered
  <2>8. ASSUME \/ \E n \in Filters!Selects : Filters!OpenSelect(n)
               \/ Filters!Submit \/ \E by \in {-1, 1} : Filters!Turn(by)
               \/ \E p \in {"overview", "interfaces"} : Filters!Load(p)
        PROVE  field' = field /\ options' = options
    BY <2>8 DEF Filters!OpenSelect, Filters!Submit, Filters!Turn, Filters!Load, Filters!formVars
  <2>9. ASSUME \/ Filters!EventReset \/ Filters!ClearHealthDrilldown
               \/ \E i \in 0..(Cells - 1), failing \in BOOLEAN : Filters!ApplyHealthDrilldown(i, failing)
               \/ \E u \in FilterUpstreams : Filters!DrilldownUpstream(u)
               \/ \E r \in Ranges : Filters!ActivateRange(r)
        PROVE  field'["model"] = Empty
    BY <2>1, <2>9 DEF Filters!EventReset, Filters!ClearHealthDrilldown,
       Filters!ApplyHealthDrilldown,
       Filters!DrilldownUpstream, Filters!ActivateRange, Filters!FormReset, Filters!SetForm, Filters!EmptyForm,
       Filters!Names
  <2>10. CASE Filters!User
    BY <2>2, <2>6, <2>7, <2>8, <2>9, <2>10 DEF Filters!User, ModelOffered
  <2>11. CASE UNCHANGED filterVars
    BY <2>11, <2>2 DEF filterVars
  <2>12. Filters!Next \/ UNCHANGED filterVars
    BY DEF Next, DrawerMoves, FiltersMove, CalendarMoves, ChartsMove, vars
  <2> QED
    BY <2>5, <2>10, <2>11, <2>12 DEF Filters!Next
<1> QED
  BY <1>1, <1>2, SelectionInvariant, PTL DEF Spec

\* Every dropdown displays the value of its select.
LabelsMatch == label = [n \in Filters!Selects |-> field[n]]

\* Bringing some dropdowns up to date does not harm the others.
LEMMA SyncedMatches ==
  ASSUME LabelsMatch, NEW f \in Filters!Form, NEW names, NEW offered,
         f["model"] \in offered \cup {Empty} \/ "model" \notin names,
         \A n \in Filters!Selects \ names : f[n] = field[n]
  PROVE  Filters!Synced(label, f, names, offered) = [n \in Filters!Selects |-> f[n]]
<1> DEFINE Synchronised(n) == CASE n \notin names -> label[n]
                          [] n \in names /\ n = "model" /\ f[n] \notin offered -> Empty
                          [] OTHER -> f[n]
<1>1. ASSUME NEW n \in Filters!Selects PROVE Synchronised(n) = f[n]
  <2>1. label[n] = field[n]
    BY DEF LabelsMatch
  <2>2. CASE n \notin names
    BY <2>1, <2>2
  <2>3. CASE n \in names /\ n = "model"
    BY <2>3
  <2>4. CASE n \in names /\ n # "model"
    BY <2>4
  <2> QED
    BY <2>2, <2>3, <2>4
<1>2. Filters!Synced(label, f, names, offered) = [n \in Filters!Selects |-> Synchronised(n)]
  BY DEF Filters!Synced
<1> HIDE DEF Synchronised
<1> QED
  BY <1>1, <1>2

\* The dropdowns follow, except for the two that reset selects behind them.
LEMMA LabelStays ==
  ASSUME FilterInv, ModelOffered, ModelOffered', [Next]_vars
  PROVE  Filters!LabelStaysTrue
<1> SUFFICES ASSUME LabelsMatch, ~Filters!EventReset, ~(\E r \in Ranges : Filters!ActivateRange(r))
             PROVE  LabelsMatch'
  BY DEF Filters!LabelStaysTrue, LabelsMatch
<1>1. /\ field \in Filters!Form /\ "model" \in Filters!Names /\ DOMAIN field = Filters!Names
      /\ Filters!Selects \subseteq Filters!Names
  BY DEF FilterInv, SelectionTyped, Filters!Form, Filters!Names, Filters!Selects
<1>2. CASE field' = field /\ label' = label
  BY <1>2 DEF LabelsMatch
<1>3. ASSUME NEW models \in SUBSET Models, Filters!AnalysisAnswered(models) PROVE LabelsMatch'
  <2>1. /\ field' = [field EXCEPT !["model"] = IF field["model"] \in models THEN field["model"] ELSE Empty]
        /\ label' = Filters!Synced(label, field', {"model"}, models)
    BY <1>3 DEF Filters!AnalysisAnswered
  <2>2. field' \in Filters!Form
    BY <1>1, <2>1 DEF Filters!Form
  <2>3. field'["model"] \in models \cup {Empty} /\ \A n \in Filters!Selects \ {"model"} : field'[n] = field[n]
    BY <1>1, <2>1
  <2> QED
    <3> DEFINE f == field'
    <3>1. Filters!Synced(label, f, {"model"}, models) = [n \in Filters!Selects |-> f[n]]
      <4> HIDE DEF f
      <4>1. f \in Filters!Form /\ f["model"] \in models \cup {Empty}
            /\ \A n \in Filters!Selects \ {"model"} : f[n] = field[n]
        BY <2>2, <2>3 DEF f
      <4> QED
        BY <4>1, SyncedMatches
    <3> QED
      BY <2>1, <3>1 DEF LabelsMatch
<1>4. ASSUME Filters!ResetTimeout PROVE LabelsMatch'
  <2>1. /\ field' = [field EXCEPT !["model"] = Empty, !["status"] = Empty]
        /\ label' = [n \in Filters!Selects |-> Empty]
    BY <1>4 DEF Filters!ResetTimeout
  <2>2. \A n \in Filters!Selects : field'[n] = Empty
    BY <1>1, <2>1 DEF Filters!Selects, Filters!Names
  <2> QED
    BY <2>1, <2>2 DEF LabelsMatch
<1>5. CASE Filters!Answers
  <2>1. ASSUME NEW w \in 0..MaxWindow \cup {None}, NEW changed \in SUBSET (0..(Cells - 1)), Filters!SummaryAnswered(w, changed)
        PROVE  field' = field /\ label' = label
    BY <2>1 DEF Filters!SummaryAnswered
  <2>2. ASSUME NEW n \in 0..MaxPages, Filters!LoadEnds(n) \/ Filters!EventsAnswered(n)
        PROVE  field' = field /\ label' = label
    BY <2>2 DEF Filters!LoadEnds, Filters!EventsAnswered
  <2>3. ASSUME Filters!LoadFails \/ Filters!EventsFail PROVE field' = field /\ label' = label
    BY <2>3 DEF Filters!LoadFails, Filters!EventsFail
  <2> QED
    BY <1>2, <1>3, <1>4, <1>5, <2>1, <2>2, <2>3 DEF Filters!Answers
<1>6. ASSUME NEW n \in Filters!Names, NEW v \in Filters!Values, Filters!Edit(n, v) PROVE LabelsMatch'
  <2>1. /\ field' = [field EXCEPT ![n] = v]
        /\ label' = IF n \in Filters!Selects THEN [label EXCEPT ![n] = v] ELSE label
    BY <1>6 DEF Filters!Edit
  <2>2. \A m \in Filters!Names : field'[m] = IF m = n THEN v ELSE field[m]
    BY <1>1, <2>1
  <2>3. label' = [m \in Filters!Selects |-> IF m = n THEN v ELSE field[m]]
    BY <2>1 DEF LabelsMatch
  <2> QED
    BY <1>1, <2>2, <2>3 DEF LabelsMatch
<1>7. ASSUME NEW n \in Filters!Selects, Filters!OpenSelect(n) PROVE LabelsMatch'
  <2>1. field' = field /\ label' = Filters!Synced(label, field, {n}, options)
    BY <1>7 DEF Filters!OpenSelect
  <2>2. Filters!Synced(label, field, {n}, options) = [m \in Filters!Selects |-> field[m]]
    BY <1>1, SyncedMatches DEF ModelOffered
  <2> QED
    BY <2>1, <2>2 DEF LabelsMatch
<1>8. ASSUME NEW n \in Filters!Names, Filters!RemoveChip(n) PROVE LabelsMatch'
  <2>1. field' = [field EXCEPT ![n] = Empty] /\ label' = Filters!Synced(label, field', {n}, options) /\ options' = options
    BY <1>8 DEF Filters!RemoveChip
  <2>2. field' \in Filters!Form /\ \A m \in Filters!Selects \ {n} : field'[m] = field[m]
    BY <1>1, <2>1, FormEdits
  <2>3. field'["model"] \in options \cup {Empty}
    BY <2>1 DEF ModelOffered
  <2> QED
    <3> DEFINE f == field'
    <3>1. Filters!Synced(label, f, {n}, options) = [m \in Filters!Selects |-> f[m]]
      <4> HIDE DEF f
      <4>1. f \in Filters!Form /\ f["model"] \in options \cup {Empty}
            /\ \A m \in Filters!Selects \ {n} : f[m] = field[m]
        BY <2>2, <2>3 DEF f
      <4> QED
        BY <4>1, SyncedMatches
    <3> QED
      BY <2>1, <3>1 DEF LabelsMatch
<1>9. ASSUME NEW f \in Filters!Form, Filters!SetForm(f), options' = options PROVE LabelsMatch'
  <2>1. field' = f /\ label' = Filters!Synced(label, field', Filters!Selects, options)
    BY <1>9 DEF Filters!SetForm
  <2>2. f["model"] \in options \cup {Empty}
    BY <1>9, <2>1 DEF ModelOffered
  <2> QED
    BY <2>1, <2>2, SyncedMatches DEF LabelsMatch
<1>10. ASSUME NEW i \in 0..(Cells - 1), NEW failing \in BOOLEAN, Filters!ApplyHealthDrilldown(i, failing)
       PROVE  LabelsMatch'
  <2>1. [Filters!EmptyForm EXCEPT !["status"] = IF failing THEN "failure" ELSE Empty] \in Filters!Form
    BY FormTypes DEF Filters!EmptyForm, Filters!Form, Filters!Names, Filters!Statuses
  <2> QED
    BY <1>9, <1>10, <2>1 DEF Filters!ApplyHealthDrilldown
<1>11. ASSUME NEW u \in FilterUpstreams, Filters!DrilldownUpstream(u) PROVE LabelsMatch'
  <2>1. [Filters!EmptyForm EXCEPT !["upstream"] = u] \in Filters!Form
    BY FormTypes DEF Filters!EmptyForm, Filters!Form, Filters!Names
  <2> QED
    BY <1>9, <1>11, <2>1 DEF Filters!DrilldownUpstream
<1>12. ASSUME Filters!ClearHealthDrilldown PROVE LabelsMatch'
  BY <1>9, <1>12, FormTypes DEF Filters!ClearHealthDrilldown
<1>13. ASSUME \/ Filters!Submit \/ \E by \in {-1, 1} : Filters!Turn(by)
              \/ \E p \in {"overview", "interfaces"} : Filters!Load(p)
       PROVE  field' = field /\ label' = label
  BY <1>13 DEF Filters!Submit, Filters!Turn, Filters!Load, Filters!formVars
<1>14. CASE Filters!User
  BY <1>2, <1>6, <1>7, <1>8, <1>10, <1>11, <1>12, <1>13, <1>14 DEF Filters!User
<1>15. CASE UNCHANGED filterVars
  BY <1>15, <1>2 DEF filterVars
<1>16. Filters!Next \/ UNCHANGED filterVars
  BY DEF Next, DrawerMoves, FiltersMove, CalendarMoves, ChartsMove, vars
<1> QED
  BY <1>5, <1>14, <1>15, <1>16 DEF Filters!Next

\* Whoever changes range, lock or filters puts the page number back.
LEMMA FirstPageAgain ==
  ASSUME [Next]_vars
  PROVE  Filters!StartsAtFirstPage
<1> DEFINE Same == UNCHANGED <<filterRange, lock, filters>>
<1>1. CASE Filters!Answers
  <2>1. Same
    BY <1>1 DEF Filters!Answers, Filters!SummaryAnswered, Filters!AnalysisAnswered,
       Filters!LoadEnds,
       Filters!EventsAnswered, Filters!LoadFails, Filters!EventsFail, Filters!ResetTimeout, Filters!Answering
  <2> QED
    BY <2>1 DEF Filters!StartsAtFirstPage
<1>2. CASE Filters!User
  <2>1. Same \/ eventPage' = 1
    BY <1>2 DEF Filters!User, Filters!OnOverview, Filters!Edit, Filters!OpenSelect, Filters!Submit,
       Filters!EventReset, Filters!ClearHealthDrilldown, Filters!RemoveChip, Filters!Turn,
       Filters!ApplyHealthDrilldown, Filters!DrilldownUpstream, Filters!Load, Filters!ActivateRange
  <2> QED
    BY <2>1 DEF Filters!StartsAtFirstPage
<1>3. CASE UNCHANGED filterVars
  BY <1>3 DEF filterVars, Filters!StartsAtFirstPage
<1>4. Filters!Next \/ UNCHANGED filterVars
  BY DEF Next, DrawerMoves, FiltersMove, CalendarMoves, ChartsMove, vars
<1> QED
  BY <1>1, <1>2, <1>3, <1>4 DEF Filters!Next

\* The days on display are those of the newest answer, and there are none while it is awaited.
DaysFromAnswer == (current => days = {}) /\ (days # {} => days \in answer)

\* Only an answer brings days, and a new request drops them first.
LEMMA DaysInvariant == Spec => []DaysFromAnswer
<1>1. Init => DaysFromAnswer
  BY DEF Init, Calendar!Init, DaysFromAnswer
<1>2. DaysFromAnswer /\ [Next]_vars => DaysFromAnswer'
  <2> SUFFICES ASSUME DaysFromAnswer, [Next]_vars PROVE DaysFromAnswer'
    OBVIOUS
  <2>1. CASE UNCHANGED <<days, answer>> /\ (current' => current)
    BY <2>1 DEF DaysFromAnswer
  <2>2. ASSUME NEW S \in SUBSET Calendar!Days, Calendar!DaysAnswered(S) PROVE DaysFromAnswer'
    <3>1. current' = FALSE /\ answer' = {S} /\ days' = S
      BY <2>2 DEF Calendar!DaysAnswered
    <3> QED
      BY <3>1 DEF DaysFromAnswer
  <2>3. CASE Calendar!OpenForm
    BY <2>3 DEF Calendar!OpenForm, DaysFromAnswer
  <2>4. CASE Calendar!DaysFailed
    BY <2>4 DEF Calendar!DaysFailed, DaysFromAnswer
  <2>5. ASSUME Calendar!StaleAnswered PROVE UNCHANGED <<days, answer>> /\ (current' => current)
    BY <2>5 DEF Calendar!StaleAnswered
  <2>6. ASSUME Calendar!InForm PROVE UNCHANGED <<days, answer>> /\ (current' => current)
    BY <2>6 DEF Calendar!InForm, Calendar!requestVars
  <2>7. ASSUME Calendar!CloseForm \/ Calendar!Submit \/ Calendar!ActivatePreset
        PROVE  UNCHANGED <<days, answer>> /\ (current' => current)
    BY <2>7 DEF Calendar!CloseForm, Calendar!Submit, Calendar!ActivatePreset, Calendar!Activate,
       Calendar!Hide
  <2>8. ASSUME NEW p \in {"overview", "interfaces", "settings"}, Calendar!Navigate(p)
        PROVE  UNCHANGED <<days, answer>> /\ (current' => current)
    BY <2>8 DEF Calendar!Navigate, Calendar!Hide
  <2>9. CASE Calendar!Next
    BY <2>1, <2>2, <2>3, <2>4, <2>5, <2>6, <2>7, <2>8, <2>9 DEF Calendar!Next, Calendar!Answers,
       Calendar!EditSide, Calendar!EditTime, Calendar!PickDay, Calendar!ShiftMonth
  <2>10. CASE UNCHANGED calendarVars
    BY <2>10, <2>1 DEF calendarVars
  <2>11. Calendar!Next \/ UNCHANGED calendarVars
    BY DEF Next, DrawerMoves, FiltersMove, CalendarMoves, ChartsMove, vars
  <2> QED
    BY <2>9, <2>10, <2>11
<1> QED
  BY <1>1, <1>2, PTL DEF Spec

\* Two times of the form lie whole seconds apart.
LEMMA WholeSeconds ==
  ASSUME NEW f \in Calendar!Days, NEW t \in Calendar!Days, NEW tf \in Calendar!Times, NEW tt \in Calendar!Times,
         Calendar!ToMillis(f, tf) <= Calendar!ToMillis(t, tt)
  PROVE  (Calendar!ToMillis(t, tt) + (Ms - 1) + 1 - Calendar!ToMillis(f, tf)) % Ms = 0
<1> DEFINE a == f * SecondsPerDay + tf  b == t * SecondsPerDay + tt
<1>1. Ms \in Nat \ {0} /\ SecondsPerDay \in Nat \ {0} /\ Offset \in Nat
  BY Lengths
<1>2. a \in Nat /\ b \in Nat
  BY <1>1 DEF Calendar!Days, Calendar!Times
<1>3. Calendar!ToMillis(f, tf) = a * Ms - Offset /\ Calendar!ToMillis(t, tt) = b * Ms - Offset
  BY Lengths DEF Calendar!ToMillis
<1> HIDE DEF a, b
<1>4. Ms * a \in Int /\ Ms * b \in Int /\ a * Ms = Ms * a /\ b * Ms = Ms * b
  BY <1>1, <1>2
<1>5. Ms * a <= Ms * b
  BY <1>1, <1>3, <1>4
<1>6. ~(b < a)
  BY <1>1, <1>2, <1>4, <1>5, Products
<1>7. b - a + 1 \in Nat
  BY <1>2, <1>6
<1>8. Ms * (b - a + 1) = Ms * b - Ms * a + Ms
  BY <1>1, <1>2
<1>9. (Ms * (b - a + 1) + 0) % Ms = 0
  <2>1. 0 \in 0..(Ms - 1)
    BY <1>1
  <2> QED
    BY <1>1, <1>7, <2>1, Quotient
<1>10. Calendar!ToMillis(t, tt) + (Ms - 1) + 1 - Calendar!ToMillis(f, tf) = Ms * (b - a + 1) + 0
  BY <1>1, <1>3, <1>4, <1>8
<1> QED
  BY <1>9, <1>10

\* Only a submit changes the range, and only to days that are recorded.
LEMMA AppliedIsRecorded ==
  ASSUME CalendarInv, DaysFromAnswer, [Next]_vars
  PROVE  Calendar!AppliesRecorded
<1> SUFFICES ASSUME custom' # custom
             PROVE  /\ \E recorded \in answer :
                          {Calendar!InputDay(custom'.from), Calendar!InputDay(custom'.to)} \subseteq recorded
                    /\ custom'.from <= custom'.to /\ (custom'.to + 1 - custom'.from) % Ms = 0
  BY DEF Calendar!AppliesRecorded
<1>1. Calendar!Submit
  <2>1. Calendar!Next \/ UNCHANGED calendarVars
    BY DEF Next, DrawerMoves, FiltersMove, CalendarMoves, ChartsMove, vars
  <2>2. Calendar!Next
    BY <2>1 DEF calendarVars
  <2> QED
    BY <2>2 DEF Calendar!Next, Calendar!Answers, Calendar!DaysFailed, Calendar!StaleAnswered,
       Calendar!DaysAnswered,
       Calendar!OpenForm, Calendar!CloseForm, Calendar!ActivatePreset, Calendar!EditSide, Calendar!EditTime,
       Calendar!PickDay, Calendar!ShiftMonth, Calendar!Navigate, Calendar!InForm, Calendar!rangeVars
<1>2. /\ Calendar!Acceptable(loading, days, from, to, times)
      /\ custom' = [from |-> Calendar!ToMillis(from, times.from), to |-> Calendar!ToMillis(to, times.to) + Ms - 1]
  BY <1>1 DEF Calendar!Submit
<1>3. /\ from \in Calendar!Days /\ to \in Calendar!Days /\ from \in days /\ to \in days
      /\ times.from \in Calendar!Times /\ times.to \in Calendar!Times
      /\ Calendar!ToMillis(from, times.from) <= Calendar!ToMillis(to, times.to)
  BY <1>2 DEF CalendarInv, CalendarTyped, Calendar!Acceptable, Calendar!ToMillis, TimeTexts
<1> DEFINE v == Calendar!ToMillis(from, times.from)  w == Calendar!ToMillis(to, times.to)
<1>4. 0 \in 0..(Ms - 1) /\ Ms - 1 \in 0..(Ms - 1) /\ Ms \in Nat \ {0}
  BY Lengths
<1>5. v \in Nat /\ Calendar!InputDay(v + 0) = from
  BY <1>3, <1>4, Conversions
<1>6. w \in Nat /\ Calendar!InputDay(w + (Ms - 1)) = to
  BY <1>3, <1>4, Conversions
<1>7. (w + (Ms - 1) + 1 - v) % Ms = 0
  BY <1>3, WholeSeconds
<1> HIDE DEF v, w
<1>8. v <= w /\ custom' = [from |-> v, to |-> w + Ms - 1]
  BY <1>2, <1>3 DEF v, w
<1>9. custom'.from = v /\ custom'.to = w + (Ms - 1) /\ v + 0 = v
  BY <1>4, <1>5, <1>6, <1>8
<1>10. days \in answer
  BY <1>3 DEF DaysFromAnswer
<1>11. {Calendar!InputDay(custom'.from), Calendar!InputDay(custom'.to)} \subseteq days
  BY <1>3, <1>5, <1>6, <1>9
<1> QED
  BY <1>4, <1>5, <1>6, <1>7, <1>8, <1>9, <1>10, <1>11

\* The form gives a range back that is in force.
LEMMA OpenedOnRange ==
  ASSUME CalendarInv
  PROVE  Calendar!OpensOnRange
<1> SUFFICES ASSUME Calendar!OpenForm, range = "custom"
             PROVE  /\ Calendar!ToMillis(from', times'.from) = custom.from
                    /\ Calendar!ToMillis(to', times'.to) + Ms - 1 = custom.to
  BY DEF Calendar!OpensOnRange
<1>1. PICK f \in Calendar!Days, t \in Calendar!Days, tf \in Calendar!Times, tt \in Calendar!Times :
          custom = [from |-> Calendar!ToMillis(f, tf), to |-> Calendar!ToMillis(t, tt) + (Ms - 1)]
  BY DEF CalendarInv, InForce, Recorded
<1> DEFINE v == Calendar!ToMillis(f, tf)  w == Calendar!ToMillis(t, tt)
<1>2. 0 \in 0..(Ms - 1) /\ Ms - 1 \in 0..(Ms - 1) /\ Ms \in Nat \ {0}
  BY Lengths
<1>3. v \in Nat /\ Calendar!InputDay(v + 0) = f /\ Calendar!InputTime(v + 0) = tf
  BY <1>2, Conversions
<1>4. w \in Nat /\ Calendar!InputDay(w + (Ms - 1)) = t /\ Calendar!InputTime(w + (Ms - 1)) = tt
  BY <1>2, Conversions
<1>5. custom.from = v + 0 /\ custom.to = w + (Ms - 1) /\ custom.from = v /\ w + Ms - 1 = w + (Ms - 1)
  BY <1>1, <1>2, <1>3, <1>4
<1>6. /\ from' = Calendar!InputDay(custom.from) /\ times'.from = Calendar!InputTime(custom.from)
      /\ to' = Calendar!InputDay(custom.to) /\ times'.to = Calendar!InputTime(custom.to)
  BY DEF Calendar!OpenForm, Calendar!Prefilled, Calendar!Input
<1>7. from' = f /\ times'.from = tf /\ to' = t /\ times'.to = tt
  BY <1>3, <1>4, <1>5, <1>6
<1> QED
  BY <1>5, <1>7

\* What is not rendered fills nothing: only an open drawer has a request that would be.
LEMMA ClosedStaysEmpty ==
  ASSUME DrawerInv, [Next]_vars
  PROVE  Drawer!NotFilledClosed
<1> SUFFICES ASSUME ~open, ~open' PROVE content' = content /\ recent' = recent
  BY DEF Drawer!NotFilledClosed
<1>1. ASSUME NEW r \in requests, Drawer!UpstreamFailed(r) \/ \E es \in SUBSET Events : Drawer!UpstreamAnswered(r, es)
      PROVE  content' = content /\ recent' = recent
  BY <1>1 DEF DrawerInv, Guarded, Drawer!UpstreamFailed, Drawer!UpstreamAnswered
<1>2. Drawer!Next \/ UNCHANGED drawerVars
  BY DEF Next, DrawerMoves, FiltersMove, CalendarMoves, ChartsMove, vars
<1> QED
  BY <1>1, <1>2 DEF Drawer!Next, Drawer!Answers, Drawer!OpenUpstream, Drawer!OpenEventDetail,
     Drawer!Close,
     Drawer!DrilldownUpstream, Drawer!Navigate, Drawer!ActivateRange, Drawer!CloseDrawer, drawerVars

\* The distance of a point of a trend from the pointer.
LEMMA Distances ==
  ASSUME NEW d \in Trends, NEW i \in DOMAIN d.times, NEW x \in 0..Plot
  PROVE  Charts!Distance(d, i, x) \in Nat
<1> DEFINE t == d.times  p == t[1] * Plot + x * (t[Len(t)] - t[1])
           off == t[i] * Plot - p
<1>1. t \in Seq(Nat) /\ Plot \in Nat
  BY ChartConstants
<1>2. DOMAIN t = 1..Len(t) /\ Len(t) \in Nat
  BY <1>1, LenProperties
<1>3. 1 \in DOMAIN t /\ Len(t) \in DOMAIN t
  BY <1>2
<1>4. t[1] \in Nat /\ t[Len(t)] \in Nat /\ t[i] \in Nat
  BY <1>1, <1>3, ElementOfSeq
<1>5. p \in Int
  <2>1. t[1] * Plot \in Int /\ x * (t[Len(t)] - t[1]) \in Int
    BY <1>1, <1>4
  <2> QED
    BY <2>1
<1> HIDE DEF p
<1>6. off \in Int
  <2>1. t[i] * Plot \in Int
    BY <1>1, <1>4
  <2> QED
    BY <1>5, <2>1
<1>7. Charts!Distance(d, i, x) = IF off < 0 THEN -off ELSE off
  BY DEF Charts!Distance, p
<1> HIDE DEF off
<1> QED
  BY <1>6, <1>7

\* There is a first among the nearest points.
LEMMA NearestIsNearest ==
  ASSUME NEW d \in Trends, d.times # <<>>, NEW x \in 0..Plot
  PROVE  /\ Charts!Nearest(d, x) \in DOMAIN d.times
         /\ \A j \in DOMAIN d.times : Charts!Distance(d, Charts!Nearest(d, x), x) <= Charts!Distance(d, j, x)
<1> DEFINE D == DOMAIN d.times
           Far(i) == Charts!Distance(d, i, x)
           V == {Far(i) : i \in D}
<1>1. D \subseteq Nat /\ D # {} /\ D = 1..Len(d.times) /\ Len(d.times) \in Nat
  <2>1. d.times \in Seq(Nat)
    BY ChartConstants
  <2>2. D = 1..Len(d.times) /\ Len(d.times) \in Nat /\ Len(d.times) # 0
    BY <2>1, LenProperties, EmptySeq
  <2>3. 1 \in 1..Len(d.times) /\ 1..Len(d.times) \subseteq Nat
    BY <2>2
  <2> QED
    BY <2>2, <2>3
<1>2. \A i \in D : Far(i) \in Nat
  BY Distances
<1> HIDE DEF Far
<1>3. V \subseteq Nat /\ V # {}
  BY <1>1, <1>2
<1>4. PICK m \in V : \A y \in V : m <= y
  BY <1>3, LeastElement
<1> DEFINE I == {i \in D : Far(i) = m}
<1>5. I \subseteq Nat /\ I # {}
  BY <1>1, <1>4
<1>6. PICK k \in I : \A i \in I : k <= i
  BY <1>5, LeastElement
<1>7. \A j \in D : Far(k) <= Far(j)
  BY <1>4, <1>6
<1>8. ASSUME NEW j \in 1..(k - 1) PROVE Far(k) < Far(j)
  <2>1. k \in D /\ j \in D /\ j < k
    BY <1>1, <1>6
  <2>2. Far(j) # m /\ Far(j) \in V /\ Far(k) = m
    BY <1>5, <1>6, <2>1
  <2>3. m <= Far(j) /\ m \in Nat /\ Far(j) \in Nat
    BY <1>2, <1>3, <1>4, <2>1, <2>2
  <2> QED
    BY <2>2, <2>3
<1>9. \E i \in D : (\A j \in D : Far(i) <= Far(j)) /\ \A j \in 1..(i - 1) : Far(i) < Far(j)
  BY <1>6, <1>7, <1>8
<1>10. Charts!Nearest(d, x) = CHOOSE i \in D : (\A j \in D : Far(i) <= Far(j)) /\ \A j \in 1..(i - 1) : Far(i) < Far(j)
  BY DEF Charts!Nearest, Far
<1>11. Charts!Nearest(d, x) \in D /\ \A j \in D : Far(Charts!Nearest(d, x)) <= Far(j)
  BY <1>9, <1>10
<1> QED
  BY <1>11 DEF Far

\* The last frame with an effect is one of the chart on display.
LEMMA TipIsHonest ==
  ASSUME ChartsInv, [Next]_vars
  PROVE  Charts!TipTurnsHonest
<1> SUFFICES ASSUME tip' # tip, tip' # NoTip
             PROVE  /\ chartPage = "overview" /\ drawn.kind = "chart" /\ tip'.drawing = drawn
                    /\ \A i \in DOMAIN drawn.data.times :
                          Charts!Distance(drawn.data, tip'.point, tip'.at) <= Charts!Distance(drawn.data, i, tip'.at)
  BY DEF Charts!TipTurnsHonest
<1>1. Charts!FrameRuns
  <2>1. Charts!Next \/ UNCHANGED chartVars
    BY DEF Next, DrawerMoves, FiltersMove, CalendarMoves, ChartsMove, vars
  <2>2. Charts!Next
    BY <2>1 DEF chartVars
  <2> QED
    BY <2>2 DEF Charts!Next, Charts!SummaryAnswered, Charts!ToggleDim, Charts!Navigate,
       Charts!Resize, Charts!Redraw,
       Charts!PointerMoves, Charts!PointerLeaves, Charts!ClockTicks
<1>2. Charts!Effective # {} /\ tip' = Charts!Hover(Charts!Asks[Charts!Max(Charts!Effective)])
  BY <1>1 DEF Charts!FrameRuns
<1>3. stale \in Seq(Ask) /\ Charts!Asked \in Seq(Ask)
  BY AskedIsOne DEF ChartsInv, HandlersAreCharts
<1>4. Charts!Asks \in Seq(Ask)
  BY <1>3, ConcatProperties DEF Charts!Asks
<1>5. Charts!Effective \subseteq 1..Len(Charts!Asks) /\ Len(Charts!Asks) \in Nat
  BY <1>4, LenProperties DEF Charts!Effective
<1>6. Charts!Max(Charts!Effective) \in Charts!Effective
  <2>1. Charts!Effective \in SUBSET (0..Len(Charts!Asks))
    BY <1>5
  <2>2. \E n \in Charts!Effective : \A m \in Charts!Effective : n >= m
    BY <1>2, <1>5, <2>1, GreatestElement
  <2> QED
    BY <2>2 DEF Charts!Max
<1>7. PICK ask \in Ask : /\ tip' = Charts!Hover(ask)
                         /\ ask.drawing = drawn /\ chartPage = "overview"
  <2>1. Charts!Asks[Charts!Max(Charts!Effective)] \in Ask
    BY <1>4, <1>6, ElementOfSeq DEF Charts!Effective
  <2> QED
    BY <1>2, <1>6, <2>1 DEF Charts!Effective, Charts!Attached
<1>8. ask.pointer \in 0..Plot /\ drawn.kind = "chart"
      /\ tip' = [drawing |-> drawn, point |-> Charts!Nearest(drawn.data, ask.pointer), at |-> ask.pointer]
  <2>1. ask.pointer # Beside
    BY <1>7 DEF Charts!Hover
  <2> QED
    BY <1>7, <2>1 DEF Charts!Hover, Ask, ChartDrawing
<1>9. drawn.data = data /\ Charts!KindOf(data, active) = "chart"
  BY <1>8 DEF ChartsInv, DrawingIsTrue, Charts!DrawnIsCurrent, Charts!NoDrawing
<1>10. data.times # <<>>
  BY <1>9 DEF Charts!KindOf
<1>11. data \in Trends
  BY <1>10 DEF ChartsInv, ChartsTyped, Charts!NoTrend
<1> QED
  BY <1>7, <1>8, <1>9, <1>10, <1>11, NearestIsNearest

\* What no step of the page may do, whatever the part: the page number starts again, dropdowns
\* follow their selects, ranges are of recorded days and come back unchanged, a closed drawer
\* is not filled, and the tooltip tells of the chart on display (app.js:555, 337, 2276, 1362).
THEOREM StepsCorrect == Spec => StepsAreTrue
<1> DEFINE StepIsTrue ==
      /\ Filters!StartsAtFirstPage /\ Filters!LabelStaysTrue
      /\ Calendar!AppliesRecorded /\ Calendar!OpensOnRange
      /\ Drawer!NotFilledClosed
      /\ Charts!TipTurnsHonest
<1>1. /\ FilterInv /\ ModelOffered /\ ModelOffered' /\ CalendarInv /\ DaysFromAnswer /\ DrawerInv /\ ChartsInv
      /\ [Next]_vars
      => StepIsTrue
  BY FirstPageAgain, LabelStays, AppliedIsRecorded, OpenedOnRange, ClosedStaysEmpty, TipIsHonest
<1> HIDE DEF StepIsTrue
<1>2. Spec => [][StepIsTrue]_vars
  BY <1>1, SelectionInvariant, OfferedInvariant, CalendarInvariant, DaysInvariant, DrawerInvariant,
     ChartsInvariant,
     PTL DEF Spec
<1> QED
  BY <1>2 DEF StepIsTrue, StepsAreTrue
=============================================================================
