--------------------------- MODULE OverviewCharts ---------------------------
(***************************************************************************)
(* What moves on the overview page between two loads (go/dashboard/app.js):*)
(* the key figures that are animated to a new value, and the trend chart   *)
(* with its legend, its redraw after a resize and its tooltip.  All of it  *)
(* runs in callbacks of requestAnimationFrame and setTimeout that outlive  *)
(* the rendering they were made for.                                       *)
(*                                                                         *)
(* One key figure stands for all.  The values an animation passes through  *)
(* are one value, Between.  A summary is its trend, a sequence of times,   *)
(* and whether there was any usage; the pointer is at a position 0..Plot   *)
(* over the plot, or Beside it.                                            *)
(***************************************************************************)
EXTENDS Integers, Sequences, FiniteSetsExt

CONSTANTS
    Values, Between, Blank,  \* key figures
    Duration,                \* of an animation, in ticks of the clock
    Trends,                  \* records [times, usage]
    Dims,                    \* dimensions of the legend
    Widths, StartWidth,      \* widths of the page, and the first one
    Fallback,                \* the width of a chart drawn while hidden
    Plot,                    \* the width of the plot, for positions of the pointer
    Beside, Away,            \* over the chart beside its plot; not over it since it was drawn
    Hidden,                  \* of the tooltip
    MaxEvents                \* bound on answers, clicks, resizes and pointer moves

OverviewChartsAssumption ==
    /\ Duration \in Nat \ {0} /\ Plot \in Nat \ {0} /\ MaxEvents \in Nat
    /\ \A d \in Trends : d.times \in Seq(Nat) /\ d.usage \in BOOLEAN
    /\ StartWidth \in Widths /\ Fallback \notin Widths
    /\ Between \notin Values \cup {Blank} /\ Blank \notin Values /\ {Beside, Away} \cap 0..Plot = {} /\ Beside # Away

VARIABLES
    page, width,
    target, shown,  \* the key figure wanted, and what its element displays
    previous,       \* previousKpiValues
    running,        \* the animations, in the order of their callbacks: [to, left]
    data, active,   \* state.lastTrendPoints, state.trendActiveDims
    drawn,          \* what #trend-chart displays
    handler,        \* the drawing whose mouse handlers the chart has
    pointer, frame, \* its last pointer; its animation frame is requested
    stale,          \* frames requested by earlier drawings: [drawing, pointer]
    tip,            \* the tooltip
    resizing,       \* resizeTimer
    events

vars == <<page, width, target, shown, previous, running, data, active, drawn, handler,
          pointer, frame, stale, tip, resizing, events>>
kpiVars == <<target, shown, previous, running>>
chartVars == <<drawn, handler, pointer, frame, stale>>

NoTrend == [times |-> <<>>, usage |-> FALSE]
NoDrawing == [kind |-> "none", data |-> NoTrend, dims |-> {}, width |-> Fallback, serial |-> 0]

Init ==
    /\ page = "overview" /\ width = StartWidth
    /\ target = Blank /\ shown = Blank /\ previous = Blank /\ running = <<>>
    /\ data = NoTrend /\ active = Dims
    /\ drawn = NoDrawing /\ handler = NoDrawing
    /\ pointer = Away /\ frame = FALSE /\ stale = <<>> /\ tip = Hidden /\ resizing = FALSE
    /\ events = MaxEvents

Event == events > 0 /\ events' = events - 1

\* animateNumber: the figure to start from is what was last asked for, not what is shown.
AnimateUnrecorded(value) ==
    /\ target' = value
    /\ IF previous \in {Blank, value}
       THEN shown' = value /\ previous' = value /\ UNCHANGED running
       ELSE /\ running' = Append(running, [to |-> value, left |-> Duration])
            /\ UNCHANGED <<shown, previous>>
AnimateNumber(value) ==
    /\ target' = value /\ previous' = value
    /\ IF previous \in {Blank, value}
       THEN shown' = value /\ UNCHANGED running
       ELSE running' = Append(running, [to |-> value, left |-> Duration]) /\ UNCHANGED shown

\* renderTrend: a chart, or the reason why there is none; only a chart sets new handlers,
\* and the tooltip, which is outside of the chart, stays as it is.
KindOf(d, dims) == CASE d.times = <<>> \/ ~d.usage -> "noUsage"
                     [] d.usage /\ dims = {} -> "noDims"
                     [] OTHER -> "chart"
ClientWidth == IF page = "overview" THEN width ELSE Fallback
Asked == IF frame THEN <<[drawing |-> handler, pointer |-> pointer]>> ELSE <<>>
RenderTrend(d, dims) ==
    LET new == [kind |-> KindOf(d, dims), data |-> d, dims |-> dims, width |-> ClientWidth,
                serial |-> drawn.serial + 1]
    IN  /\ drawn' = new
        /\ IF new.kind = "chart"
           THEN handler' = new /\ pointer' = Away /\ frame' = FALSE /\ stale' = stale \o Asked
           ELSE UNCHANGED <<handler, pointer, frame, stale>>

\* The answer to /summary, which is rendered only on the page that asked for it.
SummaryAnswered(value, d) ==
    /\ Event /\ page = "overview"
    /\ AnimateNumber(value)
    /\ data' = d /\ RenderTrend(d, active)
    /\ UNCHANGED <<page, width, active, tip, resizing>>

ToggleDimUndrawn(dim) ==
    /\ Event /\ page = "overview"
    /\ active' = SymDiff(active, {dim})
    /\ UNCHANGED <<page, width, kpiVars, data, chartVars, tip, resizing>>
ToggleDim(dim) ==
    /\ Event /\ page = "overview"
    /\ active' = SymDiff(active, {dim})
    /\ RenderTrend(data, SymDiff(active, {dim}))
    /\ UNCHANGED <<page, width, kpiVars, data, tip, resizing>>

Navigate ==
    /\ Event
    /\ page' = IF page = "overview" THEN "other" ELSE "overview"
    /\ UNCHANGED <<width, kpiVars, data, active, chartVars, tip, resizing>>

\* scheduleTrendResize
Resize(w) ==
    /\ Event /\ w # width
    /\ width' = w /\ resizing' = TRUE
    /\ UNCHANGED <<page, kpiVars, data, active, chartVars, tip>>
RedrawAnywhere ==
    /\ resizing /\ resizing' = FALSE
    /\ IF data.times # <<>> THEN RenderTrend(data, active) ELSE UNCHANGED chartVars
    /\ UNCHANGED <<page, width, kpiVars, data, active, tip, events>>
Redraw ==
    /\ resizing /\ resizing' = FALSE
    /\ IF page = "overview" /\ data.times # <<>> THEN RenderTrend(data, active) ELSE UNCHANGED chartVars
    /\ UNCHANGED <<page, width, kpiVars, data, active, tip, events>>

-----------------------------------------------------------------------------
\* The pointer.  The handlers of a chart stay when it is replaced by a message.

PointerMoves(x) ==
    /\ Event /\ page = "overview" /\ handler # NoDrawing
    /\ pointer' = x /\ frame' = TRUE
    /\ UNCHANGED <<page, width, kpiVars, data, active, drawn, handler, stale, tip, resizing>>
PointerLeaves ==
    /\ Event /\ page = "overview" /\ handler # NoDrawing
    /\ pointer' = Away /\ frame' = FALSE /\ tip' = Hidden
    /\ UNCHANGED <<page, width, kpiVars, data, active, drawn, handler, stale, resizing>>

\* The times are Plot times as large as in the data, so that all is whole numbers.
Distance(d, i, x) ==
    LET t == d.times
        pointed == t[1] * Plot + x * (t[Len(t)] - t[1])
        off == t[i] * Plot - pointed
    IN  IF off < 0 THEN -off ELSE off
Nearest(d, x) ==
    CHOOSE i \in DOMAIN d.times :
        /\ \A j \in DOMAIN d.times : Distance(d, i, x) <= Distance(d, j, x)
        /\ \A j \in 1..(i - 1) : Distance(d, i, x) < Distance(d, j, x)

\* updateHover: a drawing has no width once it is replaced or hidden, and then does nothing.
AttachedOnceDrawn(drawing) == page = "overview"
Attached(drawing) == drawing = drawn /\ page = "overview"
Hover(ask) ==
    IF ask.pointer = Beside THEN Hidden
    ELSE [drawing |-> ask.drawing, point |-> Nearest(ask.drawing.data, ask.pointer), at |-> ask.pointer]

\* The callbacks of one frame, in the order in which they were requested: the last one has
\* the last word.  Animations take the same time, so those that are over come first.
Written(a) == IF a.left = 0 THEN a.to ELSE Between
GoesOn == {i \in DOMAIN running : running[i].left > 0}
Asks == stale \o Asked
Effective == {i \in DOMAIN Asks : Attached(Asks[i].drawing)}
FrameRuns ==
    /\ running # <<>> \/ frame \/ stale # <<>>
    /\ shown' = IF running = <<>> THEN shown ELSE Written(running[Len(running)])
    /\ running' = IF GoesOn = {} THEN <<>> ELSE SubSeq(running, Min(GoesOn), Len(running))
    /\ frame' = FALSE /\ stale' = <<>>
    /\ tip' = IF Effective = {} THEN tip ELSE Hover(Asks[Max(Effective)])
    /\ UNCHANGED <<page, width, target, previous, data, active, drawn, handler, pointer, resizing, events>>

ClockTicks ==
    /\ \E i \in DOMAIN running : running[i].left > 0
    /\ running' = [i \in DOMAIN running |-> [running[i] EXCEPT !.left = IF @ = 0 THEN 0 ELSE @ - 1]]
    /\ UNCHANGED <<page, width, target, shown, previous, data, active, chartVars, tip, resizing, events>>

Next ==
    \/ \E v \in Values, d \in Trends : SummaryAnswered(v, d)
    \/ \E dim \in Dims : ToggleDim(dim)
    \/ Navigate
    \/ \E w \in Widths : Resize(w)
    \/ Redraw
    \/ \E x \in 0..Plot \cup {Beside} : PointerMoves(x)
    \/ PointerLeaves
    \/ FrameRuns
    \/ ClockTicks

Spec == Init /\ [][Next]_vars

-----------------------------------------------------------------------------
\* Type invariant: animations are of known figures, frames of drawings made before.
TypeOK ==
    /\ page \in {"overview", "other"} /\ width \in Widths
    /\ {target, previous} \subseteq Values \cup {Blank} /\ shown \in Values \cup {Blank, Between}
    /\ running \in Seq([to : Values, left : 0..Duration])
    /\ data \in Trends \cup {NoTrend} /\ active \subseteq Dims
    /\ drawn.serial <= MaxEvents + 1 /\ handler.serial <= drawn.serial
    /\ \A i \in DOMAIN stale : stale[i].drawing.serial < handler.serial
    /\ pointer \in 0..Plot \cup {Beside, Away} /\ (frame => pointer # Away)
    /\ {frame, resizing} \subseteq BOOLEAN /\ events \in 0..MaxEvents

\* A key figure at rest is the one of the last answer, however many animations to earlier
\* figures overlapped (app.js animateNumber, previousKpiValues).
KpiSettles == running = <<>> => shown = target

\* The trend chart, or the message in its place, is that of the last answer and of the
\* dimensions that are switched on (renderTrend, bindTrendInteractiveLegend).
DrawnIsCurrent ==
    drawn # NoDrawing =>
        /\ drawn.kind = KindOf(data, active)
        /\ drawn.kind = "chart" => drawn.data = data /\ drawn.dims = active

\* No chart is laid out for the fallback width while its page is hidden, although the
\* timer of a resize outlives the page it was for (scheduleTrendResize).
DrawnVisible == drawn.kind = "chart" => drawn.width # Fallback

\* What a frame makes the tooltip say is true of the chart on the screen, and is the point
\* nearest to the pointer, although the frame may have been requested by a chart that was
\* replaced since, by another or by a message (updateHover).
TipTurnsHonest ==
    tip' # tip /\ tip' # Hidden =>
        /\ page = "overview" /\ drawn.kind = "chart" /\ tip'.drawing = drawn
        /\ \A i \in DOMAIN drawn.data.times :
              Distance(drawn.data, tip'.point, tip'.at) <= Distance(drawn.data, i, tip'.at)
=============================================================================
