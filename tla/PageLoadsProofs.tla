--------------------------- MODULE PageLoadsProofs ---------------------------
(***************************************************************************)
(* How the dashboard loads its pages, for any ranges, filters and keys.    *)
(* The newest activation is the only one that may render, and everything   *)
(* it has passed is on the page; superseded ones are aborted; and pending  *)
(* counts no more than the requests under way.                             *)
(***************************************************************************)
EXTENDS PageLoads, FiniteSetTheorems, TLAPS

(* Counting requests.                                                      *)

LEMMA DisjointCounts ==
  ASSUME NEW S, NEW T, IsFiniteSet(S), IsFiniteSet(T), S \cap T = {}
  PROVE  /\ IsFiniteSet(S \cup T) /\ Cardinality(S \cup T) = Cardinality(S) + Cardinality(T)
         /\ Cardinality(S) \in Nat /\ Cardinality(T) \in Nat
<1>1. Cardinality(S \cap T) = 0
  BY FS_EmptySet
<1>2. /\ IsFiniteSet(S \cup T)
      /\ Cardinality(S \cup T) = Cardinality(S) + Cardinality(T) - Cardinality(S \cap T)
  BY FS_Union
<1>3. Cardinality(S) \in Nat /\ Cardinality(T) \in Nat
  BY FS_CardinalityType
<1> QED
  BY <1>1, <1>2, <1>3

\* Pairing the elements of a set with one value keeps their number.
LEMMA PairedCount ==
  ASSUME NEW x, NEW S, IsFiniteSet(S)
  PROVE  IsFiniteSet({x} \X S) /\ Cardinality({x} \X S) = Cardinality(S)
<1> DEFINE f == [s \in S |-> <<x, s>>]
<1>1. f \in Bijection(S, {x} \X S)
  <2>1. f \in [S -> {x} \X S]
    OBVIOUS
  <2>2. \A a, b \in S : f[a] = f[b] => a = b
    OBVIOUS
  <2>3. \A t \in {x} \X S : \E a \in S : f[a] = t
    OBVIOUS
  <2> HIDE DEF f
  <2> QED
    BY <2>1, <2>2, <2>3 DEF Bijection, Injection, Surjection, IsInjective
<1>2. ExistsBijection(S, {x} \X S)
  BY <1>1 DEF ExistsBijection
<1> QED
  BY <1>2, FS_Bijection

LEMMA FiniteRequests ==
  \A S \in SUBSET Requests : IsFiniteSet(S) /\ Cardinality(S) \in Nat /\ (S # {} => Cardinality(S) > 0)
<1>1. IsFiniteSet(Requests)
  <2>1. Requests = {"settings"} \cup {"prices"} \cup {"analysis"} \cup {"summary"}
                       \cup {"events"} \cup {"interfaces"}
    BY DEF Requests, SettingsRequests
  <2> QED
    BY <2>1, FS_Singleton, FS_Union
<1> SUFFICES ASSUME NEW S \in SUBSET Requests
             PROVE  IsFiniteSet(S) /\ Cardinality(S) \in Nat /\ (S # {} => Cardinality(S) > 0)
  OBVIOUS
<1>2. IsFiniteSet(S)
  BY <1>1, FS_Subset
<1>3. Cardinality(S) \in Nat /\ (Cardinality(S) = 0 <=> S = {})
  BY <1>2, FS_CardinalityType, FS_EmptySet
<1> QED
  BY <1>2, <1>3

\* Counting the open requests of loads: the empty set, and one more load.
LEMMA NoLoads ==
  ASSUME NEW ls, \A l \in ls : l.open = {}
  PROVE  OpenOf(ls) = {} /\ IsFiniteSet(OpenOf(ls)) /\ Cardinality(OpenOf(ls)) = 0
BY FS_EmptySet DEF OpenOf

LEMMA OneMoreLoad ==
  ASSUME NEW ls, NEW l, l \notin ls, IsFiniteSet(OpenOf(ls)), l.open \subseteq Requests
  PROVE  /\ IsFiniteSet(OpenOf(ls \cup {l}))
         /\ Cardinality(OpenOf(ls \cup {l})) = Cardinality(OpenOf(ls)) + Cardinality(l.open)
         /\ Cardinality(OpenOf(ls)) \in Nat /\ Cardinality(l.open) \in Nat
<1>1. OpenOf(ls \cup {l}) = OpenOf(ls) \cup ({l} \X l.open)
  BY DEF OpenOf
<1>2. OpenOf(ls) \cap ({l} \X l.open) = {}
  BY DEF OpenOf
<1>3. IsFiniteSet(l.open)
  BY FiniteRequests
<1>4. IsFiniteSet({l} \X l.open) /\ Cardinality({l} \X l.open) = Cardinality(l.open)
  BY <1>3, PairedCount
<1> DEFINE S == OpenOf(ls)
           T == {l} \X l.open
<1>5. IsFiniteSet(S) /\ IsFiniteSet(T) /\ S \cap T = {} /\ OpenOf(ls \cup {l}) = S \cup T
  BY <1>1, <1>2, <1>4
<1>6. Cardinality(T) = Cardinality(l.open)
  BY <1>4
<1> HIDE DEF S, T
<1>7. /\ IsFiniteSet(S \cup T) /\ Cardinality(S \cup T) = Cardinality(S) + Cardinality(T)
      /\ Cardinality(S) \in Nat /\ Cardinality(T) \in Nat
  BY <1>5, DisjointCounts
<1> QED
  BY <1>5, <1>6, <1>7 DEF S

LEMMA OneLoadLess ==
  ASSUME NEW ls, NEW l \in ls, IsFiniteSet(OpenOf(ls)), l.open \subseteq Requests
  PROVE  /\ IsFiniteSet(OpenOf(ls \ {l}))
         /\ Cardinality(OpenOf(ls)) = Cardinality(OpenOf(ls \ {l})) + Cardinality(l.open)
         /\ Cardinality(OpenOf(ls \ {l})) \in Nat /\ Cardinality(l.open) \in Nat
<1>1. OpenOf(ls \ {l}) \subseteq OpenOf(ls)
  BY DEF OpenOf
<1>2. IsFiniteSet(OpenOf(ls \ {l}))
  BY <1>1, FS_Subset
<1>3. ls = (ls \ {l}) \cup {l}
  OBVIOUS
<1> QED
  BY <1>2, <1>3, OneMoreLoad

\* Loads of which one at most has open requests, changed in what is not open.
LEMMA ChangedLoads ==
  ASSUME NEW ls, NEW ms, \A l \in ls : l.open \subseteq Requests,
         \A l, k \in ls : l.open # {} /\ k.open # {} => l = k,
         \A l \in ls : \E m \in ms : m.open = l.open,
         \A m \in ms : \E l \in ls : m.open = l.open,
         \A m, k \in ms : m.open # {} /\ k.open # {} => m = k
  PROVE  IsFiniteSet(OpenOf(ms)) /\ Cardinality(OpenOf(ms)) = Cardinality(OpenOf(ls))
<1>1. CASE \A l \in ls : l.open = {}
  BY <1>1, NoLoads
<1>2. CASE \E l \in ls : l.open # {}
  <2>1. PICK l \in ls : l.open # {}
    BY <1>2
  <2>2. PICK m \in ms : m.open = l.open
    BY <2>1
  <2>3. IsFiniteSet(l.open)
    BY FiniteRequests
  <2>4. OpenOf(ls) = {l} \X l.open
    BY <2>1 DEF OpenOf
  <2>5. OpenOf(ms) = {m} \X m.open
    BY <2>1, <2>2 DEF OpenOf
  <2>6. IsFiniteSet({l} \X l.open) /\ Cardinality({l} \X l.open) = Cardinality(l.open)
    BY <2>3, PairedCount
  <2>7. IsFiniteSet({m} \X l.open) /\ Cardinality({m} \X l.open) = Cardinality(l.open)
    BY <2>3, PairedCount
  <2> QED
    BY <2>2, <2>4, <2>5, <2>6, <2>7
<1> QED
  BY <1>1, <1>2

\* Strays of a key: one less, or some more.
LEMMA StrayGone ==
  ASSUME NEW ss \in [Keys -> Nat], NEW k \in Keys, ss[k] > 0, IsFiniteSet(StraysOf(ss))
  PROVE  LET tt == [ss EXCEPT ![k] = @ - 1] IN
         /\ tt \in [Keys -> Nat] /\ IsFiniteSet(StraysOf(tt))
         /\ Cardinality(StraysOf(ss)) = Cardinality(StraysOf(tt)) + 1
         /\ Cardinality(StraysOf(tt)) \in Nat
<1> DEFINE tt == [ss EXCEPT ![k] = @ - 1]
<1>1. /\ tt \in [Keys -> Nat] /\ tt[k] = ss[k] - 1 /\ ss[k] \in Nat
      /\ \A j \in Keys : j # k => tt[j] = ss[j]
  OBVIOUS
<1> HIDE DEF tt
<1>2. 1..ss[k] = (1..tt[k]) \cup {ss[k]} /\ ss[k] \notin 1..tt[k]
  BY <1>1
<1>3. StraysOf(ss) = StraysOf(tt) \cup {<<k, ss[k]>>}
  <2>1. \A j \in Keys : 1..tt[j] \subseteq 1..ss[j]
    BY <1>1, <1>2
  <2>2. StraysOf(tt) \cup {<<k, ss[k]>>} \subseteq StraysOf(ss)
    BY <1>2, <2>1 DEF StraysOf
  <2>3. ASSUME NEW j \in Keys, NEW n \in 1..ss[j]
        PROVE  <<j, n>> \in StraysOf(tt) \cup {<<k, ss[k]>>}
    BY <1>1, <1>2 DEF StraysOf
  <2>4. StraysOf(ss) \subseteq StraysOf(tt) \cup {<<k, ss[k]>>}
    BY <2>3 DEF StraysOf
  <2> QED
    BY <2>2, <2>4
<1>4. <<k, ss[k]>> \notin StraysOf(tt)
  BY <1>2 DEF StraysOf
<1>5. IsFiniteSet(StraysOf(tt))
  BY <1>3, FS_Subset
<1>6. Cardinality(StraysOf(tt)) \in Nat
  BY <1>5, FS_CardinalityType
<1> QED
  BY <1>1, <1>3, <1>4, <1>5, <1>6, FS_AddElement DEF tt

LEMMA StraysMore ==
  ASSUME NEW ss \in [Keys -> Nat], NEW k \in Keys, NEW n \in Nat, IsFiniteSet(StraysOf(ss))
  PROVE  LET tt == [ss EXCEPT ![k] = @ + n] IN
         /\ tt \in [Keys -> Nat] /\ IsFiniteSet(StraysOf(tt))
         /\ Cardinality(StraysOf(tt)) = Cardinality(StraysOf(ss)) + n
         /\ Cardinality(StraysOf(ss)) \in Nat
<1> DEFINE tt == [ss EXCEPT ![k] = @ + n]
           a == ss[k]
           new == (a + 1)..(a + n)
<1>1. /\ tt \in [Keys -> Nat] /\ tt[k] = a + n /\ a \in Nat
      /\ \A j \in Keys : j # k => tt[j] = ss[j]
  OBVIOUS
<1> HIDE DEF tt
<1>2. 1..tt[k] = (1..ss[k]) \cup new /\ (1..ss[k]) \cap new = {}
  BY <1>1
<1>3. IsFiniteSet(new) /\ Cardinality(new) = n
  <2>1. a + 1 \in Int /\ a + n \in Int
    BY <1>1
  <2>2. IsFiniteSet(new) /\ Cardinality(new) = IF a + 1 > a + n THEN 0 ELSE (a + n) - (a + 1) + 1
    BY <2>1, FS_Interval
  <2> QED
    BY <1>1, <2>2
<1> HIDE DEF new
<1>4. StraysOf(tt) = StraysOf(ss) \cup ({k} \X new)
  <2>1. ASSUME NEW j \in Keys, NEW i \in 1..tt[j]
        PROVE  <<j, i>> \in StraysOf(ss) \cup ({k} \X new)
    BY <1>1, <1>2 DEF StraysOf
  <2>2. StraysOf(tt) \subseteq StraysOf(ss) \cup ({k} \X new)
    BY <2>1 DEF StraysOf
  <2>3. \A j \in Keys : 1..ss[j] \subseteq 1..tt[j]
    BY <1>1, <1>2
  <2>4. StraysOf(ss) \subseteq StraysOf(tt) /\ ({k} \X new) \subseteq StraysOf(tt)
    BY <1>2, <2>3 DEF StraysOf
  <2> QED
    BY <2>2, <2>4
<1>5. StraysOf(ss) \cap ({k} \X new) = {}
  BY <1>2 DEF StraysOf
<1>6. IsFiniteSet({k} \X new) /\ Cardinality({k} \X new) = n
  BY <1>3, PairedCount
<1> DEFINE S == StraysOf(ss)
           T == {k} \X new
<1>7. IsFiniteSet(S) /\ IsFiniteSet(T) /\ S \cap T = {} /\ StraysOf(tt) = S \cup T
  BY <1>4, <1>5, <1>6
<1>8. Cardinality(T) = n
  BY <1>6
<1> HIDE DEF S, T
<1>9. /\ IsFiniteSet(S \cup T) /\ Cardinality(S \cup T) = Cardinality(S) + Cardinality(T)
      /\ Cardinality(S) \in Nat
  BY <1>7, DisjointCounts
<1> QED
  BY <1>1, <1>7, <1>8, <1>9 DEF tt, S
-----------------------------------------------------------------------------
(* The inductive invariant.                                                *)

ShownType == [summary : Ranges \cup {None}, analysis : Ranges \cup {None},
              interfaces : Ranges \cup {None}, events : View \cup {None, Skeleton}]

Control ==
    /\ page \in Pages /\ range \in Ranges /\ filter \in Filters
    /\ visible \in BOOLEAN /\ dialog \in BOOLEAN /\ loading \in BOOLEAN
    /\ timer \in BOOLEAN /\ ready \in BOOLEAN
    /\ key \in Keys \cup {NoKey} /\ valid \in Keys
    /\ freshness \in {"stale", "fresh", "error"}
    /\ clicks \in 0..MaxClicks /\ shown \in ShownType

\* What an activation waits for follows from its step; a superseded one is aborted.
LoadTyped(l) ==
    /\ l \in Load /\ l.key \in Keys
    /\ l.step \in StepsOf(l.page) /\ (l.step \in Yields <=> l.open = {})
    /\ l.open # {} => IF l.page = "settings" THEN l.open \subseteq SettingsRequests
                      ELSE l.open = {l.step}
    /\ ~l.newest => l.aborted

\* The newest activation asks for what the controls say, and what it has passed is shown.
Current(l) ==
    l.newest =>
      /\ l.page = page /\ l.range = range
      /\ l.evNewest => l.view = CurrentView
      /\ l.page = "overview" /\ l.step # "summary" => shown.summary = range
      /\ l.step \in {"yield2", "events"} => shown.analysis = range
      /\ l.page = "overview" /\ ~l.evNewest => shown.events \in {CurrentView, Skeleton}
      /\ l.aborted => ready /\ (l.open = {} => ~visible \/ key = NoKey)

Loads ==
    /\ \A l \in loads : LoadTyped(l) /\ Current(l)
    /\ \A l, m \in loads : l.newest /\ m.newest => l = m
    /\ \A l, m \in loads : ~l.newest /\ ~m.newest /\ l.open # {} /\ m.open # {} => l = m

Details ==
    /\ evs \subseteq Ev
    /\ \A e \in evs : e.newest /\ page = "overview" => e.view = CurrentView
    /\ \A e \in evs : ~e.newest => e.aborted
    /\ \A e, d \in evs : e.newest = d.newest => e = d

Fresh == freshness = "fresh" => \A l \in loads : ~l.newest

Counted ==
    /\ strays \in [Keys -> Nat] /\ downloads \subseteq Keys /\ restores \subseteq Keys
    /\ IsFiniteSet(OpenOf(loads)) /\ IsFiniteSet(evs) /\ IsFiniteSet(downloads)
    /\ IsFiniteSet(restores) /\ IsFiniteSet(StraysOf(strays))
    /\ pending \in Int /\ PendingNeverLeaks

IInv ==
    /\ Control /\ Loads /\ Details /\ Counted
    /\ Fresh /\ FreshShowsCurrent /\ LoadingIsHonest /\ RefreshNeverDies

\* What NoStaleRender says of a step.
RendersCurrent ==
    /\ shown'.summary # shown.summary => shown'.summary = range'
    /\ shown'.analysis # shown.analysis => shown'.analysis = range'
    /\ shown'.interfaces # shown.interfaces => shown'.interfaces = range'
    /\ page' = "overview" /\ shown'.events # shown.events =>
          shown'.events \in {Skeleton, [range |-> range', filter |-> filter']}

LEMMA Consequences == IInv => ControlsAreHonest /\ FreshShowsCurrent
BY DEF IInv, Control, Loads, Details, Counted, LoadTyped, ControlsAreHonest, TypeOK, ShownType

LEMMA OpenSets == \A l \in Load : l.open \subseteq Requests
BY DEF Load

\* The five numbers that OpenRequests adds up.
LEMMA CountTypes ==
  ASSUME Counted
  PROVE  /\ Cardinality(OpenOf(loads)) \in Nat /\ Cardinality(evs) \in Nat
         /\ Cardinality(downloads) \in Nat /\ Cardinality(restores) \in Nat
         /\ Cardinality(StraysOf(strays)) \in Nat
         /\ pending \in Int
         /\ pending <= Cardinality(OpenOf(loads)) + Cardinality(evs) + Cardinality(downloads)
                          + Cardinality(restores) + Cardinality(StraysOf(strays))
BY FS_CardinalityType DEF Counted, PendingNeverLeaks, OpenRequests

LEMMA InitIInv == Init => IInv
<1> SUFFICES ASSUME Init PROVE IInv
  OBVIOUS
<1> DEFINE nothing == [summary |-> None, analysis |-> None, interfaces |-> None, events |-> None]
<1>1. Cardinality(evs) = 0 /\ Cardinality(downloads) = 0 /\ Cardinality(restores) = 0
      /\ IsFiniteSet(evs) /\ IsFiniteSet(downloads) /\ IsFiniteSet(restores)
  BY FS_EmptySet DEF Init
<1>2. StraysOf(strays) = {} /\ strays \in [Keys -> Nat]
  BY DEF Init, StraysOf
<1>3. Cardinality(StraysOf(strays)) = 0 /\ IsFiniteSet(StraysOf(strays))
  BY <1>2, FS_EmptySet
<1>4. Control
  <2>1. shown \in ShownType
    <3>1. range \in Ranges
      BY DEF Init
    <3>2. \E r \in Ranges \cup {None} :
            shown = [summary |-> r, analysis |-> None, interfaces |-> None, events |-> None]
      BY <3>1 DEF Init
    <3> QED
      BY <3>2 DEF ShownType
  <2>2. clicks \in 0..MaxClicks
    BY PageAssumption DEF Init
  <2>3. /\ dialog \in BOOLEAN /\ loading \in BOOLEAN /\ ready \in BOOLEAN /\ timer \in BOOLEAN
        /\ visible \in BOOLEAN /\ freshness = "stale"
    BY DEF Init
  <2>4. page \in Pages /\ range \in Ranges /\ filter \in Filters /\ key \in Keys \cup {NoKey}
        /\ valid \in Keys
    BY PageAssumption DEF Init, Pages
  <2> QED
    BY <2>1, <2>2, <2>3, <2>4 DEF Control
<1>5. Details
  BY DEF Init, Details
<1>6. CASE key = NoKey
  <2>1. loads = {} /\ ~loading /\ pending = 0 /\ freshness = "stale"
    BY <1>6 DEF Init
  <2>2. IsFiniteSet(OpenOf(loads)) /\ Cardinality(OpenOf(loads)) = 0
    BY <2>1, NoLoads
  <2>3. Counted
    BY <1>1, <1>2, <1>3, <2>1, <2>2 DEF Init, Counted, PendingNeverLeaks, OpenRequests
  <2> QED
    BY <1>4, <1>5, <1>6, <2>1, <2>3 DEF IInv, Loads, Fresh, FreshShowsCurrent, LoadingIsHonest,
                                        RefreshNeverDies
<1>7. CASE key # NoKey
  <2>1. PICK hit \in BOOLEAN :
          /\ loads = {FirstLoad(key, hit)} /\ pending = (IF hit THEN 0 ELSE 1)
          /\ shown = [summary |-> IF hit THEN range ELSE None, analysis |-> None,
                      interfaces |-> None, events |-> None]
    BY <1>7 DEF Init
  <2> DEFINE l == FirstLoad(key, hit)
  <2>2. /\ LoadTyped(l) /\ Current(l) /\ l.newest /\ l.page = page
        /\ l.open = (IF hit THEN {} ELSE {"summary"})
    BY <1>4, <1>7, <2>1 DEF Init, FirstLoad, LoadTyped, Current, Control, Load, Requests, Yields,
                            SettingsRequests, Pages, StepsOf, View, CurrentView
  <2> HIDE DEF l
  <2>3. IsFiniteSet(l.open) /\ Cardinality(l.open) = IF hit THEN 0 ELSE 1
    BY <2>2, FS_EmptySet, FS_Singleton
  <2>4. OpenOf(loads) = {l} \X l.open
    BY <2>1 DEF OpenOf, l
  <2>5. IsFiniteSet(OpenOf(loads)) /\ Cardinality(OpenOf(loads)) = pending
    <3>1. IsFiniteSet({l} \X l.open) /\ Cardinality({l} \X l.open) = Cardinality(l.open)
      BY <2>3, PairedCount
    <3> QED
      BY <2>1, <2>3, <2>4, <3>1
  <2>6. pending \in {0, 1}
    BY <2>1
  <2>7. Counted
    BY <1>1, <1>2, <1>3, <2>5, <2>6 DEF Init, Counted, PendingNeverLeaks, OpenRequests
  <2>8. Loads
    BY <2>1, <2>2 DEF Loads, l
  <2>9. loading /\ ~ready /\ freshness = "stale"
    BY <1>7 DEF Init
  <2> QED
    BY <1>4, <1>5, <2>1, <2>2, <2>7, <2>8, <2>9
       DEF IInv, Fresh, FreshShowsCurrent, LoadingIsHonest, RefreshNeverDies, l
<1> QED
  BY <1>6, <1>7
-----------------------------------------------------------------------------
(* What steps that start no load have in common.                           *)

\* The controls stay as they are, but for a key that may be lost, and what is rendered
\* is what they say.
Steady ==
    /\ UNCHANGED <<page, range, filter, visible>>
    /\ key' \in {key, NoKey} /\ (ready => ready')
    /\ shown.summary = range => shown'.summary = range
    /\ shown.analysis = range => shown'.analysis = range
    /\ shown.interfaces = range => shown'.interfaces = range
    /\ shown.events \in {CurrentView, Skeleton} => shown'.events \in {CurrentView, Skeleton}

LEMMA KeepCurrent ==
  ASSUME Steady, NEW l, Current(l)
  PROVE  Current(l)'
BY DEF Steady, Current, CurrentView

LEMMA KeepLoads ==
  ASSUME Steady, Loads, loads' \subseteq loads
  PROVE  Loads'
BY KeepCurrent DEF Loads, LoadTyped, StepsOf

LEMMA KeepDetails ==
  ASSUME Details, UNCHANGED <<page, range, filter>>, evs' \subseteq evs
  PROVE  Details'
BY DEF Details, CurrentView

LEMMA KeepFresh ==
  ASSUME Steady, Fresh, FreshShowsCurrent, loads' \subseteq loads,
         freshness' = freshness \/ freshness' # "fresh"
  PROVE  Fresh' /\ FreshShowsCurrent'
BY DEF Steady, Fresh, FreshShowsCurrent, CurrentView

\* An activation returns: the spinner and the timer are what the newest one leaves.
LEMMA Returning ==
  ASSUME Control, Loads, LoadingIsHonest, RefreshNeverDies, NEW l \in loads,
         loads' = loads \ {l}, Finally(l), UNCHANGED <<page, visible>>, key' \in {key, NoKey}
  PROVE  /\ LoadingIsHonest' /\ RefreshNeverDies' /\ (ready => ready')
         /\ loading' \in BOOLEAN /\ timer' \in BOOLEAN /\ ready' \in BOOLEAN
<1>1. l.newest \in BOOLEAN /\ l.first \in BOOLEAN
  BY DEF Loads, LoadTyped, Load
<1>2. LoadingIsHonest'
  BY DEF Finally, Loads, LoadingIsHonest
<1>3. RefreshNeverDies'
  BY DEF Finally, RefreshNeverDies, ScheduleAutoRefresh
<1>4. loading' \in BOOLEAN /\ timer' \in BOOLEAN /\ ready' \in BOOLEAN /\ (ready => ready')
  BY <1>1 DEF Finally, Control, ScheduleAutoRefresh
<1> QED
  BY <1>2, <1>3, <1>4

\* When the newest one completes, the page shows what the controls say.
LEMMA Completing ==
  ASSUME Steady, Loads, Fresh, FreshShowsCurrent, NEW l \in loads, loads' = loads \ {l},
         Completed(l),
         l.newest /\ key # NoKey =>
           /\ page = "overview" => /\ shown'.summary = range /\ shown'.analysis = range
                                   /\ shown'.events \in {CurrentView, Skeleton}
           /\ page = "interfaces" => shown'.interfaces = range
  PROVE  Fresh' /\ FreshShowsCurrent'
<1>1. CASE l.newest
  <2>1. \A m \in loads' : ~m.newest
    BY <1>1 DEF Loads
  <2>2. page' = page /\ range' = range /\ CurrentView' = CurrentView /\ key' \in {key, NoKey}
    BY DEF Steady, CurrentView
  <2>3. FreshShowsCurrent'
    BY <1>1, <2>2 DEF FreshShowsCurrent
  <2> QED
    BY <2>1, <2>3 DEF Fresh
<1>2. CASE ~l.newest
  BY <1>2, KeepFresh DEF Completed
<1> QED
  BY <1>1, <1>2

\* Steps beside the loads and what is shown.
LEMMA SideStep ==
  ASSUME IInv, UNCHANGED <<page, visible, range, filter, loads, loading, freshness, ready, shown>>,
         key' \in {key, NoKey}, valid' \in Keys, dialog' \in BOOLEAN, clicks' \in 0..MaxClicks,
         timer' \in BOOLEAN, timer /\ visible /\ key # NoKey /\ page # "settings" => timer',
         evs' \subseteq evs, Counted'
  PROVE  IInv' /\ RendersCurrent
<1>1. Steady
  BY DEF Steady
<1>2. Control'
  BY DEF IInv, Control
<1>3. Loads' /\ Details' /\ Fresh' /\ FreshShowsCurrent'
  BY <1>1, KeepLoads, KeepDetails, KeepFresh DEF IInv
<1>4. LoadingIsHonest' /\ RefreshNeverDies'
  BY DEF IInv, LoadingIsHonest, RefreshNeverDies
<1>5. RendersCurrent
  BY DEF RendersCurrent
<1> QED
  BY <1>2, <1>3, <1>4, <1>5 DEF IInv
-----------------------------------------------------------------------------
(* A new load.                                                             *)

\* In a task, only the newest activations wait for answers.
LEMMA InTask ==
  ASSUME IInv, Quiet
  PROVE  /\ \A l \in loads : l.open # {} => l.newest /\ ~l.aborted
         /\ \A l, m \in loads : l.open # {} /\ m.open # {} => l = m
         /\ \A e \in evs : e.newest /\ ~e.aborted
         /\ \A e, d \in evs : e = d
<1>1. \A l \in loads : l.open # {} => l.newest /\ ~l.aborted
  BY DEF IInv, Loads, LoadTyped, Quiet, Rejecting
<1>2. \A e \in evs : e.newest /\ ~e.aborted
  BY DEF IInv, Details, Quiet
<1> QED
  BY <1>1, <1>2 DEF IInv, Loads, Details

\* Superseded loads are as many, with the same requests open.
LEMMA Superseding ==
  ASSUME IInv, Quiet, NEW ls, ls \in {SupersededLoads, WithoutEvents(SupersededLoads)}
  PROVE  /\ \A m \in ls : LoadTyped(m) /\ ~m.newest
         /\ \A m, k \in ls : m.open # {} /\ k.open # {} => m = k
         /\ IsFiniteSet(OpenOf(ls)) /\ Cardinality(OpenOf(ls)) = Cardinality(OpenOf(loads))
<1> DEFINE f(l) == IF l.newest THEN [l EXCEPT !.newest = FALSE, !.aborted = TRUE] ELSE l
           g(l) == IF ls = SupersededLoads THEN f(l) ELSE [f(l) EXCEPT !.evNewest = FALSE]
<1>1. ls = {g(l) : l \in loads}
  <2>1. SupersededLoads = {f(l) : l \in loads}
    BY DEF SupersededLoads
  <2>2. WithoutEvents(SupersededLoads) = {[m EXCEPT !.evNewest = FALSE] : m \in SupersededLoads}
    BY DEF WithoutEvents
  <2> HIDE DEF f
  <2>3. WithoutEvents(SupersededLoads) = {[f(l) EXCEPT !.evNewest = FALSE] : l \in loads}
    BY <2>1, <2>2
  <2> QED
    BY <2>1, <2>3
<1>2. ASSUME NEW l \in loads
      PROVE  LoadTyped(g(l)) /\ ~g(l).newest /\ g(l).open = l.open
  <2>1. l \in Load /\ LoadTyped(l) /\ l.newest \in BOOLEAN
    BY DEF IInv, Loads, LoadTyped, Load
  <2>2. /\ f(l) \in Load /\ ~f(l).newest /\ f(l).aborted
        /\ f(l).open = l.open /\ f(l).page = l.page /\ f(l).step = l.step /\ f(l).key = l.key
    BY <2>1 DEF Load, LoadTyped
  <2> HIDE DEF f
  <2>3. /\ g(l) \in Load /\ ~g(l).newest /\ g(l).aborted
        /\ g(l).open = l.open /\ g(l).page = l.page /\ g(l).step = l.step /\ g(l).key = l.key
    BY <2>2 DEF Load
  <2> HIDE DEF g
  <2> QED
    BY <2>1, <2>3 DEF LoadTyped
<1> HIDE DEF g
<1>3. \A m, k \in ls : m.open # {} /\ k.open # {} => m = k
  <2>1. \A l, h \in loads : g(l).open # {} /\ g(h).open # {} => l = h
    BY <1>2, InTask
  <2> QED
    BY <1>1, <2>1
<1>4. \A m \in ls : \E l \in loads : m.open = l.open
  BY <1>1, <1>2
<1>5. \A l \in loads : \E m \in ls : m.open = l.open
  BY <1>1, <1>2
<1>6. IsFiniteSet(OpenOf(ls)) /\ Cardinality(OpenOf(ls)) = Cardinality(OpenOf(loads))
  <2>1. \A l \in loads : l.open \subseteq Requests
    BY OpenSets DEF IInv, Loads, LoadTyped
  <2>2. \A l, k \in loads : l.open # {} /\ k.open # {} => l = k
    BY InTask
  <2> QED
    BY <1>3, <1>4, <1>5, <2>1, <2>2, ChangedLoads
<1> QED
  BY <1>1, <1>2, <1>3, <1>6

\* So are superseded details.
LEMMA SupersedingEvents ==
  ASSUME IInv, Quiet
  PROVE  /\ SupersededEvents \subseteq Ev
         /\ \A e \in SupersededEvents : ~e.newest /\ e.aborted
         /\ \A e, d \in SupersededEvents : e = d
         /\ IsFiniteSet(SupersededEvents) /\ Cardinality(SupersededEvents) = Cardinality(evs)
<1>1. CASE evs = {}
  <2>1. SupersededEvents = {}
    BY <1>1 DEF SupersededEvents, AbortedEvents
  <2> QED
    BY <1>1, <2>1, FS_EmptySet
<1>2. CASE evs # {}
  <2>1. PICK e \in evs : evs = {e} /\ e.newest /\ e \in Ev
    BY <1>2, InTask DEF IInv, Details
  <2> DEFINE a == [e EXCEPT !.aborted = TRUE]
             d == [a EXCEPT !.newest = FALSE]
  <2>2. AbortedEvents = {a}
    BY <2>1 DEF AbortedEvents
  <2>3. SupersededEvents = {d}
    BY <2>2 DEF SupersededEvents
  <2>4. d \in Ev /\ ~d.newest /\ d.aborted
    BY <2>1 DEF Ev
  <2> HIDE DEF a, d
  <2> QED
    BY <2>1, <2>3, <2>4, FS_Singleton
<1> QED
  BY <1>1, <1>2

LEMMA StartStep ==
  ASSUME IInv, Quiet, NEW closed, NEW dlg \in BOOLEAN, NEW hit \in BOOLEAN,
         LoadActivePage(closed, dlg, hit),
         page' \in Pages, range' \in Ranges, filter' \in Filters, key' \in Keys \cup {NoKey},
         valid' \in Keys, visible' \in BOOLEAN, clicks' \in 0..MaxClicks,
         UNCHANGED <<strays, downloads>>,
         \/ closed = 0 /\ restores' = restores
         \/ closed = 1 /\ (\E k \in restores : restores' = restores \ {k})
  PROVE  IInv' /\ RendersCurrent
<1>a. PICK ls : ls = LoadsAtStart
  OBVIOUS
<1>b. PICK n : n = NewLoad(hit)
  OBVIOUS
<1>1. /\ \A m \in ls : LoadTyped(m) /\ ~m.newest
      /\ \A m, k \in ls : m.open # {} /\ k.open # {} => m = k
      /\ IsFiniteSet(OpenOf(ls)) /\ Cardinality(OpenOf(ls)) = Cardinality(OpenOf(loads))
  <2>1. LoadsAtStart \in {SupersededLoads, WithoutEvents(SupersededLoads)}
    BY DEF LoadsAtStart
  <2> QED
    BY <1>a, <2>1, Superseding
<1>2. /\ Details' /\ IsFiniteSet(evs') /\ Cardinality(evs') = Cardinality(evs)
  <2>1. evs' = IF page' = "overview" THEN SupersededEvents ELSE evs
    BY DEF LoadActivePage, EventsAfterStart
  <2>2. CASE page' = "overview"
    BY <2>1, <2>2, SupersedingEvents DEF Details
  <2>3. CASE page' # "overview"
    BY <2>1, <2>3 DEF IInv, Details, Counted
  <2> QED
    BY <2>2, <2>3
<1>3. /\ closed \in {0, 1} /\ restores' \subseteq Keys /\ IsFiniteSet(restores')
      /\ Cardinality(restores) = Cardinality(restores') + closed
      /\ Cardinality(restores') \in Nat /\ Cardinality(restores) \in Nat
  <2>1. restores \subseteq Keys /\ IsFiniteSet(restores) /\ Cardinality(restores) \in Nat
    BY CountTypes DEF IInv, Counted
  <2>2. CASE closed = 0 /\ restores' = restores
    BY <2>1, <2>2
  <2>3. ASSUME closed = 1, NEW k \in restores, restores' = restores \ {k} 
        PROVE  /\ closed \in {0, 1} /\ restores' \subseteq Keys /\ IsFiniteSet(restores')
               /\ Cardinality(restores) = Cardinality(restores') + closed
               /\ Cardinality(restores') \in Nat /\ Cardinality(restores) \in Nat
    <3>1. IsFiniteSet(restores') /\ Cardinality(restores') = Cardinality(restores) - 1
      BY <2>1, <2>3, FS_RemoveElement
    <3>2. Cardinality(restores') \in Nat
      BY <3>1, FS_CardinalityType
    <3> QED
      BY <2>1, <2>3, <3>1, <3>2
  <2> QED
    BY <2>2, <2>3
<1>4. StraysOf(strays)' = StraysOf(strays)
  BY DEF StraysOf
\* What is left to count: the requests that the new load opens.
<1>5. ASSUME NEW k \in Nat, pending' = pending - closed + k,
             IsFiniteSet(OpenOf(loads)'),
             Cardinality(OpenOf(loads)') = Cardinality(OpenOf(ls)) + k
      PROVE  Counted'
  <2>1. pending' \in Int /\ PendingNeverLeaks'
    <3> DEFINE a == Cardinality(OpenOf(loads))
               b == Cardinality(evs)
               c == Cardinality(downloads)
               d == Cardinality(restores)
               s == Cardinality(StraysOf(strays))
    <3>1. a \in Nat /\ b \in Nat /\ c \in Nat /\ s \in Nat /\ pending \in Int
          /\ pending <= a + b + c + d + s
      BY CountTypes DEF IInv
    <3>2. /\ Cardinality(OpenOf(loads)') = a + k /\ Cardinality(evs') = b
          /\ Cardinality(downloads') = c /\ Cardinality(StraysOf(strays)') = s
      BY <1>1, <1>2, <1>4, <1>5
    <3>3. d = Cardinality(restores') + closed /\ closed \in {0, 1} /\ Cardinality(restores') \in Nat
      BY <1>3
    <3> HIDE DEF a, b, c, d, s
    <3> QED
      BY <1>5, <3>1, <3>2, <3>3 DEF PendingNeverLeaks, OpenRequests
  <2> QED
    BY <1>2, <1>3, <1>4, <1>5, <2>1 DEF IInv, Counted
<1>6. Cardinality(OpenOf(ls)) \in Nat /\ pending \in Int
  BY <1>1, FS_CardinalityType DEF IInv, Counted
<1>7. CASE key' = NoKey /\ loads' = ls /\ dialog' = TRUE /\ loading' = FALSE
           /\ freshness' = "stale" /\ pending' = pending - closed /\ ScheduleAutoRefresh
           /\ UNCHANGED <<ready, shown>>
  <2>1. Control'
    BY <1>7 DEF IInv, Control, ScheduleAutoRefresh
  <2>2. Loads'
    BY <1>1, <1>7 DEF Loads, LoadTyped, Current, StepsOf
  <2>3. Counted'
    BY <1>1, <1>3, <1>5, <1>6, <1>7
  <2>4. Fresh' /\ FreshShowsCurrent' /\ LoadingIsHonest' /\ RefreshNeverDies'
    BY <1>1, <1>7 DEF Fresh, FreshShowsCurrent, LoadingIsHonest, RefreshNeverDies
  <2>5. RendersCurrent
    BY <1>7 DEF RendersCurrent
  <2> QED
    BY <1>2, <2>1, <2>2, <2>3, <2>4, <2>5 DEF IInv
<1>8. CASE key' # NoKey /\ hit /\ page' = "interfaces" /\ dialog' = dlg /\ loads' = ls
           /\ shown' = [shown EXCEPT !.interfaces = range'] /\ loading' = FALSE
           /\ freshness' = "fresh" /\ pending' = pending - closed /\ ScheduleAutoRefresh
           /\ UNCHANGED ready
  <2>1. shown' \in ShownType /\ shown'.interfaces = range'
        /\ shown'.summary = shown.summary /\ shown'.analysis = shown.analysis
        /\ shown'.events = shown.events
    BY <1>8 DEF IInv, Control, ShownType
  <2>2. Control'
    BY <1>8, <2>1 DEF IInv, Control, ScheduleAutoRefresh
  <2>3. Loads'
    BY <1>1, <1>8 DEF Loads, LoadTyped, Current, StepsOf
  <2>4. Counted'
    <3>1. /\ pending' = pending - closed + 0 /\ IsFiniteSet(OpenOf(loads)')
          /\ Cardinality(OpenOf(loads)') = Cardinality(OpenOf(ls)) + 0
      BY <1>1, <1>3, <1>6, <1>8
    <3> QED
      BY <1>5, <3>1
  <2>5. Fresh' /\ FreshShowsCurrent' /\ LoadingIsHonest' /\ RefreshNeverDies'
    BY <1>1, <1>8, <2>1 DEF Fresh, FreshShowsCurrent, LoadingIsHonest, RefreshNeverDies,
                            ScheduleAutoRefresh
  <2>6. RendersCurrent
    BY <2>1 DEF RendersCurrent
  <2> QED
    BY <1>2, <2>2, <2>3, <2>4, <2>5, <2>6 DEF IInv
<1>9. CASE key' # NoKey /\ ~(hit /\ page' = "interfaces") /\ dialog' = dlg /\ loads' = ls \cup {n}
           /\ shown' = (IF hit THEN [shown EXCEPT !.summary = range'] ELSE shown)
           /\ loading' = TRUE /\ freshness' = "stale"
           /\ pending' = pending - closed + Cardinality(n.open) /\ UNCHANGED <<ready, timer>>
  <2>1. hit => page' = "overview"
    BY <1>9 DEF LoadActivePage, Pages
  <2>2. /\ n.newest /\ n.page = page' /\ n.range = range' /\ n.view = CurrentView'
        /\ n.key = key' /\ ~n.aborted /\ n.evNewest = (page' = "overview")
        /\ n.step = (IF hit THEN "yield1" ELSE FirstRequest(page'))
        /\ n.open = (IF hit THEN {} ELSE IF page' = "settings" THEN SettingsRequests
                                         ELSE {FirstRequest(page')})
    BY <1>b DEF NewLoad, CurrentView
  <2>3. n \in Load
    <3>1. n.step \in Requests \cup Yields /\ n.open \in SUBSET Requests
      BY <2>2 DEF FirstRequest, Requests, Yields, SettingsRequests
    <3>2. CurrentView' \in View
      BY DEF CurrentView, View
    <3>3. PICK st \in Requests \cup Yields, op \in SUBSET Requests, v \in View, b \in BOOLEAN :
            n = [newest |-> TRUE, page |-> page', step |-> st, open |-> op, range |-> range',
                 view |-> v, evNewest |-> b, key |-> key', aborted |-> FALSE, first |-> FALSE]
      BY <1>b, <2>2, <3>1, <3>2, Zenon DEF NewLoad, CurrentView
    <3> QED
      BY <3>3 DEF Load
  <2>4. shown' \in ShownType /\ (hit => shown'.summary = range')
        /\ (shown'.summary = shown.summary \/ shown'.summary = range')
        /\ shown'.analysis = shown.analysis /\ shown'.interfaces = shown.interfaces
        /\ shown'.events = shown.events
    BY <1>9 DEF IInv, Control, ShownType
  <2>5. Control'
    BY <1>9, <2>4 DEF IInv, Control
  <2>6. LoadTyped(n)
    BY <1>9, <2>1, <2>2, <2>3 DEF LoadTyped, StepsOf, Yields, FirstRequest, Pages, SettingsRequests
  <2>7. Current(n)'
    BY <2>1, <2>2, <2>4 DEF Current, FirstRequest, Pages
  <2>8. Loads'
    <3>1. \A m \in ls : (LoadTyped(m) /\ Current(m))' /\ ~m.newest
      BY <1>1 DEF LoadTyped, Current, StepsOf
    <3>2. LoadTyped(n)'
      BY <2>6 DEF LoadTyped, StepsOf
    <3> QED
      BY <1>1, <1>9, <2>2, <2>7, <3>1, <3>2 DEF Loads
  <2>9. Counted'
    <3>1. n \notin ls /\ n.open \subseteq Requests
      BY <1>1, <2>2, <2>3, OpenSets
    <3>2. IsFiniteSet(OpenOf(ls \cup {n})) /\ Cardinality(n.open) \in Nat
          /\ Cardinality(OpenOf(ls \cup {n})) = Cardinality(OpenOf(ls)) + Cardinality(n.open)
      BY <1>1, <3>1, OneMoreLoad
    <3> QED
      BY <1>5, <1>9, <3>2
  <2>10. Fresh' /\ FreshShowsCurrent' /\ LoadingIsHonest' /\ RefreshNeverDies'
    BY <1>1, <1>9, <2>2 DEF Fresh, FreshShowsCurrent, LoadingIsHonest, RefreshNeverDies
  <2>11. RendersCurrent
    BY <2>4 DEF RendersCurrent
  <2> QED
    BY <1>2, <2>5, <2>8, <2>9, <2>10, <2>11 DEF IInv
<1> QED
  BY <1>a, <1>b, <1>7, <1>8, <1>9 DEF LoadActivePage
-----------------------------------------------------------------------------
(* Activations that return or go on.                                       *)

LEMMA ReturnCounted ==
  ASSUME Counted, NEW l \in loads, l.open \subseteq Requests, loads' = loads \ {l},
         pending' = pending - Cardinality(l.open), UNCHANGED <<evs, sideVars>>
  PROVE  Counted'
<1>1. /\ IsFiniteSet(OpenOf(loads)') /\ Cardinality(OpenOf(loads)') \in Nat
      /\ Cardinality(l.open) \in Nat
      /\ Cardinality(OpenOf(loads)) = Cardinality(OpenOf(loads)') + Cardinality(l.open)
  BY OneLoadLess DEF Counted
<1>2. StraysOf(strays)' = StraysOf(strays) /\ UNCHANGED <<strays, downloads, restores>>
  BY DEF StraysOf, sideVars
<1>3. pending' \in Int /\ PendingNeverLeaks'
  BY <1>1, <1>2, CountTypes DEF PendingNeverLeaks, OpenRequests
<1> QED
  BY <1>1, <1>2, <1>3 DEF Counted

LEMMA ReplaceCounted ==
  ASSUME Counted, NEW l \in loads, NEW m, m \notin loads \ {l},
         l.open \subseteq Requests, m.open \subseteq Requests, loads' = (loads \ {l}) \cup {m},
         pending' = pending - Cardinality(l.open) + Cardinality(m.open),
         UNCHANGED <<evs, sideVars>>
  PROVE  Counted'
<1> DEFINE rest == loads \ {l}
<1>1. /\ IsFiniteSet(OpenOf(rest)) /\ Cardinality(OpenOf(rest)) \in Nat
      /\ Cardinality(l.open) \in Nat
      /\ Cardinality(OpenOf(loads)) = Cardinality(OpenOf(rest)) + Cardinality(l.open)
  BY OneLoadLess DEF Counted
<1> HIDE DEF rest
<1>2. m \notin rest /\ loads' = rest \cup {m}
  BY DEF rest
<1>3. /\ IsFiniteSet(OpenOf(rest \cup {m})) /\ Cardinality(m.open) \in Nat
      /\ Cardinality(OpenOf(rest \cup {m})) = Cardinality(OpenOf(rest)) + Cardinality(m.open)
  BY <1>1, <1>2, OneMoreLoad
<1>4. OpenOf(loads)' = OpenOf(rest \cup {m})
  BY <1>2
<1>5. StraysOf(strays)' = StraysOf(strays) /\ UNCHANGED <<strays, downloads, restores>>
  BY DEF StraysOf, sideVars
<1>6. pending' \in Int /\ PendingNeverLeaks'
  BY <1>1, <1>3, <1>4, <1>5, CountTypes DEF PendingNeverLeaks, OpenRequests
<1> QED
  BY <1>3, <1>4, <1>5, <1>6 DEF Counted

\* What a return leaves in order whatever it makes of freshness.
LEMMA ReturnKeeps ==
  ASSUME IInv, NEW l \in loads, loads' = loads \ {l}, Finally(l), Steady,
         dialog' \in BOOLEAN, shown' \in ShownType, freshness' \in {"stale", "fresh", "error"},
         UNCHANGED <<valid, clicks, evs>>
  PROVE  Control' /\ Loads' /\ Details' /\ LoadingIsHonest' /\ RefreshNeverDies'
<1>1. UNCHANGED <<page, range, filter, visible>> /\ key' \in {key, NoKey}
  BY DEF Steady
<1>2. /\ LoadingIsHonest' /\ RefreshNeverDies'
      /\ loading' \in BOOLEAN /\ timer' \in BOOLEAN /\ ready' \in BOOLEAN
  BY <1>1, Returning DEF IInv
<1>3. Loads' /\ Details'
  BY <1>1, KeepLoads, KeepDetails DEF IInv
<1>4. Control'
  BY <1>1, <1>2 DEF IInv, Control
<1> QED
  BY <1>2, <1>3, <1>4

\* What the next step of the newest activation leaves in order.
LEMMA GoingOn ==
  ASSUME IInv, NEW l \in loads, l.newest, NEW m, m.newest, m.page = l.page, LoadTyped(m),
         Current(m)', loads' = (loads \ {l}) \cup {m}, Steady,
         dialog' \in BOOLEAN, shown' \in ShownType,
         UNCHANGED <<valid, clicks, evs, loading, freshness, timer, ready>>
  PROVE  /\ Control' /\ Loads' /\ Details' /\ LoadingIsHonest' /\ RefreshNeverDies'
         /\ Fresh' /\ FreshShowsCurrent'
<1>1. UNCHANGED <<page, range, filter, visible>> /\ key' \in {key, NoKey}
  BY DEF Steady
<1>2. \A k \in loads \ {l} : LoadTyped(k)' /\ Current(k)' /\ ~k.newest
  BY KeepCurrent DEF IInv, Loads, LoadTyped, StepsOf
<1>3. LoadTyped(m)'
  BY DEF LoadTyped, StepsOf
<1>4. Loads'
  BY <1>2, <1>3 DEF IInv, Loads
<1>5. Details'
  BY <1>1, KeepDetails DEF IInv
<1>6. Control'
  BY <1>1 DEF IInv, Control
<1>7. LoadingIsHonest' /\ RefreshNeverDies'
  BY <1>1, <1>2 DEF IInv, LoadingIsHonest, RefreshNeverDies
<1>8. Fresh' /\ FreshShowsCurrent'
  BY DEF IInv, Fresh, FreshShowsCurrent
<1> QED
  BY <1>4, <1>5, <1>6, <1>7, <1>8

\* Rendering an answer to what the controls ask for.
LEMMA Rendering ==
  ASSUME shown \in ShownType, range \in Ranges, filter \in Filters, NEW l, NEW step,
         l.range = range, step = "events" => l.view = CurrentView,
         shown' = Rendered(l, step), UNCHANGED <<range, filter>>
  PROVE  /\ shown' \in ShownType /\ RendersCurrent
         /\ shown.summary = range => shown'.summary = range
         /\ shown.analysis = range => shown'.analysis = range
         /\ shown.interfaces = range => shown'.interfaces = range
         /\ shown.events \in {CurrentView, Skeleton} => shown'.events \in {CurrentView, Skeleton}
         /\ step = "summary" => shown'.summary = range
         /\ step = "analysis" => shown'.analysis = range
         /\ step = "interfaces" => shown'.interfaces = range
         /\ step = "events" => shown'.events = CurrentView
<1>1. CurrentView \in View /\ CurrentView' = CurrentView
  BY DEF CurrentView, View
<1>2. CASE step = "summary"
  BY <1>1, <1>2 DEF Rendered, ShownType, RendersCurrent
<1>3. CASE step = "analysis"
  BY <1>1, <1>3 DEF Rendered, ShownType, RendersCurrent
<1>4. CASE step = "events"
  BY <1>1, <1>4 DEF Rendered, ShownType, RendersCurrent, CurrentView
<1>5. CASE step = "interfaces"
  BY <1>1, <1>5 DEF Rendered, ShownType, RendersCurrent
<1>6. CASE step \notin {"summary", "analysis", "events", "interfaces"}
  BY <1>1, <1>6 DEF Rendered, RendersCurrent
<1> QED
  BY <1>2, <1>3, <1>4, <1>5, <1>6

LEMMA LoadAbortsStep ==
  ASSUME IInv, NEW l \in loads, LoadAborts(l)
  PROVE  IInv' /\ RendersCurrent
<1>1. /\ loads' = loads \ {l} /\ pending' = pending - Cardinality(l.open)
      /\ UNCHANGED <<page, visible, range, filter, key, valid, dialog, evs, sideVars, shown, clicks>>
      /\ UNCHANGED freshness /\ Finally(l)
  BY DEF LoadAborts, FailedQuietly
<1>2. Steady
  BY <1>1 DEF Steady, Finally, CurrentView
<1>3. Counted'
  BY <1>1, ReturnCounted, OpenSets DEF IInv, Loads, LoadTyped
<1>4. Control' /\ Loads' /\ Details' /\ LoadingIsHonest' /\ RefreshNeverDies'
  <2>1. dialog' \in BOOLEAN /\ shown' \in ShownType /\ freshness' \in {"stale", "fresh", "error"}
    BY <1>1 DEF IInv, Control
  <2> QED
    BY <1>1, <1>2, <2>1, ReturnKeeps
<1>5. Fresh' /\ FreshShowsCurrent'
  BY <1>1, <1>2, KeepFresh DEF IInv
<1>6. RendersCurrent
  BY <1>1 DEF RendersCurrent
<1> QED
  BY <1>3, <1>4, <1>5, <1>6 DEF IInv

LEMMA LoadAnsweredStep ==
  ASSUME IInv, NEW l \in loads, LoadAnswered(l)
  PROVE  IInv' /\ RendersCurrent
<1>1. /\ Quiet /\ l.open # {} /\ l.page # "settings" /\ pending' = pending - 1
      /\ UNCHANGED <<page, visible, range, filter, valid, evs, sideVars, clicks>>
  BY DEF LoadAnswered, Responding, OnlyLoads
<1>2. /\ LoadTyped(l) /\ Current(l) /\ l.newest /\ ~l.aborted /\ l \in Load
      /\ l.open \subseteq Requests
  BY <1>1, InTask, OpenSets DEF IInv, Loads, LoadTyped
<1>3. /\ l.step \in StepsOf(l.page) /\ l.step \notin Yields /\ l.open = {l.step}
      /\ l.page = page /\ l.range = range /\ l.page \in Pages
      /\ l.key \in Keys
  BY <1>1, <1>2 DEF LoadTyped, Current, Load
<1>4. Cardinality(l.open) = 1
  BY <1>3, FS_Singleton
<1>5. l.step \in {"summary", "analysis", "events", "interfaces"}
  BY <1>1, <1>3 DEF StepsOf, Pages, Yields
<1>6. freshness # "fresh" /\ Control /\ shown \in ShownType
  BY <1>2 DEF IInv, Fresh, Control
<1>7. CASE Proceed(l, l.step) /\ UNCHANGED <<key, dialog>>
  <2> DEFINE step == l.step
             fits == step = "events" => l.evNewest
  <2>1. Fits(l, step) = fits
    BY <1>2 DEF Fits
  <2>2. shown' = IF fits THEN Rendered(l, step) ELSE shown
    BY <1>7, <2>1 DEF Proceed
  <2>3. /\ shown' \in ShownType /\ RendersCurrent
        /\ shown.summary = range => shown'.summary = range
        /\ shown.analysis = range => shown'.analysis = range
        /\ shown.interfaces = range => shown'.interfaces = range
        /\ shown.events \in {CurrentView, Skeleton} => shown'.events \in {CurrentView, Skeleton}
        /\ fits => /\ step = "summary" => shown'.summary = range
                   /\ step = "analysis" => shown'.analysis = range
                   /\ step = "interfaces" => shown'.interfaces = range
                   /\ step = "events" => shown'.events = CurrentView
    <3>1. CASE fits
      <4>1. step = "events" => l.view = CurrentView
        BY <1>2, <3>1 DEF Current
      <4>2. /\ shown' = Rendered(l, step) /\ range \in Ranges /\ filter \in Filters
            /\ l.range = range /\ UNCHANGED <<range, filter>>
        BY <1>1, <1>3, <1>6, <2>2, <3>1 DEF Control
      <4> QED
        BY <1>6, <4>1, <4>2, Rendering
    <3>2. CASE ~fits
      BY <1>6, <2>2, <3>2 DEF RendersCurrent
    <3> QED
      BY <3>1, <3>2
  <2>4. CASE fits /\ AfterStep(step) # "done"
    <3> DEFINE m == [l EXCEPT !.step = AfterStep(step), !.open = {}]
    <3>1. step \in {"summary", "analysis"} /\ l.page = "overview"
      BY <1>3, <1>5, <2>4 DEF AfterStep, StepsOf, Pages
    <3>2. /\ loads' = (loads \ {l}) \cup {m}
          /\ UNCHANGED <<loading, freshness, timer, ready>>
      BY <1>7, <2>1, <2>4 DEF Proceed
    <3>3. /\ m \in Load /\ m.newest /\ m.page = l.page /\ m.open = {} /\ ~m.aborted
          /\ m.step = (IF step = "summary" THEN "yield1" ELSE "yield2")
          /\ m.key = l.key /\ m.range = l.range /\ m.view = l.view /\ m.evNewest = l.evNewest
      BY <1>2, <3>1 DEF Load, AfterStep, Yields
    <3> HIDE DEF m
    <3>4. LoadTyped(m)
      BY <1>3, <3>1, <3>3 DEF LoadTyped, StepsOf, Yields
    <3>5. Steady
      BY <1>1, <1>7, <2>3, <3>2 DEF Steady
    <3>6. Current(m)'
      <4>1. UNCHANGED <<page, range, filter, CurrentView>>
        BY <1>1 DEF CurrentView
      <4> QED
        BY <1>2, <2>3, <2>4, <3>1, <3>3, <4>1 DEF Current
    <3>7. /\ Control' /\ Loads' /\ Details' /\ LoadingIsHonest' /\ RefreshNeverDies'
          /\ Fresh' /\ FreshShowsCurrent'
      <4>1. dialog' \in BOOLEAN
        BY <1>6, <1>7 DEF Control
      <4> QED
        BY <1>1, <1>2, <2>3, <3>2, <3>3, <3>4, <3>5, <3>6, <4>1, GoingOn
    <3>8. Counted'
      <4>1. m \notin loads \ {l}
        BY <1>2, <3>3 DEF IInv, Loads
      <4>2. Cardinality(m.open) = 0
        BY <3>3, FS_EmptySet
      <4>3. pending' = pending - Cardinality(l.open) + Cardinality(m.open)
        BY <1>1, <1>4, <4>2 DEF IInv, Counted
      <4> QED
        BY <1>1, <1>2, <3>2, <3>3, <4>1, <4>3, ReplaceCounted DEF IInv
    <3> QED
      BY <2>3, <3>7, <3>8 DEF IInv
  <2>5. CASE ~(fits /\ AfterStep(step) # "done")
    <3>1. loads' = loads \ {l} /\ Completed(l)
      BY <1>7, <2>1, <2>5 DEF Proceed
    <3>2. Steady
      BY <1>1, <1>7, <2>3, <3>1 DEF Steady, Completed, Finally
    <3>3. l.page = "overview" => step = "events"
      BY <1>3, <1>5, <2>5 DEF AfterStep, StepsOf
    <3>4. l.page = "interfaces" => step = "interfaces"
      BY <1>3 DEF StepsOf
    <3>5. Fresh' /\ FreshShowsCurrent'
      <4>1. page = "overview" => /\ shown'.summary = range /\ shown'.analysis = range
                                 /\ shown'.events \in {CurrentView, Skeleton}
        BY <1>2, <1>3, <2>3, <3>3 DEF Current
      <4>2. page = "interfaces" => shown'.interfaces = range
        BY <1>3, <2>3, <3>4
      <4> QED
        BY <3>1, <3>2, <4>1, <4>2, Completing DEF IInv
    <3>6. Control' /\ Loads' /\ Details' /\ LoadingIsHonest' /\ RefreshNeverDies'
      <4>1. dialog' \in BOOLEAN /\ freshness' \in {"stale", "fresh", "error"} /\ Finally(l)
        BY <1>6, <1>7, <3>1 DEF Control, Completed
      <4> QED
        BY <1>1, <2>3, <3>1, <3>2, <4>1, ReturnKeeps
    <3>7. Counted'
      BY <1>1, <1>2, <1>4, <3>1, ReturnCounted DEF IInv
    <3> QED
      BY <2>3, <3>5, <3>6, <3>7 DEF IInv
  <2> QED
    BY <2>4, <2>5
<1>8. CASE /\ loads' = loads \ {l} /\ UNCHANGED shown
           /\ key' \in {key, NoKey} /\ dialog' \in BOOLEAN
           /\ FailedQuietly(l) \/ Failed(l)
  <2>1. Finally(l) /\ freshness' \in {freshness, "error"}
    BY <1>8 DEF FailedQuietly, Failed
  <2>2. Steady
    BY <1>1, <1>8, <2>1 DEF Steady, Finally, CurrentView
  <2>3. Counted'
    BY <1>1, <1>2, <1>4, <1>8, ReturnCounted DEF IInv
  <2>4. Control' /\ Loads' /\ Details' /\ LoadingIsHonest' /\ RefreshNeverDies'
    <3>1. shown' \in ShownType /\ freshness' \in {"stale", "fresh", "error"}
      BY <1>6, <1>8, <2>1 DEF Control
    <3> QED
      BY <1>1, <1>8, <2>1, <2>2, <3>1, ReturnKeeps
  <2>5. Fresh' /\ FreshShowsCurrent'
    BY <1>8, <2>1, <2>2, KeepFresh DEF IInv
  <2>6. RendersCurrent
    BY <1>8 DEF RendersCurrent
  <2> QED
    BY <2>3, <2>4, <2>5, <2>6 DEF IInv
<1>9. \/ Proceed(l, l.step) /\ UNCHANGED <<key, dialog>>
      \/ /\ loads' = loads \ {l} /\ UNCHANGED shown
         /\ key' \in {key, NoKey} /\ dialog' \in BOOLEAN
         /\ FailedQuietly(l) \/ Failed(l)
  BY <1>6 DEF LoadAnswered, DropKey, Control
<1> QED
  BY <1>7, <1>8, <1>9

LEMMA SettingsAnsweredStep ==
  ASSUME IInv, NEW l \in loads, NEW request \in SettingsRequests,
         NEW answer \in {"ok", "denied", "failed"}, SettingsAnswered(l, request, answer)
  PROVE  IInv' /\ RendersCurrent
<1>1. /\ Quiet /\ l.open # {} /\ l.page = "settings" /\ request \in l.open
      /\ pending' = pending - 1
      /\ UNCHANGED <<page, visible, range, filter, valid, evs, downloads, restores, clicks, shown>>
      /\ key' \in {key, NoKey} /\ (dialog' = dialog \/ dialog' = TRUE)
  BY DEF SettingsAnswered, Responding, DropKey
<1>2. /\ LoadTyped(l) /\ Current(l) /\ l.newest /\ ~l.aborted /\ l \in Load
      /\ l.open \subseteq SettingsRequests /\ l.open \subseteq Requests /\ l.page = page
      /\ l.key \in Keys /\ l.step = "settings"
  BY <1>1, InTask, OpenSets DEF IInv, Loads, LoadTyped, Current, StepsOf
<1>3. Cardinality(l.open) \in Nat /\ Cardinality(l.open) > 0 /\ IsFiniteSet(l.open)
  BY <1>1, <1>2, FiniteRequests
<1>4. Control /\ shown' \in ShownType /\ dialog' \in BOOLEAN /\ RendersCurrent
  BY <1>1 DEF IInv, Control, RendersCurrent
<1>5. (ready => ready') => Steady
  BY <1>1 DEF Steady, CurrentView
<1>6. CASE UNCHANGED strays /\ l.open = {request} /\ loads' = loads \ {l} /\ Completed(l)
  <2>1. Finally(l) /\ freshness' \in {"stale", "fresh", "error"} /\ Steady
    BY <1>4, <1>5, <1>6 DEF Completed, Finally, Control
  <2>2. Control' /\ Loads' /\ Details' /\ LoadingIsHonest' /\ RefreshNeverDies'
    BY <1>1, <1>4, <1>6, <2>1, ReturnKeeps
  <2>3. Fresh' /\ FreshShowsCurrent'
    BY <1>1, <1>2, <1>6, <2>1, Completing DEF IInv
  <2>4. Counted'
    <3>1. pending' = pending - Cardinality(l.open)
      BY <1>1, <1>6, FS_Singleton
    <3> QED
      BY <1>1, <1>2, <1>6, <3>1, ReturnCounted DEF IInv, sideVars
  <2> QED
    BY <1>4, <2>2, <2>3, <2>4 DEF IInv
<1>7. CASE /\ UNCHANGED <<strays, loading, freshness, timer, ready>> /\ l.open # {request}
           /\ loads' = (loads \ {l}) \cup {[l EXCEPT !.open = @ \ {request}]}
  <2> DEFINE m == [l EXCEPT !.open = @ \ {request}]
  <2>1. /\ m \in Load /\ m.newest /\ m.page = l.page /\ m.open = l.open \ {request} /\ m.open # {}
        /\ ~m.aborted /\ m.step = l.step /\ m.key = l.key /\ m.range = l.range
        /\ m.view = l.view /\ m.evNewest = l.evNewest
    BY <1>1, <1>2, <1>7 DEF Load
  <2>2. loads' = (loads \ {l}) \cup {m}
    BY <1>7
  <2> HIDE DEF m
  <2>3. LoadTyped(m)
    BY <1>1, <1>2, <2>1 DEF LoadTyped
  <2>4. Steady
    BY <1>5, <1>7
  <2>5. Current(m)'
    <3>1. Current(m)
      BY <1>2, <2>1 DEF Current
    <3> QED
      BY <2>4, <3>1, KeepCurrent
  <2>6. /\ Control' /\ Loads' /\ Details' /\ LoadingIsHonest' /\ RefreshNeverDies'
        /\ Fresh' /\ FreshShowsCurrent'
    BY <1>1, <1>2, <1>4, <1>7, <2>1, <2>2, <2>3, <2>4, <2>5, GoingOn
  <2>7. Counted'
    <3>1. m \notin loads \ {l}
      BY <1>2, <2>1 DEF IInv, Loads
    <3>2. Cardinality(m.open) = Cardinality(l.open) - 1
      BY <1>1, <1>3, <2>1, FS_RemoveElement
    <3>3. pending' = pending - Cardinality(l.open) + Cardinality(m.open)
      BY <1>1, <1>3, <3>2 DEF IInv, Counted
    <3> QED
      BY <1>1, <1>2, <1>7, <2>1, <2>2, <3>1, <3>3, ReplaceCounted DEF IInv, sideVars
  <2> QED
    BY <1>4, <2>6, <2>7 DEF IInv
<1>8. CASE /\ loads' = loads \ {l}
           /\ Failed(l) \/ FailedQuietly(l)
           /\ strays' = [strays EXCEPT ![l.key] = @ + Cardinality(l.open) - 1]
  <2>1. Finally(l) /\ freshness' \in {freshness, "error"} /\ Steady
    BY <1>5, <1>8 DEF Failed, FailedQuietly, Finally
  <2>2. Control' /\ Loads' /\ Details' /\ LoadingIsHonest' /\ RefreshNeverDies'
    <3>1. freshness' \in {"stale", "fresh", "error"}
      BY <1>4, <2>1 DEF Control
    <3> QED
      BY <1>1, <1>4, <1>8, <2>1, <3>1, ReturnKeeps
  <2>3. Fresh' /\ FreshShowsCurrent'
    BY <1>8, <2>1, KeepFresh DEF IInv
  <2>4. Counted'
    <3> DEFINE n == Cardinality(l.open) - 1
    <3>1. n \in Nat
      BY <1>3
    <3>2. strays \in [Keys -> Nat] /\ IsFiniteSet(StraysOf(strays))
      BY DEF IInv, Counted
    <3>3. strays' = [strays EXCEPT ![l.key] = @ + n]
      <4>1. strays[l.key] \in Nat
        BY <1>2, <3>2
      <4>2. strays[l.key] + Cardinality(l.open) - 1 = strays[l.key] + n
        BY <1>3, <4>1
      <4> QED
        BY <1>8, <4>2
    <3> HIDE DEF n
    <3>4. /\ strays' \in [Keys -> Nat] /\ IsFiniteSet(StraysOf(strays'))
          /\ Cardinality(StraysOf(strays')) = Cardinality(StraysOf(strays)) + n
      BY <1>2, <3>1, <3>2, <3>3, StraysMore
    <3>5. StraysOf(strays)' = StraysOf(strays')
      BY DEF StraysOf
    <3>6. /\ IsFiniteSet(OpenOf(loads)') /\ Cardinality(OpenOf(loads)') \in Nat
          /\ Cardinality(OpenOf(loads)) = Cardinality(OpenOf(loads)') + Cardinality(l.open)
      BY <1>2, <1>8, OneLoadLess DEF IInv, Counted
    <3>7. Cardinality(l.open) = n + 1
      BY <1>3 DEF n
    <3>8. pending' \in Int /\ PendingNeverLeaks'
      BY <1>1, <3>1, <3>4, <3>5, <3>6, <3>7, CountTypes DEF IInv, PendingNeverLeaks, OpenRequests
    <3> QED
      BY <1>1, <3>4, <3>5, <3>6, <3>8 DEF IInv, Counted
  <2> QED
    BY <1>4, <2>2, <2>3, <2>4 DEF IInv
<1> QED
  BY <1>6, <1>7, <1>8 DEF SettingsAnswered

\* requestAnimationFrame: a yield ends, and the next request is sent, answered from the
\* cache, or moot.
LEMMA FrameStep ==
  ASSUME IInv, NEW l \in loads, NEW hit \in BOOLEAN, Frame(l, hit)
  PROVE  IInv' /\ RendersCurrent
<1> DEFINE step == IF l.step = "yield1" THEN "analysis" ELSE "events"
<1>1. /\ Quiet /\ visible /\ l.step \in Yields
      /\ UNCHANGED <<page, visible, range, filter, key, valid, evs, sideVars, clicks>>
  BY DEF Frame
<1>2. /\ LoadTyped(l) /\ Current(l) /\ l \in Load /\ l.open = {} /\ l.page = "overview"
      /\ l.key \in Keys /\ l.open \subseteq Requests /\ Control
      /\ shown \in ShownType
  BY <1>1 DEF IInv, Loads, LoadTyped, Load, StepsOf, Yields, Control, Pages
<1>3. Cardinality(l.open) = 0 /\ pending \in Int
  BY <1>2, FS_EmptySet DEF IInv, Counted
<1>4. l.newest /\ l.aborted => key = NoKey
  BY <1>1, <1>2 DEF Current
<1>5. l.step = "yield2" <=> step = "events"
  BY <1>1 DEF Yields
\* The continuation returns without rendering.
<1>6. ASSUME loads' = loads \ {l}, UNCHANGED <<pending, shown>>, dialog' \in BOOLEAN,
             (~Fits(l, step) /\ Completed(l)) \/ FailedQuietly(l)
      PROVE  IInv' /\ RendersCurrent
  <2>1. Finally(l) /\ freshness' \in {freshness, "fresh"} /\ Steady
    BY <1>1, <1>6 DEF Completed, FailedQuietly, Finally, Steady, CurrentView
  <2>2. Control' /\ Loads' /\ Details' /\ LoadingIsHonest' /\ RefreshNeverDies'
    <3>1. freshness' \in {"stale", "fresh", "error"} /\ shown' \in ShownType
      BY <1>2, <1>6, <2>1 DEF Control
    <3> QED
      BY <1>1, <1>6, <2>1, <3>1, ReturnKeeps
  <2>3. Counted'
    <3>1. pending' = pending - Cardinality(l.open)
      BY <1>3, <1>6
    <3> QED
      BY <1>1, <1>2, <1>6, <3>1, ReturnCounted DEF IInv
  <2>4. CASE ~Fits(l, step) /\ Completed(l)
    <3>1. l.newest /\ key # NoKey => page = "overview" /\ step = "events" /\ ~l.evNewest
      BY <1>2, <1>4, <2>4 DEF Fits, Current
    <3>2. l.newest /\ key # NoKey =>
            /\ page = "overview" /\ shown'.summary = range /\ shown'.analysis = range
            /\ shown'.events \in {CurrentView, Skeleton}
      BY <1>2, <1>5, <1>6, <3>1 DEF Current
    <3> QED
      BY <1>6, <2>1, <2>2, <2>3, <2>4, <3>2, Completing DEF IInv, RendersCurrent
  <2>5. CASE FailedQuietly(l)
    <3>1. Fresh' /\ FreshShowsCurrent'
      BY <1>6, <2>1, <2>5, KeepFresh DEF IInv, FailedQuietly
    <3> QED
      BY <1>6, <2>2, <2>3, <3>1 DEF IInv, RendersCurrent
  <2> QED
    BY <1>6, <2>4, <2>5
\* The next data come from the cache.
<1>7. ASSUME Fits(l, step), shown' = Rendered([l EXCEPT !.range = range], step),
             UNCHANGED <<pending, dialog>>,
             IF step = "analysis"
             THEN /\ loads' = (loads \ {l}) \cup {[l EXCEPT !.step = "yield2", !.range = range]}
                  /\ UNCHANGED <<loading, freshness, timer, ready>>
             ELSE loads' = loads \ {l} /\ Completed(l)
      PROVE  IInv' /\ RendersCurrent
  <2> DEFINE q == [l EXCEPT !.range = range]
  <2>m. PICK m : m = [l EXCEPT !.step = "yield2", !.range = range]
    OBVIOUS
  <2>1. l.newest /\ ~l.aborted /\ (step = "events" => l.evNewest)
    BY <1>7 DEF Fits
  <2>2. q.range = range /\ (step = "events" => q.view = CurrentView)
    BY <1>2, <2>1 DEF Current, Load
  <2>3. /\ shown' \in ShownType /\ RendersCurrent
        /\ shown.summary = range => shown'.summary = range
        /\ shown.analysis = range => shown'.analysis = range
        /\ shown.interfaces = range => shown'.interfaces = range
        /\ shown.events \in {CurrentView, Skeleton} => shown'.events \in {CurrentView, Skeleton}
        /\ step = "analysis" => shown'.analysis = range
        /\ step = "events" => shown'.events = CurrentView
    <3>1. /\ shown' = Rendered(q, step) /\ range \in Ranges /\ filter \in Filters
          /\ UNCHANGED <<range, filter>>
      BY <1>1, <1>2, <1>7 DEF Control
    <3> HIDE DEF q
    <3> QED
      BY <1>2, <2>2, <3>1, Rendering
  <2>4. dialog' \in BOOLEAN /\ ((ready => ready') => Steady)
    BY <1>1, <1>2, <1>7, <2>3 DEF Control, Steady
  <2>5. CASE step = "analysis"
    <3>1. loads' = (loads \ {l}) \cup {m} /\ UNCHANGED <<loading, freshness, timer, ready>> /\ Steady
      BY <1>7, <2>m, <2>4, <2>5
    <3>2. /\ m \in Load /\ m.newest /\ m.page = l.page /\ m.open = {} /\ ~m.aborted
          /\ m.step = "yield2" /\ m.key = l.key /\ m.range = range /\ m.view = l.view
          /\ m.evNewest = l.evNewest
      BY <1>2, <2>m, <2>1 DEF Load, Control, Yields
    <3>3. LoadTyped(m)
      BY <1>2, <3>2 DEF LoadTyped, StepsOf, Yields
    <3>4. Current(m)'
      <4>1. UNCHANGED <<page, range, filter, CurrentView>> /\ l.step = "yield1"
        BY <1>1, <2>5 DEF CurrentView
      <4> QED
        BY <1>2, <2>1, <2>3, <2>5, <3>2, <4>1 DEF Current
    <3>5. /\ Control' /\ Loads' /\ Details' /\ LoadingIsHonest' /\ RefreshNeverDies'
          /\ Fresh' /\ FreshShowsCurrent'
      BY <1>1, <2>1, <2>3, <2>4, <3>1, <3>2, <3>3, <3>4, GoingOn
    <3>6. Counted'
      <4>1. m \notin loads \ {l} /\ m.open \subseteq Requests
        BY <2>1, <3>2 DEF IInv, Loads
      <4>2. pending' = pending - Cardinality(l.open) + Cardinality(m.open)
        BY <1>2, <1>3, <1>7, <3>2
      <4> QED
        BY <1>1, <1>2, <3>1, <4>1, <4>2, ReplaceCounted DEF IInv
    <3> QED
      BY <2>3, <3>5, <3>6 DEF IInv
  <2>6. CASE step = "events"
    <3>1. loads' = loads \ {l} /\ Completed(l)
      BY <1>7, <2>6
    <3>2. Finally(l) /\ freshness' \in {"stale", "fresh", "error"} /\ Steady
      BY <1>2, <2>4, <3>1 DEF Completed, Finally, Control
    <3>3. Control' /\ Loads' /\ Details' /\ LoadingIsHonest' /\ RefreshNeverDies'
      BY <1>1, <2>3, <2>4, <3>1, <3>2, ReturnKeeps
    <3>4. /\ l.page = page /\ shown'.summary = range /\ shown'.analysis = range
          /\ shown'.events = CurrentView
      BY <1>2, <1>5, <2>1, <2>3, <2>6 DEF Current
    <3>5. Fresh' /\ FreshShowsCurrent'
      BY <1>2, <3>1, <3>2, <3>4, Completing DEF IInv
    <3>6. Counted'
      <4>1. pending' = pending - Cardinality(l.open)
        BY <1>3, <1>7
      <4> QED
        BY <1>1, <1>2, <3>1, <4>1, ReturnCounted DEF IInv
    <3> QED
      BY <2>3, <3>3, <3>5, <3>6 DEF IInv
  <2> QED
    BY <2>5, <2>6
\* The next request is sent.
<1>8. ASSUME Fits(l, step), key # NoKey, pending' = pending + 1,
             loads' = (loads \ {l}) \cup
                          {[l EXCEPT !.step = step, !.range = range, !.key = key, !.open = {step}]},
             UNCHANGED <<loading, freshness, timer, ready, shown, dialog>>
      PROVE  IInv' /\ RendersCurrent
  <2>m. PICK m : m = [l EXCEPT !.step = step, !.range = range, !.key = key, !.open = {step}]
    OBVIOUS
  <2>1. l.newest /\ ~l.aborted
    BY <1>8 DEF Fits
  <2>2. /\ m \in Load /\ m.newest /\ m.page = l.page /\ m.open = {step} /\ ~m.aborted
        /\ m.step = step /\ m.key = key /\ m.range = range /\ m.view = l.view
        /\ m.evNewest = l.evNewest
    <3>1. step \in Requests /\ range \in Ranges /\ key \in Keys \cup {NoKey}
      BY <1>2 DEF Requests, SettingsRequests, Control
    <3> HIDE DEF step
    <3> QED
      BY <1>2, <2>m, <2>1, <3>1 DEF Load
  <2>3. loads' = (loads \ {l}) \cup {m}
    BY <1>8, <2>m
  <2>4. LoadTyped(m)
    BY <1>2, <1>8, <2>2 DEF LoadTyped, StepsOf, Yields, Control
  <2>5. Steady
    BY <1>1, <1>8 DEF Steady, CurrentView
  <2>6. Current(m)'
    <3>1. Current(m)
      BY <1>1, <1>2, <1>5, <2>1, <2>2 DEF Current, Yields
    <3> QED
      BY <2>5, <3>1, KeepCurrent
  <2>7. /\ Control' /\ Loads' /\ Details' /\ LoadingIsHonest' /\ RefreshNeverDies'
        /\ Fresh' /\ FreshShowsCurrent'
    <3>1. dialog' \in BOOLEAN /\ shown' \in ShownType
      BY <1>2, <1>8 DEF Control
    <3> QED
      BY <1>1, <1>8, <2>1, <2>2, <2>3, <2>4, <2>5, <2>6, <3>1, GoingOn
  <2>8. Counted'
    <3>1. m \notin loads \ {l} /\ m.open \subseteq Requests
      BY <2>1, <2>2, OpenSets DEF IInv, Loads
    <3>2. Cardinality(m.open) = 1
      BY <2>2, FS_Singleton
    <3>3. pending' = pending - Cardinality(l.open) + Cardinality(m.open)
      BY <1>3, <1>8, <3>2
    <3> QED
      BY <1>1, <1>2, <2>3, <3>1, <3>3, ReplaceCounted DEF IInv
  <2> QED
    BY <1>8, <2>7, <2>8 DEF IInv, RendersCurrent
<1> QED
  <2>1. dialog \in BOOLEAN
    BY <1>2 DEF Control
  <2> QED
    BY <1>6, <1>7, <1>8, <2>1 DEF Frame
-----------------------------------------------------------------------------
(* The other answers.                                                      *)

\* Every part of the count is one of these two: as it was, or one less.
LEMMA CountedBeside ==
  ASSUME Counted, UNCHANGED loads, pending' \in Int,
         evs' = evs \/ (\E e \in evs : evs' = evs \ {e}),
         downloads' \subseteq Keys, IsFiniteSet(downloads'),
         restores' \subseteq Keys, IsFiniteSet(restores'),
         strays' \in [Keys -> Nat], IsFiniteSet(StraysOf(strays')),
         pending' <= Cardinality(OpenOf(loads)) + Cardinality(evs') + Cardinality(downloads')
                         + Cardinality(restores') + Cardinality(StraysOf(strays'))
  PROVE  Counted'
<1>1. IsFiniteSet(evs')
  BY FS_RemoveElement DEF Counted
<1>2. OpenOf(loads)' = OpenOf(loads) /\ StraysOf(strays)' = StraysOf(strays')
  BY DEF OpenOf, StraysOf
<1>3. PendingNeverLeaks'
  BY <1>2 DEF PendingNeverLeaks, OpenRequests
<1> QED
  BY <1>1, <1>2, <1>3 DEF Counted

LEMMA ClampedAtZero ==
  ASSUME NEW x \in Int
  PROVE  Max({0, x}) = IF x > 0 THEN x ELSE 0
<1>1. \E m \in {0, x} : \A y \in {0, x} : m >= y
  OBVIOUS
<1>2. Max({0, x}) \in {0, x} /\ \A y \in {0, x} : Max({0, x}) >= y
  BY <1>1 DEF Max
<1> QED
  BY <1>2

\* Details that are answered or aborted are one less, as is what is pending.
LEMMA EventsGone ==
  ASSUME IInv, NEW e \in evs, evs' = evs \ {e}, pending' = pending - 1,
         UNCHANGED <<loads, sideVars>>
  PROVE  Counted'
<1>1. /\ Cardinality(evs') = Cardinality(evs) - 1
      /\ UNCHANGED <<strays, downloads, restores>> /\ Counted
  BY FS_RemoveElement DEF IInv, Counted, sideVars
<1>2. pending' \in Int /\ pending' <= Cardinality(OpenOf(loads)) + Cardinality(evs')
          + Cardinality(downloads') + Cardinality(restores') + Cardinality(StraysOf(strays'))
  BY <1>1, CountTypes
<1>3. /\ downloads' \subseteq Keys /\ IsFiniteSet(downloads')
      /\ restores' \subseteq Keys /\ IsFiniteSet(restores')
      /\ strays' \in [Keys -> Nat] /\ IsFiniteSet(StraysOf(strays'))
  BY <1>1 DEF Counted
<1> QED
  BY <1>1, <1>2, <1>3, CountedBeside

LEMMA EventsAbortStep ==
  ASSUME IInv, NEW e \in evs, EventsAbort(e)
  PROVE  IInv' /\ RendersCurrent
<1>1. Counted'
  BY EventsGone DEF EventsAbort
<1>2. /\ UNCHANGED <<page, visible, range, filter, loads, loading, freshness, ready, shown>>
      /\ key' \in {key, NoKey} /\ valid' \in Keys /\ dialog' \in BOOLEAN
      /\ clicks' \in 0..MaxClicks /\ timer' \in BOOLEAN /\ timer' = timer /\ evs' \subseteq evs
  BY DEF EventsAbort, IInv, Control
<1> QED
  BY <1>1, <1>2, SideStep

LEMMA EventsAnsweredStep ==
  ASSUME IInv, NEW e \in evs, EventsAnswered(e)
  PROVE  IInv' /\ RendersCurrent
<1>1. /\ Quiet /\ evs' = evs \ {e} /\ pending' = pending - 1
      /\ UNCHANGED <<page, visible, range, filter, valid, loads, loading, freshness,
                     sideVars, timer, ready, clicks>>
  BY DEF EventsAnswered
<1>2. Counted'
  BY <1>1, EventsGone
<1>3. Control
  BY DEF IInv
<1>4. CASE UNCHANGED shown /\ key' \in {key, NoKey} /\ dialog' \in BOOLEAN
  <2>1. /\ UNCHANGED <<page, visible, range, filter, loads, loading, freshness, ready, shown>>
        /\ valid' \in Keys /\ clicks' \in 0..MaxClicks /\ timer' \in BOOLEAN /\ timer' = timer
        /\ evs' \subseteq evs
    BY <1>1, <1>3, <1>4 DEF Control
  <2> QED
    BY <1>2, <1>4, <2>1, SideStep
<1>5. CASE e.newest /\ shown' = [shown EXCEPT !.events = e.view] /\ UNCHANGED <<key, dialog>>
  <2>1. e.view \in View /\ (page = "overview" => e.view = CurrentView)
    BY <1>5 DEF IInv, Details, Ev
  <2>2. /\ shown' \in ShownType /\ shown'.events = e.view /\ shown'.summary = shown.summary
        /\ shown'.analysis = shown.analysis /\ shown'.interfaces = shown.interfaces
    BY <1>3, <1>5, <2>1 DEF Control, ShownType
  <2>3. Control'
    BY <1>1, <1>3, <1>5, <2>2 DEF Control
  <2>4. Details'
    BY <1>1, KeepDetails DEF IInv
  <2>5. UNCHANGED <<page, range, filter, CurrentView, visible, key, ready>>
    BY <1>1, <1>5 DEF CurrentView
  <2>6. Loads'
    <3>1. \A l \in loads : LoadTyped(l)' /\ Current(l)'
      BY <2>1, <2>2, <2>5 DEF IInv, Loads, LoadTyped, StepsOf, Current
    <3> QED
      BY <1>1, <3>1 DEF IInv, Loads
  <2>7. Fresh' /\ FreshShowsCurrent' /\ LoadingIsHonest' /\ RefreshNeverDies'
    BY <1>1, <2>1, <2>2, <2>5 DEF IInv, Fresh, FreshShowsCurrent, LoadingIsHonest, RefreshNeverDies
  <2>8. RendersCurrent
    BY <2>1, <2>2, <2>5 DEF RendersCurrent, CurrentView
  <2> QED
    BY <1>2, <2>3, <2>4, <2>6, <2>7, <2>8 DEF IInv
<1> QED
  BY <1>3, <1>4, <1>5 DEF EventsAnswered, DropKey, Control

\* Steps that change what is counted beside loads and details, and at most lose the key.
LEMMA BesideStep ==
  ASSUME IInv, UNCHANGED <<page, visible, range, filter, valid, loads, loading, freshness, evs,
                           timer, ready, shown>>,
         key' \in {key, NoKey}, dialog' \in BOOLEAN, clicks' \in 0..MaxClicks, pending' \in Int,
         downloads' \subseteq Keys, IsFiniteSet(downloads'),
         restores' \subseteq Keys, IsFiniteSet(restores'),
         strays' \in [Keys -> Nat], IsFiniteSet(StraysOf(strays')),
         pending' <= Cardinality(OpenOf(loads)) + Cardinality(evs) + Cardinality(downloads')
                         + Cardinality(restores') + Cardinality(StraysOf(strays'))
  PROVE  IInv' /\ RendersCurrent
<1>1. Counted'
  BY CountedBeside DEF IInv
<1>2. valid' \in Keys /\ timer' \in BOOLEAN /\ timer' = timer /\ evs' \subseteq evs
  BY DEF IInv, Control
<1> QED
  BY <1>1, <1>2, SideStep

LEMMA DownloadAnsweredStep ==
  ASSUME IInv, NEW k \in Keys, DownloadAnswered(k)
  PROVE  IInv' /\ RendersCurrent
<1>1. /\ k \in downloads /\ downloads' = downloads \ {k} /\ pending' = Max({0, pending - 1})
      /\ UNCHANGED <<page, visible, range, filter, valid, loads, loading, freshness, evs,
                     strays, restores, timer, ready, shown, clicks>>
      /\ key' \in {key, NoKey} /\ dialog' \in {dialog, TRUE}
  BY DEF DownloadAnswered, DropKey
<1>2. /\ IsFiniteSet(downloads') /\ Cardinality(downloads') = Cardinality(downloads) - 1
      /\ Cardinality(downloads') \in Nat
  BY <1>1, FS_RemoveElement, FS_CardinalityType DEF IInv, Counted
<1>3. pending \in Int /\ pending - 1 \in Int
  BY DEF IInv, Counted
<1>4. pending' = IF pending - 1 > 0 THEN pending - 1 ELSE 0
  BY <1>1, <1>3, ClampedAtZero
<1>5. pending' \in Int /\ pending' <= Cardinality(OpenOf(loads)) + Cardinality(evs)
          + Cardinality(downloads') + Cardinality(restores) + Cardinality(StraysOf(strays))
  BY <1>2, <1>3, <1>4, CountTypes DEF IInv
<1>6. /\ dialog' \in BOOLEAN /\ clicks' \in 0..MaxClicks /\ downloads' \subseteq Keys
      /\ restores' = restores /\ strays' = strays
      /\ restores' \subseteq Keys /\ IsFiniteSet(restores')
      /\ strays' \in [Keys -> Nat] /\ IsFiniteSet(StraysOf(strays'))
  BY <1>1 DEF IInv, Control, Counted
<1> QED
  BY <1>1, <1>2, <1>5, <1>6, BesideStep

LEMMA StrayAnsweredStep ==
  ASSUME IInv, NEW k \in Keys, StrayAnswered(k)
  PROVE  IInv' /\ RendersCurrent
<1>1. /\ strays[k] > 0 /\ strays' = [strays EXCEPT ![k] = @ - 1] /\ pending' = pending - 1
      /\ UNCHANGED <<page, visible, range, filter, valid, loads, loading, freshness, evs,
                     downloads, restores, timer, ready, shown, clicks>>
      /\ key' \in {key, NoKey} /\ dialog' \in {dialog, TRUE}
  BY DEF StrayAnswered, DropKey
<1>2. strays \in [Keys -> Nat] /\ IsFiniteSet(StraysOf(strays))
  BY DEF IInv, Counted
<1>3. /\ strays' \in [Keys -> Nat] /\ IsFiniteSet(StraysOf(strays'))
      /\ Cardinality(StraysOf(strays)) = Cardinality(StraysOf(strays')) + 1
      /\ Cardinality(StraysOf(strays')) \in Nat
  BY <1>1, <1>2, StrayGone
<1>4. pending' \in Int /\ pending' <= Cardinality(OpenOf(loads)) + Cardinality(evs)
          + Cardinality(downloads) + Cardinality(restores) + Cardinality(StraysOf(strays'))
  BY <1>1, <1>3, CountTypes DEF IInv
<1>5. /\ dialog' \in BOOLEAN /\ clicks' \in 0..MaxClicks
      /\ downloads' = downloads /\ restores' = restores
      /\ downloads' \subseteq Keys /\ IsFiniteSet(downloads')
      /\ restores' \subseteq Keys /\ IsFiniteSet(restores')
  BY <1>1 DEF IInv, Control, Counted
<1> QED
  BY <1>1, <1>3, <1>4, <1>5, BesideStep

LEMMA RestoreAnsweredStep ==
  ASSUME IInv, NEW k \in Keys, RestoreAnswered(k)
  PROVE  IInv' /\ RendersCurrent
<1>1. /\ Quiet /\ k \in restores /\ restores' = restores \ {k}
      /\ UNCHANGED <<page, visible, range, filter, valid, strays, downloads, clicks>>
  BY DEF RestoreAnswered
<1>2. CASE UNCHANGED key /\ LoadActivePage(1, dialog, FALSE)
  <2>1. /\ page' \in Pages /\ range' \in Ranges /\ filter' \in Filters
        /\ key' \in Keys \cup {NoKey} /\ valid' \in Keys /\ visible' \in BOOLEAN
        /\ clicks' \in 0..MaxClicks /\ dialog \in BOOLEAN
    BY <1>1, <1>2 DEF IInv, Control
  <2> QED
    BY <1>1, <1>2, <2>1, StartStep
<1>3. CASE /\ key' \in {key, NoKey} /\ dialog' \in {dialog, TRUE} /\ pending' = pending - 1
           /\ UNCHANGED <<loads, loading, freshness, evs, timer, ready, shown>>
  <2>1. /\ IsFiniteSet(restores') /\ Cardinality(restores') = Cardinality(restores) - 1
        /\ Cardinality(restores') \in Nat
    BY <1>1, FS_RemoveElement, FS_CardinalityType DEF IInv, Counted
  <2>2. pending' \in Int /\ pending' <= Cardinality(OpenOf(loads)) + Cardinality(evs)
            + Cardinality(downloads) + Cardinality(restores') + Cardinality(StraysOf(strays))
    BY <1>3, <2>1, CountTypes DEF IInv
  <2>3. /\ dialog' \in BOOLEAN /\ clicks' \in 0..MaxClicks /\ restores' \subseteq Keys
        /\ downloads' = downloads /\ strays' = strays
        /\ downloads' \subseteq Keys /\ IsFiniteSet(downloads')
        /\ strays' \in [Keys -> Nat] /\ IsFiniteSet(StraysOf(strays'))
    BY <1>1, <1>3 DEF IInv, Control, Counted
  <2> QED
    BY <1>1, <1>3, <2>1, <2>2, <2>3, BesideStep
<1> QED
  BY <1>2, <1>3 DEF RestoreAnswered, DropKey
-----------------------------------------------------------------------------
(* The timer, the tab and the user.                                        *)

LEMMA ClickTypes ==
  ASSUME IInv, Click
  PROVE  Quiet /\ clicks' \in 0..MaxClicks
BY PageAssumption DEF IInv, Control, Click

LEMMA TimerStep ==
  ASSUME IInv, NEW hit \in BOOLEAN, TimerFires(hit)
  PROVE  IInv' /\ RendersCurrent
<1>1. /\ Quiet /\ timer
      /\ UNCHANGED <<page, visible, range, filter, key, valid, sideVars, clicks>>
  BY DEF TimerFires
<1>2. UNCHANGED <<strays, downloads, restores>> /\ Control
  BY <1>1 DEF sideVars, IInv
<1>3. CASE LoadActivePage(0, dialog, hit)
  <2>1. /\ page' \in Pages /\ range' \in Ranges /\ filter' \in Filters
        /\ key' \in Keys \cup {NoKey} /\ valid' \in Keys /\ visible' \in BOOLEAN
        /\ clicks' \in 0..MaxClicks /\ dialog \in BOOLEAN
    BY <1>1, <1>2 DEF Control
  <2> QED
    BY <1>1, <1>2, <1>3, <2>1, StartStep
<1>4. CASE /\ UNCHANGED <<dialog, loads, loading, freshness, evs, pending, ready, shown>>
           /\ timer' \in BOOLEAN /\ (visible /\ key # NoKey /\ page # "settings" => timer')
  <2>1. Counted'
    BY <1>2, <1>4 DEF IInv, Counted, OpenOf, StraysOf, PendingNeverLeaks, OpenRequests
  <2>2. /\ UNCHANGED <<page, visible, range, filter, loads, loading, freshness, ready, shown>>
        /\ key' \in {key, NoKey} /\ valid' \in Keys /\ dialog' \in BOOLEAN
        /\ clicks' \in 0..MaxClicks /\ timer' \in BOOLEAN /\ evs' \subseteq evs
        /\ (timer /\ visible /\ key # NoKey /\ page # "settings" => timer')
    BY <1>1, <1>2, <1>4 DEF Control
  <2> QED
    BY <2>1, <2>2, SideStep
<1>5. \/ LoadActivePage(0, dialog, hit)
      \/ /\ UNCHANGED <<dialog, loads, loading, freshness, evs, pending, ready, shown>>
         /\ timer' \in BOOLEAN /\ (visible /\ key # NoKey /\ page # "settings" => timer')
  <2>1. CASE ~visible \/ key = NoKey \/ page = "settings"
    <3>1. /\ timer' = FALSE
          /\ UNCHANGED <<dialog, loads, loading, freshness, evs, pending, ready, shown>>
      BY <2>1 DEF TimerFires
    <3> QED
      BY <2>1, <3>1
  <2>2. CASE visible /\ key # NoKey /\ page # "settings" /\ (loading \/ pending > 0)
    <3>1. /\ timer' = (visible' /\ key' # NoKey /\ page' # "settings")
          /\ UNCHANGED <<dialog, loads, loading, freshness, evs, pending, ready, shown>>
      BY <2>2 DEF TimerFires, LookAgain, ScheduleAutoRefresh
    <3>2. timer' \in BOOLEAN /\ timer'
      BY <1>1, <2>2, <3>1
    <3> QED
      BY <3>1, <3>2
  <2>3. CASE visible /\ key # NoKey /\ page # "settings" /\ ~(loading \/ pending > 0)
    BY <2>3 DEF TimerFires
  <2> QED
    BY <2>1, <2>2, <2>3
<1> QED
  BY <1>3, <1>4, <1>5

LEMMA HideStep ==
  ASSUME IInv, Hide
  PROVE  IInv' /\ RendersCurrent
<1>1. /\ Click /\ visible /\ visible' = FALSE
      /\ UNCHANGED <<page, range, filter, key, valid, dialog, loading, freshness,
                     sideVars, pending, ready, shown>>
  BY DEF Hide
<1>2. Quiet /\ clicks' \in 0..MaxClicks /\ Control
  BY <1>1, ClickTypes DEF IInv
<1>3. UNCHANGED <<strays, downloads, restores>> /\ StraysOf(strays)' = StraysOf(strays)
  BY <1>1 DEF sideVars, StraysOf
<1>4. CurrentView' = CurrentView /\ RendersCurrent
  BY <1>1 DEF CurrentView, RendersCurrent
<1>5. CASE ~ready /\ UNCHANGED <<timer, loads, evs>>
  <2>1. Control'
    BY <1>1, <1>2, <1>5 DEF Control
  <2>2. Loads'
    <3>1. \A l \in loads : LoadTyped(l)' /\ Current(l)'
      BY <1>1, <1>4, <1>5 DEF IInv, Loads, LoadTyped, StepsOf, Current
    <3> QED
      BY <1>5, <3>1 DEF IInv, Loads
  <2>3. Details'
    BY <1>1, <1>5, KeepDetails DEF IInv
  <2>4. Counted'
    BY <1>1, <1>3, <1>5 DEF IInv, Counted, OpenOf, StraysOf, PendingNeverLeaks, OpenRequests
  <2>5. Fresh' /\ FreshShowsCurrent' /\ LoadingIsHonest' /\ RefreshNeverDies'
    BY <1>1, <1>4, <1>5 DEF IInv, Fresh, FreshShowsCurrent, LoadingIsHonest, RefreshNeverDies
  <2> QED
    BY <1>4, <2>1, <2>2, <2>3, <2>4, <2>5 DEF IInv
<1>6. CASE ready /\ timer' = FALSE /\ loads' = AbortedLoads /\ evs' = AbortedEvents
  <2>a. PICK ls : ls = AbortedLoads
    OBVIOUS
  <2> DEFINE f(l) == IF l.newest THEN [l EXCEPT !.aborted = TRUE] ELSE l
  <2>1. ls = {f(l) : l \in loads}
    BY <2>a DEF AbortedLoads
  <2>2. ASSUME NEW l \in loads, NEW m, m = f(l)
        PROVE  /\ LoadTyped(m) /\ Current(m)'
               /\ m.newest = l.newest /\ m.open = l.open /\ m.page = l.page
    <3>1. l \in Load /\ LoadTyped(l) /\ Current(l) /\ l.newest \in BOOLEAN
      BY DEF IInv, Loads, LoadTyped, Load
    <3>2. CASE ~l.newest
      BY <2>2, <3>1, <3>2 DEF Current
    <3>3. CASE l.newest
      <4>1. m = [l EXCEPT !.aborted = TRUE]
        BY <2>2, <3>3
      <4>2. /\ m \in Load /\ m.newest /\ m.aborted /\ m.open = l.open
            /\ m.page = l.page /\ m.step = l.step /\ m.key = l.key
            /\ m.range = l.range /\ m.view = l.view /\ m.evNewest = l.evNewest
        BY <3>1, <3>3, <4>1 DEF Load
      <4>3. LoadTyped(m)
        BY <3>1, <4>2 DEF LoadTyped
      <4>4. Current(m)'
        BY <1>1, <1>4, <1>6, <3>1, <3>3, <4>2 DEF Current
      <4> QED
        BY <3>3, <4>2, <4>3, <4>4
    <3> QED
      BY <3>2, <3>3
  <2> HIDE DEF f
  <2>3. loads' = {f(l) : l \in loads}
    BY <1>6, <2>a, <2>1
  <2>4. \A l, k \in loads : l.open # {} /\ k.open # {} => l = k
    BY <1>2, InTask
  <2>5. Loads'
    <3>1. ASSUME NEW m \in loads' PROVE LoadTyped(m)' /\ Current(m)'
      <4>1. PICK l \in loads : m = f(l)
        BY <2>3
      <4>2. LoadTyped(m) /\ Current(m)'
        BY <2>2, <4>1
      <4> QED
        BY <4>2 DEF LoadTyped, StepsOf
    <3>2. \A l, k \in loads : f(l).newest /\ f(k).newest => l = k
      BY <2>2 DEF IInv, Loads
    <3>3. \A l, k \in loads : f(l).open # {} /\ f(k).open # {} => l = k
      BY <2>2, <2>4
    <3> QED
      BY <2>3, <3>1, <3>2, <3>3 DEF Loads
  <2>6. IsFiniteSet(OpenOf(ls)) /\ Cardinality(OpenOf(ls)) = Cardinality(OpenOf(loads))
    <3>1. \A l \in loads : l.open \subseteq Requests
      BY OpenSets DEF IInv, Loads, LoadTyped
    <3>2. \A l \in loads : \E m \in ls : m.open = l.open
      BY <2>1, <2>2
    <3>3. \A m \in ls : \E l \in loads : m.open = l.open
      BY <2>1, <2>2
    <3>4. \A m, k \in ls : m.open # {} /\ k.open # {} => m = k
      BY <2>1, <2>2, <2>4
    <3> QED
      BY <2>4, <3>1, <3>2, <3>3, <3>4, ChangedLoads
  <2>7. /\ Details' /\ IsFiniteSet(evs') /\ Cardinality(evs') = Cardinality(evs)
    <3>1. CASE evs = {}
      <4>1. evs' = {}
        BY <1>6, <3>1 DEF AbortedEvents
      <4> QED
        BY <3>1, <4>1, FS_EmptySet DEF Details
    <3>2. CASE evs # {}
      <4>1. PICK e \in evs : evs = {e} /\ e.newest /\ e \in Ev
        BY <1>2, <3>2, InTask DEF IInv, Details
      <4> DEFINE d == [e EXCEPT !.aborted = TRUE]
      <4>2. evs' = {d}
        BY <1>6, <4>1 DEF AbortedEvents
      <4>3. d \in Ev /\ d.newest /\ d.aborted /\ d.view = e.view
        BY <4>1 DEF Ev
      <4>4. page = "overview" => e.view = CurrentView
        BY <4>1 DEF IInv, Details
      <4> HIDE DEF d
      <4>5. Details'
        BY <1>1, <1>4, <4>2, <4>3, <4>4 DEF Details
      <4> QED
        BY <4>1, <4>2, <4>5, FS_Singleton
    <3> QED
      BY <3>1, <3>2
  <2>8. Control'
    BY <1>1, <1>2, <1>6 DEF Control
  <2>9. Counted'
    <3>1. OpenOf(loads)' = OpenOf(ls)
      BY <1>6, <2>a
    <3> QED
      BY <1>1, <1>3, <2>6, <2>7, <3>1 DEF IInv, Counted, PendingNeverLeaks, OpenRequests
  <2>10. LoadingIsHonest' /\ RefreshNeverDies' /\ Fresh' /\ FreshShowsCurrent'
    <3>1. (\E m \in loads' : m.newest) <=> (\E l \in loads : l.newest)
      BY <2>2, <2>3
    <3>2. \A m \in loads' : m.newest => m.page = page
      BY <2>2, <2>3 DEF IInv, LoadingIsHonest
    <3> QED
      BY <1>1, <1>4, <3>1, <3>2
         DEF IInv, Fresh, FreshShowsCurrent, LoadingIsHonest, RefreshNeverDies
  <2> QED
    BY <1>4, <2>5, <2>7, <2>8, <2>9, <2>10 DEF IInv
<1> QED
  BY <1>5, <1>6 DEF Hide

LEMMA ShowStep ==
  ASSUME IInv, NEW hit \in BOOLEAN, Show(hit)
  PROVE  IInv' /\ RendersCurrent
<1>1. /\ Click /\ ~visible /\ visible' = TRUE
      /\ UNCHANGED <<page, range, filter, key, valid, sideVars>>
  BY DEF Show
<1>2. Quiet /\ clicks' \in 0..MaxClicks /\ Control /\ UNCHANGED <<strays, downloads, restores>>
  BY <1>1, ClickTypes DEF IInv, sideVars
<1>3. CASE LoadActivePage(0, dialog, hit)
  <2>1. /\ page' \in Pages /\ range' \in Ranges /\ filter' \in Filters
        /\ key' \in Keys \cup {NoKey} /\ valid' \in Keys /\ visible' \in BOOLEAN
        /\ dialog \in BOOLEAN
    BY <1>1, <1>2 DEF Control
  <2> QED
    BY <1>2, <1>3, <2>1, StartStep
<1>4. CASE /\ ~(ready /\ key # NoKey /\ page # "settings")
           /\ IF ready THEN ScheduleAutoRefresh ELSE UNCHANGED timer
           /\ UNCHANGED <<dialog, loads, loading, freshness, evs, pending, ready, shown>>
  <2>1. CurrentView' = CurrentView /\ RendersCurrent
    BY <1>1, <1>4 DEF CurrentView, RendersCurrent
  <2>2. Control'
    BY <1>1, <1>2, <1>4 DEF Control, ScheduleAutoRefresh
  <2>3. Loads'
    <3>1. \A l \in loads : l.newest /\ l.aborted /\ l.open = {} => key = NoKey
      <4>1. SUFFICES ASSUME NEW l \in loads, l.newest, l.aborted, l.open = {}, key # NoKey
                     PROVE  FALSE
        OBVIOUS
      <4>2. LoadTyped(l) /\ Current(l) /\ l \in Load
        BY DEF IInv, Loads, LoadTyped
      <4>3. ready /\ l.page = page /\ page = "settings"
        BY <1>4, <4>1, <4>2 DEF Current
      <4>4. l.step = "settings" /\ l.step \in Yields
        BY <4>1, <4>2, <4>3 DEF LoadTyped, StepsOf
      <4> QED
        BY <4>4 DEF Yields
    <3>2. \A l \in loads : LoadTyped(l)' /\ Current(l)'
      BY <1>1, <1>4, <2>1, <3>1 DEF IInv, Loads, LoadTyped, StepsOf, Current
    <3> QED
      BY <1>4, <3>2 DEF IInv, Loads
  <2>4. Details'
    BY <1>1, <1>4, KeepDetails DEF IInv
  <2>5. Counted'
    BY <1>2, <1>4 DEF IInv, Counted, OpenOf, StraysOf, PendingNeverLeaks, OpenRequests
  <2>6. Fresh' /\ FreshShowsCurrent' /\ LoadingIsHonest' /\ RefreshNeverDies'
    BY <1>1, <1>4, <2>1 DEF IInv, Fresh, FreshShowsCurrent, LoadingIsHonest, RefreshNeverDies
  <2> QED
    BY <2>1, <2>2, <2>3, <2>4, <2>5, <2>6 DEF IInv
<1> QED
  BY <1>3, <1>4 DEF Show

\* The clicks that load the page: what they change before it is in its domain.
LEMMA UserLoadStep ==
  ASSUME IInv, Click, NEW dlg \in BOOLEAN, NEW hit \in BOOLEAN, LoadActivePage(0, dlg, hit),
         page' \in Pages, range' \in Ranges, filter' \in Filters, key' \in Keys \cup {NoKey},
         UNCHANGED <<visible, valid, sideVars>>
  PROVE  IInv' /\ RendersCurrent
<1>1. Quiet /\ clicks' \in 0..MaxClicks
  BY ClickTypes
<1>2. /\ valid' \in Keys /\ visible' \in BOOLEAN
      /\ UNCHANGED <<strays, downloads, restores>>
  BY DEF IInv, Control, sideVars
<1> QED
  BY <1>1, <1>2, StartStep

LEMMA UserLoads ==
  ASSUME IInv,
         \/ \E p \in Pages, hit \in BOOLEAN : Navigate(p, hit)
         \/ Refresh
         \/ \E r \in Ranges : ActivateRange(r)
         \/ \E k \in Keys : SaveKey(k)
  PROVE  IInv' /\ RendersCurrent
<1>1. Control /\ dialog \in BOOLEAN
  BY DEF IInv, Control
<1>2. ASSUME NEW p \in Pages, NEW hit \in BOOLEAN, Navigate(p, hit) PROVE IInv' /\ RendersCurrent
  BY <1>1, <1>2, UserLoadStep DEF Navigate, UserActs, Control
<1>3. CASE Refresh
  BY <1>1, <1>3, UserLoadStep DEF Refresh, UserActs, Control
<1>4. ASSUME NEW r \in Ranges, ActivateRange(r) PROVE IInv' /\ RendersCurrent
  BY <1>1, <1>4, PageAssumption, UserLoadStep DEF ActivateRange, UserActs, Control
<1>5. ASSUME NEW k \in Keys, SaveKey(k) PROVE IInv' /\ RendersCurrent
  BY <1>1, <1>5, UserLoadStep DEF SaveKey, Control
<1> QED
  BY <1>2, <1>3, <1>4, <1>5

\* loadEvents(true): whatever load or details come later, they no longer fit.
LEMMA LoadEventsStep ==
  ASSUME IInv, NEW f \in Filters, LoadEvents(f)
  PROVE  IInv' /\ RendersCurrent
<1>1. /\ Click /\ page = "overview" /\ filter' = f /\ loads' = WithoutEvents(loads)
      /\ shown' = [shown EXCEPT !.events = Skeleton]
      /\ UNCHANGED <<page, visible, range, key, valid, loading, freshness, sideVars, timer, ready>>
  BY DEF LoadEvents, UserActs
<1>2. Quiet /\ clicks' \in 0..MaxClicks /\ Control
      /\ UNCHANGED <<strays, downloads, restores>> /\ StraysOf(strays)' = StraysOf(strays)
  BY <1>1, ClickTypes DEF IInv, sideVars, StraysOf
<1>3. /\ shown' \in ShownType /\ shown'.events = Skeleton /\ shown'.summary = shown.summary
      /\ shown'.analysis = shown.analysis /\ shown'.interfaces = shown.interfaces
  BY <1>1, <1>2 DEF Control, ShownType
<1>4. RendersCurrent
  BY <1>3 DEF RendersCurrent
<1>a. PICK ls : ls = WithoutEvents(loads)
  OBVIOUS
<1> DEFINE g(l) == [l EXCEPT !.evNewest = FALSE]
<1>5. ls = {g(l) : l \in loads}
  BY <1>a DEF WithoutEvents
<1>6. ASSUME NEW l \in loads, NEW m, m = g(l)
      PROVE  /\ LoadTyped(m) /\ Current(m)'
             /\ m.newest = l.newest /\ m.open = l.open /\ m.page = l.page
  <2>1. l \in Load /\ LoadTyped(l) /\ Current(l)
    BY DEF IInv, Loads, LoadTyped
  <2>2. /\ m \in Load /\ m.newest = l.newest /\ m.aborted = l.aborted /\ m.open = l.open
        /\ m.page = l.page /\ m.step = l.step /\ m.key = l.key
        /\ m.range = l.range /\ m.view = l.view /\ ~m.evNewest
    BY <1>6, <2>1 DEF Load
  <2>3. LoadTyped(m)
    BY <2>1, <2>2 DEF LoadTyped
  <2>4. Current(m)'
    BY <1>1, <1>3, <2>1, <2>2 DEF Current
  <2> QED
    BY <2>2, <2>3, <2>4
<1> HIDE DEF g
<1>7. \A l, k \in loads : l.open # {} /\ k.open # {} => l = k
  BY <1>2, InTask
<1>8. Loads'
  <2>1. ASSUME NEW m \in loads' PROVE LoadTyped(m)' /\ Current(m)'
    <3>1. PICK l \in loads : m = g(l)
      BY <1>1, <1>a, <1>5
    <3>2. LoadTyped(m) /\ Current(m)'
      BY <1>6, <3>1
    <3> QED
      BY <3>2 DEF LoadTyped, StepsOf
  <2>2. \A l, k \in loads : g(l).newest /\ g(k).newest => l = k
    BY <1>6 DEF IInv, Loads
  <2>3. \A l, k \in loads : g(l).open # {} /\ g(k).open # {} => l = k
    BY <1>6, <1>7
  <2>4. loads' = {g(l) : l \in loads}
    BY <1>1, <1>a, <1>5
  <2> QED
    BY <2>1, <2>2, <2>3, <2>4 DEF Loads
<1>9. IsFiniteSet(OpenOf(ls)) /\ Cardinality(OpenOf(ls)) = Cardinality(OpenOf(loads))
  <2>1. \A l \in loads : l.open \subseteq Requests
    BY OpenSets DEF IInv, Loads, LoadTyped
  <2>2. \A l \in loads : \E m \in ls : m.open = l.open
    BY <1>5, <1>6
  <2>3. \A m \in ls : \E l \in loads : m.open = l.open
    BY <1>5, <1>6
  <2>4. \A m, k \in ls : m.open # {} /\ k.open # {} => m = k
    BY <1>5, <1>6, <1>7
  <2> QED
    BY <1>7, <2>1, <2>2, <2>3, <2>4, ChangedLoads
<1>10. LoadingIsHonest' /\ RefreshNeverDies' /\ Fresh' /\ FreshShowsCurrent'
  <2>1. (\E m \in ls : m.newest) <=> (\E l \in loads : l.newest)
    BY <1>5, <1>6
  <2>2. \A m \in ls : m.newest => m.page = page
    BY <1>5, <1>6 DEF IInv, LoadingIsHonest
  <2>3. loads' = ls
    BY <1>1, <1>a
  <2> QED
    BY <1>1, <1>3, <2>1, <2>2, <2>3
       DEF IInv, Fresh, FreshShowsCurrent, LoadingIsHonest, RefreshNeverDies
<1>11. OpenOf(loads)' = OpenOf(ls)
  BY <1>1, <1>a
<1>12. CASE key = NoKey /\ evs' = SupersededEvents /\ dialog' = TRUE /\ UNCHANGED pending
  <2>1. Details'
    BY <1>2, <1>12, SupersedingEvents DEF Details
  <2>2. Control'
    BY <1>1, <1>2, <1>3, <1>12 DEF Control
  <2>3. IsFiniteSet(evs') /\ Cardinality(evs') = Cardinality(evs)
    BY <1>2, <1>12, SupersedingEvents
  <2>4. Counted'
    BY <1>2, <1>9, <1>11, <1>12, <2>3 DEF IInv, Counted, PendingNeverLeaks, OpenRequests
  <2> QED
    BY <1>4, <1>8, <1>10, <2>1, <2>2, <2>4 DEF IInv
<1>13. CASE /\ key # NoKey /\ pending' = pending + 1 /\ UNCHANGED dialog
            /\ evs' = SupersededEvents \cup
                 {[newest |-> TRUE, view |-> [range |-> range, filter |-> f], key |-> key,
                   aborted |-> FALSE]}
  <2>b. PICK e : e = [newest |-> TRUE, view |-> [range |-> range, filter |-> f], key |-> key,
                      aborted |-> FALSE]
    OBVIOUS
  <2>1. e \in Ev /\ e.newest /\ ~e.aborted /\ e.view = CurrentView'
    BY <1>1, <1>2, <1>13, <2>b DEF Ev, View, CurrentView, Control
  <2>2. evs' = SupersededEvents \cup {e}
    BY <1>13, <2>b
  <2>3. /\ SupersededEvents \subseteq Ev /\ \A d \in SupersededEvents : ~d.newest /\ d.aborted
        /\ \A d, c \in SupersededEvents : d = c
        /\ IsFiniteSet(SupersededEvents) /\ Cardinality(SupersededEvents) = Cardinality(evs)
    BY <1>2, SupersedingEvents
  <2>4. Details'
    BY <2>1, <2>2, <2>3 DEF Details
  <2>5. IsFiniteSet(evs') /\ Cardinality(evs') = Cardinality(evs) + 1
    BY <2>1, <2>2, <2>3, FS_AddElement
  <2>6. Control'
    BY <1>1, <1>2, <1>3, <1>13 DEF Control
  <2>7. pending' \in Int /\ PendingNeverLeaks'
    BY <1>2, <1>9, <1>11, <1>13, <2>5, CountTypes DEF IInv, PendingNeverLeaks, OpenRequests
  <2>8. Counted'
    BY <1>2, <1>9, <1>11, <2>5, <2>7 DEF IInv, Counted
  <2> QED
    BY <1>4, <1>8, <1>10, <2>4, <2>6, <2>8 DEF IInv
<1> QED
  BY <1>12, <1>13 DEF LoadEvents

LEMMA DownloadStep ==
  ASSUME IInv, Download
  PROVE  IInv' /\ RendersCurrent
<1>1. /\ Click
      /\ UNCHANGED <<page, visible, range, filter, key, valid, loads, loading, freshness,
                     evs, strays, restores, timer, ready, shown>>
  BY DEF Download, UserActs
<1>2. /\ clicks' \in 0..MaxClicks /\ key' \in {key, NoKey} /\ Control /\ Counted
      /\ strays' = strays /\ restores' = restores /\ pending \in Int
  BY <1>1, ClickTypes DEF IInv, Counted
<1>3. CASE dialog' = TRUE /\ pending' = Max({0, pending - 1}) /\ UNCHANGED downloads
  <2>1. pending' = IF pending - 1 > 0 THEN pending - 1 ELSE 0
    BY <1>2, <1>3, ClampedAtZero
  <2>2. pending' \in Int /\ pending' <= Cardinality(OpenOf(loads)) + Cardinality(evs)
            + Cardinality(downloads) + Cardinality(restores) + Cardinality(StraysOf(strays))
    BY <1>2, <2>1, CountTypes
  <2> QED
    BY <1>1, <1>2, <1>3, <2>2, BesideStep DEF Counted
<1>4. CASE /\ key # NoKey /\ key \notin downloads /\ downloads' = downloads \cup {key}
           /\ pending' = pending + 1 /\ UNCHANGED dialog
  <2>1. /\ IsFiniteSet(downloads') /\ Cardinality(downloads') = Cardinality(downloads) + 1
        /\ downloads' \subseteq Keys
    BY <1>2, <1>4, FS_AddElement DEF Counted, Control
  <2>2. pending' \in Int /\ pending' <= Cardinality(OpenOf(loads)) + Cardinality(evs)
            + Cardinality(downloads') + Cardinality(restores) + Cardinality(StraysOf(strays))
    BY <1>2, <1>4, <2>1, CountTypes
  <2>3. dialog' \in BOOLEAN
    BY <1>2, <1>4 DEF Control
  <2> QED
    BY <1>1, <1>2, <2>1, <2>2, <2>3, BesideStep DEF Counted
<1> QED
  BY <1>3, <1>4 DEF Download

LEMMA RestoreBackupStep ==
  ASSUME IInv, RestoreBackup
  PROVE  IInv' /\ RendersCurrent
<1>1. /\ Click
      /\ UNCHANGED <<page, visible, range, filter, key, valid, loads, loading, freshness,
                     evs, strays, downloads, timer, ready, shown>>
  BY DEF RestoreBackup, UserActs
<1>2. /\ clicks' \in 0..MaxClicks /\ key' \in {key, NoKey} /\ Control /\ Counted
      /\ strays' = strays /\ downloads' = downloads /\ pending \in Int
  BY <1>1, ClickTypes DEF IInv, Counted
<1>3. CASE dialog' = TRUE /\ UNCHANGED <<restores, pending>>
  <2>1. pending' \in Int /\ pending' <= Cardinality(OpenOf(loads)) + Cardinality(evs)
            + Cardinality(downloads) + Cardinality(restores) + Cardinality(StraysOf(strays))
    BY <1>2, <1>3, CountTypes
  <2> QED
    BY <1>1, <1>2, <1>3, <2>1, BesideStep DEF Counted
<1>4. CASE /\ key # NoKey /\ key \notin restores /\ restores' = restores \cup {key}
           /\ pending' = pending + 1 /\ UNCHANGED dialog
  <2>1. /\ IsFiniteSet(restores') /\ Cardinality(restores') = Cardinality(restores) + 1
        /\ restores' \subseteq Keys
    BY <1>2, <1>4, FS_AddElement DEF Counted, Control
  <2>2. pending' \in Int /\ pending' <= Cardinality(OpenOf(loads)) + Cardinality(evs)
            + Cardinality(downloads) + Cardinality(restores') + Cardinality(StraysOf(strays))
    BY <1>2, <1>4, <2>1, CountTypes
  <2>3. dialog' \in BOOLEAN
    BY <1>2, <1>4 DEF Control
  <2> QED
    BY <1>1, <1>2, <2>1, <2>2, <2>3, BesideStep DEF Counted
<1> QED
  BY <1>3, <1>4 DEF RestoreBackup

\* The key dialog opens or closes, or the server gets another key.
LEMMA DialogStep ==
  ASSUME IInv, ChangeKey \/ CancelDialog \/ (\E k \in Keys : RotateKey(k))
  PROVE  IInv' /\ RendersCurrent
<1>1. /\ OnlyDialog /\ valid' \in Keys /\ dialog' \in BOOLEAN
      /\ Click \/ UNCHANGED clicks
  BY DEF ChangeKey, CancelDialog, RotateKey, UserActs, IInv, Control
<1>2. clicks' \in 0..MaxClicks
  BY <1>1, ClickTypes DEF IInv, Control
<1>3. /\ UNCHANGED <<page, visible, range, filter, loads, loading, freshness, ready, shown>>
      /\ key' \in {key, NoKey} /\ timer' = timer /\ evs' = evs /\ timer' \in BOOLEAN
      /\ UNCHANGED <<pending, strays, downloads, restores>>
  BY <1>1 DEF OnlyDialog, sideVars, IInv, Control
<1>4. Counted'
  BY <1>3 DEF IInv, Counted, OpenOf, StraysOf, PendingNeverLeaks, OpenRequests
<1> QED
  BY <1>1, <1>2, <1>3, <1>4, SideStep
-----------------------------------------------------------------------------
(* Every step.                                                             *)

LEMMA NextStep ==
  ASSUME IInv, Next
  PROVE  IInv' /\ RendersCurrent
<1>1. CASE Answers
  BY <1>1, LoadAbortsStep, LoadAnsweredStep, SettingsAnsweredStep, EventsAbortStep,
     EventsAnsweredStep, DownloadAnsweredStep, RestoreAnsweredStep, StrayAnsweredStep DEF Answers
<1>2. CASE Frames
  BY <1>2, FrameStep DEF Frames
<1>3. CASE Timer
  BY <1>3, TimerStep DEF Timer
<1>4. CASE User
  BY <1>4, HideStep, ShowStep, UserLoads, LoadEventsStep, DownloadStep, RestoreBackupStep,
     DialogStep DEF User
<1> QED
  BY <1>1, <1>2, <1>3, <1>4 DEF Next

LEMMA StutterStep ==
  ASSUME IInv, UNCHANGED vars
  PROVE  IInv'
<1>1. /\ UNCHANGED <<page, visible, range, filter, key, valid, dialog, loads, loading>>
      /\ UNCHANGED <<freshness, evs, strays, downloads, restores, pending, timer>>
      /\ UNCHANGED <<ready, shown, clicks>>
  BY DEF vars, sideVars
<1>2. Control'
  BY <1>1 DEF IInv, Control
<1>3. Loads'
  BY <1>1, KeepLoads DEF IInv, Steady, CurrentView
<1>4. Details'
  BY <1>1, KeepDetails DEF IInv
<1>5. Counted'
  BY <1>1 DEF IInv, Counted, OpenOf, StraysOf, PendingNeverLeaks, OpenRequests
<1>6. Fresh' /\ FreshShowsCurrent' /\ LoadingIsHonest' /\ RefreshNeverDies'
  BY <1>1 DEF IInv, Fresh, FreshShowsCurrent, LoadingIsHonest, RefreshNeverDies, CurrentView
<1> QED
  BY <1>2, <1>3, <1>4, <1>5, <1>6 DEF IInv

LEMMA NextIInv == IInv /\ [Next]_vars => IInv'
BY NextStep, StutterStep
-----------------------------------------------------------------------------
(* The theorems.                                                           *)

\* The newest activation of loadActivePage asks for what the controls say and what it has
\* passed is on the page; superseded ones are aborted, one at most still waits for answers.
THEOREM PagesInvariant == Spec => []IInv
BY InitIInv, NextIInv, PTL DEF Spec

\* Spinner, refresh button, timer and request counter tell the truth in every state.
THEOREM ControlsCorrect == Spec => []ControlsAreHonest
<1>1. IInv => ControlsAreHonest
  BY Consequences
<1> QED
  BY <1>1, PagesInvariant, PTL

\* A page that says it is up to date shows what its controls say in every region.
THEOREM FreshnessCorrect == Spec => []FreshShowsCurrent
<1>1. IInv => FreshShowsCurrent
  BY Consequences
<1> QED
  BY <1>1, PagesInvariant, PTL

\* No answer to an earlier question is ever rendered on the open page.
THEOREM RenderingCorrect == Spec => NoStaleRender
<1>1. IInv /\ [Next]_vars => [RendersCurrent]_vars
  BY NextStep
<1>2. [][RendersCurrent]_vars => NoStaleRender
  BY PTL DEF NoStaleRender, RendersCurrent
<1> QED
  BY <1>1, <1>2, PagesInvariant, PTL DEF Spec
=============================================================================
