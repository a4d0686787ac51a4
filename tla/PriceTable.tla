----------------------------- MODULE PriceTable -----------------------------
(***************************************************************************)
(* The price table of the settings page (go/dashboard/app.js): rows that   *)
(* are edited, cloned, imported, picked and filled in the browser, a load  *)
(* and saves that may be under way at the same time, and the list that the *)
(* server keeps (go/pricing.go), which a save replaces as a whole.         *)
(*                                                                         *)
(* A name is a model value with its lower case form Fold and the name      *)
(* CopyOf that a clone gets; the five prices of a row are one number, and  *)
(* the server refuses a number over MaxPrice (a negative one, say).        *)
(***************************************************************************)
EXTENDS Integers, Sequences, SequencesExt, FiniteSets

CONSTANTS
    Order,        \* the names, in the order of ORDER BY model COLLATE NOCASE
    Fold, CopyOf, \* functions on names; CopyOf is partial, which bounds clones of clones
    MaxPrice,
    Files,        \* what parseImportedPrices finds in the files that are imported
    Called,       \* names of models in the tables of the other pages
    Blank,        \* a model field that is empty
    Closed, Gone, \* the picker is closed; it is open for a row that was rendered away
    Idle,
    Slots, MaxRows, MaxClicks  \* bounds: saves under way, rows, user actions

Names == Range(Order)
Lists == UNION {[M -> 0..MaxPrice] : M \in SUBSET Names}

ASSUME PriceTableAssumption ==
    /\ Order \in Seq(Names) /\ IsInjective(Order)
    /\ Fold \in [Names -> Names] /\ DOMAIN CopyOf \subseteq Names /\ Range(CopyOf) \subseteq Names
    /\ Blank \notin Names /\ Called \subseteq Names
    /\ {MaxRows, MaxClicks} \subseteq Nat /\ MaxPrice \in Nat \ {0}
    \* parseImportedPrices skips what has no model (app.js:3040, 3053, 3089).
    /\ \A file \in Files : file \in Seq([model : Names, price : 0..(MaxPrice + 1)])

VARIABLES
    rows,    \* the rows of #price-table
    known,   \* state.knownRequestedModels
    picker,  \* the row whose picker is open
    offered, \* what it offers
    load,    \* the load of the settings page whose answer will be rendered
    stray,   \* one that was superseded
    saves,   \* PUT /prices under way
    stored,  \* the server's list
    \* History: the table is what one request, with no other beside it, was answered with;
    \* names the table got from the server that the user did not drop since (or a merge, for
    \* a name of the same lower case form).
    clean, kept,
    clicks

vars == <<rows, known, picker, offered, load, stray, saves, stored, clean, kept, clicks>>
requests == <<load, stray, saves, stored>>

Row(m, p) == [model |-> m, price |-> p]
NamesIn(list) == {list[i].model : i \in DOMAIN list} \ {Blank}

\* The k-th of a set of positions, and the items at such positions, in their order.
Nth(I, k) == CHOOSE i \in I : Cardinality({j \in I : j <= i}) = k
Among(list, I) == [k \in 1..Cardinality(I) |-> list[Nth(I, k)]]

\* getTablePrices
Filled(list) == Among(list, {i \in DOMAIN list : list[i].model # Blank})
TablePrices == Filled(rows)
\* queryPrices
Sorted(S) == Among(Order, {i \in DOMAIN Order : Order[i] \in S})
Listed(list) == LET m == Sorted(DOMAIN list)
                IN  [i \in DOMAIN m |-> Row(m[i], list[m[i]])]
Distinct(list) == \A i, j \in DOMAIN list : list[i].model = list[j].model => i = j

\* validatePrices: exact names, unlike the comparisons in the browser.
Valid(list) == Distinct(list) /\ \A i \in DOMAIN list : list[i].price <= MaxPrice

Init ==
    /\ rows = <<>> /\ known = {} /\ picker = Closed /\ offered = {}
    /\ load = [stage |-> "sent", alone |-> TRUE] /\ stray = Idle
    /\ saves = [s \in Slots |-> Idle]
    /\ \E M \in SUBSET Names : stored = [m \in M |-> 1]
    /\ clean = FALSE /\ kept = {}
    /\ clicks = MaxClicks

\* Any press outside of the picker closes it, the one that does something else included.
Click == clicks > 0 /\ clicks' = clicks - 1
Press == Click /\ picker' = Closed /\ offered' = {}
Put(list) == /\ Len(list) <= MaxRows
             /\ rows' = list /\ clean' = FALSE

\* appendPriceRow({})
Add ==
    /\ Press /\ Put(Append(rows, Row(Blank, 0)))
    /\ UNCHANGED <<requests, kept, known>>

\* The fields can be edited by keyboard alone, which leaves the picker open.
Edit(i, r) ==
    /\ Click /\ Put([rows EXCEPT ![i] = r])
    /\ \/ picker' = Closed /\ offered' = {}
       \/ picker # Closed /\ UNCHANGED <<picker, offered>>
    /\ kept' = kept \ ({rows[i].model} \ {r.model})
    /\ UNCHANGED <<requests, known>>

RemoveRow(i) ==
    /\ Press /\ Put(RemoveAt(rows, i))
    /\ kept' = kept \ {rows[i].model}
    /\ UNCHANGED <<requests, known>>

\* A clone of a clone can have the name of another row.
CloneRow(i) ==
    /\ Press
    /\ rows[i].model \in DOMAIN CopyOf \cup {Blank}
    /\ Put(Append(rows, Row(IF rows[i].model = Blank THEN Blank ELSE CopyOf[rows[i].model],
                            rows[i].price)))
    /\ UNCHANGED <<requests, kept, known>>

\* A Map from lower case names to items: a later item replaces an earlier one in its place.
Same(list, i) == {j \in DOMAIN list : Fold[list[j].model] = Fold[list[i].model]}
MapOf(list) == Among([i \in DOMAIN list |-> list[Max(Same(list, i))]],
                     {i \in DOMAIN list : i = Min(Same(list, i))})
MergedImportOnly(parsed) == MapOf(parsed)
Merged(parsed) == MapOf(TablePrices \o parsed)

\* renderPrices; the rows it replaces are gone, also for an open picker.
RowsFor(list) == IF list = <<>> THEN <<Row(Blank, 0)>> ELSE list
RenderPricesSamePlace(list) == rows' = RowsFor(list) /\ UNCHANGED picker
RenderPrices(list) ==
    /\ rows' = RowsFor(list)
    /\ picker' = IF picker = Closed THEN Closed ELSE Gone

\* The import dialog; without a parsed price it only says so.
Import(file, mode) ==
    /\ Press /\ file # <<>>
    /\ Put(RowsFor(IF mode = "replace" THEN file ELSE Merged(file)))
    /\ kept' = IF mode = "replace" THEN kept \cap NamesIn(file)
                ELSE {m \in kept : \A n \in (NamesIn(rows) \cup NamesIn(file)) \ {m} : Fold[n] # Fold[m]}
    /\ UNCHANGED <<requests, known>>

\* autoFillUnpricedModels
DiscoveredAll == Called
Discovered == {m \in Called : ~\E n \in NamesIn(rows) : Fold[n] = Fold[m]}
AutoFill ==
    /\ Press
    /\ Put(rows \o [i \in DOMAIN Sorted(Discovered) |-> Row(Sorted(Discovered)[i], 0)])
    /\ UNCHANGED <<requests, kept, known>>

\* getRequestedModelsList: one name for each lower case form, the last one of the analysis
\* or, if it has none, the first one of the tables.
Requested ==
    LET Of(S, k) == Sorted({m \in S : Fold[m] = k})
    IN  {IF Of(known, k) # <<>> THEN Last(Of(known, k)) ELSE Head(Of(Called, k)) :
            k \in {Fold[m] : m \in known \cup Called}}

\* The picker of a row offers what no other row has, in whatever case.
OfferedFor(i) == {m \in Requested : \A j \in DOMAIN rows \ {i} :
                      rows[j].model # Blank => Fold[rows[j].model] # Fold[m]
                      \/ (rows[i].model # Blank /\ Fold[m] = Fold[rows[i].model])}
OpenPicker(i) ==
    /\ Click /\ picker # i
    /\ picker' = i /\ offered' = OfferedFor(i)
    /\ UNCHANGED <<rows, clean, known, requests, kept>>
ClosePicker == Press /\ picker # Closed /\ UNCHANGED <<rows, clean, known, requests, kept>>

\* applyModelToRow: a row that is gone takes the name where nobody sees it.
Pick(m) ==
    /\ Press /\ picker # Closed
    /\ IF picker = Gone THEN UNCHANGED <<rows, clean, kept>>
       ELSE /\ Put([rows EXCEPT ![picker].model = m])
            /\ kept' = kept \ ({rows[picker].model} \ {m})
    /\ UNCHANGED <<requests, known>>

UnderWay == {s \in Slots : saves[s] # Idle}
Beside(r) == IF r = Idle THEN r ELSE [r EXCEPT !.alone = FALSE]

\* Refresh, or leaving the page and coming back: the load under way, if any, is superseded.
Reload ==
    /\ Press /\ stray = Idle
    /\ load' = [stage |-> "sent", alone |-> UnderWay = {}]
    /\ stray' = load
    /\ saves' = [s \in Slots |-> Beside(saves[s])]
    /\ UNCHANGED <<rows, clean, known, stored, kept>>

\* The server reads the list for GET /prices.
LoadRead ==
    /\ load # Idle /\ load.stage = "sent"
    /\ load' = [stage |-> "read", alone |-> load.alone, list |-> Listed(stored)]
    /\ UNCHANGED <<rows, known, picker, offered, stray, saves, stored, clean, kept, clicks>>
StrayRead ==
    /\ stray # Idle /\ stray.stage = "sent"
    /\ stray' = [stage |-> "read", alone |-> stray.alone, list |-> Listed(stored)]
    /\ UNCHANGED <<rows, known, picker, offered, load, saves, stored, clean, kept, clicks>>

Shown(list, alone) ==
    /\ RenderPrices(list)
    /\ clean' = alone /\ kept' = NamesIn(list)

\* loadSettings renders all or nothing; the analysis alone may fail.
LoadAnswered ==
    /\ load # Idle /\ load.stage = "read"
    /\ load' = Idle /\ known' \in {known, Called}
    /\ Shown(load.list, load.alone)
    /\ UNCHANGED <<offered, stray, saves, stored, clicks>>
LoadFailed ==
    /\ load # Idle /\ load' = Idle
    /\ UNCHANGED <<rows, known, picker, offered, stray, saves, stored, clean, kept, clicks>>

\* requestID is not that of the newest load.
StrayRendered ==
    /\ stray # Idle /\ stray.stage = "read"
    /\ stray' = Idle /\ known' \in {known, Called}
    /\ Shown(stray.list, stray.alone)
    /\ UNCHANGED <<offered, load, saves, stored, clicks>>
StrayAnswered ==
    /\ stray # Idle /\ stray' = Idle
    /\ UNCHANGED <<rows, known, picker, offered, load, saves, stored, clean, kept, clicks>>

\* savePrices sends the rows as they are now; the button stays enabled.
SavePrices(s) ==
    /\ Press /\ saves[s] = Idle
    /\ saves' = [t \in Slots |-> IF t # s THEN Beside(saves[t])
                                 ELSE [stage |-> "sent", alone |-> UnderWay = {} /\ load = Idle,
                                       list |-> TablePrices, kept |-> kept]]
    /\ load' = Beside(load)
    /\ UNCHANGED <<rows, clean, known, stray, stored, kept>>

\* updatePrices replaces the list, or refuses it as a whole.
SaveApplied(s) ==
    /\ saves[s] # Idle /\ saves[s].stage = "sent"
    /\ LET list == saves[s].list
       IN  IF Valid(list)
           THEN /\ stored' = [m \in NamesIn(list) |-> (CHOOSE r \in Range(list) : r.model = m).price]
                /\ saves' = [saves EXCEPT ![s].stage = "applied"]
           ELSE /\ saves' = [saves EXCEPT ![s].stage = "refused"]
                /\ UNCHANGED stored
    /\ UNCHANGED <<rows, known, picker, offered, load, stray, clean, kept, clicks>>
\* listPrices, which another save may have come before.
SaveListed(s) ==
    /\ saves[s] # Idle /\ saves[s].stage = "applied"
    /\ saves' = [saves EXCEPT ![s].stage = "listed", ![s].list = Listed(stored)]
    /\ UNCHANGED <<rows, known, picker, offered, load, stray, stored, clean, kept, clicks>>

SaveAnswered(s) ==
    /\ saves[s] # Idle /\ saves[s].stage = "listed"
    /\ saves' = [saves EXCEPT ![s] = Idle]
    /\ Shown(saves[s].list, saves[s].alone)
    /\ UNCHANGED <<known, offered, load, stray, stored, clicks>>
\* A refusal, or an answer that is lost at any stage: the toast names the error.
SaveFailed(s) ==
    /\ saves[s] # Idle
    /\ saves' = [saves EXCEPT ![s] = Idle]
    /\ UNCHANGED <<rows, known, picker, offered, load, stray, stored, clean, kept, clicks>>

EditModel == \E i \in DOMAIN rows : \E m \in (Names \cup {Blank}) \ {rows[i].model} :
                 Edit(i, Row(m, rows[i].price))
EditPrice == \E i \in DOMAIN rows : \E p \in 0..(MaxPrice + 1) \ {rows[i].price} :
                 Edit(i, Row(rows[i].model, p))

Next ==
    \/ Add \/ EditModel \/ EditPrice
    \/ \E i \in DOMAIN rows : RemoveRow(i) \/ CloneRow(i) \/ OpenPicker(i)
    \/ \E file \in Files, mode \in {"merge", "replace"} : Import(file, mode)
    \/ AutoFill \/ ClosePicker \/ \E m \in offered : Pick(m)
    \/ Reload \/ LoadRead \/ LoadAnswered \/ LoadFailed \/ StrayRead \/ StrayAnswered
    \/ \E s \in Slots : \/ SavePrices(s) \/ SaveApplied(s) \/ SaveListed(s)
                        \/ SaveAnswered(s) \/ SaveFailed(s)

Spec == Init /\ [][Next]_vars

-----------------------------------------------------------------------------
\* Properties.

\* Every row and request is well formed, and an open picker has a row or lost it.
TypeOK ==
    /\ \A i \in DOMAIN rows : rows[i] \in [model : Names \cup {Blank}, price : 0..(MaxPrice + 1)]
    /\ picker \in DOMAIN rows \cup {Closed, Gone}
    /\ stored \in Lists /\ known \subseteq Called
    /\ \A s \in UnderWay : saves[s].stage \in {"sent", "applied", "refused", "listed"}

\* A table that nobody edited since one lone request filled it is the server's list, so
\* saving it again changes nothing: neither a superseded load nor a failed save nor an
\* answer under way makes it stale.  (With two requests at once it may be: see README.)
CleanTableIsStored == clean => TablePrices = Listed(stored)

\* The table is well formed, its picker points at a row or knows that it is gone, and while
\* nobody touches it, it is the list of the server.
TableIsHonest == TypeOK /\ CleanTableIsStored

\* A save deletes a price the table had shown only if the user dropped it there, or a
\* merge folded it into a name of the same lower case form.
OnlyDroppedVanish ==
    [][\A s \in Slots :
         SaveApplied(s) => (DOMAIN stored \ DOMAIN stored') \cap saves[s].kept = {}]_vars

\* A merge and the auto fill never make a table that the server would accept by its names
\* one that it refuses for a name given twice.
SavableStays ==
    [][Distinct(TablePrices) /\ (AutoFill \/ \E f \in Files : Import(f, "merge"))
         => Distinct(TablePrices')]_vars
=============================================================================
