---------------------------- MODULE EventLedger ----------------------------
(***************************************************************************)
(* What one runtime promises about the usage events handed to it, with no   *)
(* queue, writer, lock or retry: an event is rejected or admitted; an       *)
(* admitted one is settled once, in a batch, as confirmed, lost or unknown; *)
(* a confirmed batch is stored, a lost one is not, an unknown one either    *)
(* way; cleanup takes rows away; a restore puts back what was once          *)
(* exported. UsageWriter implements it.                                     *)
(***************************************************************************)
EXTENDS Naturals

CONSTANT Events

VARIABLES
    stage,    \* how far each event has come
    rows,     \* how many stored rows it has
    backups   \* what a restore may put back
vars == <<stage, rows, backups>>

NoRows == [e \in Events |-> 0]
Pending == {e \in Events : stage[e] = "pending"}

Init ==
    /\ stage = [e \in Events |-> "new"]
    /\ rows = NoRows
    /\ backups = {NoRows}

Reject(e) ==
    /\ stage[e] = "new"
    /\ stage' = [stage EXCEPT ![e] = "rejected"]
    /\ UNCHANGED <<rows, backups>>

Admit(e) ==
    /\ stage[e] = "new"
    /\ stage' = [stage EXCEPT ![e] = "pending"]
    /\ UNCHANGED <<rows, backups>>

Settle(S, outcome) ==
    stage' = [e \in Events |-> IF e \in S THEN outcome ELSE stage[e]]

Store(S) == rows' = [e \in Events |-> IF e \in S THEN rows[e] + 1 ELSE rows[e]]

Confirm(S) == Settle(S, "confirmed") /\ Store(S) /\ UNCHANGED backups

Lose(S) == Settle(S, "lost") /\ UNCHANGED <<rows, backups>>

Doubt(S) == Settle(S, "unknown") /\ (Store(S) \/ UNCHANGED rows) /\ UNCHANGED backups

Purge(gone) ==
    /\ rows' = [e \in Events |-> IF e \in gone THEN 0 ELSE rows[e]]
    /\ UNCHANGED <<stage, backups>>

Export ==
    /\ backups' = backups \cup {rows}
    /\ UNCHANGED <<stage, rows>>

Restore(backup) ==
    /\ rows' = backup
    /\ UNCHANGED <<stage, backups>>

Next ==
    \/ \E e \in Events : Reject(e) \/ Admit(e)
    \/ \E S \in SUBSET Pending : Confirm(S) \/ Lose(S) \/ Doubt(S)
    \/ \E gone \in SUBSET Events : Purge(gone)
    \/ Export
    \/ \E backup \in backups : Restore(backup)

Spec == Init /\ [][Next]_vars
-----------------------------------------------------------------------------
TypeOK ==
    /\ stage \in [Events -> {"new", "rejected", "pending", "confirmed", "lost", "unknown"}]
    /\ rows \in [Events -> Nat]
    /\ backups \in SUBSET [Events -> Nat]

\* Stored rows, and the rows a restore may bring back, belong to events that were
\* confirmed or are unknown, one row each.
Backed(r) ==
    \A e \in Events : r[e] <= 1 /\ (r[e] = 1 => stage[e] \in {"confirmed", "unknown"})

AtMostOneRow == Backed(rows) /\ \A b \in backups : Backed(b)
=============================================================================
