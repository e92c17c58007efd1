------------------------------- MODULE MapView -------------------------------
(***************************************************************************)
(* What a map page promises its user: what it shows is what the collection *)
(* held, at one moment after the filter was chosen, of the documents this  *)
(* filter admits; and a choice waits until the one before is answered.     *)
(***************************************************************************)
CONSTANTS Document, Filters, Matches(_, _)

VARIABLES collection,  \* the documents, as others change them
          filter,      \* the choice; 0 is everything
          stage,       \* of its answer: "asked", "found", "shown", or "dead"
          snapshot,    \* what was found, until it is shown
          shown        \* what is on the map

Change == collection' \in SUBSET Document /\ UNCHANGED <<filter, stage, snapshot, shown>>

Ask(f) == /\ filter' = f
          /\ stage' = "asked" /\ snapshot' = {} /\ shown' = {}
          /\ UNCHANGED collection

Choose   == stage = "shown" /\ \E f \in Filters : Ask(f)
StartNew == Ask(0)

Look == /\ stage = "asked"
        /\ stage' = "found"
        /\ snapshot' = {d \in collection : Matches(d, filter)}
        /\ UNCHANGED <<collection, filter, shown>>

Show == /\ stage = "found"
        /\ stage' = "shown"
        /\ shown' = snapshot /\ snapshot' = {}
        /\ UNCHANGED <<collection, filter>>

\* A failure ends the page: it shows a part, and takes no further choice.
Fail == /\ stage \in {"asked", "found"}
        /\ stage' = "dead"
        /\ shown' \in SUBSET snapshot /\ snapshot' = {}
        /\ UNCHANGED <<collection, filter>>

Init == /\ collection = {} /\ filter = 0
        /\ stage = "asked" /\ snapshot = {} /\ shown = {}

Next == Change \/ Choose \/ StartNew \/ Look \/ Show \/ Fail

Spec == Init /\ [][Next]_<<collection, filter, stage, snapshot, shown>>
=============================================================================
