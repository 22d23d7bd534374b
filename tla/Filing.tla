-------------------------------- MODULE Filing --------------------------------
(***************************************************************************)
(* What filing promises for each item, however many requests, crashes and   *)
(* retries there are: first a row is in the Sheet, then the dedup ledger     *)
(* refers to one, for good, and only then is the item shown as posted.      *)
(***************************************************************************)
EXTENDS Naturals

CONSTANT Item

VARIABLES
    rows,       \* how many rows of each item the Sheet has
    recorded,   \* the row that the dedup ledger refers to, or 0
    posted      \* whether the item is shown as posted

vars == <<rows, recorded, posted>>

Init ==
    /\ rows = [i \in Item |-> 0]
    /\ recorded = [i \in Item |-> 0]
    /\ posted = [i \in Item |-> FALSE]

\* A row is written, perhaps one too many; rows never go away.
WriteRow(i) ==
    /\ rows' = [rows EXCEPT ![i] = @ + 1]
    /\ UNCHANGED <<recorded, posted>>

\* The ledger takes one reference to a row that exists and keeps it.
RecordRow(i) ==
    /\ recorded[i] = 0
    /\ \E ref \in 1..rows[i] : recorded' = [recorded EXCEPT ![i] = ref]
    /\ UNCHANGED <<rows, posted>>

MarkPosted(i) ==
    /\ recorded[i] # 0
    /\ posted' = [posted EXCEPT ![i] = TRUE]
    /\ UNCHANGED <<rows, recorded>>

\* A later failure or another request takes the mark away, never the row.
Unmark(i) ==
    /\ posted' = [posted EXCEPT ![i] = FALSE]
    /\ UNCHANGED <<rows, recorded>>

Next == \E i \in Item : WriteRow(i) \/ RecordRow(i) \/ MarkPosted(i) \/ Unmark(i)

Spec == Init /\ [][Next]_vars
===============================================================================
