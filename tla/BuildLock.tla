----------------------------- MODULE BuildLock -----------------------------
(***************************************************************************)
(* What acquire_task_lock promises: at most one run is inside the          *)
(* build-once lock, until something has broken the promise for good.       *)
(***************************************************************************)
CONSTANT Procs

VARIABLES inside,   \* the runs that hold the lock and have no evidence of losing it
          broken    \* exclusion is no longer promised

vars == <<inside, broken>>

Init == inside = {} /\ broken = FALSE

\* Exclusion may be given up at any time, but no later than the entry that breaks it.
Enter(p) ==
  /\ p \notin inside
  /\ broken' \in {broken, TRUE}
  /\ inside = {} \/ broken'
  /\ inside' = inside \cup {p}

Leave(p) ==
  /\ p \in inside
  /\ broken' \in {broken, TRUE}
  /\ inside' = inside \ {p}

Break == broken' = TRUE /\ UNCHANGED inside

Next == Break \/ \E p \in Procs : Enter(p) \/ Leave(p)

Spec == Init /\ [][Next]_vars
=============================================================================
