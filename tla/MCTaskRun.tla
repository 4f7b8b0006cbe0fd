----------------------------- MODULE MCTaskRun -----------------------------
(***************************************************************************)
(* Instances of TaskRun for TLC.                                           *)
(***************************************************************************)
EXTENDS TaskRun

\* Runs share a tree and its file lock; the sources are left alone meanwhile.
Shared == [overlap |-> TRUE, edits |-> FALSE, remote |-> FALSE, orphans |-> FALSE]

\* One run at a time, under a lease; the sources are edited at any time.
Solo == [overlap |-> FALSE, edits |-> TRUE, remote |-> TRUE, orphans |-> TRUE]

\* Runs share a tree whose sources are edited at any time.
Busy == [overlap |-> TRUE, edits |-> TRUE, remote |-> FALSE, orphans |-> FALSE]

SharedOrSolo == {Shared, Solo}
OnlyBusy     == {Busy}
=============================================================================
