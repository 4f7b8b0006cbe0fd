----------------------------- MODULE MCExecutor -----------------------------
(***************************************************************************)
(* Small Taskfiles for the executor.                                       *)
(***************************************************************************)
EXTENDS Executor, TLC

CONSTANTS top, left, right, gen, flaky

Nowhere == [t \in Tasks |-> <<>>]

\* One command per task, everything else empty.
Plain ==
  [roots |-> <<top>>, parallel |-> FALSE, fast |-> FALSE, limit |-> 1,
   setup |-> Nowhere, deps |-> [t \in Tasks |-> {}], cmds |-> [t \in Tasks |-> <<Shell>>],
   defers |-> Nowhere, once |-> {}, failfast |-> {}, lenient |-> {}, fresh |-> {},
   skipped |-> {}, invalid |-> {}, refused |-> {}, sandboxed |-> {},
   conditional |-> {}, sweep |-> "whole"]

\* left and right both need gen, which runs once; left, failing fast, also needs flaky.
Diamond ==
  (top :> {left, right}) @@ (left :> {gen, flaky}) @@ (right :> {gen}) @@ Plain.deps

Shared == [Plain EXCEPT !.deps = Diamond, !.once = {gen}, !.failfast = {left}, !.limit = 2]

\* The same, failing fast at the top.
FastTop == [Shared EXCEPT !.failfast = {top, left}, !.sweep = "part"]

\* left's part of it below a deferred command, whose errors are ignored.
InDefer ==
  [Shared EXCEPT !.deps = (top :> {right}) @@ Diamond, !.defers = (top :> <<left>>) @@ Nowhere]

\* The tasks of the command line at once, failing fast.
Together ==
  [Shared EXCEPT !.roots = <<left, right>>, !.parallel = TRUE, !.fast = TRUE, !.failfast = {},
                 !.limit = 1, !.sweep = "none"]

\* Nested calls, setup and a sandboxed deferred task, with one permit.
Nested ==
  [Plain EXCEPT !.setup = (top :> <<gen>>) @@ Nowhere,
                !.cmds = (top :> <<left, Shell>>) @@ (left :> <<right>>) @@ Plain.cmds,
                !.defers = (top :> <<flaky, Shell>>) @@ Nowhere,
                !.lenient = {top, left}, !.sandboxed = {flaky, right},
                !.conditional = {left, flaky}, !.fresh = {gen, right}]

\* Two tasks of the command line at once, a cycle below each of them.
Cycle ==
  [Plain EXCEPT !.roots = <<top, flaky>>, !.parallel = TRUE,
                !.deps = (top :> {left}) @@ (left :> {right, gen}) @@ (right :> {top})
                           @@ (flaky :> {right}) @@ Plain.deps,
                !.skipped = {gen}]

\* One after the other; right is called three times, which the counter stops.
Often ==
  [Plain EXCEPT !.roots = <<top, left>>,
                !.cmds = (top :> <<left, right>>) @@ (left :> <<right>>) @@ Plain.cmds]

\* Setup and deps that fail before a command runs.
Stopped ==
  [Plain EXCEPT !.setup = (top :> <<left>>) @@ Nowhere, !.deps = (top :> {right, gen}) @@ Plain.deps,
                !.refused = {left}, !.invalid = {right}]

\* The tasks of Cycle, two of them run once: each root may wait for the other's cell.
OnceCycle == [Cycle EXCEPT !.once = {top, right}]

Taskfiles == {Shared, FastTop, InDefer, Together, Nested, Cycle, OnceCycle, Often, Stopped}

\* A task that runs once, called by another.
OnceExit == {[Plain EXCEPT !.cmds = (top :> <<left>>) @@ Plain.cmds, !.once = {left}]}
=============================================================================
