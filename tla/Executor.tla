------------------------------ MODULE Executor ------------------------------
(***************************************************************************)
(* One run of the executor over a Taskfile: the tree of queued calls       *)
(* (run_task_on, start_execution, run_setup, run_deps, run_command,        *)
(* run_deferred), the run-once cells, the concurrency limiter, fail-fast   *)
(* cancellation (join_queued) and the drain at the end (drain_queue).      *)
(*                                                                         *)
(* A call is the path of tasks from the command line to it.  A task's body *)
(* (TaskRun) is abstracted to: up to date, or deps, then commands, then    *)
(* deferred commands.  Every defer is registered before a command fails.   *)
(* Prompts, watch mode and interrupts are left out.                        *)
(***************************************************************************)
EXTENDS Naturals, Sequences, SequencesExt, FiniteSets

CONSTANTS Tasks,      \* task names
          Shell,      \* a shell command, among the commands of a task
          NoCall,     \* no call
          MaxCalls,   \* MAXIMUM_TASK_CALL
          Files       \* the Taskfiles and flags a behaviour may start with

(***************************************************************************)
(* A Taskfile and the flags of the run.  roots: the tasks on the command   *)
(* line.  once: tasks with run: once or when_changed.  lenient: tasks with *)
(* ignore_error.  fresh: tasks that may be up to date.  skipped: tasks     *)
(* their platforms or `if` turn away.  invalid: tasks that do not compile  *)
(* or lack a required variable.  refused: tasks whose precondition or      *)
(* prompt may stop them.  sandboxed: tasks whose commands may be denied    *)
(* something.  conditional: tasks whose commands have an `if`.  failfast:  *)
(* tasks with failfast; fast: the --failfast flag.  sweep: what            *)
(* stop_commands can do here: its whole work, part of it (the tree is too  *)
(* deep, or a process cannot be signalled), or nothing (TASK_NO_REAP, or   *)
(* this process adopts orphans).                                           *)
(***************************************************************************)
WellFormed(f) ==
  /\ f.roots \in Seq(Tasks)
  /\ f.setup \in [Tasks -> Seq(Tasks)] /\ f.deps \in [Tasks -> SUBSET Tasks]
  /\ f.cmds \in [Tasks -> Seq(Tasks \cup {Shell})]
  /\ f.defers \in [Tasks -> Seq(Tasks \cup {Shell})]
  /\ f.limit \in Nat \ {0}
  /\ f.sweep \in {"whole", "part", "none"}

\* The tasks of a list are different ones.
OnceEach(list) == \A i, j \in DOMAIN list : list[i] = list[j] /\ list[i] # Shell => i = j

\* A task calls another at most once, and the command line names it at most once, so that
\* the path tells the calls apart.
Distinct(f) ==
  /\ OnceEach(f.roots)
  /\ \A t \in Tasks :
       /\ OnceEach(f.setup[t]) /\ OnceEach(f.cmds[t]) /\ OnceEach(f.defers[t])
       /\ Range(f.setup[t]) \cap (f.deps[t] \cup Range(f.cmds[t]) \cup Range(f.defers[t])) = {}
       /\ f.deps[t] \cap (Range(f.cmds[t]) \cup Range(f.defers[t])) = {}
       /\ Range(f.cmds[t]) \cap Range(f.defers[t]) \subseteq {Shell}

ASSUME LimitAssumption == MaxCalls \in Nat /\ Shell \notin Tasks /\ NoCall \notin Seq(Tasks)
ASSUME FileAssumption == \A f \in Files : WellFormed(f) /\ Distinct(f)

VARIABLES
  file,       \* the Taskfile of this behaviour
  call,       \* the calls made so far
  aborted,    \* calls whose abort was requested
  cell,       \* run_once: who runs the task, and its result
  count,      \* task_call_count
  permits,    \* free permits of the limiter
  orphans,    \* calls that are gone and left their command running
  main,       \* Executor::run
  abandoned   \* TaskQueue.abandoned

vars == <<file, call, aborted, cell, count, permits, orphans, main, abandoned>>

\* An error: of the task's own command; of a command below it; a sandbox denial; any
\* other error; and one turned into text by unwrap_arc.
Errors == {"exit", "sub", "denied", "other", "text"}

Live(c) == call[c].at \notin {"ended", "gone"}
TaskOf(c) == Last(c)
Children(c) == {k \in DOMAIN call : Len(k) = Len(c) + 1 /\ SubSeq(k, 1, Len(c)) = c}
Pending(c) == {k \in Children(c) : Live(k)}

TypeOK ==
  /\ file \in Files
  /\ \A c \in DOMAIN call :
       /\ call[c].at \in {"queued", "wait", "setup", "deps", "failing", "cmds", "defer",
                          "ended", "gone"}
       /\ call[c].doing \in {"pick", "permit", "shell", "call"}
       /\ call[c].err \in Errors \cup {"ok"}
  /\ aborted \subseteq DOMAIN call
  /\ \A t \in Tasks : cell[t].by \in DOMAIN call \cup {NoCall}
  /\ permits \in 0..file.limit
  /\ orphans \subseteq DOMAIN call

Fresh == [at |-> "queued", i |-> 1, doing |-> "pick", err |-> "ok", own |-> FALSE]

Init ==
  /\ file \in Files
  /\ call = <<>>
  /\ aborted = {}
  /\ cell = [t \in Tasks |-> [by |-> NoCall, res |-> "none"]]
  /\ count = [t \in Tasks |-> 0]
  /\ permits = file.limit
  /\ orphans = {}
  /\ main = [at |-> "run", i |-> 1, err |-> "ok"]
  /\ abandoned = FALSE

-----------------------------------------------------------------------------
(* Ending a call                                                           *)

\* What a call of a task returns: unwrap_arc cannot unwrap an error its cell shares.
Outcome(c, r) == IF TaskOf(c) \in file.once /\ r # "ok" THEN "text" ELSE r

\* What a callee's error is to its caller: TaskRun around it.
Wrapped(r) == IF r = "exit" THEN "sub" ELSE r

Result(k) == IF call[k].at = "gone" THEN "other" ELSE call[k].err

\* execute returns r: the cell has its value, the call its result.
Finished(c, r) == [call EXCEPT ![c].at = "ended", ![c].err = Outcome(c, r)]
FinishedCell(c, r) ==
  IF TaskOf(c) \in file.once THEN [cell EXCEPT ![TaskOf(c)].res = r] ELSE cell

Spawned(ks) == [c \in DOMAIN call \cup ks |-> IF c \in ks THEN Fresh ELSE call[c]]

Moving(c) == c \in DOMAIN call /\ Live(c) /\ c \notin aborted

-----------------------------------------------------------------------------
(* run_task_on and start_execution                                         *)

Enter(c) ==
  LET t == TaskOf(c) IN
  /\ Moving(c)
  /\ call[c].at = "queued"
  /\ \/ /\ t \in file.skipped
        /\ call' = [call EXCEPT ![c].at = "ended"]
        /\ UNCHANGED count
     \/ /\ t \notin file.skipped
        /\ t \in file.invalid \cup Range(Front(c))   \* or CyclicDependency
        /\ call' = [call EXCEPT ![c].at = "ended", ![c].err = "other"]
        /\ UNCHANGED count
     \/ /\ t \notin file.skipped \cup file.invalid \cup Range(Front(c))
        /\ count' = [count EXCEPT ![t] = @ + 1]
        /\ call' = IF count[t] + 1 >= MaxCalls   \* TaskCalledTooManyTimes
                     THEN [call EXCEPT ![c].at = "ended", ![c].err = "other"]
                   ELSE IF t \in file.once
                     THEN [call EXCEPT ![c].at = "wait"]
                   ELSE [call EXCEPT ![c].at = "setup", ![c].own = TRUE]
  /\ UNCHANGED <<file, aborted, cell, permits, orphans, main, abandoned>>

\* The mutant of Claim: every caller runs the task.
Claim_NotShared(c) ==
  LET t == TaskOf(c) IN
  /\ Moving(c)
  /\ call[c].at = "wait"
  /\ cell' = [cell EXCEPT ![t].by = c]
  /\ call' = [call EXCEPT ![c].at = "setup", ![c].own = TRUE]
  /\ UNCHANGED <<file, aborted, count, permits, orphans, main, abandoned>>

\* OnceCell::get_or_init: the value, or the right to make it where nobody is.
Claim(c) ==
  LET t == TaskOf(c) IN
  /\ Moving(c)
  /\ call[c].at = "wait"
  /\ \/ /\ cell[t].res # "none"
        /\ call' = [call EXCEPT ![c].at = "ended", ![c].err = Outcome(c, cell[t].res)]
        /\ UNCHANGED cell
     \/ /\ cell[t].res = "none" /\ cell[t].by = NoCall
        /\ cell' = [cell EXCEPT ![t].by = c]
        /\ call' = [call EXCEPT ![c].at = "setup", ![c].own = TRUE]
  /\ UNCHANGED <<file, aborted, count, permits, orphans, main, abandoned>>

-----------------------------------------------------------------------------
(* execute                                                                 *)

\* run_setup calls the next setup task.
CallSetup(c) ==
  LET setup == file.setup[TaskOf(c)] IN
  /\ Moving(c)
  /\ call[c].at = "setup" /\ call[c].doing = "pick"
  /\ call[c].i <= Len(setup)
  /\ call' = [Spawned({Append(c, setup[call[c].i])}) EXCEPT ![c].doing = "call"]
  /\ UNCHANGED <<file, aborted, cell, count, permits, orphans, main, abandoned>>

\* After setup: the task is up to date, or refused, or run_deps queues every dep.
Body(c) ==
  LET t == TaskOf(c) IN
  /\ Moving(c)
  /\ call[c].at = "setup" /\ call[c].doing = "pick"
  /\ call[c].i > Len(file.setup[t])
  /\ \/ /\ t \in file.fresh
        /\ call' = Finished(c, "ok")
        /\ cell' = FinishedCell(c, "ok")
     \/ /\ t \in file.refused
        /\ call' = Finished(c, "other")
        /\ cell' = FinishedCell(c, "other")
     \/ /\ call' = [Spawned({Append(c, d) : d \in file.deps[t]}) EXCEPT ![c].at = "deps"]
        /\ UNCHANGED cell
  /\ UNCHANGED <<file, aborted, count, permits, orphans, main, abandoned>>

Deps(c) == {k \in Children(c) : TaskOf(k) \in file.deps[TaskOf(c)]}
Broken(ks) == {k \in ks : ~Live(k) /\ Result(k) # "ok"}

\* The mutant of JoinDeps: the errors of the deps are not looked at.
JoinDeps_NoErrors(c) ==
  /\ Moving(c)
  /\ call[c].at = "deps"
  /\ \A k \in Deps(c) : ~Live(k)
  /\ call' = [call EXCEPT ![c].at = "cmds", ![c].i = 1]
  /\ UNCHANGED <<file, aborted, cell, count, permits, orphans, main, abandoned>>

\* join_queued: all deps are done, and none failed or one of the errors is returned.
JoinDeps(c) ==
  /\ Moving(c)
  /\ call[c].at = "deps"
  /\ \A k \in Deps(c) : ~Live(k)
  /\ \/ /\ Broken(Deps(c)) = {}
        /\ call' = [call EXCEPT ![c].at = "cmds", ![c].i = 1]
        /\ UNCHANGED cell
     \/ \E k \in Broken(Deps(c)) :
          /\ call' = Finished(c, Wrapped(Result(k)))
          /\ cell' = FinishedCell(c, Wrapped(Result(k)))
  /\ UNCHANGED <<file, aborted, count, permits, orphans, main, abandoned>>

\* The mutant of FailFast: what is abandoned is not remembered.
FailFast_Forgotten(c) ==
  /\ Moving(c)
  /\ call[c].at = "deps"
  /\ file.fast \/ TaskOf(c) \in file.failfast
  /\ Pending(c) # {}
  /\ \E k \in Broken(Deps(c)) :
       call' = [call EXCEPT ![c].at = "failing", ![c].err = Wrapped(Result(k))]
  /\ aborted' = aborted \cup Pending(c)
  /\ UNCHANGED <<file, cell, count, permits, orphans, main, abandoned>>

\* join_queued with failfast: a dep failed, its siblings are aborted ...
FailFast(c) ==
  /\ Moving(c)
  /\ call[c].at = "deps"
  /\ file.fast \/ TaskOf(c) \in file.failfast
  /\ Pending(c) # {}
  /\ \E k \in Broken(Deps(c)) :
       call' = [call EXCEPT ![c].at = "failing", ![c].err = Wrapped(Result(k))]
  /\ aborted' = aborted \cup Pending(c)
  /\ abandoned' = TRUE
  /\ UNCHANGED <<file, cell, count, permits, orphans, main>>

\* ... and waited for.
FailedFast(c) ==
  /\ Moving(c)
  /\ call[c].at = "failing"
  /\ Pending(c) = {}
  /\ call' = Finished(c, call[c].err)
  /\ cell' = FinishedCell(c, call[c].err)
  /\ UNCHANGED <<file, aborted, count, permits, orphans, main, abandoned>>

-----------------------------------------------------------------------------
(* Commands and deferred commands                                          *)

\* The command the call is at; deferred ones run last to first.
Command(c) ==
  IF call[c].at = "cmds" THEN file.cmds[TaskOf(c)][call[c].i] ELSE file.defers[TaskOf(c)][call[c].i]

HasCommand(c) ==
  \/ call[c].at = "cmds" /\ call[c].i <= Len(file.cmds[TaskOf(c)])
  \/ call[c].at = "defer" /\ call[c].i > 0

\* run_command: a nested task is queued, a shell command asks for a permit.
RunCommand(c) ==
  /\ Moving(c)
  /\ HasCommand(c) /\ call[c].doing = "pick"
  /\ call' = IF Command(c) = Shell
               THEN [call EXCEPT ![c].doing = "permit"]
               ELSE [Spawned({Append(c, Command(c))}) EXCEPT ![c].doing = "call"]
  /\ UNCHANGED <<file, aborted, cell, count, permits, orphans, main, abandoned>>

NextIndex(c) == IF call[c].at = "defer" THEN call[c].i - 1 ELSE call[c].i + 1

\* A command ended with r, which is error e to the task: it goes on, or to its deferred
\* commands with the error; a deferred command only fails the task by a denial.
Return(c, r, e) ==
  IF call[c].at = "cmds" /\ r # "ok" /\ ~(r = "exit" /\ TaskOf(c) \in file.lenient)
    THEN [call EXCEPT ![c].at = "defer", ![c].i = Len(file.defers[TaskOf(c)]),
                      ![c].doing = "pick", ![c].err = e]
    ELSE [call EXCEPT ![c].i = NextIndex(c), ![c].doing = "pick",
                      ![c].err = IF call[c].at = "defer" /\ r = "denied" /\ @ = "ok" THEN e ELSE @]

\* run_command: the command's own `if` is not met, or the sandbox denies it something.
\* It runs without a permit.
SkipCommand(c) ==
  /\ Moving(c)
  /\ HasCommand(c) /\ call[c].doing = "pick"
  /\ TaskOf(c) \in file.conditional
  /\ \E r \in {"ok"} \cup (IF TaskOf(c) \in file.sandboxed THEN {"denied"} ELSE {}) :
       call' = Return(c, r, r)
  /\ UNCHANGED <<file, aborted, cell, count, permits, orphans, main, abandoned>>

\* ConcurrencyLimiter::acquire
Acquire(c) ==
  /\ Moving(c)
  /\ call[c].doing = "permit"
  /\ permits > 0
  /\ permits' = permits - 1
  /\ call' = [call EXCEPT ![c].doing = "shell"]
  /\ UNCHANGED <<file, aborted, cell, count, orphans, main, abandoned>>

\* The command ends and the permit is dropped.
ShellEnds(c) ==
  /\ Moving(c)
  /\ call[c].doing = "shell"
  /\ permits' = permits + 1
  /\ \E r \in {"ok", "exit"} \cup (IF TaskOf(c) \in file.sandboxed THEN {"denied"} ELSE {}) :
       call' = Return(c, r, r)
  /\ UNCHANGED <<file, aborted, cell, count, orphans, main, abandoned>>

\* QueuedTask::join of a setup task or of a nested one.
CallEnds(c) ==
  LET called == IF call[c].at = "setup" THEN file.setup[TaskOf(c)][call[c].i] ELSE Command(c)
      k == Append(c, called)
      r == Result(k)
  IN
  /\ Moving(c)
  /\ call[c].doing = "call"
  /\ ~Live(k)
  /\ IF call[c].at = "setup" /\ r # "ok"
       THEN /\ call' = Finished(c, Wrapped(r))
            /\ cell' = FinishedCell(c, Wrapped(r))
       ELSE /\ call' = Return(c, r, Wrapped(r))
            /\ UNCHANGED cell
  /\ UNCHANGED <<file, aborted, count, permits, orphans, main, abandoned>>

\* The last command is done: the deferred ones follow ...
EndCommands(c) ==
  /\ Moving(c)
  /\ call[c].at = "cmds" /\ ~HasCommand(c)
  /\ call' = [call EXCEPT ![c].at = "defer", ![c].i = Len(file.defers[TaskOf(c)])]
  /\ UNCHANGED <<file, aborted, cell, count, permits, orphans, main, abandoned>>

\* ... and then the task is done.
EndDeferred(c) ==
  /\ Moving(c)
  /\ call[c].at = "defer" /\ ~HasCommand(c)
  /\ call' = Finished(c, call[c].err)
  /\ cell' = FinishedCell(c, call[c].err)
  /\ UNCHANGED <<file, aborted, count, permits, orphans, main, abandoned>>

-----------------------------------------------------------------------------
(* Cancellation                                                            *)

\* The mutant of Dropped: the cell keeps waiting for the call that is gone.
Dropped_KeepsCell(c) == cell

\* The cells after c's future is dropped: one it was initializing is empty again.
Dropped(c) == [t \in Tasks |->
                 IF cell[t].by = c /\ cell[t].res = "none" THEN [cell[t] EXCEPT !.by = NoCall]
                 ELSE cell[t]]

\* An aborted future is dropped: its handles abort the calls it waits for, its permit
\* and its cell are free, its command runs on.
Drop(c) ==
  /\ c \in aborted
  /\ Live(c)
  /\ call' = [call EXCEPT ![c].at = "gone"]
  /\ aborted' = aborted \cup Pending(c)
  /\ cell' = Dropped(c)
  /\ permits' = IF call[c].doing = "shell" THEN permits + 1 ELSE permits
  /\ orphans' = IF call[c].doing = "shell" THEN orphans \cup {c} ELSE orphans
  /\ UNCHANGED <<file, count, main, abandoned>>

\* A command left running ends by itself.
OrphanEnds(c) ==
  /\ c \in orphans
  /\ orphans' = orphans \ {c}
  /\ UNCHANGED <<file, call, aborted, cell, count, permits, main, abandoned>>

-----------------------------------------------------------------------------
(* Executor::run                                                           *)

Roots == {<<r>> : r \in Range(file.roots)} \cap DOMAIN call

\* run_calls: the next task of the command line, or with --parallel all of them.
StartRoot ==
  /\ main.at = "run"
  /\ main.i <= Len(file.roots)
  /\ call' = Spawned(IF file.parallel THEN {<<r>> : r \in Range(file.roots)}
                     ELSE {<<file.roots[main.i]>>})
  /\ main' = [main EXCEPT !.at = "wait", !.i = IF file.parallel THEN Len(file.roots) + 1 ELSE @ + 1]
  /\ UNCHANGED <<file, aborted, cell, count, permits, orphans, abandoned>>

\* run_parallel joins the roots as run_deps does its deps, failing fast with the flag.
FailFastRoots ==
  /\ main.at = "wait"
  /\ file.parallel /\ file.fast
  /\ \E k \in Roots : Live(k)
  /\ \E k \in Broken(Roots) : main' = [main EXCEPT !.at = "failing", !.err = Result(k)]
  /\ aborted' = aborted \cup {k \in Roots : Live(k)}
  /\ abandoned' = TRUE
  /\ UNCHANGED <<file, call, cell, count, permits, orphans>>

\* What was started has ended: the first error, if any, ends the run.
EndRoot ==
  /\ main.at \in {"wait", "failing"}
  /\ \A k \in Roots : ~Live(k)
  /\ \/ /\ main.at = "wait" /\ Broken(Roots) = {}
        /\ main' = [main EXCEPT !.at = IF main.i <= Len(file.roots) THEN "run" ELSE "drain"]
     \/ /\ main.at = "wait"
        /\ \E k \in Broken(Roots) : main' = [main EXCEPT !.at = "drain", !.err = Result(k)]
     \/ /\ main.at = "failing"
        /\ main' = [main EXCEPT !.at = "drain"]
  /\ UNCHANGED <<file, call, aborted, cell, count, permits, orphans, abandoned>>

LiveCalls == {c \in DOMAIN call : Live(c)}

\* drain_queue aborts whatever is still queued ...
Drain ==
  /\ main.at = "drain"
  /\ main' = [main EXCEPT !.at = "draining"]
  /\ aborted' = aborted \cup LiveCalls
  /\ abandoned' = (abandoned \/ LiveCalls # {})
  /\ UNCHANGED <<file, call, cell, count, permits, orphans>>

\* stop_commands: the commands it may leave running.
Survivors ==
  CASE file.sweep = "whole" -> {{}}
    [] file.sweep = "part"  -> SUBSET orphans
    [] file.sweep = "none"  -> {orphans}

\* ... waits for it, and stops what it can of the commands a failing run left behind.
Drained ==
  /\ main.at = "draining"
  /\ LiveCalls = {}
  /\ main' = [main EXCEPT !.at = "done"]
  /\ orphans' \in IF abandoned /\ main.err # "ok" THEN Survivors ELSE {orphans}
  /\ abandoned' = FALSE
  /\ UNCHANGED <<file, call, aborted, cell, count, permits>>

CallStep(c) ==
  \/ Enter(c) \/ Claim(c) \/ CallSetup(c) \/ Body(c) \/ JoinDeps(c) \/ FailFast(c) \/ FailedFast(c)
  \/ RunCommand(c) \/ SkipCommand(c) \/ Acquire(c) \/ ShellEnds(c) \/ CallEnds(c) \/ EndCommands(c)
  \/ EndDeferred(c) \/ Drop(c) \/ OrphanEnds(c)

Next ==
  \/ StartRoot \/ FailFastRoots \/ EndRoot \/ Drain \/ Drained
  \/ \E c \in DOMAIN call : CallStep(c)

Spec == Init /\ [][Next]_vars

\* The runtime polls what is ready, and commands end.
FairSpec == Spec /\ WF_vars(Next)

-----------------------------------------------------------------------------
(* Properties                                                              *)

\* Calls that wait for the cells of one another's callers: run_task_on looks for a task
\* among the ancestors of a call only, not behind the cells they wait for.
Entangled ==
  \E W \in SUBSET {c \in LiveCalls : call[c].at = "wait"} \ {{}} :
    \A c \in W : \E k \in W : cell[TaskOf(c)].by # NoCall /\ IsPrefix(cell[TaskOf(c)].by, k)

\* The run ends, with or without an error: no cycle of dependencies, permit or cancelled
\* call keeps it waiting, and a cell does only where calls that run side by side close a
\* cycle through the cells of tasks that run once (run_task_on's cycle check,
\* start_execution, drain_queue).
Terminates == <>(main.at = "done" \/ Entangled)

\* When the run returns no call is live, and a failing one has left no command running
\* but where the sweep is off, declines or falls short (drain_queue's contract,
\* report_swept's exceptions).
NothingLeft ==
  main.at = "done" =>
    LiveCalls = {} /\ (main.err # "ok" /\ file.sweep = "whole" => orphans = {})

\* Every permit is free or with a call whose command runs, cancelled ones never keep
\* theirs (the permit dropped in exec_shell, also with its future).
PermitsKept ==
  permits + Cardinality({c \in LiveCalls : call[c].doing = "shell"}) = file.limit

\* The calls that invoked a task, and those of them that are at it: a call that is gone
\* is while its command runs on.
Invoked(t) == {c \in DOMAIN call : TaskOf(c) = t /\ call[c].own}
Invoking(t) == {c \in Invoked(t) : Live(c) \/ c \in orphans}

\* A task with run: once or when_changed is invoked again only where the call before was
\* cancelled, which leaves its cell empty (start_execution).
InvokedOnce ==
  \A t \in file.once : \A c, k \in Invoked(t) :
    c # k => call[c].at = "gone" \/ call[k].at = "gone"

\* Two invocations of it overlap only while the run knows that it abandoned a call,
\* whose command it could not stop and will sweep for (TaskQueue.abandoned).
OverlapKnown ==
  main.at # "done" /\ ~abandoned => \A t \in file.once : Cardinality(Invoking(t)) <= 1

\* No command of a task runs before each of its deps has been executed to a good end,
\* by this call's own or by another the cell was shared with (run_deps before commands).
DepsRan ==
  \A c \in DOMAIN call : call[c].at \in {"cmds", "defer"} =>
    \A d \in file.deps[TaskOf(c)] \ file.skipped :
      \E k \in DOMAIN call :
        TaskOf(k) = d /\ call[k].own /\ call[k].at = "ended" /\ call[k].err = "ok"

\* Was this call, or one above it, made by a deferred command or by a task that
\* ignores errors?
Excused(c) ==
  \E n \in 1..(Len(c) - 1) :
    c[n + 1] \in Range(file.defers[c[n]]) \/ c[n] \in file.lenient

\* A run that returns no error has ended every call without one, those excepted whose
\* errors the Taskfile says to ignore (join_queued and run_command lose no error).
SuccessIsWhole ==
  main.at = "done" /\ main.err = "ok" =>
    \A c \in DOMAIN call :
      Excused(c) \/ (call[c].at = "ended" /\ call[c].err = "ok")

\* A run that failed because a command did says so by that command's status: its error
\* is never a text without one (task_exit_code, --exit-code).
StatusPassed == main.at = "done" => main.err # "text"

\* Whatever ends early, by fail-fast, a failed dep or the call limit, leaves neither
\* calls nor permits behind, nor commands that the sweep may stop (join_queued,
\* drain_queue).
LeftClean == TypeOK /\ NothingLeft /\ PermitsKept

\* Of the callers of a `run: once` task one invokes it; a second does, possibly beside
\* the first one's command, only after a cancellation (start_execution, join_queued).
OnceOnly == InvokedOnce /\ OverlapKnown

\* Commands start after every dep is done, and a run that reports success has
\* run all it was asked to (run_deps, run_command).
WholeSuccess == DepsRan /\ SuccessIsWhole

-----------------------------------------------------------------------------
(* The inductive invariant behind LeftClean, OnceOnly and WholeSuccess.    *)
(* f is a Taskfile, t a task, r the state of a call of it, x a task it may *)
(* call.                                                                   *)

Executing == {"setup", "deps", "failing", "cmds", "defer"}

CallStates ==
  [at: {"queued", "wait", "ended", "gone"} \cup Executing, i: Nat,
   doing: {"pick", "permit", "shell", "call"}, err: Errors \cup {"ok"}, own: BOOLEAN]

MainStates ==
  [at: {"run", "wait", "failing", "drain", "draining", "done"}, i: Nat \ {0},
   err: Errors \cup {"ok"}]

Alive(r) == r.at \notin {"ended", "gone"}
Failed(r) == r.at = "gone" \/ (r.at = "ended" /\ r.err # "ok")

\* Where in its lists a call is, and that it waits for a permit, a command or a call only
\* there.
Placed(f, t, r) ==
  /\ r.at \in {"queued", "wait"} => ~r.own
  /\ r.at = "wait" => t \in f.once
  /\ r.at \in Executing => r.own
  /\ r.at \in {"queued", "wait", "deps", "failing"} => r.doing = "pick"
  /\ r.at = "failing" => r.err # "ok"
  /\ r.at \in {"queued", "wait", "setup", "deps", "cmds"} => r.err = "ok"
  /\ r.at \in {"queued", "wait"} => r.i = 1
  /\ r.at = "setup" => /\ r.doing \in {"pick", "call"} /\ r.i \in 1..(Len(f.setup[t]) + 1)
                       /\ r.doing = "call" => r.i <= Len(f.setup[t])
  /\ r.at = "cmds" => /\ r.i \in 1..(Len(f.cmds[t]) + 1)
                      /\ r.doing # "pick" => r.i <= Len(f.cmds[t])
                      /\ r.doing = "call" => f.cmds[t][r.i] # Shell
  /\ r.at = "defer" => /\ r.i \in 0..Len(f.defers[t])
                       /\ r.doing # "pick" => r.i > 0
                       /\ r.doing = "call" => f.defers[t][r.i] # Shell

\* The calls not made yet.
Ahead(f, t, r) ==
  {x \in Tasks :
    \/ r.at \in {"queued", "wait"}
    \/ r.at = "setup" /\ \E j \in DOMAIN f.setup[t] :
         x = f.setup[t][j] /\ (j > r.i \/ (j = r.i /\ r.doing = "pick"))
    \/ r.at = "setup" /\ x \in f.deps[t]
    \/ r.at \in {"setup", "deps", "failing"} /\ x \in Range(f.cmds[t])
    \/ r.at = "cmds" /\ \E j \in DOMAIN f.cmds[t] :
         x = f.cmds[t][j] /\ (j > r.i \/ (j = r.i /\ r.doing # "call"))
    \/ r.at \in {"setup", "deps", "failing", "cmds"} /\ x \in Range(f.defers[t])
    \/ r.at = "defer" /\ \E j \in DOMAIN f.defers[t] :
         x = f.defers[t][j] /\ (j < r.i \/ (j = r.i /\ r.doing # "call"))}

\* The call being waited for.
Calls(f, t, r, x) ==
  /\ r.doing = "call"
  /\ \/ r.at = "setup" /\ x = f.setup[t][r.i]
     \/ r.at = "cmds" /\ x = f.cmds[t][r.i]
     \/ r.at = "defer" /\ x = f.defers[t][r.i]

Awaits(f, t, r, x) == Calls(f, t, r, x) \/ (r.at = "deps" /\ x \in f.deps[t])

\* A call outlives only a caller that is gone; else its caller waits for it.
MayRun(f, t, r, x) == Awaits(f, t, r, x) \/ r.at = "gone" \/ (r.at = "failing" /\ x \in f.deps[t])

\* The error of a call that failed has not been looked at yet, or is its caller's.
Heeds(f, t, r, x) == MayRun(f, t, r, x) \/ Failed(r) \/ (r.at = "defer" /\ r.err # "ok")

\* The Taskfile says to ignore the errors of t's call of x.
Ignored(f, t, x) == x \in Range(f.defers[t]) \/ t \in f.lenient

\* A caller in state r and its call of x, in state s.
Linked(f, t, r, x, s) ==
  /\ x \notin Ahead(f, t, r)
  /\ Alive(s) => MayRun(f, t, r, x)
  /\ Failed(s) /\ ~Ignored(f, t, x) => Heeds(f, t, r, x)

\* A call, its caller and the calls it made, among calls m.
InTree(f, m, c) ==
  /\ c \in Seq(Tasks) \ {<<>>} /\ m[c] \in CallStates /\ Placed(f, TaskOf(c), m[c])
  /\ Len(c) > 1 => Front(c) \in DOMAIN m
  /\ \A x \in Tasks :
       /\ Awaits(f, TaskOf(c), m[c], x) => Append(c, x) \in DOMAIN m
       /\ Append(c, x) \in DOMAIN m => Linked(f, TaskOf(c), m[c], x, m[Append(c, x)])

Tree == \A c \in DOMAIN call : InTree(file, call, c)

\* The cell of a task that runs once tells who runs it or ran it.
Cells ==
  /\ cell \in [Tasks -> [by: DOMAIN call \cup {NoCall}, res: Errors \cup {"ok", "none"}]]
  /\ \A c \in DOMAIN call : TaskOf(c) \in file.once /\ call[c].own /\ call[c].at # "gone" =>
       cell[TaskOf(c)].by = c /\ (Live(c) <=> cell[TaskOf(c)].res = "none")
  /\ \A t \in Tasks : t \in file.once /\ cell[t].res # "none" =>
       \E c \in DOMAIN call : /\ TaskOf(c) = t /\ call[c].own /\ call[c].at = "ended"
                              /\ cell[t].res = "ok" => call[c].err = "ok"

\* A call that ended well executed its task, or shared what another call did.
Ran(t) == \E k \in DOMAIN call :
            TaskOf(k) = t /\ call[k].own /\ call[k].at = "ended" /\ call[k].err = "ok"
EndedWell ==
  \A c \in DOMAIN call :
    call[c].at = "ended" /\ call[c].err = "ok" => TaskOf(c) \in file.skipped \/ Ran(TaskOf(c))

Permits ==
  LET holders == {c \in LiveCalls : call[c].doing = "shell"} IN
  /\ IsFiniteSet(holders)
  /\ permits \in Nat /\ permits + Cardinality(holders) = file.limit

\* Executor::run and the calls of the command line.
Running ==
  /\ main \in MainStates
  /\ \A j \in DOMAIN file.roots : j >= main.i => <<file.roots[j]>> \notin DOMAIN call
  /\ file.parallel => main.i = 1 \/ main.i > Len(file.roots)
  /\ \A c \in DOMAIN call : Len(c) = 1 =>
       /\ c \in Roots
       /\ main.at \in {"run", "drain", "draining", "done"} => ~Live(c)
       /\ main.at = "run" => ~Failed(call[c])
       /\ main.at \in {"drain", "draining", "done"} /\ Failed(call[c]) => main.err # "ok"
  /\ main.at = "failing" => main.err # "ok"

\* Whatever is cancelled is remembered until the run has drained its queue.
Cancelled ==
  /\ aborted \subseteq DOMAIN call /\ orphans \subseteq DOMAIN call
  /\ main.at # "done" /\ (aborted # {} \/ orphans # {}) => abandoned
  /\ main.at \in {"draining", "done"} => LiveCalls \subseteq aborted
  /\ NothingLeft

ExecutorInd ==
  file \in Files /\ Tree /\ Cells /\ EndedWell /\ DepsRan /\ Permits /\ Running /\ Cancelled
=============================================================================
