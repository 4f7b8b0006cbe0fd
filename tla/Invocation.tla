----------------------------- MODULE Invocation -----------------------------
(***************************************************************************)
(* Invocations of `task` in one project, one after the other: the flags    *)
(* and the order they are honoured in, Executor::setup, the variables of   *)
(* the command line, --list, --status, --import-cache, --export-cache and  *)
(* the run, with their exit codes; between them sources are edited, a      *)
(* fresh checkout replaces the tree, and an invocation may be killed.      *)
(*                                                                         *)
(* What one task's run does inside (locks, caches, drift) is TaskRun;      *)
(* here a task is built in one step.  The project has two tasks over the   *)
(* source file a variable selects: "gen" declares its output, "plain" has  *)
(* an effect no generates names.                                           *)
(***************************************************************************)
EXTENDS Naturals, Sequences

CONSTANTS Invocations,\* what is tried: [flags, select, faults], the flags given, the
                      \* command-line variable or None, what is wrong in the project
          Edited,     \* the source files that are edited
          Archives,   \* what the archive may be before anything is exported
          MaxEvents   \* edits, checkouts, kills and undos that fail in a behaviour

None == "none"
Gone == <<>>                                 \* no such file
Tasks == <<"gen", "plain">>
Files == {"a", "b"}
Kept == {"out", "sum_gen", "sum_plain"}      \* what export and import carry
Scratch == "tmp"                             \* the sandbox scratch directory
Broken == [is |-> "broken", has |-> <<>>]
Sum(t) == IF t = "gen" THEN "sum_gen" ELSE "sum_plain"

VARIABLES src,       \* the content of each source file
          tree,      \* Kept -> a content, or Gone
          zip,       \* the archive: [is : absent, broken or whole, has : path -> content]
          effect,    \* ghost: the source contents plain's effect stands for
          undo,      \* an import's journal: path -> what was there and what it wrote
          halted,    \* ghost: what plain's checksum stood for when an import was killed
          at,        \* where the running invocation is; "idle" between two
          flags,     \* its flags
          select,    \* its command-line variable
          faults,    \* what is wrong with the project during it
          view,      \* the variables its compiler holds: [vars, env]
          todo,      \* the tasks it has still to visit
          picked,    \* the files an export collected
          touched,   \* whether it ran a command or changed the tree
          failed,    \* whether something it was asked for went wrong
          warned,    \* whether a checksum clean-up failed here, and was reported
          code,      \* the exit code of the last invocation
          told,      \* what --status last said: {} or {[sel, now]}
          acted,     \* ghost: the last task's fate in a run, or {}
          events

project == <<src, tree, zip, effect, undo, halted>>
process == <<at, flags, select, faults, view, todo, picked,
             touched, failed, warned, code, acted>>
vars == <<project, process, told, events>>

Has(f) == f \in flags
Event == events < MaxEvents /\ events' = events + 1

----------------------------------------------------------------------------
(* Fingerprints.                                                           *)

\* The variable a task's sources are selected by: a Taskfile or command-line
\* variable, else the environment (dotenv files included), else a default.
Sel(v) == IF v.vars # None THEN v.vars ELSE IF v.env # None THEN v.env ELSE "a"

Fresh(t, v) == <<Sel(v), src[Sel(v)], IF t = "gen" THEN tree["out"] ELSE Gone>>
UpToDate(t, v) == tree[Sum(t)] = Fresh(t, v)

\* What the checksum of a task was recorded for.
Made(record) == <<record[1], record[2]>>

----------------------------------------------------------------------------
(* Flags.                                                                  *)

Valid ==
    /\ ~(Has("global") /\ Has("dir"))
    /\ ~(Has("list") /\ Has("list_all"))
    /\ Has("json") => (Has("list") \/ Has("list_all") \/ Has("status"))
    /\ Has("check") => Has("update")
    /\ Has("nested") => Has("json")

\* Handled before the engine is built, in this order.
Early == <<"version", "help", "init", "completion", "schema", "migrate", "update">>
EarlyOne == {e \in 1 .. Len(Early) : Has(Early[e]) /\ \A d \in 1 .. e - 1 : ~Has(Early[d])}

\* What the engine does, the first that applies.
Mode ==
    IF Has("list") \/ Has("list_all") \/ (Has("json") /\ ~Has("status")) THEN "list"
    ELSE IF Has("status") THEN "status"
    ELSE IF Has("import") THEN "import"
    ELSE IF Has("export") THEN "export" ELSE "run"

\* Executor::setup reports the first fault in the order of its steps.  A
\* Taskfile below v3 has its dotenv files left unread.
SetupFaults == <<"root", "read", "merge", "sandbox", "output", "dotenv", "old", "new">>
Codes == <<100, 100, 107, 1, 1, 100, 105, 105>>
Hit(f) == f \in faults /\ (f = "dotenv" => "old" \notin faults)
FirstFault == {f \in 1 .. Len(SetupFaults) :
                 Hit(SetupFaults[f]) /\ \A g \in 1 .. f - 1 : ~Hit(SetupFaults[g])}

\* clamp_code.
Clamp(n) == IF n > 255 THEN 255 ELSE n

----------------------------------------------------------------------------
Init ==
    /\ src = [f \in Files |-> 0]
    /\ tree = [f \in Kept |-> Gone]
    /\ zip \in Archives
    /\ effect = {} /\ undo = <<>> /\ halted = {}
    /\ warned = FALSE /\ told = {} /\ events = 0
    /\ at = "idle" /\ flags = {} /\ select = None /\ faults = {}
    /\ view = [vars |-> None, env |-> None]
    /\ todo = <<>> /\ picked = {}
    /\ touched = FALSE /\ failed = FALSE /\ code = 0 /\ acted = {}

Invoke ==
    /\ at = "idle"
    /\ \E i \in Invocations :
        flags' = i.flags /\ select' = i.select /\ faults' = i.faults
    /\ at' = "flags"
    /\ UNCHANGED <<project, view, todo, picked, touched, failed, warned, code,
                   acted, told, events>>

\* The process is gone; the next one starts from nothing.
Return ==
    /\ at = "exited"
    /\ at' = "idle" /\ flags' = {} /\ select' = None /\ faults' = {}
    /\ view' = [vars |-> None, env |-> None]
    /\ todo' = <<>> /\ picked' = {}
    /\ touched' = FALSE /\ failed' = FALSE /\ code' = 0 /\ acted' = {}
    /\ UNCHANGED <<project, warned, told, events>>

Exit(n) == at' = "exited" /\ code' = n

\* validate, then whatever needs no engine.  --update --check says 1 for "a
\* newer release", 2 for a failure, and so does a failed --update.
HandleFlags ==
    /\ at = "flags"
    /\ IF ~Valid
       THEN Exit(1) /\ failed' = TRUE /\ UNCHANGED touched
       ELSE IF EarlyOne = {}
            THEN at' = "setup" /\ UNCHANGED <<code, failed, touched>>
            ELSE \E e \in {Early[i] : i \in EarlyOne}, went \in {"well", "newer", "wrong"} :
                    /\ went = "newer" => e = "update" /\ Has("check")
                    /\ went = "wrong" => e \in {"init", "completion", "migrate", "update"}
                    /\ failed' = (went = "wrong")
                    /\ touched' = (went = "well" /\
                                   (e = "init" \/ (e = "migrate" /\ Has("write"))
                                    \/ (e = "update" /\ ~Has("check"))))
                    /\ Exit(IF went = "well" THEN 0
                            ELSE IF went = "newer" THEN 1
                            ELSE IF e = "update" THEN 2
                            ELSE IF e = "init" THEN 101 ELSE 1)
    /\ UNCHANGED <<project, flags, select, faults, view, todo, picked,
                   warned, acted, told, events>>

\* The compiler is built from the Taskfile, then dotenv files are read into
\* the Taskfile's environment, which that compiler does not see.
Setup ==
    /\ at = "setup"
    /\ IF FirstFault # {}
       THEN (\E f \in FirstFault : Exit(Codes[f])) /\ failed' = TRUE /\ UNCHANGED view
       ELSE /\ view' = [vars |-> None, env |-> None]
            /\ at' = "ready"
            /\ UNCHANGED <<code, failed>>
    /\ UNCHANGED <<project, flags, select, faults, todo, picked,
                   touched, warned, acted, told, events>>

\* --list names the tasks (1 when there are none to name); with --json each
\* is fingerprinted with the compiler of Setup.
List ==
    /\ at = "ready" /\ Mode = "list"
    /\ \E n \in {0, 1} :
        /\ n = 1 => ~Has("json") /\ ~Has("silent")
        /\ Exit(n) /\ failed' = (n = 1)
    /\ UNCHANGED <<project, flags, select, faults, view, todo, picked,
                   touched, warned, acted, told, events>>

DotEnv == IF "old" \in faults THEN None ELSE "b"

\* The compiler merge_cli_vars rebuilds: command-line variables over the
\* Taskfile's, and the environment with what dotenv files brought.
MergedView == [vars |-> select, env |-> DotEnv]

MergeCliVars ==
    /\ at = "ready" /\ Mode # "list"
    /\ view' = MergedView
    /\ at' = Mode
    /\ todo' = Tasks
    /\ UNCHANGED <<project, flags, select, faults, picked, touched, failed,
                   warned, code, acted, told, events>>

\* --status compiles (which evaluates sh: variables) and fingerprints the tasks, the
\* tree as it is with no setup run, and runs none of them.  The first that cannot be
\* compiled or read ends it, with nothing said.
Status ==
    /\ at = "status"
    /\ \/ /\ told' = {[now |-> [t \in {"gen", "plain"} |-> UpToDate(t, view)], sel |-> select]}
          /\ Exit(0)
          /\ UNCHANGED failed
       \/ /\ Exit(1)
          /\ failed' = TRUE
          /\ UNCHANGED told
    /\ UNCHANGED <<project, flags, select, faults, view, todo, picked,
                   touched, warned, acted, events>>

----------------------------------------------------------------------------
(* The run.                                                                *)

\* The setup tasks of a task about to run, or of every call before an export's
\* collection and after an import: they may write a file that is a source of others.
\* One that fails, or a task that cannot be compiled, ends the invocation.
RunSetups ==
    /\ at \in {"run", "export", "setups"} /\ (at = "run" => todo # <<>>)
    /\ touched' = TRUE
    /\ \/ /\ \/ UNCHANGED <<src, told, events>>
             \/ (\E f \in Edited : src' = [src EXCEPT ![f] = 1 - @]) /\ told' = {} /\ Event
          /\ at' = IF at = "run" THEN "check" ELSE IF at = "export" THEN "collect" ELSE "prepared"
          /\ UNCHANGED <<code, failed>>
       \/ /\ \E n \in {1, 201} : Exit(n)
          /\ failed' = TRUE
          /\ UNCHANGED <<src, told, events>>
    /\ UNCHANGED <<tree, zip, effect, undo, halted, flags, select, faults, view, todo, picked,
                   warned, acted>>

Build(t, v) ==
    LET out == <<Sel(v), src[Sel(v)]>>
        record == <<Sel(v), src[Sel(v)], IF t = "gen" THEN out ELSE Gone>>
    IN /\ tree' = [tree EXCEPT !["out"] = IF t = "gen" THEN out ELSE @, ![Sum(t)] = record]
       /\ effect' = IF t = "plain" THEN effect \cup {<<Sel(v), src[Sel(v)]>>} ELSE effect

RunTask ==
    /\ at = "check" /\ todo # <<>>
    /\ LET t == Head(todo) IN
       /\ acted' = {[t |-> t, skipped |-> UpToDate(t, view), sel |-> select,
                    done |-> t = "gen" \/ <<Sel(view), src[Sel(view)]>> \in effect \cup halted]}
       /\ \/ /\ UpToDate(t, view)
             /\ todo' = Tail(todo) /\ at' = "run"
             /\ UNCHANGED <<tree, effect, code, failed, told>>
          \/ /\ ~UpToDate(t, view)
             /\ Build(t, view)
             /\ todo' = Tail(todo) /\ at' = "run" /\ told' = {}
             /\ UNCHANGED <<code, failed>>
          \/ \* a command fails: its checksum is withdrawn
             /\ ~UpToDate(t, view)
             /\ tree' = [tree EXCEPT ![Sum(t)] = Gone]
             /\ told' = {} /\ failed' = TRUE
             /\ \E n \in {1, 3} : Exit(Clamp(IF Has("exit_code") THEN n ELSE 201))
             /\ UNCHANGED <<effect, todo>>
    /\ UNCHANGED <<src, zip, undo, halted, flags, select, faults, view, picked, touched,
                   warned, events>>

RunEnds ==
    /\ at = "prepared" \/ (at = "run" /\ todo = <<>>)
    /\ Exit(0)
    /\ UNCHANGED <<project, flags, select, faults, view, todo, picked,
                   touched, failed, warned, acted, told, events>>

----------------------------------------------------------------------------
(* Export.                                                                 *)

\* The up-to-date tasks' files are collected; a task that cannot be compiled or read
\* ends the export.
Collected(v) == UNION {IF UpToDate(t, v)
                       THEN {Sum(t)} \cup (IF t = "gen" THEN {"out"} ELSE {}) ELSE {}
                       : t \in {"gen", "plain"}}

Collect ==
    /\ at = "collect"
    /\ \/ /\ picked' = Collected(view)
          /\ IF Collected(view) = {} THEN Exit(0) ELSE at' = "archive" /\ UNCHANGED code
          /\ UNCHANGED failed
       \/ /\ Exit(1) /\ failed' = TRUE
          /\ UNCHANGED picked
    /\ UNCHANGED <<project, flags, select, faults, view, todo,
                   touched, warned, acted, told, events>>

\* archive_matches leaves an identical archive alone; write_archive reads the
\* files as they are by then, and stops at one that is gone.
Archived == [is |-> "whole", has |-> [f \in picked |-> tree[f]]]
WriteArchive ==
    /\ at = "archive"
    /\ IF \E f \in picked : tree[f] = Gone
       THEN zip' = Broken /\ Exit(1) /\ failed' = TRUE
       ELSE zip' = Archived /\ Exit(0) /\ UNCHANGED failed
    /\ UNCHANGED <<src, tree, effect, undo, halted, flags, select, faults, view, todo,
                   picked, touched, warned, acted, told, events>>

----------------------------------------------------------------------------
(* Import.                                                                 *)

Opens == zip.is = "whole"
Accepted == Opens => Scratch \notin DOMAIN zip.has

\* recover_restores: what an import cut short moved aside goes back where its place is
\* free or still holds what that import wrote, but for what cannot be put back; files
\* that import created stay.  Either way its journal is gone.
Recoverable == {f \in DOMAIN undo : undo[f].orig # Gone /\ tree[f] \in {Gone, undo[f].wrote}}

\* Then every entry is checked before one is written.
ImportBegins ==
    /\ at = "import"
    /\ \E back \in SUBSET Recoverable :
        tree' = [f \in Kept |-> IF f \in back THEN undo[f].orig ELSE tree[f]]
    /\ at' = IF Opens /\ Accepted THEN "extract" ELSE "discard"
    /\ undo' = <<>> /\ told' = {}
    /\ UNCHANGED <<src, zip, effect, halted, flags, select, faults, view, todo, picked, touched,
                   failed, warned, code, acted, events>>

\* One entry after the other, in any order.
Extract ==
    /\ at = "extract"
    /\ \E f \in DOMAIN zip.has \ DOMAIN undo :
        /\ tree' = [tree EXCEPT ![f] = zip.has[f]]
        /\ undo' = [g \in DOMAIN undo \cup {f} |->
                      IF g = f THEN [orig |-> tree[f], wrote |-> zip.has[f]] ELSE undo[g]]
    /\ touched' = TRUE /\ told' = {}
    /\ UNCHANGED <<src, zip, effect, halted, at, flags, select, faults, view, todo, picked,
                   failed, warned, code, acted, events>>

\* What a journal is good for when its process is gone: the originals it moved aside.
Journal(paths) == [f \in {g \in paths : undo[g].orig # Gone} |-> undo[f]]

\* An entry cannot be written, or the finished import cannot be marked kept: what was
\* written is removed and the originals go back.  Either may fail, here for one file,
\* then the journal stays; the checksums go next.
TakeBack ==
    /\ at = "extract"
    /\ \/ /\ tree' = [f \in Kept |-> IF f \in DOMAIN undo THEN undo[f].orig ELSE tree[f]]
          /\ undo' = <<>>
          /\ UNCHANGED events
       \/ /\ Event
          /\ \E bad \in DOMAIN undo :
            /\ \E rest \in {Gone, undo[bad].wrote} :
                 tree' = [f \in Kept |-> IF f = bad THEN rest
                                        ELSE IF f \in DOMAIN undo THEN undo[f].orig ELSE tree[f]]
            /\ undo' = Journal({bad})
    /\ at' = "discard" /\ told' = {}
    /\ UNCHANGED <<src, zip, effect, halted, flags, select, faults, view, todo,
                   picked, touched, failed, warned, code, acted>>

\* ChecksumCleanup removes the checksum directory, whoever's checksums it holds,
\* and with it the originals an import had moved aside there.
Cleared == [tree EXCEPT !["sum_gen"] = Gone, !["sum_plain"] = Gone]
Outputs == Journal(DOMAIN undo \cap {"out"})

\* The mutant of DiscardChecksums: a refused removal still ends in success.
DiscardChecksums_Swallowed ==
    /\ at = "discard"
    /\ tree' = Cleared /\ undo' = Outputs
    /\ Exit(0) /\ failed' = TRUE /\ told' = {}
    /\ UNCHANGED <<src, zip, effect, halted, flags, select, faults, view, todo,
                   picked, touched, warned, acted, events>>

\* ChecksumCleanup::discard may be refused (a link where a directory was):
\* then the stale state is reported.
DiscardChecksums ==
    /\ at = "discard"
    /\ \/ /\ tree' = Cleared /\ undo' = Outputs
          /\ UNCHANGED warned
       \/ /\ warned' = TRUE /\ UNCHANGED <<tree, undo>>
    /\ Exit(1) /\ failed' = TRUE /\ told' = {}
    /\ UNCHANGED <<src, zip, effect, halted, flags, select, faults, view, todo,
                   picked, touched, acted, events>>

\* The import is kept; what the archive's checksums record was done where it
\* was exported.  Then the setups run.
ImportKept ==
    /\ at = "extract" /\ DOMAIN zip.has \subseteq DOMAIN undo
    /\ effect' = IF "sum_plain" \in DOMAIN zip.has
                 THEN effect \cup {Made(zip.has["sum_plain"])} ELSE effect
    /\ at' = "setups" /\ undo' = <<>>
    /\ UNCHANGED <<src, tree, zip, halted, flags, select, faults, view, todo, picked,
                   touched, failed, warned, code, acted, told, events>>

----------------------------------------------------------------------------
(* Around an invocation.                                                   *)

Edit ==
    /\ at \in {"idle", "check", "archive"}
    /\ Event
    /\ \E f \in Edited : src' = [src EXCEPT ![f] = 1 - @]
    /\ told' = {}
    /\ UNCHANGED <<tree, zip, effect, undo, halted, process>>

\* A fresh checkout on another runner: no outputs, no checksums, no effects.
Checkout ==
    /\ at = "idle" /\ Event
    /\ tree' = [f \in Kept |-> Gone] /\ effect' = {} /\ told' = {}
    /\ undo' = <<>> /\ halted' = {} /\ warned' = FALSE
    /\ UNCHANGED <<src, zip, at, flags, select, faults, view, todo, picked,
                   touched, failed, code, acted>>

\* The process is killed: half an archive may be left, or an import half-way, with
\* its journal and whatever checksums it has brought.
Kill ==
    /\ at \notin {"idle", "exited"} /\ Event
    /\ zip' \in {zip} \cup (IF at = "archive" THEN {Broken} ELSE {})
    /\ halted' = IF at \in {"extract", "discard"} /\ tree["sum_plain"] # Gone
                 THEN halted \cup {Made(tree["sum_plain"])} ELSE halted
    /\ undo' = Journal(DOMAIN undo)
    /\ Exit(137) /\ failed' = TRUE
    /\ UNCHANGED <<src, tree, effect, flags, select, faults, view, todo,
                   picked, touched, warned, acted, told>>

Next ==
    \/ Invoke \/ Return \/ HandleFlags \/ Setup \/ List \/ MergeCliVars \/ Status
    \/ RunSetups \/ RunTask \/ RunEnds \/ Collect \/ WriteArchive
    \/ ImportBegins \/ Extract \/ TakeBack \/ DiscardChecksums \/ ImportKept
    \/ Edit \/ Checkout \/ Kill

Spec == Init /\ [][Next]_vars

----------------------------------------------------------------------------
\* A run does with a task what --status, asked with the same variables and nothing
\* changed since, not by the run's own setups either, said it would: skip it if and
\* only if up to date.
StatusForetells ==
    \A said \in told, did \in acted :
        said.sel = did.sel => (did.skipped <=> said.now[did.t])

\* A run skips "plain" only if its effect for the present sources was made here or came
\* with an import kept whole: an import that fails on the way leaves no task marked up
\* to date, unless the clean-up failed too and said so.  One that is killed leaves what
\* it had brought (halted), and nothing else.
SkippedWasDone == \A did \in acted : did.skipped => (did.done \/ warned)

\* Listing and --status, whatever flags stand beside them, run no task and change
\* nothing; what was asked for and went wrong never exits 0, and an
\* exit code says so only then, but for --update --check's "newer release".
Tells ==
    at = "exited" =>
        /\ (EarlyOne = {} /\ flags \cap {"list", "list_all", "status"} # {}) => ~touched
        /\ failed => code \in 1 .. 255
        /\ ~failed => (code = 0 \/ (code = 1 /\ Has("check")))

----------------------------------------------------------------------------
(* The inductive invariant behind the three.                               *)

Beyond == {"run", "check", "export", "collect", "archive", "import", "extract", "discard",
           "setups", "prepared"}
TypeOK ==
    /\ src \in [Files -> {0, 1}] /\ tree = [f \in Kept |-> tree[f]]
    /\ at \in {"idle", "flags", "setup", "ready", "status", "exited"} \cup Beyond
    /\ todo \in {Tasks, <<"plain">>, <<>>}
    /\ touched \in BOOLEAN /\ failed \in BOOLEAN /\ warned \in BOOLEAN /\ code \in Nat

\* The checksum of plain, and the one an import moved aside, say what was done or
\* what a killed import brought, but while an import is under way or after one whose
\* clean-up failed.
Backed(record) == Made(record) \in effect \cup halted \/ warned
Aside == "sum_plain" \in DOMAIN undo /\ undo["sum_plain"].orig # Gone
Imported ==
    /\ "sum_plain" \in DOMAIN undo /\ "sum_plain" \in DOMAIN zip.has
    /\ tree["sum_plain"] = zip.has["sum_plain"]
SumBacked ==
    /\ tree["sum_plain"] # Gone =>
         Backed(tree["sum_plain"]) \/ (at = "extract" /\ Imported) \/ at = "discard"
    /\ Aside => Backed(undo["sum_plain"].orig)
    /\ at = "extract" /\ "sum_plain" \in DOMAIN undo => Imported

\* One compiler for --status and the run: the command line over the dotenv files.
SameView ==
    /\ at \in {"ready", "status"} \cup Beyond => "old" \notin faults
    /\ at \in {"status", "run", "check"} => view = [vars |-> select, env |-> "b"]

\* What --status said holds as long as it is remembered.
ToldTrue ==
    \A said \in told, t \in {"gen", "plain"} :
        said.now[t] = UpToDate(t, [vars |-> said.sel, env |-> "b"])

\* Who comes as far as to change something was asked to.
Asked == EarlyOne # {} \/ flags \cap {"list", "list_all", "status"} = {}
InOrder ==
    /\ at \in Beyond => Asked
    /\ touched => at \in Beyond \cup {"exited"} /\ Asked
    /\ acted # {} => at \in {"run", "check", "exited"}
    /\ at # "exited" => ~failed /\ code = 0

InvocationInd ==
    /\ TypeOK /\ SumBacked /\ SameView /\ ToldTrue /\ InOrder
    /\ StatusForetells /\ SkippedWasDone /\ Tells
=============================================================================
