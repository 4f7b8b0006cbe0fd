----------------------------- MODULE MCProcess ------------------------------
(***************************************************************************)
(* One Task process and what runs beside it: its hashing threads (Reading), *)
(* the supervisor of sandboxed commands (Supervisor), the commands it must *)
(* stop (Reap), the pipes it drains (Output), the binary it replaces       *)
(* (Update), and such processes one after the other (Invocation).  A       *)
(* behaviour is one of these on a small instance.                          *)
(***************************************************************************)
EXTENDS Naturals, Sequences, FiniteSets

CONSTANTS Parts, \* the components that are started
          Readings, N, Budget, PerThread, Nodes, MaxEdits, Boxed, Ifs, Envs, MaxCalls,
          Procs, Strangers, Hosts, Modes, MaxSignals, Cmds, Programs, Styles, Permits,
          Updates, Current, Releases, FileModes, MaxAsset, MaxCrashes, Invocations, Edited,
          Archives, MaxEvents

VARIABLES part, \* the component of this behaviour
          disk, edits, free, job, thread, env, backend, worker, unenforced, listener,
          sup, seen, out, count, pc, result, layers, before, call, shown, hurt, late, made, proc,
          host, mode, run, sig, sweep, parked, base, hit, reused, slipped, held, exit, style, prog, left,
          wrote, pipe, buf, holders, eof, engine, queue, stash, term, broken, file, dir, upd, first, downs, src, tree, zip, effect,
          at, flags, select, faults, view, todo, undo, picked, touched, failed, warned,
          code, told, acted, events, halted

R == INSTANCE Reading WITH Jobs <- Readings
S == INSTANCE Supervisor WITH Cmds <- Boxed
K == INSTANCE Reap
O == INSTANCE Output
U == INSTANCE Update WITH Modes <- FileModes
V == INSTANCE Invocation

ASSUME ReadingParameters == R!ParametersOK
ASSUME SupervisorParameters == S!ParametersOK
ASSUME ReapParameters == K!ParametersOK
ASSUME UpdateParameters == U!ParametersOK
ASSUME OutputParameters == O!ParametersOK

\* The cases do not depend on the constants they are values of.
OutputCases == INSTANCE Output WITH Programs <- {}, Styles <- {}
InvocationCases == INSTANCE Invocation WITH Invocations <- {}, Archives <- {}

MCNodes == {[kind |-> "file", data |-> 1], [kind |-> "dir"], [kind |-> "gone"]}

MCEnvs == [mode : {"auto", "landlock", "seccomp", "audit"}, abi : BOOLEAN, probe : BOOLEAN,
           busy : BOOLEAN, continue : BOOLEAN]
  \union [mode : {"off"}, abi : {TRUE}, probe : {TRUE}, busy : {FALSE}, continue : {TRUE}]

PlainHost == [denied |-> {}, hidden |-> {}, adopts |-> "no", noReap |-> FALSE, maxWalk |-> 3]
MCHosts == {PlainHost,
            [PlainHost EXCEPT !.denied = {"p1"}, !.hidden = {"p2"}],
            [PlainHost EXCEPT !.adopts = "pid1"],  \* a child subreaper behaves alike
            [PlainHost EXCEPT !.noReap = TRUE], [PlainHost EXCEPT !.maxWalk = 1]}
MCModes == {[flag |-> FALSE, calls |-> c] : c \in {{FALSE}, {TRUE, FALSE}}} \cup {[flag |-> TRUE, calls |-> {FALSE}]}

\* Two commands at a time, two streams, partial lines.
Prog(ws, child, ok, opts, live, boxed) ==
  [writes |-> ws, child |-> child, ok |-> ok, opts |-> opts, live |-> live, boxed |-> boxed]
Talk == <<<<"err", <<"e">>>>, <<"out", <<"o", OutputCases!NL>>>>>>
MCStyles == {[name |-> n, error_only |-> FALSE, marked |-> TRUE] : n \in {"group", "prefixed"}}
            \cup {[name |-> "interleaved", error_only |-> FALSE, marked |-> FALSE],
                  [name |-> "group", error_only |-> TRUE, marked |-> FALSE]}
MCPrograms == {Prog(Talk, FALSE, TRUE, TRUE, FALSE, FALSE),
               Prog(Talk, TRUE, FALSE, TRUE, FALSE, FALSE),
               Prog(<<>>, TRUE, TRUE, TRUE, FALSE, TRUE),
               Prog(Talk, FALSE, TRUE, TRUE, FALSE, TRUE),
               Prog(<<<<"out", <<"q">>>>>>, FALSE, FALSE, TRUE, TRUE, FALSE),
               Prog(<<>>, FALSE, TRUE, FALSE, TRUE, FALSE)}
\* Options the shell refuses, under a capturing style.
RefusedPrograms == {Prog(<<>>, FALSE, TRUE, FALSE, FALSE, FALSE)}
GroupOnly == {[name |-> "group", error_only |-> FALSE, marked |-> FALSE]}

Built(tag, runs) == [build |-> tag, runs |-> runs, whole |-> TRUE]
Member(name, regular, size, data) == [name |-> name, regular |-> regular, size |-> size, data |-> data]
Archive(digest, members) == [digest |-> digest, size |-> 2, members |-> members]
Release(tag, digest, served) == [tag |-> tag, size |-> 2, digest |-> digest, served |-> served]
New == <<4, 3>>
Good == Archive("d1", <<Member("LICENSE", TRUE, 1, Built(New, FALSE)), Member("task", TRUE, 1, Built(New, TRUE))>>)
MCReleases == {
  Release(New, "d1", Good),                                     \* faithful
  Release(New, "d1", [Good EXCEPT !.digest = "d2",
                                  !.members[2].data.whole = FALSE]), \* damaged on the way
  Release(New, "d1", [Good EXCEPT !.size = 3]),                 \* longer than announced
  Release(<<4, 4>>, "d1", Good),                                \* tagged otherwise than built
  Release(<<4, 1>>, "d3", Archive("d3", <<Member("task", FALSE, 1, Built(<<4, 1>>, TRUE)),
                                          Member("task", TRUE, 1, Built(<<4, 1>>, FALSE))>>)),
  Release(<<>>, "d4", Archive("d4", <<Member("doc", TRUE, 3, Built(New, TRUE)),
                                      Member("task", TRUE, 1, Built(New, TRUE))>>)) }
MCFileModes == {{"u+x", "g+x"}, {"u+x", "g+w", "suid"}}
MCCurrent == <<4, 2>>

Ask(fs, sel, wrong) == [flags |-> fs, select |-> sel, faults |-> wrong]
MCInvocations ==
  {Ask(fs, sel, {}) : fs \in {{}, {"status"}}, sel \in {InvocationCases!None, "a"}}
  \cup {Ask(fs, InvocationCases!None, {}) :
          fs \in {{"exit_code"}, {"import"}, {"export"}, {"status", "import"},
                  {"list", "list_all"}, {"list_all", "json", "nested"}, {"list", "export"},
                  {"update", "check", "status"}, {"migrate", "write", "import"}, {"json"},
                  {"init"}, {"version", "update"}}}
  \cup {Ask({}, InvocationCases!None, wrong) :
          wrong \in {{"old", "dotenv"}, {"dotenv", "new"}, {"merge", "output"}}}
MCArchives == {[is |-> "absent", has |-> <<>>],
               [is |-> "whole", has |-> [f \in InvocationCases!Kept |->
                  IF f = "out" THEN <<"b", 0>> ELSE <<"b", 0, IF f = "sum_gen" THEN <<"b", 0>> ELSE InvocationCases!Gone>>]],
               [is |-> "whole", has |-> [f \in {InvocationCases!Scratch, "sum_plain"} |-> <<"b", 0, InvocationCases!Gone>>]]}

-----------------------------------------------------------------------------
\* The variables only one component has, and their value in the behaviours of
\* the others.
Off == <<>>
ownReading == <<edits, free, job, thread>>
ownSupervisor == <<env, backend, worker, unenforced, listener, sup, out, count, result, layers,
                   before, call, shown, hurt, late, made>>
ownReap == <<proc, host, mode, run, sig, sweep, parked, base, hit, reused, slipped, held, exit>>
ownOutput == <<style, prog, left, wrote, pipe, buf, holders, eof, engine, queue, stash, term, broken>>
ownUpdate == <<file, dir, upd, first, downs>>
NoReading == edits = Off /\ free = Off /\ job = Off /\ thread = Off
NoSupervisor == env = Off /\ backend = Off /\ worker = Off /\ unenforced = Off /\
                listener = Off /\ sup = Off /\ out = Off /\ count = Off /\
                result = Off /\ layers = Off /\ before = Off /\ call = Off /\ shown = Off /\
                hurt = Off /\ late = Off /\ made = Off
NoReap == proc = Off /\ host = Off /\ mode = Off /\ run = Off /\ sig = Off /\
          sweep = Off /\ parked = Off /\ base = Off /\ hit = Off /\
          reused = Off /\ slipped = Off /\ held = Off /\ exit = Off
NoOutput == style = Off /\ prog = Off /\ left = Off /\ wrote = Off /\ pipe = Off /\
            buf = Off /\ holders = Off /\ eof = Off /\ engine = Off /\
            queue = Off /\ stash = Off /\ term = Off /\ broken = Off
NoUpdate == file = Off /\ dir = Off /\ upd = Off /\ first = Off /\ downs = Off
ownInvocation == <<src, tree, zip, effect, at, flags, select, faults, view, todo, undo, picked,
                   touched, failed, warned, code, told, acted, events, halted>>
NoInvocation == src = Off /\ tree = Off /\ zip = Off /\ effect = Off /\ at = Off /\ flags = Off /\
                select = Off /\ faults = Off /\ view = Off /\ todo = Off /\ undo = Off /\
                picked = Off /\ touched = Off /\ failed = Off /\ warned = Off /\
                code = Off /\ told = Off /\ acted = Off /\ events = Off /\ halted = Off
everything == <<part, disk, seen, pc, ownReading, ownSupervisor, ownReap, ownOutput, ownUpdate,
                ownInvocation>>

Init ==
  /\ part \in Parts
  /\ \/ /\ part = "reading" /\ R!Init
        /\ seen = Off /\ pc = Off /\ NoSupervisor /\ NoReap /\ NoOutput /\ NoUpdate /\ NoInvocation
     \/ /\ part = "supervisor" /\ S!Init
        /\ disk = Off /\ NoReading /\ NoReap /\ NoOutput /\ NoUpdate /\ NoInvocation
     \/ /\ part = "reap" /\ K!Init
        /\ disk = Off /\ pc = Off /\ NoReading /\ NoSupervisor /\ NoOutput /\ NoUpdate /\ NoInvocation
     \/ /\ part = "output" /\ O!Init
        /\ disk = Off /\ seen = Off /\ NoReading /\ NoSupervisor /\ NoReap /\ NoUpdate /\ NoInvocation
     \/ /\ part = "update" /\ U!Init
        /\ seen = Off /\ pc = Off /\ NoReading /\ NoSupervisor /\ NoReap /\ NoOutput /\
           NoInvocation
     \/ /\ part = "invocation" /\ V!Init
        /\ disk = Off /\ seen = Off /\ pc = Off /\ NoReading /\ NoSupervisor /\ NoReap /\
           NoOutput /\ NoUpdate

Next ==
  \/ /\ part = "reading" /\ R!Next
     /\ UNCHANGED <<part, seen, pc, ownSupervisor, ownReap, ownOutput, ownUpdate,
                    ownInvocation>>
  \/ /\ part = "supervisor" /\ S!Next
     /\ UNCHANGED <<part, disk, ownReading, ownReap, ownOutput, ownUpdate,
                    ownInvocation>>
  \/ /\ part = "reap" /\ K!Next
     /\ UNCHANGED <<part, disk, pc, ownReading, ownSupervisor, ownOutput, ownUpdate,
                    ownInvocation>>
  \/ /\ part = "output" /\ O!Next
     /\ UNCHANGED <<part, disk, seen, ownReading, ownSupervisor, ownReap, ownUpdate,
                    ownInvocation>>
  \/ /\ part = "update" /\ U!Next
     /\ UNCHANGED <<part, seen, pc, ownReading, ownSupervisor, ownReap, ownOutput,
                    ownInvocation>>
  \/ /\ part = "invocation" /\ V!Next
     /\ UNCHANGED <<part, disk, seen, pc, ownReading, ownSupervisor, ownReap, ownOutput,
                    ownUpdate>>

Spec == Init /\ [][Next]_everything

-----------------------------------------------------------------------------
\* A reading of the sources gives what one thread would have given, whatever
\* the number of threads, and returns what it took of the process-wide budget
\* (fingerprint/pool.rs, offload.rs).
ReadingSound == part = "reading" => R!SameAnyThreads /\ R!AllDigested /\ R!BudgetKept

\* A command denied a call before its verdict fails, its denial is shown, and only
\* calls it made are reported (sandbox/mod.rs, seccomp.rs, report_sandbox).
SupervisorSound == part = "supervisor" => S!DeniedFails /\ S!OnlyOwnDenials /\ S!NothingUnshown

\* A teardown stops every command it can see or says which it could not, signals a
\* stranger only through a pid recycled after it was listed, and a forced shutdown
\* ends as one (reap.rs, executor/signals.rs).
CommandsReaped == part = "reap" => K!StrangersSafe /\ K!CommandsStopped /\ K!ForcedWins

\* A command's output is shown once and whole: its pipes are drained to their
\* ends, no byte is lost on the way to a terminal that takes every write, and
\* nothing but what a command with the terminal to itself writes cuts a grouped
\* block (execext.rs, exec_shell, output/group.rs).
OutputWhole == part = "output" => O!Drained /\ O!NothingLost /\ O!BlocksWhole

\* The shell's write ends are closed before its drains are joined, so a command
\* that was started never leaves everybody waiting (execext.rs).
OutputGoesOn == part = "output" => O!GoesOn

\* Nobody waits for what never comes: as long as a reading is not answered some
\* reading can go on, a command that waits for the supervisor is answered, a
\* SIGTERM is served unless the engine joins the pipes of a living background
\* process, and a command that was started does not leave everybody waiting
\* (offload.rs, seccomp.rs, signals.rs, execext.rs).
NobodyWaits ==
  /\ part = "reading" => R!ReadingGoesOn
  /\ part = "supervisor" => S!Answered
  /\ part = "reap" => K!TermServed
  /\ OutputGoesOn

\* At every moment, a crash of the host included, the installed binary is a
\* whole one that runs, with no more rights than before, and an update that
\* fails has changed no name but its own file's (task/src/update.rs).
UpdateSafe ==
  /\ [](part = "update" => U!Installed)
  /\ [][part = "update" => U!NothingLeftBy]_<<part, file, dir, disk, upd>>

\* --status foretells what a run does, nothing is skipped that was not done
\* here, imported whole or brought by an import that was killed, and exit codes
\* tell (task/src/run.rs, status.rs, cache_export.rs).
InvocationsTell == part = "invocation" => V!StatusForetells /\ V!SkippedWasDone /\ V!Tells
=============================================================================
