-------------------------------- MODULE Watch --------------------------------
(***************************************************************************)
(* The watch loop (executor/watch.rs): run every call, register the        *)
(* directories that hold sources, then block on the events of the file     *)
(* system, coalesce those of one window, and run again when one of them    *)
(* touches a source.                                                       *)
(*                                                                         *)
(* The watcher of the `notify` crate is external: it queues an event for   *)
(* each change in a directory it follows and for no other; it follows a    *)
(* registered directory until that is removed, and not one made anew under *)
(* its name.  Sources are files a glob matches while they exist; a call's  *)
(* run reads them when it starts.  Which files the globs name is fixed     *)
(* here, where a dynamic variable could change it.                         *)
(***************************************************************************)
EXTENDS Naturals, Sequences, FiniteSets

CONSTANTS Files,    \* files somewhere below the project
          DirOf,    \* [Files -> directories]
          SourceOf, \* [Files -> SUBSET Calls]: the calls whose globs match it
          Calls,    \* number of calls watched: 1 .. Calls, in order
          Once,     \* those of run: once or when_changed tasks without a watch: of
                    \* their own
          Ignored,  \* directories below .task, .git, .hg or node_modules
          MaxEdits  \* bound: changes made to the files

VARIABLES present,  \* files that exist
          edits,    \* changes made so far
          watched,  \* the directories the loop has registered
          followed, \* those the watcher still follows
          answered, \* the calls whose run_once cell is filled
          queue,    \* events sent by the watcher and not received
          batch,    \* events received in this window
          pc,       \* where the loop is
          call,     \* the call that runs
          owed      \* history: <<call, file>> changed under watch, not run since

vars == <<present, edits, watched, followed, answered, queue, batch, pc, call, owed>>

Init == /\ present \in SUBSET Files
        /\ edits = 0 /\ watched = {} /\ followed = {} /\ answered = {} /\ queue = <<>> /\ batch = {}
        /\ pc = "start" /\ call = 1 /\ owed = {}

Over == pc = "over"
ShouldIgnore(p) == p \in Ignored \/ (p \in Files /\ DirOf[p] \in Ignored)

\* A file is written, created or removed, or moved to where no source is: the watcher
\* tells that as a change of its name.
Change(f, kind) ==
  /\ ~Over /\ edits < MaxEdits
  /\ kind # "write" => f \in present
  /\ edits' = edits + 1
  /\ present' = IF kind = "write" THEN present \cup {f} ELSE present \ {f}
  /\ queue' = IF DirOf[f] \in followed THEN Append(queue, [kind |-> kind, path |-> f]) ELSE queue
  /\ owed' = IF kind = "away" THEN {o \in owed : o[2] # f}
             ELSE IF DirOf[f] \in followed /\ ~ShouldIgnore(f)
             THEN owed \cup {<<c, f>> : c \in SourceOf[f]} ELSE owed
  /\ UNCHANGED <<watched, followed, answered, batch, pc, call>>

\* An empty directory is removed, or made anew as soon as a file is written there.
RemoveDir(d) ==
  /\ ~Over /\ edits < MaxEdits
  /\ d \in followed /\ \A f \in present : DirOf[f] # d
  /\ edits' = edits + 1
  /\ followed' = followed \ {d}
  /\ queue' = Append(queue, [kind |-> "remove", path |-> d])
  /\ UNCHANGED <<present, watched, answered, batch, pc, call, owed>>

-----------------------------------------------------------------------------
\* collect_sources, when every task compiles: the files the globs match now.
CollectSources == {f \in present : SourceOf[f] # {}}

\* run_watch_call: the task is run and what it abandoned is torn down; its
\* error is printed and the session goes on.  A call whose cell is filled is
\* given the result in it: no iteration empties the cells.
RunWatchCall ==
  /\ pc \in {"start", "again"}
  /\ owed' = IF call \in answered THEN owed ELSE {o \in owed : o[1] # call}
  /\ answered' = answered \cup ({call} \cap Once)
  /\ pc' = IF pc = "start" THEN "starting" ELSE "running"
  /\ UNCHANGED <<present, edits, watched, followed, queue, batch, call>>

RunEnds ==
  /\ pc \in {"starting", "running"}
  /\ IF call < Calls
     THEN call' = call + 1 /\ pc' = IF pc = "starting" THEN "start" ELSE "again"
     ELSE call' = 1 /\ pc' = "register"
  /\ UNCHANGED <<present, edits, watched, followed, answered, queue, batch, owed>>

\* register_watched_dirs, after the first runs and after every rerun: what is not
\* registered yet, as far as the watcher takes it; a task that no longer compiles
\* ends the session here.
Unregistered == {DirOf[f] : f \in CollectSources} \ (Ignored \cup watched)
RegisterWatchedDirs ==
  /\ pc = "register"
  /\ \/ /\ \E new \in SUBSET Unregistered :
             watched' = watched \cup new /\ followed' = followed \cup new
        /\ pc' = "recv"
     \/ pc' = "over" /\ UNCHANGED <<watched, followed>>
  /\ UNCHANGED <<present, edits, answered, queue, batch, call, owed>>

\* The thread blocks until an event arrives, then takes what arrives in the
\* window; what comes later stays queued.
Recv ==
  /\ pc = "recv" /\ queue # <<>>
  /\ batch' = {Head(queue)} /\ queue' = Tail(queue) /\ pc' = "window"
  /\ UNCHANGED <<present, edits, watched, followed, answered, call, owed>>

RecvTimeout ==
  /\ pc = "window" /\ queue # <<>>
  /\ batch' = batch \cup {Head(queue)} /\ queue' = Tail(queue)
  /\ UNCHANGED <<present, edits, watched, followed, answered, pc, call, owed>>

WindowEnds ==
  /\ pc = "window" /\ pc' = "decide"
  /\ UNCHANGED <<present, edits, watched, followed, answered, queue, batch, call, owed>>

\* The mutant of EventsTouchSources: a removal is looked up like the others.
EventsTouchSources_Existing(sources) ==
  \E e \in batch : ~ShouldIgnore(e.path) /\ e.path \in sources

\* events_touch_sources: a removal always counts, another event when its file
\* is a source now, which one that was moved away is not.
EventsTouchSources(sources) ==
  \E e \in batch : ~ShouldIgnore(e.path) /\ (e.kind = "remove" \/ e.path \in sources)

Decide ==
  /\ pc = "decide"
  /\ batch' = {}
  /\ \/ /\ pc' = IF EventsTouchSources(CollectSources) THEN "again" ELSE "recv"
        /\ UNCHANGED owed
     \* The tasks do not compile: the error is printed, the events are passed.
     \/ pc' = "recv" /\ owed' = {}
  /\ UNCHANGED <<present, edits, watched, followed, answered, queue, call>>

Loop == RunWatchCall \/ RunEnds \/ RegisterWatchedDirs \/ Recv \/ RecvTimeout \/ WindowEnds \/ Decide
Next ==
  \/ Loop
  \/ \E f \in Files, kind \in {"write", "remove", "away"} : Change(f, kind)
  \/ \E d \in {DirOf[f] : f \in Files} : RemoveDir(d)
\* The loop's thread is scheduled, and the commands of a run end.
Spec == Init /\ [][Next]_vars /\ WF_vars(Loop)

-----------------------------------------------------------------------------
\* A change of a source in a directory the watcher follows is followed by a run of
\* each call that has the source and is not answered from a cell, or by the end of
\* the session or a printed error: one made while a run is under way, or in the
\* window of another, too.  A source moved away is owed no run.
Owed(c, f) == <<c, f>> \in owed
=============================================================================
