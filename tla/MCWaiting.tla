----------------------------- MODULE MCWaiting ------------------------------
(***************************************************************************)
(* What must happen in the end: a changed source is built (Watch), a question *)
(* is asked and answered (Prompt), what a dead run left is swept (TmpDir).  A *)
(* behaviour is one of these on a small instance.                          *)
(***************************************************************************)
EXTENDS Naturals, Sequences, FiniteSets, TLC

CONSTANTS Parts, \* the components that are started
          Files, DirOf, SourceOf, Calls, Once, Ignored, MaxEdits, PromptCalls, Vars, Upfront,
          Requires, Confirms, MaxLines, Runs, Sweeps, Proc, PosixLocks, Attempts

VARIABLES part, \* the component of this behaviour
          present, edits, watched, followed, answered, queue, batch, pc, call, owed, prompted, turn, open,
          lines, setup, lock, dir, held, live, try, sw, left

W == INSTANCE Watch
P == INSTANCE Prompt WITH Calls <- PromptCalls
T == INSTANCE TmpDir

ASSUME TmpDirParameters == T!ParametersOK
ASSUME PromptParameters == P!ParametersOK

MCDirOf == [f \in Files |-> CASE f = "a" -> "src" [] f = "b" -> "new" [] f = "g" -> ".git"]
MCSourceOf == [f \in Files |-> IF f = "b" THEN {2} ELSE {1, 2}]
MCRequires == [c \in PromptCalls |-> CASE c = "c1" -> {"x", "y"} [] c = "c2" -> {"y", "z"} [] c = "c3" -> {"y"}]
\* A run and a sweep of its own process, and a sweep of another.
MCProc == "r1" :> "p" @@ "s1" :> "p" @@ "s2" :> "o"

-----------------------------------------------------------------------------
\* The variables only one component has, and their value in the behaviours of
\* the others.
Off == <<>>
ownWatch == <<present, edits, watched, followed, answered, batch, owed>>
ownPrompt == <<prompted, turn, open, lines>>
ownTmpdir == <<setup, lock, dir, held, live, try, sw, left>>
NoWatch == present = Off /\ edits = Off /\ watched = Off /\ followed = Off /\
           answered = Off /\ batch = Off /\ owed = Off
NoPrompt == prompted = Off /\ turn = Off /\ open = Off /\ lines = Off
NoTmpdir == setup = Off /\ lock = Off /\ dir = Off /\ held = Off /\ live = Off /\
            try = Off /\ sw = Off /\ left = Off
everything == <<part, queue, pc, call, ownWatch, ownPrompt, ownTmpdir>>

Init ==
  /\ part \in Parts
  /\ \/ /\ part = "watch" /\ W!Init
        /\ NoPrompt /\ NoTmpdir
     \/ /\ part = "prompt" /\ P!Init
        /\ pc = Off /\ NoWatch /\ NoTmpdir
     \/ /\ part = "tmpdir" /\ T!Init
        /\ queue = Off /\ call = Off /\ NoWatch /\ NoPrompt

Next ==
  \/ /\ part = "watch" /\ W!Next
     /\ UNCHANGED <<part, ownPrompt, ownTmpdir>>
  \/ /\ part = "prompt" /\ P!Next
     /\ UNCHANGED <<part, pc, ownWatch, ownTmpdir>>
  \/ /\ part = "tmpdir" /\ T!Next
     /\ UNCHANGED <<part, queue, call, ownWatch, ownPrompt>>

\* The loop's thread is scheduled and the commands of a run end; the engine and
\* the terminal thread are scheduled and the user answers; a sweep that was
\* begun goes on, later runs of other processes sweep every entry there is, and
\* removals that are tried again and again do not all fail.
watching == W!vars
asking == P!vars
sweeping == T!vars
Spec ==
  /\ Init /\ [][Next]_everything
  /\ WF_watching(part = "watch" /\ W!Loop)
  /\ \A c \in PromptCalls \cup {P!Root} : SF_asking(part = "prompt" /\ P!Engine(c))
  /\ WF_asking(part = "prompt" /\ P!Terminal) /\ WF_asking(part = "prompt" /\ P!Line)
  /\ \A s \in Sweeps : WF_sweeping(part = "tmpdir" /\ T!Goes(s))
  /\ SF_sweeping(part = "tmpdir" /\ \E s \in Sweeps : T!SweepFile(s, TRUE) \/ T!SweepBareDir(s, TRUE))
  /\ \A s \in Sweeps : \A r \in {q \in Runs : Proc[q] # Proc[s]} :
       /\ SF_sweeping(part = "tmpdir" /\ T!OpenLock(s, r))
       /\ SF_sweeping(part = "tmpdir" /\ T!SeeDir(s, r))
       /\ \A i \in {j \in T!Inodes : j[1] = r} : SF_sweeping(part = "tmpdir" /\ T!OpenSetup(s, i))

-----------------------------------------------------------------------------
\* A change of a source in a directory that has been followed since it was registered
\* is followed by a run of every call that has it, or by the end of the session,
\* but for a source moved away and for a run: once or when_changed task, whose
\* first result is given again (executor/watch.rs).
ChangesRun ==
  \A c \in (1 .. Calls) \ Once, f \in Files :
    part = "watch" /\ W!Owed(c, f) ~> part = "watch" /\ (~W!Owed(c, f) \/ W!Over)

\* Nothing is taken away: no sweep removes the temporary directory of a live
\* run (sandbox/policy.rs: remove_stale_tmp), and an answer of the user is
\* never replaced, nor is there a call that goes on with another one
\* (executor/prompt.rs, prompter.rs).
NothingTaken ==
  /\ [](part = "tmpdir" => T!LiveDirKept)
  /\ [][part = "prompt" => P!AnswerKept]_<<part, prompted, call>>

\* As long as the user answers, no call waits for its question for ever, and
\* what runs that are gone have left is swept in the end.
AllServed ==
  /\ \A c \in PromptCalls : part = "prompt" /\ P!Asks(c) ~> part = "prompt" /\ P!Past(c)
  /\ \A r \in Runs : part = "tmpdir" /\ r \in left ~> part = "tmpdir" /\ T!Swept(r)
=============================================================================
