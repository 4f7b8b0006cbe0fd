-------------------------------- MODULE Reap --------------------------------
(***************************************************************************)
(* How one `task` process answers SIGINT and SIGTERM, and how it stops the *)
(* commands it started: executor/signals.rs (the handler), reap.rs (the    *)
(* walk of the process table and the two passes of signals) and the        *)
(* teardown of a failing run (drain_queue in executor/run.rs).             *)
(*                                                                         *)
(* The engine runs on one thread.  A sweep blocks that thread, except for  *)
(* the grace period of a teardown, which is awaited; the processes it      *)
(* walks go on forking, exiting and being reparented between any two of    *)
(* its reads and signals.  A process that was asked to terminate may exit  *)
(* at any time or never, so a terminate changes nothing but the record of  *)
(* having been sent; a kill ends its process.  The pid of a process that   *)
(* was reaped may be given to a stranger, also one a walk has in hand.     *)
(***************************************************************************)
EXTENDS Naturals, FiniteSets

CONSTANTS Procs,     \* every process but the engine that ever exists
          Strangers, \* the ones no command of this run started
          Hosts,     \* [denied, hidden, adopts, noReap, maxWalk]: what it runs on
          Modes,     \* [flag, calls]: --watch, and each called task's `watch:`
          MaxSignals \* bound: signals sent to the engine

MaxInterrupts == 3   \* MAX_INTERRUPT_SIGNALS

VARIABLES
  proc,    \* [Procs -> [st, par]]: the process table
  host,    \* what does not change: who may not be signalled or read, ...
  mode,    \* what was asked for, one of Modes
  run,     \* where the run is
  sig,     \* notified and not yet received signals, and how many were sent
  seen,    \* signals the handler received
  sweep,   \* the sweep that holds the thread
  parked,  \* the sweep of a teardown, in its grace period
  base,    \* history: commands of the engine when the sweep began
  hit,     \* history: processes of others the engine sent a signal
  reused,  \* pids that processes of this run had and others have now
  slipped, \* history: the ones that changed hands while a walk had them in its own
  held,    \* the process whose pipes the engine waits for, or Me
  exit     \* how the process ended, or "none"

vars == <<proc, host, mode, run, sig, seen, sweep, parked, base, hit, reused, slipped, held, exit>>

Me == "me"
Live(p) == proc[p].st = "live"
Alive == exit = "none"
ChildrenOf(p) == {q \in Procs : proc[q].par = p /\ proc[q].st \in {"live", "zombie"}}

NoSweep == [kind |-> "none"]
Swept(kind) ==
  [kind |-> kind, pass |-> "ask", frontier |-> {Me}, kids |-> {}, found |-> {}, seen |-> {},
   visited |-> 0, asked |-> {}, unstoppable |-> {}, truncated |-> FALSE, declined |-> FALSE,
   walking |-> TRUE]

\* The engine's thread turns: no sweep and no join blocks it.
Turns == sweep = NoSweep /\ held = Me

\* will_watch: the flag or a task's own `watch: true` enters the same loop.
WillWatch(m) == m.flag \/ \E w \in m.calls : w

\* run_engine takes the signals over only when nothing will be watched.
Handled == ~WillWatch(mode)

Init ==
  /\ proc = [p \in Procs |-> [st  |-> IF p \in Strangers THEN "live" ELSE "none",
                              par |-> "outside"]]
  /\ host \in Hosts
  /\ mode \in Modes
  /\ run = "regular"
  /\ sig = [int |-> FALSE, term |-> FALSE, sent |-> 0]
  /\ seen = 0
  /\ sweep = NoSweep /\ parked = NoSweep
  /\ base = [kind |-> "none", own |-> {}]
  /\ hit = {} /\ reused = {} /\ slipped = {}
  /\ held = Me
  /\ exit = "none"

-----------------------------------------------------------------------------
(* The processes. *)

\* A command of the engine, or a child of a process: both are a spawn.
Fork(par) ==
  /\ IF par = Me THEN Alive /\ run \in {"regular", "watched"} /\ Turns
     ELSE Alive /\ par \notin Strangers /\ Live(par)
  /\ LET free == {q \in Procs \ Strangers : proc[q].st = "none"}
     IN  /\ free # {}
         /\ proc' = [proc EXCEPT ![CHOOSE q \in free : TRUE] = [st |-> "live", par |-> par]]
  /\ UNCHANGED <<host, mode, run, sig, seen, sweep, parked, base, hit, reused, slipped, held, exit>>

Adopter == IF host.adopts = "no" THEN "init" ELSE Me

\* The table once p has died: p waits for its parent to reap it, its children
\* are reparented, the dead ones among them reaped by who adopts them.
Dead(t, p) ==
  [q \in Procs |->
     IF q = p
     THEN [t[p] EXCEPT !.st = IF t[p].par = Me \/ (t[p].par \in Procs /\ t[t[p].par].st = "live")
                              THEN "zombie" ELSE "gone"]
     ELSE IF t[q].par = p
          THEN [st |-> IF t[q].st = "zombie" THEN "gone" ELSE t[q].st, par |-> Adopter]
          ELSE t[q]]

Exit(p) ==
  /\ Alive /\ Live(p)
  /\ proc' = Dead(proc, p)
  /\ UNCHANGED <<host, mode, run, sig, seen, sweep, parked, base, hit, reused, slipped, held, exit>>

Reaped(p) ==
  /\ Alive /\ proc[p].st = "zombie"
  /\ proc' = [proc EXCEPT ![p].st = "gone"]
  /\ UNCHANGED <<host, mode, run, sig, seen, sweep, parked, base, hit, reused, slipped, held, exit>>

\* The parent of the strangers exits: an engine that is pid 1, or that a
\* supervisor made a child subreaper, adopts them.
Orphaned ==
  /\ Alive /\ \E p \in Strangers : proc[p].par = "outside"
  /\ proc' = [p \in Procs |-> IF proc[p].par = "outside" /\ p \in Strangers
                              THEN [proc[p] EXCEPT !.par = Adopter] ELSE proc[p]]
  /\ UNCHANGED <<host, mode, run, sig, seen, sweep, parked, base, hit, reused, slipped, held, exit>>

\* The pids a sweep has listed and not dealt with yet.
Hand(s) == IF s = NoSweep THEN {} ELSE s.kids \cup s.found \cup (IF s.walking THEN s.frontier ELSE {})

\* The pid of a process that was reaped goes to a process of somebody else, which
\* may have children of its own.
Recycle(p) ==
  /\ Alive /\ p \notin Strangers /\ proc[p].st = "gone" /\ p \notin reused
  /\ reused' = reused \cup {p}
  /\ slipped' = slipped \cup ({p} \cap Hand(sweep))
  /\ \E below \in SUBSET {q \in Strangers : proc[q].par = "outside"} :
       proc' = [q \in Procs |-> IF q \in below THEN [proc[q] EXCEPT !.par = p] ELSE proc[q]]
  /\ UNCHANGED <<host, mode, run, sig, seen, sweep, parked, base, hit, held, exit>>

\* finish_with: the command's shell is done, and the engine joins the threads that
\* drain its pipes, which a process it left in the background keeps open.  The join
\* is not awaited: it blocks the only thread until that process is gone.
Join(p) ==
  /\ Alive /\ Turns /\ run \in {"regular", "watched"} /\ p \notin Strangers /\ Live(p)
  /\ held' = p
  /\ UNCHANGED <<proc, host, mode, run, sig, seen, sweep, parked, base, hit, reused, slipped, exit>>

Joined ==
  /\ Alive /\ held # Me /\ ~Live(held)
  /\ held' = Me
  /\ UNCHANGED <<proc, host, mode, run, sig, seen, sweep, parked, base, hit, reused, slipped, exit>>

-----------------------------------------------------------------------------
(* One sweep: a walk, then a signal to each process the walk found. *)

\* descendant_pids does not guess whose an adopted orphan is.
Declines == host.adopts \in {"pid1", "subreaper"}

Started(kind) ==
  /\ sweep' = IF host.noReap THEN [Swept(kind) EXCEPT !.walking = FALSE]
              ELSE IF Declines THEN [Swept(kind) EXCEPT !.walking = FALSE, !.declined = TRUE]
              ELSE Swept(kind)
  /\ base' = IF kind = "relay" THEN base
             ELSE [kind |-> kind, own |-> {q \in Procs \ Strangers : Live(q) /\ proc[q].par = Me}]

\* The children of one node, read: a list the engine may not read is unknown,
\* not empty; a process that is gone has nothing below it.
Complete(p) == ~(p \in host.hidden /\ p \in Procs /\ Live(p))
Listed(p) == IF p # Me /\ p \in host.hidden THEN {} ELSE ChildrenOf(p)

\* descendant_pids: both the number of nodes expanded and the number of processes
\* found are bounded.  In which order nodes and children come is the table's.
Full == Cardinality(sweep.found) >= host.maxWalk

Expand(p) ==
  LET popped == [sweep EXCEPT !.frontier = @ \ {p}, !.visited = @ + 1]
  IN  sweep' = IF sweep.visited + 1 > host.maxWalk \/ Full
               THEN [popped EXCEPT !.truncated = TRUE, !.walking = FALSE]
               ELSE [popped EXCEPT !.kids = Listed(p), !.truncated = @ \/ ~Complete(p)]

\* One child of the list: its state is read now, and a zombie is passed over; one
\* whose state cannot be read any more is not.
TakeChild(q) ==
  LET rest == [sweep EXCEPT !.kids = @ \ {q}, !.seen = @ \cup {q}]
  IN  sweep' = IF Full THEN [sweep EXCEPT !.kids = {}, !.truncated = TRUE]
               ELSE IF q \in sweep.seen \/ proc[q].st = "zombie" THEN rest
               ELSE [rest EXCEPT !.found = @ \cup {q}, !.frontier = @ \cup {q}]

Walk ==
  /\ Alive /\ sweep.kind # "none" /\ sweep.walking
  /\ \/ \E q \in sweep.kids : TakeChild(q)
     \/ sweep.kids = {} /\ \E p \in sweep.frontier : Expand(p)
     \/ sweep.kids = {} /\ sweep.frontier = {} /\ sweep' = [sweep EXCEPT !.walking = FALSE]
  /\ UNCHANGED <<proc, host, mode, run, sig, seen, parked, base, hit, reused, slipped, held, exit>>

\* The mutant of Refused: a refused signal counts as sent.
Refused_AsGone(p) == FALSE

\* ESRCH is "nothing to stop"; any other failure leaves a process running.
Refused(p) == p \in host.denied /\ (proc[p].st # "gone" \/ p \in reused)

\* signal_process: refused, already gone, or sent (to a zombie too, and to whoever has
\* the pid by now: what becomes of a stranger is not followed).
Signal ==
  /\ Alive /\ sweep.kind # "none" /\ ~sweep.walking
  /\ \E p \in sweep.found :
     LET rest == [sweep EXCEPT !.found = @ \ {p}]
         sent == p \notin host.denied /\ (proc[p].st \in {"live", "zombie"} \/ p \in reused)
     IN  /\ sweep' = IF Refused(p)
                     THEN [rest EXCEPT !.unstoppable = @ \cup {p}]
                     ELSE IF sent THEN [rest EXCEPT !.asked = IF sweep.pass = "ask" THEN @ \cup {p} ELSE @]
                     ELSE rest
         /\ hit' = IF sent THEN hit \cup ({p} \cap (Strangers \cup reused)) ELSE hit
         /\ proc' = IF sent /\ sweep.pass = "kill" /\ Live(p) THEN Dead(proc, p) ELSE proc
  /\ UNCHANGED <<host, mode, run, sig, seen, parked, base, reused, slipped, held, exit>>

Signalled == sweep.kind # "none" /\ ~sweep.walking /\ sweep.found = {}

\* kill_pass: the table is walked again, since what ignored the terminate may
\* have spawned children while doing so.
KillPass(s) == [s EXCEPT !.pass = "kill", !.walking = TRUE, !.frontier = {Me},
                         !.seen = {}, !.visited = 0]

\* stop_commands_blocking sleeps on the thread, stop_commands yields it.
Blocks(kind) == kind = "force"

\* The first pass is over: the grace period, if anything was asked.
Grace ==
  /\ Alive /\ Signalled /\ sweep.pass = "ask" /\ sweep.kind \in {"drain", "force"} /\ sweep.asked # {}
  /\ IF Blocks(sweep.kind)
     THEN sweep' = KillPass(sweep) /\ UNCHANGED <<parked, run>>
     ELSE /\ parked' = sweep /\ sweep' = NoSweep
          /\ run' = IF sweep.kind = "drain" THEN "grace" ELSE run
  /\ UNCHANGED <<proc, host, mode, sig, seen, base, hit, reused, slipped, held, exit>>

GraceOver ==
  /\ Alive /\ sweep = NoSweep /\ parked # NoSweep
  /\ sweep' = KillPass(parked) /\ parked' = NoSweep
  /\ UNCHANGED <<proc, host, mode, run, sig, seen, base, hit, reused, slipped, held, exit>>

\* report_swept, and what follows: the relay goes back to the handler, the
\* teardown returns the run's own code, the forced shutdown exits 1.
SweepOver ==
  /\ Alive /\ Signalled
  /\ sweep.kind = "relay" \/ sweep.pass = "kill" \/ sweep.asked = {}
  /\ CASE sweep.kind = "relay" -> sweep' = NoSweep /\ UNCHANGED <<run, exit>>
       [] sweep.kind = "drain" -> exit' = "own" /\ run' = "over" /\ UNCHANGED sweep
       [] sweep.kind = "force" -> exit' = "forced" /\ UNCHANGED <<sweep, run>>
  /\ UNCHANGED <<proc, host, mode, sig, seen, parked, base, hit, reused, slipped, held>>

-----------------------------------------------------------------------------
(* The run and the signals. *)

\* run_calls: the regular calls, then the watched ones.  The run is over when
\* none is watched or a call failed; a failure that abandoned others sweeps.
RunEnds ==
  /\ Alive /\ Turns /\ run = "regular"
  /\ \/ /\ mode.flag \/ TRUE \in mode.calls
        /\ run' = "watched" /\ UNCHANGED <<sweep, base, exit>>
     \/ run' = "over" /\ exit' = "own" /\ UNCHANGED <<sweep, base>>
     \/ run' = "draining" /\ Started("drain") /\ UNCHANGED exit
  /\ UNCHANGED <<proc, host, mode, sig, seen, parked, hit, reused, slipped, held>>

\* The watch loop blocks the thread on a synchronous receive, and leaves it on
\* the next event.
Receive ==
  /\ Alive /\ Turns
  /\ run \in {"watched", "blocked"}
  /\ run' = IF run = "watched" THEN "blocked" ELSE "watched"
  /\ UNCHANGED <<proc, host, mode, sig, seen, sweep, parked, base, hit, reused, slipped, held, exit>>

\* A signal sent to the engine: with no handler installed a terminate ends the
\* process, and so does an interrupt of an idle session; one that finds a
\* command running is taken by the shell for that command.  One that arrives
\* before the handler received the last of its kind coalesces with it.
Sent(s) ==
  /\ Alive /\ sig.sent < MaxSignals /\ ~sig[s]
  /\ sig' = [sig EXCEPT !.sent = @ + 1, ![s] = @ \/ Handled]
  /\ exit' = IF ~Handled /\ (s = "term" \/ run = "blocked") THEN "signal" ELSE exit
  /\ UNCHANGED <<proc, host, mode, run, seen, sweep, parked, base, hit, reused, slipped, held>>

\* The handler receives one: it is polled only while the thread turns.
Polled == Alive /\ Handled /\ Turns /\ run # "blocked" /\ seen < MaxInterrupts

Receives(s) ==
  /\ Polled /\ sig[s]
  /\ seen' = seen + 1
  /\ sig' = [sig EXCEPT ![s] = FALSE]
  /\ IF s = "term" \/ seen + 1 >= MaxInterrupts THEN Started("force")
     ELSE IF seen > 0 THEN Started("relay")
     ELSE UNCHANGED <<sweep, base>>
  /\ UNCHANGED <<proc, host, mode, run, parked, hit, reused, slipped, held, exit>>

Engine == Walk \/ Signal \/ Grace \/ GraceOver \/ SweepOver \/ RunEnds
Next ==
  \/ Engine
  \/ Receive
  \/ \E s \in {"int", "term"} : Sent(s) \/ Receives(s)
  \/ \E p \in Procs \cup {Me} : Fork(p)
  \/ \E p \in Procs \ Strangers : Exit(p) \/ Reaped(p) \/ Recycle(p) \/ Join(p)
  \/ Orphaned \/ Joined

Spec == Init /\ [][Next]_vars

-----------------------------------------------------------------------------
(* Properties. *)

\* Only processes that descend from a command of this run are ever signalled, also
\* where orphans of others end up below the engine (descendant_pids), but for the case
\* the walk accepts: a pid that was recycled after the walk had listed it and before it
\* was signalled, and what a walk finds below such a one.
StrangersSafe ==
  /\ hit \ Strangers \subseteq slipped
  /\ slipped = {} => hit = {}

Ended(kind) == base.kind = kind /\ sweep.kind = kind /\ exit \in {"own", "forced"}
Told(p) == p \in sweep.unstoppable \/ sweep.truncated \/ sweep.declined \/ host.noReap

\* When a teardown or a forced shutdown is over, every command that was running
\* when it began is dead, or what the sweep reports says that it may not be.
CommandsStopped ==
  \A kind \in {"drain", "force"} :
    Ended(kind) => \A p \in base.own : Live(p) => Told(p)

\* A process that was asked to terminate and did not is killed, or reported:
\* "a terminate first, then a kill for whatever is still there after `GRACE`".
KilledIfDefiant ==
  \A kind \in {"drain", "force"} :
    Ended(kind) => \A p \in sweep.asked : Live(p) => Told(p)

\* A forced shutdown exits as one: the run it cuts short does not return its
\* own code from under it (stop_commands_blocking).
ForcedWins == exit = "own" => base.kind # "force" /\ parked.kind # "force"

\* A SIGTERM is served, in a watch session as in a run, however the session came
\* to watch: until the process has ended, its handler or the sweep that keeps
\* the thread from it can go on, whatever the commands and the files do.  Unless the
\* engine joins the pipes of a command whose background process lives: then nothing
\* is served until that process ends by itself, though "the first `SIGTERM` acts at
\* once" (signals.rs).
TermServed ==
  sig.term /\ Alive /\ ~(held # Me /\ Live(held)) =>
    ENABLED (Walk \/ Signal \/ Grace \/ GraceOver \/ SweepOver \/ Joined \/ Receives("term"))

-----------------------------------------------------------------------------
(* The inductive invariant behind the first, the second and the fourth *)

ParametersOK ==
  /\ Strangers \subseteq Procs /\ {Me, "init", "outside"} \cap Procs = {}
  /\ \A h \in Hosts : h.adopts \in {"no", "pid1", "subreaper"} /\ h.noReap \in BOOLEAN

Sweeps ==
  [kind : {"relay", "drain", "force"}, pass : {"ask", "kill"}, frontier : SUBSET (Procs \cup {Me}),
   kids : SUBSET Procs, found : SUBSET Procs, seen : SUBSET Procs, visited : Nat,
   asked : SUBSET Procs, unstoppable : SUBSET Procs, truncated : BOOLEAN, declined : BOOLEAN,
   walking : BOOLEAN]

TypeOK ==
  /\ proc \in [Procs -> [st : {"none", "live", "zombie", "gone"},
                         par : Procs \cup {Me, "init", "outside"}]]
  /\ host \in Hosts /\ hit \subseteq Procs /\ reused \subseteq Procs /\ slipped \subseteq Procs
  /\ sweep \in Sweeps \cup {NoSweep} /\ parked \in Sweeps \cup {NoSweep}
  /\ base \in [kind : {"none", "drain", "force"}, own : SUBSET Procs]

\* Nobody of this run is the parent of a stranger; a pid that changed hands was let go.
Apart ==
  /\ \A p \in Strangers : proc[p].par \in {"outside", Adopter} \cup reused
  /\ \A p \in reused : p \in Procs \ Strangers /\ proc[p].st = "gone"

\* A command stays a child of the engine until it is dead.
OwnStays == \A p \in base.own : p \notin Strangers /\ proc[p].par = Me /\ proc[p].st # "none"

\* A sweep has only processes of this run in hand, unless a pid slipped from it, and
\* none where it declines; a list of children is read with the walk, and the engine's
\* own first.
InHand(s) ==
  s # NoSweep =>
    /\ Hand(s) \cap reused \subseteq slipped
    /\ slipped = {} => Hand(s) \cap Strangers = {}
    /\ (Declines \/ host.noReap) =>
         ~s.walking /\ s.found = {} /\ s.asked = {} /\ (s.declined \/ host.noReap)
    /\ ~s.walking => s.kids = {}
    /\ s.walking /\ Me \in s.frontier => s.frontier = {Me} /\ s.kids = {} /\ s.seen = {}

\* A command that lives is still to be listed, taken or signalled, was asked in
\* this pass, or is told of.
Reached(p) ==
  \/ Told(p)
  \/ sweep.walking /\ (Me \in sweep.frontier \/ (p \in sweep.kids /\ p \notin sweep.seen))
  \/ p \in sweep.found
  \/ sweep.pass = "ask" /\ p \in sweep.asked
OwnReached == sweep.kind \in {"drain", "force"} => \A p \in base.own : Live(p) => Reached(p)

\* A teardown waits out its grace period only when somebody was asked; a forced
\* shutdown keeps the thread to its end, which is the end of its last pass.
Places ==
  /\ parked # NoSweep =>
       /\ parked.kind = "drain" /\ parked.asked # {} /\ parked.found = {} /\ ~parked.walking
       /\ base.kind # "none"
  /\ sweep.kind \in {"drain", "force"} => base.kind = sweep.kind
  /\ base.kind = "force" => sweep.kind = "force"
  /\ exit \in {"own", "forced"} /\ sweep # NoSweep =>
       ~sweep.walking /\ sweep.found = {} /\ (sweep.pass = "kill" \/ sweep.asked = {})
  /\ exit = "own" => sweep.kind # "force"

ReapInd ==
  /\ TypeOK /\ StrangersSafe /\ Apart /\ OwnStays
  /\ InHand(sweep) /\ InHand(parked) /\ OwnReached /\ Places
=============================================================================
