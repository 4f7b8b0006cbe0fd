----------------------------- MODULE Supervisor -----------------------------
(***************************************************************************)
(* How sandboxed commands are run and watched: taskcore/src/sandbox/mod.rs  *)
(* (Backend::pick, Layers, Worker, restriction, for_condition), the loop of *)
(* sandbox/seccomp.rs (probe, install, supervise, record, note, stop) and   *)
(* what executor/run.rs makes of it (condition_sandbox, report_sandbox,     *)
(* sandbox_verdict).                                                        *)
(*                                                                          *)
(* Commands of the same task run concurrently under one set of layers, and  *)
(* so share a worker thread, a filter and its supervisor.  What a checked   *)
(* call deserves (module Sandbox) is its kind here: "fine", "refused",      *)
(* "unchecked" (its paths cannot be read) or "foreign" (another             *)
(* architecture's).  A command is its process tree: what it leaves in the   *)
(* background stays under its layers, and makes checked calls after the     *)
(* engine has given its verdict.                                            *)
(***************************************************************************)
EXTENDS Naturals, FiniteSets

CONSTANTS
  Cmds,     \* commands
  Ifs,      \* those that are the `if` of a command
  Envs,     \* machines: [mode, abi, probe, busy, continue]
  MaxCalls  \* bound: checked calls a command's processes make

Kinds == {"fine", "refused", "unchecked", "foreign"}
Layers == {"main", "cond"}
NoOne == "no one"

VARIABLES env,      \* the machine
          backend,  \* sandbox_backend, "unknown" until resolved
          worker,   \* of each layers: "no", "start", "ready", "failed"
          unenforced,
          listener, \* the filter's listener: "none", "open", "closed"
          sup,      \* the supervisor of each layers: [pc, of, id, verdict]
          seen,     \* denials the supervisor has recorded
          out,      \* Seen::denials, not reported yet
          count,    \* Seen::count
          pc,       \* of a command's processes: "new", "start", "run", "blocked", "over", "dead"
          result,   \* the engine's verdict on it: "none", "ok", "failed"
          layers,   \* what it runs under, or "free"
          before,   \* the count when it began
          call,     \* the call it is blocked in: [id, kind]
          shown,    \* history: denials shown, of each layers
          hurt,     \* history: commands denied a call of their own before their verdict
          late,     \* history: commands whose background process was denied after it
          made      \* history: the kinds of calls made under each layers

vars == <<env, backend, worker, unenforced, listener, sup, seen, out, count, pc, result, layers, before, call, shown, hurt, late, made>>
engine == <<env, backend, worker, unenforced, listener>>
history == <<shown, hurt, late, made>>

Idle == [pc |-> "poll", of |-> NoOne, id |-> 0, verdict |-> "fine"]

Machines == [mode : {"off", "auto", "landlock", "seccomp", "audit"}, abi : BOOLEAN,
             probe : BOOLEAN, busy : BOOLEAN, continue : BOOLEAN]
ParametersOK == Envs \subseteq Machines /\ MaxCalls \in Nat

SupStates == [pc : {"poll", "got", "checked", "answer", "ended"},
              of : Cmds \union {NoOne}, id : Nat, verdict : Kinds]

TypeOK ==
  /\ env \in Machines /\ backend \in {"unknown", "landlock", "seccomp", "audit", "none", "error"}
  /\ worker \in [Layers -> {"no", "start", "ready", "failed"}] /\ unenforced \in [Layers -> BOOLEAN]
  /\ listener \in [Layers -> {"none", "open", "closed"}]
  /\ sup \in [Layers -> SupStates]
  /\ seen \in [Layers -> SUBSET Kinds] /\ out \in [Layers -> SUBSET Kinds]
  /\ count \in [Layers -> Nat]
  /\ pc \in [Cmds -> {"new", "start", "run", "blocked", "over", "dead"}]
  /\ result \in [Cmds -> {"none", "ok", "failed"}]
  /\ layers \in [Cmds -> Layers \union {"free"}] /\ before \in [Cmds -> Nat]
  /\ call \in [Cmds -> [id : Nat, kind : Kinds]]
  /\ shown \in [Layers -> SUBSET Kinds] /\ hurt \in SUBSET Cmds
  /\ late \in SUBSET Cmds /\ made \in [Layers -> SUBSET Kinds]

Init ==
  /\ env \in Envs /\ backend = "unknown"
  /\ worker = [l \in Layers |-> "no"] /\ unenforced = [l \in Layers |-> FALSE]
  /\ listener = [l \in Layers |-> "none"] /\ sup = [l \in Layers |-> Idle]
  /\ seen = [l \in Layers |-> {}] /\ out = [l \in Layers |-> {}] /\ count = [l \in Layers |-> 0]
  /\ pc = [c \in Cmds |-> "new"] /\ result = [c \in Cmds |-> "none"] /\ layers = [c \in Cmds |-> "free"]
  /\ before = [c \in Cmds |-> 0] /\ call = [c \in Cmds |-> [id |-> 0, kind |-> "fine"]]
  /\ shown = [l \in Layers |-> {}] /\ hurt = {} /\ late = {} /\ made = [l \in Layers |-> {}]

(***************************************************************************)
(* Setting up.                                                             *)
(***************************************************************************)
\* Backend::pick.
Pick(e) ==
  CASE e.mode = "off" -> "none"
    [] e.mode \in {"auto", "landlock"} /\ e.abi -> "landlock"
    [] e.mode = "landlock" /\ ~e.abi -> "error"
    [] e.mode = "auto" /\ ~e.abi -> IF e.probe THEN "seccomp" ELSE "none"
    [] e.mode \in {"seccomp", "audit"} -> IF e.probe THEN e.mode ELSE "error"

\* sandbox_backend: a mode that cannot be had fails the task.
Resolve ==
  /\ backend = "unknown" /\ backend' = Pick(env)
  /\ IF Pick(env) = "error"
     THEN pc' = [c \in Cmds |-> "over"] /\ result' = [c \in Cmds |-> "failed"]
     ELSE UNCHANGED <<pc, result>>
  /\ UNCHANGED <<env, worker, unenforced, listener, sup, seen, out, count, layers, before, call, history>>

\* for_condition and command_env: the layers a command runs under.
LayersOf(c) ==
  IF backend = "none" THEN "free"
  ELSE IF c \in Ifs /\ backend = "landlock" THEN (IF env.probe THEN "cond" ELSE "free")
  ELSE "main"

\* How layers are enforced.
By(l) == IF l = "cond" THEN "seccomp" ELSE backend

\* The command begins: denial_count is read, then Sandbox::run starts the
\* worker on first use.
Begin(c) ==
  /\ pc[c] = "new" /\ backend \notin {"unknown", "error"}
  /\ LET l == LayersOf(c)
     IN  /\ layers' = [layers EXCEPT ![c] = l]
         /\ IF l = "free"
            THEN pc' = [pc EXCEPT ![c] = "run"] /\ UNCHANGED <<before, worker>>
            ELSE /\ pc' = [pc EXCEPT ![c] = "start"] /\ before' = [before EXCEPT ![c] = count[l]]
                 /\ worker' = [worker EXCEPT ![l] = IF @ = "no" THEN "start" ELSE @]
  /\ UNCHANGED <<env, backend, unenforced, listener, sup, seen, out, count, result, call, history>>

\* Worker::start, restriction and install.  EBUSY: this process is already
\* under a supervisor, whose layers are the only ones checked.
StartWorker(l) ==
  /\ worker[l] = "start"
  /\ \/ worker' = [worker EXCEPT ![l] = "failed"] /\ UNCHANGED <<unenforced, listener>>
     \/ /\ By(l) = "landlock" \/ env.probe
        /\ worker' = [worker EXCEPT ![l] = "ready"]
        /\ unenforced' = [unenforced EXCEPT ![l] = By(l) # "landlock" /\ env.busy]
        /\ listener' = [listener EXCEPT ![l] = IF By(l) # "landlock" /\ ~env.busy THEN "open" ELSE @]
  /\ UNCHANGED <<env, backend, sup, seen, out, count, pc, result, layers, before, call, history>>

\* The job is sent to the worker; without one the command, or condition, fails.
Enter(c) ==
  /\ pc[c] = "start" /\ worker[layers[c]] \in {"ready", "failed"}
  /\ IF worker[layers[c]] = "ready"
     THEN pc' = [pc EXCEPT ![c] = "run"] /\ UNCHANGED result
     ELSE pc' = [pc EXCEPT ![c] = "over"] /\ result' = [result EXCEPT ![c] = "failed"]
  /\ UNCHANGED <<engine, sup, seen, out, count, layers, before, call, history>>

(***************************************************************************)
(* Commands.                                                               *)
(***************************************************************************)
\* A checked call, of the command or of what it left in the background; with the
\* listener gone it fails with ENOSYS.
MakeCall(c, k) ==
  /\ pc[c] = "run" /\ layers[c] # "free" /\ call[c].id < MaxCalls
  /\ listener[layers[c]] # "none"
  /\ call' = [call EXCEPT ![c] = [id |-> @.id + 1, kind |-> k]]
  /\ pc' = [pc EXCEPT ![c] = IF listener[layers[c]] = "open" THEN "blocked" ELSE @]
  /\ made' = [made EXCEPT ![layers[c]] = @ \union {k}]
  /\ UNCHANGED <<engine, sup, seen, out, count, result, layers, before, shown, hurt, late>>

\* Cancelled: its processes are killed, a call left without an answer.
Die(c) ==
  /\ pc[c] \in {"run", "blocked"} /\ result[c] = "none" /\ pc' = [pc EXCEPT ![c] = "dead"]
  /\ UNCHANGED <<engine, sup, seen, out, count, result, layers, before, call, history>>

\* What the command left in the background exits or is killed, also in a call.
LeftoverEnds(c) ==
  /\ pc[c] \in {"run", "blocked"} /\ result[c] # "none" /\ pc' = [pc EXCEPT ![c] = "over"]
  /\ UNCHANGED <<engine, sup, seen, out, count, result, layers, before, call, history>>

\* Mutant: only denials still to be shown fail the command.
Denied_New(c) == layers[c] # "free" /\ By(layers[c]) # "audit" /\ \E d \in out[layers[c]] : d # "foreign"
\* report_sandbox and sandbox_verdict: any denial under the layers since it began
\* fails the command, whatever its exit status.  A process it left behind runs on, the
\* call it may be held in included.
Denied(c) == layers[c] # "free" /\ By(layers[c]) # "audit" /\ count[layers[c]] > before[c]
End(c) ==
  /\ pc[c] \in {"run", "blocked"} /\ result[c] = "none"
  /\ result' = [result EXCEPT ![c] = IF Denied(c) THEN "failed" ELSE "ok"]
  /\ UNCHANGED pc \/ (pc[c] = "run" /\ pc' = [pc EXCEPT ![c] = "over"])
  /\ IF layers[c] = "free" THEN UNCHANGED <<out, shown>>
     ELSE /\ shown' = [shown EXCEPT ![layers[c]] = @ \union out[layers[c]]]
          /\ out' = [out EXCEPT ![layers[c]] = {}]
  /\ UNCHANGED <<engine, sup, seen, count, layers, before, call, hurt, late, made>>

(***************************************************************************)
(* The supervisor.                                                         *)
(***************************************************************************)
Waiting(l, c, id) == pc[c] = "blocked" /\ layers[c] = l /\ call[c].id = id

Receive(l) ==
  /\ sup[l].pc = "poll" /\ listener[l] = "open"
  /\ \E c \in Cmds : /\ pc[c] = "blocked" /\ layers[c] = l
                     /\ sup' = [sup EXCEPT ![l] = [pc |-> "got", of |-> c, id |-> call[c].id, verdict |-> "fine"]]
  /\ UNCHANGED <<engine, seen, out, count, pc, result, layers, before, call, history>>

\* accesses and judge.  Once the caller is gone its pid may be another's, and
\* what is read is anything.
Check(l) ==
  /\ sup[l].pc = "got"
  /\ \E k \in Kinds : /\ Waiting(l, sup[l].of, sup[l].id) => k = call[sup[l].of].kind
                      /\ sup' = [sup EXCEPT ![l].pc = "checked", ![l].verdict = k]
  /\ UNCHANGED <<engine, seen, out, count, pc, result, layers, before, call, history>>

\* record and note: every denial counts but a foreign call's; each is listed once.
Recorded(l, d) ==
  /\ seen' = [seen EXCEPT ![l] = @ \union {d}]
  /\ out' = [out EXCEPT ![l] = IF d \in seen[l] THEN @ ELSE @ \union {d}]
  /\ count' = [count EXCEPT ![l] = IF d = "foreign" THEN @ ELSE @ + 1]

\* A denial recorded of a command that has its verdict.
Noted(c) == late' = IF result[c] = "none" THEN late ELSE late \union {c}

\* id_valid, then the denial is recorded before the answer.
Record(l) ==
  /\ sup[l].pc = "checked"
  /\ IF ~Waiting(l, sup[l].of, sup[l].id)
     THEN sup' = [sup EXCEPT ![l] = Idle] /\ UNCHANGED <<seen, out, count, late>>
     ELSE /\ sup' = [sup EXCEPT ![l].pc = "answer"]
          /\ IF sup[l].verdict = "fine" THEN UNCHANGED <<seen, out, count, late>>
             ELSE Recorded(l, sup[l].verdict) /\ Noted(sup[l].of)
  /\ UNCHANGED <<engine, pc, result, layers, before, call, shown, hurt, made>>

\* send: EACCES, or let it through.  A kernel that cannot let it through has it
\* failed, recorded as unchecked.  The caller may be gone by now.
Answer(l) ==
  /\ sup[l].pc = "answer" /\ sup' = [sup EXCEPT ![l] = Idle]
  /\ LET c == sup[l].of
         k == sup[l].verdict
         deny == k # "fine" /\ By(l) # "audit"
         there == Waiting(l, c, sup[l].id)
     IN  /\ pc' = IF there THEN [pc EXCEPT ![c] = "run"] ELSE pc
         /\ hurt' = IF there /\ (deny \/ ~env.continue) /\ k # "foreign" /\ result[c] = "none"
                    THEN hurt \union {c} ELSE hurt
         /\ IF there /\ ~deny /\ ~env.continue THEN Recorded(l, "unchecked") /\ Noted(c)
            ELSE UNCHANGED <<seen, out, count, late>>
  /\ UNCHANGED <<engine, result, layers, before, call, shown, made>>

\* stop: polling or receiving failed.  The listener goes with the supervisor,
\* and calls pending or to come fail with ENOSYS.
Stop(l) ==
  /\ sup[l].pc = "poll" /\ listener[l] = "open" /\ Recorded(l, "unchecked")
  /\ sup' = [sup EXCEPT ![l].pc = "ended"]
  /\ listener' = [listener EXCEPT ![l] = "closed"]
  /\ pc' = [c \in Cmds |-> IF pc[c] = "blocked" /\ layers[c] = l THEN "run" ELSE pc[c]]
  /\ UNCHANGED <<env, backend, worker, unenforced, result, layers, before, call, history>>

Supervise(l) == Receive(l) \/ Check(l) \/ Record(l) \/ Answer(l)

Next ==
  \/ Resolve
  \/ \E c \in Cmds : Begin(c) \/ Enter(c) \/ Die(c) \/ LeftoverEnds(c) \/ End(c)
  \/ \E c \in Cmds, k \in Kinds : MakeCall(c, k)
  \/ \E l \in Layers : StartWorker(l) \/ Receive(l) \/ Check(l) \/ Record(l) \/ Answer(l) \/ Stop(l)
Spec == Init /\ [][Next]_vars

(***************************************************************************)
(* Properties.                                                             *)
(***************************************************************************)
\* A command that was denied something before its verdict never passes: of the
\* commands that share a supervisor, one whose own call was answered EACCES (or
\* could not be let through) does not end well (sandbox_verdict: its outputs cannot
\* be trusted), unless only auditing.  A background process denied later counts
\* against the commands that still run under the layers, and no longer against its
\* own: the guide's "any denial fails the task" is not true of it.
DeniedFails ==
  \A c \in Cmds : c \in hurt /\ result[c] = "ok" => backend = "audit"

\* What is reported happened: a denial is recorded only if some call under the
\* layers was of that kind, whatever the pid of a dead caller stands for
\* (supervise: id_valid); an Unchecked may be the supervisor's own end or
\* the kernel's.
OnlyOwnDenials ==
  \A l \in Layers : seen[l] \ {"unchecked"} \subseteq made[l]

\* No denial is lost: once every command under the layers has its verdict, every
\* denial has been shown, by one or another of them, unless one of them died, what
\* one left behind was denied after its verdict, or the supervisor ended.
NothingUnshown ==
  \A l \in Layers :
    (\A c \in Cmds : layers[c] = l => result[c] # "none" /\ c \notin late)
       /\ sup[l].pc # "ended" => out[l] = {}

\* A call the filter holds is answered, or fails once the supervisor has ended:
\* as long as a command waits, its worker, its supervisor or itself can go on.
Answered ==
  \A c \in Cmds : pc[c] \in {"blocked", "start"} =>
    ENABLED (Enter(c) \/ Supervise(layers[c]) \/ StartWorker(layers[c]))

-----------------------------------------------------------------------------
(* The inductive invariant behind the first three                          *)

\* Before the backend is resolved no command has begun, and a command that has not
\* begun is under no layers.
NotBegun ==
  /\ backend = "unknown" => hurt = {} /\ \A c \in Cmds : pc[c] = "new"
  /\ \A c \in Cmds : pc[c] = "new" => layers[c] = "free" /\ c \notin hurt /\ result[c] = "none"

\* What a command was denied counts against it: the count was no less when it began.
Counted ==
  \A c \in Cmds :
    /\ layers[c] \in Layers => before[c] <= count[layers[c]]
    /\ c \in hurt => layers[c] \in Layers /\ before[c] < count[layers[c]]

\* A call the filter holds was made under the layers it is held by.
Held == \A c \in Cmds : pc[c] = "blocked" => layers[c] \in Layers /\ call[c].kind \in made[layers[c]]

\* The supervisor has a call of a command under its layers in hand; as long as that
\* call waits it is the call that was judged, and once recorded it counts.
Judged(l) ==
  sup[l].pc \in {"got", "checked", "answer"} =>
    LET c == sup[l].of IN
    /\ c \in Cmds /\ layers[c] = l /\ pc[c] # "new" /\ sup[l].id <= call[c].id
    /\ sup[l].pc # "got" /\ Waiting(l, c, sup[l].id) => sup[l].verdict = call[c].kind
    /\ sup[l].pc = "answer" /\ sup[l].verdict \notin {"fine", "foreign"} => before[c] < count[l]

\* A denial not shown yet has someone to show it, or who died before or has got
\* its verdict already.
ToBeShown(l) ==
  out[l] # {} /\ sup[l].pc # "ended" =>
    \E c \in Cmds : layers[c] = l /\ pc[c] # "start" /\ (result[c] = "none" \/ c \in late)

SupervisorInd ==
  /\ TypeOK /\ NotBegun /\ Counted /\ Held /\ DeniedFails /\ OnlyOwnDenials
  /\ \A l \in Layers : Judged(l) /\ ToBeShown(l)
=============================================================================
