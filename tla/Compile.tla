------------------------------ MODULE Compile ------------------------------
(***************************************************************************)
(* One call of a task, from its variables to the commands it runs.         *)
(*                                                                         *)
(* The compiler renders the variables, layer by layer (compiler.rs), then  *)
(* the fields of the task (variables.rs), while CHECKSUM is not known yet: *)
(* it holds a pending value which only late fields may read.  Setup runs   *)
(* and changes the tree; resolve expands the loops over files; the sources *)
(* are hashed if something needs it; finalize renders the late fields      *)
(* again.  --summary takes the same way with the fast compile, without     *)
(* setup and without a shell.                                              *)
(*                                                                         *)
(* A template is the set of the variables it reads, and of Test if it      *)
(* compares or tests CHECKSUM the Jinja way; a text is the set of atoms    *)
(* that the rendered string holds, the answer of a test among them.        *)
(***************************************************************************)
EXTENDS Naturals, Sequences, SequencesExt

CONSTANTS
  Programs,  \* declared tasks: [environ, decls, fields, env, cmds, setup,
             \*   deps, late, cache, sources, generates]
  Trees,     \* what the working tree may hold: [rev, files]
  Summary,   \* whether --summary is asked for: a set of booleans
  Names      \* variable names

VARIABLES
  prog, summary,
  tree,      \* the working tree
  phase,
  vars,      \* the compiled variables
  task,      \* the compiled task
  shells,    \* what every shell of the compile was given: [text, env]
  hash,      \* source_hash: a text, empty if it was not computed
  seen,      \* the trees that resolve and source_hash read
  ran        \* the texts of the commands that ran
vs == <<prog, summary, tree, phase, vars, task, shells, hash, seen, ran>>

Pending == <<"pending">>
Test == "is CHECKSUM"
Sum(t) == {<<"sum", t>>}
ListItems == <<"l1", "l2">>
Loops == {"list", "tree"}
EarlyFields == {"dir", "sources", "other"}

(***************************************************************************)
(* templater::Cache: the first error sticks; a read of the pending value   *)
(* is an error outside a late field, or unset when lenient.  Jinja's       *)
(* comparisons and tests do not reach the value: they are answered for     *)
(* whatever it is and nobody notes it.                                     *)
(***************************************************************************)
NewCache == [err |-> FALSE, late |-> FALSE, lenient |-> summary, read |-> FALSE]

Sees(c, v) ==
  [n \in Names |-> IF c.lenient /\ ~c.late /\ Pending \in v[n] THEN {} ELSE v[n]]
Answer(c, v) == {<<"test", Sees(c, v)["CHECKSUM"]>>}
Text(c, t, v) ==
  UNION {Sees(c, v)[n] : n \in t \ {Test}} \union (IF Test \in t THEN Answer(c, v) ELSE {})
ChecksumRead(c) == IF c.late THEN [c EXCEPT !.read = TRUE] ELSE [c EXCEPT !.err = TRUE]
After(c, t, v) ==
  IF ~c.err /\ Pending \in Text(c, t, v) THEN ChecksumRead(c) ELSE c
\* Several strings, in a row.
AfterAll(c, ts, v) ==
  FoldLeft(LAMBDA acc, t : After(acc, t, v), c, ts)
TakeRead(c) == [c EXCEPT !.read = FALSE]

(***************************************************************************)
(* Compiler::compile: every layer renders against the ones before it.      *)
(***************************************************************************)
SetPendingChecksum(v) == [v EXCEPT !["CHECKSUM"] = {Pending}]

\* A task's CHECKSUM stays pending, whatever a layer sets.
Reserved(d) == d.name = "CHECKSUM"

\* env::get_from_vars: the environment of a shell leaves out a pending value.
GetFromVars(v) == UNION {v[n] : n \in {m \in Names : v[m] # {Pending}}}

\* range_var and handle_dynamic_var; the fast compile runs no shell.
RangeVar(st, d) ==
  LET c == After(NewCache, d.text, st.vars)
      text == Text(NewCache, d.text, st.vars)
      Set(value) == [st EXCEPT !.vars[d.name] = value]
  IN  IF st.err \/ Reserved(d) THEN st
      ELSE IF summary THEN Set(IF d.sh THEN {} ELSE text)
      ELSE IF c.err THEN [st EXCEPT !.err = TRUE]
      ELSE IF ~d.sh THEN Set(text)
      ELSE [Set({<<"out", text>>}) EXCEPT
              !.shells = @ \union {[text |-> text, env |-> GetFromVars(st.vars)]}]

Variables ==
  LET start == SetPendingChecksum(prog.environ)
      dir == After(NewCache, prog.fields["dir"], start)
  IN  FoldLeft(RangeVar, [vars |-> start, err |-> dir.err, shells |-> {}], prog.decls)

(***************************************************************************)
(* Commands.                                                               *)
(***************************************************************************)
ReadsTree(cmd) == cmd.loop = "tree"
ItemsFromFor(cmd, t) == IF ReadsTree(cmd) THEN t.files ELSE ListItems
ForExtra(v, item) == [v EXCEPT !["ITEM"] = {<<"item", item>>}]

\* render_late_cmd, on the commands made so far: the body, noted if it read
\* the pending value.
RenderLate(st, cmd, v, item) ==
  LET c == After([st.cache EXCEPT !.late = TRUE], cmd.body, v)
      made == [kind |-> "run", body |-> Text([st.cache EXCEPT !.late = TRUE], cmd.body, v)]
      note == [index |-> Len(st.cmds) + 1, body |-> cmd.body, item |-> item]
  IN  [st EXCEPT !.cache = [TakeRead(c) EXCEPT !.late = FALSE],
                 !.cmds = Append(@, made),
                 !.pending = IF c.read THEN Append(@, note) ELSE @]

\* expand_cmd_loop: what an iteration calls renders now.
ExpandCmdLoop(st, cmd, t, v) ==
  LET Iterate(acc, item) ==
        LET e == ForExtra(v, item)
        IN  RenderLate([acc EXCEPT !.cache = After(@, cmd.call, e)], cmd, e, <<item>>)
  IN  FoldLeft(Iterate, st, ItemsFromFor(cmd, t))

\* check_tree_loop: what a loop over files calls is refused before setup, with
\* an empty item.
CheckTreeLoop(cmd, v) == After(NewCache, cmd.call, [v EXCEPT !["ITEM"] = {}]).err

\* check_deferred: on success, without EXIT_CODE.
DeferredRefused(cmd, v) == After(NewCache, cmd.call, v).err
DeferredReads(cmd, v) == After([NewCache EXCEPT !.late = TRUE], cmd.body, v).read

\* The command loop of compile_run.
CompileCmd(st, cmd) ==
  IF ReadsTree(cmd) THEN [st EXCEPT !.cmds = Append(@, [kind |-> "loop", cmd |-> cmd])]
  ELSE IF cmd.loop = "list" THEN ExpandCmdLoop(st, cmd, tree, st.vars)
  ELSE IF cmd.defer
  THEN [st EXCEPT !.cmds = Append(@, [kind |-> "defer", cmd |-> cmd]),
                  !.refused = @ \/ (~summary /\ DeferredRefused(cmd, st.vars)),
                  !.reads = @ \/ (~summary /\ DeferredReads(cmd, st.vars))]
  ELSE RenderLate([st EXCEPT !.cache = After(@, cmd.call, st.vars)], cmd, st.vars, <<>>)

\* compile_deps, for setup and deps; a loop over files of deps waits.
DepTexts(deps) == [i \in DOMAIN deps |-> deps[i].call]
TreeLoops == {cmd \in Range(prog.cmds) \union Range(prog.deps) : ReadsTree(cmd)}

\* finish_compile: preconditions and the cache block, late; a vk registry
\* derives the URL from the entry's key.
FinishCompile(t, c, v, sum) ==
  LET late == [c EXCEPT !.late = TRUE]
      end == After(late, prog.late, v)
  IN  [t EXCEPT !.late = Text(late, prog.late, v),
                !.url = IF prog.cache = "vk" THEN sum ELSE {},
                !.reads = @ \/ end.read,
                !.refused = @ \/ prog.cache = "vk with url" \/ (~summary /\ end.err)]

\* compiled_task: compile_run, then finish_compile.  A shell of the task's env
\* is given the env built so far, here none.
CompileRun(v) ==
  LET fields == AfterAll(NewCache, <<prog.fields["dir"], prog.fields["sources"],
                                     prog.fields["other"], prog.env.text>>, v)
      runsEnv == ~summary /\ prog.env.sh /\ ~fields.err
      env == IF ~prog.env.sh THEN Text(NewCache, prog.env.text, v)
             ELSE IF summary THEN {} ELSE {<<"out", Text(NewCache, prog.env.text, v)>>}
      start == [vars |-> v, cache |-> fields, cmds |-> <<>>, pending |-> <<>>,
                reads |-> FALSE, refused |-> ~summary /\ fields.err]
      st == FoldLeft(CompileCmd, start, prog.cmds)
      c == AfterAll(st.cache, DepTexts(prog.setup \o
                              SelectSeq(prog.deps, LAMBDA d : ~ReadsTree(d))), v)
      loops == ~summary /\ \E cmd \in TreeLoops : CheckTreeLoop(cmd, v)
      new == [cmds |-> st.cmds, pending |-> st.pending, env |-> env, late |-> {}, url |-> {},
              reads |-> st.reads \/ st.pending # <<>>, refused |-> st.refused \/ loops]
  IN  [task |-> FinishCompile(new, c, v, {}),
       shells |-> IF runsEnv
                  THEN {[text |-> Text(NewCache, prog.env.text, v), env |-> {}]}
                  ELSE {}]

(***************************************************************************)
(* resolve and finalize.                                                   *)
(***************************************************************************)
\* The mutant of Moved: a pending command keeps its old place.
Moved_Same(index, moved) == index

\* expand_tree_loops: a command noted as pending moves with what the loops
\* before it made.
Moved(index, moved) == moved[index]

ExpandTreeLoops(t, v) ==
  LET start == [cache |-> NewCache, cmds |-> <<>>, pending |-> <<>>, moved |-> <<>>]
      Expand(st, cmd) ==
        LET at == [st EXCEPT !.moved = Append(@, Len(st.cmds) + 1)]
        IN  IF cmd.kind = "loop" THEN ExpandCmdLoop(at, cmd.cmd, tree, v)
            ELSE [at EXCEPT !.cmds = Append(@, cmd)]
      st == FoldLeft(Expand, start, t.cmds)
      deps == AfterAll(st.cache, DepTexts(SelectSeq(prog.deps, ReadsTree)), v)
      old == [i \in DOMAIN t.pending |->
                [t.pending[i] EXCEPT !.index = Moved(@, st.moved)]]
  IN  [t EXCEPT !.cmds = st.cmds, !.pending = old \o st.pending,
                !.reads = @ \/ st.pending # <<>>,
                !.refused = ~summary /\ deps.err]

\* Executor::source_hash: hashed only if something needs the value.
Needed(t) == prog.sources /\ (prog.generates \/ t.reads \/ summary)

Finalize(t, v) ==
  LET c == [NewCache EXCEPT !.lenient = FALSE]
      Again(cmds, p) ==
        [cmds EXCEPT ![p.index].body =
           Text(c, p.body, IF p.item = <<>> THEN v ELSE ForExtra(v, p.item[1]))]
      new == [t EXCEPT !.cmds = FoldLeft(Again, @, t.pending), !.pending = <<>>]
  IN  FinishCompile(new, c, v, hash)

(***************************************************************************)
(* The run.                                                                *)
(***************************************************************************)
NoTask == [cmds |-> <<>>, pending |-> <<>>, env |-> {}, late |-> {}, url |-> {},
           reads |-> FALSE, refused |-> FALSE]

Init ==
  /\ prog \in Programs /\ summary \in Summary /\ tree \in Trees
  /\ phase = "start" /\ vars = prog.environ /\ task = NoTask /\ shells = {}
  /\ hash = {} /\ seen = <<tree, tree>> /\ ran = <<>>

\* Executor::compiled_task_with: get_variables.
GetVariables ==
  /\ phase = "start"
  /\ vars' = Variables.vars /\ shells' = Variables.shells
  /\ phase' = IF Variables.err THEN "refused" ELSE "vars"
  /\ UNCHANGED <<prog, summary, tree, task, hash, seen, ran>>

CompiledTask ==
  /\ phase = "vars"
  /\ LET out == CompileRun(vars) IN
     /\ task' = out.task /\ shells' = shells \union out.shells
     /\ phase' = IF out.task.refused THEN "refused"
                 ELSE IF summary THEN "resolve" ELSE "setup"
  /\ UNCHANGED <<prog, summary, tree, vars, hash, seen, ran>>

\* The setup tasks of the call: they leave any tree.
Setup ==
  /\ phase = "setup"
  /\ tree' \in Trees
  /\ phase' = "resolve"
  /\ UNCHANGED <<prog, summary, vars, task, shells, hash, seen, ran>>

\* Executor::resolve_for.
Resolve ==
  /\ phase = "resolve"
  /\ task' = ExpandTreeLoops(task, vars)
  /\ seen' = [seen EXCEPT ![1] = tree]
  /\ phase' = IF task'.refused THEN "refused" ELSE "hash"
  /\ UNCHANGED <<prog, summary, tree, vars, shells, hash, ran>>

SourceHash ==
  /\ phase = "hash"
  /\ hash' = IF Needed(task) THEN Sum(tree) ELSE {}
  /\ seen' = [seen EXCEPT ![2] = tree]
  /\ phase' = "finalize"
  /\ UNCHANGED <<prog, summary, tree, vars, task, shells, ran>>

\* Executor::with_checksum: an empty hash leaves CHECKSUM unset.
WithChecksum ==
  /\ phase = "finalize"
  /\ vars' = [vars EXCEPT !["CHECKSUM"] = hash]
  /\ task' = Finalize(task, vars')
  /\ phase' = IF task'.refused THEN "refused" ELSE "ready"
  /\ UNCHANGED <<prog, summary, tree, shells, hash, seen, ran>>

\* The commands run and end in exit code `code`; run_deferred renders the
\* deferred ones with it.  --summary shows them.
Deferred(cmd, v, code) ==
  Text([NewCache EXCEPT !.lenient = FALSE], cmd.body \union (IF code = 0 THEN {} ELSE cmd.onFail), v)
RunCommands(code) ==
  /\ phase = "ready"
  /\ summary => code = 0
  /\ ran' = [i \in DOMAIN task.cmds |->
               IF task.cmds[i].kind = "defer" THEN Deferred(task.cmds[i].cmd, vars, code)
               ELSE task.cmds[i].body]
  /\ phase' = IF code = 0 THEN "done" ELSE "failed"
  /\ UNCHANGED <<prog, summary, tree, vars, task, shells, hash, seen>>

\* Another process writes the tree.
Edit ==
  /\ phase \in {"hash", "finalize", "ready"}
  /\ tree' \in Trees \ {tree}
  /\ UNCHANGED <<prog, summary, phase, vars, task, shells, hash, seen, ran>>

Next ==
  \/ GetVariables \/ CompiledTask \/ Setup \/ Resolve \/ SourceHash \/ WithChecksum
  \/ \E code \in 0..1 : RunCommands(code)
  \/ Edit
Spec == Init /\ [][Next]_vs

(***************************************************************************)
(* Properties.                                                             *)
(***************************************************************************)
\* What decides what the task runs or reads.
EarlyTexts ==
  {prog.fields[f] : f \in EarlyFields} \union {prog.env.text}
  \union {prog.decls[i].text : i \in {j \in DOMAIN prog.decls : prog.decls[j].name # "CHECKSUM"}}
  \union {c.call : c \in Range(prog.cmds \o prog.setup \o prog.deps)}

\* A run is refused exactly if something that decides what it runs or reads
\* reads CHECKSUM (or its cache block is contradictory), and before its setup
\* runs, whichever way the text is rendered: a loop over files that turns out
\* empty, a deferred call, a variable of any layer, a variable named CHECKSUM.
\* A Jinja comparison or test of CHECKSUM is no read and is let pass.
RefusedExactly ==
  LET early == \E t \in EarlyTexts : "CHECKSUM" \in t IN
  /\ phase = "refused" => (~summary /\ early) \/ prog.cache = "vk with url"
  /\ phase \in {"setup", "resolve", "hash", "finalize", "ready", "done", "failed"} =>
       (early => summary) /\ prog.cache # "vk with url"

\* The reference: the commands of the task rendered once, when CHECKSUM is
\* known, the loops over files with the tree that resolve read.
TrueSum == IF prog.sources THEN Sum(seen[2]) ELSE {}
TrueVars == [vars EXCEPT !["CHECKSUM"] = TrueSum]
Plain == [err |-> FALSE, late |-> TRUE, lenient |-> FALSE, read |-> FALSE]
TrueBodies(cmd) ==
  LET Line(v) == [of |-> cmd.body, text |-> Text(Plain, cmd.body, v)]
      items == ItemsFromFor(cmd, seen[1])
  IN  IF cmd.loop \in Loops
      THEN [i \in DOMAIN items |-> Line(ForExtra(TrueVars, items[i]))]
      ELSE <<Line(TrueVars)>>

\* What is rendered once must be the text, but for the answers to Jinja's tests
\* in a template that does not read CHECKSUM too: they may be the pending
\* value's, or a missing one's.
Untested(text) == {a \in text : a[1] # "test"}
Rendered(t, got, text) ==
  IF Test \in t /\ "CHECKSUM" \notin t THEN Untested(got) = Untested(text) ELSE got = text

\* The commands that run, and the preconditions and the cache block, are what
\* one rendering with the checksum taken after setup gives: rendering them
\* early with a pending value, expanding loops over files later, hashing only
\* if something was seen to read the value and rendering the noted commands
\* again by their index changes nothing but what Rendered excepts.
LateExact ==
  phase = "done" =>
    LET lines == FlattenSeq([i \in DOMAIN prog.cmds |-> TrueBodies(prog.cmds[i])])
    IN  /\ Len(ran) = Len(lines)
        /\ \A i \in DOMAIN ran : Rendered(lines[i].of, ran[i], lines[i].text)
        /\ Rendered(prog.late, task.late, Text(Plain, prog.late, TrueVars))

\* The pending value never leaves the compiler: no shell is given it in its
\* text or its environment, no command runs with it, the task's own
\* environment and the cache URL never hold it.
PendingNeverRuns ==
  /\ \A s \in shells : Pending \notin s.text \union s.env
  /\ phase \in {"ready", "done", "failed"} =>
       /\ Pending \notin task.env \union task.late \union task.url
       /\ \A i \in DOMAIN ran : Pending \notin ran[i]
=============================================================================
