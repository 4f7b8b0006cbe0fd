------------------------------ MODULE MCFiles -------------------------------
(***************************************************************************)
(* Which files a task reads, keeps, restores and may touch.  A behaviour is *)
(* one of EntryPolicy, Glob, Identity or Sandbox on a small                *)
(* instance, so that one run checks them all.                              *)
(***************************************************************************)
EXTENDS Naturals, Sequences, FiniteSets, TLC

CONSTANTS Parts, \* the components that are started
          Projects, Archives, Elsewhere, TempDir, TaskfilePaths, RootFiles, WalkBudget, Generates,
          OutsideLinks, MaxHops, GlobTrees, Lists, Code, Base, Values, Roots, MaxEdits,
          Trees, Tasks, Wild, Root, Calls, Held, Cwd, MaxLinks, MaxMoves

VARIABLES part, \* the component of this behaviour
          disk, archive, tree, at, pc, globs, mode, left, folded, listed, decl, root,
          edits, fs, input, rules, created, ruleset, late, phase, before, moves

E == INSTANCE EntryPolicy
G == INSTANCE Glob WITH Trees <- GlobTrees
I == INSTANCE Identity
S == INSTANCE Sandbox

\* The cases, which do not depend on the constants they are values of.
EntryCases == INSTANCE EntryPolicy WITH
  Projects <- {}, Archives <- {}, Elsewhere <- <<>>, TempDir <- <<>>, TaskfilePaths <- {}, RootFiles <- {},
  Generates <- {}
GlobCases == INSTANCE MCGlob WITH Trees <- {}, Lists <- {}, Code <- <<>>
SandboxCases == INSTANCE MCSandbox WITH
  Trees <- {}, Tasks <- {}, Wild <- {}, Root <- <<>>, Cwd <- <<>>, Calls <- {}, Held <- {}

MCPaths == {<<x>> : x \in {"a", "b"}} \union {<<x, y>> : x, y \in {"a", "b"}}
MCElse == <<"elsewhere">>
MCTemp == <<".task">>
MCTaskfiles == {<<"T">>}
MCRootFiles == {"R"}
\* What an archive may hold: links that stay inside and that do not, files, directories.
Node(content) == EntryCases!File(content)
LinkTo(target) == EntryCases!Link(FALSE, target)
Links == {LinkTo(t) : t \in {<<"..">>, <<"a">>, <<"b">>, <<"a", "b">>, <<"..", "b">>, <<"..", "..">>,
            <<"b", "..", "..">>, <<"T">>, <<"..", "T">>, <<"a", "..", "T">>, <<"b", ".git">>, <<"R">>}}
         \union {EntryCases!Link(TRUE, t) : t \in {<<"T">>, MCElse}}
Entry(name, abs, node) == [name |-> name, abs |-> abs, node |-> node]
Entries == {Entry(p, FALSE, n) : p \in MCPaths, n \in Links \union {Node("new"), EntryCases!Dir}}
   \union {Entry(p, FALSE, Node("new")) : p \in {<<"..", "a">>, <<"a", ".", "b">>, <<".git">>}}
   \union {Entry(<<"a">>, TRUE, Node("new"))}
MCArchives == {<<e>> : e \in Entries} \union {<<e, f>> : e, f \in Entries}
\* The projects it is restored into.
OnlyT == <<"T">> :> Node("tasks")
MCProjects == {OnlyT, OnlyT @@ <<"a">> :> EntryCases!Dir,
   OnlyT @@ <<"b">> :> LinkTo(<<"a">>) @@ <<"a">> :> EntryCases!Dir,
   OnlyT @@ <<"b">> :> LinkTo(<<"..">>),
   OnlyT @@ <<"b">> :> EntryCases!Dir @@ <<"b", "a">> :> LinkTo(<<"..", "T">>),
   OnlyT @@ <<"a">> :> EntryCases!Dir @@ <<"a", ".git">> :> EntryCases!Dir,
   OnlyT @@ <<"a">> :> EntryCases!Dir @@ <<"a", "a">> :> Node("old") @@ <<"a", "b">> :> EntryCases!Dir,
   OnlyT @@ <<"a">> :> EntryCases!Link(TRUE, MCElse)}
MCGlobTrees == GlobCases!MCTrees
MCLists == GlobCases!MCLists
MCCode == GlobCases!MCCode
\* A task and the values its fields are edited to.
V(s, d) == [value |-> <<[t |-> "string", v |-> s]>>, live |-> <<>>, sh |-> <<>>, ref |-> <<>>, dir |-> <<>>, dialect |-> d]
Vsh(s) == [value |-> <<>>, live |-> <<>>, sh |-> <<s>>, ref |-> <<>>, dir |-> <<>>, dialect |-> 0]
Vnull == [value |-> <<[t |-> "null"]>>, live |-> <<>>, sh |-> <<>>, ref |-> <<>>, dir |-> <<>>, dialect |-> 0]
MCTexts == {<<>>, <<1>>, <<1, 1>>, <<2>>}
C0 == [cmd |-> <<1>>, task |-> <<>>, for |-> <<>>, if |-> <<>>, silent |-> FALSE, vars |-> <<>>, ignoreError |-> FALSE, defer |-> FALSE]
F0 == [from |-> <<1>>, list |-> <<>>, matrix |-> <<>>, var |-> <<>>, split |-> <<>>, as |-> <<>>]
F1 == [F0 EXCEPT !.from = <<>>, !.list = <<[t |-> "bool", v |-> TRUE], [t |-> "number", v |-> <<1>>]>>]
F2 == [F0 EXCEPT !.from = <<>>, !.matrix = <<<< <<<<1>>, [ref |-> <<>>, value |-> <<[t |-> "seq", v |-> <<[t |-> "string", v |-> <<2>>]>>]>>]>> >>>>]
F3 == [F0 EXCEPT !.from = <<>>, !.list = <<[t |-> "map", v |-> << <<[t |-> "string", v |-> <<1>>], [t |-> "null"]>> >>]>>]
F4 == [F0 EXCEPT !.from = <<>>, !.list = <<[t |-> "tagged", tag |-> <<1>>, v |-> [t |-> "string", v |-> <<1>>]]>>]
MCCmds == {<<>>, <<[C0 EXCEPT !.for = <<F4>>]>>, <<C0>>, <<C0, C0>>, <<[C0 EXCEPT !.cmd = <<1, 1>>]>>, <<[C0 EXCEPT !.cmd = <<>>, !.task = <<1>>]>>,
  <<[C0 EXCEPT !.for = <<F0>>]>>, <<[C0 EXCEPT !.for = <<F1>>]>>, <<[C0 EXCEPT !.for = <<F2>>]>>, <<[C0 EXCEPT !.for = <<F3>>]>>,
  <<[C0 EXCEPT !.vars = <<<<>>>>]>>, <<[C0 EXCEPT !.vars = << << <<<<1>>, V(<<1>>, 0)>> >> >>]>>, <<[C0 EXCEPT !.defer = TRUE]>>}
D0 == [task |-> <<1>>, for |-> <<>>, vars |-> <<>>, silent |-> FALSE, fingerprint |-> <<>>]
MCDeps == {<<>>, <<D0>>, <<[D0 EXCEPT !.fingerprint = <<FALSE>>]>>, <<[D0 EXCEPT !.silent = TRUE]>>}
G0 == [glob |-> <<1>>, negate |-> FALSE, fingerprint |-> <<>>, group |-> 0, task |-> <<>>, from |-> <<>>, vars |-> <<>>]
MCGlobs == {<<>>, <<G0>>, <<G0, G0>>, <<[G0 EXCEPT !.negate = TRUE]>>, <<[G0 EXCEPT !.fingerprint = <<1>>]>>, <<[G0 EXCEPT !.group = 1]>>, <<[G0 EXCEPT !.group = 2]>>,
  <<[G0 EXCEPT !.glob = <<1, 1>>]>>}
MCVars == {<<>>, <<<<>>>>, << << <<<<1>>, V(<<1>>, 0)>> >> >>, << << <<<<1>>, V(<<1>>, 1)>> >> >>, << << <<<<1>>, Vsh(<<1>>)>> >> >>, << << <<<<1>>, Vnull>> >> >>,
   << << <<<<1>>, V(<<1>>, 0)>>, <<<<2>>, V(<<1>>, 0)>> >> >>}
MCBase == [local |-> <<1>>, setup |-> <<>>, cmds |-> <<>>, deps |-> <<>>, label |-> <<>>, requires |-> <<>>, aliases |-> <<>>, sources |-> <<>>, generates |-> <<>>,
  cache |-> <<>>, preconditions |-> <<>>, dirs |-> <<>>, dir |-> <<1>>, dotenv |-> <<>>, silent |-> <<>>, ignoreError |-> FALSE, run |-> <<>>, location |-> <<[line |-> 1, taskfile |-> <<1>>]>>,
  env |-> <<>>, vars |-> <<>>, includeVars |-> <<>>]
MCValues == [local |-> {<<1>>, <<2>>}, setup |-> MCDeps, deps |-> MCDeps, cmds |-> MCCmds, label |-> MCTexts, aliases |-> {<<>>, <<<<1>>>>}, sources |-> MCGlobs, generates |-> MCGlobs,
  requires |-> {<<>>, <<<<>>>>, << << [name |-> <<1>>, enum |-> <<<<1>>>>] >> >>, << << [name |-> <<1>>, enum |-> <<>>], [name |-> <<1>>, enum |-> <<>>] >> >>},
  cache |-> {<<>>, <<[inherit |-> <<1>>, enabled |-> <<>>, url |-> <<>>, namespace |-> <<>>]>>, <<[inherit |-> <<>>, enabled |-> <<TRUE>>, url |-> <<1>>, namespace |-> <<>>]>>},
  preconditions |-> {<<>>, <<[sh |-> <<1>>, msg |-> <<>>]>>, <<[sh |-> <<>>, msg |-> <<1>>]>>},
  dir |-> {<<>>, <<1>>, <<1, 2>>}, dotenv |-> {<<>>, <<<<1>>>>, <<<<1>>, <<2>>>>}, silent |-> {<<>>, <<FALSE>>, <<TRUE>>}, ignoreError |-> BOOLEAN, run |-> MCTexts,
  location |-> {<<>>, <<[line |-> 1, taskfile |-> <<1>>]>>, <<[line |-> 2, taskfile |-> <<1>>]>>, <<[line |-> 2, taskfile |-> <<2>>]>>},
  env |-> MCVars, vars |-> MCVars, includeVars |-> MCVars]
MCRoots == {<<3, 1>>, <<3, 2, 2>>}
MCTrees == SandboxCases!MCTrees
MCTasks == SandboxCases!MCTasks
MCWild == SandboxCases!MCWild
MCRoot == SandboxCases!MCRoot
MCCwd == SandboxCases!MCCwd
MCCalls == SandboxCases!MCCalls
MCHeld == SandboxCases!MCHeld

-----------------------------------------------------------------------------
\* The variables only one component has, and their value in the behaviours of
\* the others.
Off == <<>>
ownEntry == <<disk, archive, at, pc>>
ownGlob == <<globs, mode, left, folded, listed>>
ownIdentity == <<decl, root, edits>>
ownSandbox == <<fs, input, rules, created, ruleset, late, phase, before, moves>>
NoEntry == disk = Off /\ archive = Off /\ at = Off /\ pc = Off
NoGlob == globs = Off /\ mode = Off /\ left = Off /\ folded = Off /\ listed = Off
NoIdentity == decl = Off /\ root = Off /\ edits = Off
NoSandbox == fs = Off /\ input = Off /\ rules = Off /\ created = Off /\ ruleset = Off /\
             late = Off /\ phase = Off /\ before = Off /\ moves = Off
everything == <<part, tree, ownEntry, ownGlob, ownIdentity, ownSandbox>>

Init ==
  /\ part \in Parts
  /\ \/ /\ part = "entry" /\ E!Init
        /\ NoGlob /\ NoIdentity /\ NoSandbox
     \/ /\ part = "glob" /\ G!Init
        /\ NoEntry /\ NoIdentity /\ NoSandbox
     \/ /\ part = "identity" /\ I!Init
        /\ tree = Off /\ NoEntry /\ NoGlob /\ NoSandbox
     \/ /\ part = "sandbox" /\ S!Init
        /\ tree = Off /\ NoEntry /\ NoGlob /\ NoIdentity

Next ==
  \/ /\ part = "entry" /\ E!Next
     /\ UNCHANGED <<part, ownGlob, ownIdentity, ownSandbox>>
  \/ /\ part = "glob" /\ G!Next
     /\ UNCHANGED <<part, ownEntry, ownIdentity, ownSandbox>>
  \/ /\ part = "identity" /\ I!Next
     /\ UNCHANGED <<part, tree, ownEntry, ownGlob, ownSandbox>>
  \/ /\ part = "sandbox" /\ S!Next
     /\ UNCHANGED <<part, tree, ownEntry, ownGlob, ownIdentity>>

Spec == Init /\ [][Next]_everything

-----------------------------------------------------------------------------
\* A restore writes only the names of its entries, through no link, its links
\* lead nowhere outside the project or to what Task reads, and what a save takes
\* its own restore accepts (cache/archive.rs, ocicas restore policy).
RestoreConfined == part = "entry" => E!LinksConfined /\ E!OnlyItsNames /\ E!SavedIsTaken

\* A pruned walk lists what walking everything and matching every exclusion
\* would, the cache matcher covers it, and star_match decides what a pattern
\* means (fingerprint/glob.rs).
GlobExact == part = "glob" => G!PruningKeeps /\ G!MatcherCovers /\ G!StarMatchExact

\* The identity of a task changes exactly with what it means, wherever the
\* project lies, and no two variable blocks share a digest (hash.rs,
\* sources_checksum.rs, cache/mod.rs).
IdentityTold ==
  [][part = "identity" => I!SameIdentity /\ I!SameVars]_<<part, decl, root, edits>>

\* Commands reach only what the task declares, but by a call slower than a change
\* after its check or a truncation under ABI 2; both back ends decide alike,
\* what is declared works, and the end of the sandbox removes only what it made
\* (sandbox/policy.rs, seccomp.rs, landlock.rs).
SandboxHolds ==
  /\ [](part = "sandbox" => S!OnlyDeclared /\ S!DeclaredWorks)
  /\ [][part = "sandbox" => S!CleansUp]_<<part, fs, input, created, phase>>
=============================================================================
