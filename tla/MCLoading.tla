----------------------------- MODULE MCLoading ------------------------------
(***************************************************************************)
(* What an invocation reads before a command runs: the text of a Taskfile  *)
(* (Decode), its includes (Taskfiles), its templates (Template), its tasks *)
(* (Compile), and what they refer to (Reach).  A behaviour is one of these *)
(* on a small instance.                                                    *)
(***************************************************************************)
EXTENDS Naturals, Sequences, FiniteSets

CONSTANTS Parts, \* the components that are started
          Scalars, Tags, Beginnings, MaxMore, RecursionLimit, AliasFactor, Projects,
          FileVars, Programs, Trees, Summary, Names, Graphs, Referrer, MaxCallsPerTask,
          MaxCalls, Actions

VARIABLES part, \* the component of this behaviour
          events, aliases, rest, begun, result, project, level, stack, order, edges,
          files, todo, folds, status, prog, summary, tree, phase, vars, task, shells,
          hash, seen, ran, graph, kind, walk, run, field, counted, groups, out, written,
          dialect, text, shown

D == INSTANCE Decode
T == INSTANCE Taskfiles WITH Vars <- FileVars
C == INSTANCE Compile
R == INSTANCE Reach
G == INSTANCE Template

\* The cases, which do not depend on the constants they are values of.
DecodeCases == INSTANCE Decode WITH Scalars <- {}, Tags <- {}, Beginnings <- {}
TaskfilesCases == INSTANCE MCTaskfiles WITH Projects <- {}, Vars <- {}
CompileCases == INSTANCE MCCompile WITH Programs <- {}, Trees <- {}, Names <- {}
TemplateCases == INSTANCE Template WITH Actions <- {}

MCScalars == {[text |-> "x", style |-> "plain", tag |-> "none"],
              [text |-> "int128", style |-> "plain", tag |-> "none"],
              [text |-> "", style |-> "plain", tag |-> "!t"]}
MCTags == {"none"}
Begin(what) == DecodeCases!Event(what, "none")
Word(t) == [Begin("scalar") EXCEPT !.text = t]
Tagged(t, tag) == [Word(t) EXCEPT !.tag = tag]
Anchor(e, i) == [e EXCEPT !.id = i]
AliasOf(i) == [Begin("alias") EXCEPT !.of = i]
\* Aliases of aliases: [&1 [x], &2 [*1, *1], &3 [*2, *2]
Laughs == <<Begin("seq"), Anchor(Begin("seq"), 1), Word("x"), Begin("end"),
            Anchor(Begin("seq"), 2), AliasOf(1), AliasOf(1), Begin("end"),
            Anchor(Begin("seq"), 3), AliasOf(2), AliasOf(2), Begin("end")>>
\* {&1 x: &2 [y], int999: ... and one of scalars of every class
Mapping == <<Begin("map"), Anchor(Word("x"), 1), Anchor(Begin("seq"), 2), Word("int999"), Begin("end")>>
Classes == <<Begin("seq"), Word("null"), Word("int"), Word("0022"), Tagged("1.5", "!!str"),
             [Word("int") EXCEPT !.style = "quoted"], Tagged("int", "!!int"),
             Tagged("null", "!!null"), Tagged("0022", "!!float"), Word("true")>>
MCBeginnings == {<<>>, <<DecodeCases!Event("map", "!t")>>, Laughs, Mapping, Classes,
                 <<Begin("seq"), Tagged("x", "!!bool")>>, <<Begin("seq"), Tagged("x", "!!float")>>}
MCProjects == TaskfilesCases!MCProjects
MCFileVars == TaskfilesCases!MCVars
MCPrograms == CompileCases!MCPrograms
MCTrees == CompileCases!MCTrees
MCNames == CompileCases!MCNames

\* Tasks that refer to each other: r, whose list it is, and what it may call.
CallOf(t, up, exit) == [task |-> t, up |-> up, exit |-> exit]
To(t) == CallOf(t, 0, FALSE)
NoCallee == To("")
Listed(fs, negate) == [ref |-> "no", files |-> fs, negate |-> negate, call |-> NoCallee]
Refers(kinds, c) == [ref |-> kinds, files |-> {}, negate |-> FALSE, call |-> c]
TaskOf(entries, deps, cmds) ==
  [entries |-> entries, grants |-> <<>>, deps |-> deps, cmds |-> cmds, here |-> TRUE,
   compiles |-> TRUE]

F1 == Listed({"f1", "f2"}, FALSE)
F2 == Listed({"f2", "f3"}, FALSE)
N2 == Listed({"f2"}, TRUE)

RootTasks ==
  {TaskOf(es, <<To("a")>>, <<To("b")>>) :
     es \in {<<F1, Refers("task", To("a"))>>, <<Refers("deps", NoCallee), Refers("task", To("b")), N2>>,
             <<Refers("cmds", NoCallee), F1>>, <<Refers("task", To("b")), Refers("deps", NoCallee)>>,
             <<Refers("task", To("")), F1>>, <<F1, Refers("task", To("gone"))>>}}
  \union {[TaskOf(<<Refers("task", To("a")), F2>>, <<>>, <<>>) EXCEPT !.grants = g] :
            g \in {<<To("a")>>, <<To("b"), To("a")>>, <<To("r")>>, <<To("a"), To("")>>}}
Middle(other) ==
  {[TaskOf(es, ds, cs) EXCEPT !.grants = g, !.here = h] :
     es \in {<<F1>>, <<F1, N2>>, <<Refers("task", To(other)), F2>>, <<Refers("cmds", NoCallee), Refers("task", To("r"))>>},
     ds \in {<<>>, <<To(other)>>}, h \in BOOLEAN,
     cs \in {<<>>, <<To("r"), To("")>>, <<CallOf(other, 0, TRUE)>>},
     g \in {<<>>, <<To(other)>>}}
\* A task that calls itself, ever with another number.
Endless == {TaskOf(<<F1>>, <<CallOf("a", 1, FALSE)>>, <<>>), TaskOf(<<F1, N2>>, <<>>, <<CallOf("b", 1, FALSE)>>)}
MCGraphs ==
  {[r |-> r, a |-> a, b |-> b] : r \in RootTasks, a \in Middle("b"),
     b \in {TaskOf(<<F2>>, <<>>, <<>>), [TaskOf(<<F2>>, <<>>, <<>>) EXCEPT !.compiles = FALSE], TaskOf(<<F2, N2>>, <<To("a")>>, <<To("r")>>),
            TaskOf(<<Refers("task", To("a")), Refers("deps", NoCallee)>>, <<To("r")>>, <<>>)}}
  \union {[r |-> r, a |-> a, b |-> b] : r \in RootTasks, a \in Endless, b \in Middle("a")}

\* A variable, a word, a call of a function and what may stand in parentheses.
Dot == TemplateCases!Atom(TemplateCases!Field)
Lit == TemplateCases!Atom("lit")
Funcs == TemplateCases!MappedFuncs \union TemplateCases!Unmapped
Fn(f) == TemplateCases!Atom(f)
In(p) == TemplateCases!Paren(p)
CallsOf(operands, n) == UNION {{<<Fn(f)>> \o a : a \in [1 .. k -> operands]} : f \in Funcs, k \in 0 .. n}
Never == TemplateCases!Atom(TemplateCases!Unset)
Flat == {<<Dot>>, <<Lit>>, <<Never>>} \union CallsOf({Never}, 1) \union CallsOf({Dot, Lit, Fn("OS")}, 2)
Short == CallsOf({Lit}, 1)
Inner == {<<c>> : c \in {<<Dot>>} \union CallsOf({Dot}, 2)}
           \union {<<c, d>> : c \in {<<Dot>>, <<Fn("not"), Dot>>}, d \in Short}
Nested == {<<<<Fn(f), In(p)>>>> : f \in Funcs, p \in Inner}
MCActions ==
  {<<c>> : c \in Flat} \union {<<c, d>> : c \in Flat, d \in Short} \union Nested
    \union {<<<<Fn(f), In(p), Lit>>>> : f \in Funcs, p \in Inner}
    \union {<<<<Fn(f), Lit, In(p)>>>> : f \in Funcs, p \in Inner}
    \union {<<<<In(p)>>, d>> : p \in Inner, d \in Short}
    \union {<<<<v>>, d, e>> : v \in {Dot, Lit}, d, e \in Short}
    \union {<<<<Dot>>, <<Fn(f), In(p)>>>> : f \in Funcs, p \in Inner}
    \union {<<<<Fn(f), In(p)>>>> : f \in TemplateCases!MappedFuncs, p \in Nested}

-----------------------------------------------------------------------------
\* The variables only one component has, and their value in the behaviours of
\* the others.
Off == <<>>
ownDecode == <<aliases, rest, begun>>
ownTaskfiles == <<project, level, order, edges, files, folds, status>>
ownCompile == <<prog, summary, phase, vars, task, shells, hash, seen, ran>>
ownReach == <<graph, kind, walk, run, field, counted, groups, out>>
ownTemplate == <<written, dialect, text, shown>>
NoDecode == aliases = Off /\ rest = Off /\ begun = Off
NoTaskfiles == project = Off /\ level = Off /\ order = Off /\ edges = Off /\
               files = Off /\ folds = Off /\ status = Off
NoCompile == prog = Off /\ summary = Off /\ phase = Off /\ vars = Off /\ task = Off /\
             shells = Off /\ hash = Off /\ seen = Off /\ ran = Off
NoReach == graph = Off /\ kind = Off /\ walk = Off /\ run = Off /\ field = Off /\ counted = Off /\
           groups = Off /\ out = Off
NoTemplate == written = Off /\ dialect = Off /\ text = Off /\ shown = Off
everything == <<part, events, result, stack, todo, tree, ownDecode, ownTaskfiles, ownCompile,
                ownReach, ownTemplate>>

Init ==
  /\ part \in Parts
  /\ \/ /\ part = "decode" /\ D!Init
        /\ stack = Off /\ todo = Off /\ tree = Off /\ NoTaskfiles /\ NoCompile /\
           NoReach /\ NoTemplate
     \/ /\ part = "taskfiles" /\ T!Init
        /\ events = Off /\ result = Off /\ tree = Off /\ NoDecode /\ NoCompile /\
           NoReach /\ NoTemplate
     \/ /\ part = "compile" /\ C!Init
        /\ events = Off /\ result = Off /\ stack = Off /\ todo = Off /\ NoDecode /\
           NoTaskfiles /\ NoReach /\ NoTemplate
     \/ /\ part = "reach" /\ R!Init
        /\ events = Off /\ todo = Off /\ tree = Off /\ NoDecode /\ NoTaskfiles /\
           NoCompile /\ NoTemplate
     \/ /\ part = "template" /\ G!Init
        /\ events = Off /\ result = Off /\ stack = Off /\ todo = Off /\ tree = Off /\
           NoDecode /\ NoTaskfiles /\ NoCompile /\ NoReach

Next ==
  \/ /\ part = "decode" /\ D!Next
     /\ UNCHANGED <<part, stack, todo, tree, ownTaskfiles, ownCompile, ownReach,
                    ownTemplate>>
  \/ /\ part = "taskfiles" /\ T!Next
     /\ UNCHANGED <<part, events, result, tree, ownDecode, ownCompile, ownReach,
                    ownTemplate>>
  \/ /\ part = "compile" /\ C!Next
     /\ UNCHANGED <<part, events, result, stack, todo, ownDecode, ownTaskfiles, ownReach, ownTemplate>>
  \/ /\ part = "reach" /\ R!Next
     /\ UNCHANGED <<part, events, todo, tree, ownDecode, ownTaskfiles, ownCompile, ownTemplate>>
  \/ /\ part = "template" /\ G!Next
     /\ UNCHANGED <<part, events, result, stack, todo, tree, ownDecode, ownTaskfiles,
                    ownCompile, ownReach>>

Spec == Init /\ [][Next]_everything

-----------------------------------------------------------------------------
\* A document is read as the tree it says, its aliases in place, or refused, and
\* aliases cost no more than its length allows (yaml/loader.rs, yaml/de.rs).
DecodedExactly == part = "decode" => D!LoadedExactly /\ D!ExpansionBounded

\* After the merge every reference names what its author could mean, copies
\* keep their identity, and include cycles are refused (reader/read.rs,
\* ast/graph.rs, ast/tasks.rs).
MergedRight == part = "taskfiles" => T!RefsMean /\ T!OneIdentity /\ T!CyclesRefused

\* CHECKSUM is refused exactly where it would decide what is built, rendered
\* late as if once and with the checksum known, and its pending value never
\* runs, but that a Jinja comparison or test of it is not seen as a use
\* (compiler.rs, variables.rs).
CompiledRight == part = "compile" => C!RefusedExactly /\ C!LateExact /\ C!PendingNeverRuns

\* Each walk reaches the closure of its references, or fails for a real reason,
\* and folding what it finds into one list selects what each task selects
\* (reach.rs).
ReachRight == part = "reach" => R!ReachExact /\ R!FoldedMeaning

\* A Go template renders as Go would render it, or is refused, but for three forms
\* that templater.rs does not tell apart (RenderedFaithfully).
TemplatesMean == part = "template" => G!RenderedFaithfully
=============================================================================
