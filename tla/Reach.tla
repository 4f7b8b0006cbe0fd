------------------------------- MODULE Reach -------------------------------
(***************************************************************************)
(* What the references of a task's sources, generates or sandbox.writes    *)
(* reach (reach.rs): a depth-first walk over calls, with a stack, and the  *)
(* groups of the list it makes (finish_groups, dedup).  The references of  *)
(* sources or of generates share one walk, each of sandbox.writes has its  *)
(* own, which knows nothing of the others.                                 *)
(*                                                                         *)
(* A state is a call: the task and a number that stands for the vars it is *)
(* called with.  A call may raise the number, so that a task which calls   *)
(* itself has no end but the limits.                                       *)
(***************************************************************************)
EXTENDS Naturals, FiniteSets, Sequences, SequencesExt

CONSTANTS
  Graphs,      \* the declared tasks: name -> [entries, grants, deps, cmds, here, compiles]
  Referrer,    \* the task whose references are resolved
  MaxCallsPerTask, MaxCalls

VARIABLES
  graph, kind,
  walk,        \* the number of the walk under way
  stack,       \* items to process, the next one last
  run, field,  \* the states this walk has expanded in each mode
  counted,     \* the states counted against its limits, in order
  groups,      \* the states that have a group, in the order of their numbers
  out,         \* the emitted entries: [walk, owner, at, files, negate, group]
  result       \* "walking", "done", or why the compile fails
vars == <<graph, kind, walk, stack, run, field, counted, groups, out, result>>

Kinds == {"sources", "generates", "writes"}
Root == [task |-> Referrer, n |-> 0]

(***************************************************************************)
(* The items of a state.                                                   *)
(***************************************************************************)
\* The call that a declared call makes from state s.
Target(s, c) == [task |-> c.task, n |-> IF c.task = s.task THEN s.n + c.up ELSE c.up]
Visit(s, c, mode, byRun) ==
  [is |-> "visit", to |-> Target(s, c), mode |-> mode, byRun |-> byRun]
Emit(s, i, e) == [is |-> "emit", owner |-> s, at |-> i, files |-> e.files, negate |-> e.negate]
Fail(why) == [is |-> "fail", why |-> why]

\* cmd_calls: a command whose name renders empty calls nothing; a deferred call
\* that mentions EXIT_CODE cannot be told.
CmdCalls(s) == SelectSeq(graph[s.task].cmds, LAMBDA c : c.task # "")
CmdsFail(s) == \E c \in Range(graph[s.task].cmds) : c.exit

\* push_entries: the literal entries, and the references among them.
EntryItems(s, i, e) ==
  CASE e.ref = "no"   -> <<Emit(s, i, e)>>
    [] e.ref = "task" ->
         IF e.call.task = "" THEN <<Fail("empty reference")>>
         ELSE <<Visit(s, e.call, IF kind = "sources" THEN "run" ELSE "field", FALSE)>>
    [] e.ref = "deps" ->
         [j \in DOMAIN graph[s.task].deps |-> Visit(s, graph[s.task].deps[j], "field", FALSE)]
    [] e.ref = "cmds" ->
         IF CmdsFail(s) THEN <<Fail("deferred call")>>
         ELSE [j \in DOMAIN CmdCalls(s) |-> Visit(s, CmdCalls(s)[j], "field", FALSE)]
PushEntries(s) ==
  FlattenSeq([i \in DOMAIN graph[s.task].entries |-> EntryItems(s, i, graph[s.task].entries[i])])

\* run_edges: setup and deps, then the commands that call a task.
RunEdges(s) ==
  IF CmdsFail(s) THEN <<Fail("deferred call")>>
  ELSE LET calls == graph[s.task].deps \o CmdCalls(s)
       IN  [j \in DOMAIN calls |-> Visit(s, calls[j], "run", TRUE)]

\* write_grants: its directories, then the tasks its own writes name.
WriteGrants(s) ==
  <<[is |-> "emit", owner |-> s, at |-> 0, files |-> {}, negate |-> FALSE]>> \o
  [j \in DOMAIN graph[s.task].grants |->
     LET c == graph[s.task].grants[j]
     IN  IF c.task = "" THEN Fail("empty reference") ELSE Visit(s, c, "run", FALSE)]

\* An error in what a state contributes fails the walk when it is expanded.
Failure(items) ==
  LET bad == SelectSeq(items, LAMBDA x : x.is = "fail")
  IN  IF bad = <<>> THEN "walking" ELSE bad[1].why

(***************************************************************************)
(* The walks.                                                              *)
(***************************************************************************)
Walks == IF kind = "writes" THEN 1 .. Len(graph[Referrer].grants) ELSE {1}
Start(w) ==
  IF kind # "writes" THEN PushEntries(Root)
  ELSE IF w \in Walks THEN <<Visit(Root, graph[Referrer].grants[w], "run", FALSE)>> ELSE <<>>

\* Reach::globs, Reach::writes: in the first the referrer's entries are its own.
Init ==
  /\ graph \in Graphs /\ kind \in Kinds
  /\ walk = 1 /\ stack = Reverse(Start(1))
  /\ run = {} /\ field = IF kind = "writes" THEN {} ELSE {Root}
  /\ counted = <<>> /\ groups = <<>> /\ out = <<>>
  /\ result = Failure(Start(1))

Top == Last(stack)

\* drain: an entry is emitted, its state's group numbered at its first one.
EmitEntry ==
  /\ result = "walking" /\ stack # <<>> /\ Top.is = "emit"
  /\ LET own == Top.owner = Root /\ kind # "writes"
         gs == IF own \/ Contains(groups, Top.owner) THEN groups ELSE Append(groups, Top.owner)
         number == IF own THEN 0 ELSE CHOOSE k \in DOMAIN gs : gs[k] = Top.owner
     IN  /\ groups' = gs
         /\ out' = Append(out, [walk |-> walk, owner |-> Top.owner, at |-> Top.at, files |-> Top.files,
                                negate |-> Top.negate, group |-> number])
  /\ stack' = Front(stack)
  /\ UNCHANGED <<graph, kind, walk, run, field, counted, result>>

\* What a visit of s in a mode still has to expand: its entries once, its calls
\* once it is reached by running it.
Expanded(s, mode) == s \in run \/ (mode = "field" /\ s \in field)

\* count.
OverLimit(states) ==
  \/ Len(states) > MaxCalls
  \/ Len(SelectSeq(states, LAMBDA x : x.task = Last(states).task)) > MaxCallsPerTask

\* visit, of a name no task has: whoever calls it, on whatever platform.
Known(s) == s.task \in DOMAIN graph
NoSuchTask ==
  /\ result = "walking" /\ stack # <<>> /\ Top.is = "visit"
  /\ ~Known(Top.to)
  /\ result' = "not found"
  /\ UNCHANGED <<graph, kind, walk, stack, run, field, counted, groups, out>>

\* visit, of a state that adds nothing: on another platform, or expanded.
Pruned(v) == v.byRun /\ Known(v.to) /\ ~graph[v.to.task].here
SkipVisit ==
  /\ result = "walking" /\ stack # <<>> /\ Top.is = "visit"
  /\ Known(Top.to) /\ (Pruned(Top) \/ Expanded(Top.to, Top.mode))
  /\ stack' = Front(stack)
  /\ UNCHANGED <<graph, kind, walk, run, field, counted, groups, out, result>>

\* visit: counted, compiled, which may fail, its entries before its calls.
VisitState ==
  /\ result = "walking" /\ stack # <<>> /\ Top.is = "visit"
  /\ Known(Top.to) /\ ~Pruned(Top) /\ ~Expanded(Top.to, Top.mode)
  /\ LET s == Top.to
         states == IF s \in run \union field THEN counted ELSE Append(counted, s)
         over == states # counted /\ OverLimit(states)
         entries == IF s \in field THEN <<>> ELSE PushEntries(s)
         calls == IF Top.mode = "field" THEN <<>>
                  ELSE (IF kind = "writes" THEN WriteGrants(s) ELSE <<>>) \o RunEdges(s)
     IN  /\ counted' = states
         /\ run' = IF Top.mode = "run" THEN run \union {s} ELSE run
         /\ field' = IF Top.mode = "field" THEN field \union {s} ELSE field
         /\ stack' = Front(stack) \o Reverse(calls) \o Reverse(entries)
         /\ result' = IF over THEN "limit"
                      ELSE IF ~graph[s.task].compiles THEN "compile" ELSE Failure(calls \o entries)
  /\ UNCHANGED <<graph, kind, walk, groups, out>>

\* The mutant of Grouped: the groups are dropped.
Grouped_Never(list) == FALSE

\* finish_groups: the groups matter only if a folded entry excludes something.
Grouped(list) == \E i \in DOMAIN list : list[i].group # 0 /\ list[i].negate
\* dedup: the first of equal entries, folded only if each is.
Dedup(list) ==
  LET Key(g) == <<g.group, g.negate, g.files>>
      first == SelectSeq([i \in DOMAIN list |-> i],
                 LAMBDA i : ~\E j \in 1..(i - 1) : Key(list[j]) = Key(list[i]))
  IN  [k \in DOMAIN first |->
        [list[first[k]] EXCEPT !.folded =
           \A j \in DOMAIN list : Key(list[j]) = Key(list[first[k]]) => list[j].folded]]
FinishGroups(list) ==
  LET grouped == Grouped(list)
  IN  Dedup([i \in DOMAIN list |->
        [files |-> list[i].files, negate |-> list[i].negate,
         group |-> IF grouped THEN list[i].group ELSE 0,
         folded |-> ~grouped /\ list[i].group # 0]])

\* The next reference of sandbox.writes, with a Walk of its own.
NextReference ==
  /\ result = "walking" /\ stack = <<>> /\ walk + 1 \in Walks
  /\ walk' = walk + 1 /\ stack' = Reverse(Start(walk + 1))
  /\ run' = {} /\ field' = {} /\ counted' = <<>> /\ groups' = <<>>
  /\ UNCHANGED <<graph, kind, out, result>>

Finish ==
  /\ result = "walking" /\ stack = <<>> /\ walk + 1 \notin Walks
  /\ result' = "done"
  /\ UNCHANGED <<graph, kind, walk, stack, run, field, counted, groups, out>>

Next == EmitEntry \/ NoSuchTask \/ SkipVisit \/ VisitState \/ NextReference \/ Finish
Spec == Init /\ [][Next]_vars

(***************************************************************************)
(* Properties.                                                             *)
(***************************************************************************)
\* The reference: the states and the modes they are reached in, as a closure of
\* what walk w starts from.  Numbers beyond the per-task limit are left out.
Sound(s) == Known(s) /\ graph[s.task].compiles
Items(s, mode) ==
  IF ~Sound(s) THEN <<>>
  ELSE PushEntries(s) \o
       (IF mode = "field" THEN <<>>
        ELSE (IF kind = "writes" THEN WriteGrants(s) ELSE <<>>) \o RunEdges(s))
Leads(items) ==
  {<<v.to, v.mode>> : v \in {x \in Range(items) : x.is = "visit" /\ ~Pruned(x)
                                                  /\ x.to.n <= MaxCallsPerTask + 1}}
Wider(reached) == reached \union UNION {Leads(Items(r[1], r[2])) : r \in reached}
Closure(w) ==
  LET longest == 2 * (MaxCallsPerTask + 2) * Cardinality(DOMAIN graph)
  IN  FoldLeft(LAMBDA reached, k : Wider(reached), Leads(Start(w)), [k \in 1..longest |-> k])
Folded(closure) == {r[1] : r \in closure} \ (IF kind = "writes" THEN {} ELSE {Root})
TooMany(closure) ==
  \/ Cardinality(Folded(closure)) > MaxCalls
  \/ \E t \in DOMAIN graph : Cardinality({s \in Folded(closure) : s.task = t}) > MaxCallsPerTask
Wrong(w, closure) ==
  \/ Failure(Start(w)) # "walking"
  \/ \E r \in closure : ~Sound(r[1]) \/ Failure(Items(r[1], r[2])) # "walking"
Literals(s) == {<<s, i>> : i \in {j \in DOMAIN graph[s.task].entries :
                                    graph[s.task].entries[j].ref = "no"}}

\* A walk reaches exactly the closure of its references, whatever cycles,
\* repeated and nested references the Taskfile has, whichever mode a state is
\* met in first and whatever the walks before it met: every literal entry of
\* every reached state is emitted once and nothing else is; it fails only for a
\* real reason, a task that is not there or does not compile included, and
\* never goes past the limits.
ReachExact ==
  /\ result = "done" => \A w \in Walks :
       LET closure == Closure(w)
           mine == {i \in DOMAIN out : out[i].walk = w}
           own == IF kind = "writes" THEN {} ELSE Literals(Root)
           grants == IF kind = "writes"
                     THEN {<<s, 0>> : s \in {r[1] : r \in {c \in closure : c[2] = "run"}}} ELSE {}
       IN  /\ ~TooMany(closure) /\ ~Wrong(w, closure)
           /\ {<<out[i].owner, out[i].at>> : i \in mine} =
                own \union grants \union UNION {Literals(s) : s \in Folded(closure)}
           /\ \A i, j \in mine :
                <<out[i].owner, out[i].at>> = <<out[j].owner, out[j].at>> => i = j
  /\ result = "limit" => TooMany(Closure(walk))
  /\ result \notin {"walking", "done", "limit"} => Wrong(walk, Closure(walk))
  /\ Len(counted) <= MaxCalls + 1

\* What a list of entries selects: a group's exclusions cut its own matches,
\* the task's own (group 0) cut everything.
Cut(list, g) ==
  LET Of(neg) == UNION {list[i].files : i \in {j \in DOMAIN list :
                                             list[j].group = g /\ list[j].negate = neg}}
  IN  Of(FALSE) \ Of(TRUE)
Selected(list) ==
  LET gs == {list[i].group : i \in DOMAIN list}
      own == UNION {list[i].files : i \in {j \in DOMAIN list :
                                             list[j].group = 0 /\ list[j].negate}}
  IN  (UNION {Cut(list, g) : g \in gs}) \ own

\* Folding the entries of other tasks into a list selects what each of these
\* tasks selects by itself, less the referrer's own exclusions: flattening the
\* groups and dropping repeated entries never lets one task's exclusion cut
\* the files of another.
FoldedMeaning ==
  result = "done" /\ kind # "writes" =>
    LET Own(s, neg) ==
          UNION {graph[s.task].entries[i].files :
            i \in {j \in DOMAIN graph[s.task].entries :
                     /\ graph[s.task].entries[j].ref = "no"
                     /\ graph[s.task].entries[j].negate = neg}}
    IN  Selected(FinishGroups(out)) =
          (UNION {Own(s, FALSE) \ Own(s, TRUE) : s \in Folded(Closure(1)) \union {Root}}) \ Own(Root, TRUE)
=============================================================================
