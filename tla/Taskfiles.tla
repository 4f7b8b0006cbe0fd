------------------------------ MODULE Taskfiles ------------------------------
(***************************************************************************)
(* Reading a Taskfile and what it includes into a graph (reader/read.rs,   *)
(* ast/graph.rs) and folding that graph into one map of tasks              *)
(* (ast/taskfile.rs, ast/tasks.rs, ast/vars.rs).                           *)
(*                                                                         *)
(* A name is the sequence of its segments: `a:x` is <<"a", "x">>, `:x` is  *)
(* <<"", "x">> and `::x` is <<"", "", "x">>.  Templates and `$VAR`s in an  *)
(* include's fields are taken as expanded; which file a path names is part *)
(* of the project.                                                         *)
(***************************************************************************)
EXTENDS Naturals, Sequences, FiniteSets, SequencesExt, TLC

CONSTANTS Projects,  \* [files, levels]: what is on disk
          Vars       \* the variables the files may set

\* A file is [version, dotenv, silent, vars, tasks, includes] or Missing; a task as
\* written [refs, aliases, internal, silent]; an include [ns, file, flatten,
\* excludes, aliases, optional, internal, advanced, vars].
Missing == [version |-> "missing"]

VARIABLES project, \* fixed: the files, and the directories above the start
          level,   \* where the search for the root Taskfile is
          stack,   \* the calls of Reader::include under way: [file, next]
          order,   \* the vertices, in insertion order
          edges,   \* [from, to, inc], in insertion order
          files,   \* the vertices' Taskfiles, as merged so far
          todo,    \* vertices left to fold, deepest first
          folds,   \* the edges into the first of todo that are left
          status   \* reading, merging, or how it ended

vars == <<project, level, stack, order, edges, files, todo, folds, status>>

Root == "root"
File(f) == project.files[f]
Unset == [v \in Vars |-> 0]

Init ==
  /\ project \in Projects
  /\ level = 1 /\ stack = <<>> /\ order = <<>> /\ edges = <<>> /\ files = <<>>
  /\ todo = <<>> /\ folds = {} /\ status = "locating"

Ends(how) == status' = how /\ UNCHANGED <<project, level, stack, order, edges, files, todo, folds>>

-----------------------------------------------------------------------------
(* Locating: fsext::search from a directory upwards, a level a step. *)

Level == project.levels[level]
\* search_n_path_recursively: the first directory with a Taskfile, as long as
\* the owner does not change on the way up.
Search ==
  /\ status = "locating"
  /\ \/ Level.has /\ status' = "reading" /\ UNCHANGED level
     \/ ~Level.has /\ level = Len(project.levels) /\ status' = "not found" /\ UNCHANGED level
     \/ /\ ~Level.has /\ level < Len(project.levels)
        /\ IF project.levels[level + 1].owner # Level.owner
           THEN status' = "owner changed" /\ UNCHANGED level
           ELSE level' = level + 1 /\ UNCHANGED status
  /\ UNCHANGED <<project, stack, order, edges, files, todo, folds>>

-----------------------------------------------------------------------------
(* Reading. *)

\* A task as read: the ghosts home, own and at say which copy of what it is.
Written(f, n) ==
  LET t == File(f).tasks[n]
  IN  [name |-> <<n>>, ns |-> <<>>, refs |-> t.refs, aliases |-> {<<a>> : a \in t.aliases},
       internal |-> t.internal, silent |-> t.silent, ivars |-> Unset, home |-> f, own |-> n, at |-> <<>>]
\* read_node, of a file that declares a version.
ReadNode(f) ==
  [version |-> File(f).version, dotenv |-> File(f).dotenv, silent |-> File(f).silent, vars |-> File(f).vars,
   tasks |-> [n \in {<<m>> : m \in DOMAIN File(f).tasks} |-> Written(f, n[1])]]

\* Reader::include, for a file that is not a vertex yet: it becomes one before
\* its includes are looked at.
Entered(f) ==
  IF File(f).version = "none" THEN Ends("no version")
  ELSE /\ stack' = Append(stack, [file |-> f, next |-> 1])
       /\ order' = Append(order, f) /\ files' = (f :> ReadNode(f)) @@ files
       /\ UNCHANGED <<project, level, edges, todo, folds, status>>
Start == status = "reading" /\ order = <<>> /\ Entered(Root)

RECURSIVE ReachesIn(_, _, _, _)
ReachesIn(es, seen, from, to) ==
  from = to \/ \E e \in Range(es) : e.from = from /\ e.to \notin seen /\ ReachesIn(es, seen \cup {e.to}, e.to, to)
Reaches(es, from, to) == ReachesIn(es, {from}, from, to)

Top == Last(stack)
NextInclude == File(Top.file).includes[Top.next]
Skipped == [stack EXCEPT ![Len(stack)].next = @ + 1]
\* add_edge: refused where the target already reaches the source.
AddEdge(inc) ==
  IF Reaches(edges, inc.file, Top.file) THEN Ends("cycle")
  ELSE /\ edges' = Append(edges, [from |-> Top.file, to |-> inc.file, inc |-> inc])
       /\ stack' = Skipped
       /\ UNCHANGED <<project, level, order, files, todo, folds, status>>

\* One include: missing and optional, missing, not read yet (it is entered, and
\* the edge recorded when the reader comes back), or a vertex already.
Include ==
  /\ status = "reading" /\ stack # <<>> /\ Top.next <= Len(File(Top.file).includes)
  /\ LET inc == NextInclude
     IN  IF File(inc.file) = Missing
         THEN IF inc.optional
              THEN stack' = Skipped /\ UNCHANGED <<project, level, order, edges, files, todo, folds, status>>
              ELSE Ends("missing")
         ELSE IF inc.file \notin Range(order) THEN Entered(inc.file) ELSE AddEdge(inc)

-----------------------------------------------------------------------------
(* Merging. *)

InDegree(es, f) == Cardinality({i \in DOMAIN es : es[i].to = f})
RECURSIVE TopologicalSort(_, _, _)
\* topological_sort: a queue seeded in insertion order; a vertex is queued when
\* the last edge into it is taken off.
TopologicalSort(queue, done, es) ==
  IF queue = <<>> THEN done
  ELSE LET f    == Head(queue)
           out  == SelectSeq(es, LAMBDA e : e.from = f)
           rest == SelectSeq(es, LAMBDA e : e.from # f)
           free == {i \in DOMAIN out : InDegree(rest, out[i].to) = 0 /\ \A j \in DOMAIN out : j > i => out[j].to # out[i].to}
           next == [k \in 1 .. Cardinality(free) |->
                      out[CHOOSE i \in free : Cardinality({j \in free : j < i}) = k - 1].to]
       IN  TopologicalSort(Tail(queue) \o next, Append(done, f), rest)
Sorted == TopologicalSort(SelectSeq(order, LAMBDA f : InDegree(edges, f) = 0), <<>>, edges)

\* The edges into f, of every source: predecessor_map goes over a hash map.
Into(f) == {e \in Range(edges) : e.to = f}

\* The reader returned from every include of the file on top.
Return ==
  /\ status = "reading" /\ stack # <<>> /\ Top.next > Len(File(Top.file).includes)
  /\ stack' = Front(stack)
  /\ IF Len(stack) > 1 THEN UNCHANGED <<todo, folds, status>>
     ELSE IF Len(Sorted) # Len(order) THEN status' = "graph cycle" /\ UNCHANGED <<todo, folds>>
     ELSE /\ todo' = Reverse(Tail(Sorted)) /\ status' = "merging"
          /\ folds' = IF Len(Sorted) = 1 THEN {} ELSE Into(Last(Sorted))
  /\ UNCHANGED <<project, level, order, edges, files>>

TaskNameWithNamespace(n, ns) == IF n[1] = "" THEN Tail(n) ELSE <<ns>> \o n
\* The mutant of RefWithNamespace: a root reference is prefixed like the others.
RefWithNamespace_Stripped(n, ns) == TaskNameWithNamespace(n, ns)

RefWithNamespace(n, ns) == IF Len(n) > 1 /\ n[1] = "" /\ n[2] = "" THEN n ELSE TaskNameWithNamespace(n, ns)

MergedVars(into, from) == [v \in Vars |-> IF from[v] # 0 THEN from[v] ELSE into[v]]

\* The include path so far, outermost first, so that local_name takes it off whole.
Namespace(t, inc) == <<inc.ns>> \o t.ns

\* Tasks::merge, one task that is not excluded.
Namespaced(t, inc) ==
  IF inc.flatten THEN t
  ELSE [t EXCEPT
         !.refs = [i \in DOMAIN @ |-> RefWithNamespace(@[i], inc.ns)],
         !.aliases = {TaskNameWithNamespace(a, inc.ns) : a \in t.aliases}
                     \cup {TaskNameWithNamespace(a, na) : a \in t.aliases \cup {t.name}, na \in inc.aliases},
         !.ns = Namespace(t, inc), !.name = TaskNameWithNamespace(t.name, inc.ns)]
Imported(t, inc, silent) ==
  [Namespaced(t, inc) EXCEPT
     !.internal = t.internal \/ inc.internal,
     !.silent = IF silent /\ t.silent = "unset" THEN "true" ELSE t.silent,
     !.ivars = IF inc.advanced THEN MergedVars(t.ivars, inc.vars) ELSE t.ivars,
     !.at = <<inc>> \o t.at]
Kept(tasks, inc) == {n \in DOMAIN tasks : n \notin inc.excludes}
KeyIn(n, inc) == IF inc.flatten THEN n ELSE TaskNameWithNamespace(n, inc.ns)

\* The default task of an include answers to its namespace, unless a task does.
DefaultKey(inc) == <<inc.ns, "default">>
WithDefault(all, other, inc) ==
  IF <<"default">> \in DOMAIN other /\ <<inc.ns>> \notin DOMAIN all /\ ~inc.flatten /\ DefaultKey(inc) \in DOMAIN all
  THEN [all EXCEPT ![DefaultKey(inc)].aliases = @ \cup {<<inc.ns>>} \cup {<<a>> : a \in inc.aliases}]
  ELSE all

Clash(base, other, inc) == \E n \in Kept(other.tasks, inc) : KeyIn(n, inc) \in DOMAIN base.tasks
\* Taskfile::merge.
Merged(base, other, inc) ==
  LET new == [k \in {KeyIn(n, inc) : n \in Kept(other.tasks, inc)} |->
                Imported(other.tasks[CHOOSE n \in DOMAIN other.tasks : KeyIn(n, inc) = k], inc, other.silent)]
  IN  [base EXCEPT !.vars = MergedVars(@, other.vars),
                   !.tasks = WithDefault(@ @@ new, other.tasks, inc)]

\* TaskfileGraph::merge, one edge into the vertex that is being folded: those of
\* one source in their order, those of different sources in any.
Earlier(e) == \E d \in folds : d.from = e.from /\ \E i, j \in DOMAIN edges : i < j /\ edges[i] = d /\ edges[j] = e /\ d # e
Fold(e) ==
  /\ status = "merging" /\ e \in folds /\ ~Earlier(e)
  /\ LET base == files[e.from]  other == files[e.to]
     IN  IF base.version # other.version THEN Ends("versions")
         ELSE IF other.dotenv THEN Ends("dotenv")
         ELSE IF Clash(base, other, e.inc) THEN Ends("clash")
         ELSE /\ files' = [files EXCEPT ![e.from] = Merged(base, other, e.inc)]
              /\ folds' = folds \ {e}
              /\ UNCHANGED <<project, level, stack, order, edges, todo, status>>

Folded ==
  /\ status = "merging" /\ todo # <<>> /\ folds = {}
  /\ todo' = Tail(todo)
  /\ folds' = IF Len(todo) = 1 THEN {} ELSE Into(todo[2])
  /\ UNCHANGED <<project, level, stack, order, edges, files, status>>

\* resolve_root_refs, once everything is in the root.
RootRef(r) == IF Len(r) > 1 /\ r[1] = "" /\ r[2] = "" THEN Tail(Tail(r)) ELSE r
Finish ==
  /\ status = "merging" /\ todo = <<>>
  /\ files' = [files EXCEPT ![Root].tasks =
                 [k \in DOMAIN @ |-> [@[k] EXCEPT !.refs = [i \in DOMAIN @ |-> RootRef(@[i])]]]]
  /\ status' = "done"
  /\ UNCHANGED <<project, level, stack, order, edges, todo, folds>>

Next == Search \/ Start \/ Include \/ Return \/ (\E e \in folds : Fold(e)) \/ Folded \/ Finish
Spec == Init /\ [][Next]_vars

-----------------------------------------------------------------------------
(* find_matching_tasks, and local_name, over the merged root. *)

RootTasks == files[Root].tasks
Found(tasks, n) == IF n \in DOMAIN tasks THEN {n} ELSE {k \in DOMAIN tasks : n \in tasks[k].aliases}
LocalName(t) == IF t.ns # <<>> /\ Len(t.ns) <= Len(t.name) /\ SubSeq(t.name, 1, Len(t.ns)) = t.ns
                THEN SubSeq(t.name, Len(t.ns) + 1, Len(t.name)) ELSE t.name

-----------------------------------------------------------------------------
(* Properties. *)

RECURSIVE Scope(_)
\* What a Taskfile can name, read on its own: its own tasks and, below their
\* namespaces, those of what it includes.
Scope(f) ==
  LET own == ReadNode(f).tasks
      incs == {i \in DOMAIN File(f).includes : File(File(f).includes[i].file) # Missing}
      add(s, i) == WithDefault(s @@ [k \in {KeyIn(n, File(f).includes[i]) : n \in Kept(Scope(File(f).includes[i].file), File(f).includes[i])} |->
                     LET inc == File(f).includes[i]
                         c   == Scope(inc.file)
                     IN  Imported(c[CHOOSE n \in DOMAIN c : KeyIn(n, inc) = k], inc, FALSE)],
                     Scope(File(f).includes[i].file), File(f).includes[i])
  IN  FoldLeft(add, own, SetToSortSeq(incs, <))

FileAt(at) == IF at = <<>> THEN Root ELSE Last(at).file
\* Up one level: past what flattens, then out of one include.
Unflattened(at) == LET k == {i \in 0 .. Len(at) : \A j \in (i + 1) .. Len(at) : at[j].flatten}
                   IN  SubSeq(at, 1, CHOOSE i \in k : \A j \in k : i <= j)
\* The copies a reference written in the file included along `at` names.
Meant(at, r) ==
  LET name(p, n) == {[at |-> p \o Scope(FileAt(p))[k].at, own |-> Scope(FileAt(p))[k].own] : k \in Found(Scope(FileAt(p)), n)}
      up == Unflattened(at)
  IN  IF r[1] # "" THEN name(at, r)
      ELSE IF r[2] # "" THEN IF up = <<>> THEN {} ELSE name(Front(up), Tail(r))
      ELSE name(<<>>, Tail(Tail(r)))
There == {[at |-> RootTasks[k].at, own |-> RootTasks[k].own] : k \in DOMAIN RootTasks}
Named(n) == {[at |-> RootTasks[k].at, own |-> RootTasks[k].own] : k \in Found(RootTasks, n)}

\* After the merge every reference names the tasks its author could mean where it
\* is written: the tasks of that Taskfile and of what it includes, one include up
\* for `:`, the root for `::`, through flattening, aliases and diamonds, in
\* whatever order the hash map gives the includers (ref_with_namespace).  Of these,
\* a task some include on the way excludes is named by nobody.
RefsMean ==
  status = "done" =>
    \A k \in DOMAIN RootTasks :
      LET t == RootTasks[k]
      IN  \A i \in DOMAIN t.refs :
            Named(t.refs[i]) = Meant(t.at, File(t.home).tasks[t.own].refs[i]) \cap There

\* However often and wherever a task is included, every copy has the name its
\* Taskfile gave it as its identity (local_name), and no two tasks share one copy.
OneIdentity ==
  status = "done" =>
    \A k \in DOMAIN RootTasks : LocalName(RootTasks[k]) = <<RootTasks[k].own>> /\ RootTasks[k].name = k

RECURSIVE Below(_, _)
Below(f, seen) ==
  LET next == {File(f).includes[i].file : i \in DOMAIN File(f).includes} \ seen
  IN  seen \cup UNION {IF File(g) = Missing THEN {} ELSE Below(g, seen \cup next) : g \in next} \cup next
Cyclic == \E f \in {Root} \cup Below(Root, {}) :
            File(f) # Missing /\ f \in Below(f, {})

\* Reading ends, and a Taskfile that reaches itself is refused as a cycle by the
\* reader, never merged and never left to the merge to find (add_edge).
CyclesRefused ==
  /\ status \in {"merging", "versions", "dotenv", "clash", "done"} => ~Cyclic
  /\ status = "cycle" => Cyclic
  /\ status # "graph cycle"
=============================================================================
