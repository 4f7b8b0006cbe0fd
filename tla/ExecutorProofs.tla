--------------------------- MODULE ExecutorProofs ---------------------------
(***************************************************************************)
(* The executor, for every Taskfile (however many tasks, calls and         *)
(* permits), every interleaving of its calls and every cancellation.       *)
(***************************************************************************)
EXTENDS Executor, FiniteSetTheorems, WellFoundedInduction, TLAPS

-----------------------------------------------------------------------------
(* Paths                                                                   *)

Paths == Seq(Tasks) \ {<<>>}

\* The call of x by c: one longer, of task x, and c is its caller.
LEMMA CalleePath ==
  ASSUME NEW c \in Paths, NEW x \in Tasks
  PROVE  /\ Append(c, x) \in Paths /\ Append(c, x) # c
         /\ TaskOf(Append(c, x)) = x /\ Front(Append(c, x)) = c
         /\ Len(c) \in Nat \ {0} /\ Len(Append(c, x)) = Len(c) + 1
         /\ SubSeq(Append(c, x), 1, Len(c)) = c
<1>1. /\ Append(c, x) \in Seq(Tasks) /\ Len(Append(c, x)) = Len(c) + 1 /\ Len(c) \in Nat \ {0}
      /\ Append(c, x)[Len(c) + 1] = x
  BY DEF Paths
<1>2. SubSeq(Append(c, x), 1, Len(c)) = c
  BY <1>1 DEF Paths
<1>3. Append(c, x) # c /\ Append(c, x) # <<>>
  BY <1>1
<1>4. TaskOf(Append(c, x)) = x
  BY <1>1 DEF TaskOf, Last
<1>5. Front(Append(c, x)) = SubSeq(Append(c, x), 1, Len(c))
  <2>1. Len(Append(c, x)) - 1 = Len(c)
    BY <1>1
  <2> QED
    BY <2>1 DEF Front
<1> QED
  BY <1>1, <1>2, <1>3, <1>4, <1>5 DEF Paths

\* Different callers, or different callees, are different calls.
LEMMA CalleesDiffer ==
  ASSUME NEW c \in Paths, NEW d \in Paths, NEW x \in Tasks, NEW y \in Tasks,
         Append(c, x) = Append(d, y)
  PROVE  c = d /\ x = y
<1>1. Front(Append(c, x)) = c /\ TaskOf(Append(c, x)) = x
  BY CalleePath
<1>2. Front(Append(d, y)) = d /\ TaskOf(Append(d, y)) = y
  BY CalleePath
<1> QED
  BY <1>1, <1>2

\* Every call but those of the command line is the call of its task by its caller.
LEMMA CallerPath ==
  ASSUME NEW c \in Paths, Len(c) > 1
  PROVE  Front(c) \in Paths /\ TaskOf(c) \in Tasks /\ c = Append(Front(c), TaskOf(c))
<1> DEFINE n == Len(c) - 1
<1>1. c \in Seq(Tasks)
  BY DEF Paths
<1>2. Len(c) \in Nat /\ n \in Nat \ {0} /\ Len(c) = n + 1
  <2> DEFINE m == Len(c)
  <2>1. m \in Nat /\ m > 1
    BY <1>1
  <2> HIDE DEF m
  <2>2. m - 1 \in Nat \ {0} /\ m = (m - 1) + 1
    BY <2>1
  <2> QED
    BY <2>1, <2>2 DEF m
<1> HIDE DEF n
<1>3. Front(c) = SubSeq(c, 1, n) /\ TaskOf(c) = c[n + 1]
  BY <1>2 DEF Front, TaskOf, Last, n
<1>4. Front(c) \in Seq(Tasks) /\ Len(Front(c)) = n /\ \A j \in 1..n : Front(c)[j] = c[j]
  BY <1>1, <1>2, <1>3
<1>5. TaskOf(c) \in Tasks
  BY <1>1, <1>2, <1>3
<1>6. Append(Front(c), TaskOf(c)) = c
  BY <1>1, <1>2, <1>3, <1>4, <1>5
<1> QED
  BY <1>2, <1>4, <1>5, <1>6 DEF Paths

LEMMA PathTask ==
  ASSUME NEW c \in Paths
  PROVE  TaskOf(c) \in Tasks /\ Len(c) \in Nat \ {0}
BY DEF Paths, TaskOf, Last

\* The calls a call made are those of the paths one longer than its own.
LEMMA ChildrenAre ==
  ASSUME Tree, NEW c \in Paths
  PROVE  Children(c) = {k \in DOMAIN call : \E x \in Tasks : k = Append(c, x)}
<1>1. ASSUME NEW k \in Children(c) PROVE \E x \in Tasks : k = Append(c, x)
  <2>1. k \in Paths /\ Len(k) = Len(c) + 1 /\ SubSeq(k, 1, Len(c)) = c /\ Len(c) \in Nat \ {0}
    BY <1>1, PathTask DEF Children, Tree, InTree, Paths
  <2>2. Front(k) = c
    BY <2>1 DEF Front
  <2> QED
    BY <2>1, <2>2, CallerPath
<1>2. ASSUME NEW k \in DOMAIN call, NEW x \in Tasks, k = Append(c, x) PROVE k \in Children(c)
  BY <1>2, CalleePath DEF Children
<1> QED
  BY <1>1, <1>2 DEF Children

-----------------------------------------------------------------------------
(* The tree of calls                                                       *)

\* The calls after c, now in state r, has called the tasks X.
Moved(c, r, X) ==
  [k \in DOMAIN call \cup {Append(c, x) : x \in X} |->
     IF k = c THEN r ELSE IF k \in DOMAIN call THEN call[k] ELSE Fresh]

\* A move of c that keeps the tree.
Legal(c, r, X) ==
  /\ r \in CallStates /\ Placed(file, TaskOf(c), r)
  /\ X \subseteq Ahead(file, TaskOf(c), call[c])
  /\ Ahead(file, TaskOf(c), r) \subseteq Ahead(file, TaskOf(c), call[c]) \ X
  /\ \A x \in X : MayRun(file, TaskOf(c), r, x)
  /\ \A x \in Tasks :
       /\ Awaits(file, TaskOf(c), r, x) => x \in X \/ Append(c, x) \in DOMAIN call
       /\ Append(c, x) \in DOMAIN call => Linked(file, TaskOf(c), r, x, call[Append(c, x)])

\* What the tree says of a call.
LEMMA OfTree ==
  ASSUME Tree, NEW c \in DOMAIN call
  PROVE  /\ c \in Paths /\ TaskOf(c) \in Tasks /\ Len(c) \in Nat \ {0}
         /\ call[c] \in CallStates /\ Placed(file, TaskOf(c), call[c])
         /\ Len(c) > 1 => Front(c) \in DOMAIN call
         /\ \A x \in Tasks :
              /\ Awaits(file, TaskOf(c), call[c], x) => Append(c, x) \in DOMAIN call
              /\ Append(c, x) \in DOMAIN call =>
                   Linked(file, TaskOf(c), call[c], x, call[Append(c, x)])
<1>1. InTree(file, call, c)
  BY DEF Tree
<1>2. c \in Paths
  BY <1>1 DEF InTree, Paths
<1> QED
  BY <1>1, <1>2, PathTask DEF InTree

\* The calls a move leaves alone, and those it makes.
LEMMA MovedCalls ==
  ASSUME Tree, NEW c \in DOMAIN call, NEW r, NEW X, Legal(c, r, X), call' = Moved(c, r, X)
  PROVE  /\ X \subseteq Tasks
         /\ \A k : k \in DOMAIN call' <=> k \in DOMAIN call \/ \E x \in X : k = Append(c, x)
         /\ call'[c] = r /\ \A k \in DOMAIN call : k # c => call'[k] = call[k]
         /\ \A x \in X : Append(c, x) \notin DOMAIN call /\ call'[Append(c, x)] = Fresh
<1>1. c \in Paths /\ X \subseteq Ahead(file, TaskOf(c), call[c])
  BY OfTree DEF Legal
<1>2. X \subseteq Tasks
  BY <1>1 DEF Ahead
<1>3. ASSUME NEW x \in X PROVE Append(c, x) \notin DOMAIN call
  BY <1>1, <1>2, OfTree DEF Linked
<1>4. \A x \in X : Append(c, x) # c
  BY <1>1, <1>2, CalleePath
<1> QED
  BY <1>2, <1>3, <1>4 DEF Moved

\* A call that runs may end in any way: its caller waits for it or is gone.
LEMMA LinkedAnyhow ==
  ASSUME NEW f, NEW t, NEW r, NEW x, NEW s, NEW z, Linked(f, t, r, x, s), Alive(s)
  PROVE  Linked(f, t, r, x, z)
BY DEF Linked, Heeds

\* A new call has neither called nor awaits anything.
LEMMA FreshCall ==
  ASSUME NEW f, NEW t
  PROVE  /\ Fresh \in CallStates /\ Placed(f, t, Fresh) /\ Alive(Fresh) /\ ~Failed(Fresh)
         /\ \A x : ~Awaits(f, t, Fresh, x)
BY DEF Fresh, CallStates, Placed, Alive, Failed, Awaits, Calls, Executing, Errors

LEMMA TreeMoves ==
  ASSUME Tree, file' = file, NEW c \in DOMAIN call, Live(c), NEW r, NEW X, Legal(c, r, X),
         call' = Moved(c, r, X)
  PROVE  Tree'
<1>1. /\ X \subseteq Tasks
      /\ \A k : k \in DOMAIN call' <=> k \in DOMAIN call \/ \E x \in X : k = Append(c, x)
      /\ call'[c] = r /\ \A k \in DOMAIN call : k # c => call'[k] = call[k]
      /\ \A x \in X : Append(c, x) \notin DOMAIN call /\ call'[Append(c, x)] = Fresh
  BY MovedCalls
<1> DEFINE D == DOMAIN call
           t == TaskOf(c)
<1>2. c \in Paths /\ t \in Tasks /\ Alive(call[c])
  BY OfTree DEF Live, Alive
<1>3. InTree(file, call', c)
  <2>1. r \in CallStates /\ Placed(file, t, r) /\ (Len(c) > 1 => Front(c) \in DOMAIN call')
    BY <1>1, OfTree DEF Legal
  <2>2. ASSUME NEW x \in Tasks
        PROVE  /\ Awaits(file, t, r, x) => Append(c, x) \in DOMAIN call'
               /\ Append(c, x) \in DOMAIN call' => Linked(file, t, r, x, call'[Append(c, x)])
    <3>1. CASE Append(c, x) \in D
      <4>1. Append(c, x) # c
        BY <1>2, CalleePath
      <4>2. Linked(file, t, r, x, call[Append(c, x)])
        BY <3>1 DEF Legal
      <4> QED
        BY <1>1, <3>1, <4>1, <4>2
    <3>2. CASE x \in X
      <4>1. MayRun(file, t, r, x) /\ x \notin Ahead(file, t, r)
        BY <3>2 DEF Legal
      <4> QED
        BY <1>1, <3>2, <4>1, FreshCall DEF Linked
    <3>3. CASE Append(c, x) \notin D /\ x \notin X
      <4>1. ~Awaits(file, t, r, x)
        BY <3>3 DEF Legal
      <4>2. \A y \in X : Append(c, x) # Append(c, y)
        BY <1>1, <1>2, <3>3, CalleesDiffer
      <4> QED
        BY <1>1, <3>3, <4>1, <4>2
    <3> QED
      BY <3>1, <3>2, <3>3
  <2> QED
    BY <1>1, <1>2, <2>1, <2>2 DEF InTree, Paths
<1>4. ASSUME NEW d \in D, d # c PROVE InTree(file, call', d)
  <2>1. /\ d \in Paths /\ call'[d] = call[d] /\ call[d] \in CallStates
        /\ Placed(file, TaskOf(d), call[d]) /\ (Len(d) > 1 => Front(d) \in DOMAIN call')
    BY <1>1, <1>4, OfTree
  <2>2. ASSUME NEW x \in Tasks
        PROVE  /\ Awaits(file, TaskOf(d), call[d], x) => Append(d, x) \in DOMAIN call'
               /\ Append(d, x) \in DOMAIN call' =>
                    Linked(file, TaskOf(d), call[d], x, call'[Append(d, x)])
    <3>1. CASE Append(d, x) \in D
      <4>1. Linked(file, TaskOf(d), call[d], x, call[Append(d, x)])
        BY <3>1, OfTree
      <4>2. CASE Append(d, x) = c
        BY <1>1, <1>2, <4>1, <4>2, LinkedAnyhow
      <4>3. CASE Append(d, x) # c
        BY <1>1, <3>1, <4>1, <4>3
      <4> QED
        BY <1>1, <3>1, <4>2, <4>3
    <3>2. CASE Append(d, x) \notin D
      <4>1. \A y \in X : Append(d, x) # Append(c, y)
        BY <1>1, <1>2, <1>4, <2>1, CalleesDiffer
      <4>2. Append(d, x) \notin DOMAIN call'
        BY <1>1, <3>2, <4>1
      <4> QED
        BY <3>2, <4>2, OfTree
    <3> QED
      BY <3>1, <3>2
  <2> QED
    BY <2>1, <2>2 DEF InTree, Paths
<1>5. ASSUME NEW y \in X PROVE InTree(file, call', Append(c, y))
  <2> DEFINE d == Append(c, y)
  <2>1. d \in Paths /\ d \notin D /\ d # c /\ Front(d) = c /\ call'[d] = Fresh
    BY <1>1, <1>2, CalleePath
  <2> HIDE DEF d
  <2>2. ASSUME NEW x \in Tasks PROVE Append(d, x) \notin DOMAIN call'
    <3>1. Append(d, x) \notin D
      <4>1. Front(Append(d, x)) = d /\ Len(Append(d, x)) = Len(d) + 1 /\ Len(d) \in Nat \ {0}
        BY <2>1, CalleePath
      <4>2. Len(Append(d, x)) > 1
        BY <4>1
      <4> QED
        BY <2>1, <4>1, <4>2, OfTree
    <3>2. \A z \in X : Append(d, x) # Append(c, z)
      BY <1>1, <1>2, <2>1, CalleesDiffer
    <3> QED
      BY <1>1, <3>1, <3>2
  <2>3. c \in DOMAIN call'
    BY <1>1
  <2> QED
    BY <2>1, <2>2, <2>3, FreshCall DEF InTree, Paths, d
<1> QED
  BY <1>1, <1>3, <1>4, <1>5 DEF Tree

-----------------------------------------------------------------------------
(* What else a move of a call keeps                                        *)

\* The command line's calls: c runs, so none of what is known of ended ones is about it.
LEMMA RunningMoves ==
  ASSUME Tree, Running, file \in Files, UNCHANGED <<file, main>>, NEW c \in DOMAIN call,
         Live(c), NEW r, NEW X, Legal(c, r, X), call' = Moved(c, r, X)
  PROVE  Running'
<1>1. /\ X \subseteq Tasks
      /\ \A k : k \in DOMAIN call' <=> k \in DOMAIN call \/ \E x \in X : k = Append(c, x)
      /\ \A k \in DOMAIN call : k # c => call'[k] = call[k]
  BY MovedCalls
<1>2. ASSUME NEW k \in DOMAIN call', Len(k) = 1 PROVE k \in DOMAIN call
  <2>1. \A x \in X : Len(Append(c, x)) = Len(c) + 1 /\ Len(c) \in Nat \ {0}
    BY <1>1, OfTree, CalleePath
  <2>2. \A x \in X : Len(Append(c, x)) # 1
    BY <2>1
  <2> QED
    BY <1>1, <1>2, <2>2
<1>3. \A j \in DOMAIN file.roots : j >= main.i => <<file.roots[j]>> \notin DOMAIN call'
  <2>1. \A j \in DOMAIN file.roots : Len(<<file.roots[j]>>) = 1
    OBVIOUS
  <2> QED
    BY <1>2, <2>1 DEF Running
<1>4. ASSUME NEW k \in DOMAIN call', Len(k) = 1
      PROVE  /\ k \in Roots'
             /\ main.at \in {"run", "drain", "draining", "done"} => ~Alive(call'[k])
             /\ main.at = "run" => ~Failed(call'[k])
             /\ main.at \in {"drain", "draining", "done"} =>
                  (Failed(call'[k]) => main.err # "ok")
  <2>1. k \in DOMAIN call
    BY <1>2, <1>4
  <2>2. k \in Roots'
    BY <1>4, <2>1 DEF Running, Roots
  <2>3. CASE k = c
    BY <1>4, <2>2, <2>3 DEF Running
  <2>4. CASE k # c
    BY <1>1, <1>4, <2>1, <2>2, <2>4 DEF Running, Live, Alive
  <2> QED
    BY <2>3, <2>4
<1> QED
  BY <1>3, <1>4 DEF Running, Live, Alive

\* A call moves that was not cancelled: the run has not begun to drain its queue.
LEMMA CancelledMoves ==
  ASSUME Tree, Cancelled, NEW c \in DOMAIN call, Moving(c), NEW r, NEW X, Legal(c, r, X),
         call' = Moved(c, r, X), UNCHANGED <<main, orphans>>, aborted' \subseteq DOMAIN call,
         UNCHANGED <<aborted, abandoned>> \/ abandoned'
  PROVE  Cancelled'
<1>1. main.at \notin {"draining", "done"}
  BY DEF Cancelled, LiveCalls, Moving
<1>2. \A k \in DOMAIN call : k \in DOMAIN call'
  BY MovedCalls
<1> QED
  BY <1>1, <1>2 DEF Cancelled, NothingLeft

\* A task that was executed to a good end stays so.
LEMMA RanStays ==
  ASSUME Tree, NEW c \in DOMAIN call, Live(c), NEW r, NEW X, Legal(c, r, X),
         call' = Moved(c, r, X), NEW t, Ran(t)
  PROVE  Ran(t)'
<1>1. PICK k \in DOMAIN call :
        TaskOf(k) = t /\ call[k].own /\ call[k].at = "ended" /\ call[k].err = "ok"
  BY DEF Ran
<1>2. k # c
  BY <1>1 DEF Live
<1>3. k \in DOMAIN call' /\ call'[k] = call[k]
  BY <1>2, MovedCalls
<1> QED
  BY <1>1, <1>3 DEF Ran

LEMMA DepsMoves ==
  ASSUME Tree, EndedWell, DepsRan, file' = file, NEW c \in DOMAIN call, Live(c), NEW r, NEW X,
         Legal(c, r, X), call' = Moved(c, r, X),
         r.at = "ended" /\ r.err = "ok" => TaskOf(c) \in file.skipped \/ r.own \/ Ran(TaskOf(c)),
         r.at \in {"cmds", "defer"} =>
           \/ call[c].at \in {"cmds", "defer"}
           \/ \A d \in file.deps[TaskOf(c)] \ file.skipped : Ran(d)
  PROVE  EndedWell' /\ DepsRan'
<1>1. /\ \A k : k \in DOMAIN call' <=> k \in DOMAIN call \/ \E x \in X : k = Append(c, x)
      /\ call'[c] = r /\ \A k \in DOMAIN call : k # c => call'[k] = call[k]
      /\ \A x \in X : call'[Append(c, x)] = Fresh
  BY MovedCalls
<1>2. ASSUME NEW k \in DOMAIN call'
      PROVE k = c \/ (k \in DOMAIN call /\ k # c) \/ call'[k] = Fresh
  BY <1>1
<1>3. ASSUME NEW k \in DOMAIN call', call'[k].at = "ended", call'[k].err = "ok"
      PROVE  TaskOf(k) \in file.skipped \/ Ran(TaskOf(k))'
  <2>1. CASE k = c
    <3>1. CASE r.own
      BY <1>1, <1>3, <2>1, <3>1 DEF Ran
    <3>2. CASE ~r.own
      BY <1>1, <1>3, <2>1, <3>2, RanStays
    <3> QED
      BY <3>1, <3>2
  <2>2. CASE k \in DOMAIN call /\ k # c
    <3>1. TaskOf(k) \in file.skipped \/ Ran(TaskOf(k))
      BY <1>1, <1>3, <2>2 DEF EndedWell
    <3> QED
      BY <3>1, RanStays
  <2>3. call'[k] # Fresh
    BY <1>3 DEF Fresh
  <2> QED
    BY <1>2, <2>1, <2>2, <2>3
<1>4. ASSUME NEW k \in DOMAIN call', call'[k].at \in {"cmds", "defer"},
             NEW d \in file.deps[TaskOf(k)] \ file.skipped
      PROVE  Ran(d)'
  <2>1. CASE k = c
    <3>1. Ran(d)
      BY <1>1, <1>4, <2>1 DEF DepsRan, Ran
    <3> QED
      BY <3>1, RanStays
  <2>2. CASE k \in DOMAIN call /\ k # c
    <3>1. Ran(d)
      BY <1>1, <1>4, <2>2 DEF DepsRan, Ran
    <3> QED
      BY <3>1, RanStays
  <2>3. call'[k] # Fresh
    BY <1>4 DEF Fresh
  <2> QED
    BY <1>2, <2>1, <2>2, <2>3
<1>5. EndedWell'
  BY <1>3 DEF EndedWell
<1>6. DepsRan'
  BY <1>4 DEF DepsRan, Ran
<1> QED
  BY <1>5, <1>6

-----------------------------------------------------------------------------
(* Permits                                                                 *)

\* A call has a permit while its command runs.
Holds(r) == Alive(r) /\ r.doing = "shell"
Holders == {c \in LiveCalls : call[c].doing = "shell"}

LEMMA HoldersAre ==
  Holders = {k \in DOMAIN call : Holds(call[k])}
BY DEF Holders, LiveCalls, Live, Holds, Alive

LEMMA HoldersMove ==
  ASSUME Tree, NEW c \in DOMAIN call, NEW r, NEW X, Legal(c, r, X), call' = Moved(c, r, X)
  PROVE  Holders' = IF Holds(r) THEN Holders \cup {c} ELSE Holders \ {c}
<1>1. /\ \A k : k \in DOMAIN call' <=> k \in DOMAIN call \/ \E x \in X : k = Append(c, x)
      /\ call'[c] = r /\ \A k \in DOMAIN call : k # c => call'[k] = call[k]
      /\ \A x \in X : call'[Append(c, x)] = Fresh
  BY MovedCalls
<1>2. ~Holds(Fresh)
  BY DEF Holds, Fresh
<1>3. Holders' = {k \in DOMAIN call' : Holds(call'[k])}
  BY DEF Holders, LiveCalls, Live, Holds, Alive
<1>4. ASSUME NEW k PROVE k \in Holders' <=> (k # c /\ k \in Holders) \/ (k = c /\ Holds(r))
  <2>1. k \in Holders' <=> k \in DOMAIN call' /\ Holds(call'[k])
    BY <1>3
  <2>2. k \in Holders <=> k \in DOMAIN call /\ Holds(call[k])
    BY HoldersAre
  <2> QED
    BY <1>1, <1>2, <2>1, <2>2
<1> QED
  BY <1>4

\* A permit is taken, given back, or kept.
LEMMA PermitsMove ==
  ASSUME Tree, Permits, file \in Files, file' = file, NEW c \in DOMAIN call, Live(c), NEW r,
         NEW X,
         Legal(c, r, X), call' = Moved(c, r, X),
         \/ permits' = permits /\ (Holds(r) <=> call[c].doing = "shell")
         \/ permits > 0 /\ permits' = permits - 1 /\ Holds(r) /\ call[c].doing # "shell"
         \/ permits' = permits + 1 /\ ~Holds(r) /\ call[c].doing = "shell"
  PROVE  Permits'
<1>1. /\ IsFiniteSet(Holders) /\ permits \in Nat /\ permits + Cardinality(Holders) = file.limit
      /\ Cardinality(Holders) \in Nat
  BY FS_CardinalityType DEF Permits, Holders
<1>2. c \in Holders <=> call[c].doing = "shell"
  BY DEF Holders, LiveCalls
<1>3. Holders' = IF Holds(r) THEN Holders \cup {c} ELSE Holders \ {c}
  BY HoldersMove
<1>4. IsFiniteSet(Holders') /\ permits' \in Nat
      /\ permits' + Cardinality(Holders') = file.limit
  <2>1. CASE permits' = permits /\ (Holds(r) <=> call[c].doing = "shell")
    <3>1. Holders' = Holders
      BY <1>2, <1>3, <2>1
    <3> QED
      BY <1>1, <2>1, <3>1
  <2>2. CASE permits > 0 /\ permits' = permits - 1 /\ Holds(r) /\ call[c].doing # "shell"
    <3>1. Holders' = Holders \cup {c} /\ c \notin Holders
      BY <1>2, <1>3, <2>2
    <3>2. IsFiniteSet(Holders') /\ Cardinality(Holders') = Cardinality(Holders) + 1
      BY <1>1, <3>1, FS_AddElement
    <3> QED
      BY <1>1, <2>2, <3>2
  <2>3. CASE permits' = permits + 1 /\ ~Holds(r) /\ call[c].doing = "shell"
    <3>1. Holders' = Holders \ {c} /\ c \in Holders
      BY <1>2, <1>3, <2>3
    <3>2. IsFiniteSet(Holders') /\ Cardinality(Holders') = Cardinality(Holders) - 1
      BY <1>1, <3>1, FS_RemoveElement
    <3> QED
      BY <1>1, <2>3, <3>2
  <2> QED
    BY <2>1, <2>2, <2>3
<1> QED
  BY <1>4 DEF Permits, Holders

-----------------------------------------------------------------------------
(* The run-once cells                                                      *)

\* A call that goes on, or never executed its task, leaves the cells as they are.
LEMMA CellsStay ==
  ASSUME Tree, Cells, UNCHANGED <<file, cell>>, NEW c \in DOMAIN call, Live(c), NEW r, NEW X,
         Legal(c, r, X), call' = Moved(c, r, X),
         TaskOf(c) \in file.once /\ r.own => call[c].own /\ Alive(r)
  PROVE  Cells'
<1>1. /\ \A k : k \in DOMAIN call' <=> k \in DOMAIN call \/ \E x \in X : k = Append(c, x)
      /\ call'[c] = r /\ \A k \in DOMAIN call : k # c => call'[k] = call[k]
      /\ \A x \in X : call'[Append(c, x)] = Fresh
  BY MovedCalls
<1>2. cell' \in [Tasks -> [by: DOMAIN call' \cup {NoCall}, res: Errors \cup {"ok", "none"}]]
  BY <1>1 DEF Cells
<1>3. ASSUME NEW k \in DOMAIN call', TaskOf(k) \in file.once, call'[k].own, call'[k].at # "gone"
      PROVE  cell[TaskOf(k)].by = k /\ (Alive(call'[k]) <=> cell[TaskOf(k)].res = "none")
  <2>1. CASE k = c
    BY <1>1, <1>3, <2>1 DEF Cells, Live, Alive
  <2>2. CASE k \in DOMAIN call /\ k # c
    BY <1>1, <1>3, <2>2 DEF Cells, Live, Alive
  <2>3. call'[k] # Fresh
    BY <1>3 DEF Fresh
  <2>4. k = c \/ (k \in DOMAIN call /\ k # c) \/ call'[k] = Fresh
    BY <1>1
  <2> QED
    BY <2>1, <2>2, <2>3, <2>4
<1>4. ASSUME NEW t \in Tasks, t \in file.once, cell[t].res # "none"
      PROVE  \E k \in DOMAIN call' : /\ TaskOf(k) = t /\ call'[k].own /\ call'[k].at = "ended"
                                     /\ cell[t].res = "ok" => call'[k].err = "ok"
  <2>1. PICK k \in DOMAIN call : /\ TaskOf(k) = t /\ call[k].own /\ call[k].at = "ended"
                                 /\ cell[t].res = "ok" => call[k].err = "ok"
    BY <1>4 DEF Cells
  <2>2. k # c
    BY <2>1 DEF Live
  <2> QED
    BY <1>1, <2>1, <2>2
<1> QED
  BY <1>2, <1>3, <1>4 DEF Cells, Live, Alive

\* The call that finds the cell empty takes it: no other executes the task or did.
LEMMA CellsClaimed ==
  ASSUME Tree, Cells, file' = file, NEW c \in DOMAIN call, Live(c), NEW r,
         Legal(c, r, {}), call' = Moved(c, r, {}), Alive(r),
         cell[TaskOf(c)].res = "none", cell[TaskOf(c)].by = NoCall,
         cell' = [cell EXCEPT ![TaskOf(c)].by = c]
  PROVE  Cells'
<1>1. /\ \A k : k \in DOMAIN call' <=> k \in DOMAIN call
      /\ call'[c] = r /\ \A k \in DOMAIN call : k # c => call'[k] = call[k]
  BY MovedCalls
<1> DEFINE u == TaskOf(c)
<1>2. /\ u \in Tasks
      /\ cell \in [Tasks -> [by: DOMAIN call \cup {NoCall}, res: Errors \cup {"ok", "none"}]]
      /\ cell'[u].by = c /\ cell'[u].res = "none" /\ \A t \in Tasks : t # u => cell'[t] = cell[t]
  BY OfTree DEF Cells
<1>3. cell' \in [Tasks -> [by: DOMAIN call' \cup {NoCall}, res: Errors \cup {"ok", "none"}]]
  BY <1>1, <1>2
<1>4. ASSUME NEW k \in DOMAIN call', TaskOf(k) \in file.once, call'[k].own, call'[k].at # "gone"
      PROVE  cell'[TaskOf(k)].by = k /\ (Alive(call'[k]) <=> cell'[TaskOf(k)].res = "none")
  <2>1. CASE k = c
    BY <1>1, <1>2, <2>1
  <2>2. CASE k # c
    <3>1. /\ k \in DOMAIN call /\ call'[k] = call[k] /\ cell[TaskOf(k)].by = k
          /\ (Alive(call[k]) <=> cell[TaskOf(k)].res = "none")
      BY <1>1, <1>4, <2>2 DEF Cells, Live, Alive
    <3>2. k \in Seq(Tasks) /\ TaskOf(k) \in Tasks
      BY <3>1, OfTree DEF Paths
    <3>3. TaskOf(k) # u
      BY <3>1, <3>2, LimitAssumption
    <3> QED
      BY <1>2, <3>1, <3>2, <3>3
  <2> QED
    BY <2>1, <2>2
<1>5. ASSUME NEW t \in Tasks, t \in file.once, cell'[t].res # "none"
      PROVE  \E k \in DOMAIN call' : /\ TaskOf(k) = t /\ call'[k].own /\ call'[k].at = "ended"
                                     /\ cell'[t].res = "ok" => call'[k].err = "ok"
  <2>1. t # u /\ cell'[t] = cell[t]
    BY <1>2, <1>5
  <2>2. PICK k \in DOMAIN call : /\ TaskOf(k) = t /\ call[k].own /\ call[k].at = "ended"
                                 /\ cell[t].res = "ok" => call[k].err = "ok"
    BY <1>5, <2>1 DEF Cells
  <2>3. k # c
    BY <2>2 DEF Live
  <2> QED
    BY <1>1, <2>1, <2>2, <2>3
<1> QED
  BY <1>3, <1>4, <1>5 DEF Cells, Live, Alive

\* A call that ends what it executed leaves its result in the cell.
LEMMA CellsFinished ==
  ASSUME Tree, Cells, file' = file, NEW c \in DOMAIN call, Live(c), call[c].own, NEW r,
         Legal(c, r, {}), call' = Moved(c, r, {}), NEW e \in Errors \cup {"ok"},
         r.own, r.at = "ended", r.err = Outcome(c, e), cell' = FinishedCell(c, e)
  PROVE  Cells'
<1>1. /\ \A k : k \in DOMAIN call' <=> k \in DOMAIN call
      /\ call'[c] = r /\ \A k \in DOMAIN call : k # c => call'[k] = call[k]
  BY MovedCalls
<1> DEFINE u == TaskOf(c)
<1>2. /\ u \in Tasks
      /\ cell \in [Tasks -> [by: DOMAIN call \cup {NoCall}, res: Errors \cup {"ok", "none"}]]
  BY OfTree DEF Cells
<1>3. /\ u \in file.once => cell'[u].by = c /\ cell'[u].res = e
      /\ u \notin file.once => cell' = cell
      /\ \A t \in Tasks : t # u => cell'[t] = cell[t]
  <2>1. u \in file.once => cell[u].by = c
    BY DEF Cells, Live
  <2> QED
    BY <1>2, <2>1 DEF FinishedCell
<1>4. cell' \in [Tasks -> [by: DOMAIN call' \cup {NoCall}, res: Errors \cup {"ok", "none"}]]
  BY <1>1, <1>2 DEF FinishedCell
<1>5. e # "none"
  BY DEF Errors
<1>6. ASSUME NEW k \in DOMAIN call', TaskOf(k) \in file.once, call'[k].own, call'[k].at # "gone"
      PROVE  cell'[TaskOf(k)].by = k /\ (Alive(call'[k]) <=> cell'[TaskOf(k)].res = "none")
  <2>1. CASE k = c
    BY <1>1, <1>3, <1>5, <1>6, <2>1 DEF Alive
  <2>2. CASE k # c
    <3>1. /\ k \in DOMAIN call /\ call'[k] = call[k] /\ cell[TaskOf(k)].by = k
          /\ (Alive(call[k]) <=> cell[TaskOf(k)].res = "none")
      BY <1>1, <1>6, <2>2 DEF Cells, Live, Alive
    <3>2. TaskOf(k) \in Tasks
      BY <3>1, OfTree
    <3>3. u \in file.once => cell[u].by = c
      BY DEF Cells, Live
    <3> QED
      BY <1>3, <1>6, <2>2, <3>1, <3>2, <3>3
  <2> QED
    BY <2>1, <2>2
<1>7. ASSUME NEW t \in Tasks, t \in file.once, cell'[t].res # "none"
      PROVE  \E k \in DOMAIN call' : /\ TaskOf(k) = t /\ call'[k].own /\ call'[k].at = "ended"
                                     /\ cell'[t].res = "ok" => call'[k].err = "ok"
  <2>1. CASE t = u
    BY <1>1, <1>3, <1>7, <2>1 DEF Outcome
  <2>2. CASE t # u
    <3>1. PICK k \in DOMAIN call : /\ TaskOf(k) = t /\ call[k].own /\ call[k].at = "ended"
                                   /\ cell[t].res = "ok" => call[k].err = "ok"
      BY <1>3, <1>7, <2>2 DEF Cells
    <3>2. k # c
      BY <3>1 DEF Live
    <3> QED
      BY <1>1, <1>3, <2>2, <3>1, <3>2
  <2> QED
    BY <2>1, <2>2
<1> QED
  BY <1>4, <1>6, <1>7 DEF Cells, Live, Alive

\* A cell whose call is gone before it had a value is empty again.
LEMMA CellsDropped ==
  ASSUME Tree, Cells, file' = file, NEW c \in DOMAIN call, Live(c), NEW r,
         Legal(c, r, {}), call' = Moved(c, r, {}), r.at = "gone", cell' = Dropped(c)
  PROVE  Cells'
<1>1. /\ \A k : k \in DOMAIN call' <=> k \in DOMAIN call
      /\ call'[c] = r /\ \A k \in DOMAIN call : k # c => call'[k] = call[k]
  BY MovedCalls
<1>2. cell \in [Tasks -> [by: DOMAIN call \cup {NoCall}, res: Errors \cup {"ok", "none"}]]
  BY DEF Cells
<1>3. /\ \A t \in Tasks : cell'[t].res = cell[t].res /\ (cell[t].by # c => cell'[t] = cell[t])
      /\ cell' \in [Tasks -> [by: DOMAIN call' \cup {NoCall}, res: Errors \cup {"ok", "none"}]]
  BY <1>1, <1>2 DEF Dropped
<1>4. ASSUME NEW k \in DOMAIN call', TaskOf(k) \in file.once, call'[k].own, call'[k].at # "gone"
      PROVE  cell'[TaskOf(k)].by = k /\ (Alive(call'[k]) <=> cell'[TaskOf(k)].res = "none")
  <2>1. k # c /\ k \in DOMAIN call /\ call'[k] = call[k]
    BY <1>1, <1>4
  <2>2. cell[TaskOf(k)].by = k /\ (Alive(call[k]) <=> cell[TaskOf(k)].res = "none")
    BY <1>4, <2>1 DEF Cells, Live, Alive
  <2>3. TaskOf(k) \in Tasks
    BY <2>1, OfTree
  <2> QED
    BY <1>3, <2>1, <2>2, <2>3
<1>5. ASSUME NEW t \in Tasks, t \in file.once, cell'[t].res # "none"
      PROVE  \E k \in DOMAIN call' : /\ TaskOf(k) = t /\ call'[k].own /\ call'[k].at = "ended"
                                     /\ cell'[t].res = "ok" => call'[k].err = "ok"
  <2>1. PICK k \in DOMAIN call : /\ TaskOf(k) = t /\ call[k].own /\ call[k].at = "ended"
                                 /\ cell[t].res = "ok" => call[k].err = "ok"
    BY <1>3, <1>5 DEF Cells
  <2>2. k # c
    BY <2>1 DEF Live
  <2> QED
    BY <1>1, <1>3, <2>1, <2>2
<1> QED
  BY <1>3, <1>4, <1>5 DEF Cells, Live, Alive

-----------------------------------------------------------------------------
(* Where a call is in its task's lists                                     *)

\* The lists of a Taskfile: a task is called from one place only.
LEMMA Lists ==
  ASSUME NEW f \in Files, NEW t \in Tasks
  PROVE  /\ f.setup[t] \in Seq(Tasks) /\ f.cmds[t] \in Seq(Tasks \cup {Shell})
         /\ f.defers[t] \in Seq(Tasks \cup {Shell}) /\ f.deps[t] \subseteq Tasks
         /\ Len(f.setup[t]) \in Nat /\ Len(f.cmds[t]) \in Nat /\ Len(f.defers[t]) \in Nat
         /\ DOMAIN f.setup[t] = 1..Len(f.setup[t]) /\ DOMAIN f.cmds[t] = 1..Len(f.cmds[t])
         /\ DOMAIN f.defers[t] = 1..Len(f.defers[t])
<1>1. WellFormed(f)
  BY FileAssumption
<1>2. /\ f.setup[t] \in Seq(Tasks) /\ f.cmds[t] \in Seq(Tasks \cup {Shell})
      /\ f.defers[t] \in Seq(Tasks \cup {Shell}) /\ f.deps[t] \subseteq Tasks
  BY <1>1 DEF WellFormed
<1> QED
  BY <1>2

LEMMA CalledOnce ==
  ASSUME NEW f \in Files, NEW t \in Tasks
  PROVE  /\ \A i \in DOMAIN f.setup[t] :
              /\ f.setup[t][i] \in Tasks /\ f.setup[t][i] \notin f.deps[t]
              /\ f.setup[t][i] \notin Range(f.cmds[t]) /\ f.setup[t][i] \notin Range(f.defers[t])
              /\ \A j \in DOMAIN f.setup[t] : f.setup[t][i] = f.setup[t][j] => i = j
         /\ \A x \in f.deps[t] : x \notin Range(f.cmds[t]) /\ x \notin Range(f.defers[t])
         /\ \A i \in DOMAIN f.cmds[t] : f.cmds[t][i] # Shell =>
              /\ f.cmds[t][i] \in Tasks /\ f.cmds[t][i] \notin Range(f.defers[t])
              /\ \A j \in DOMAIN f.cmds[t] : f.cmds[t][i] = f.cmds[t][j] => i = j
         /\ \A i \in DOMAIN f.defers[t] : f.defers[t][i] # Shell =>
              /\ f.defers[t][i] \in Tasks
              /\ \A j \in DOMAIN f.defers[t] : f.defers[t][i] = f.defers[t][j] => i = j
<1> DEFINE S == f.setup[t]
           C == f.cmds[t]
           F == f.defers[t]
           E == f.deps[t]
<1>1. /\ OnceEach(S) /\ OnceEach(C) /\ OnceEach(F)
      /\ Range(S) \cap (E \cup Range(C) \cup Range(F)) = {}
      /\ E \cap (Range(C) \cup Range(F)) = {} /\ Range(C) \cap Range(F) \subseteq {Shell}
  BY FileAssumption DEF Distinct
<1>2. S \in Seq(Tasks) /\ C \in Seq(Tasks \cup {Shell}) /\ F \in Seq(Tasks \cup {Shell})
  BY Lists
<1> HIDE DEF S, C, F, E
<1>3. ASSUME NEW i \in DOMAIN S
      PROVE  /\ S[i] \in Tasks /\ S[i] \notin E /\ S[i] \notin Range(C) /\ S[i] \notin Range(F)
             /\ \A j \in DOMAIN S : S[i] = S[j] => i = j
  <2>1. S[i] \in Tasks /\ S[i] \in Range(S)
    BY <1>2 DEF Range
  <2> QED
    BY <1>1, <2>1, LimitAssumption DEF OnceEach
<1>4. \A x \in E : x \notin Range(C) /\ x \notin Range(F)
  BY <1>1
<1>5. ASSUME NEW i \in DOMAIN C, C[i] # Shell
      PROVE  /\ C[i] \in Tasks /\ C[i] \notin Range(F)
             /\ \A j \in DOMAIN C : C[i] = C[j] => i = j
  <2>1. C[i] \in Tasks /\ C[i] \in Range(C)
    BY <1>2, <1>5 DEF Range
  <2> QED
    BY <1>1, <1>5, <2>1 DEF OnceEach
<1>6. ASSUME NEW i \in DOMAIN F, F[i] # Shell
      PROVE  F[i] \in Tasks /\ \A j \in DOMAIN F : F[i] = F[j] => i = j
  BY <1>1, <1>2, <1>6 DEF OnceEach
<1> QED
  BY <1>3, <1>4, <1>5, <1>6 DEF S, C, F, E

\* A call of t goes from state r to q, calling the tasks X, and passes by nothing it waits
\* for and no error it has to look at.
Passes(f, t, r, q, X) ==
  /\ q \in CallStates /\ Placed(f, t, q)
  /\ X \subseteq Ahead(f, t, r) /\ Ahead(f, t, q) \subseteq Ahead(f, t, r) \ X
  /\ \A x \in X : MayRun(f, t, q, x)
  /\ \A x \in Tasks :
       /\ Awaits(f, t, q, x) => x \in X \/ Awaits(f, t, r, x)
       /\ MayRun(f, t, r, x) => MayRun(f, t, q, x)
       /\ Heeds(f, t, r, x) => Heeds(f, t, q, x)

LEMMA PassesLegal ==
  ASSUME Tree, NEW c \in DOMAIN call, NEW q, NEW X, Passes(file, TaskOf(c), call[c], q, X)
  PROVE  Legal(c, q, X)
<1> DEFINE t == TaskOf(c)
<1>1. \A x \in Tasks :
        /\ Awaits(file, t, call[c], x) => Append(c, x) \in DOMAIN call
        /\ Append(c, x) \in DOMAIN call => Linked(file, t, call[c], x, call[Append(c, x)])
  BY OfTree
<1>2. ASSUME NEW x \in Tasks, Append(c, x) \in DOMAIN call
      PROVE  Linked(file, t, q, x, call[Append(c, x)])
  <2>1. Linked(file, t, call[c], x, call[Append(c, x)])
    BY <1>1, <1>2
  <2> QED
    BY <2>1 DEF Linked, Passes
<1> QED
  BY <1>1, <1>2 DEF Legal, Passes

\* Starting: the call was turned away, waits for a cell, or executes its task.
LEMMA PassesStart ==
  ASSUME NEW f \in Files, NEW t \in Tasks, NEW r \in CallStates, r.at \in {"queued", "wait"},
         Placed(f, t, r),
         NEW q \in CallStates, q.doing = "pick", q.at \in {"wait", "setup", "ended"},
         q.at # "ended" => q.i = 1 /\ q.err = "ok", q.own <=> q.at = "setup",
         q.at = "wait" => t \in f.once
  PROVE  Passes(f, t, r, q, {})
<1>1. Ahead(f, t, r) = Tasks /\ Ahead(f, t, q) \subseteq Tasks
  BY DEF Ahead
<1>2. Placed(f, t, q)
  <2>1. 1 \in 1..(Len(f.setup[t]) + 1)
    BY Lists
  <2> QED
    BY <2>1 DEF Placed, Executing
<1>3. ASSUME NEW x PROVE ~Awaits(f, t, q, x) /\ ~MayRun(f, t, r, x) /\ ~Heeds(f, t, r, x)
  BY DEF Placed, MayRun, Awaits, Calls, Heeds, Failed
<1> QED
  BY <1>1, <1>2, <1>3 DEF Passes

\* The next setup task.
LEMMA PassesSetup ==
  ASSUME NEW f \in Files, NEW t \in Tasks, NEW r \in CallStates, Placed(f, t, r),
         r.at = "setup", r.doing = "pick", r.i <= Len(f.setup[t])
  PROVE  Passes(f, t, r, [r EXCEPT !.doing = "call"], {f.setup[t][r.i]})
<1> DEFINE q == [r EXCEPT !.doing = "call"]
           x0 == f.setup[t][r.i]
<1>1. q \in CallStates /\ q.at = "setup" /\ q.doing = "call" /\ q.i = r.i /\ q.own = r.own
      /\ q.err = r.err
  BY DEF CallStates
<1>2. Placed(f, t, q) /\ r.i \in DOMAIN f.setup[t]
  BY <1>1, Lists DEF Placed, Executing
<1> HIDE DEF q
<1>3. x0 \in Ahead(f, t, r)
  BY <1>2, CalledOnce DEF Ahead
<1>4. ASSUME NEW x \in Ahead(f, t, q) PROVE x \in Ahead(f, t, r) /\ x # x0
  <2>1. x \in Tasks
    BY DEF Ahead
  <2>2. \/ \E j \in DOMAIN f.setup[t] : x = f.setup[t][j] /\ j > r.i
        \/ x \in f.deps[t] \/ x \in Range(f.cmds[t]) \/ x \in Range(f.defers[t])
    BY <1>1, <1>4 DEF Ahead
  <2>3. x \in Ahead(f, t, r)
    BY <2>1, <2>2 DEF Ahead
  <2>4. x # x0
    <3>1. \A j \in DOMAIN f.setup[t] : j > r.i => j # r.i
      BY Lists DEF CallStates
    <3> QED
      BY <1>2, <2>2, <3>1, CalledOnce
  <2> QED
    BY <2>3, <2>4
<1>5. Calls(f, t, q, x0) /\ \A x : Awaits(f, t, q, x) => x = x0
  BY <1>1 DEF Awaits, Calls
<1>6. ASSUME NEW x PROVE ~MayRun(f, t, r, x) /\ ~Heeds(f, t, r, x)
  BY DEF MayRun, Awaits, Calls, Heeds, Failed
<1> QED
  BY <1>1, <1>2, <1>3, <1>4, <1>5, <1>6 DEF Passes, MayRun, Awaits, q

\* The body: the deps are called together.
LEMMA PassesDeps ==
  ASSUME NEW f \in Files, NEW t \in Tasks, NEW r \in CallStates, Placed(f, t, r),
         r.at = "setup", r.doing = "pick"
  PROVE  Passes(f, t, r, [r EXCEPT !.at = "deps"], f.deps[t])
<1> DEFINE q == [r EXCEPT !.at = "deps"]
<1>1. /\ q \in CallStates /\ q.at = "deps" /\ q.doing = "pick" /\ q.i = r.i
      /\ q.own = r.own /\ q.err = r.err
  BY DEF CallStates, Executing
<1>2. Placed(f, t, q)
  BY <1>1 DEF Placed, Executing
<1> HIDE DEF q
<1>3. f.deps[t] \subseteq Ahead(f, t, r)
  BY Lists DEF Ahead
<1>4. ASSUME NEW x \in Ahead(f, t, q) PROVE x \in Ahead(f, t, r) /\ x \notin f.deps[t]
  <2>1. x \in Tasks /\ (x \in Range(f.cmds[t]) \/ x \in Range(f.defers[t]))
    BY <1>1, <1>4 DEF Ahead
  <2> QED
    BY <2>1, CalledOnce DEF Ahead
<1>5. \A x : Awaits(f, t, q, x) <=> x \in f.deps[t]
  BY <1>1 DEF Awaits, Calls
<1>6. ASSUME NEW x PROVE ~MayRun(f, t, r, x) /\ ~Heeds(f, t, r, x)
  BY DEF MayRun, Awaits, Calls, Heeds, Failed
<1> QED
  BY <1>1, <1>2, <1>3, <1>4, <1>5, <1>6 DEF Passes, MayRun, q

\* Fail-fast: the deps are still waited for.
LEMMA PassesFailing ==
  ASSUME NEW f \in Files, NEW t \in Tasks, NEW r \in CallStates, Placed(f, t, r),
         r.at = "deps", NEW e \in Errors
  PROVE  Passes(f, t, r, [r EXCEPT !.at = "failing", !.err = e], {})
<1> DEFINE q == [r EXCEPT !.at = "failing", !.err = e]
<1>1. /\ q \in CallStates /\ q.at = "failing" /\ q.doing = r.doing /\ q.i = r.i
      /\ q.own = r.own /\ q.err = e
  BY DEF CallStates, Executing
<1>2. Placed(f, t, q)
  BY <1>1 DEF Placed, Executing, Errors
<1> HIDE DEF q
<1>3. Ahead(f, t, q) \subseteq Ahead(f, t, r)
  BY <1>1 DEF Ahead
<1>4. ASSUME NEW x PROVE ~Awaits(f, t, q, x) /\ (MayRun(f, t, r, x) => MayRun(f, t, q, x))
  BY <1>1 DEF Awaits, Calls, MayRun
<1>5. \A x : Heeds(f, t, r, x) => Heeds(f, t, q, x)
  BY <1>4 DEF Heeds, Failed
<1> QED
  BY <1>1, <1>2, <1>3, <1>4, <1>5 DEF Passes, q

\* A command is at hand: the one at the call's place in the list it is at.
AtCommand(f, t, r) ==
  \/ r.at = "cmds" /\ r.i <= Len(f.cmds[t])
  \/ r.at = "defer" /\ r.i > 0

CommandAt(f, t, r) == IF r.at = "cmds" THEN f.cmds[t][r.i] ELSE f.defers[t][r.i]

\* A shell command waits for its permit, and then runs.
LEMMA PassesShell ==
  ASSUME NEW f \in Files, NEW t \in Tasks, NEW r \in CallStates, Placed(f, t, r),
         AtCommand(f, t, r), r.doing # "call", NEW d \in {"permit", "shell"}
  PROVE  Passes(f, t, r, [r EXCEPT !.doing = d], {})
<1> DEFINE q == [r EXCEPT !.doing = d]
<1>1. /\ q \in CallStates /\ q.at = r.at /\ q.doing = d /\ q.i = r.i
      /\ q.own = r.own /\ q.err = r.err /\ r.at \in {"cmds", "defer"}
      /\ d # "call" /\ d # "pick"
  BY DEF CallStates, AtCommand
<1>2. Placed(f, t, q)
  BY <1>1 DEF Placed, Executing, AtCommand
<1> HIDE DEF q
<1>3. Ahead(f, t, q) \subseteq Ahead(f, t, r)
  BY <1>1 DEF Ahead
<1>4. ASSUME NEW x PROVE ~Awaits(f, t, q, x) /\ ~MayRun(f, t, r, x)
  BY <1>1 DEF Awaits, Calls, MayRun
<1>5. \A x : Heeds(f, t, r, x) => Heeds(f, t, q, x)
  BY <1>1, <1>4 DEF Heeds, Failed
<1> QED
  BY <1>1, <1>2, <1>3, <1>4, <1>5 DEF Passes, q

\* A nested task is called.
LEMMA PassesNested ==
  ASSUME NEW f \in Files, NEW t \in Tasks, NEW r \in CallStates, Placed(f, t, r),
         AtCommand(f, t, r), r.doing = "pick", CommandAt(f, t, r) # Shell
  PROVE  Passes(f, t, r, [r EXCEPT !.doing = "call"], {CommandAt(f, t, r)})
<1> DEFINE q == [r EXCEPT !.doing = "call"]
           x0 == CommandAt(f, t, r)
<1>1. /\ q \in CallStates /\ q.at = r.at /\ q.doing = "call" /\ q.i = r.i
      /\ q.own = r.own /\ q.err = r.err /\ r.at \in {"cmds", "defer"} /\ r.i \in Nat
  BY DEF CallStates, AtCommand
<1>2. Placed(f, t, q)
  BY <1>1 DEF Placed, Executing, AtCommand, CommandAt
<1> HIDE DEF q
<1>3. /\ r.at = "cmds" => r.i \in DOMAIN f.cmds[t] /\ x0 = f.cmds[t][r.i]
      /\ r.at = "defer" => r.i \in DOMAIN f.defers[t] /\ x0 = f.defers[t][r.i]
  BY <1>1, Lists DEF Placed, AtCommand, CommandAt
<1>4. x0 \in Ahead(f, t, r)
  BY <1>1, <1>3, CalledOnce DEF Ahead
<1>5. ASSUME NEW x \in Ahead(f, t, q) PROVE x \in Ahead(f, t, r) /\ x # x0
  <2>1. CASE r.at = "cmds"
    <3>1. /\ x \in Tasks
          /\ \/ \E j \in DOMAIN f.cmds[t] : x = f.cmds[t][j] /\ j > r.i
             \/ x \in Range(f.defers[t])
      BY <1>1, <1>5, <2>1 DEF Ahead
    <3>2. \A j \in DOMAIN f.cmds[t] : j > r.i => j # r.i
      BY <1>1, Lists
    <3> QED
      BY <1>3, <2>1, <3>1, <3>2, CalledOnce DEF Ahead
  <2>2. CASE r.at = "defer"
    <3>1. x \in Tasks /\ \E j \in DOMAIN f.defers[t] : x = f.defers[t][j] /\ j < r.i
      BY <1>1, <1>5, <2>2 DEF Ahead
    <3>2. \A j \in DOMAIN f.defers[t] : j < r.i => j # r.i
      BY <1>1, Lists
    <3> QED
      BY <1>3, <2>2, <3>1, <3>2, CalledOnce DEF Ahead
  <2> QED
    BY <1>1, <2>1, <2>2
<1>6. Calls(f, t, q, x0) /\ \A x : Awaits(f, t, q, x) => x = x0
  BY <1>1, <1>3 DEF Awaits, Calls
<1>7. ASSUME NEW x PROVE ~MayRun(f, t, r, x) /\ (Heeds(f, t, r, x) => Heeds(f, t, q, x))
  BY <1>1 DEF MayRun, Awaits, Calls, Heeds, Failed
<1> QED
  BY <1>1, <1>2, <1>4, <1>5, <1>6, <1>7 DEF Passes, MayRun, Awaits, q

\* The commands are done: the deferred ones are all to run.
LEMMA PassesDefer ==
  ASSUME NEW f \in Files, NEW t \in Tasks, NEW r \in CallStates, Placed(f, t, r),
         r.at = "cmds", ~AtCommand(f, t, r)
  PROVE  Passes(f, t, r, [r EXCEPT !.at = "defer", !.i = Len(f.defers[t])], {})
<1> DEFINE q == [r EXCEPT !.at = "defer", !.i = Len(f.defers[t])]
<1>1. Len(f.defers[t]) \in Nat /\ DOMAIN f.defers[t] = 1..Len(f.defers[t])
  BY Lists
<1>2. /\ q \in CallStates /\ q.at = "defer" /\ q.doing = r.doing /\ q.i = Len(f.defers[t])
      /\ q.own = r.own /\ q.err = r.err
  BY <1>1 DEF CallStates, Executing
<1>3. Placed(f, t, q) /\ r.doing = "pick"
  BY <1>1, <1>2, Lists DEF Placed, Executing, AtCommand
<1> HIDE DEF q
<1>4. Ahead(f, t, q) \subseteq Ahead(f, t, r)
  BY <1>2 DEF Ahead, Range
<1>5. ASSUME NEW x PROVE ~Awaits(f, t, q, x) /\ ~MayRun(f, t, r, x) /\ ~Heeds(f, t, r, x)
  BY <1>2, <1>3 DEF Awaits, Calls, MayRun, Heeds, Failed
<1> QED
  BY <1>2, <1>3, <1>4, <1>5 DEF Passes, q

\* A future is dropped wherever it is.
LEMMA PassesDrop ==
  ASSUME NEW f \in Files, NEW t \in Tasks, NEW r \in CallStates, NEW q \in CallStates,
         q.at = "gone"
  PROVE  Passes(f, t, r, q, {})
<1>1. Placed(f, t, q) /\ Ahead(f, t, q) = {}
  BY DEF Placed, Executing, Ahead
<1>2. ASSUME NEW x \in Tasks
      PROVE  /\ ~Awaits(f, t, q, x) /\ (MayRun(f, t, r, x) => MayRun(f, t, q, x))
             /\ Heeds(f, t, r, x) => Heeds(f, t, q, x)
  BY DEF Awaits, Calls, MayRun, Heeds, Failed
<1> QED
  BY <1>1, <1>2 DEF Passes

-----------------------------------------------------------------------------
(* Ending a command and ending a call                                      *)

\* The state of a call after a command ended with o, which is error e to it.
Returned(f, t, r, o, e) ==
  IF r.at = "cmds" /\ o # "ok" /\ ~(o = "exit" /\ t \in f.lenient)
    THEN [r EXCEPT !.at = "defer", !.i = Len(f.defers[t]), !.doing = "pick", !.err = e]
    ELSE [r EXCEPT !.i = IF r.at = "defer" THEN r.i - 1 ELSE r.i + 1, !.doing = "pick",
                   !.err = IF r.at = "defer" /\ o = "denied" /\ r.err = "ok" THEN e ELSE r.err]

LEMMA MovedAlone ==
  ASSUME NEW c \in DOMAIN call, NEW r
  PROVE  Moved(c, r, {}) = [call EXCEPT ![c] = r]
BY DEF Moved

LEMMA ReturnIs ==
  ASSUME NEW c \in DOMAIN call, NEW o, NEW e, call[c] \in CallStates
  PROVE  Return(c, o, e) = Moved(c, Returned(file, TaskOf(c), call[c], o, e), {})
<1>1. Return(c, o, e) = [call EXCEPT ![c] = Returned(file, TaskOf(c), call[c], o, e)]
  BY DEF Return, Returned, NextIndex
<1> QED
  BY <1>1, MovedAlone

\* A command was at hand, or a setup task that ended well.
AtCall(f, t, r, o) == AtCommand(f, t,
       r) \/ (r.at = "setup" /\ r.i <= Len(f.setup[t]) /\ o = "ok")

LEMMA ReturnedState ==
  ASSUME NEW f \in Files, NEW t \in Tasks, NEW r \in CallStates, Placed(f, t, r),
         NEW o \in Errors \cup {"ok"}, NEW e \in Errors \cup {"ok"}, AtCall(f, t, r, o),
         NEW q, q = Returned(f, t, r, o, e)
  PROVE  /\ q \in CallStates /\ Placed(f, t, q) /\ q.doing = "pick" /\ q.own /\ Alive(q)
         /\ q.at \in {"setup", "cmds", "defer"}
         /\ q.at \in {"cmds", "defer"} => r.at # "setup"
         /\ Ahead(f, t, q) \subseteq Ahead(f, t, r)
         /\ \A x : ~Awaits(f, t, q, x)
         /\ r.at = "defer" /\ r.err # "ok" => q.at = "defer" /\ q.err # "ok"
         /\ r.at = "cmds" /\ o # "ok" /\ t \notin f.lenient => q.at = "defer" /\ q.err = e
<1>1. /\ Len(f.setup[t]) \in Nat /\ Len(f.cmds[t]) \in Nat /\ Len(f.defers[t]) \in Nat
      /\ DOMAIN f.setup[t] = 1..Len(f.setup[t]) /\ DOMAIN f.cmds[t] = 1..Len(f.cmds[t])
      /\ DOMAIN f.defers[t] = 1..Len(f.defers[t])
  BY Lists
<1>2. r.at \in {"setup", "cmds", "defer"} /\ r.i \in Nat /\ r.own
  BY DEF AtCall, AtCommand, CallStates, Placed, Executing
<1>3. CASE r.at = "cmds" /\ o # "ok" /\ ~(o = "exit" /\ t \in f.lenient)
  <2>1. q = [r EXCEPT !.at = "defer", !.i = Len(f.defers[t]), !.doing = "pick", !.err = e]
    BY <1>3 DEF Returned
  <2>2. /\ q \in CallStates /\ q.at = "defer" /\ q.i = Len(f.defers[t]) /\ q.doing = "pick"
        /\ q.err = e /\ q.own
    BY <1>1, <1>2, <2>1 DEF CallStates, Executing
  <2>3. Placed(f, t, q)
    BY <1>1, <2>2 DEF Placed, Executing
  <2>4. Ahead(f, t, q) \subseteq Ahead(f, t, r)
    BY <1>3, <2>2 DEF Ahead, Range
  <2>5. \A x : ~Awaits(f, t, q, x)
    BY <2>2 DEF Awaits, Calls
  <2> QED
    BY <1>3, <2>2, <2>3, <2>4, <2>5 DEF Alive
<1>4. CASE ~(r.at = "cmds" /\ o # "ok" /\ ~(o = "exit" /\ t \in f.lenient))
  <2> DEFINE n == IF r.at = "defer" THEN r.i - 1 ELSE r.i + 1
             v == IF r.at = "defer" /\ o = "denied" /\ r.err = "ok" THEN e ELSE r.err
  <2>1. n \in Nat /\ v \in Errors \cup {"ok"}
    BY <1>1, <1>2 DEF AtCall, AtCommand, CallStates
  <2>2. q = [r EXCEPT !.i = n, !.doing = "pick", !.err = v]
    BY <1>4 DEF Returned
  <2> HIDE DEF n, v
  <2>3. /\ q \in CallStates /\ q.at = r.at /\ q.i = n /\ q.doing = "pick" /\ q.err = v /\ q.own
    BY <1>2, <2>1, <2>2 DEF CallStates
  <2>4. Placed(f, t, q)
    <3>1. CASE r.at = "setup"
      <4>1. n = r.i + 1 /\ v = "ok" /\ r.i <= Len(f.setup[t]) /\ r.i \in Nat
        BY <1>1, <1>2, <3>1 DEF Placed, AtCall, AtCommand, CallStates, n, v
      <4> QED
        BY <1>1, <2>3, <3>1, <4>1 DEF Placed, Executing
    <3>2. CASE r.at = "cmds"
      <4>1. n = r.i + 1 /\ v = "ok" /\ r.i <= Len(f.cmds[t]) /\ r.i \in Nat
        BY <1>1, <1>2, <3>2 DEF Placed, AtCall, AtCommand, CallStates, n, v
      <4> QED
        BY <1>1, <2>3, <3>2, <4>1 DEF Placed, Executing
    <3>3. CASE r.at = "defer"
      <4>1. n = r.i - 1 /\ r.i \in 1..Len(f.defers[t])
        BY <1>1, <1>2, <3>3 DEF Placed, AtCall, AtCommand, CallStates, n
      <4> QED
        BY <1>1, <2>3, <3>3, <4>1 DEF Placed, Executing
    <3> QED
      BY <1>2, <3>1, <3>2, <3>3 DEF AtCall, AtCommand
  <2>5. ASSUME NEW x \in Ahead(f, t, q) PROVE x \in Ahead(f, t, r)
    <3>0. x \in Tasks
      BY <2>5 DEF Ahead
    <3>1. CASE r.at = "setup"
      <4>1. \A j \in DOMAIN f.setup[t] : j > n \/ j = n => j > r.i
        BY <1>1, <1>2, <3>1 DEF n
      <4>2. \/ \E j \in DOMAIN f.setup[t] : x = f.setup[t][j] /\ (j > n \/ j = n)
            \/ x \in f.deps[t] \/ x \in Range(f.cmds[t]) \/ x \in Range(f.defers[t])
        BY <2>3, <2>5, <3>1 DEF Ahead
      <4> QED
        BY <3>0, <3>1, <4>1, <4>2 DEF Ahead
    <3>2. CASE r.at = "cmds"
      <4>1. \A j \in DOMAIN f.cmds[t] : j > n \/ j = n => j > r.i
        BY <1>1, <1>2, <3>2 DEF n
      <4>2. \/ \E j \in DOMAIN f.cmds[t] : x = f.cmds[t][j] /\ (j > n \/ j = n)
            \/ x \in Range(f.defers[t])
        BY <2>3, <2>5, <3>2 DEF Ahead
      <4> QED
        BY <3>0, <3>2, <4>1, <4>2 DEF Ahead
    <3>3. CASE r.at = "defer"
      <4>1. \A j \in DOMAIN f.defers[t] : j < n \/ j = n => j < r.i
        BY <1>1, <1>2, <3>3 DEF n
      <4>2. \E j \in DOMAIN f.defers[t] : x = f.defers[t][j] /\ (j < n \/ j = n)
        BY <2>3, <2>5, <3>3 DEF Ahead
      <4> QED
        BY <3>0, <3>3, <4>1, <4>2 DEF Ahead
    <3> QED
      BY <1>2, <3>1, <3>2, <3>3
  <2>6. \A x : ~Awaits(f, t, q, x)
    BY <1>2, <2>3 DEF Awaits, Calls
  <2>7. r.at = "defer" /\ r.err # "ok" => v # "ok"
    BY DEF v
  <2>8. ~(r.at = "cmds" /\ o # "ok" /\ t \notin f.lenient)
    BY <1>4
  <2> QED
    BY <1>2, <2>3, <2>4, <2>5, <2>6, <2>7, <2>8 DEF Alive
<1> QED
  BY <1>3, <1>4

\* The callees of c are no longer running, and where one failed whose error c has to look
\* at, c has an error.
Joined(c, e) ==
  \A x \in Tasks : Append(c, x) \in DOMAIN call =>
    /\ ~Alive(call[Append(c, x)])
    /\ Failed(call[Append(c, x)]) /\ ~Ignored(file, TaskOf(c), x)
         /\ Heeds(file, TaskOf(c), call[c], x) => e # "ok"

\* A call may end once what it called has.
LEMMA EndLegal ==
  ASSUME Tree, file \in Files, NEW c \in DOMAIN call, NEW e \in Errors \cup {"ok"}, Joined(c,
         e),
         NEW q, q = [call[c] EXCEPT !.at = "ended", !.err = Outcome(c, e)]
  PROVE  /\ Legal(c, q, {}) /\ q.at = "ended" /\ q.err = Outcome(c, e) /\ q.own = call[c].own
         /\ Finished(c, e) = Moved(c, q, {})
<1> DEFINE t == TaskOf(c)
<1>1. call[c] \in CallStates
  BY OfTree
<1>2. Outcome(c, e) \in Errors \cup {"ok"} /\ (e # "ok" => Outcome(c, e) # "ok")
  BY DEF Outcome, Errors
<1>3. /\ q \in CallStates /\ q.at = "ended" /\ q.err = Outcome(c, e) /\ q.own = call[c].own
  BY <1>1, <1>2 DEF CallStates, Executing
<1>4. Placed(file, t, q) /\ Ahead(file, t, q) = {} /\ \A x : ~Awaits(file, t, q, x)
  BY <1>3 DEF Placed, Executing, Ahead, Awaits, Calls
<1>5. ASSUME NEW x \in Tasks, Append(c, x) \in DOMAIN call
      PROVE  Linked(file, t, q, x, call[Append(c, x)])
  <2>1. Linked(file, t, call[c], x, call[Append(c, x)])
    BY <1>5, OfTree
  <2>2. e # "ok" => Heeds(file, t, q, x)
    BY <1>2, <1>3 DEF Heeds, Failed
  <2> QED
    BY <1>4, <1>5, <2>1, <2>2 DEF Linked, Joined
<1>6. Finished(c, e) = [call EXCEPT ![c] = q]
  BY DEF Finished
<1> QED
  BY <1>3, <1>4, <1>5, <1>6, MovedAlone DEF Legal

\* A command or a call that ended is returned from likewise.
LEMMA ReturnLegal ==
  ASSUME Tree, file \in Files, NEW c \in DOMAIN call, NEW o \in Errors \cup {"ok"},
         NEW e \in Errors \cup {"ok"}, o # "ok" => e # "ok",
         AtCall(file, TaskOf(c), call[c], o), NEW j, Joined(c, j),
         j # "ok" => o # "ok" \/ (call[c].at = "defer" /\ call[c].err # "ok"),
         NEW q, q = Returned(file, TaskOf(c), call[c], o, e)
  PROVE  Legal(c, q, {})
<1> DEFINE t == TaskOf(c)
           r == call[c]
<1>1. r \in CallStates /\ Placed(file, t, r) /\ t \in Tasks
  BY OfTree
<1>2. /\ q \in CallStates /\ Placed(file, t, q)
      /\ Ahead(file, t, q) \subseteq Ahead(file, t, r)
      /\ \A x : ~Awaits(file, t, q, x)
      /\ r.at = "defer" /\ r.err # "ok" => q.at = "defer" /\ q.err # "ok"
      /\ r.at = "cmds" /\ o # "ok" /\ t \notin file.lenient => q.at = "defer" /\ q.err = e
  BY <1>1, ReturnedState
<1>3. ASSUME NEW x \in Tasks, Append(c, x) \in DOMAIN call
      PROVE  Linked(file, t, q, x, call[Append(c, x)])
  <2> DEFINE s == call[Append(c, x)]
  <2>1. Linked(file, t, r, x, s) /\ ~Alive(s)
    BY <1>3, OfTree DEF Joined
  <2>2. ASSUME Failed(s), ~Ignored(file, t, x) PROVE Heeds(file, t, q, x)
    <3>1. /\ Heeds(file, t, r, x) /\ t \notin file.lenient
          /\ o # "ok" \/ (r.at = "defer" /\ r.err # "ok")
      BY <1>3, <2>1, <2>2 DEF Linked, Joined, Ignored
    <3>2. r.at \in {"cmds", "defer"}
      BY <3>1 DEF AtCall, AtCommand
    <3>3. CASE r.at = "cmds"
      BY <1>2, <3>1, <3>3 DEF Heeds
    <3>4. CASE r.at = "defer"
      <4>1. r.err # "ok" \/ x \in Range(file.defers[t])
        <5>1. r.i \in DOMAIN file.defers[t]
          BY <1>1, <3>4, Lists DEF AtCall, AtCommand, Placed
        <5> QED
          BY <3>1, <3>4, <5>1 DEF Heeds, MayRun, Awaits, Calls, Failed, Range
      <4>2. r.err # "ok"
        BY <2>2, <4>1 DEF Ignored
      <4> QED
        BY <1>2, <3>4, <4>2 DEF Heeds
    <3> QED
      BY <3>2, <3>3, <3>4
  <2> QED
    BY <1>2, <2>1, <2>2 DEF Linked
<1> QED
  BY <1>2, <1>3 DEF Legal

-----------------------------------------------------------------------------
(* The steps of a call                                                     *)

LEMMA CallMoves ==
  ASSUME ExecutorInd, NEW c \in DOMAIN call, Moving(c), NEW q, NEW X, Legal(c, q, X),
         call' = Moved(c, q, X), UNCHANGED <<file, main, orphans>>,
         aborted' \subseteq DOMAIN call, UNCHANGED <<aborted, abandoned>> \/ abandoned',
         q.at = "ended" /\ q.err = "ok" => TaskOf(c) \in file.skipped \/ q.own \/ Ran(TaskOf(c)),
         q.at \in {"cmds", "defer"} =>
           \/ call[c].at \in {"cmds", "defer"}
           \/ \A d \in file.deps[TaskOf(c)] \ file.skipped : Ran(d),
         Permits', Cells'
  PROVE  ExecutorInd'
<1>1. Tree /\ Running /\ Cancelled /\ EndedWell /\ DepsRan /\ file \in Files /\ Live(c)
  BY DEF ExecutorInd, Moving
<1>2. Tree'
  BY <1>1, TreeMoves
<1>3. Running'
  BY <1>1, RunningMoves
<1>4. Cancelled'
  BY <1>1, CancelledMoves
<1>5. EndedWell' /\ DepsRan'
  BY <1>1, DepsMoves
<1> QED
  BY <1>1, <1>2, <1>3, <1>4, <1>5 DEF ExecutorInd

\* The parts of the invariant, and what it says of a call that moves.
LEMMA OfInd ==
  ASSUME ExecutorInd, NEW c \in DOMAIN call, Moving(c)
  PROVE  /\ Tree /\ Cells /\ EndedWell /\ DepsRan /\ Permits /\ Running /\ Cancelled
         /\ file \in Files /\ Live(c) /\ aborted \subseteq DOMAIN call
         /\ c \in Paths /\ TaskOf(c) \in Tasks /\ call[c] \in CallStates
         /\ Placed(file, TaskOf(c), call[c])
<1>1. Tree /\ Live(c)
  BY DEF ExecutorInd, Moving
<1> QED
  BY <1>1, OfTree DEF ExecutorInd, Cancelled

\* A step with no part in permits and cells.
LEMMA PlainStep ==
  ASSUME ExecutorInd, NEW c \in DOMAIN call, Moving(c), NEW q, NEW X, Legal(c, q, X),
         call' = Moved(c, q, X), UNCHANGED <<file, main, orphans, permits, cell>>,
         aborted' \subseteq DOMAIN call, UNCHANGED <<aborted, abandoned>> \/ abandoned',
         q.at = "ended" /\ q.err = "ok" => TaskOf(c) \in file.skipped \/ Ran(TaskOf(c)),
         q.at \in {"cmds", "defer"} =>
           \/ call[c].at \in {"cmds", "defer"}
           \/ \A d \in file.deps[TaskOf(c)] \ file.skipped : Ran(d),
         call[c].doing # "shell", ~Holds(q),
         TaskOf(c) \in file.once /\ q.own => call[c].own /\ Alive(q)
  PROVE  ExecutorInd'
<1>1. Tree /\ Cells /\ Permits /\ file \in Files /\ Live(c)
  BY OfInd
<1>2. Permits'
  BY <1>1, PermitsMove
<1>3. Cells'
  BY <1>1, CellsStay
<1> QED
  BY <1>2, <1>3, CallMoves

\* A step that ends what the call executed.
LEMMA EndStep ==
  ASSUME ExecutorInd, NEW c \in DOMAIN call, Moving(c), call[c].at \in Executing,
         call[c].doing # "shell", NEW e \in Errors \cup {"ok"}, Joined(c, e),
         call' = Finished(c, e), cell' = FinishedCell(c, e),
         UNCHANGED <<file, aborted, permits, orphans, main, abandoned>>
  PROVE  ExecutorInd'
<1> DEFINE q == [call[c] EXCEPT !.at = "ended", !.err = Outcome(c, e)]
<1>1. /\ Tree /\ Cells /\ Permits /\ file \in Files /\ Live(c) /\ aborted \subseteq DOMAIN call
      /\ Placed(file, TaskOf(c), call[c])
  BY OfInd
<1> HIDE DEF q
<1>2. /\ Legal(c, q, {}) /\ q.at = "ended" /\ q.err = Outcome(c, e) /\ q.own = call[c].own
      /\ call' = Moved(c, q, {})
  <2>1. q = [call[c] EXCEPT !.at = "ended", !.err = Outcome(c, e)]
    BY DEF q
  <2> QED
    BY <1>1, <2>1, EndLegal
<1>3. call[c].own /\ q.own /\ ~Holds(q)
  BY <1>1, <1>2 DEF Placed, Holds, Alive
<1>4. Permits'
  BY <1>1, <1>2, <1>3, PermitsMove
<1>5. Cells'
  BY <1>1, <1>2, <1>3, CellsFinished
<1> QED
  BY <1>1, <1>2, <1>3, <1>4, <1>5, CallMoves

\* A call that waits for none, with no error of its own, has no running or failed callee.
LEMMA NothingAwaited ==
  ASSUME Tree, NEW c \in DOMAIN call, call[c].at \in {"setup", "cmds", "defer"},
         call[c].doing # "call", NEW e, call[c].at = "defer" /\ call[c].err # "ok" => e # "ok"
  PROVE  Joined(c, e)
<1> SUFFICES ASSUME NEW x \in Tasks, Append(c, x) \in DOMAIN call
             PROVE  /\ ~Alive(call[Append(c, x)])
                    /\ Failed(call[Append(c, x)]) /\ ~Ignored(file, TaskOf(c), x)
                         /\ Heeds(file, TaskOf(c), call[c], x) => e # "ok"
  BY DEF Joined
<1>1. Linked(file, TaskOf(c), call[c], x, call[Append(c, x)])
  BY OfTree
<1>2. ~MayRun(file, TaskOf(c), call[c], x) /\ ~Failed(call[c])
  BY DEF MayRun, Awaits, Calls, Failed
<1> QED
  BY <1>1, <1>2 DEF Linked, Heeds

LEMMA EnterInv ==
  ASSUME ExecutorInd, NEW c \in DOMAIN call, Enter(c)
  PROVE  ExecutorInd'
<1> DEFINE t == TaskOf(c)
           r == call[c]
<1>1. /\ Moving(c) /\ r.at = "queued"
      /\ UNCHANGED <<file, aborted, cell, permits, orphans, main, abandoned>>
  BY DEF Enter
<1>2. /\ Tree /\ file \in Files /\ aborted \subseteq DOMAIN call /\ t \in Tasks
      /\ r \in CallStates
      /\ Placed(file, t, r)
  BY <1>1, OfInd
<1>3. ~r.own /\ r.err = "ok" /\ r.doing = "pick" /\ r.i = 1
  BY <1>1, <1>2 DEF Placed
<1>4. ASSUME NEW q \in CallStates, call' = [call EXCEPT ![c] = q], q.doing = "pick",
             q.at \in {"wait", "setup", "ended"}, q.at # "ended" => q.i = 1 /\ q.err = "ok",
             q.own <=> q.at = "setup",
             q.at = "ended" /\ q.err = "ok" => t \in file.skipped,
             q.at = "setup" => t \notin file.once, q.at = "wait" => t \in file.once
      PROVE  ExecutorInd'
  <2>1. Passes(file, t, r, q, {})
    BY <1>1, <1>2, <1>4, PassesStart
  <2>2. Legal(c, q, {}) /\ call' = Moved(c, q, {})
    BY <1>2, <1>4, <2>1, PassesLegal, MovedAlone
  <2>3. ~Holds(q)
    BY <1>4 DEF Holds
  <2> QED
    BY <1>1, <1>2, <1>3, <1>4, <2>2, <2>3, PlainStep
<1>5. CASE t \in file.skipped /\ call' = [call EXCEPT ![c].at = "ended"]
  <2> DEFINE q == [r EXCEPT !.at = "ended"]
  <2>1. q \in CallStates /\ q.at = "ended" /\ q.doing = "pick" /\ ~q.own
    BY <1>2, <1>3 DEF CallStates
  <2>2. call' = [call EXCEPT ![c] = q]
    BY <1>5
  <2> HIDE DEF q
  <2> QED
    BY <1>4, <1>5, <2>1, <2>2
<1>6. CASE call' = [call EXCEPT ![c].at = "ended", ![c].err = "other"]
  <2> DEFINE q == [r EXCEPT !.at = "ended", !.err = "other"]
  <2>1. q \in CallStates /\ q.at = "ended" /\ q.doing = "pick" /\ ~q.own /\ q.err # "ok"
    BY <1>2, <1>3 DEF CallStates, Errors
  <2>2. call' = [call EXCEPT ![c] = q]
    BY <1>6
  <2> HIDE DEF q
  <2> QED
    BY <1>4, <2>1, <2>2
<1>7. CASE t \in file.once /\ call' = [call EXCEPT ![c].at = "wait"]
  <2> DEFINE q == [r EXCEPT !.at = "wait"]
  <2>1. q \in CallStates /\ q.at = "wait" /\ q.doing = "pick" /\ ~q.own /\ q.err = "ok"
        /\ q.i = 1
    BY <1>2, <1>3 DEF CallStates
  <2>2. call' = [call EXCEPT ![c] = q]
    BY <1>7
  <2> HIDE DEF q
  <2> QED
    BY <1>4, <1>7, <2>1, <2>2
<1>8. CASE t \notin file.once /\ call' = [call EXCEPT ![c].at = "setup", ![c].own = TRUE]
  <2> DEFINE q == [r EXCEPT !.at = "setup", !.own = TRUE]
  <2>1. q \in CallStates /\ q.at = "setup" /\ q.doing = "pick" /\ q.own /\ q.err = "ok"
        /\ q.i = 1
    BY <1>2, <1>3 DEF CallStates, Executing
  <2>2. call' = [call EXCEPT ![c] = q]
    BY <1>8
  <2> HIDE DEF q
  <2> QED
    BY <1>4, <1>8, <2>1, <2>2
<1> QED
  BY <1>5, <1>6, <1>7, <1>8 DEF Enter

LEMMA ClaimInv ==
  ASSUME ExecutorInd, NEW c \in DOMAIN call, Claim(c)
  PROVE  ExecutorInd'
<1> DEFINE t == TaskOf(c)
           r == call[c]
<1>1. /\ Moving(c) /\ r.at = "wait"
      /\ UNCHANGED <<file, aborted, permits, orphans, main, abandoned>>
  BY DEF Claim
<1>2. /\ Tree /\ Cells /\ Permits /\ file \in Files /\ aborted \subseteq DOMAIN call
      /\ t \in Tasks
      /\ r \in CallStates /\ Placed(file, t, r) /\ Live(c)
  BY <1>1, OfInd
<1>3. ~r.own /\ r.err = "ok" /\ r.doing = "pick" /\ r.i = 1
  BY <1>1, <1>2 DEF Placed
<1>4. CASE /\ cell[t].res # "none" /\ UNCHANGED cell
           /\ call' = [call EXCEPT ![c].at = "ended", ![c].err = Outcome(c, cell[t].res)]
  <2> DEFINE q == [r EXCEPT !.at = "ended", !.err = Outcome(c, cell[t].res)]
  <2>1. cell[t].res \in Errors \cup {"ok"} /\ Outcome(c, cell[t].res) \in Errors \cup {"ok"}
    BY <1>2, <1>4 DEF Cells, Outcome, Errors
  <2>2. /\ q \in CallStates /\ q.at = "ended" /\ q.doing = "pick" /\ ~q.own
        /\ q.err = Outcome(c, cell[t].res)
    BY <1>2, <1>3, <2>1 DEF CallStates
  <2>3. call' = [call EXCEPT ![c] = q]
    BY <1>4
  <2> HIDE DEF q
  <2>4. Legal(c, q, {}) /\ call' = Moved(c, q, {})
    BY <1>1, <1>2, <2>2, <2>3, PassesStart, PassesLegal, MovedAlone
  <2>5. ~Holds(q)
    BY <2>2 DEF Holds
  <2>6. q.err = "ok" => Ran(t)
    <3>1. SUFFICES ASSUME q.err = "ok" PROVE Ran(t)
      OBVIOUS
    <3>2. t \in file.once /\ cell[t].res = "ok"
      BY <1>1, <1>2, <2>2, <3>1 DEF Outcome, Placed
    <3> QED
      BY <1>2, <3>2 DEF Cells, Ran
  <2> QED
    BY <1>1, <1>2, <1>3, <1>4, <2>2, <2>4, <2>5, <2>6, PlainStep
<1>5. CASE /\ cell[t].res = "none" /\ cell[t].by = NoCall /\ cell' = [cell EXCEPT ![t].by = c]
           /\ call' = [call EXCEPT ![c].at = "setup", ![c].own = TRUE]
  <2> DEFINE q == [r EXCEPT !.at = "setup", !.own = TRUE]
  <2>1. q \in CallStates /\ q.at = "setup" /\ q.doing = "pick" /\ q.own /\ q.err = "ok"
        /\ q.i = 1
    BY <1>2, <1>3 DEF CallStates, Executing
  <2>2. call' = [call EXCEPT ![c] = q]
    BY <1>5
  <2> HIDE DEF q
  <2>3. Legal(c, q, {}) /\ call' = Moved(c, q, {})
    BY <1>1, <1>2, <2>1, <2>2, PassesStart, PassesLegal, MovedAlone
  <2>4. ~Holds(q) /\ Alive(q)
    BY <2>1 DEF Holds, Alive
  <2>5. Permits'
    BY <1>1, <1>2, <1>3, <2>3, <2>4, PermitsMove
  <2>6. Cells'
    BY <1>1, <1>2, <1>5, <2>3, <2>4, CellsClaimed
  <2> QED
    BY <1>1, <1>2, <2>1, <2>3, <2>5, <2>6, CallMoves
<1> QED
  BY <1>4, <1>5 DEF Claim

\* New calls are Spawned: none of them was made before.
LEMMA Spawns ==
  ASSUME Tree, NEW c \in DOMAIN call, NEW q, NEW X, Passes(file, TaskOf(c), call[c], q, X),
         NEW ks, \A k : k \in ks <=> \E x \in X : k = Append(c, x)
  PROVE  Spawned(ks)[c] = call[c] /\ [Spawned(ks) EXCEPT ![c] = q] = Moved(c, q, X)
<1>1. c \in Paths /\ X \subseteq Tasks
  BY OfTree DEF Passes, Ahead
<1>2. \A x \in X : Append(c, x) \notin DOMAIN call
  BY <1>1, OfTree DEF Passes, Linked
<1>3. c \notin ks /\ \A k \in ks : k \notin DOMAIN call
  <2>1. \A x \in X : Append(c, x) # c
    BY <1>1, CalleePath
  <2> QED
    BY <1>2, <2>1
<1>4. Spawned(ks) = [k \in DOMAIN call \cup ks |-> IF k \in ks THEN Fresh ELSE call[k]]
  BY DEF Spawned
<1>5. Moved(c, q, X) = [k \in DOMAIN call \cup ks |->
                          IF k = c THEN q ELSE IF k \in DOMAIN call THEN call[k] ELSE Fresh]
  <2>1. {Append(c, x) : x \in X} = ks
    OBVIOUS
  <2> QED
    BY <2>1 DEF Moved
<1> QED
  BY <1>3, <1>4, <1>5

LEMMA CallSetupInv ==
  ASSUME ExecutorInd, NEW c \in DOMAIN call, CallSetup(c)
  PROVE  ExecutorInd'
<1> DEFINE t == TaskOf(c)
           r == call[c]
           x0 == file.setup[t][r.i]
           q == [r EXCEPT !.doing = "call"]
<1>1. /\ Moving(c) /\ r.at = "setup" /\ r.doing = "pick" /\ r.i <= Len(file.setup[t])
      /\ call' = [Spawned({Append(c, x0)}) EXCEPT ![c].doing = "call"]
      /\ UNCHANGED <<file, aborted, cell, permits, orphans, main, abandoned>>
  BY DEF CallSetup
<1>2. /\ Tree /\ file \in Files /\ aborted \subseteq DOMAIN call /\ t \in Tasks
      /\ r \in CallStates
      /\ Placed(file, t, r)
  BY <1>1, OfInd
<1>3. Passes(file, t, r, q, {x0})
  BY <1>1, <1>2, PassesSetup
<1>4. q.at = "setup" /\ q.doing = "call" /\ q.own = r.own
  BY <1>1, <1>2 DEF CallStates
<1>5. call' = Moved(c, q, {x0})
  <2> DEFINE ks == {Append(c, x0)}
             sp == Spawned(ks)
             m == Moved(c, q, {x0})
  <2>1. \A k : k \in ks <=> \E x \in {x0} : k = Append(c, x)
    OBVIOUS
  <2>2. sp[c] = r /\ [sp EXCEPT ![c] = q] = m
    <3> HIDE DEF ks, q, x0
    <3> QED
      BY <1>2, <1>3, <2>1, Spawns
  <2>3. sp[c] = r /\ [sp EXCEPT ![c] = q] = m /\ call' = [sp EXCEPT ![c].doing = "call"]
    BY <1>1, <2>2
  <2> HIDE DEF sp, m
  <2>4. call' = m
    BY <2>3
  <2> QED
    BY <2>4 DEF m
<1> HIDE DEF q, x0
<1>6. Legal(c, q, {x0}) /\ ~Holds(q) /\ Alive(q)
  BY <1>2, <1>3, <1>4, PassesLegal DEF Holds, Alive
<1> QED
  BY <1>1, <1>2, <1>4, <1>5, <1>6, PlainStep

LEMMA BodyInv ==
  ASSUME ExecutorInd, NEW c \in DOMAIN call, Body(c)
  PROVE  ExecutorInd'
<1> DEFINE t == TaskOf(c)
           r == call[c]
<1>1. /\ Moving(c) /\ r.at = "setup" /\ r.doing = "pick"
      /\ UNCHANGED <<file, aborted, permits, orphans, main, abandoned>>
  BY DEF Body
<1>2. /\ Tree /\ file \in Files /\ aborted \subseteq DOMAIN call /\ t \in Tasks
      /\ r \in CallStates
      /\ Placed(file, t, r)
  BY <1>1, OfInd
<1>3. ASSUME NEW e \in {"ok", "other"}, call' = Finished(c, e), cell' = FinishedCell(c, e)
      PROVE  ExecutorInd'
  <2>1. e \in Errors \cup {"ok"} /\ Joined(c, e)
    BY <1>1, <1>2, NothingAwaited DEF Errors
  <2> QED
    BY <1>1, <1>3, <2>1, EndStep DEF Executing
<1>4. CASE /\ call' = [Spawned({Append(c, d) : d \in file.deps[t]}) EXCEPT ![c].at = "deps"]
           /\ UNCHANGED cell
  <2> DEFINE q == [r EXCEPT !.at = "deps"]
  <2>1. Passes(file, t, r, q, file.deps[t])
    BY <1>1, <1>2, PassesDeps
  <2>2. q.at = "deps" /\ q.doing = "pick" /\ q.own = r.own
    BY <1>1, <1>2 DEF CallStates
  <2> DEFINE ks == {Append(c, d) : d \in file.deps[t]}
  <2>3. Spawned(ks)[c] = r /\ [Spawned(ks) EXCEPT ![c] = q] = Moved(c, q, file.deps[t])
    <3>1. \A k : k \in ks <=> \E x \in file.deps[t] : k = Append(c, x)
      OBVIOUS
    <3> HIDE DEF ks, q
    <3> QED
      BY <1>2, <2>1, <3>1, Spawns
  <2>4. call' = Moved(c, q, file.deps[t])
    <3> DEFINE sp == Spawned(ks)
               m == Moved(c, q, file.deps[t])
    <3>1. sp[c] = r /\ [sp EXCEPT ![c] = q] = m /\ call' = [sp EXCEPT ![c].at = "deps"]
      BY <1>4, <2>3
    <3> HIDE DEF sp, m
    <3>2. call' = m
      BY <3>1
    <3> QED
      BY <3>2 DEF m
  <2> HIDE DEF q, ks
  <2>5. Legal(c, q, file.deps[t]) /\ ~Holds(q) /\ Alive(q)
    BY <1>2, <2>1, <2>2, PassesLegal DEF Holds, Alive
  <2> QED
    BY <1>1, <1>2, <1>4, <2>2, <2>4, <2>5, PlainStep
<1> QED
  BY <1>3, <1>4 DEF Body

\* What run_deps waits for.
LEMMA DepCalls ==
  ASSUME Tree, file \in Files, NEW c \in DOMAIN call, NEW d \in file.deps[TaskOf(c)],
         Append(c, d) \in DOMAIN call
  PROVE  Append(c, d) \in Deps(c)
<1>1. c \in Paths /\ TaskOf(c) \in Tasks
  BY OfTree
<1>2. d \in Tasks
  BY <1>1, Lists
<1>3. TaskOf(Append(c, d)) = d /\ Append(c, d) \in Children(c)
  BY <1>1, <1>2, CalleePath, ChildrenAre
<1> QED
  BY <1>3 DEF Deps

\* How a call that is over ended.
LEMMA Results ==
  ASSUME Tree, NEW k \in DOMAIN call, ~Live(k)
  PROVE  /\ Result(k) \in Errors \cup {"ok"} /\ ~Alive(call[k])
         /\ Failed(call[k]) <=> Result(k) # "ok"
         /\ Result(k) = "ok" => call[k].at = "ended" /\ call[k].err = "ok"
         /\ Wrapped(Result(k)) \in Errors \cup {"ok"}
         /\ Result(k) # "ok" <=> Wrapped(Result(k)) # "ok"
<1>1. call[k] \in CallStates
  BY OfTree
<1> QED
  BY <1>1 DEF CallStates, Result, Live, Alive, Failed, Wrapped, Errors

LEMMA JoinDepsInv ==
  ASSUME ExecutorInd, NEW c \in DOMAIN call, JoinDeps(c)
  PROVE  ExecutorInd'
<1> DEFINE t == TaskOf(c)
           r == call[c]
<1>1. /\ Moving(c) /\ r.at = "deps" /\ \A k \in Deps(c) : ~Live(k)
      /\ UNCHANGED <<file, aborted, permits, orphans, main, abandoned>>
  BY DEF JoinDeps
<1>2. /\ Tree /\ file \in Files /\ aborted \subseteq DOMAIN call /\ t \in Tasks
      /\ r \in CallStates
      /\ Placed(file, t, r) /\ EndedWell /\ c \in Paths
  BY <1>1, OfInd
<1>3. r.doing = "pick" /\ r.own /\ r.err = "ok"
  BY <1>1, <1>2 DEF Placed, Executing
<1>4. ASSUME NEW x \in Tasks, Append(c, x) \in DOMAIN call,
             Alive(call[Append(c, x)]) \/ Heeds(file, t, r, x)
      PROVE  x \in file.deps[t] /\ Append(c, x) \in Deps(c)
  <2>1. Linked(file, t, r, x, call[Append(c, x)])
    BY <1>2, <1>4, OfTree
  <2>2. x \in file.deps[t]
    BY <1>1, <1>3, <1>4, <2>1 DEF Linked, Heeds, MayRun, Awaits, Calls, Failed
  <2> QED
    BY <1>2, <1>4, <2>2, DepCalls
<1>5. \A x \in Tasks : Append(c, x) \in DOMAIN call => ~Alive(call[Append(c, x)])
  BY <1>1, <1>4 DEF Live, Alive
<1>6. CASE Broken(Deps(c)) = {} /\ UNCHANGED cell
           /\ call' = [call EXCEPT ![c].at = "cmds", ![c].i = 1]
  <2> DEFINE q == [r EXCEPT !.at = "cmds", !.i = 1]
  <2>1. /\ q \in CallStates /\ q.at = "cmds" /\ q.i = 1 /\ q.doing = "pick" /\ q.own
        /\ q.err = "ok"
    BY <1>2, <1>3 DEF CallStates, Executing
  <2>2. call' = [call EXCEPT ![c] = q]
    BY <1>6
  <2> HIDE DEF q
  <2>3. Placed(file, t, q)
    BY <1>2, <2>1, Lists DEF Placed, Executing
  <2>4. Ahead(file, t, q) \subseteq Ahead(file, t, r)
    BY <1>1, <2>1 DEF Ahead, Range
  <2>5. \A x : ~Awaits(file, t, q, x)
    BY <2>1 DEF Awaits, Calls
  <2>6. ASSUME NEW k \in Deps(c) PROVE k \in DOMAIN call /\ Result(k) = "ok"
    BY <1>1, <1>6 DEF Broken, Deps, Children
  <2>7. ASSUME NEW x \in Tasks, Append(c, x) \in DOMAIN call
        PROVE  Linked(file, t, q, x, call[Append(c, x)])
    <3>1. Linked(file, t, r, x, call[Append(c, x)]) /\ ~Alive(call[Append(c, x)])
      BY <1>2, <1>5, <2>7, OfTree
    <3>2. Heeds(file, t, r, x) => ~Failed(call[Append(c, x)])
      BY <1>1, <1>2, <1>4, <2>6, <2>7, Results
    <3> QED
      BY <2>4, <3>1, <3>2 DEF Linked
  <2>8. Legal(c, q, {})
    BY <2>1, <2>3, <2>4, <2>5, <2>7 DEF Legal
  <2>9. ASSUME NEW d \in file.deps[t] \ file.skipped PROVE Ran(d)
    <3> DEFINE k == Append(c, d)
    <3>1. d \in Tasks /\ TaskOf(k) = d
      BY <1>2, Lists, CalleePath
    <3>2. k \in DOMAIN call
      BY <1>1, <1>2, <3>1, OfTree DEF Awaits
    <3>3. k \in Deps(c)
      BY <1>2, <3>2, DepCalls
    <3> HIDE DEF k
    <3>4. call[k].at = "ended" /\ call[k].err = "ok"
      BY <1>1, <1>2, <2>6, <3>2, <3>3, Results
    <3> QED
      BY <1>2, <3>1, <3>2, <3>4 DEF EndedWell
  <2>10. ~Holds(q) /\ Alive(q)
    BY <2>1 DEF Holds, Alive
  <2> QED
    <3>1. /\ call' = Moved(c, q, {}) /\ UNCHANGED <<aborted, abandoned>>
          /\ aborted' \subseteq DOMAIN call
      BY <1>1, <1>2, <2>2, MovedAlone
    <3> QED
      BY <1>1, <1>3, <1>6, <2>1, <2>8, <2>9, <2>10, <3>1, PlainStep
<1>7. ASSUME NEW k \in Broken(Deps(c)), call' = Finished(c, Wrapped(Result(k))),
             cell' = FinishedCell(c, Wrapped(Result(k)))
      PROVE  ExecutorInd'
  <2> DEFINE e == Wrapped(Result(k))
  <2>1. k \in DOMAIN call /\ ~Live(k) /\ Result(k) # "ok"
    BY DEF Broken, Deps, Children
  <2>2. e \in Errors \cup {"ok"} /\ e # "ok"
    BY <1>2, <2>1, Results
  <2> HIDE DEF e
  <2>3. Joined(c, e)
    BY <1>5, <2>2 DEF Joined
  <2>4. call' = Finished(c, e) /\ cell' = FinishedCell(c, e)
    BY <1>7 DEF e
  <2> QED
    BY <1>1, <1>3, <2>2, <2>3, <2>4, EndStep DEF Executing
<1> QED
  BY <1>6, <1>7 DEF JoinDeps

LEMMA FailFastInv ==
  ASSUME ExecutorInd, NEW c \in DOMAIN call, FailFast(c)
  PROVE  ExecutorInd'
<1> DEFINE t == TaskOf(c)
           r == call[c]
<1>1. /\ Moving(c) /\ r.at = "deps" /\ aborted' = aborted \cup Pending(c) /\ abandoned'
      /\ UNCHANGED <<file, cell, permits, orphans, main>>
  BY DEF FailFast
<1>2. PICK k \in Broken(Deps(c)) :
        call' = [call EXCEPT ![c].at = "failing", ![c].err = Wrapped(Result(k))]
  BY DEF FailFast
<1>3. /\ Tree /\ file \in Files /\ aborted \subseteq DOMAIN call /\ t \in Tasks
      /\ r \in CallStates
      /\ Placed(file, t, r)
  BY <1>1, OfInd
<1> DEFINE e == Wrapped(Result(k))
           q == [r EXCEPT !.at = "failing", !.err = e]
<1>4. e \in Errors
  <2>1. k \in DOMAIN call /\ ~Live(k) /\ Result(k) # "ok"
    BY DEF Broken, Deps, Children
  <2> QED
    BY <1>3, <2>1, Results
<1>5. call' = [call EXCEPT ![c] = q]
  BY <1>2
<1> HIDE DEF e
<1>6. Passes(file, t, r, q, {})
  BY <1>1, <1>3, <1>4, PassesFailing
<1>7. q.at = "failing" /\ q.doing = "pick" /\ q.own = r.own /\ r.doing = "pick"
  BY <1>1, <1>3 DEF CallStates, Placed
<1> HIDE DEF q
<1>8. Legal(c, q, {}) /\ ~Holds(q) /\ Alive(q)
  BY <1>3, <1>6, <1>7, PassesLegal DEF Holds, Alive
<1>9. aborted' \subseteq DOMAIN call
  BY <1>1, <1>3 DEF Pending, Children
<1> QED
  BY <1>1, <1>5, <1>7, <1>8, <1>9, MovedAlone, PlainStep

LEMMA FailedFastInv ==
  ASSUME ExecutorInd, NEW c \in DOMAIN call, FailedFast(c)
  PROVE  ExecutorInd'
<1> DEFINE t == TaskOf(c)
           r == call[c]
<1>1. /\ Moving(c) /\ r.at = "failing" /\ Pending(c) = {}
      /\ call' = Finished(c, r.err) /\ cell' = FinishedCell(c, r.err)
      /\ UNCHANGED <<file, aborted, permits, orphans, main, abandoned>>
  BY DEF FailedFast
<1>2. Tree /\ r \in CallStates /\ Placed(file, t, r) /\ c \in Paths
  BY <1>1, OfInd
<1>3. r.err \in Errors \cup {"ok"} /\ r.err # "ok" /\ r.doing = "pick"
  BY <1>1, <1>2 DEF CallStates, Placed
<1>4. \A x \in Tasks : Append(c, x) \in DOMAIN call => ~Alive(call[Append(c, x)])
  BY <1>1, <1>2, ChildrenAre DEF Pending, Live, Alive
<1>5. Joined(c, r.err)
  BY <1>3, <1>4 DEF Joined
<1> QED
  BY <1>1, <1>3, <1>5, EndStep DEF Executing

\* The command a call is at.
LEMMA Commands ==
  ASSUME NEW c
  PROVE  /\ HasCommand(c) <=> AtCommand(file, TaskOf(c), call[c])
         /\ Command(c) = CommandAt(file, TaskOf(c), call[c])
BY DEF HasCommand, AtCommand, Command, CommandAt

LEMMA RunCommandInv ==
  ASSUME ExecutorInd, NEW c \in DOMAIN call, RunCommand(c)
  PROVE  ExecutorInd'
<1> DEFINE t == TaskOf(c)
           r == call[c]
           x0 == CommandAt(file, t, r)
<1>1. /\ Moving(c) /\ AtCommand(file, t, r) /\ r.doing = "pick"
      /\ UNCHANGED <<file, aborted, cell, permits, orphans, main, abandoned>>
      /\ call' = IF x0 = Shell THEN [call EXCEPT ![c].doing = "permit"]
                 ELSE [Spawned({Append(c, x0)}) EXCEPT ![c].doing = "call"]
  <2>1. (HasCommand(c) <=> AtCommand(file, t, r)) /\ Command(c) = x0
    BY Commands
  <2>2. /\ Moving(c) /\ HasCommand(c) /\ r.doing = "pick"
        /\ UNCHANGED <<file, aborted, cell, permits, orphans, main, abandoned>>
        /\ call' = IF Command(c) = Shell THEN [call EXCEPT ![c].doing = "permit"]
                   ELSE [Spawned({Append(c, Command(c))}) EXCEPT ![c].doing = "call"]
    BY DEF RunCommand
  <2> QED
    BY <2>1, <2>2
<1>2. /\ Tree /\ file \in Files /\ aborted \subseteq DOMAIN call /\ t \in Tasks
      /\ r \in CallStates
      /\ Placed(file, t, r)
  BY <1>1, OfInd
<1>3. ASSUME NEW d \in {"permit", "call"}, NEW q, q = [r EXCEPT !.doing = d], NEW X,
             Passes(file, t, r, q, X), call' = Moved(c, q, X)
      PROVE  ExecutorInd'
  <2>1. q.at = r.at /\ q.doing = d /\ q.own = r.own /\ r.at \in {"cmds", "defer"}
    BY <1>1, <1>2, <1>3 DEF CallStates, AtCommand
  <2>2. Legal(c, q, X) /\ ~Holds(q) /\ Alive(q) /\ q.own
    BY <1>2, <1>3, <2>1, PassesLegal DEF Holds, Alive, Placed, Executing
  <2> QED
    BY <1>1, <1>2, <1>3, <2>1, <2>2, PlainStep
<1>4. CASE x0 = Shell
  <2> DEFINE q == [r EXCEPT !.doing = "permit"]
  <2>1. call' = [call EXCEPT ![c] = q]
    BY <1>1, <1>4
  <2>2. Passes(file, t, r, q, {})
    BY <1>1, <1>2, PassesShell
  <2>3. q = [r EXCEPT !.doing = "permit"]
    OBVIOUS
  <2> HIDE DEF q
  <2> QED
    BY <1>3, <2>1, <2>2, <2>3, MovedAlone
<1>5. CASE x0 # Shell
  <2> DEFINE q == [r EXCEPT !.doing = "call"]
             ks == {Append(c, x0)}
             sp == Spawned(ks)
             m == Moved(c, q, {x0})
  <2>1. Passes(file, t, r, q, {x0})
    BY <1>1, <1>2, <1>5, PassesNested
  <2>2. \A k : k \in ks <=> \E x \in {x0} : k = Append(c, x)
    OBVIOUS
  <2>3. call' = [sp EXCEPT ![c].doing = "call"]
    BY <1>1, <1>5
  <2>4. sp[c] = r /\ [sp EXCEPT ![c] = q] = m
    <3> HIDE DEF ks, q, x0
    <3> QED
      BY <1>2, <2>1, <2>2, Spawns
  <2>5. q = [r EXCEPT !.doing = "call"]
    OBVIOUS
  <2>6. call' = m
    <3> HIDE DEF sp, m
    <3> QED
      BY <2>3, <2>4
  <2> HIDE DEF q, x0
  <2> QED
    BY <1>3, <2>1, <2>5, <2>6
<1> QED
  BY <1>4, <1>5

\* A command that is not a call has ended with o.
LEMMA CommandReturns ==
  ASSUME ExecutorInd, NEW c \in DOMAIN call, Moving(c), NEW o \in {"ok", "exit", "denied"},
         AtCommand(file, TaskOf(c), call[c]), call[c].doing # "call", call' = Return(c, o, o),
         UNCHANGED <<file, aborted, cell, orphans, main, abandoned>>,
         \/ call[c].doing # "shell" /\ permits' = permits
         \/ call[c].doing = "shell" /\ permits' = permits + 1
  PROVE  ExecutorInd'
<1> DEFINE t == TaskOf(c)
           r == call[c]
           q == Returned(file, t, r, o, o)
<1>1. /\ Tree /\ Cells /\ Permits /\ file \in Files /\ aborted \subseteq DOMAIN call
      /\ t \in Tasks
      /\ r \in CallStates /\ Placed(file, t, r) /\ Live(c)
  BY OfInd
<1>2. o \in Errors \cup {"ok"} /\ AtCall(file, t, r, o) /\ r.at \in {"cmds", "defer"}
  BY DEF Errors, AtCall, AtCommand
<1>3. call' = Moved(c, q, {})
  BY <1>1, ReturnIs
<1>4. q = Returned(file, t, r, o, o)
  OBVIOUS
<1> HIDE DEF q
<1>5. Alive(q) /\ q.own /\ q.doing = "pick" /\ q.at \in {"setup", "cmds", "defer"}
  BY <1>1, <1>2, <1>4, ReturnedState
<1>6. Legal(c, q, {})
  <2> DEFINE j == IF r.at = "defer" THEN r.err ELSE o
  <2>1. Joined(c, j)
    BY <1>1, <1>2, NothingAwaited
  <2>2. j # "ok" => o # "ok" \/ (r.at = "defer" /\ r.err # "ok")
    OBVIOUS
  <2> HIDE DEF j
  <2> QED
    BY <1>1, <1>2, <1>4, <2>1, <2>2, ReturnLegal
<1>7. Permits'
  BY <1>1, <1>3, <1>5, <1>6, PermitsMove DEF Holds
<1>8. Cells'
  <2>1. r.own
    BY <1>1, <1>2 DEF Placed, Executing
  <2> QED
    BY <1>1, <1>3, <1>5, <1>6, <2>1, CellsStay
<1> QED
  BY <1>1, <1>2, <1>3, <1>5, <1>6, <1>7, <1>8, CallMoves

LEMMA SkipCommandInv ==
  ASSUME ExecutorInd, NEW c \in DOMAIN call, SkipCommand(c)
  PROVE  ExecutorInd'
<1>1. /\ Moving(c) /\ AtCommand(file, TaskOf(c), call[c]) /\ call[c].doing = "pick"
      /\ UNCHANGED <<file, aborted, cell, permits, orphans, main, abandoned>>
  BY Commands DEF SkipCommand
<1>2. PICK o \in {"ok", "exit", "denied"} : call' = Return(c, o, o)
  BY DEF SkipCommand
<1> QED
  BY <1>1, <1>2, CommandReturns

LEMMA ShellEndsInv ==
  ASSUME ExecutorInd, NEW c \in DOMAIN call, ShellEnds(c)
  PROVE  ExecutorInd'
<1>1. /\ Moving(c) /\ call[c].doing = "shell" /\ permits' = permits + 1
      /\ UNCHANGED <<file, aborted, cell, orphans, main, abandoned>>
  BY DEF ShellEnds
<1>2. PICK o \in {"ok", "exit", "denied"} : call' = Return(c, o, o)
  BY DEF ShellEnds
<1>3. AtCommand(file, TaskOf(c), call[c])
  <2>1. /\ Placed(file, TaskOf(c), call[c]) /\ call[c] \in CallStates /\ Live(c)
    BY <1>1, OfInd
  <2> QED
    BY <1>1, <2>1 DEF Placed, AtCommand, CallStates, Live, Executing
<1> QED
  BY <1>1, <1>2, <1>3, CommandReturns

LEMMA AcquireInv ==
  ASSUME ExecutorInd, NEW c \in DOMAIN call, Acquire(c)
  PROVE  ExecutorInd'
<1> DEFINE t == TaskOf(c)
           r == call[c]
           q == [r EXCEPT !.doing = "shell"]
<1>1. /\ Moving(c) /\ r.doing = "permit" /\ permits > 0 /\ permits' = permits - 1
      /\ UNCHANGED <<file, aborted, cell, orphans, main, abandoned>>
  BY DEF Acquire
<1>2. call' = [call EXCEPT ![c] = q]
  BY DEF Acquire
<1>3. /\ Tree /\ Cells /\ Permits /\ file \in Files /\ aborted \subseteq DOMAIN call
      /\ t \in Tasks
      /\ r \in CallStates /\ Placed(file, t, r) /\ Live(c)
  BY <1>1, OfInd
<1>4. AtCommand(file, t, r) /\ r.own /\ r.at \in {"cmds", "defer"}
  BY <1>1, <1>3 DEF Placed, AtCommand, CallStates, Live, Executing
<1>5. q.at = r.at /\ q.doing = "shell" /\ q.own = r.own
  BY <1>3 DEF CallStates
<1>6. Passes(file, t, r, q, {})
  BY <1>1, <1>3, <1>4, PassesShell
<1> HIDE DEF q
<1>7. Legal(c, q, {}) /\ call' = Moved(c, q, {}) /\ Alive(q) /\ Holds(q)
  BY <1>2, <1>3, <1>4, <1>5, <1>6, PassesLegal, MovedAlone DEF Alive, Holds
<1>8. Permits'
  BY <1>1, <1>3, <1>7, PermitsMove
<1>9. Cells'
  BY <1>1, <1>3, <1>4, <1>7, CellsStay
<1> QED
  BY <1>1, <1>3, <1>4, <1>5, <1>7, <1>8, <1>9, CallMoves

\* The call that was waited for is over: its result is all its caller has to look at.
LEMMA CallJoined ==
  ASSUME Tree, NEW c \in DOMAIN call, call[c].at \in {"setup", "cmds", "defer"},
         NEW x \in Tasks, \A y : Calls(file, TaskOf(c), call[c], y) => y = x,
         NEW s, s = call[Append(c, x)], ~Alive(s), NEW e,
         Failed(s) /\ ~Ignored(file, TaskOf(c), x) => e # "ok",
         call[c].at = "defer" /\ call[c].err # "ok" => e # "ok"
  PROVE  Joined(c, e)
<1> SUFFICES ASSUME NEW y \in Tasks, Append(c, y) \in DOMAIN call
             PROVE  /\ ~Alive(call[Append(c, y)])
                    /\ Failed(call[Append(c, y)]) /\ ~Ignored(file, TaskOf(c), y)
                         /\ Heeds(file, TaskOf(c), call[c], y) => e # "ok"
  BY DEF Joined
<1>1. Linked(file, TaskOf(c), call[c], y, call[Append(c, y)])
  BY OfTree
<1>2. MayRun(file, TaskOf(c), call[c], y) => y = x
  BY DEF MayRun, Awaits
<1>3. ~Failed(call[c])
  BY DEF Failed
<1> QED
  BY <1>1, <1>2, <1>3 DEF Linked, Heeds

LEMMA CallEndsInv ==
  ASSUME ExecutorInd, NEW c \in DOMAIN call, CallEnds(c)
  PROVE  ExecutorInd'
<1> DEFINE t == TaskOf(c)
           r == call[c]
           x0 == IF r.at = "setup" THEN file.setup[t][r.i] ELSE CommandAt(file, t, r)
           k == Append(c, x0)
           o == Result(k)
           e == Wrapped(o)
<1>1. /\ Moving(c) /\ r.doing = "call" /\ ~Live(k)
      /\ UNCHANGED <<file, aborted, permits, orphans, main, abandoned>>
      /\ \/ r.at = "setup" /\ o # "ok" /\ call' = Finished(c, e) /\ cell' = FinishedCell(c, e)
         \/ ~(r.at = "setup" /\ o # "ok") /\ call' = Return(c, o, e) /\ cell' = cell
  BY Commands DEF CallEnds
<1>2. /\ Tree /\ file \in Files /\ aborted \subseteq DOMAIN call /\ t \in Tasks
      /\ r \in CallStates
      /\ Placed(file, t, r) /\ Live(c) /\ c \in Paths
  BY <1>1, OfInd
<1>3. r.at \in {"setup", "cmds", "defer"} /\ r.own
  BY <1>1, <1>2 DEF Placed, CallStates, Live, Executing
<1>4. Calls(file, t, r, x0) /\ \A y : Calls(file, t, r, y) => y = x0
  BY <1>1, <1>3 DEF Calls, CommandAt
<1>5. /\ x0 \in Tasks /\ (r.at = "defer" => x0 \in Range(file.defers[t]))
      /\ (r.at = "setup" /\ r.i <= Len(file.setup[t])) \/ AtCommand(file, t, r)
  <2>1. CASE r.at = "setup"
    <3>1. r.i \in DOMAIN file.setup[t]
      BY <1>1, <1>2, <2>1, Lists DEF Placed
    <3> QED
      BY <1>2, <2>1, <3>1, CalledOnce, Lists
  <2>2. CASE r.at = "cmds"
    <3>1. r.i \in DOMAIN file.cmds[t] /\ x0 = file.cmds[t][r.i] /\ x0 # Shell
      BY <1>1, <1>2, <2>2, Lists DEF Placed, CommandAt
    <3> QED
      BY <1>2, <2>2, <3>1, CalledOnce, Lists DEF AtCommand
  <2>3. CASE r.at = "defer"
    <3>1. r.i \in DOMAIN file.defers[t] /\ x0 = file.defers[t][r.i] /\ x0 # Shell
      BY <1>1, <1>2, <2>3, Lists DEF Placed, CommandAt
    <3> QED
      BY <1>2, <2>3, <3>1, CalledOnce, Lists DEF AtCommand, Range
  <2> QED
    BY <1>3, <2>1, <2>2, <2>3
<1> HIDE DEF x0
<1>6. k \in DOMAIN call
  BY <1>2, <1>4, <1>5, OfTree DEF Awaits
<1>7. /\ o \in Errors \cup {"ok"} /\ ~Alive(call[k]) /\ (Failed(call[k]) <=> o # "ok")
      /\ e \in Errors \cup {"ok"} /\ (o # "ok" <=> e # "ok")
  BY <1>1, <1>2, <1>6, Results
<1> DEFINE s == call[k]
<1>8. s = call[Append(c, x0)]
  OBVIOUS
<1> HIDE DEF s, o, e
<1>9. CASE r.at = "setup" /\ o # "ok" /\ call' = Finished(c, e) /\ cell' = FinishedCell(c, e)
  <2>1. Joined(c, e)
    BY <1>2, <1>3, <1>4, <1>5, <1>7, <1>8, <1>9, CallJoined DEF s
  <2> QED
    BY <1>1, <1>7, <1>9, <2>1, EndStep DEF Executing
<1>10. CASE ~(r.at = "setup" /\ o # "ok") /\ call' = Return(c, o, e) /\ cell' = cell
  <2> DEFINE j == IF r.at = "defer" THEN r.err ELSE o
             q == Returned(file, t, r, o, e)
  <2>1. Failed(s) /\ ~Ignored(file, t, x0) => j # "ok"
    BY <1>5, <1>7 DEF Ignored, s
  <2>2. /\ j # "ok" => o # "ok" \/ (r.at = "defer" /\ r.err # "ok")
        /\ r.at = "defer" /\ r.err # "ok" => j # "ok"
    OBVIOUS
  <2>3. q = Returned(file, t, r, o, e) /\ AtCall(file, t, r, o)
    BY <1>5, <1>10 DEF AtCall
  <2>4. call' = Moved(c, q, {})
    BY <1>2, <1>10, ReturnIs
  <2> HIDE DEF j, q
  <2>5. Joined(c, j)
    BY <1>2, <1>3, <1>4, <1>5, <1>7, <1>8, <2>1, <2>2, CallJoined DEF s
  <2>6. Legal(c, q, {})
    BY <1>2, <1>7, <2>2, <2>3, <2>5, ReturnLegal
  <2>7. /\ Alive(q) /\ q.own /\ q.doing = "pick" /\ q.at \in {"setup", "cmds", "defer"}
        /\ q.at \in {"cmds", "defer"} => r.at # "setup"
    BY <1>2, <1>7, <2>3, ReturnedState
  <2>8. ~Holds(q) /\ q.at # "ended"
    BY <2>7 DEF Holds
  <2> QED
    BY <1>1, <1>2, <1>3, <1>10, <2>4, <2>6, <2>7, <2>8, PlainStep
<1> QED
  BY <1>1, <1>9, <1>10

LEMMA EndCommandsInv ==
  ASSUME ExecutorInd, NEW c \in DOMAIN call, EndCommands(c)
  PROVE  ExecutorInd'
<1> DEFINE t == TaskOf(c)
           r == call[c]
           q == [r EXCEPT !.at = "defer", !.i = Len(file.defers[t])]
<1>1. /\ Moving(c) /\ r.at = "cmds" /\ ~AtCommand(file, t, r)
      /\ UNCHANGED <<file, aborted, cell, permits, orphans, main, abandoned>>
  BY Commands DEF EndCommands
<1>2. call' = [call EXCEPT ![c] = q]
  BY DEF EndCommands
<1>3. /\ Tree /\ file \in Files /\ aborted \subseteq DOMAIN call /\ t \in Tasks
      /\ r \in CallStates
      /\ Placed(file, t, r)
  BY <1>1, OfInd
<1>4. r.doing = "pick" /\ r.own
  BY <1>1, <1>3 DEF Placed, AtCommand, Executing
<1>5. q.at = "defer" /\ q.doing = "pick" /\ q.own
  BY <1>3, <1>4 DEF CallStates
<1>6. Passes(file, t, r, q, {})
  BY <1>1, <1>3, PassesDefer
<1> HIDE DEF q
<1>7. Legal(c, q, {}) /\ call' = Moved(c, q, {}) /\ Alive(q) /\ ~Holds(q)
  BY <1>2, <1>3, <1>5, <1>6, PassesLegal, MovedAlone DEF Alive, Holds
<1> QED
  BY <1>1, <1>3, <1>4, <1>5, <1>7, PlainStep

LEMMA EndDeferredInv ==
  ASSUME ExecutorInd, NEW c \in DOMAIN call, EndDeferred(c)
  PROVE  ExecutorInd'
<1> DEFINE t == TaskOf(c)
           r == call[c]
<1>1. /\ Moving(c) /\ r.at = "defer" /\ ~AtCommand(file, t, r)
      /\ call' = Finished(c, r.err) /\ cell' = FinishedCell(c, r.err)
      /\ UNCHANGED <<file, aborted, permits, orphans, main, abandoned>>
  BY Commands DEF EndDeferred
<1>2. Tree /\ r \in CallStates /\ Placed(file, t, r)
  BY <1>1, OfInd
<1>3. r.err \in Errors \cup {"ok"} /\ r.doing = "pick"
  BY <1>1, <1>2 DEF CallStates, Placed, AtCommand
<1>4. Joined(c, r.err)
  BY <1>1, <1>2, <1>3, NothingAwaited
<1> QED
  BY <1>1, <1>3, <1>4, EndStep DEF Executing

-----------------------------------------------------------------------------
(* Cancellation                                                            *)

\* A cancelled call is dropped: the run has not returned.
LEMMA DropInv ==
  ASSUME ExecutorInd, NEW c \in DOMAIN call, Drop(c)
  PROVE  ExecutorInd'
<1> DEFINE t == TaskOf(c)
           r == call[c]
           q == [r EXCEPT !.at = "gone"]
<1>1. /\ c \in aborted /\ Live(c) /\ aborted' = aborted \cup Pending(c) /\ cell' = Dropped(c)
      /\ permits' = IF r.doing = "shell" THEN permits + 1 ELSE permits
      /\ orphans' \subseteq orphans \cup {c} /\ UNCHANGED <<file, main, abandoned>>
  BY DEF Drop
<1>2. call' = [call EXCEPT ![c] = q]
  BY DEF Drop
<1>3. /\ Tree /\ Cells /\ EndedWell /\ DepsRan /\ Permits /\ Running /\ Cancelled
      /\ file \in Files
  BY DEF ExecutorInd
<1>4. t \in Tasks /\ r \in CallStates
  BY <1>3, OfTree
<1>5. q \in CallStates /\ q.at = "gone"
  BY <1>4 DEF CallStates
<1> HIDE DEF q
<1>6. Legal(c, q, {}) /\ call' = Moved(c, q, {}) /\ ~Holds(q)
  BY <1>2, <1>3, <1>4, <1>5, PassesDrop, PassesLegal, MovedAlone DEF Holds, Alive
<1>7. Tree'
  BY <1>1, <1>3, <1>6, TreeMoves
<1>8. Running'
  BY <1>1, <1>3, <1>6, RunningMoves
<1>9. EndedWell' /\ DepsRan'
  BY <1>1, <1>3, <1>5, <1>6, DepsMoves
<1>10. Permits'
  BY <1>1, <1>3, <1>6, PermitsMove
<1>11. Cells'
  BY <1>1, <1>3, <1>5, <1>6, CellsDropped
<1>12. Cancelled'
  <2>1. main.at # "done" /\ abandoned
    BY <1>1, <1>3 DEF Cancelled, NothingLeft, LiveCalls
  <2>2. /\ \A k : k \in DOMAIN call' <=> k \in DOMAIN call
        /\ call'[c] = q /\ \A k \in DOMAIN call : k # c => call'[k] = call[k]
    BY <1>3, <1>6, MovedCalls
  <2>3. aborted' \subseteq DOMAIN call' /\ orphans' \subseteq DOMAIN call'
    BY <1>1, <1>3, <2>2 DEF Cancelled, Pending, Children
  <2>4. ASSUME main.at = "draining", NEW k \in LiveCalls' PROVE k \in aborted'
    BY <1>1, <1>3, <1>5, <2>2, <2>4 DEF Cancelled, LiveCalls, Live
  <2> QED
    BY <1>1, <2>1, <2>3, <2>4 DEF Cancelled, NothingLeft
<1> QED
  BY <1>1, <1>3, <1>7, <1>8, <1>9, <1>10, <1>11, <1>12 DEF ExecutorInd

\* Steps that leave the calls alone.
LEMMA CallsKept ==
  ASSUME ExecutorInd, UNCHANGED <<file, call, cell, permits>>
  PROVE  /\ file' \in Files /\ Tree' /\ Cells' /\ EndedWell' /\ DepsRan' /\ Permits'
         /\ LiveCalls' = LiveCalls /\ \A c \in DOMAIN call : Live(c)' <=> Live(c)
<1>1. file \in Files /\ Tree /\ Cells /\ EndedWell /\ DepsRan /\ Permits
  BY DEF ExecutorInd
<1>2. Tree'
  BY <1>1 DEF Tree
<1>3. LiveCalls' = LiveCalls /\ \A c \in DOMAIN call : Live(c)' <=> Live(c)
  BY DEF LiveCalls, Live
<1>4. Cells'
  BY <1>1, <1>3 DEF Cells
<1>5. EndedWell' /\ DepsRan'
  BY <1>1 DEF EndedWell, DepsRan, Ran
<1>6. Permits'
  BY <1>1, <1>3 DEF Permits
<1> QED
  BY <1>1, <1>2, <1>3, <1>4, <1>5, <1>6

LEMMA OrphanEndsInv ==
  ASSUME ExecutorInd, NEW c, OrphanEnds(c)
  PROVE  ExecutorInd'
<1>1. /\ UNCHANGED <<file, call, aborted, cell, permits, main, abandoned>>
      /\ orphans' \subseteq orphans
      /\ orphans # {}
  BY DEF OrphanEnds
<1>2. /\ file' \in Files /\ Tree' /\ Cells' /\ EndedWell' /\ DepsRan' /\ Permits'
      /\ LiveCalls' = LiveCalls /\ \A k \in DOMAIN call : Live(k)' <=> Live(k)
  BY <1>1, CallsKept
<1>3. Running'
  BY <1>1, <1>2 DEF ExecutorInd, Running, Roots
<1>4. Cancelled'
  BY <1>1, <1>2 DEF ExecutorInd, Cancelled, NothingLeft
<1> QED
  BY <1>2, <1>3, <1>4 DEF ExecutorInd

-----------------------------------------------------------------------------
(* Executor::run                                                           *)

LEMMA RootsAre ==
  ASSUME ExecutorInd
  PROVE  /\ \A k \in Roots : k \in DOMAIN call /\ Len(k) = 1
         /\ \A k \in DOMAIN call : Len(k) = 1 => k \in Roots
BY DEF ExecutorInd, Running, Roots

LEMMA FailFastRootsInv ==
  ASSUME ExecutorInd, FailFastRoots
  PROVE  ExecutorInd'
<1>1. /\ main.at = "wait" /\ abandoned' /\ UNCHANGED <<file, call, cell, permits, orphans>>
      /\ aborted' = aborted \cup {k \in Roots : Live(k)}
  BY DEF FailFastRoots
<1>2. PICK b \in Broken(Roots) : main' = [main EXCEPT !.at = "failing", !.err = Result(b)]
  BY DEF FailFastRoots
<1>3. /\ file' \in Files /\ Tree' /\ Cells' /\ EndedWell' /\ DepsRan' /\ Permits'
      /\ LiveCalls' = LiveCalls /\ \A k \in DOMAIN call : Live(k)' <=> Live(k)
  BY <1>1, CallsKept
<1>4. Tree /\ Running /\ Cancelled
  BY DEF ExecutorInd
<1>5. Result(b) \in Errors /\ Result(b) # "ok"
  <2>1. b \in DOMAIN call /\ ~Live(b) /\ Result(b) # "ok"
    BY RootsAre DEF Broken
  <2> QED
    BY <1>4, <2>1, Results DEF Errors
<1> DEFINE e == Result(b)
<1> HIDE DEF e
<1>6. /\ main' \in MainStates
      /\ main'.at = "failing" /\ main'.err = e /\ main'.i = main.i /\ e # "ok"
  BY <1>2, <1>4, <1>5 DEF Running, MainStates, e
<1>7. Running'
  BY <1>1, <1>4, <1>6 DEF Running, Roots
<1>8. Cancelled'
  BY <1>1, <1>4, <1>6, RootsAre DEF Cancelled, NothingLeft
<1> QED
  BY <1>3, <1>7, <1>8 DEF ExecutorInd

LEMMA EndRootInv ==
  ASSUME ExecutorInd, EndRoot
  PROVE  ExecutorInd'
<1>1. /\ main.at \in {"wait", "failing"} /\ \A k \in Roots : ~Live(k)
      /\ UNCHANGED <<file, call, aborted, cell, permits, orphans, abandoned>>
  BY DEF EndRoot
<1>2. /\ file' \in Files /\ Tree' /\ Cells' /\ EndedWell' /\ DepsRan' /\ Permits'
      /\ LiveCalls' = LiveCalls /\ \A k \in DOMAIN call : Live(k)' <=> Live(k)
  BY <1>1, CallsKept
<1>3. Tree /\ Running /\ Cancelled
  BY DEF ExecutorInd
<1>4. \A k \in DOMAIN call : Len(k) = 1 =>
        k \in Roots /\ ~Live(k) /\ (Failed(call[k]) <=> k \in Broken(Roots))
  BY <1>1, <1>3, RootsAre, Results DEF Broken
<1>5. ASSUME NEW a \in {"run", "drain"}, NEW e \in Errors \cup {"ok"},
             main' = [main EXCEPT !.at = a, !.err = e],
             a = "run" => Broken(Roots) = {}, Broken(Roots) # {} => e # "ok"
      PROVE  Running'
  <2>1. /\ main' \in MainStates
        /\ main'.at = a /\ main'.err = e /\ main'.i = main.i
    BY <1>3, <1>5 DEF Running, MainStates
  <2>2. \A k \in DOMAIN call : Len(k) = 1 =>
          /\ k \in Roots' /\ ~Live(k)' /\ (a = "run" => ~Failed(call[k]))
          /\ Failed(call[k]) => e # "ok"
    BY <1>1, <1>2, <1>4, <1>5 DEF Roots
  <2> QED
    BY <1>1, <1>3, <2>1, <2>2 DEF Running, MainStates
<1>6. Running' /\ main'.at \in {"run", "drain"}
  <2>1. main.err \in Errors \cup {"ok"} /\ main = [main EXCEPT !.err = main.err]
    BY <1>3 DEF Running, MainStates
  <2>2. CASE /\ main.at = "wait" /\ Broken(Roots) = {}
             /\ main' = [main EXCEPT !.at = IF main.i <= Len(file.roots) THEN "run" ELSE "drain"]
    <3> DEFINE a == IF main.i <= Len(file.roots) THEN "run" ELSE "drain"
    <3>1. a \in {"run", "drain"}
      OBVIOUS
    <3> HIDE DEF a
    <3>2. main' = [main EXCEPT !.at = a, !.err = main.err] /\ main'.at = a
      BY <1>3, <2>2 DEF Running, MainStates, a
    <3> QED
      BY <1>5, <2>1, <2>2, <3>1, <3>2
  <2>3. ASSUME main.at = "wait", NEW b \in Broken(Roots),
               main' = [main EXCEPT !.at = "drain", !.err = Result(b)]
        PROVE  Running' /\ main'.at \in {"run", "drain"}
    <3>1. b \in DOMAIN call /\ ~Live(b) /\ Result(b) # "ok"
      BY RootsAre DEF Broken
    <3>2. Result(b) \in Errors \cup {"ok"}
      BY <1>3, <3>1, Results
    <3>3. main'.at = "drain"
      BY <1>3, <2>3 DEF Running, MainStates
    <3> QED
      BY <1>5, <2>3, <3>1, <3>2, <3>3
  <2>4. CASE main.at = "failing" /\ main' = [main EXCEPT !.at = "drain"]
    <3>1. main.err # "ok" /\ main' = [main EXCEPT !.at = "drain", !.err = main.err]
          /\ main'.at = "drain"
      BY <1>3, <2>4 DEF Running, MainStates
    <3> QED
      BY <1>5, <2>1, <3>1
  <2> QED
    BY <2>2, <2>3, <2>4 DEF EndRoot
<1>7. Cancelled'
  BY <1>1, <1>2, <1>3, <1>6 DEF Cancelled, NothingLeft
<1> QED
  BY <1>2, <1>6, <1>7 DEF ExecutorInd

LEMMA DrainInv ==
  ASSUME ExecutorInd, Drain
  PROVE  ExecutorInd'
<1>1. /\ main.at = "drain" /\ main' = [main EXCEPT !.at = "draining"]
      /\ aborted' = aborted \cup LiveCalls /\ abandoned' = (abandoned \/ LiveCalls # {})
      /\ UNCHANGED <<file, call, cell, permits, orphans>>
  BY DEF Drain
<1>2. /\ file' \in Files /\ Tree' /\ Cells' /\ EndedWell' /\ DepsRan' /\ Permits'
      /\ LiveCalls' = LiveCalls /\ \A k \in DOMAIN call : Live(k)' <=> Live(k)
  BY <1>1, CallsKept
<1>3. Running /\ Cancelled
  BY DEF ExecutorInd
<1>4. /\ main' \in MainStates
      /\ main'.at = "draining" /\ main'.err = main.err /\ main'.i = main.i
  BY <1>1, <1>3 DEF Running, MainStates
<1>5. Running'
  BY <1>1, <1>2, <1>3, <1>4 DEF Running, Roots
<1>6. Cancelled'
  <2>1. LiveCalls \subseteq DOMAIN call
    BY DEF LiveCalls
  <2>2. (aborted' # {} \/ orphans' # {}) => abandoned'
    BY <1>1, <1>3 DEF Cancelled
  <2> QED
    BY <1>1, <1>2, <1>3, <1>4, <2>1, <2>2 DEF Cancelled, NothingLeft
<1> QED
  BY <1>2, <1>5, <1>6 DEF ExecutorInd

LEMMA DrainedInv ==
  ASSUME ExecutorInd, Drained
  PROVE  ExecutorInd'
<1>1. /\ main.at = "draining" /\ LiveCalls = {} /\ main' = [main EXCEPT !.at = "done"]
      /\ orphans' \in IF abandoned /\ main.err # "ok" THEN Survivors ELSE {orphans}
      /\ UNCHANGED <<file, call, aborted, cell, permits>>
  BY DEF Drained
<1>2. /\ file' \in Files /\ Tree' /\ Cells' /\ EndedWell' /\ DepsRan' /\ Permits'
      /\ LiveCalls' = LiveCalls /\ \A k \in DOMAIN call : Live(k)' <=> Live(k)
  BY <1>1, CallsKept
<1>3. Running /\ Cancelled
  BY DEF ExecutorInd
<1>4. /\ main' \in MainStates
      /\ main'.at = "done" /\ main'.err = main.err /\ main'.i = main.i
  BY <1>1, <1>3 DEF Running, MainStates
<1>5. Running'
  BY <1>1, <1>2, <1>3, <1>4 DEF Running, Roots
<1>6. Cancelled'
  <2>1. \A S \in Survivors : S \subseteq orphans /\ (file.sweep = "whole" => S = {})
    <3>1. file.sweep \in {"whole", "part", "none"}
      BY FileAssumption DEF ExecutorInd, WellFormed
    <3> QED
      BY <3>1 DEF Survivors
  <2>2. orphans' \subseteq orphans
        /\ (main.err # "ok" /\ file.sweep = "whole" => orphans' = {})
    BY <1>1, <1>3, <2>1 DEF Cancelled
  <2> QED
    BY <1>1, <1>2, <1>3, <1>4, <2>2 DEF Cancelled, NothingLeft
<1> QED
  BY <1>2, <1>5, <1>6 DEF ExecutorInd

\* Calls of the command line are made.
LEMMA RootsStart ==
  ASSUME ExecutorInd, UNCHANGED <<file, cell, permits>>, NEW ks, call' = Spawned(ks),
         \A k \in ks : k \notin DOMAIN call /\ \E x \in Tasks : k = <<x>>
  PROVE  /\ file' \in Files /\ Tree' /\ Cells' /\ EndedWell' /\ DepsRan' /\ Permits'
         /\ \A k : k \in DOMAIN call' <=> k \in DOMAIN call \/ k \in ks
<1>1. /\ \A k : k \in DOMAIN call' <=> k \in DOMAIN call \/ k \in ks
      /\ \A k \in DOMAIN call : call'[k] = call[k]
      /\ \A k \in ks : call'[k] = Fresh
  BY DEF Spawned
<1>2. file \in Files /\ Tree /\ Cells /\ EndedWell /\ DepsRan /\ Permits
  BY DEF ExecutorInd
<1>3. \A k \in ks : k \in Paths /\ Len(k) = 1
  BY DEF Paths
<1>4. ASSUME NEW d \in DOMAIN call', NEW x \in Tasks
      PROVE  /\ d \in Paths /\ Append(d, x) \notin ks
             /\ Append(d, x) \in DOMAIN call => d \in DOMAIN call
  <2>1. d \in Paths
    BY <1>1, <1>2, <1>3, OfTree
  <2> DEFINE k == Append(d, x)
  <2>2. Front(k) = d /\ Len(k) = Len(d) + 1 /\ Len(d) \in Nat \ {0}
    BY <2>1, CalleePath
  <2> HIDE DEF k
  <2>3. Len(k) > 1 /\ Len(k) # 1
    BY <2>2
  <2>4. k \notin ks
    BY <1>3, <2>3
  <2>5. k \in DOMAIN call => d \in DOMAIN call
    BY <1>2, <2>2, <2>3, OfTree
  <2> QED
    BY <2>1, <2>4, <2>5 DEF k
<1>5. ASSUME NEW d \in DOMAIN call PROVE InTree(file, call', d)
  <2>1. /\ d \in Paths /\ call'[d] = call[d] /\ call[d] \in CallStates
        /\ Placed(file, TaskOf(d), call[d]) /\ (Len(d) > 1 => Front(d) \in DOMAIN call')
    BY <1>1, <1>2, OfTree
  <2>2. ASSUME NEW x \in Tasks
        PROVE  /\ Awaits(file, TaskOf(d), call[d], x) => Append(d, x) \in DOMAIN call'
               /\ Append(d, x) \in DOMAIN call' =>
                    Linked(file, TaskOf(d), call[d], x, call'[Append(d, x)])
    <3>1. Append(d, x) \in DOMAIN call' <=> Append(d, x) \in DOMAIN call
      BY <1>1, <1>4
    <3> QED
      BY <1>1, <1>2, <3>1, OfTree
  <2> QED
    BY <2>1, <2>2 DEF InTree, Paths
<1>6. ASSUME NEW d \in ks PROVE InTree(file, call', d)
  <2>1. d \in Paths /\ Len(d) = 1 /\ call'[d] = Fresh /\ d \notin DOMAIN call
        /\ d \in DOMAIN call'
    BY <1>1, <1>3
  <2>2. \A x \in Tasks : Append(d, x) \notin DOMAIN call'
    BY <1>1, <1>4, <2>1
  <2>3. ~(Len(d) > 1)
    BY <2>1
  <2> QED
    BY <2>1, <2>2, <2>3, FreshCall DEF InTree, Paths
<1>7. Tree'
  BY <1>1, <1>5, <1>6 DEF Tree
<1>8. \A t : Ran(t) => Ran(t)'
  BY <1>1 DEF Ran
<1>9. Fresh.at = "queued" /\ ~Fresh.own /\ Fresh.doing = "pick"
  BY DEF Fresh
<1>10. EndedWell' /\ DepsRan'
  <2>1. \A k \in DOMAIN call' :
          \/ k \in DOMAIN call /\ call'[k] = call[k]
          \/ call'[k].at = "queued"
    BY <1>1, <1>9
  <2>2. EndedWell'
    BY <1>2, <1>8, <2>1 DEF EndedWell
  <2>3. DepsRan'
    <3> SUFFICES ASSUME NEW k \in DOMAIN call', call'[k].at \in {"cmds", "defer"},
                        NEW d \in file.deps[TaskOf(k)] \ file.skipped
                 PROVE  Ran(d)'
      BY DEF DepsRan, Ran
    <3>1. k \in DOMAIN call /\ call'[k] = call[k]
      BY <2>1
    <3>2. Ran(d)
      BY <1>2, <3>1 DEF DepsRan, Ran
    <3> QED
      BY <1>8, <3>2
  <2> QED
    BY <2>2, <2>3
<1>11. Permits'
  <2>1. {k \in LiveCalls' : call'[k].doing = "shell"} = {k \in LiveCalls : call[k].doing = "shell"}
    BY <1>1, <1>9 DEF LiveCalls, Live
  <2> QED
    BY <1>2, <2>1 DEF Permits
<1>12. Cells'
  <2>1. cell' \in [Tasks -> [by: DOMAIN call' \cup {NoCall}, res: Errors \cup {"ok", "none"}]]
    BY <1>1, <1>2 DEF Cells
  <2>2. ASSUME NEW k \in DOMAIN call', TaskOf(k) \in file.once, call'[k].own, call'[k].at # "gone"
        PROVE  cell[TaskOf(k)].by = k /\ (Alive(call'[k]) <=> cell[TaskOf(k)].res = "none")
    <3>1. k \in DOMAIN call /\ call'[k] = call[k]
      BY <1>1, <1>9, <2>2
    <3> QED
      BY <1>2, <2>2, <3>1 DEF Cells, Live, Alive
  <2>3. ASSUME NEW t \in Tasks, t \in file.once, cell[t].res # "none"
        PROVE  \E k \in DOMAIN call' : /\ TaskOf(k) = t /\ call'[k].own /\ call'[k].at = "ended"
                                       /\ cell[t].res = "ok" => call'[k].err = "ok"
    BY <1>1, <1>2, <2>3 DEF Cells
  <2> QED
    BY <2>1, <2>2, <2>3 DEF Cells, Live, Alive
<1> QED
  BY <1>1, <1>2, <1>7, <1>10, <1>11, <1>12

LEMMA StartRootInv ==
  ASSUME ExecutorInd, StartRoot
  PROVE  ExecutorInd'
<1> DEFINE R == file.roots
           n == IF file.parallel THEN Len(R) + 1 ELSE main.i + 1
           ks == IF file.parallel THEN {<<r>> : r \in Range(R)} ELSE {<<R[main.i]>>}
<1>1. /\ main.at = "run" /\ main.i <= Len(R) /\ call' = Spawned(ks)
      /\ UNCHANGED <<file, aborted, cell, permits, orphans, abandoned>>
      /\ main' = [main EXCEPT !.at = "wait", !.i = n]
  BY DEF StartRoot
<1>2. file \in Files /\ Running /\ Cancelled
  BY DEF ExecutorInd
<1>3. /\ R \in Seq(Tasks) /\ DOMAIN R = 1..Len(R) /\ Len(R) \in Nat
      /\ \A i, j \in DOMAIN R : R[i] = R[j] => i = j
  <2>1. WellFormed(file) /\ OnceEach(R)
    BY <1>2, FileAssumption DEF Distinct
  <2>2. R \in Seq(Tasks) /\ DOMAIN R = 1..Len(R) /\ Len(R) \in Nat
    BY <2>1 DEF WellFormed
  <2>3. \A i \in DOMAIN R : R[i] \in Tasks /\ R[i] # Shell
    BY <2>2, LimitAssumption
  <2> QED
    BY <2>1, <2>2, <2>3 DEF OnceEach
<1>4. main.i \in DOMAIN R /\ n \in Nat \ {0} /\ (file.parallel => main.i = 1)
  <2>1. main.i \in Nat \ {0}
    BY <1>2 DEF Running, MainStates
  <2>2. main.i \in DOMAIN R
    BY <1>1, <1>3, <2>1
  <2>3. file.parallel => main.i = 1
    BY <1>1, <1>2, <1>3, <2>1 DEF Running
  <2> QED
    BY <1>3, <2>1, <2>2, <2>3
<1>5. \A k \in ks : \E j \in DOMAIN R : k = <<R[j]>> /\ j >= main.i /\ j < n
  BY <1>3, <1>4 DEF Range
<1>6. \A k \in ks : k \notin DOMAIN call /\ \E x \in Tasks : k = <<x>>
  <2>1. \A j \in DOMAIN R : R[j] \in Tasks
    BY <1>3
  <2> QED
    BY <1>2, <1>5, <2>1 DEF Running
<1>7. n = Len(R) + 1 \/ n = main.i + 1
  OBVIOUS
<1>8. file.parallel => n > Len(R)
  BY <1>3
<1> HIDE DEF n, ks
<1>9. /\ file' \in Files /\ Tree' /\ Cells' /\ EndedWell' /\ DepsRan' /\ Permits'
      /\ \A k : k \in DOMAIN call' <=> k \in DOMAIN call \/ k \in ks
  BY <1>1, <1>6, RootsStart
<1>10. /\ main' \in MainStates
       /\ main'.at = "wait" /\ main'.i = n
  BY <1>1, <1>2, <1>4 DEF Running, MainStates
<1>11. ASSUME NEW j \in DOMAIN R, j >= n PROVE <<R[j]>> \notin DOMAIN call'
  <2>1. j >= main.i
    BY <1>3, <1>4, <1>7, <1>11
  <2>2. <<R[j]>> \notin DOMAIN call
    BY <1>2, <2>1 DEF Running
  <2>3. <<R[j]>> \notin ks
    <3>1. \A i \in DOMAIN R : i < n => i # j
      BY <1>3, <1>4, <1>11
    <3>2. \A i \in DOMAIN R : i < n => R[i] # R[j]
      BY <1>3, <3>1
    <3>3. \A i \in DOMAIN R : i < n => <<R[i]>> # <<R[j]>>
      BY <3>2
    <3> QED
      BY <1>5, <3>3
  <2> QED
    BY <1>9, <2>2, <2>3
<1>12. ASSUME NEW k \in DOMAIN call', Len(k) = 1 PROVE k \in Roots'
  <2>1. \A j \in DOMAIN R : R[j] \in Range(R)
    BY DEF Range
  <2>2. CASE k \in ks
    BY <1>1, <1>5, <2>1, <2>2 DEF Roots
  <2>3. CASE k \in DOMAIN call
    BY <1>1, <1>2, <1>12, <2>3 DEF Running, Roots
  <2> QED
    BY <1>9, <2>2, <2>3
<1>13. Running'
  BY <1>1, <1>8, <1>10, <1>11, <1>12 DEF Running
<1>14. Cancelled'
  BY <1>1, <1>2, <1>9, <1>10 DEF Cancelled, NothingLeft
<1> QED
  BY <1>9, <1>13, <1>14 DEF ExecutorInd

-----------------------------------------------------------------------------
(* The invariant                                                           *)

LEMMA InitInd == Init => ExecutorInd
<1> SUFFICES ASSUME Init PROVE ExecutorInd
  OBVIOUS
<1>1. DOMAIN call = {} /\ file \in Files /\ WellFormed(file)
  BY FileAssumption DEF Init
<1>2. Tree /\ EndedWell /\ DepsRan /\ LiveCalls = {}
  BY <1>1 DEF Tree, EndedWell, DepsRan, LiveCalls
<1>3. Cells
  BY <1>1 DEF Cells, Init
<1>4. Permits
  <2>1. {c \in LiveCalls : call[c].doing = "shell"} = {}
    BY <1>2
  <2>2. permits \in Nat /\ permits = file.limit
    BY <1>1 DEF Init, WellFormed
  <2> QED
    BY <2>1, <2>2, FS_EmptySet DEF Permits
<1>5. Running /\ Cancelled
  BY <1>1, <1>2 DEF Running, MainStates, Cancelled, NothingLeft, Init
<1> QED
  BY <1>1, <1>2, <1>3, <1>4, <1>5 DEF ExecutorInd

LEMMA NextInd == ExecutorInd /\ [Next]_vars => ExecutorInd'
<1> SUFFICES ASSUME ExecutorInd, [Next]_vars PROVE ExecutorInd'
  OBVIOUS
<1>1. CASE StartRoot
  BY <1>1, StartRootInv
<1>2. CASE FailFastRoots
  BY <1>2, FailFastRootsInv
<1>3. CASE EndRoot
  BY <1>3, EndRootInv
<1>4. CASE Drain
  BY <1>4, DrainInv
<1>5. CASE Drained
  BY <1>5, DrainedInv
<1>6. ASSUME NEW c \in DOMAIN call, CallStep(c) PROVE ExecutorInd'
  BY <1>6, EnterInv, ClaimInv, CallSetupInv, BodyInv, JoinDepsInv, FailFastInv, FailedFastInv,
     RunCommandInv, SkipCommandInv, AcquireInv, ShellEndsInv, CallEndsInv, EndCommandsInv,
     EndDeferredInv, DropInv, OrphanEndsInv DEF CallStep
<1>7. CASE UNCHANGED vars
  <2>1. UNCHANGED <<file, call, aborted, cell, permits, orphans, main, abandoned>>
    BY <1>7 DEF vars
  <2>2. /\ file' \in Files /\ Tree' /\ Cells' /\ EndedWell' /\ DepsRan' /\ Permits'
        /\ LiveCalls' = LiveCalls /\ \A k \in DOMAIN call : Live(k)' <=> Live(k)
    BY <2>1, CallsKept
  <2>3. Running' /\ Cancelled'
    BY <2>1, <2>2 DEF ExecutorInd, Running, Roots, Cancelled, NothingLeft
  <2> QED
    BY <2>2, <2>3 DEF ExecutorInd
<1> QED
  BY <1>1, <1>2, <1>3, <1>4, <1>5, <1>6, <1>7 DEF Next

LEMMA Inductive == Spec => []ExecutorInd
BY InitInd, NextInd, PTL DEF Spec

-----------------------------------------------------------------------------
(* What it says of the run                                                 *)

\* Whatever the run's calls do, fail or are cancelled in, no more permits are out than the
\* limit and all are back at the end, and drain_queue leaves no call and, when the run failed
\* and the sweep is neither off nor declines nor falls short, no command behind.
THEOREM CleanEnd == Spec => []LeftClean
<1>1. ExecutorInd => LeftClean
  <2> SUFFICES ASSUME ExecutorInd PROVE LeftClean
    OBVIOUS
  <2>1. file \in Files /\ Tree /\ Cells /\ Permits /\ Cancelled
    BY DEF ExecutorInd
  <2>2. permits \in 0..file.limit /\ PermitsKept
    <3>1. /\ IsFiniteSet(Holders) /\ permits \in Nat
          /\ permits + Cardinality(Holders) = file.limit
          /\ Cardinality(Holders) \in Nat
      BY <2>1, FS_CardinalityType DEF Permits, Holders
    <3>2. permits \in 0..file.limit
      BY <3>1
    <3> QED
      BY <3>1, <3>2 DEF PermitsKept, Holders
  <2>3. \A c \in DOMAIN call :
          /\ call[c].at \in {"queued", "wait", "setup", "deps", "failing", "cmds", "defer",
                             "ended", "gone"}
          /\ call[c].doing \in {"pick", "permit", "shell", "call"}
          /\ call[c].err \in Errors \cup {"ok"}
    BY <2>1, OfTree DEF CallStates, Executing
  <2>4. TypeOK
    BY <2>1, <2>2, <2>3 DEF TypeOK, Cells, Cancelled
  <2> QED
    BY <2>1, <2>2, <2>4 DEF LeftClean, Cancelled
<1> QED
  BY <1>1, Inductive, PTL

\* A set whose members are all the same has at most one.
LEMMA AtMostOne ==
  ASSUME NEW S, NEW b, \A c \in S : c = b
  PROVE  Cardinality(S) <= 1
<1>1. CASE S = {}
  BY <1>1, FS_EmptySet
<1>2. CASE S # {}
  <2>1. S = {b}
    BY <1>2
  <2> QED
    BY <2>1, FS_Singleton
<1> QED
  BY <1>1, <1>2

\* However many calls of a `run: once` task are made, interleave and are cancelled, a second
\* one invokes it only after the first was cancelled, and beside the command that one left
\* only while the run knows of the cancellation (start_execution, TaskQueue.abandoned).
THEOREM RunsOnce == Spec => []OnceOnly
<1>1. ExecutorInd => OnceOnly
  <2> SUFFICES ASSUME ExecutorInd PROVE InvokedOnce /\ OverlapKnown
    BY DEF OnceOnly
  <2>1. \A t \in file.once : \A c \in Invoked(t) : call[c].at # "gone" => c = cell[t].by
    BY DEF ExecutorInd, Cells, Invoked
  <2>2. InvokedOnce
    BY <2>1 DEF InvokedOnce
  <2>3. OverlapKnown
    <3> SUFFICES ASSUME main.at # "done", ~abandoned, NEW t \in file.once
                 PROVE  Cardinality(Invoking(t)) <= 1
      BY DEF OverlapKnown
    <3>1. orphans = {}
      BY DEF ExecutorInd, Cancelled
    <3>2. \A c \in Invoking(t) : c = cell[t].by
      BY <2>1, <3>1 DEF Invoking, Live
    <3> QED
      BY <3>2, AtMostOne
  <2> QED
    BY <2>2, <2>3
<1> QED
  BY <1>1, Inductive, PTL

LEMMA LeastLength ==
  ASSUME NEW T, T \subseteq Nat, T # {}
  PROVE  \E m \in T : \A n \in T : m <= n
<1> DEFINE R == {p \in Nat \X Nat : p[1] < p[2]}
<1>1. IsWellFoundedOn(R, Nat)
  BY NatLessThanWellFounded DEF OpToRel
<1>2. \A n, m \in Nat : <<n, m>> \in R <=> n < m
  OBVIOUS
<1> HIDE DEF R
<1>3. PICK m \in T : \A n \in T : ~(<<n, m>> \in R)
  BY <1>1, WFMin
<1>4. \A n \in T : n \in Nat /\ m \in Nat /\ ~(n < m)
  BY <1>2, <1>3
<1>5. \A n \in T : m <= n
  BY <1>4
<1> QED
  BY <1>5

\* A call whose error the Taskfile does not say to ignore: neither does it for its caller's.
LEMMA NotExcused ==
  ASSUME NEW c \in Paths, Len(c) > 1, ~Excused(c)
  PROVE  /\ ~Excused(Front(c)) /\ ~Ignored(file, TaskOf(Front(c)), TaskOf(c))
         /\ Len(Front(c)) < Len(c)
<1> DEFINE d == Front(c)
<1>1. c \in Seq(Tasks) /\ Len(c) \in Nat \ {0}
  BY PathTask DEF Paths
<1>2. d \in Seq(Tasks) /\ Len(d) \in Nat \ {0} /\ TaskOf(c) \in Tasks
      /\ c = Append(d, TaskOf(c))
  BY CallerPath, PathTask DEF Paths
<1> HIDE DEF d
<1>3. /\ Len(c) = Len(d) + 1 /\ c[Len(d) + 1] = TaskOf(c) /\ \A n \in 1..Len(d) : c[n] = d[n]
  BY <1>2
<1>4. TaskOf(d) = d[Len(d)]
  BY DEF TaskOf, Last
<1>5. \A n \in 1..Len(d) : ~(c[n + 1] \in Range(file.defers[c[n]]) \/ c[n] \in file.lenient)
  <2>1. Len(c) - 1 = Len(d)
    BY <1>2, <1>3
  <2> QED
    BY <2>1 DEF Excused
<1>6. ~Ignored(file, TaskOf(d), TaskOf(c))
  <2>1. Len(d) \in 1..Len(d)
    BY <1>2
  <2> QED
    BY <1>3, <1>4, <1>5, <2>1 DEF Ignored
<1>7. ~Excused(d)
  <2>1. \A n \in 1..(Len(d) - 1) : n \in 1..Len(d) /\ n + 1 \in 1..Len(d)
    BY <1>2
  <2>2. \A n \in 1..(Len(d) - 1) : c[n] = d[n] /\ c[n + 1] = d[n + 1]
    BY <1>3, <2>1
  <2> QED
    BY <1>5, <2>1, <2>2 DEF Excused
<1>8. Len(d) < Len(c)
  BY <1>2, <1>3
<1> QED
  BY <1>6, <1>7, <1>8 DEF d

\* No command of a task starts before each of its deps has been executed well, and no error
\* is lost on its way from the call that failed to the run's result (run_deps, run_command,
\* join_queued): it passes from each call to its caller, up to the command line.
THEOREM SuccessWhole == Spec => []WholeSuccess
<1>1. ExecutorInd => WholeSuccess
  <2> SUFFICES ASSUME ExecutorInd, main.at = "done", main.err = "ok", NEW c0 \in DOMAIN call,
                      ~Excused(c0), ~(call[c0].at = "ended" /\ call[c0].err = "ok")
               PROVE  FALSE
    BY DEF ExecutorInd, WholeSuccess, SuccessIsWhole
  <2>1. Tree /\ Running /\ LiveCalls = {}
    BY DEF ExecutorInd, Cancelled, NothingLeft
  <2>2. \A c \in DOMAIN call : call[c].at \in {"ended", "gone"} /\ c \in Paths
    BY <2>1, OfTree DEF LiveCalls, Live
  <2> DEFINE B == {c \in DOMAIN call : ~Excused(c) /\ Failed(call[c])}
             T == {Len(c) : c \in B}
  <2>3. c0 \in B
    BY <2>2 DEF Failed
  <2>4. T \subseteq Nat /\ T # {}
    BY <2>2, <2>3, PathTask
  <2>5. PICK c \in B : \A d \in B : Len(c) <= Len(d)
    <3> HIDE DEF T
    <3>1. PICK m \in T : \A n \in T : m <= n
      BY <2>4, LeastLength
    <3> QED
      BY <3>1 DEF T
  <2>6. c \in DOMAIN call /\ c \in Paths /\ ~Excused(c) /\ Failed(call[c])
        /\ Len(c) \in Nat \ {0}
    BY <2>2, PathTask
  <2> DEFINE d == Front(c)
  <2>7. CASE Len(c) > 1
    <3>1. /\ d \in Paths /\ TaskOf(c) \in Tasks /\ c = Append(d, TaskOf(c))
          /\ d \in DOMAIN call
          /\ ~Excused(d) /\ ~Ignored(file, TaskOf(d), TaskOf(c)) /\ Len(d) < Len(c)
      BY <2>1, <2>6, <2>7, CallerPath, NotExcused, OfTree
    <3> HIDE DEF d
    <3>2. Heeds(file, TaskOf(d), call[d], TaskOf(c))
      <4>1. Linked(file, TaskOf(d), call[d], TaskOf(c), call[c])
        BY <2>1, <2>6, <3>1, OfTree
      <4> QED
        BY <2>6, <3>1, <4>1 DEF Linked
    <3>3. Failed(call[d])
      BY <2>2, <3>1, <3>2 DEF Heeds, MayRun, Awaits, Calls, Failed
    <3>4. d \in B
      BY <3>1, <3>3
    <3>5. Len(d) \in Nat /\ Len(c) <= Len(d)
      BY <2>5, <3>1, <3>4, PathTask
    <3> QED
      BY <2>6, <3>1, <3>5
  <2>8. CASE Len(c) = 1
    BY <2>1, <2>6, <2>8 DEF Running
  <2>9. \A n \in Nat \ {0} : n > 1 \/ n = 1
    OBVIOUS
  <2> QED
    BY <2>6, <2>7, <2>8, <2>9
<1> QED
  BY <1>1, Inductive, PTL
=============================================================================
