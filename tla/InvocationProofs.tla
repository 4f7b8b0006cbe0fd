-------------------------- MODULE InvocationProofs --------------------------
(***************************************************************************)
(* Proofs about the invocations of Task in one project (Invocation): what  *)
(* --status says, what is skipped and what the exit codes tell, for every  *)
(* set of invocations and archives, and about MCProcess, which starts them. *)
(***************************************************************************)
EXTENDS MCProcess, TLAPS

\* A project nobody has worked in.
LEMMA InvocationInit == V!Init => V!InvocationInd
<1> SUFFICES ASSUME V!Init PROVE V!InvocationInd
  OBVIOUS
<1>1. V!TypeOK
  BY DEF V!Init, V!TypeOK, V!Files, V!Kept, V!Beyond
<1>2. tree["sum_plain"] = V!Gone /\ DOMAIN undo = {}
  BY DEF V!Init, V!Kept
<1>3. V!SumBacked /\ V!SameView /\ V!ToldTrue /\ V!InOrder
  BY <1>2 DEF V!Init, V!SumBacked, V!Aside, V!SameView, V!ToldTrue, V!InOrder, V!Beyond
<1>4. V!StatusForetells /\ V!SkippedWasDone /\ V!Tells
  BY DEF V!Init, V!StatusForetells, V!SkippedWasDone, V!Tells
<1> QED
  BY <1>1, <1>3, <1>4 DEF V!InvocationInd

\* The first of the flags that need no engine is found if there is one, and so is
\* the first fault.
LEMMA OldIsAFault ==
  ASSUME V!FirstFault = {}
  PROVE  "old" \notin faults
<1>1. /\ Len(V!SetupFaults) = 8 /\ V!SetupFaults[7] = "old"
  BY DEF V!SetupFaults
<1>2. \A f \in 1 .. 8 : V!Hit(V!SetupFaults[f]) => \E g \in 1 .. f - 1 : V!Hit(V!SetupFaults[g])
  BY <1>1 DEF V!FirstFault
<1>3. ~V!Hit(V!SetupFaults[1])
  BY <1>2
<1>4. ~V!Hit(V!SetupFaults[2])
  BY <1>2, <1>3
<1>5. ~V!Hit(V!SetupFaults[3])
  BY <1>2, <1>3, <1>4
<1>6. ~V!Hit(V!SetupFaults[4])
  BY <1>2, <1>3, <1>4, <1>5
<1>7. ~V!Hit(V!SetupFaults[5])
  BY <1>2, <1>3, <1>4, <1>5, <1>6
<1>8. ~V!Hit(V!SetupFaults[6])
  BY <1>2, <1>3, <1>4, <1>5, <1>6, <1>7
<1>9. ~V!Hit(V!SetupFaults[7])
  BY <1>2, <1>3, <1>4, <1>5, <1>6, <1>7, <1>8
<1> QED
  BY <1>1, <1>9 DEF V!Hit

\* Exit codes of setup.
LEMMA SetupCodes ==
  ASSUME NEW f \in V!FirstFault
  PROVE  V!Codes[f] \in 1 .. 255
<1>1. f \in 1 .. 8
  BY DEF V!FirstFault, V!SetupFaults
<1>2. f = 1 \/ f = 2 \/ f = 3 \/ f = 4 \/ f = 5 \/ f = 6 \/ f = 7 \/ f = 8
  BY <1>1
<1> QED
  BY <1>2 DEF V!Codes

\* Who is not asked for a list or a status has neither flag.
LEMMA ModeAsked ==
  ASSUME V!Mode \in {"run", "export", "import"}
  PROVE  flags \cap {"list", "list_all", "status"} = {}
BY DEF V!Mode, V!Has

\* A step that leaves the project, what --status said and what was skipped alone
\* disturbs only where the invocation is.
LEMMA ProjectStays ==
  ASSUME V!InvocationInd, UNCHANGED <<V!project, told, warned>>,
         at # "extract", at # "discard", at' # "extract"
  PROVE  V!SumBacked' /\ V!ToldTrue'
<1>1. V!SumBacked'
  BY DEF V!InvocationInd, V!SumBacked, V!Backed, V!Aside, V!Made, V!project
<1>2. V!ToldTrue'
  BY DEF V!InvocationInd, V!ToldTrue, V!UpToDate, V!Fresh, V!project
<1> QED
  BY <1>1, <1>2

LEMMA InvokeInd ==
  ASSUME V!InvocationInd, V!Invoke
  PROVE  V!InvocationInd'
<1> USE DEF V!InvocationInd
<1>1. V!TypeOK'
  BY DEF V!TypeOK, V!Invoke, V!project
<1>2. V!SumBacked' /\ V!ToldTrue'
  BY ProjectStays DEF V!Invoke
<1>3. at = "idle" /\ at' = "flags" /\ acted' = acted /\ UNCHANGED <<touched, failed, code>>
  BY DEF V!Invoke
<1>4. acted = {} /\ ~touched
  BY <1>3 DEF V!InOrder, V!Beyond
<1>5. V!SameView' /\ V!InOrder'
  BY <1>3, <1>4 DEF V!SameView, V!InOrder, V!Beyond, V!Invoke
<1>6. V!StatusForetells' /\ V!SkippedWasDone' /\ V!Tells'
  BY <1>3, <1>4 DEF V!StatusForetells, V!SkippedWasDone, V!Tells
<1> QED
  BY <1>1, <1>2, <1>5, <1>6

LEMMA ReturnInd ==
  ASSUME V!InvocationInd, V!Return
  PROVE  V!InvocationInd'
<1> USE DEF V!InvocationInd
<1>1. V!TypeOK'
  BY DEF V!TypeOK, V!Return, V!project
<1>2. V!SumBacked' /\ V!ToldTrue'
  BY ProjectStays DEF V!Return
<1>3. V!SameView' /\ V!InOrder' /\ V!StatusForetells' /\ V!SkippedWasDone' /\ V!Tells'
  BY DEF V!Return, V!SameView, V!InOrder, V!Beyond, V!StatusForetells, V!SkippedWasDone, V!Tells
<1> QED
  BY <1>1, <1>2, <1>3

LEMMA HandleFlagsInd ==
  ASSUME V!InvocationInd, V!HandleFlags
  PROVE  V!InvocationInd'
<1> USE DEF V!InvocationInd
<1>1. /\ at = "flags" /\ UNCHANGED <<V!project, flags, select, faults, view, todo, warned, acted, told>>
      /\ acted = {} /\ ~touched /\ ~failed /\ code = 0
  BY DEF V!HandleFlags, V!InOrder, V!Beyond
<1>0. touched \in BOOLEAN /\ failed \in BOOLEAN
  BY DEF V!TypeOK
<1>2. V!SumBacked' /\ V!ToldTrue'
  BY <1>1, ProjectStays DEF V!HandleFlags, V!Exit
<1>3. /\ at' \in {"setup", "exited"} /\ touched' \in BOOLEAN /\ failed' \in BOOLEAN /\ code' \in Nat
      /\ at' = "setup" => UNCHANGED <<code, failed, touched>>
      /\ at' = "exited" => (failed' => code' \in 1 .. 255)
      /\ at' = "exited" => (~failed' => code' = 0 \/ (code' = 1 /\ V!Has("check")))
      /\ touched' => V!EarlyOne # {}
  <2>1. CASE ~V!Valid
    <3>1. at' = "exited" /\ code' = 1 /\ failed' = TRUE /\ touched' = touched
      BY <2>1 DEF V!HandleFlags, V!Exit
    <3> QED
      BY <1>0, <1>1, <3>1
  <2>2. CASE V!Valid /\ V!EarlyOne = {}
    <3>1. at' = "setup" /\ UNCHANGED <<code, failed, touched>>
      BY <2>2 DEF V!HandleFlags
    <3> QED
      BY <1>0, <1>1, <3>1
  <2>3. CASE V!Valid /\ V!EarlyOne # {}
    <3>1. PICK e \in {V!Early[i] : i \in V!EarlyOne}, went \in {"well", "newer", "wrong"} :
            /\ went = "newer" => e = "update" /\ V!Has("check")
            /\ failed' = (went = "wrong")
            /\ touched' = (went = "well" /\
                           (e = "init" \/ (e = "migrate" /\ V!Has("write"))
                            \/ (e = "update" /\ ~V!Has("check"))))
            /\ at' = "exited"
            /\ code' = (IF went = "well" THEN 0
                        ELSE IF went = "newer" THEN 1
                        ELSE IF e = "update" THEN 2
                        ELSE IF e = "init" THEN 101 ELSE 1)
      BY <2>3 DEF V!HandleFlags, V!Exit
    <3>2. touched' \in BOOLEAN /\ failed' \in BOOLEAN /\ (failed' <=> went = "wrong")
      BY <3>1
    <3>3. code' \in Nat /\ (went = "wrong" => code' \in 1 .. 255)
      BY <3>1
    <3>4. went # "wrong" => code' = 0 \/ (code' = 1 /\ V!Has("check"))
      BY <3>1
    <3> QED
      BY <2>3, <3>1, <3>2, <3>3, <3>4
  <2> QED
    BY <2>1, <2>2, <2>3
<1>4. V!TypeOK'
  BY <1>1, <1>3 DEF V!TypeOK, V!project
<1>5. V!EarlyOne' = V!EarlyOne
  BY <1>1 DEF V!EarlyOne, V!Has
<1>6. V!SameView' /\ V!InOrder'
  BY <1>1, <1>3, <1>5 DEF V!SameView, V!InOrder, V!Asked, V!Beyond
<1>7. V!Tells'
  BY <1>1, <1>3, <1>5, <1>6 DEF V!Tells, V!InOrder, V!Asked, V!Has
<1>8. V!StatusForetells' /\ V!SkippedWasDone'
  BY <1>1 DEF V!StatusForetells, V!SkippedWasDone
<1> QED
  BY <1>2, <1>4, <1>6, <1>7, <1>8

LEMMA SetupInd ==
  ASSUME V!InvocationInd, V!Setup
  PROVE  V!InvocationInd'
<1> USE DEF V!InvocationInd
<1>1. /\ at = "setup" /\ UNCHANGED <<V!project, flags, select, faults, todo, warned, acted, told, touched>>
      /\ acted = {} /\ ~touched /\ ~failed /\ code = 0
  BY DEF V!Setup, V!InOrder, V!Beyond
<1>2. V!SumBacked' /\ V!ToldTrue'
  BY <1>1, ProjectStays DEF V!Setup, V!Exit
<1>3. \/ at' = "exited" /\ failed' = TRUE /\ code' \in 1 .. 255
      \/ at' = "ready" /\ UNCHANGED <<code, failed>> /\ "old" \notin faults
  <2>1. CASE V!FirstFault # {}
    <3>1. (\E f \in V!FirstFault : at' = "exited" /\ code' = V!Codes[f]) /\ failed' = TRUE
      BY <2>1 DEF V!Setup, V!Exit
    <3> QED
      BY <3>1, SetupCodes
  <2>2. CASE V!FirstFault = {}
    BY <2>2, OldIsAFault DEF V!Setup
  <2> QED
    BY <2>1, <2>2
<1>4. V!TypeOK'
  <2>0. failed \in BOOLEAN /\ 0 \in Nat /\ \A n \in 1 .. 255 : n \in Nat
    BY DEF V!TypeOK
  <2>1. failed' \in BOOLEAN /\ code' \in Nat
    BY <1>1, <1>3, <2>0
  <2>2. at' \in {"idle", "flags", "setup", "ready", "status", "exited"}
    BY <1>3
  <2> QED
    BY <1>1, <2>1, <2>2 DEF V!TypeOK, V!project
<1>5. V!SameView' /\ V!InOrder' /\ V!Tells'
  BY <1>1, <1>3 DEF V!SameView, V!InOrder, V!Beyond, V!Tells
<1>6. V!StatusForetells' /\ V!SkippedWasDone'
  BY <1>1 DEF V!StatusForetells, V!SkippedWasDone
<1> QED
  BY <1>2, <1>4, <1>5, <1>6

\* A step that only ends the invocation, well or not.
LEMMA EndInd ==
  ASSUME V!InvocationInd, NEW n \in Nat, NEW bad \in BOOLEAN,
         at' = "exited", code' = n, failed' = bad,
         bad => n \in 1 .. 255, ~bad => n = 0,
         UNCHANGED <<flags, select, faults, todo, warned, acted>>, src' = src, tree' = tree,
         effect' = effect, undo' = undo, halted' = halted, touched' \in BOOLEAN, touched' => at \in V!Beyond,
         at \notin {"exited", "extract", "discard"}, told' = told
  PROVE  V!InvocationInd'
<1> USE DEF V!InvocationInd
<1>1. V!TypeOK'
  BY DEF V!TypeOK
<1>2. V!SumBacked'
  BY DEF V!SumBacked, V!Backed, V!Aside, V!Made
<1>3. V!ToldTrue'
  BY DEF V!ToldTrue, V!UpToDate, V!Fresh
<1>4. V!StatusForetells' /\ V!SkippedWasDone'
  BY DEF V!StatusForetells, V!SkippedWasDone
<1>5. V!Asked' = V!Asked
  BY DEF V!Asked, V!EarlyOne, V!Has
<1>6. V!SameView' /\ V!InOrder'
  BY <1>5 DEF V!SameView, V!InOrder, V!Beyond
<1>7. V!Tells'
  BY <1>6 DEF V!Tells, V!InOrder, V!Asked
<1> QED
  BY <1>1, <1>2, <1>3, <1>4, <1>6, <1>7

LEMMA ListInd ==
  ASSUME V!InvocationInd, V!List
  PROVE  V!InvocationInd'
<1>1. /\ at = "ready" /\ UNCHANGED <<V!project, flags, select, faults, todo, warned, acted, told, touched>>
      /\ ~touched
  BY DEF V!List, V!InvocationInd, V!InOrder, V!Beyond
<1>2. PICK n \in {0, 1} : at' = "exited" /\ code' = n /\ failed' = (n = 1)
  BY DEF V!List, V!Exit
<1> QED
  <2>1. n \in Nat /\ (n = 1) \in BOOLEAN /\ (n = 1 => n \in 1 .. 255) /\ (~(n = 1) => n = 0)
    BY <1>2
  <2>2. touched' \in BOOLEAN /\ src' = src /\ tree' = tree /\ effect' = effect /\ undo' = undo /\ halted' = halted
    BY <1>1 DEF V!project, V!InvocationInd, V!TypeOK
  <2> QED
    BY <1>1, <1>2, <2>1, <2>2, EndInd

LEMMA RunEndsInd ==
  ASSUME V!InvocationInd, V!RunEnds
  PROVE  V!InvocationInd'
<1>1. /\ at \in {"run", "prepared"} /\ at' = "exited" /\ code' = 0
      /\ UNCHANGED <<V!project, flags, select, faults, todo, warned, acted, told, touched, failed>>
  BY DEF V!RunEnds, V!Exit
<1>2. /\ failed' = FALSE /\ touched' \in BOOLEAN /\ src' = src /\ tree' = tree /\ effect' = effect
      /\ undo' = undo /\ halted' = halted /\ at \in V!Beyond
  BY <1>1 DEF V!InvocationInd, V!InOrder, V!TypeOK, V!project, V!Beyond
<1> QED
  BY <1>1, <1>2, EndInd

LEMMA MergeInd ==
  ASSUME V!InvocationInd, V!MergeCliVars
  PROVE  V!InvocationInd'
<1> USE DEF V!InvocationInd
<1>1. /\ at = "ready" /\ at' = V!Mode /\ V!Mode # "list" /\ view' = V!MergedView /\ todo' = V!Tasks
      /\ UNCHANGED <<V!project, flags, select, faults, touched, failed, warned, code, acted, told>>
      /\ acted = {} /\ ~touched /\ ~failed /\ code = 0 /\ "old" \notin faults
  BY DEF V!MergeCliVars, V!InOrder, V!Beyond, V!SameView
<1>2. V!Mode \in {"status", "import", "export", "run"}
  BY <1>1 DEF V!Mode
<1>3. V!TypeOK'
  BY <1>1, <1>2 DEF V!TypeOK, V!project, V!Beyond
<1>4. V!SumBacked' /\ V!ToldTrue'
  BY <1>1, <1>2, ProjectStays
<1>5. V!SameView'
  BY <1>1 DEF V!SameView, V!MergedView, V!DotEnv
<1>6. at' \in V!Beyond => flags' \cap {"list", "list_all", "status"} = {}
  BY <1>1, <1>2, ModeAsked DEF V!Beyond
<1>7. V!InOrder' /\ V!Tells'
  BY <1>1, <1>2, <1>6 DEF V!InOrder, V!Asked, V!Beyond, V!Tells
<1>8. V!StatusForetells' /\ V!SkippedWasDone'
  BY <1>1 DEF V!StatusForetells, V!SkippedWasDone
<1> QED
  BY <1>3, <1>4, <1>5, <1>7, <1>8

LEMMA StatusInd ==
  ASSUME V!InvocationInd, V!Status
  PROVE  V!InvocationInd'
<1> USE DEF V!InvocationInd
<1>1. /\ at = "status" /\ at' = "exited"
      /\ UNCHANGED <<V!project, flags, select, faults, view, todo, touched, warned, acted>>
      /\ acted = {} /\ ~touched /\ touched \in BOOLEAN /\ failed = FALSE
  BY DEF V!Status, V!Exit, V!InOrder, V!Beyond, V!TypeOK
<1>2. CASE code' = 1 /\ failed' = TRUE /\ told' = told
  <2>1. src' = src /\ tree' = tree /\ effect' = effect /\ undo' = undo /\ halted' = halted
    BY <1>1 DEF V!project
  <2>2. 1 \in Nat /\ TRUE \in BOOLEAN /\ 1 \in 1 .. 255 /\ touched' \in BOOLEAN /\ ~touched'
    BY <1>1
  <2> QED
    BY <1>1, <1>2, <2>1, <2>2, EndInd
<1>3. CASE /\ code' = 0 /\ failed' = failed
           /\ told' = {[now |-> [t \in {"gen", "plain"} |-> V!UpToDate(t, view)], sel |-> select]}
  <2>2. V!TypeOK'
    BY <1>1, <1>3 DEF V!TypeOK, V!project
  <2>3. V!SumBacked'
    BY <1>1 DEF V!SumBacked, V!Backed, V!Aside, V!Made, V!project
  <2>4. V!ToldTrue'
    <3>1. view = [vars |-> select, env |-> "b"]
      BY <1>1 DEF V!SameView
    <3>2. \A t, v : V!UpToDate(t, v)' = V!UpToDate(t, v)
      BY <1>1 DEF V!UpToDate, V!Fresh, V!project
    <3> QED
      BY <1>1, <1>3, <3>1, <3>2 DEF V!ToldTrue
  <2>5. V!SameView' /\ V!InOrder' /\ V!Tells' /\ V!StatusForetells' /\ V!SkippedWasDone'
    BY <1>1, <1>3 DEF V!SameView, V!InOrder, V!Beyond, V!Tells, V!StatusForetells, V!SkippedWasDone
  <2> QED
    BY <2>2, <2>3, <2>4, <2>5
<1> QED
  BY <1>2, <1>3 DEF V!Status, V!Exit

\* An edit of a source: the contents stay typed.
LEMMA EditTyped ==
  ASSUME src \in [V!Files -> {0, 1}], \E f \in Edited : src' = [src EXCEPT ![f] = 1 - @]
  PROVE  src' \in [V!Files -> {0, 1}]
<1>1. PICK f \in Edited : src' = [src EXCEPT ![f] = 1 - @]
  OBVIOUS
<1>2. \A g \in V!Files : 1 - src[g] \in {0, 1}
  OBVIOUS
<1> QED
  BY <1>1, <1>2

\* Setups come before a check, a collection or the end, or fail.
LEMMA RunSetupsInd ==
  ASSUME V!InvocationInd, V!RunSetups
  PROVE  V!InvocationInd'
<1> USE DEF V!InvocationInd
<1>1. /\ at \in {"run", "export", "setups"} /\ touched' = TRUE
      /\ UNCHANGED <<tree, zip, effect, undo, halted, flags, select, faults, view, todo, warned, acted>>
  BY DEF V!RunSetups
<1>2. /\ failed = FALSE /\ code = 0 /\ V!Asked /\ "old" \notin faults /\ at \in V!Beyond
      /\ acted # {} => at = "run"
      /\ at = "run" => view = [vars |-> select, env |-> "b"]
  BY <1>1 DEF V!InOrder, V!Beyond, V!SameView, V!TypeOK
<1>3. CASE src' = src /\ told' = told /\ failed' = TRUE /\ \E n \in {1, 201} : at' = "exited" /\ code' = n
  <2>1. PICK n \in {1, 201} : at' = "exited" /\ code' = n
    BY <1>3
  <2>2. n \in Nat /\ n \in 1 .. 255
    OBVIOUS
  <2> QED
    BY <1>1, <1>2, <1>3, <2>1, <2>2, EndInd
<1>4. CASE /\ at' = (IF at = "run" THEN "check" ELSE IF at = "export" THEN "collect" ELSE "prepared")
           /\ UNCHANGED <<code, failed>>
           /\ \/ src' = src /\ told' = told
              \/ (\E f \in Edited : src' = [src EXCEPT ![f] = 1 - @]) /\ told' = {}
  <2>1. src' \in [V!Files -> {0, 1}]
    BY <1>4, EditTyped DEF V!TypeOK
  <2>2. V!TypeOK'
    BY <1>1, <1>4, <2>1 DEF V!TypeOK, V!Beyond
  <2>3. V!SumBacked'
    BY <1>1, <1>4 DEF V!SumBacked, V!Backed, V!Aside, V!Made
  <2>4. V!ToldTrue'
    BY <1>1, <1>4 DEF V!ToldTrue, V!UpToDate, V!Fresh
  <2>5. V!Asked' = V!Asked
    BY <1>1 DEF V!Asked, V!EarlyOne, V!Has
  <2>6. V!SameView' /\ V!InOrder' /\ V!Tells'
    BY <1>1, <1>2, <1>4, <2>5 DEF V!SameView, V!InOrder, V!Beyond, V!Tells
  <2>7. V!StatusForetells' /\ V!SkippedWasDone'
    BY <1>1, <1>4 DEF V!StatusForetells, V!SkippedWasDone
  <2> QED
    BY <2>2, <2>3, <2>4, <2>6, <2>7
<1> QED
  BY <1>3, <1>4 DEF V!RunSetups, V!Exit

\* What follows the run of one task, if the present sums of the project are right.
LEMMA RunTaskInd ==
  ASSUME V!InvocationInd, V!RunTask
  PROVE  V!InvocationInd'
<1> USE DEF V!InvocationInd
<1> DEFINE t == Head(todo)
           fate == [t |-> t, skipped |-> V!UpToDate(t, view), sel |-> select,
                    done |-> t = "gen" \/ <<V!Sel(view), src[V!Sel(view)]>> \in effect \cup halted]
<1>1. /\ at = "check" /\ todo # <<>> /\ acted' = {fate}
      /\ UNCHANGED <<src, zip, undo, halted, flags, select, faults, view, warned, touched>>
  BY DEF V!RunTask
<1>2. /\ t \in {"gen", "plain"} /\ Tail(todo) \in {V!Tasks, <<"plain">>, <<>>}
  <2>1. todo = <<"gen", "plain">> \/ todo = <<"plain">>
    BY <1>1 DEF V!TypeOK, V!Tasks
  <2>2. Head(<<"gen", "plain">>) = "gen" /\ Tail(<<"gen", "plain">>) = <<"plain">>
    OBVIOUS
  <2>3. Head(<<"plain">>) = "plain" /\ Tail(<<"plain">>) = <<>>
    OBVIOUS
  <2> QED
    BY <2>1, <2>2, <2>3
<1>3. /\ view = [vars |-> select, env |-> "b"] /\ "old" \notin faults
      /\ ~failed /\ code = 0 /\ V!Asked
  BY <1>1 DEF V!SameView, V!InOrder, V!Beyond
<1>4. V!Sum(t) \in V!Kept /\ (V!Sum(t) = "sum_plain" <=> t = "plain") /\ V!Sum(t) # "out" /\ "out" \in V!Kept
  BY <1>2 DEF V!Sum, V!Kept
<1>5. V!SameView'
  BY <1>1, <1>3 DEF V!SameView
<1>6. V!Asked' = V!Asked
  BY <1>1 DEF V!Asked, V!EarlyOne, V!Has
<1>7. V!SkippedWasDone'
  <2>1. ASSUME V!UpToDate(t, view), t = "plain"
        PROVE  <<V!Sel(view), src[V!Sel(view)]>> \in effect \cup halted \/ warned
    <3>1. tree["sum_plain"] = <<V!Sel(view), src[V!Sel(view)], V!Gone>>
      BY <2>1 DEF V!UpToDate, V!Fresh, V!Sum
    <3>2. tree["sum_plain"] # V!Gone
      BY <3>1 DEF V!Gone
    <3>3. V!Made(tree["sum_plain"]) = <<V!Sel(view), src[V!Sel(view)]>>
      BY <3>1 DEF V!Made
    <3> QED
      BY <1>1, <3>2, <3>3 DEF V!SumBacked, V!Backed
  <2> QED
    <3> SUFFICES ASSUME V!UpToDate(t, view) PROVE fate.done \/ warned
      BY <1>1 DEF V!SkippedWasDone
    <3> QED
      BY <1>2, <2>1
<1>8. CASE V!UpToDate(t, view) /\ todo' = Tail(todo) /\ at' = "run" /\ UNCHANGED <<tree, effect, code, failed, told>>
  <2>1. V!TypeOK' /\ V!SumBacked' /\ V!ToldTrue'
    <3>1. V!TypeOK'
      BY <1>1, <1>2, <1>8 DEF V!TypeOK, V!Beyond
    <3>2. V!SumBacked'
      BY <1>1, <1>8 DEF V!SumBacked, V!Backed, V!Aside, V!Made
    <3>3. V!ToldTrue'
      BY <1>1, <1>8 DEF V!ToldTrue, V!UpToDate, V!Fresh
    <3> QED
      BY <3>1, <3>2, <3>3
  <2>2. V!InOrder' /\ V!Tells'
    BY <1>1, <1>3, <1>6, <1>8 DEF V!InOrder, V!Beyond, V!Tells
  <2>3. V!StatusForetells'
    <3>1. \A said \in told : said.sel = select => said.now[t]
      BY <1>2, <1>3, <1>8 DEF V!ToldTrue
    <3> QED
      BY <1>1, <1>8, <3>1 DEF V!StatusForetells
  <2> QED
    BY <1>5, <1>7, <2>1, <2>2, <2>3
<1>9. CASE ~V!UpToDate(t, view) /\ V!Build(t, view) /\ todo' = Tail(todo) /\ at' = "run" /\ told' = {}
           /\ UNCHANGED <<code, failed>>
  <2> DEFINE cause == <<V!Sel(view), src[V!Sel(view)]>>
             record == <<V!Sel(view), src[V!Sel(view)], IF t = "gen" THEN cause ELSE V!Gone>>
  <2>1. /\ tree' = [tree EXCEPT !["out"] = IF t = "gen" THEN cause ELSE @, ![V!Sum(t)] = record]
        /\ effect' = IF t = "plain" THEN effect \cup {cause} ELSE effect
    BY <1>9 DEF V!Build
  <2>2. tree' = [f \in V!Kept |-> tree'[f]]
    BY <2>1 DEF V!TypeOK
  <2>3. V!TypeOK'
    BY <1>1, <1>2, <1>9, <2>2 DEF V!TypeOK, V!Beyond
  <2>4. V!SumBacked'
    <3>1. CASE t = "plain"
      <4>1. tree'["sum_plain"] = record
        BY <1>4, <2>1, <3>1 DEF V!TypeOK, V!Kept
      <4>2. V!Made(record) = cause
        BY DEF V!Made
      <4>3. V!Made(tree["sum_plain"])' \in effect'
        <5>1. effect' = effect \cup {cause}
          BY <2>1, <3>1
        <5>2. V!Made(tree["sum_plain"])' = V!Made(record)
          BY <4>1 DEF V!Made
        <5> HIDE DEF cause, record
        <5> QED
          BY <5>1, <5>2, <4>2
      <4>4. effect \subseteq effect'
        BY <2>1, <3>1
      <4> QED
        BY <1>1, <1>9, <4>3, <4>4 DEF V!SumBacked, V!Backed, V!Aside, V!Made
    <3>2. CASE t = "gen"
      <4>1. tree'["sum_plain"] = tree["sum_plain"] /\ effect' = effect
        BY <1>4, <2>1, <3>2 DEF V!TypeOK, V!Kept
      <4> QED
        BY <1>1, <1>9, <4>1 DEF V!SumBacked, V!Backed, V!Aside, V!Made
    <3> QED
      BY <1>2, <3>1, <3>2
  <2>5. V!InOrder' /\ V!Tells' /\ V!ToldTrue' /\ V!StatusForetells'
    BY <1>1, <1>3, <1>6, <1>9 DEF V!InOrder, V!Beyond, V!Tells, V!ToldTrue, V!StatusForetells
  <2> QED
    BY <1>5, <1>7, <2>3, <2>4, <2>5
<1>10. CASE /\ ~V!UpToDate(t, view) /\ tree' = [tree EXCEPT ![V!Sum(t)] = V!Gone]
            /\ told' = {} /\ failed' = TRUE
            /\ \E n \in {1, 3} : V!Exit(V!Clamp(IF V!Has("exit_code") THEN n ELSE 201))
            /\ UNCHANGED <<effect, todo>>
  <2>1. at' = "exited" /\ code' \in 1 .. 255 /\ code' \in Nat
    BY <1>10 DEF V!Exit, V!Clamp
  <2>2. tree' = [f \in V!Kept |-> tree'[f]]
    BY <1>10 DEF V!TypeOK
  <2>3. tree'["sum_plain"] \in {tree["sum_plain"], V!Gone}
    BY <1>4, <1>10 DEF V!TypeOK, V!Kept
  <2>4. V!TypeOK'
    BY <1>1, <1>10, <2>1, <2>2 DEF V!TypeOK
  <2>5. V!SumBacked'
    BY <1>1, <1>10, <2>1, <2>3 DEF V!SumBacked, V!Backed, V!Aside, V!Made
  <2>6. V!InOrder' /\ V!ToldTrue' /\ V!StatusForetells'
    BY <1>1, <1>3, <1>6, <1>10, <2>1 DEF V!InOrder, V!Beyond, V!ToldTrue, V!StatusForetells
  <2>7. V!Tells'
    BY <1>3, <1>6, <1>10, <2>1 DEF V!Tells, V!Asked
  <2> QED
    BY <1>5, <1>7, <2>4, <2>5, <2>6, <2>7
<1> QED
  BY <1>8, <1>9, <1>10 DEF V!RunTask

LEMMA CollectInd ==
  ASSUME V!InvocationInd, V!Collect
  PROVE  V!InvocationInd'
<1>1. /\ at = "collect"
      /\ UNCHANGED <<V!project, flags, select, faults, view, todo, warned, acted, told, touched>>
      /\ \/ at' = "exited" /\ code' = 0 /\ failed' = failed
         \/ at' = "exited" /\ code' = 1 /\ failed' = TRUE
         \/ at' = "archive" /\ code' = code /\ failed' = failed
  BY DEF V!Collect, V!Exit
<1>2. failed = FALSE /\ code = 0 /\ acted = {} /\ V!Asked /\ "old" \notin faults /\ touched \in BOOLEAN
  BY <1>1 DEF V!InvocationInd, V!InOrder, V!Beyond, V!SameView, V!TypeOK
<1>3. CASE at' = "exited"
  <2>1. /\ at \in V!Beyond /\ src' = src /\ tree' = tree /\ effect' = effect
        /\ undo' = undo /\ halted' = halted
    BY <1>1, <1>2 DEF V!Beyond, V!project
  <2>2. 0 \in Nat /\ 1 \in Nat /\ 1 \in 1 .. 255
    OBVIOUS
  <2>3. CASE code' = 0 /\ failed' = failed
    BY <1>1, <1>2, <1>3, <2>1, <2>2, <2>3, EndInd
  <2>4. CASE code' = 1 /\ failed' = TRUE
    BY <1>1, <1>2, <1>3, <2>1, <2>2, <2>4, EndInd
  <2> QED
    BY <1>1, <1>3, <2>3, <2>4
<1>4. CASE at' = "archive" /\ code' = code /\ failed' = failed
  <2> USE DEF V!InvocationInd
  <2>1. V!Asked' = V!Asked
    BY <1>1 DEF V!Asked, V!EarlyOne, V!Has
  <2>2. V!SumBacked' /\ V!ToldTrue'
    BY <1>1, <1>4, ProjectStays
  <2>3. V!TypeOK'
    BY <1>1, <1>4 DEF V!TypeOK, V!project, V!Beyond
  <2>4. V!SameView' /\ V!InOrder' /\ V!Tells'
    BY <1>1, <1>2, <1>4, <2>1 DEF V!SameView, V!InOrder, V!Tells, V!Beyond
  <2>5. V!StatusForetells' /\ V!SkippedWasDone'
    BY <1>1, <1>2 DEF V!StatusForetells, V!SkippedWasDone
  <2> QED
    BY <2>2, <2>3, <2>4, <2>5
<1> QED
  BY <1>1, <1>3, <1>4

LEMMA ArchiveInd ==
  ASSUME V!InvocationInd, V!WriteArchive
  PROVE  V!InvocationInd'
<1>1. /\ at = "archive" /\ at' = "exited" /\ src' = src /\ tree' = tree /\ effect' = effect
      /\ UNCHANGED <<undo, halted, flags, select, faults, todo, warned, acted, told, touched>>
      /\ \/ failed' = TRUE /\ code' = 1
         \/ failed' = failed /\ code' = 0
  BY DEF V!WriteArchive, V!Exit
<1>2. failed = FALSE /\ touched \in BOOLEAN /\ at \in V!Beyond
  BY <1>1 DEF V!InvocationInd, V!InOrder, V!Beyond, V!TypeOK
<1>3. CASE failed' = TRUE /\ code' = 1
  <2>1. code' \in Nat /\ code' \in 1 .. 255
    BY <1>3
  <2> QED
    BY <1>1, <1>2, <1>3, <2>1, EndInd
<1>4. CASE failed' = failed /\ code' = 0
  BY <1>1, <1>2, <1>4, EndInd
<1> QED
  BY <1>1, <1>3, <1>4

\* A journal keeps the originals it has.
LEMMA JournalKeeps ==
  ASSUME NEW paths, "sum_plain" \in DOMAIN V!Journal(paths)
  PROVE  "sum_plain" \in paths /\ V!Journal(paths)["sum_plain"] = undo["sum_plain"]
         /\ undo["sum_plain"].orig # V!Gone
BY DEF V!Journal

\* A kill leaves the checksums an import has brought, and its journal.
LEMMA KillInd ==
  ASSUME V!InvocationInd, V!Kill
  PROVE  V!InvocationInd'
<1> USE DEF V!InvocationInd
<1>1. /\ at # "exited" /\ at' = "exited" /\ code' = 137 /\ failed' = TRUE /\ undo' = V!Journal(DOMAIN undo)
      /\ UNCHANGED <<src, tree, effect, flags, select, faults, view, todo, touched, warned, acted, told>>
      /\ halted' = IF at \in {"extract", "discard"} /\ tree["sum_plain"] # V!Gone
                   THEN halted \cup {V!Made(tree["sum_plain"])} ELSE halted
  BY DEF V!Kill, V!Exit
<1>2. V!TypeOK'
  BY <1>1 DEF V!TypeOK
<1>3. V!SumBacked'
  <2>1. halted \subseteq halted' /\ (at \in {"extract", "discard"} /\ tree["sum_plain"] # V!Gone =>
                                      V!Made(tree["sum_plain"]) \in halted')
    BY <1>1
  <2>2. tree["sum_plain"] # V!Gone => V!Made(tree["sum_plain"]) \in effect \cup halted' \/ warned
    BY <2>1 DEF V!SumBacked, V!Backed
  <2>3. ASSUME "sum_plain" \in DOMAIN undo', undo'["sum_plain"].orig # V!Gone
        PROVE  V!Made(undo'["sum_plain"].orig) \in effect \cup halted' \/ warned
    <3>1. "sum_plain" \in DOMAIN undo /\ undo'["sum_plain"] = undo["sum_plain"]
      BY <1>1, <2>3, JournalKeeps
    <3>2. V!Made(undo["sum_plain"].orig) \in effect \cup halted \/ warned
      BY <2>3, <3>1 DEF V!SumBacked, V!Backed, V!Aside
    <3> QED
      BY <2>1, <3>1, <3>2
  <2> QED
    BY <1>1, <2>2, <2>3 DEF V!SumBacked, V!Backed, V!Aside, V!Made
<1>4. V!ToldTrue'
  BY <1>1 DEF V!ToldTrue, V!UpToDate, V!Fresh
<1>5. V!Asked' = V!Asked
  BY <1>1 DEF V!Asked, V!EarlyOne, V!Has
<1>6. V!SameView' /\ V!InOrder'
  BY <1>1, <1>5 DEF V!SameView, V!InOrder, V!Beyond
<1>7. V!Tells'
  BY <1>1, <1>5, <1>6 DEF V!Tells, V!InOrder, V!Asked
<1>8. V!StatusForetells' /\ V!SkippedWasDone'
  BY <1>1 DEF V!StatusForetells, V!SkippedWasDone
<1> QED
  BY <1>2, <1>3, <1>4, <1>6, <1>7, <1>8

\* A step of an import that goes on: what --status said is forgotten.
LEMMA ImportGoesOn ==
  ASSUME V!InvocationInd, at \in {"import", "extract", "discard"}, at' \in {"extract", "discard", "setups"},
         UNCHANGED <<flags, select, faults, view, todo, failed, warned, code, acted>>,
         src' = src, tree' = [f \in V!Kept |-> tree'[f]], touched' \in BOOLEAN, V!SumBacked', V!ToldTrue'
  PROVE  V!InvocationInd'
<1> USE DEF V!InvocationInd
<1>1. ~failed /\ code = 0 /\ acted = {} /\ V!Asked /\ "old" \notin faults
  BY DEF V!InOrder, V!Beyond, V!SameView
<1>2. V!Asked' = V!Asked
  BY DEF V!Asked, V!EarlyOne, V!Has
<1>3. V!TypeOK'
  BY DEF V!TypeOK, V!Beyond
<1>4. V!SameView' /\ V!InOrder' /\ V!Tells'
  BY <1>1, <1>2 DEF V!SameView, V!InOrder, V!Tells, V!Beyond
<1>5. V!StatusForetells' /\ V!SkippedWasDone'
  BY <1>1 DEF V!StatusForetells, V!SkippedWasDone
<1> QED
  BY <1>3, <1>4, <1>5

LEMMA ImportBeginsInd ==
  ASSUME V!InvocationInd, V!ImportBegins
  PROVE  V!InvocationInd'
<1>1. /\ at = "import" /\ at' \in {"extract", "discard"} /\ undo' = <<>> /\ told' = {}
      /\ UNCHANGED <<src, zip, effect, halted, flags, select, faults, view, todo, touched, failed, warned,
                     code, acted>>
  BY DEF V!ImportBegins
<1>2. PICK back \in SUBSET V!Recoverable :
        tree' = [f \in V!Kept |-> IF f \in back THEN undo[f].orig ELSE tree[f]]
  BY DEF V!ImportBegins
<1>3. tree' = [f \in V!Kept |-> tree'[f]] /\ touched' \in BOOLEAN
  BY <1>1, <1>2 DEF V!InvocationInd, V!TypeOK
<1>4. V!SumBacked'
  <2>1. /\ tree["sum_plain"] # V!Gone => V!Backed(tree["sum_plain"])
        /\ V!Aside => V!Backed(undo["sum_plain"].orig)
    BY <1>1 DEF V!InvocationInd, V!SumBacked
  <2>2. \/ tree'["sum_plain"] = tree["sum_plain"]
        \/ V!Aside /\ tree'["sum_plain"] = undo["sum_plain"].orig
    BY <1>2 DEF V!Recoverable, V!Aside, V!Kept
  <2>3. DOMAIN undo' = {}
    BY <1>1
  <2> QED
    BY <1>1, <2>1, <2>2, <2>3 DEF V!SumBacked, V!Aside, V!Backed, V!Made
<1>5. V!ToldTrue'
  BY <1>1 DEF V!ToldTrue
<1> QED
  BY <1>1, <1>3, <1>4, <1>5, ImportGoesOn

LEMMA ExtractInd ==
  ASSUME V!InvocationInd, V!Extract
  PROVE  V!InvocationInd'
<1>1. PICK f \in DOMAIN zip.has \ DOMAIN undo :
        /\ tree' = [tree EXCEPT ![f] = zip.has[f]]
        /\ undo' = [g \in DOMAIN undo \cup {f} |->
                      IF g = f THEN [orig |-> tree[f], wrote |-> zip.has[f]] ELSE undo[g]]
  BY DEF V!Extract
<1>2. /\ at = "extract" /\ touched' = TRUE /\ told' = {} /\ src' = src /\ zip' = zip /\ effect' = effect
      /\ UNCHANGED <<halted, at, flags, select, faults, view, todo, failed, warned, code, acted>>
  BY DEF V!Extract
<1>3. tree = [g \in V!Kept |-> tree[g]]
  BY DEF V!InvocationInd, V!TypeOK
<1>4. tree' = [g \in V!Kept |-> tree'[g]]
  BY <1>1, <1>3
<1>5. V!SumBacked'
  <2>1. V!SumBacked
    BY DEF V!InvocationInd
  <2>2. "sum_plain" \in DOMAIN tree
    BY <1>3 DEF V!Kept
  <2>3. CASE f = "sum_plain"
    <3>1. tree'["sum_plain"] = zip.has["sum_plain"]
      BY <1>1, <2>2, <2>3
    <3>2. "sum_plain" \in DOMAIN undo' /\ undo'["sum_plain"].orig = tree["sum_plain"]
      BY <1>1, <2>3
    <3>3. V!Imported'
      BY <1>1, <1>2, <2>3, <3>1, <3>2 DEF V!Imported
    <3>4. tree["sum_plain"] # V!Gone => V!Backed(tree["sum_plain"])
      BY <1>1, <1>2, <2>1, <2>3 DEF V!SumBacked, V!Imported
    <3> QED
      BY <1>2, <3>2, <3>3, <3>4 DEF V!SumBacked, V!Aside, V!Backed, V!Made
  <2>4. CASE f # "sum_plain"
    <3>1. /\ tree'["sum_plain"] = tree["sum_plain"]
          /\ "sum_plain" \in DOMAIN undo' <=> "sum_plain" \in DOMAIN undo
          /\ "sum_plain" \in DOMAIN undo => undo'["sum_plain"] = undo["sum_plain"]
      BY <1>1, <2>2, <2>4
    <3> QED
      BY <1>2, <2>1, <3>1 DEF V!SumBacked, V!Aside, V!Backed, V!Made, V!Imported
  <2> QED
    BY <2>3, <2>4
<1>6. V!ToldTrue'
  BY <1>2 DEF V!ToldTrue
<1> QED
  BY <1>2, <1>4, <1>5, <1>6, ImportGoesOn

LEMMA TakeBackInd ==
  ASSUME V!InvocationInd, V!TakeBack
  PROVE  V!InvocationInd'
<1>1. /\ at = "extract" /\ at' = "discard" /\ told' = {} /\ src' = src /\ effect' = effect
      /\ UNCHANGED <<halted, flags, select, faults, view, todo, touched, failed, warned, code, acted>>
  BY DEF V!TakeBack
<1>2. tree' = [f \in V!Kept |-> tree'[f]]
  BY DEF V!TakeBack
<1>3. undo' = <<>> \/ \E paths \in SUBSET DOMAIN undo : undo' = V!Journal(paths)
  BY DEF V!TakeBack
<1>4. ASSUME "sum_plain" \in DOMAIN undo', undo'["sum_plain"].orig # V!Gone
      PROVE  V!Made(undo'["sum_plain"].orig) \in effect \cup halted \/ warned
  <2>1. PICK paths \in SUBSET DOMAIN undo : undo' = V!Journal(paths)
    BY <1>3, <1>4
  <2>2. "sum_plain" \in DOMAIN undo /\ undo'["sum_plain"] = undo["sum_plain"]
    BY <1>4, <2>1, JournalKeeps
  <2> QED
    BY <1>4, <2>2 DEF V!InvocationInd, V!SumBacked, V!Backed, V!Aside
<1>5. V!SumBacked' /\ V!ToldTrue'
  BY <1>1, <1>4 DEF V!SumBacked, V!Backed, V!Aside, V!Made, V!ToldTrue
<1>6. touched' \in BOOLEAN
  BY <1>1 DEF V!InvocationInd, V!TypeOK
<1> QED
  BY <1>1, <1>2, <1>5, <1>6, ImportGoesOn

LEMMA ImportKeptInd ==
  ASSUME V!InvocationInd, V!ImportKept
  PROVE  V!InvocationInd'
<1>1. /\ at = "extract" /\ at' = "setups" /\ src' = src /\ tree' = tree /\ told' = told /\ undo' = <<>>
      /\ UNCHANGED <<halted, flags, select, faults, view, todo, touched, failed, warned, code, acted>>
      /\ effect' = IF "sum_plain" \in DOMAIN zip.has
                   THEN effect \cup {V!Made(zip.has["sum_plain"])} ELSE effect
  BY DEF V!ImportKept
<1>2. tree' = [f \in V!Kept |-> tree'[f]] /\ touched' \in BOOLEAN
  BY <1>1 DEF V!InvocationInd, V!TypeOK
<1>3. V!SumBacked'
  <2>1. tree["sum_plain"] # V!Gone => V!Backed(tree["sum_plain"]) \/ V!Imported
    BY <1>1 DEF V!InvocationInd, V!SumBacked
  <2>2. V!Imported => V!Made(tree["sum_plain"]) \in effect'
    BY <1>1 DEF V!Imported
  <2>3. V!Backed(tree["sum_plain"]) => V!Made(tree["sum_plain"]) \in effect' \cup halted \/ warned
    BY <1>1 DEF V!Backed
  <2>4. V!Made(tree["sum_plain"])' = V!Made(tree["sum_plain"]) /\ DOMAIN undo' = {}
    BY <1>1 DEF V!Made
  <2> QED
    BY <1>1, <2>1, <2>2, <2>3, <2>4 DEF V!SumBacked, V!Backed, V!Aside, V!Made
<1>4. V!ToldTrue'
  BY <1>1 DEF V!InvocationInd, V!ToldTrue, V!UpToDate, V!Fresh
<1> QED
  BY <1>1, <1>2, <1>3, <1>4, ImportGoesOn

LEMMA DiscardInd ==
  ASSUME V!InvocationInd, V!DiscardChecksums
  PROVE  V!InvocationInd'
<1> USE DEF V!InvocationInd
<1>1. /\ at = "discard" /\ at' = "exited" /\ code' = 1 /\ failed' = TRUE /\ told' = {}
      /\ UNCHANGED <<src, zip, effect, halted, flags, select, faults, view, todo, touched, acted>>
      /\ \/ tree' = V!Cleared /\ warned' = warned /\ undo' = V!Journal(DOMAIN undo \cap {"out"})
         \/ warned' = TRUE /\ tree' = tree
  BY DEF V!DiscardChecksums, V!Exit, V!Outputs
<1>2. acted = {} /\ V!Asked
  BY <1>1 DEF V!InOrder, V!Beyond
<1>3. V!Asked' = V!Asked
  BY <1>1 DEF V!Asked, V!EarlyOne, V!Has
<1>4. tree' = [f \in V!Kept |-> tree'[f]]
  BY <1>1 DEF V!TypeOK, V!Cleared
<1>5. \/ tree'["sum_plain"] = V!Gone /\ "sum_plain" \notin DOMAIN undo'
      \/ warned' = TRUE
  <2>1. "sum_plain" \in DOMAIN V!Journal(DOMAIN undo \cap {"out"}) => "sum_plain" \in {"out"}
    BY JournalKeeps
  <2> QED
    BY <1>1, <2>1 DEF V!Cleared, V!TypeOK, V!Kept
<1>6. V!TypeOK'
  BY <1>1, <1>4 DEF V!TypeOK
<1>7. V!SumBacked' /\ V!ToldTrue'
  BY <1>1, <1>5 DEF V!SumBacked, V!Backed, V!Aside, V!ToldTrue
<1>8. V!SameView' /\ V!InOrder'
  BY <1>1, <1>2, <1>3 DEF V!SameView, V!InOrder, V!Beyond
<1>9. V!Tells'
  BY <1>1, <1>2, <1>3 DEF V!Tells, V!Asked
<1>10. V!StatusForetells' /\ V!SkippedWasDone'
  BY <1>1, <1>2 DEF V!StatusForetells, V!SkippedWasDone
<1> QED
  BY <1>6, <1>7, <1>8, <1>9, <1>10

LEMMA EditInd ==
  ASSUME V!InvocationInd, V!Edit
  PROVE  V!InvocationInd'
<1> USE DEF V!InvocationInd
<1>1. /\ told' = {} /\ UNCHANGED <<tree, zip, effect, undo, halted, at, flags, select, faults, view, todo,
                                    touched, failed, warned, code, acted>>
      /\ at \in {"idle", "check", "archive"}
      /\ \E f \in Edited : src' = [src EXCEPT ![f] = 1 - @]
  BY DEF V!Edit, V!process
<1>2. src' \in [V!Files -> {0, 1}]
  BY <1>1, EditTyped DEF V!TypeOK
<1>3. V!Asked' = V!Asked
  BY <1>1 DEF V!Asked, V!EarlyOne, V!Has
<1>4. V!TypeOK'
  BY <1>1, <1>2 DEF V!TypeOK
<1>5. V!SumBacked' /\ V!ToldTrue' /\ V!SameView'
  BY <1>1 DEF V!SumBacked, V!Backed, V!Aside, V!Made, V!ToldTrue, V!SameView
<1>6. V!InOrder' /\ V!Tells'
  BY <1>1, <1>3 DEF V!InOrder, V!Tells, V!Beyond
<1>7. V!StatusForetells' /\ V!SkippedWasDone'
  BY <1>1 DEF V!StatusForetells, V!SkippedWasDone
<1> QED
  BY <1>4, <1>5, <1>6, <1>7

LEMMA CheckoutInd ==
  ASSUME V!InvocationInd, V!Checkout
  PROVE  V!InvocationInd'
<1> USE DEF V!InvocationInd
<1>1. /\ at = "idle" /\ tree' = [f \in V!Kept |-> V!Gone] /\ told' = {} /\ warned' = FALSE
      /\ undo' = <<>> /\ UNCHANGED <<src, at, flags, select, faults, view, todo, touched, failed, code, acted>>
  BY DEF V!Checkout
<1>2. acted = {} /\ ~touched
  BY <1>1 DEF V!InOrder, V!Beyond
<1>3. tree'["sum_plain"] = V!Gone /\ DOMAIN undo' = {} /\ tree' = [f \in V!Kept |-> tree'[f]]
  BY <1>1 DEF V!Kept
<1>4. V!TypeOK'
  BY <1>1, <1>3 DEF V!TypeOK
<1>5. V!SumBacked' /\ V!ToldTrue' /\ V!SameView'
  BY <1>1, <1>3 DEF V!SumBacked, V!Aside, V!ToldTrue, V!SameView, V!Beyond
<1>6. V!InOrder' /\ V!Tells'
  BY <1>1, <1>2 DEF V!InOrder, V!Tells, V!Beyond
<1>7. V!StatusForetells' /\ V!SkippedWasDone'
  BY <1>1, <1>2 DEF V!StatusForetells, V!SkippedWasDone
<1> QED
  BY <1>4, <1>5, <1>6, <1>7

\* The invariant of the invocations is inductive.
LEMMA InvocationInductive ==
  ASSUME V!InvocationInd, [V!Next]_(V!vars)
  PROVE  V!InvocationInd'
<1>1. CASE UNCHANGED V!vars
  <2>1. UNCHANGED <<src, tree, zip, effect, undo, halted, at, flags, select, faults, view, todo, touched, failed,
                    warned, code, told, acted>>
    BY <1>1 DEF V!vars, V!project, V!process
  <2>2. V!Asked' = V!Asked /\ V!EarlyOne' = V!EarlyOne
    BY <2>1 DEF V!Asked, V!EarlyOne, V!Has
  <2>3. V!TypeOK' /\ V!SumBacked' /\ V!SameView'
    BY <2>1 DEF V!InvocationInd, V!TypeOK, V!SumBacked, V!Backed, V!Aside, V!Made, V!Imported, V!SameView
  <2>4. V!ToldTrue'
    BY <2>1 DEF V!InvocationInd, V!ToldTrue, V!UpToDate, V!Fresh
  <2>5. V!InOrder' /\ V!StatusForetells' /\ V!SkippedWasDone' /\ V!Tells'
    BY <2>1, <2>2 DEF V!InvocationInd, V!InOrder, V!StatusForetells, V!SkippedWasDone, V!Tells, V!Has
  <2> QED
    BY <2>3, <2>4, <2>5 DEF V!InvocationInd
<1> QED
  BY <1>1, InvokeInd, ReturnInd, HandleFlagsInd, SetupInd, ListInd, MergeInd, StatusInd,
     RunSetupsInd, RunTaskInd, RunEndsInd, CollectInd, ArchiveInd, KillInd, ImportBeginsInd, ExtractInd, TakeBackInd,
     DiscardInd, ImportKeptInd, EditInd, CheckoutInd DEF V!Next

\* For any invocations, faults, archives and events: a run does with a task what
\* --status said it would, asked with the same variables and nothing changed since, not
\* by the run's own setups either (Executor::setup, merge_cli_vars, status, run_setups).
THEOREM StatusIsRight == V!Spec => []V!StatusForetells
<1>1. V!InvocationInd /\ [V!Next]_(V!vars) => V!InvocationInd'
  BY InvocationInductive
<1>2. V!InvocationInd => V!StatusForetells
  BY DEF V!InvocationInd
<1> QED
  BY <1>1, <1>2, InvocationInit, PTL DEF V!Spec

\* A task without outputs is skipped only where its effect was made or came with an
\* import kept whole, where a killed import had brought that very checksum, or where a
\* failed clean-up was reported (cache_export.rs).
THEOREM SkippedOnlyIfDone == V!Spec => []V!SkippedWasDone
<1>1. V!InvocationInd /\ [V!Next]_(V!vars) => V!InvocationInd'
  BY InvocationInductive
<1>2. V!InvocationInd => V!SkippedWasDone
  BY DEF V!InvocationInd
<1> QED
  BY <1>1, <1>2, InvocationInit, PTL DEF V!Spec

\* Listing and --status run no task and change nothing, and the exit code is 0 exactly
\* where nothing that was asked for went wrong, a kill, a failing setup and a task that
\* cannot be compiled included, but for --update --check (task/src/run.rs).
THEOREM ExitCodesTell == V!Spec => []V!Tells
<1>1. V!InvocationInd /\ [V!Next]_(V!vars) => V!InvocationInd'
  BY InvocationInductive
<1>2. V!InvocationInd => V!Tells
  BY DEF V!InvocationInd
<1> QED
  BY <1>1, <1>2, InvocationInit, PTL DEF V!Spec

-----------------------------------------------------------------------------
(* The process *)

\* --status foretells what a run does, nothing is skipped that was not done, and exit
\* codes tell (task/src/run.rs, cache_export.rs).
THEOREM InvocationsAreTold == Spec => []InvocationsTell
<1> DEFINE Ind == part = "invocation" => V!InvocationInd
<1>1. Init => Ind
  BY InvocationInit DEF Init
<1>2. Ind /\ [Next]_everything => Ind'
  <2> SUFFICES ASSUME [Next]_everything, part' = "invocation", Ind PROVE V!InvocationInd'
    OBVIOUS
  <2>1. part = "invocation"
    BY DEF Next, everything
  <2>2. [V!Next]_(V!vars)
    BY <2>1 DEF Next, everything, ownInvocation, V!vars, V!project, V!process
  <2> QED
    BY <2>1, <2>2, InvocationInductive
<1>3. Ind => InvocationsTell
  BY DEF InvocationsTell, V!InvocationInd
<1> QED
  BY <1>1, <1>2, <1>3, PTL DEF Spec
=============================================================================
