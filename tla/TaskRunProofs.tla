--------------------------- MODULE TaskRunProofs ---------------------------
(***************************************************************************)
(* Proofs about TaskRun, for every set of runs and every bound on edits.   *)
(***************************************************************************)
EXTENDS TaskRun, TLAPS

USE ProcsAssumption, VersionAssumption, UrlAssumption, EnvAssumption

-----------------------------------------------------------------------------
(* Type correctness                                                        *)

\* The initial state is typed: the empty state file, cache and locks of Init.
LEMMA InitTyped == Init => TypeOK /\ StageTyped
<1> SUFFICES ASSUME Init PROVE TypeOK /\ StageTyped
  OBVIOUS
<1>1. TypeOK
  BY DEF Init, TypeOK, Versions, Outputs, Stages, Terminal, Locked, Kinds, Adrift
<1>2. StageTyped
  BY DEF Init, StageTyped, Locked
<1> QED
  BY <1>1, <1>2

Typed == TypeOK /\ StageTyped

\* Releasing a run's lock leaves a lock table.
LEMMA UnlockedTyped ==
  ASSUME NEW p \in Procs, Typed
  PROVE  Unlocked(p) \in [LockNames -> Procs \cup {NoProc}]
BY DEF Unlocked, Typed, TypeOK

\* Every step of the environment and of a run keeps the types, and what a stage has
\* set stays set: the optional values the code unwraps are there when it does.
LEMMA NextTyped == Typed /\ [Next]_vars => Typed'
<1> SUFFICES ASSUME Typed, [Next]_vars PROVE Typed'
  OBVIOUS
<1>0. \A p \in Procs : Unlocked(p) \in [LockNames -> Procs \cup {NoProc}]
  BY UnlockedTyped
<1> USE DEF Typed, TypeOK, StageTyped, disk, locals, Versions, Outputs, Stages, Terminal,
            Locked, Kinds, Adrift, Goto, Finish
<1>1. CASE Edit
  BY <1>1 DEF Edit
<1>2. CASE Clean
  BY <1>2 DEF Clean
<1>3. ASSUME NEW p \in Procs, RunSetup(p) PROVE Typed'
  BY <1>3 DEF RunSetup
<1>4. ASSUME NEW p \in Procs, Finalize(p) PROVE Typed'
  BY <1>4 DEF Finalize
<1>5. ASSUME NEW p \in Procs, AcquireLock(p) PROVE Typed'
  BY <1>5 DEF AcquireLock, LockName, LockNames
<1>6. ASSUME NEW p \in Procs, CheckSources(p) PROVE Typed'
  <2>0. lock' \in [LockNames -> Procs \cup {NoProc}] /\ pc' \in [Procs -> Stages]
    BY <1>6, <1>0 DEF CheckSources
  <2>3. pre' \in [Procs -> Versions \cup {NoVersion}]
    BY <1>6 DEF CheckSources
  <2>1. TypeOK'
    BY <1>6, <2>0, <2>3 DEF CheckSources
  <2>2. StageTyped'
    BY <1>6, <1>0 DEF CheckSources
  <2> QED
    BY <2>1, <2>2
<1>7. ASSUME NEW p \in Procs, Compare(p) PROVE Typed'
  <2>0. lock' \in [LockNames -> Procs \cup {NoProc}] /\ pc' \in [Procs -> Stages]
    BY <1>7, <1>0 DEF Compare
  <2>1. TypeOK'
    BY <1>7, <2>0 DEF Compare
  <2>2. StageTyped'
    BY <1>7 DEF Compare
  <2> QED
    BY <2>1, <2>2
<1>8. ASSUME NEW p \in Procs, Restore(p) PROVE Typed'
  <2>3. LET e == cache[CacheSlot(key[p])]
        IN  CheckMeta(e, key[p]) => e.content \in Outputs /\ e.generates \in Outputs
    BY <1>8 DEF Restore, CheckMeta, CacheSlot, NoEntry, NoVersion
  <2>5. out' \in Outputs /\ outBy' \in Procs \cup {NoProc}
    BY <1>8 DEF Restore
  <2>6. aside' \in [Procs -> Outputs \cup {NoVersion}]
    BY <1>8 DEF Restore
  <2>7. /\ meta' \in [Procs -> Outputs \cup {NoVersion}]
        /\ pulled' \in [Procs -> Outputs \cup {NoVersion}]
    BY <1>8, <2>3 DEF Restore
  <2>1. TypeOK'
    BY <1>8, <2>5, <2>6, <2>7 DEF Restore
  <2>2. StageTyped'
    BY <1>8, <2>3 DEF Restore
  <2> QED
    BY <2>1, <2>2
<1>9. ASSUME NEW p \in Procs, Verify(p) PROVE Typed'
  <2>3. out' \in Outputs /\ outBy' \in Procs \cup {NoProc}
    BY <1>9 DEF Verify, GiveUpRestore, Undone, UndoneBy
  <2>4. lock' \in [LockNames -> Procs \cup {NoProc}] /\ pc' \in [Procs -> Stages]
    BY <1>9, <1>0 DEF Verify, GiveUpRestore
  <2>1. TypeOK'
    BY <1>9, <2>3, <2>4 DEF Verify
  <2>2. StageTyped'
    BY <1>9, <1>0 DEF Verify, GiveUpRestore, Undone, UndoneBy
  <2> QED
    BY <2>1, <2>2
<1>10. ASSUME NEW p \in Procs, Record(p) PROVE Typed'
  <2>3. fp' \in {NoFp} \cup [sources: Versions, generates: Outputs,
                            via: {"run", "force", "restore"}]
    BY <1>10 DEF Record
  <2>4. out' \in Outputs /\ outBy' \in Procs \cup {NoProc}
    BY <1>10 DEF Record, GiveUpRestore, Undone, UndoneBy
  <2>5. lock' \in [LockNames -> Procs \cup {NoProc}] /\ pc' \in [Procs -> Stages]
    BY <1>10, <1>0 DEF Record, GiveUpRestore
  <2>1. TypeOK'
    BY <1>10, <2>3, <2>4, <2>5 DEF Record
  <2>2. StageTyped'
    BY <1>10, <1>0 DEF Record, GiveUpRestore, Undone, UndoneBy
  <2> QED
    BY <2>1, <2>2
<1>11. ASSUME NEW p \in Procs, Commit(p) PROVE Typed'
  <2>3. out' \in Outputs /\ outBy' \in Procs \cup {NoProc} /\ fp' \in {fp, NoFp}
    BY <1>11 DEF Commit, GiveUpRestore, Undone, UndoneBy
  <2>4. lock' \in [LockNames -> Procs \cup {NoProc}] /\ pc' \in [Procs -> Stages]
    BY <1>11, <1>0 DEF Commit, GiveUpRestore
  <2>1. TypeOK'
    BY <1>11, <2>3, <2>4 DEF Commit
  <2>2. StageTyped'
    BY <1>11, <1>0 DEF Commit, GiveUpRestore, Undone, UndoneBy
  <2> QED
    BY <2>1, <2>2
<1>12. ASSUME NEW p \in Procs, RunDeps(p) PROVE Typed'
  <2>0. lock' \in [LockNames -> Procs \cup {NoProc}] /\ pc' \in [Procs -> Stages]
    BY <1>12, <1>0 DEF RunDeps
  <2>1. TypeOK'
    BY <1>12, <2>0 DEF RunDeps
  <2>2. StageTyped'
    BY <1>12, <1>0 DEF RunDeps
  <2> QED
    BY <2>1, <2>2
<1>13. ASSUME NEW p \in Procs, StartCommands(p) PROVE Typed'
  BY <1>13 DEF StartCommands
<1>14. ASSUME NEW p \in Procs, EndCommands(p) PROVE Typed'
  <2>0. lock' \in [LockNames -> Procs \cup {NoProc}] /\ pc' \in [Procs -> Stages]
    BY <1>14, <1>0 DEF EndCommands
  <2>3. fp' \in {fp, NoFp} /\ out' \in Outputs /\ outBy' \in {outBy, NoProc}
    BY <1>14 DEF EndCommands
  <2>1. TypeOK'
    BY <1>14, <2>0, <2>3 DEF EndCommands
  <2>2. StageTyped'
    BY <1>14, <1>0 DEF EndCommands
  <2> QED
    BY <2>1, <2>2
<1>15. ASSUME NEW p \in Procs, PostRunSources(p) PROVE Typed'
  <2>0. /\ lock' \in [LockNames -> Procs \cup {NoProc}] /\ pc' \in [Procs -> Stages]
        /\ fp' \in {fp, NoFp}
    BY <1>15, <1>0 DEF PostRunSources
  <2>3. postS' \in [Procs -> Versions \cup {NoVersion}]
    BY <1>15 DEF PostRunSources
  <2>1. TypeOK'
    BY <1>15, <2>0, <2>3 DEF PostRunSources
  <2>2. StageTyped'
    BY <1>15, <1>0 DEF PostRunSources
  <2> QED
    BY <2>1, <2>2
<1>16. ASSUME NEW p \in Procs, PostRunGenerates(p) PROVE Typed'
  BY <1>16 DEF PostRunGenerates
<1>17. ASSUME NEW p \in Procs, Publish(p) PROVE Typed'
  <2>0. lock' \in [LockNames -> Procs \cup {NoProc}] /\ pc' \in [Procs -> Stages]
    BY <1>17, <1>0 DEF Publish
  <2>3. fp' \in {NoFp} \cup [sources: Versions, generates: Outputs,
                            via: {"run", "force", "restore"}]
    BY <1>17 DEF Publish
  <2>1. TypeOK'
    BY <1>17, <2>0, <2>3 DEF Publish
  <2>2. StageTyped'
    BY <1>17 DEF Publish
  <2> QED
    BY <2>1, <2>2
<1>18. ASSUME NEW p \in Procs, Save(p) PROVE Typed'
  BY <1>18, <1>0 DEF Save, CacheSlot
<1>19. ASSUME NEW p \in Procs, OrphanStops(p) PROVE Typed'
  BY <1>19 DEF OrphanStops
<1>20. ASSUME NEW p \in Procs, Evict(p) PROVE Typed'
  BY <1>20, <1>0 DEF Evict
<1>21. ASSUME NEW p \in Procs, Start(p) PROVE Typed'
  BY <1>21 DEF Start
<1>22. ASSUME NEW p \in Procs, FallBack(p) PROVE Typed'
  BY <1>22 DEF FallBack
<1>23. ASSUME NEW p \in Procs, LockTimeout(p) PROVE Typed'
  BY <1>23 DEF LockTimeout
<1>24. ASSUME NEW p \in Procs, LoseLease(p) PROVE Typed'
  BY <1>24, <1>0 DEF LoseLease
<1>25. ASSUME NEW p \in Procs, Cancel(p) PROVE Typed'
  BY <1>25, <1>0 DEF Cancel, DropGuard
<1>26. ASSUME NEW p \in Procs, Crash(p) PROVE Typed'
  BY <1>26 DEF Crash
<1>27. CASE UNCHANGED vars
  BY <1>27 DEF vars
<1>28. ASSUME NEW p \in Procs, Recover(p) PROVE Typed'
  BY <1>28, <1>0 DEF Recover, CutShort
<1>29. ASSUME NEW p \in Procs, Assemble(p) PROVE Typed'
  <2>3. out' \in Outputs /\ outBy' \in Procs \cup {NoProc}
    BY <1>29 DEF Assemble, GiveUpRestore, Undone, UndoneBy
  <2>4. lock' \in [LockNames -> Procs \cup {NoProc}] /\ pc' \in [Procs -> Stages]
    BY <1>29, <1>0 DEF Assemble, GiveUpRestore, Undone, UndoneBy
  <2>1. TypeOK'
    BY <1>29, <2>3, <2>4 DEF Assemble
  <2>2. StageTyped'
    BY <1>29, <1>0 DEF Assemble, GiveUpRestore, Undone, UndoneBy
  <2> QED
    BY <2>1, <2>2
<1>30. ASSUME NEW p \in Procs, DetachedStops(p) PROVE Typed'
  <2>3. out' \in Outputs /\ outBy' \in Procs \cup {NoProc}
    BY <1>30 DEF DetachedStops, ThreadEnds, Undone, UndoneBy
  <2>4. lock' \in [LockNames -> Procs \cup {NoProc}] /\ pc' \in [Procs -> Stages]
    BY <1>30, <1>0 DEF DetachedStops, ThreadEnds, Undone, UndoneBy
  <2>1. TypeOK'
    BY <1>30, <2>3, <2>4 DEF DetachedStops
  <2>2. StageTyped'
    BY <1>30, <1>0 DEF DetachedStops, ThreadEnds, Undone, UndoneBy
  <2> QED
    BY <2>1, <2>2
<1>31. ASSUME NEW p \in Procs, CancelRestore(p) PROVE Typed'
  <2>3. out' \in Outputs /\ outBy' \in Procs \cup {NoProc}
    BY <1>31 DEF CancelRestore, DropGuard, Undone, UndoneBy
  <2>4. lock' \in [LockNames -> Procs \cup {NoProc}] /\ pc' \in [Procs -> Stages]
    BY <1>31, <1>0 DEF CancelRestore, DropGuard, Undone, UndoneBy
  <2>1. TypeOK'
    BY <1>31, <2>3, <2>4 DEF CancelRestore
  <2>2. StageTyped'
    BY <1>31, <1>0 DEF CancelRestore, DropGuard, Undone, UndoneBy
  <2> QED
    BY <2>1, <2>2
<1>32. ASSUME NEW p \in Procs, CancelAssembly(p) PROVE Typed'
  <2>3. out' \in Outputs /\ outBy' \in Procs \cup {NoProc}
    BY <1>32 DEF CancelAssembly, DropGuard, ThreadEnds, Undone, UndoneBy
  <2>4. lock' \in [LockNames -> Procs \cup {NoProc}] /\ pc' \in [Procs -> Stages]
    BY <1>32, <1>0 DEF CancelAssembly, DropGuard, ThreadEnds, Undone, UndoneBy
  <2>1. TypeOK'
    BY <1>32, <2>3, <2>4 DEF CancelAssembly
  <2>2. StageTyped'
    BY <1>32, <1>0 DEF CancelAssembly, DropGuard, ThreadEnds, Undone, UndoneBy
  <2> QED
    BY <2>1, <2>2
<1> QED
  BY <1>1, <1>2, <1>3, <1>4, <1>5, <1>6, <1>7, <1>8, <1>9, <1>10, <1>11, <1>12, <1>13,
     <1>14, <1>15, <1>16, <1>17, <1>18, <1>19, <1>20, <1>21, <1>22, <1>23, <1>24, <1>25,
     <1>26, <1>27, <1>28, <1>29, <1>30, <1>31, <1>32 DEF Next, Step

\* Type correctness of the specification, for every set of runs: TaskRun's TypeOK.
THEOREM TypeCorrect == Spec => []TypeOK
<1>1. Init => Typed
  BY InitTyped DEF Typed
<1>2. Typed /\ [Next]_vars => Typed'
  BY NextTyped
<1>3. Typed => TypeOK
  BY DEF Typed
<1> QED
  BY <1>1, <1>2, <1>3, PTL DEF Spec

-----------------------------------------------------------------------------
(* Runs exclude each other                                                 *)

\* Two runs under the lock are one: runs that overlap read one source version, so they
\* ask for one lock name.
LEMMA OneHolder ==
  Typed /\ Disciplined /\ LockHeld /\ ReadingOrder => Exclusive
<1> SUFFICES ASSUME Typed, Disciplined, LockHeld, ReadingOrder,
                    NEW p \in Procs, NEW q \in Procs,
                    pc[p] \in Locked \cup Adrift, pc[q] \in Locked \cup Adrift
             PROVE  p = q
  BY DEF Exclusive
<1>1. CASE env.overlap
  <2>1. pc[p] \in Locked /\ pc[q] \in Locked /\ ~env.edits
    BY <1>1 DEF Disciplined, LockHeld
  <2>2. key[p] = src /\ key[q] = src
    BY <2>1 DEF ReadingOrder
  <2>3. LockName(p) = LockName(q)
    BY <1>1, <2>1, <2>2 DEF LockHeld, LockName
  <2>4. lock[LockName(p)] = p /\ lock[LockName(q)] = q
    BY <1>1, <2>1 DEF LockHeld
  <2> QED
    BY <2>3, <2>4
<1>2. CASE ~env.overlap
  BY <1>2 DEF LockHeld, InFlight, Locked, Terminal, Adrift
<1> QED
  BY <1>1, <1>2

\* A run that goes on under its lock keeps it.
LEMMA StayLocked ==
  ASSUME Typed, LockHeld, NEW p \in Procs, NEW s \in Locked, pc[p] \in Locked,
         Goto(p, s), UNCHANGED <<env, lock, kind, key>>
  PROVE  LockHeld'
BY DEF Typed, TypeOK, LockHeld, Goto, LockName, InFlight, Locked, Terminal, Adrift

\* A run that ends gives up its own lock and nobody else's.
LEMMA LeaveLocked ==
  ASSUME Typed, LockHeld, NEW p \in Procs, NEW s \in Terminal,
         Finish(p, s), UNCHANGED <<env, kind, key>>
  PROVE  LockHeld'
<1>1. \A q \in Procs : q # p => pc'[q] = pc[q]
  BY DEF Typed, TypeOK, Finish, Goto
<1>2. pc'[p] = s
  BY DEF Typed, TypeOK, Finish, Goto
<1>3. ASSUME NEW q \in Procs, env.overlap, pc[q] \in Locked, q # p
      PROVE  lock'[LockName(q)] = q
  <2>1. LockName(q) \in LockNames
    BY <1>3 DEF LockName, LockNames, Typed, TypeOK, StageTyped
  <2> QED
    BY <1>3, <2>1 DEF LockHeld, Finish, Unlocked
<1>4. LockName(p)' = LockName(p) /\ \A q \in Procs : LockName(q)' = LockName(q)
  BY DEF LockName
<1>5. env.overlap =>
        \A q \in Procs :
          /\ pc'[q] \notin Adrift
          /\ pc'[q] \in Locked \cup {"lock"} => kind'[q] = "local"
          /\ pc'[q] \in Locked => lock'[LockName(q)'] = q
  BY <1>1, <1>2, <1>3, <1>4 DEF LockHeld, Terminal, Locked, Adrift
<1>6. ~env.overlap => \A q, r \in Procs : InFlight(q)' /\ InFlight(r)' => q = r
  BY <1>1, <1>2 DEF LockHeld, InFlight, Terminal
<1> QED
  BY <1>5, <1>6 DEF LockHeld

\* Every step keeps the lock with the runs that hold it, or runs apart.
LEMMA NextLockHeld ==
  Typed /\ Disciplined /\ LockHeld /\ [Next]_vars => LockHeld'
<1> SUFFICES ASSUME Typed, Disciplined, LockHeld, [Next]_vars PROVE LockHeld'
  OBVIOUS
<1> USE DEF disk, locals
<1>1. CASE Edit
  BY <1>1 DEF Edit, LockHeld, LockName, InFlight
<1>2. CASE Clean
  BY <1>2 DEF Clean, LockHeld, LockName, InFlight
<1>3. ASSUME NEW p \in Procs, RunSetup(p) PROVE LockHeld'
  BY <1>3 DEF RunSetup, Adrift, Typed, TypeOK, Disciplined, LockHeld, Goto, InFlight, LockName,
     Locked, Terminal
<1>4. ASSUME NEW p \in Procs, Finalize(p) PROVE LockHeld'
  BY <1>4 DEF Finalize, Adrift, Typed, TypeOK, Disciplined, LockHeld, Goto, InFlight, LockName,
     Locked, Terminal
<1>5. ASSUME NEW p \in Procs, AcquireLock(p) PROVE LockHeld'
  <2>1. LockName(p) \in LockNames /\ lock[LockName(p)] = NoProc
    BY <1>5 DEF AcquireLock, LockName, LockNames, Typed, TypeOK, StageTyped
  <2>2. \A q \in Procs : LockName(q)' = LockName(q)
    BY <1>5 DEF AcquireLock, LockName
  <2>3. pc'[p] \in Locked /\ \A q \in Procs : q # p => pc'[q] = pc[q]
    BY <1>5 DEF AcquireLock, Goto, Typed, TypeOK, Locked
  <2>4. lock' = [lock EXCEPT ![LockName(p)] = p] /\ env' = env /\ kind' = kind
    BY <1>5 DEF AcquireLock
  <2>5. ASSUME NEW q \in Procs, env.overlap, pc'[q] \in Locked
        PROVE  lock'[LockName(q)'] = q
    <3>1. CASE q = p
      BY <3>1, <2>1, <2>2, <2>4 DEF Typed, TypeOK
    <3>2. CASE q # p
      <4>1. lock[LockName(q)] = q
        BY <3>2, <2>3, <2>5 DEF LockHeld
      <4>2. LockName(q) # LockName(p) /\ LockName(q) \in LockNames
        BY <4>1, <2>1, <3>2, <2>3, <2>5
           DEF LockName, LockNames, Typed, TypeOK, StageTyped
      <4> QED
        BY <4>1, <4>2, <2>2, <2>4 DEF Typed, TypeOK
    <3> QED
      BY <3>1, <3>2
  <2>6. pc[p] = "lock"
    BY <1>5 DEF AcquireLock
  <2>7. env.overlap => \A q \in Procs : /\ pc'[q] \notin Adrift
                                        /\ pc'[q] \in Locked \cup {"lock"} => kind'[q] = "local"
    BY <2>3, <2>4, <2>6 DEF LockHeld, Locked, Adrift
  <2>8. ~env.overlap => \A q, r \in Procs : InFlight(q)' /\ InFlight(r)' => q = r
    BY <2>3, <2>6 DEF LockHeld, InFlight, Locked, Terminal
  <2> QED
    BY <2>4, <2>5, <2>7, <2>8 DEF LockHeld
<1>6. ASSUME NEW p \in Procs, CheckSources(p) PROVE LockHeld'
  BY <1>6, StayLocked, LeaveLocked DEF CheckSources, Locked, Terminal
<1>7. ASSUME NEW p \in Procs, Compare(p) PROVE LockHeld'
  BY <1>7, StayLocked, LeaveLocked DEF Compare, Locked, Terminal
<1>8. ASSUME NEW p \in Procs, Restore(p) PROVE LockHeld'
  BY <1>8, StayLocked DEF Restore, Locked
<1>9. ASSUME NEW p \in Procs, Verify(p) PROVE LockHeld'
  BY <1>9, StayLocked, LeaveLocked DEF Verify, GiveUpRestore, Locked, Terminal
<1>10. ASSUME NEW p \in Procs, Record(p) PROVE LockHeld'
  BY <1>10, StayLocked, LeaveLocked DEF Record, GiveUpRestore, Locked, Terminal
<1>11. ASSUME NEW p \in Procs, Commit(p) PROVE LockHeld'
  BY <1>11, StayLocked, LeaveLocked DEF Commit, GiveUpRestore, Locked, Terminal
<1>12. ASSUME NEW p \in Procs, RunDeps(p) PROVE LockHeld'
  BY <1>12, StayLocked, LeaveLocked DEF RunDeps, Locked, Terminal
<1>13. ASSUME NEW p \in Procs, StartCommands(p) PROVE LockHeld'
  BY <1>13, StayLocked, LeaveLocked DEF StartCommands, Locked, Terminal
<1>14. ASSUME NEW p \in Procs, EndCommands(p) PROVE LockHeld'
  BY <1>14, StayLocked, LeaveLocked DEF EndCommands, Locked, Terminal
<1>15. ASSUME NEW p \in Procs, PostRunSources(p) PROVE LockHeld'
  BY <1>15, StayLocked, LeaveLocked DEF PostRunSources, Locked, Terminal
<1>16. ASSUME NEW p \in Procs, PostRunGenerates(p) PROVE LockHeld'
  BY <1>16, StayLocked, LeaveLocked DEF PostRunGenerates, Locked, Terminal
<1>17. ASSUME NEW p \in Procs, Publish(p) PROVE LockHeld'
  BY <1>17, StayLocked, LeaveLocked DEF Publish, Locked, Terminal
<1>18. ASSUME NEW p \in Procs, Save(p) PROVE LockHeld'
  BY <1>18, LeaveLocked DEF Save, Locked, Terminal
<1>19. ASSUME NEW p \in Procs, OrphanStops(p) PROVE LockHeld'
  BY <1>19 DEF OrphanStops, Adrift, Typed, TypeOK, Disciplined, LockHeld, Goto, InFlight, LockName,
     Locked, Terminal
<1>20. ASSUME NEW p \in Procs, Evict(p) PROVE LockHeld'
  BY <1>20 DEF Evict, Typed, TypeOK, Disciplined, LockHeld, Goto, InFlight, LockName,
     Locked, Terminal, Unlocked, StageTyped, LockNames
<1>21. ASSUME NEW p \in Procs, Start(p) PROVE LockHeld'
  BY <1>21 DEF Start, Adrift, Typed, TypeOK, Disciplined, LockHeld, Goto, InFlight, LockName,
     Locked, Terminal, Quiescent
<1>22. ASSUME NEW p \in Procs, FallBack(p) PROVE LockHeld'
  BY <1>22 DEF FallBack, Typed, TypeOK, Disciplined, LockHeld, Goto, InFlight, LockName,
     Locked, Terminal
<1>23. ASSUME NEW p \in Procs, LockTimeout(p) PROVE LockHeld'
  BY <1>23 DEF LockTimeout, Adrift, Typed, TypeOK, Disciplined, LockHeld, Goto, InFlight, LockName,
     Locked, Terminal
<1>24. ASSUME NEW p \in Procs, LoseLease(p) PROVE LockHeld'
  BY <1>24 DEF LoseLease, Typed, TypeOK, Disciplined, LockHeld, Goto, InFlight, LockName,
     Locked, Terminal, Unlocked, StageTyped, LockNames
<1>25. ASSUME NEW p \in Procs, Cancel(p) PROVE LockHeld'
  BY <1>25 DEF Cancel, DropGuard, Adrift, Typed, TypeOK, Disciplined, LockHeld, Goto, InFlight, LockName,
     Locked, Terminal, Unlocked, StageTyped, LockNames
<1>26. ASSUME NEW p \in Procs, Crash(p) PROVE LockHeld'
  BY <1>26 DEF Crash, Adrift, Typed, TypeOK, Disciplined, LockHeld, Goto, InFlight, LockName,
     Locked, Terminal
<1>27. CASE UNCHANGED vars
  BY <1>27 DEF vars, LockHeld, LockName, InFlight
<1>28. ASSUME NEW p \in Procs, Recover(p) PROVE LockHeld'
  BY <1>28, StayLocked DEF Recover, Locked
<1>29. ASSUME NEW p \in Procs, Assemble(p) PROVE LockHeld'
  BY <1>29, StayLocked, LeaveLocked DEF Assemble, GiveUpRestore, Locked, Terminal
<1>30. ASSUME NEW p \in Procs, DetachedStops(p) PROVE LockHeld'
  BY <1>30 DEF DetachedStops, ThreadEnds, Typed, TypeOK, Disciplined, LockHeld, Goto, InFlight,
     LockName, Locked, Terminal, Adrift
<1>31. ASSUME NEW p \in Procs, CancelRestore(p) PROVE LockHeld'
  <2>1. pc[p] \in Locked /\ UNCHANGED <<env, kind, key>>
    BY <1>31 DEF CancelRestore, Locked
  <2>2. CASE env.overlap
    <3>1. kind[p] = "local" /\ ~env.orphans
      BY <2>1, <2>2 DEF LockHeld, Disciplined
    <3>2. \E s \in {"cancelled", "abandoned"} : Finish(p, s)
      BY <1>31, <3>1 DEF CancelRestore, DropGuard, Finish
    <3> QED
      BY <2>1, <3>2, LeaveLocked DEF Terminal
  <2>3. CASE ~env.overlap
    <3>1. \A q \in Procs : q # p => pc'[q] = pc[q]
      BY <1>31 DEF CancelRestore, Goto, Typed, TypeOK
    <3>2. InFlight(p)
      BY <2>1 DEF InFlight, Locked, Terminal
    <3> QED
      BY <2>1, <2>3, <3>1, <3>2 DEF LockHeld, InFlight
  <2> QED
    BY <2>2, <2>3
<1>32. ASSUME NEW p \in Procs, CancelAssembly(p) PROVE LockHeld'
  <2>1. pc[p] \in Locked /\ UNCHANGED <<env, kind, key>>
    BY <1>32 DEF CancelAssembly, Locked
  <2>2. CASE env.overlap
    <3>1. kind[p] = "local" /\ ~env.orphans
      BY <2>1, <2>2 DEF LockHeld, Disciplined
    <3>2. \E s \in {"cancelled", "abandoned"} : Finish(p, s)
      BY <1>32, <3>1 DEF CancelAssembly, ThreadEnds, DropGuard, Finish
    <3> QED
      BY <2>1, <3>2, LeaveLocked DEF Terminal
  <2>3. CASE ~env.overlap
    <3>1. \A q \in Procs : q # p => pc'[q] = pc[q]
      BY <1>32 DEF CancelAssembly, ThreadEnds, Goto, Typed, TypeOK
    <3>2. InFlight(p)
      BY <2>1 DEF InFlight, Locked, Terminal
    <3> QED
      BY <2>1, <2>3, <3>1, <3>2 DEF LockHeld, InFlight
  <2> QED
    BY <2>2, <2>3
<1> QED
  BY <1>1, <1>2, <1>3, <1>4, <1>5, <1>6, <1>7, <1>8, <1>9, <1>10, <1>11, <1>12, <1>13,
     <1>14, <1>15, <1>16, <1>17, <1>18, <1>19, <1>20, <1>21, <1>22, <1>23, <1>24, <1>25,
     <1>26, <1>27, <1>28, <1>29, <1>30, <1>31, <1>32 DEF Next, Step

-----------------------------------------------------------------------------
(* What a run reads                                                         *)

\* Every step keeps the order of a run's readings: the sources only move on.
LEMMA NextReadingOrder ==
  Typed /\ ReadingOrder /\ [Next]_vars => ReadingOrder'
<1> SUFFICES ASSUME Typed, ReadingOrder, [Next]_vars PROVE ReadingOrder'
  OBVIOUS
<1> USE DEF Typed, TypeOK, ReadingOrder, disk, locals, Versions, NoVersion, Locked, Terminal,
            Checked, Commanded, Adrift, Goto
<1>1. CASE Edit
  <2>1. env' = env /\ pc' = pc /\ UNCHANGED locals /\ src' = src + 1
    BY <1>1 DEF Edit
  <2>2. ASSUME NEW p \in Procs, pc[p] \in Locked \cup {"lock"} PROVE env.edits
    BY <1>1, <2>2 DEF Edit, InFlight, Quiescent
  <2> QED
    BY <2>1, <2>2
<1>2. CASE Clean
  BY <1>2 DEF Clean, InFlight, Quiescent
<1>3. ASSUME NEW p \in Procs, RunSetup(p) PROVE ReadingOrder'
  BY <1>3 DEF RunSetup
<1>4. ASSUME NEW p \in Procs, Finalize(p) PROVE ReadingOrder'
  BY <1>4 DEF Finalize
<1>5. ASSUME NEW p \in Procs, AcquireLock(p) PROVE ReadingOrder'
  BY <1>5 DEF AcquireLock
<1>6. ASSUME NEW p \in Procs, CheckSources(p) PROVE ReadingOrder'
  BY <1>6 DEF CheckSources, Finish, Environments
<1>7. ASSUME NEW p \in Procs, Compare(p) PROVE ReadingOrder'
  BY <1>7 DEF Compare, Finish
<1>8. ASSUME NEW p \in Procs, Restore(p) PROVE ReadingOrder'
  BY <1>8 DEF Restore
<1>9. ASSUME NEW p \in Procs, Verify(p) PROVE ReadingOrder'
  BY <1>9 DEF Verify, GiveUpRestore, Finish
<1>10. ASSUME NEW p \in Procs, Record(p) PROVE ReadingOrder'
  BY <1>10 DEF Record, GiveUpRestore, Finish
<1>11. ASSUME NEW p \in Procs, Commit(p) PROVE ReadingOrder'
  BY <1>11 DEF Commit, GiveUpRestore, Finish
<1>12. ASSUME NEW p \in Procs, RunDeps(p) PROVE ReadingOrder'
  BY <1>12 DEF RunDeps, Finish
<1>13. ASSUME NEW p \in Procs, StartCommands(p) PROVE ReadingOrder'
  BY <1>13 DEF StartCommands
<1>14. ASSUME NEW p \in Procs, EndCommands(p) PROVE ReadingOrder'
  BY <1>14 DEF EndCommands, Finish
<1>15. ASSUME NEW p \in Procs, PostRunSources(p) PROVE ReadingOrder'
  BY <1>15 DEF PostRunSources, Finish
<1>16. ASSUME NEW p \in Procs, PostRunGenerates(p) PROVE ReadingOrder'
  BY <1>16 DEF PostRunGenerates
<1>17. ASSUME NEW p \in Procs, Publish(p) PROVE ReadingOrder'
  BY <1>17 DEF Publish, Finish, BuiltFromKey
<1>18. ASSUME NEW p \in Procs, Save(p) PROVE ReadingOrder'
  BY <1>18 DEF Save, Finish
<1>19. ASSUME NEW p \in Procs, OrphanStops(p) PROVE ReadingOrder'
  BY <1>19 DEF OrphanStops
<1>20. ASSUME NEW p \in Procs, Evict(p) PROVE ReadingOrder'
  BY <1>20 DEF Evict
<1>21. ASSUME NEW p \in Procs, Start(p) PROVE ReadingOrder'
  BY <1>21 DEF Start
<1>22. ASSUME NEW p \in Procs, FallBack(p) PROVE ReadingOrder'
  BY <1>22 DEF FallBack
<1>23. ASSUME NEW p \in Procs, LockTimeout(p) PROVE ReadingOrder'
  BY <1>23 DEF LockTimeout
<1>24. ASSUME NEW p \in Procs, LoseLease(p) PROVE ReadingOrder'
  BY <1>24 DEF LoseLease
<1>25. ASSUME NEW p \in Procs, Cancel(p) PROVE ReadingOrder'
  BY <1>25 DEF Cancel
<1>26. ASSUME NEW p \in Procs, Crash(p) PROVE ReadingOrder'
  BY <1>26 DEF Crash
<1>27. CASE UNCHANGED vars
  BY <1>27 DEF vars
<1>28. ASSUME NEW p \in Procs, Recover(p) PROVE ReadingOrder'
  BY <1>28 DEF Recover, CutShort
<1>29. ASSUME NEW p \in Procs, Assemble(p) PROVE ReadingOrder'
  BY <1>29 DEF Assemble, GiveUpRestore, Undone, UndoneBy, Finish
<1>30. ASSUME NEW p \in Procs, DetachedStops(p) PROVE ReadingOrder'
  BY <1>30 DEF DetachedStops, ThreadEnds, Undone, UndoneBy
<1>31. ASSUME NEW p \in Procs, CancelRestore(p) PROVE ReadingOrder'
  BY <1>31 DEF CancelRestore, DropGuard, Undone, UndoneBy, InFlight
<1>32. ASSUME NEW p \in Procs, CancelAssembly(p) PROVE ReadingOrder'
  BY <1>32 DEF CancelAssembly, DropGuard, ThreadEnds, Undone, UndoneBy, InFlight
<1> QED
  BY <1>1, <1>2, <1>3, <1>4, <1>5, <1>6, <1>7, <1>8, <1>9, <1>10, <1>11, <1>12, <1>13,
     <1>14, <1>15, <1>16, <1>17, <1>18, <1>19, <1>20, <1>21, <1>22, <1>23, <1>24, <1>25,
     <1>26, <1>27, <1>28, <1>29, <1>30, <1>31, <1>32 DEF Next, Step

\* Every step keeps what the runs know of the generated files: whoever writes them is
\* the only one to hold the lock.
LEMMA NextOutputsKnown ==
  Typed /\ Disciplined /\ Exclusive /\ ReadingOrder /\ CacheSound /\ OutputsKnown /\ [Next]_vars
    => OutputsKnown'
<1> SUFFICES ASSUME Typed, Disciplined, Exclusive, ReadingOrder, CacheSound, OutputsKnown,
                    [Next]_vars
             PROVE OutputsKnown'
  OBVIOUS
<1> USE DEF Typed, TypeOK, Exclusive, OutputsKnown, disk, locals, Locked, Terminal, Adrift, Goto
<1>1. CASE Edit
  BY <1>1 DEF Edit, InFlight, Quiescent
<1>2. CASE Clean
  BY <1>2 DEF Clean, InFlight, Quiescent
<1>3. ASSUME NEW p \in Procs, RunSetup(p) PROVE OutputsKnown'
  BY <1>3 DEF RunSetup
<1>4. ASSUME NEW p \in Procs, Finalize(p) PROVE OutputsKnown'
  BY <1>4 DEF Finalize
<1>5. ASSUME NEW p \in Procs, AcquireLock(p) PROVE OutputsKnown'
  BY <1>5 DEF AcquireLock
<1>6. ASSUME NEW p \in Procs, CheckSources(p) PROVE OutputsKnown'
  BY <1>6 DEF CheckSources, Finish
<1>7. ASSUME NEW p \in Procs, Compare(p) PROVE OutputsKnown'
  BY <1>7 DEF Compare, Finish
<1>8. ASSUME NEW p \in Procs, Restore(p) PROVE OutputsKnown'
  <2> DEFINE e == cache[CacheSlot(key[p])]
  <2>1. pc[p] = "restore" /\ key[p] \in Versions /\ CacheSlot(key[p]) \in Versions
    BY <1>8 DEF Restore, StageTyped, CacheSlot, Versions
  <2>2. CheckMeta(e, key[p]) /\ e.content = e.generates => e.generates = key[p]
    BY <2>1 DEF CheckMeta, CacheSound, NoEntry
  <2>3. \A q \in Procs : q # p => pc'[q] = pc[q] /\ pc[q] \notin Locked \cup Adrift
    BY <1>8, <2>1 DEF Restore, Finish
  <2>4. UNCHANGED <<key, built, postG>> /\ outBy' \in {outBy, p}
    BY <1>8 DEF Restore
  <2>7. \A q \in Procs : q # p => meta'[q] = meta[q] /\ pulled'[q] = pulled[q]
    BY <1>8 DEF Restore
  <2>5. pc'[p] = "assemble" /\ pulled'[p] = meta'[p] => meta'[p] = key[p]
    BY <1>8, <2>2 DEF Restore
  <2>6. pc'[p] \in {"assemble", "deps"}
    BY <1>8 DEF Restore
  <2> QED
    BY <2>1, <2>3, <2>4, <2>5, <2>6, <2>7
<1>9. ASSUME NEW p \in Procs, Verify(p) PROVE OutputsKnown'
  BY <1>9 DEF Verify, GiveUpRestore, Finish, Undone, UndoneBy
<1>10. ASSUME NEW p \in Procs, Record(p) PROVE OutputsKnown'
  BY <1>10 DEF Record, GiveUpRestore, Finish, Undone, UndoneBy
<1>11. ASSUME NEW p \in Procs, Commit(p) PROVE OutputsKnown'
  BY <1>11 DEF Commit, GiveUpRestore, Finish, Undone, UndoneBy
<1>12. ASSUME NEW p \in Procs, RunDeps(p) PROVE OutputsKnown'
  BY <1>12 DEF RunDeps, Finish
<1>13. ASSUME NEW p \in Procs, StartCommands(p) PROVE OutputsKnown'
  BY <1>13 DEF StartCommands
<1>14. ASSUME NEW p \in Procs, EndCommands(p) PROVE OutputsKnown'
  BY <1>14 DEF EndCommands, Finish
<1>15. ASSUME NEW p \in Procs, PostRunSources(p) PROVE OutputsKnown'
  BY <1>15 DEF PostRunSources, Finish
<1>16. ASSUME NEW p \in Procs, PostRunGenerates(p) PROVE OutputsKnown'
  BY <1>16 DEF PostRunGenerates
<1>17. ASSUME NEW p \in Procs, Publish(p) PROVE OutputsKnown'
  BY <1>17 DEF Publish, Finish
<1>18. ASSUME NEW p \in Procs, Save(p) PROVE OutputsKnown'
  BY <1>18 DEF Save, Finish
<1>19. ASSUME NEW p \in Procs, OrphanStops(p) PROVE OutputsKnown'
  BY <1>19 DEF OrphanStops
<1>20. ASSUME NEW p \in Procs, Evict(p) PROVE OutputsKnown'
  BY <1>20 DEF Evict
<1>21. ASSUME NEW p \in Procs, Start(p) PROVE OutputsKnown'
  BY <1>21 DEF Start
<1>22. ASSUME NEW p \in Procs, FallBack(p) PROVE OutputsKnown'
  BY <1>22 DEF FallBack
<1>23. ASSUME NEW p \in Procs, LockTimeout(p) PROVE OutputsKnown'
  BY <1>23 DEF LockTimeout
<1>24. ASSUME NEW p \in Procs, LoseLease(p) PROVE OutputsKnown'
  BY <1>24 DEF LoseLease
<1>25. ASSUME NEW p \in Procs, Cancel(p) PROVE OutputsKnown'
  BY <1>25 DEF Cancel, InFlight
<1>26. ASSUME NEW p \in Procs, Crash(p) PROVE OutputsKnown'
  BY <1>26 DEF Crash
<1>27. CASE UNCHANGED vars
  BY <1>27 DEF vars
<1>28. ASSUME NEW p \in Procs, Recover(p) PROVE OutputsKnown'
  BY <1>28 DEF Recover, CutShort
<1>29. ASSUME NEW p \in Procs, Assemble(p) PROVE OutputsKnown'
  BY <1>29 DEF Assemble, GiveUpRestore, Undone, UndoneBy, Finish
<1>30. ASSUME NEW p \in Procs, DetachedStops(p) PROVE OutputsKnown'
  BY <1>30 DEF DetachedStops, ThreadEnds, Undone, UndoneBy
<1>31. ASSUME NEW p \in Procs, CancelRestore(p) PROVE OutputsKnown'
  BY <1>31 DEF CancelRestore, DropGuard, Undone, UndoneBy, InFlight
<1>32. ASSUME NEW p \in Procs, CancelAssembly(p) PROVE OutputsKnown'
  BY <1>32 DEF CancelAssembly, DropGuard, ThreadEnds, Undone, UndoneBy, InFlight
<1> QED
  BY <1>1, <1>2, <1>3, <1>4, <1>5, <1>6, <1>7, <1>8, <1>9, <1>10, <1>11, <1>12, <1>13,
     <1>14, <1>15, <1>16, <1>17, <1>18, <1>19, <1>20, <1>21, <1>22, <1>23, <1>24, <1>25,
     <1>26, <1>27, <1>28, <1>29, <1>30, <1>31, <1>32 DEF Next, Step

-----------------------------------------------------------------------------
(* What a run leaves behind                                                 *)

\* Every step but cache_save leaves the cache alone, and a save finds the key, the
\* version the commands read and the post-run reading to be one version.
LEMMA NextCacheSound ==
  Typed /\ ReadingOrder /\ OutputsKnown /\ CacheSound /\ [Next]_vars => CacheSound'
<1> SUFFICES ASSUME Typed, ReadingOrder, OutputsKnown, CacheSound, [Next]_vars
             PROVE CacheSound'
  OBVIOUS
<1>1. ASSUME NEW p \in Procs, Save(p) PROVE CacheSound'
  <2>1. pc[p] = "save" /\ key[p] \in Versions /\ postG[p] \in Outputs
    BY <1>1 DEF Save, Typed, StageTyped, Locked
  <2>2. key[p] <= built[p] /\ built[p] <= postS[p] /\ postS[p] = key[p]
    BY <2>1 DEF ReadingOrder, Commanded
  <2>3. built[p] \in Int /\ postS[p] \in Int
    BY DEF Typed, TypeOK, Versions, NoVersion
  <2>4. built[p] = key[p]
    BY <2>1, <2>2, <2>3 DEF Versions
  <2>5. postG[p] = key[p]
    BY <2>1, <2>4 DEF OutputsKnown
  <2>6. \/ cache' = cache
        \/ cache' = [cache EXCEPT ![CacheSlot(key[p])] =
                       [sources |-> key[p], generates |-> postG[p], content |-> out]]
    BY <1>1 DEF Save
  <2> QED
    BY <2>5, <2>6 DEF CacheSound, Typed, TypeOK
<1>2. CASE cache' = cache
  BY <1>2 DEF CacheSound
<1>3. (\E p \in Procs : Save(p)) \/ cache' = cache
  BY DEF Next, Step, Edit, Clean, RunSetup, Finalize, AcquireLock, CheckSources, Compare,
     Recover, Restore, Assemble, Verify, Record, Commit, RunDeps, StartCommands, EndCommands,
     PostRunSources, PostRunGenerates, Publish, OrphanStops, DetachedStops, Evict, Start,
     FallBack, LockTimeout, LoseLease, Cancel, CancelRestore, CancelAssembly, Crash, vars, disk
<1> QED
  BY <1>1, <1>2, <1>3

\* The state file only changes to nothing, to a restored entry's record or to a run's.
LEMMA FingerprintWriters ==
  ASSUME [Next]_vars
  PROVE  fp' \in {fp, NoFp} \/ \E q \in Procs : Record(q) \/ Publish(q)
<1>1. CASE Edit \/ Clean \/ UNCHANGED vars
  BY <1>1 DEF Edit, Clean, vars, disk
<1>2. ASSUME NEW p \in Procs,
             \/ RunSetup(p) \/ Finalize(p) \/ AcquireLock(p)
             \/ CheckSources(p) \/ Compare(p) \/ Recover(p) \/ Restore(p) \/ Assemble(p)
      PROVE  fp' \in {fp, NoFp} \/ \E q \in Procs : Record(q) \/ Publish(q)
  BY <1>2 DEF RunSetup, Finalize, AcquireLock, CheckSources, Compare, Recover, Restore,
     Assemble, disk
<1>3. ASSUME NEW p \in Procs,
             \/ Verify(p) \/ Record(p) \/ Commit(p)
             \/ RunDeps(p) \/ StartCommands(p) \/ EndCommands(p)
      PROVE  fp' \in {fp, NoFp} \/ \E q \in Procs : Record(q) \/ Publish(q)
  BY <1>3 DEF Verify, Commit, RunDeps, StartCommands, EndCommands, disk
<1>4. ASSUME NEW p \in Procs,
             \/ PostRunSources(p) \/ PostRunGenerates(p) \/ Publish(p)
             \/ Save(p) \/ OrphanStops(p) \/ DetachedStops(p) \/ Evict(p)
      PROVE  fp' \in {fp, NoFp} \/ \E q \in Procs : Record(q) \/ Publish(q)
  BY <1>4 DEF PostRunSources, PostRunGenerates, Save, OrphanStops, DetachedStops, Evict, disk
<1>5. ASSUME NEW p \in Procs,
             \/ Start(p) \/ FallBack(p) \/ LockTimeout(p)
             \/ LoseLease(p) \/ Cancel(p) \/ CancelRestore(p) \/ CancelAssembly(p) \/ Crash(p)
      PROVE  fp' \in {fp, NoFp} \/ \E q \in Procs : Record(q) \/ Publish(q)
  BY <1>5 DEF Start, FallBack, LockTimeout, LoseLease, Cancel, CancelRestore, CancelAssembly,
     Crash, disk
<1> QED
  BY <1>1, <1>2, <1>3, <1>4, <1>5 DEF Next, Step

\* No step touches the environment it runs in, and the sources only move on.
LEMMA EnvConstant == [Next]_vars => env' = env /\ src' \in {src, src + 1}
<1> SUFFICES ASSUME [Next]_vars PROVE env' = env /\ src' \in {src, src + 1}
  OBVIOUS
<1>1. CASE Edit \/ Clean \/ UNCHANGED vars
  BY <1>1 DEF Edit, Clean, vars, disk
<1>2. ASSUME NEW p \in Procs,
             \/ RunSetup(p) \/ Finalize(p) \/ AcquireLock(p)
             \/ CheckSources(p) \/ Compare(p) \/ Recover(p) \/ Restore(p) \/ Assemble(p)
      PROVE  env' = env /\ src' \in {src, src + 1}
  BY <1>2 DEF RunSetup, Finalize, AcquireLock, CheckSources, Compare, Recover, Restore,
     Assemble, disk
<1>3. ASSUME NEW p \in Procs,
             \/ Verify(p) \/ Record(p) \/ Commit(p)
             \/ RunDeps(p) \/ StartCommands(p) \/ EndCommands(p)
      PROVE  env' = env /\ src' \in {src, src + 1}
  BY <1>3 DEF Verify, Record, Commit, RunDeps, StartCommands, EndCommands, disk
<1>4. ASSUME NEW p \in Procs,
             \/ PostRunSources(p) \/ PostRunGenerates(p) \/ Publish(p)
             \/ Save(p) \/ OrphanStops(p) \/ DetachedStops(p) \/ Evict(p)
      PROVE  env' = env /\ src' \in {src, src + 1}
  BY <1>4 DEF PostRunSources, PostRunGenerates, Publish, Save, OrphanStops, DetachedStops, Evict, disk
<1>5. ASSUME NEW p \in Procs,
             \/ Start(p) \/ FallBack(p) \/ LockTimeout(p)
             \/ LoseLease(p) \/ Cancel(p) \/ CancelRestore(p) \/ CancelAssembly(p) \/ Crash(p)
      PROVE  env' = env /\ src' \in {src, src + 1}
  BY <1>5 DEF Start, FallBack, LockTimeout, LoseLease, Cancel, CancelRestore, CancelAssembly,
     Crash, disk
<1> QED
  BY <1>1, <1>2, <1>3, <1>4, <1>5 DEF Next, Step

\* What is recorded pairs sources with their own output: publish because the readings
\* before and after the commands agree, a restore because its key is still current.
LEMMA NextFingerprint ==
  Typed /\ ReadingOrder /\ OutputsKnown /\ FingerprintSound /\ DriftCaught /\ [Next]_vars
    => FingerprintSound' /\ DriftCaught'
<1> SUFFICES ASSUME Typed, ReadingOrder, OutputsKnown, FingerprintSound, DriftCaught,
                    [Next]_vars
             PROVE FingerprintSound' /\ DriftCaught'
  OBVIOUS
<1>0. env' = env
  BY EnvConstant
<1>1. CASE fp' = fp
  BY <1>0, <1>1 DEF FingerprintSound, DriftCaught, RecordedMatch
<1>2. CASE fp' = NoFp
  BY <1>2 DEF FingerprintSound, DriftCaught, RecordedMatch
<1>3. ASSUME NEW p \in Procs, Record(p), fp' # fp PROVE FingerprintSound' /\ DriftCaught'
  <2>1. pc[p] = "record" /\ (fp' = NoFp
          \/ fp' = [sources |-> src, generates |-> meta[p], via |-> "restore"])
    BY <1>3 DEF Record, GiveUpRestore
  <2>2. meta[p] = key[p] /\ (~env.edits => key[p] = src)
    BY <2>1 DEF OutputsKnown, ReadingOrder, Locked
  <2> QED
    BY <1>0, <1>2, <2>1, <2>2 DEF FingerprintSound, DriftCaught, RecordedMatch
<1>4. ASSUME NEW p \in Procs, Publish(p), fp' # fp PROVE FingerprintSound' /\ DriftCaught'
  <2>1. pc[p] = "publish"
    BY <1>4 DEF Publish
  <2>2. CASE fp' = NoFp
    BY <1>2, <2>2
  <2>3. CASE /\ ~Drifted(p)
             /\ fp' = [sources |-> postS[p], generates |-> postG[p],
                       via |-> IF forced[p] THEN "force" ELSE "run"]
    <3>1. /\ key[p] <= built[p] /\ built[p] <= postS[p] /\ postS[p] <= src
          /\ ~forced[p] => pre[p] <= built[p]
          /\ ~env.edits => key[p] = src
      BY <2>1 DEF ReadingOrder, Commanded, Locked
    <3>2. /\ built[p] \in Int /\ postS[p] \in Int /\ pre[p] \in Int /\ key[p] \in Int
          /\ src \in Int
      BY DEF Typed, TypeOK, Versions, NoVersion
    <3>3. ~forced[p] => built[p] = postS[p]
      BY <2>3, <3>1, <3>2 DEF Drifted
    <3>4. ~env.edits => built[p] = postS[p]
      BY <3>1, <3>2
    <3>5. postG[p] = built[p]
      BY <2>1 DEF OutputsKnown
    <3> QED
      BY <1>0, <2>3, <3>3, <3>4, <3>5 DEF FingerprintSound, DriftCaught, RecordedMatch
  <2> QED
    BY <1>4, <2>2, <2>3 DEF Publish
<1> QED
  BY <1>1, <1>2, <1>3, <1>4, FingerprintWriters

\* No record of a half-written tree: a restore records what its key was built to, and a
\* run what its commands had read.
LEMMA NextWholeRecorded ==
  Typed /\ OutputsKnown /\ ReadingOrder /\ WholeRecorded /\ [Next]_vars => WholeRecorded'
<1> SUFFICES ASSUME Typed, OutputsKnown, ReadingOrder, WholeRecorded, [Next]_vars
             PROVE WholeRecorded'
  OBVIOUS
<1>1. CASE fp' \in {fp, NoFp}
  BY <1>1 DEF WholeRecorded, NoFp
<1>2. ASSUME NEW p \in Procs, Record(p) PROVE WholeRecorded'
  <2>1. pc[p] = "record" /\ meta[p] = key[p] /\ key[p] \in Versions
    BY <1>2 DEF Record, OutputsKnown, Typed, StageTyped, Locked
  <2> QED
    BY <1>1, <1>2, <2>1 DEF Record, WholeRecorded
<1>3. ASSUME NEW p \in Procs, Publish(p) PROVE WholeRecorded'
  <2>1. pc[p] = "publish" /\ postG[p] = built[p]
    BY <1>3 DEF Publish, OutputsKnown
  <2>2. built[p] \in Versions \cup {NoVersion}
    BY DEF Typed, TypeOK
  <2> QED
    BY <1>1, <1>3, <2>1, <2>2 DEF Publish, WholeRecorded
<1> QED
  BY <1>1, <1>2, <1>3, FingerprintWriters

\* The initial state is safe: nothing is recorded, saved or locked.
LEMMA InitSafe == Init => Safe
<1> SUFFICES ASSUME Init PROVE Safe
  OBVIOUS
<1> USE DEF Init, Locked
<1>1. LockHeld
  BY DEF LockHeld, InFlight, Adrift
<1>2. ReadingOrder
  BY DEF ReadingOrder, Checked, Commanded
<1>3. OutputsKnown
  BY DEF OutputsKnown
<1>4. FingerprintSound /\ DriftCaught /\ CacheSound
  BY DEF FingerprintSound, DriftCaught, CacheSound, RecordedMatch, NoFp
<1>5. WholeRecorded
  BY DEF WholeRecorded, NoFp
<1> QED
  BY <1>1, <1>2, <1>3, <1>4, <1>5 DEF Safe

\* IndInv is inductive: the lock keeps a disciplined run alone with the generated
\* files, so what it read and wrote is what it records and saves.
LEMMA Inductive == IndInv /\ [Next]_vars => IndInv'
<1> SUFFICES ASSUME IndInv, [Next]_vars PROVE IndInv'
  OBVIOUS
<1>1. Typed
  BY DEF IndInv, Typed
<1>2. Typed'
  BY <1>1, NextTyped
<1>3. ASSUME Disciplined PROVE Safe'
  <2>1. Safe
    BY <1>3 DEF IndInv
  <2>2. Exclusive
    BY <1>1, <1>3, <2>1, OneHolder DEF Safe
  <2>3. LockHeld'
    BY <1>1, <1>3, <2>1, NextLockHeld DEF Safe
  <2>4. ReadingOrder'
    BY <1>1, <2>1, NextReadingOrder DEF Safe
  <2>5. OutputsKnown'
    BY <1>1, <1>3, <2>1, <2>2, NextOutputsKnown DEF Safe
  <2>6. CacheSound'
    BY <1>1, <2>1, NextCacheSound DEF Safe
  <2>7. FingerprintSound' /\ DriftCaught'
    BY <1>1, <2>1, NextFingerprint DEF Safe
  <2>8. WholeRecorded'
    BY <1>1, <2>1, NextWholeRecorded DEF Safe
  <2> QED
    BY <2>3, <2>4, <2>5, <2>6, <2>7, <2>8 DEF Safe
<1>4. Disciplined' => Disciplined
  BY EnvConstant DEF Disciplined
<1> QED
  BY <1>2, <1>3, <1>4 DEF IndInv, Typed

\* Where runs that share a tree leave its sources alone and use the file lock, every
\* cache entry that passes cache_verify_meta holds the output of its own sources.
THEOREM CacheCorrect == Spec => [](Disciplined => CacheSound)
<1>1. Init => IndInv
  BY InitTyped, InitSafe DEF IndInv
<1>2. IndInv /\ [Next]_vars => IndInv'
  BY Inductive
<1>3. IndInv => (Disciplined => CacheSound)
  BY DEF IndInv, Safe
<1> QED
  BY <1>1, <1>2, <1>3, PTL DEF Spec

\* Likewise the fingerprint: what execute_locked records as up to date is the output
\* of the sources it recorded.
THEOREM FingerprintCorrect == Spec => [](Disciplined => FingerprintSound)
<1>1. Init => IndInv
  BY InitTyped, InitSafe DEF IndInv
<1>2. IndInv /\ [Next]_vars => IndInv'
  BY Inductive
<1>3. IndInv => (Disciplined => FingerprintSound)
  BY DEF IndInv, Safe
<1> QED
  BY <1>1, <1>2, <1>3, PTL DEF Spec

\* And with sources edited under a running task, what an unforced run of the commands
\* records: ChecksumChecker::drifted catches every edit that could make it wrong.
THEOREM DriftAlwaysCaught == Spec => [](Disciplined => DriftCaught)
<1>1. Init => IndInv
  BY InitTyped, InitSafe DEF IndInv
<1>2. IndInv /\ [Next]_vars => IndInv'
  BY Inductive
<1>3. IndInv => (Disciplined => DriftCaught)
  BY DEF IndInv, Safe
<1> QED
  BY <1>1, <1>2, <1>3, PTL DEF Spec

\* The build-once lock does its work: no two runs are at once inside execute_locked.
THEOREM MutualExclusion == Spec => [](Disciplined => Exclusive)
<1>1. Init => IndInv
  BY InitTyped, InitSafe DEF IndInv
<1>2. IndInv /\ [Next]_vars => IndInv'
  BY Inductive
<1>3. IndInv => (Disciplined => Exclusive)
  BY OneHolder DEF IndInv, Safe, Typed
<1> QED
  BY <1>1, <1>2, <1>3, PTL DEF Spec
-----------------------------------------------------------------------------
(* Restores are settled                                                     *)

\* Only cache_restore leaves a restore pending, and every way on from it commits it,
\* takes it back, or leaves it to the journal of a run that is over.
LEMMA NextRestoreSettled ==
  Typed /\ RestoreSettled /\ [Next]_vars => RestoreSettled'
<1> SUFFICES ASSUME Typed, RestoreSettled, [Next]_vars PROVE RestoreSettled'
  OBVIOUS
<1> USE DEF Typed, TypeOK, RestoreSettled, disk, locals, Terminal, Adrift, Goto
<1>1. CASE Edit
  BY <1>1 DEF Edit, InFlight, Quiescent
<1>2. CASE Clean
  BY <1>2 DEF Clean, InFlight, Quiescent
<1>3. ASSUME NEW p \in Procs, RunSetup(p) PROVE RestoreSettled'
  BY <1>3 DEF RunSetup
<1>4. ASSUME NEW p \in Procs, Finalize(p) PROVE RestoreSettled'
  BY <1>4 DEF Finalize
<1>5. ASSUME NEW p \in Procs, AcquireLock(p) PROVE RestoreSettled'
  BY <1>5 DEF AcquireLock
<1>6. ASSUME NEW p \in Procs, CheckSources(p) PROVE RestoreSettled'
  BY <1>6 DEF CheckSources, Finish
<1>7. ASSUME NEW p \in Procs, Compare(p) PROVE RestoreSettled'
  BY <1>7 DEF Compare, Finish
<1>8. ASSUME NEW p \in Procs, Restore(p) PROVE RestoreSettled'
  BY <1>8 DEF Restore
<1>9. ASSUME NEW p \in Procs, Verify(p) PROVE RestoreSettled'
  BY <1>9 DEF Verify, GiveUpRestore, Finish, Undone, UndoneBy
<1>10. ASSUME NEW p \in Procs, Record(p) PROVE RestoreSettled'
  BY <1>10 DEF Record, GiveUpRestore, Finish, Undone, UndoneBy
<1>11. ASSUME NEW p \in Procs, Commit(p) PROVE RestoreSettled'
  BY <1>11 DEF Commit, GiveUpRestore, Finish, Undone, UndoneBy
<1>12. ASSUME NEW p \in Procs, RunDeps(p) PROVE RestoreSettled'
  BY <1>12 DEF RunDeps, Finish
<1>13. ASSUME NEW p \in Procs, StartCommands(p) PROVE RestoreSettled'
  BY <1>13 DEF StartCommands
<1>14. ASSUME NEW p \in Procs, EndCommands(p) PROVE RestoreSettled'
  BY <1>14 DEF EndCommands, Finish
<1>15. ASSUME NEW p \in Procs, PostRunSources(p) PROVE RestoreSettled'
  BY <1>15 DEF PostRunSources, Finish
<1>16. ASSUME NEW p \in Procs, PostRunGenerates(p) PROVE RestoreSettled'
  BY <1>16 DEF PostRunGenerates
<1>17. ASSUME NEW p \in Procs, Publish(p) PROVE RestoreSettled'
  BY <1>17 DEF Publish, Finish
<1>18. ASSUME NEW p \in Procs, Save(p) PROVE RestoreSettled'
  BY <1>18 DEF Save, Finish
<1>19. ASSUME NEW p \in Procs, OrphanStops(p) PROVE RestoreSettled'
  BY <1>19 DEF OrphanStops
<1>20. ASSUME NEW p \in Procs, Evict(p) PROVE RestoreSettled'
  BY <1>20 DEF Evict
<1>21. ASSUME NEW p \in Procs, Start(p) PROVE RestoreSettled'
  BY <1>21 DEF Start
<1>22. ASSUME NEW p \in Procs, FallBack(p) PROVE RestoreSettled'
  BY <1>22 DEF FallBack
<1>23. ASSUME NEW p \in Procs, LockTimeout(p) PROVE RestoreSettled'
  BY <1>23 DEF LockTimeout
<1>24. ASSUME NEW p \in Procs, LoseLease(p) PROVE RestoreSettled'
  BY <1>24 DEF LoseLease
<1>25. ASSUME NEW p \in Procs, Cancel(p) PROVE RestoreSettled'
  BY <1>25 DEF Cancel, InFlight
<1>26. ASSUME NEW p \in Procs, Crash(p) PROVE RestoreSettled'
  BY <1>26 DEF Crash, InFlight
<1>27. CASE UNCHANGED vars
  BY <1>27 DEF vars
<1>28. ASSUME NEW p \in Procs, Recover(p) PROVE RestoreSettled'
  BY <1>28 DEF Recover, CutShort
<1>29. ASSUME NEW p \in Procs, Assemble(p) PROVE RestoreSettled'
  BY <1>29 DEF Assemble, GiveUpRestore, Undone, UndoneBy, Finish
<1>30. ASSUME NEW p \in Procs, DetachedStops(p) PROVE RestoreSettled'
  BY <1>30 DEF DetachedStops, ThreadEnds, Undone, UndoneBy
<1>31. ASSUME NEW p \in Procs, CancelRestore(p) PROVE RestoreSettled'
  BY <1>31 DEF CancelRestore, DropGuard, Undone, UndoneBy, InFlight
<1>32. ASSUME NEW p \in Procs, CancelAssembly(p) PROVE RestoreSettled'
  BY <1>32 DEF CancelAssembly, DropGuard, ThreadEnds, Undone, UndoneBy, InFlight
<1> QED
  BY <1>1, <1>2, <1>3, <1>4, <1>5, <1>6, <1>7, <1>8, <1>9, <1>10, <1>11, <1>12, <1>13,
     <1>14, <1>15, <1>16, <1>17, <1>18, <1>19, <1>20, <1>21, <1>22, <1>23, <1>24, <1>25,
     <1>26, <1>27, <1>28, <1>29, <1>30, <1>31, <1>32 DEF Next, Step

\* In every environment, a restore in the tree that was not kept belongs to a run still
\* at it or to one whose journal is left to recover: never to a run that ended well or
\* took it back (Unverified).
THEOREM RestoresSettled == Spec => []Settled
<1> DEFINE Inv == Typed /\ RestoreSettled
<1>1. Init => Inv
  BY InitTyped DEF Typed, Init, RestoreSettled
<1>2. Inv /\ [Next]_vars => Inv'
  BY NextTyped, NextRestoreSettled
<1>3. Inv => Settled
  BY DEF Settled, Typed
<1> QED
  BY <1>1, <1>2, <1>3, PTL DEF Spec

-----------------------------------------------------------------------------
(* The verdict of the up-to-date check stands                               *)

\* Every step keeps the verdict: whoever writes the generated files or the record is
\* the only one to hold the lock, and an undo puts back what the verdict was about.
LEMMA NextVerdictStands ==
  Typed /\ Exclusive /\ ReadingOrder /\ WholeRecorded /\ RestoreSettled /\ VerdictStands
    /\ [Next]_vars => VerdictStands'
<1> SUFFICES ASSUME Typed, Exclusive, ReadingOrder, WholeRecorded, RestoreSettled,
                    VerdictStands, [Next]_vars
             PROVE VerdictStands'
  OBVIOUS
<1>a. /\ src \in Int /\ src' \in Int /\ src >= 0 /\ src' >= 0 /\ src <= src' /\ fp.sources \in Int
      /\ \A p \in Procs : pre[p] \in Int
  <2>1. Typed'
    BY NextTyped
  <2>2. /\ src \in Int /\ src' \in Int /\ src >= 0 /\ src' >= 0 /\ fp.sources \in Int
        /\ \A p \in Procs : pre[p] \in Int
    BY <2>1 DEF Typed, TypeOK, Versions, NoVersion, NoFp
  <2>3. src' \in {src, src + 1}
    BY EnvConstant
  <2> QED
    BY <2>2, <2>3
<1>b. fp' = NoFp => fp'.sources <= src' /\ fp'.sources # src'
  BY <1>a DEF NoFp, NoVersion, Typed, TypeOK, Versions
<1>c. fp.generates # Partial
  BY DEF WholeRecorded, Partial, NoVersion, Versions
<1> USE DEF Typed, TypeOK, Exclusive, RestoreSettled, VerdictStands, NeedsBuild,
            RecordedOriginals, disk, locals, Locked, Terminal, Commanded, Adrift, Goto
<1>1. CASE Edit
  BY <1>1, <1>a DEF Edit, InFlight, Quiescent
<1>2. CASE Clean
  BY <1>2 DEF Clean, InFlight, Quiescent
<1>3. ASSUME NEW p \in Procs, RunSetup(p) PROVE VerdictStands'
  BY <1>3 DEF RunSetup
<1>4. ASSUME NEW p \in Procs, Finalize(p) PROVE VerdictStands'
  BY <1>4 DEF Finalize
<1>5. ASSUME NEW p \in Procs, AcquireLock(p) PROVE VerdictStands'
  BY <1>5 DEF AcquireLock
<1>6. ASSUME NEW p \in Procs, CheckSources(p) PROVE VerdictStands'
  BY <1>6, <1>a DEF CheckSources, Finish
<1>7. ASSUME NEW p \in Procs, Compare(p) PROVE VerdictStands'
  <2>1. pc[p] = "compare" /\ UNCHANGED <<disk, locals>>
    BY <1>7 DEF Compare
  <2>2. fp.sources <= pre[p] /\ pre[p] <= src
    BY <2>1
  <2>3. fp.sources = src => fp.sources = pre[p]
    <3> DEFINE a == fp.sources
               b == pre[p]
    <3>1. a \in Int /\ b \in Int /\ src \in Int /\ a <= b /\ b <= src
      BY <1>a, <2>2
    <3> HIDE DEF a, b
    <3>2. a = src => a = b
      BY <3>1
    <3> QED
      BY <3>2 DEF a, b
  <2>4. pc'[p] # "done" => NeedsBuild(out)
    BY <1>7, <2>1, <2>3 DEF Compare, Finish, UpToDate
  <2>5. pc'[p] \in {"done", "deps", "recover"} /\ \A q \in Procs : q # p => pc'[q] = pc[q]
    BY <1>7 DEF Compare, Finish
  <2> QED
    BY <2>1, <2>4, <2>5
<1>8. ASSUME NEW p \in Procs, Restore(p) PROVE VerdictStands'
  BY <1>8 DEF Restore
<1>9. ASSUME NEW p \in Procs, Verify(p) PROVE VerdictStands'
  BY <1>9 DEF Verify, GiveUpRestore, Finish, Undone, UndoneBy
<1>10. ASSUME NEW p \in Procs, Record(p) PROVE VerdictStands'
  BY <1>10, <1>a, <1>b DEF Record, GiveUpRestore, Finish, Undone, UndoneBy
<1>11. ASSUME NEW p \in Procs, Commit(p) PROVE VerdictStands'
  BY <1>11, <1>a, <1>b DEF Commit, GiveUpRestore, Finish, Undone, UndoneBy
<1>12. ASSUME NEW p \in Procs, RunDeps(p) PROVE VerdictStands'
  BY <1>12 DEF RunDeps, Finish
<1>13. ASSUME NEW p \in Procs, StartCommands(p) PROVE VerdictStands'
  BY <1>13 DEF StartCommands
<1>14. ASSUME NEW p \in Procs, EndCommands(p) PROVE VerdictStands'
  BY <1>14, <1>a, <1>b DEF EndCommands, Finish
<1>15. ASSUME NEW p \in Procs, PostRunSources(p) PROVE VerdictStands'
  BY <1>15, <1>a, <1>b DEF PostRunSources, Finish
<1>16. ASSUME NEW p \in Procs, PostRunGenerates(p) PROVE VerdictStands'
  BY <1>16 DEF PostRunGenerates
<1>17. ASSUME NEW p \in Procs, Publish(p) PROVE VerdictStands'
  <2>1. pc[p] = "publish" /\ outBy = NoProc /\ postS[p] <= src
    BY <1>17 DEF Publish, ReadingOrder
  <2>2. UNCHANGED <<src, out, outBy, locals>>
    BY <1>17 DEF Publish
  <2>3. fp'.sources <= src'
    BY <1>17, <1>a, <1>b, <2>1, <2>2 DEF Publish
  <2>4. pc'[p] \in {"save", "done", "failed"} /\ \A q \in Procs : q # p => pc'[q] = pc[q]
    BY <1>17 DEF Publish, Finish
  <2>5. \A q \in Procs : q # p => pc[q] \notin Locked
    BY <2>1
  <2> QED
    BY <2>1, <2>2, <2>3, <2>4, <2>5
<1>18. ASSUME NEW p \in Procs, Save(p) PROVE VerdictStands'
  BY <1>18 DEF Save, Finish
<1>19. ASSUME NEW p \in Procs, OrphanStops(p) PROVE VerdictStands'
  BY <1>19 DEF OrphanStops
<1>20. ASSUME NEW p \in Procs, Evict(p) PROVE VerdictStands'
  BY <1>20 DEF Evict
<1>21. ASSUME NEW p \in Procs, Start(p) PROVE VerdictStands'
  BY <1>21 DEF Start
<1>22. ASSUME NEW p \in Procs, FallBack(p) PROVE VerdictStands'
  BY <1>22 DEF FallBack
<1>23. ASSUME NEW p \in Procs, LockTimeout(p) PROVE VerdictStands'
  BY <1>23 DEF LockTimeout
<1>24. ASSUME NEW p \in Procs, LoseLease(p) PROVE VerdictStands'
  BY <1>24 DEF LoseLease
<1>25. ASSUME NEW p \in Procs, Cancel(p) PROVE VerdictStands'
  BY <1>25 DEF Cancel, InFlight
<1>26. ASSUME NEW p \in Procs, Crash(p) PROVE VerdictStands'
  BY <1>26, <1>a, <1>b DEF Crash, InFlight
<1>27. CASE UNCHANGED vars
  BY <1>27 DEF vars
<1>28. ASSUME NEW p \in Procs, Recover(p) PROVE VerdictStands'
  BY <1>28, <1>c DEF Recover, CutShort
<1>29. ASSUME NEW p \in Procs, Assemble(p) PROVE VerdictStands'
  BY <1>29 DEF Assemble, GiveUpRestore, Undone, UndoneBy, Finish
<1>30. ASSUME NEW p \in Procs, DetachedStops(p) PROVE VerdictStands'
  BY <1>30 DEF DetachedStops, ThreadEnds, Undone, UndoneBy
<1>31. ASSUME NEW p \in Procs, CancelRestore(p) PROVE VerdictStands'
  BY <1>31 DEF CancelRestore, DropGuard, Undone, UndoneBy, InFlight
<1>32. ASSUME NEW p \in Procs, CancelAssembly(p) PROVE VerdictStands'
  BY <1>32 DEF CancelAssembly, DropGuard, ThreadEnds, Undone, UndoneBy, InFlight
<1> QED
  BY <1>1, <1>2, <1>3, <1>4, <1>5, <1>6, <1>7, <1>8, <1>9, <1>10, <1>11, <1>12, <1>13,
     <1>14, <1>15, <1>16, <1>17, <1>18, <1>19, <1>20, <1>21, <1>22, <1>23, <1>24, <1>25,
     <1>26, <1>27, <1>28, <1>29, <1>30, <1>31, <1>32 DEF Next, Step

\* Where runs that share a tree leave its sources alone and use the file lock, no
\* unforced run starts the commands over outputs recorded as current, but for originals
\* that recover put back after the check.
THEOREM NoNeedlessBuild == Spec /\ []Disciplined => NoRebuild
<1> DEFINE Inv == IndInv /\ RebuildInv
<1>1. Init => Inv
  <2>1. Init => IndInv
    BY InitTyped, InitSafe DEF IndInv
  <2>2. Init => RebuildInv
    BY DEF Init, RebuildInv, RestoreSettled, VerdictStands, Commanded, NoFp, NoVersion
  <2> QED
    BY <2>1, <2>2
<1>2. Inv /\ [Next]_vars => Inv'
  <2> SUFFICES ASSUME Inv, [Next]_vars PROVE Inv'
    OBVIOUS
  <2>1. IndInv'
    BY Inductive
  <2>2. RestoreSettled'
    BY NextRestoreSettled DEF IndInv, RebuildInv, Typed
  <2>3. ASSUME Disciplined PROVE VerdictStands'
    <3>1. Typed /\ Safe
      BY <2>3 DEF IndInv, Typed
    <3>2. Exclusive /\ ReadingOrder /\ WholeRecorded
      BY <3>1, <2>3, OneHolder DEF Safe
    <3> QED
      BY <2>3, <3>1, <3>2, NextVerdictStands DEF RebuildInv
  <2>4. Disciplined' => Disciplined
    BY EnvConstant DEF Disciplined
  <2> QED
    BY <2>1, <2>2, <2>3, <2>4 DEF RebuildInv
<1>3. Inv /\ Disciplined =>
        [\A p \in Procs :
           pc[p] = "cmd" /\ pc'[p] = "running" /\ ~forced[p] => NeedsBuild(out)]_vars
  BY DEF RebuildInv, VerdictStands
<1> QED
  BY <1>1, <1>2, <1>3, PTL DEF Spec, NoRebuild
=============================================================================
