--------------------------- MODULE CacheLockProofs ---------------------------
(***************************************************************************)
(* Exclusion of the file lock for every set of processes, and              *)
(* acquire_task_lock over every backend, for every set of runs and every   *)
(* lease of two intervals or more: it implements BuildLock, and a lease    *)
(* keeps what it promises its holder.                                      *)
(***************************************************************************)
EXTENDS CacheLock, TLAPS

USE PidAssumption

-----------------------------------------------------------------------------
(* The file lock by itself                                                 *)

\* The initial state, no lockfile and no process inside, satisfies the invariant.
LEMMA InitInv == Init => IndInv
<1> SUFFICES ASSUME Init PROVE IndInv
  OBVIOUS
<1> USE DEF Init
<1>1. TypeOK
  BY DEF TypeOK, Absent, Stages
<1>2. NamesMaker /\ StaleSeen /\ ProbedSeen /\ HolderOwnsFile
  BY DEF NamesMaker, StaleSeen, ProbedSeen, HolderOwnsFile, Inside
<1> QED
  BY <1>1, <1>2 DEF IndInv

\* Every system call of file_lock, evict_stale_lock and Guard keeps the invariant: an
\* unlink of the file that was read finds its maker gone, so nobody inside owns it, or
\* out of the sight of the evictor.
LEMMA NextInv == IndInv /\ [Next]_vars => IndInv'
<1> SUFFICES ASSUME IndInv, [Next]_vars PROVE IndInv'
  OBVIOUS
<1> USE DEF IndInv, TypeOK, NamesMaker, StaleSeen, ProbedSeen, HolderOwnsFile, Absent,
            Stages, Waiting, Inside, Goto, Lives, ProcessAlive, ghosts
<1>1. ASSUME NEW p \in Procs, Start(p) PROVE IndInv'
  BY <1>1 DEF Start
<1>2. ASSUME NEW p \in Procs, TryCreate(p) PROVE IndInv'
  BY <1>2 DEF TryCreate
<1>3. ASSUME NEW p \in Procs, WriteHolder(p) PROVE IndInv'
  BY <1>3 DEF WriteHolder
<1>4. ASSUME NEW p \in Procs, ReadHolder(p) PROVE IndInv'
  BY <1>4 DEF ReadHolder
<1>5. ASSUME NEW p \in Procs, ProbeHolder(p) PROVE IndInv'
  BY <1>5 DEF ProbeHolder
<1>6. ASSUME NEW p \in Procs, Unlink(p) PROVE IndInv'
  <2>1. TypeOK' /\ NamesMaker' /\ StaleSeen' /\ ProbedSeen'
    BY <1>6 DEF Unlink
  <2>2. seen[p] \in Procs /\ pc[p] = "unlink"
        /\ (Lives(seen[p]) => <<p, seen[p]>> \in blind)
    BY <1>6 DEF Unlink
  <2>3. ASSUME ~raced', ~usurped' PROVE HolderOwnsFile'
    <3>1. ~raced /\ ~usurped /\ (file = Absent \/ ~Lives(file.by))
      BY <1>6, <2>3 DEF Unlink
    <3>2. ASSUME NEW q \in Procs, pc[q] \in Inside PROVE FALSE
      BY <3>1, <3>2
    <3> QED
      BY <1>6, <2>2, <3>2 DEF Unlink
  <2>4. ASSUME ~raced', usurped' PROVE blind' # {}
    <3>1. CASE usurped
      BY <1>6, <2>4, <3>1 DEF Unlink
    <3>2. CASE ~usurped
      <4>1. file # Absent /\ Lives(file.by) /\ file.pid = seen[p]
        BY <1>6, <2>4, <3>2 DEF Unlink
      <4>2. file.by = seen[p]
        BY <2>2, <4>1
      <4> QED
        BY <1>6, <2>2, <4>1, <4>2 DEF Unlink
    <3> QED
      BY <3>1, <3>2
  <2> QED
    BY <2>1, <2>3, <2>4
<1>7. ASSUME NEW p \in Procs, Retry(p) PROVE IndInv'
  BY <1>7 DEF Retry
<1>8. ASSUME NEW p \in Procs, TimeOut(p) PROVE IndInv'
  BY <1>8 DEF TimeOut
<1>9. ASSUME NEW p \in Procs, Release(p) PROVE IndInv'
  BY <1>9 DEF Release
<1>10. ASSUME NEW p \in Procs, Exit(p) PROVE IndInv'
  BY <1>10 DEF Exit
<1>11. CASE UNCHANGED vars
  BY <1>11 DEF vars
<1> QED
  BY <1>1, <1>2, <1>3, <1>4, <1>5, <1>6, <1>7, <1>8, <1>9, <1>10, <1>11 DEF Next, Step

\* For any number of processes, crashing anywhere, exclusion is only ever lost through
\* an eviction that unlinks another lockfile than the one it read, or that of a live
\* process the evictor may not signal or does not see.
THEOREM Exclusion == Spec => []OneHolderUnlessRaced
<1>1. Init => IndInv
  BY InitInv
<1>2. IndInv /\ [Next]_vars => IndInv'
  BY NextInv
<1>3. IndInv => OneHolderUnlessRaced
  BY DEF IndInv, OneHolderUnlessRaced, OneHolder, HolderOwnsFile
<1> QED
  BY <1>1, <1>2, <1>3, PTL DEF Spec

-----------------------------------------------------------------------------
(* Every backend                                                           *)

USE LeaseAssumption, SetupAssumption

\* What the server, the replies and the heartbeats keep among themselves.
LeaseInd == LeaseTyped /\ OwnedWhileAlive /\ LeaseTimed

\* Before anyone asks, nobody holds, owns or waits for anything.
LEMMA InitLock == LockInit => LockInd
<1> SUFFICES ASSUME LockInit PROVE LockInd
  OBVIOUS
<1> USE DEF LockInit
<1>1. IndInv
  BY InitInv
<1>2. LeaseTyped
  <2>1. 0 \in 0..TTL /\ 0 \in 0..MaxLate /\ 0 \in 0..L!LongestReply
    BY DEF L!LongestReply
  <2>2. setup \in Setup
    OBVIOUS
  <2> QED
    BY <2>1, <2>2 DEF LeaseTyped, L!Stages, L!InReply
<1>3. OneLockAtATime /\ OwnedWhileAlive /\ ~Split
  BY DEF OneLockAtATime, OwnedWhileAlive, Split, L!Believes, Init, Waiting, Inside
<1>4. LeaseTimed
  BY DEF LeaseTimed, BeatsWhileHeld, GrantTimed, RenewalTimed, HolderTimed,
         LateOnlyWithout, L!Believes
<1> QED
  BY <1>1, <1>2, <1>3, <1>4 DEF LockInd

\* A grant starts the lease at the server, and its holder's clock a reply later.
LEMMA AcquireInv ==
  ASSUME LeaseInd, UNCHANGED setup, split' \in BOOLEAN, NEW p \in Procs,
         L!Ask(p) \/ L!VkAcquire(p) \/ L!RedisSet(p) \/ L!Hold(p)
  PROVE  LeaseInd'
<1> USE DEF LeaseInd, LeaseTyped, OwnedWhileAlive, LeaseTimed, BeatsWhileHeld, GrantTimed,
            RenewalTimed, HolderTimed, LateOnlyWithout, ServerAge, L!Believes, L!ReplyTime, L!LongestReply, L!Behind, L!Stages,
            L!InReply, L!Goto, L!server, L!hb
<1>1. CASE L!Ask(p)
  BY <1>1 DEF L!Ask
<1>2. CASE L!VkAcquire(p)
  BY <1>2 DEF L!VkAcquire
<1>3. CASE L!RedisSet(p)
  BY <1>3 DEF L!RedisSet
<1>4. CASE L!Hold(p)
  BY <1>4 DEF L!Hold
<1> QED
  BY <1>1, <1>2, <1>3, <1>4

\* A renewal that the server confirmed starts both clocks again; one that nothing is
\* heard of leaves them running, and the last one ends the belief.
LEMMA HeartbeatInv ==
  ASSUME LeaseInd, UNCHANGED setup, split' \in BOOLEAN, NEW p \in Procs,
         \/ L!SendRenew(p) \/ L!ServeRenew(p) \/ L!LoseRenew(p)
         \/ L!VkHeartbeat(p) \/ L!RedisHeartbeat(p)
  PROVE  LeaseInd'
<1> USE DEF LeaseInd, LeaseTyped, OwnedWhileAlive, LeaseTimed, BeatsWhileHeld, GrantTimed,
            RenewalTimed, HolderTimed, LateOnlyWithout, ServerAge, L!Believes, L!ReplyTime, L!LongestReply, L!Behind, L!Stages,
            L!InReply, L!Goto, L!server, L!hb
<1>1. CASE L!SendRenew(p)
  BY <1>1 DEF L!SendRenew
<1>2. CASE L!ServeRenew(p)
  BY <1>2 DEF L!ServeRenew
<1>3. CASE L!LoseRenew(p)
  BY <1>3 DEF L!LoseRenew
<1>4. CASE L!VkHeartbeat(p)
  <2> USE <1>4 DEF L!VkHeartbeat, L!Heard, L!LeaseLost
  <2>1. LeaseTyped'
    OBVIOUS
  <2>2. /\ L!Believes(p) /\ UNCHANGED <<owner, ttl, stage, wait, late>>
        /\ \A q \in Procs \ {p} :
             lost'[q] = lost[q] /\ age'[q] = age[q] /\ beat'[q] = beat[q] /\ old'[q] = old[q]
        /\ beat'[p] \in {"due", "none"}
    OBVIOUS
  <2>3. \/ lost'[p]
        \/ beat[p] = "kept" /\ age'[p] = 0
        \/ age[p] < TTL /\ age'[p] = age[p]
    <3>1. lost'[p] = L!LeaseLost(beat[p], IF beat[p] = "kept" THEN 0 ELSE age[p])
      BY Zenon
    <3>2. CASE L!LeaseLost(beat[p], IF beat[p] = "kept" THEN 0 ELSE age[p])
      BY <3>1, <3>2, Zenon
    <3>3. CASE ~L!LeaseLost(beat[p], IF beat[p] = "kept" THEN 0 ELSE age[p])
      BY <3>3
    <3> QED
      BY <3>2, <3>3
  <2> QED
    BY <2>1, <2>2, <2>3
<1>5. CASE L!RedisHeartbeat(p)
  <2> USE <1>5 DEF L!RedisHeartbeat, L!Heard, L!KeyLost
  <2>1. LeaseTyped'
    OBVIOUS
  <2>2. /\ L!Believes(p) /\ UNCHANGED <<owner, ttl, stage, wait, late>>
        /\ \A q \in Procs \ {p} :
             lost'[q] = lost[q] /\ age'[q] = age[q] /\ beat'[q] = beat[q] /\ old'[q] = old[q]
        /\ beat'[p] \in {"due", "none"}
    OBVIOUS
  <2>3. \/ lost'[p]
        \/ beat[p] = "kept" /\ age'[p] = 0
        \/ age[p] < TTL /\ age'[p] = age[p]
    <3>1. lost'[p] = L!KeyLost(beat[p], IF beat[p] = "kept" THEN 0 ELSE age[p])
      BY Zenon
    <3>2. CASE L!KeyLost(beat[p], IF beat[p] = "kept" THEN 0 ELSE age[p])
      BY <3>1, <3>2, Zenon
    <3>3. CASE ~L!KeyLost(beat[p], IF beat[p] = "kept" THEN 0 ELSE age[p])
      BY <3>3
    <3> QED
      BY <3>2, <3>3
  <2> QED
    BY <2>1, <2>2, <2>3
<1> QED
  BY <1>1, <1>2, <1>3, <1>4, <1>5

\* A run that leaves takes its clocks with it, and frees a name only if it is its own.
LEMMA LeaveInv ==
  ASSUME LeaseInd, UNCHANGED setup, split' \in BOOLEAN, NEW p \in Procs,
         \/ L!VkUnlock(p) \/ L!RedisDrop(p)
         \/ L!VkLockFails(p) \/ L!RedisLockFails(p) \/ L!Gone(p)
  PROVE  LeaseInd'
<1> USE DEF LeaseInd, LeaseTyped, OwnedWhileAlive, LeaseTimed, BeatsWhileHeld, GrantTimed,
            RenewalTimed, HolderTimed, LateOnlyWithout, ServerAge, L!Believes, L!ReplyTime, L!LongestReply, L!Behind, L!Stages,
            L!InReply, L!Goto, L!Left, L!Released, L!server, L!hb
<1>1. CASE L!VkUnlock(p)
  BY <1>1 DEF L!VkUnlock
<1>2. CASE L!RedisDrop(p)
  BY <1>2 DEF L!RedisDrop
<1>3. CASE L!VkLockFails(p)
  BY <1>3 DEF L!VkLockFails
<1>4. CASE L!RedisLockFails(p)
  BY <1>4 DEF L!RedisLockFails
<1>5. CASE L!Gone(p)
  BY <1>5 DEF L!Gone
<1> QED
  BY <1>1, <1>2, <1>3, <1>4, <1>5

\* Time passes on both sides at once, and only when no reply is overdue.
LEMMA TickInv ==
  ASSUME LeaseInd, UNCHANGED setup, split' \in BOOLEAN, L!Tick
  PROVE  LeaseInd'
<1> USE DEF LeaseInd, LeaseTyped, OwnedWhileAlive, LeaseTimed, BeatsWhileHeld, GrantTimed,
            RenewalTimed, HolderTimed, LateOnlyWithout, ServerAge, L!Believes, L!ReplyTime, L!LongestReply, L!Behind, L!Stages,
            L!InReply, L!Goto, L!server, L!hb
<1> USE DEF L!Tick, L!Capped, L!Overdue
<1>6. OwnedWhileAlive'
  OBVIOUS
<1>1. LeaseTyped'
  <2>1. ttl' \in 0..TTL /\ owner' \in Procs \cup {NoPid} /\ setup' \in Setup
    OBVIOUS
  <2>2. wait' \in [Procs -> 0..L!LongestReply] /\ age' \in [Procs -> 0..TTL]
    OBVIOUS
  <2>3. late' \in [Procs -> 0..MaxLate]
    OBVIOUS
  <2>4. beat' \in [Procs -> {"none", "due"} \cup L!InReply] /\ old' \in [Procs -> BOOLEAN]
    OBVIOUS
  <2> QED
    BY <2>1, <2>2, <2>3, <2>4
<1>2. BeatsWhileHeld' /\ LateOnlyWithout'
  OBVIOUS
<1>3. GrantTimed'
  OBVIOUS
<1>4. RenewalTimed'
  OBVIOUS
<1>5. HolderTimed'
  <2> SUFFICES ASSUME NEW p \in Procs, L!Believes(p)'
               PROVE  /\ age'[p] < TTL => ServerAge(p)' <= age'[p] + L!Behind'
                      /\ age'[p] = TTL =>
                           /\ beat'[p] # "none"
                           /\ late'[p] <= L!Behind'
                                + (IF beat'[p] \in L!InReply /\ old'[p] THEN 1 ELSE 0)
    OBVIOUS
  <2>1. CASE age[p] = TTL
    BY <2>1
  <2>2. CASE age[p] < TTL /\ owner = p
    BY <2>2
  <2>3. CASE age[p] < TTL /\ owner # p
    BY <2>3
  <2> QED
    BY <2>1, <2>2, <2>3
<1> QED
  BY <1>1, <1>2, <1>3, <1>4, <1>5, <1>6

\* What nobody touches keeps its timing: a step at the file lock.
LEMMA LeaseStutter ==
  ASSUME LeaseInd, UNCHANGED <<setup, leaseVars>>, split' \in BOOLEAN
  PROVE  LeaseInd'
BY DEF LeaseInd, LeaseTyped, OwnedWhileAlive, LeaseTimed, BeatsWhileHeld, GrantTimed,
       RenewalTimed, HolderTimed, LateOnlyWithout, ServerAge, L!Believes, L!ReplyTime, L!LongestReply, L!Behind,
       leaseVars

\* Every step of acquire_task_lock, at either lock, keeps the invariant.
LEMMA NextLock == LockInd /\ [LockNext]_lockVars => LockInd'
<1> SUFFICES ASSUME LockInd, [LockNext]_lockVars PROVE LockInd'
  OBVIOUS
<1>1. LeaseInd
  BY DEF LockInd, LeaseInd
<1>2. CASE UNCHANGED lockVars
  <2>1. UNCHANGED vars /\ UNCHANGED <<setup, leaseVars>> /\ UNCHANGED split
    BY <1>2 DEF lockVars, locks
  <2>2. IndInv'
    BY <2>1, NextInv DEF LockInd
  <2>3. LeaseInd'
    BY <1>1, <2>1, LeaseStutter DEF LeaseInd, LeaseTyped
  <2>4. OneLockAtATime' /\ (Split => split)'
    BY <2>1 DEF LockInd, OneLockAtATime, Split, L!Believes, vars, leaseVars
  <2> QED
    BY <2>2, <2>3, <2>4 DEF LockInd, LeaseInd
<1>3. CASE LockNext
  <2>1. (Split => split)' /\ split' \in BOOLEAN
    <3>1. split \in BOOLEAN /\ split' = (split \/ Split')
      BY <1>1, <1>3 DEF LockNext, LeaseInd, LeaseTyped
    <3> QED
      BY <3>1
  <2>2. CASE Tick
    <3>1. IndInv'
      BY <2>2, NextInv DEF LockInd, Tick
    <3>2. LeaseInd'
      BY <1>1, <2>1, <2>2, TickInv DEF Tick
    <3>3. OneLockAtATime'
      BY <2>2 DEF Tick, L!Tick, LockInd, OneLockAtATime, vars
    <3> QED
      BY <2>1, <3>1, <3>2, <3>3 DEF LockInd, LeaseInd
  <2>3. ASSUME NEW p \in Procs, AskRemote(p) \/ RemoteStep(p) \/ RemoteFault(p)
        PROVE  LockInd'
    <3> USE DEF AskRemote, RemoteStep, RemoteFault, L!Step
    <3>1. UNCHANGED setup /\ UNCHANGED vars
      BY <2>3
    <3>2. IndInv'
      BY <3>1, NextInv DEF LockInd
    <3>3. LeaseInd'
      BY <1>1, <2>1, <2>3, <3>1, AcquireInv, HeartbeatInv, LeaveInv
    <3>4. OneLockAtATime'
      <4>1. /\ setup.remote = "none" => stage[p] = "idle" /\ beat[p] = "none"
            /\ pc[p] = "idle" \/ setup.remote = "none" \/ stage[p] = "local"
            /\ beat[p] = "none" \/ stage[p] = "held"
        BY <1>1 DEF LockInd, OneLockAtATime, LeaseInd, LeaseTimed, BeatsWhileHeld
      <4>2. /\ \A q \in Procs \ {p} : stage'[q] = stage[q]
            /\ stage' = stage \/ (stage[p] # "local" /\ setup.remote # "none")
        BY <1>1, <2>3, <4>1
           DEF LeaseInd, LeaseTyped, L!Ask, L!VkAcquire, L!RedisSet, L!Hold, L!SendRenew,
               L!ServeRenew, L!LoseRenew, L!VkHeartbeat, L!RedisHeartbeat, L!Heard, L!VkUnlock,
               L!RedisDrop, L!VkLockFails, L!RedisLockFails, L!Gone, L!Left, L!Goto, L!InReply,
               L!Believes
      <4> QED
        BY <3>1, <4>1, <4>2 DEF LockInd, OneLockAtATime, vars
    <3> QED
      BY <2>1, <3>2, <3>3, <3>4 DEF LockInd, LeaseInd
  <2>4. ASSUME NEW p \in Procs, AskFile(p) \/ FileStep(p) \/ FileFault(p)
        PROVE  LockInd'
    <3> USE DEF AskFile, FileStep, FileFault
    <3>1. Next /\ UNCHANGED <<setup, leaseVars>>
      BY <2>4 DEF Next
    <3>2. IndInv'
      BY <3>1, NextInv DEF LockInd
    <3>3. LeaseInd'
      BY <1>1, <2>1, <3>1, LeaseStutter
    <3>4. OneLockAtATime'
      <4>1. /\ \A q \in Procs \ {p} : pc'[q] = pc[q]
            /\ pc[p] # "idle" \/ setup.remote = "none" \/ stage[p] = "local"
        BY <2>4 DEF LockInd, IndInv, TypeOK, Start, Step, TryCreate, WriteHolder, ReadHolder,
                    ProbeHolder, Unlink, Retry, TimeOut, Release, Exit, Goto
      <4> QED
        BY <3>1, <4>1 DEF LockInd, OneLockAtATime, leaseVars
    <3> QED
      BY <2>1, <3>2, <3>3, <3>4 DEF LockInd, LeaseInd
  <2> QED
    BY <1>3, <2>2, <2>3, <2>4 DEF LockNext
<1> QED
  BY <1>2, <1>3

-----------------------------------------------------------------------------
(* acquire_task_lock implements BuildLock                                  *)

\* At most one run holds the lock, over both backends, until exclusion is given up.
OneHolds == ~(split \/ raced \/ usurped) => \A p, q \in Holders : p = q

\* Until exclusion is given up, two holders are one: the file lock has one maker, the
\* name one owner, and nobody is at the file lock while another is at the remote one.
LEMMA AtMostOne == LockInd => OneHolds
<1> SUFFICES ASSUME LockInd, ~(split \/ raced \/ usurped), NEW p \in Holders, NEW q \in Holders
             PROVE  p = q
  BY DEF OneHolds
<1>1. HolderOwnsFile /\ ~Split /\ OneLockAtATime
  BY DEF LockInd, IndInv
<1>2. p \in Procs /\ q \in Procs
  BY DEF Holders
<1>3. ASSUME NEW x \in Procs, NEW y \in Procs, pc[x] \in Inside, L!Believes(y) PROVE FALSE
  <2>1. stage[y] = "held" /\ setup.remote # "none"
    BY <1>1, <1>3 DEF OneLockAtATime, L!Believes
  <2>2. stage[x] = "local"
    BY <1>1, <1>3, <2>1 DEF OneLockAtATime, Inside
  <2> QED
    BY <1>1, <1>3, <2>1, <2>2 DEF Split
<1>4. CASE pc[p] \in Inside /\ pc[q] \in Inside
  BY <1>1, <1>2, <1>4 DEF HolderOwnsFile
<1>5. CASE L!Believes(p) /\ L!Believes(q)
  BY <1>1, <1>2, <1>5 DEF Split
<1> QED
  BY <1>2, <1>3, <1>4, <1>5 DEF Holders

\* A step moves one run at most into the lock or out of it: time passing moves nobody,
\* every other step is one run's.
LEMMA OneRunMoves ==
  ASSUME LockInd, LockNext
  PROVE  \/ Holders' = Holders
         \/ \E p \in Procs : \A q \in Procs \ {p} : q \in Holders' <=> q \in Holders
<1>1. CASE Tick
  BY <1>1 DEF Tick, L!Tick, Holders, L!Believes, vars
<1>2. ASSUME NEW p \in Procs, AskRemote(p) \/ RemoteStep(p) \/ RemoteFault(p)
      PROVE  \A q \in Procs \ {p} : q \in Holders' <=> q \in Holders
  <2>1. UNCHANGED pc /\ \A q \in Procs \ {p} : stage'[q] = stage[q] /\ lost'[q] = lost[q]
    BY <1>2
       DEF AskRemote, RemoteStep, RemoteFault, L!Step, LockInd, LeaseTyped, vars, L!Ask,
           L!VkAcquire, L!RedisSet, L!Hold, L!SendRenew, L!ServeRenew, L!LoseRenew,
           L!VkHeartbeat, L!RedisHeartbeat, L!Heard, L!VkUnlock, L!RedisDrop, L!VkLockFails,
           L!RedisLockFails, L!Gone, L!Left, L!Goto
  <2> QED
    BY <2>1 DEF Holders, L!Believes
<1>3. ASSUME NEW p \in Procs, AskFile(p) \/ FileStep(p) \/ FileFault(p)
      PROVE  \A q \in Procs \ {p} : q \in Holders' <=> q \in Holders
  <2>1. UNCHANGED <<stage, lost>> /\ \A q \in Procs \ {p} : pc'[q] = pc[q]
    BY <1>3
       DEF AskFile, FileStep, FileFault, leaseVars, LockInd, IndInv, TypeOK, Start, Step,
           TryCreate, WriteHolder, ReadHolder, ProbeHolder, Unlink, Retry, TimeOut, Release,
           Exit, Goto
  <2> QED
    BY <2>1 DEF Holders, L!Believes
<1> QED
  BY <1>1, <1>2, <1>3 DEF LockNext

\* Once given up, exclusion is not promised again.
LEMMA StaysBroken ==
  ASSUME LockInd, LockNext, split \/ raced \/ usurped
  PROVE  split' \/ raced' \/ usurped'
<1>1. CASE split
  BY <1>1 DEF LockNext
<1>2. UNCHANGED ghosts \/ \E p \in Procs : Unlink(p)
  BY DEF LockNext, Tick, AskRemote, RemoteStep, RemoteFault, AskFile, FileStep, FileFault, vars,
         Start, Step, TryCreate, WriteHolder, ReadHolder, ProbeHolder, Retry, TimeOut, Release, Exit
<1>3. CASE UNCHANGED ghosts
  BY <1>1, <1>3 DEF ghosts
<1>4. ASSUME NEW p \in Procs, Unlink(p) PROVE split' \/ raced' \/ usurped'
  BY <1>1, <1>4 DEF Unlink
<1> QED
  BY <1>2, <1>3, <1>4

\* Every step maps to an entry, a departure, a break or no step of BuildLock.
LEMMA StepExcludes ==
  LockInd /\ OneHolds' /\ [LockNext]_lockVars => [B!Next]_<<Holders, split \/ raced \/ usurped>>
<1> SUFFICES ASSUME LockInd, OneHolds', [LockNext]_lockVars
             PROVE  [B!Next]_<<Holders, split \/ raced \/ usurped>>
  OBVIOUS
<1> DEFINE broken == split \/ raced \/ usurped
<1>1. CASE UNCHANGED lockVars
  BY <1>1 DEF lockVars, locks, vars, ghosts, leaseVars, Holders, L!Believes
<1>2. CASE LockNext
  <2>1. broken \in BOOLEAN /\ broken' \in BOOLEAN /\ (broken => broken')
    BY <1>2, StaysBroken DEF LockInd, LeaseTyped, IndInv, TypeOK
  <2>2. broken' \in {broken, TRUE}
    BY <2>1
  <2>3. CASE Holders' = Holders
    <3>1. broken' = broken \/ broken' = TRUE
      BY <2>2
    <3> QED
      BY <2>3, <3>1 DEF B!Next, B!Break
  <2>4. CASE Holders' # Holders
    <3>1. PICK p \in Procs : \A q \in Procs \ {p} : q \in Holders' <=> q \in Holders
      BY <1>2, <2>4, OneRunMoves
    <3>2. Holders \subseteq Procs /\ Holders' \subseteq Procs
      BY DEF Holders
    <3>3. CASE p \in Holders
      <4>1. Holders' = Holders \ {p}
        BY <2>4, <3>1, <3>2, <3>3
      <4> QED
        BY <2>2, <3>3, <4>1 DEF B!Next, B!Leave
    <3>4. CASE p \notin Holders
      <4>1. Holders' = Holders \cup {p}
        BY <2>4, <3>1, <3>2, <3>4
      <4>2. Holders = {} \/ broken'
        <5> SUFFICES ASSUME ~broken', NEW q \in Holders PROVE FALSE
          BY <2>1
        <5> QED
          BY <3>4, <4>1 DEF OneHolds
      <4> QED
        BY <2>2, <3>4, <4>1, <4>2 DEF B!Next, B!Enter
    <3> QED
      BY <3>3, <3>4
  <2> QED
    BY <2>3, <2>4
<1> QED
  BY <1>1, <1>2

\* acquire_task_lock, over either backend and with its fall-back, is an exclusive lock
\* until one of the four things that are known to break it happens, for every number of
\* runs and every crash, lost reply and clock.
THEOREM Exclusive == LockSpec => Excludes
<1>1. LockInit => B!Init
  BY DEF LockInit, Init, B!Init, Holders, Inside, L!Believes
<1>2. LockInit => LockInd
  BY InitLock
<1>3. LockInd /\ [LockNext]_lockVars => LockInd'
  BY NextLock
<1>4. LockInd /\ OneHolds' /\ [LockNext]_lockVars => [B!Next]_<<Holders, split \/ raced \/ usurped>>
  BY StepExcludes
<1>5. LockInd => OneHolds
  BY AtMostOne
<1> QED
  BY <1>1, <1>2, <1>3, <1>4, <1>5, PTL DEF LockSpec, Excludes, B!Spec, B!vars

-----------------------------------------------------------------------------
(* What a lease promises its holder                                        *)

\* A holder's clock is at most a reply, or a lease, behind the server's, and stops it one
\* interval after it shows a TTL.
LEMMA LateEnough == LockInd => LateBounded
<1> SUFFICES ASSUME LockInd, NEW p \in Procs, L!Believes(p) PROVE late[p] <= L!Grace
  BY DEF LateBounded, L!LateBounded
<1>1. late[p] \in Nat /\ age[p] \in 0..TTL
  BY DEF LockInd, LeaseTyped
<1>2. owner = p => late[p] = 0
  BY DEF LockInd, LeaseTimed, LateOnlyWithout
<1>3. /\ age[p] < TTL => ServerAge(p) <= age[p] + L!Behind
      /\ age[p] = TTL => late[p] <= L!Behind + 1
  BY <1>1 DEF LockInd, LeaseTimed, HolderTimed, L!ReplyTime, L!LongestReply, L!Behind
<1> QED
  BY <1>1, <1>2, <1>3 DEF ServerAge, L!ReplyTime, L!LongestReply, L!Behind, L!Grace

\* A name leaves its owner through its own release or with its TTL.
LEMMA OwnOnly ==
  ASSUME LockInd, [LockNext]_lockVars, NEW p \in Procs, owner = p, owner' # p
  PROVE  stage'[p] = "out" \/ ttl = 1
<1>1. p # NoPid /\ ttl > 0 /\ ttl \in Nat /\ stage \in [Procs -> L!Stages]
  BY DEF LockInd, OwnedWhileAlive, LeaseTyped
<1>2. CASE Tick
  BY <1>1, <1>2 DEF Tick, L!Tick
<1>3. ASSUME NEW q \in Procs, AskRemote(q) \/ RemoteStep(q) \/ RemoteFault(q)
      PROVE  stage'[p] = "out"
  <2>1. L!VkUnlock(q) \/ L!RedisDrop(q)
    BY <1>1, <1>3
       DEF AskRemote, RemoteStep, RemoteFault, L!Step, L!Ask, L!VkAcquire, L!RedisSet, L!Hold,
           L!SendRenew, L!ServeRenew, L!LoseRenew, L!VkHeartbeat, L!RedisHeartbeat, L!Heard,
           L!VkLockFails, L!RedisLockFails, L!Gone, L!server
  <2>2. q = p
    BY <2>1 DEF L!VkUnlock, L!RedisDrop, L!Released
  <2> QED
    BY <1>1, <2>1, <2>2 DEF L!VkUnlock, L!RedisDrop, L!Left, L!Goto
<1>4. ASSUME NEW q \in Procs, AskFile(q) \/ FileStep(q) \/ FileFault(q) PROVE FALSE
  BY <1>4 DEF AskFile, FileStep, FileFault, leaseVars
<1>5. CASE UNCHANGED lockVars
  BY <1>5 DEF lockVars, locks, leaseVars
<1> QED
  BY <1>2, <1>3, <1>4, <1>5 DEF LockNext

\* Whatever replies are lost, a run whose lease lapsed stops believing in it within a
\* reply's time, or a lease where that is shorter, and one interval, and no late release
\* or renewal touches a successor's lease: for every number of runs, every TTL of at
\* least two intervals, and both backends.
THEOREM LeaseKept == LockSpec => LeaseSafe
<1>1. LockInit => LockInd
  BY InitLock
<1>2. LockInd /\ [LockNext]_lockVars => LockInd'
  BY NextLock
<1>3. LockInd => LateBounded
  BY LateEnough
<1>4. LockInd /\ [LockNext]_lockVars
        => [\A p \in Procs :
              owner = p /\ owner' # p => stage'[p] = "out" \/ ttl = 1]_lockVars
  BY OwnOnly
<1> QED
  BY <1>1, <1>2, <1>3, <1>4, PTL DEF LockSpec, LeaseSafe, OwnLeaseOnly
=============================================================================
