----------------------------- MODULE CacheLock -----------------------------
(***************************************************************************)
(* acquire_task_lock: the lock of cache.lock where one is configured and   *)
(* the file lock otherwise, or where the remote one fails.  FileLock and   *)
(* Lease are the two locks; a run is a caller of at most one at a time.    *)
(***************************************************************************)
EXTENDS FileLock

CONSTANTS TTL, MaxLate, \* of Lease
          Setups        \* what a behaviour may start with: see Setup

\* remote: the scheme of cache.lock, or none; callers: the runs that take the lock;
\* blind: who may not signal, or does not see, whom.
Setup == [remote: {"vk", "redis", "none"}, callers: SUBSET Procs, blind: SUBSET (Procs \X Procs)]

ASSUME SetupAssumption == Setups \subseteq Setup

\* A renewal, at most one interval under way, is answered within the lease it renews.
ASSUME LeaseAssumption == TTL \in Nat /\ TTL >= 2 /\ MaxLate \in Nat

VARIABLES setup, owner, ttl, stage, wait, age, beat, old, lost, late,
          split   \* ghost: the runs were not under one sound lock at some moment

L == INSTANCE Lease WITH NoProc <- NoPid,
       backend <- IF setup.remote = "none" THEN "redis" ELSE setup.remote

leaseVars == <<owner, ttl, stage, wait, age, beat, old, lost, late>>
locks     == <<setup, vars, leaseVars>>
lockVars  == <<locks, split>>

LockInit ==
  /\ setup \in Setups
  /\ blind = setup.blind
  /\ Init
  /\ owner = NoPid /\ ttl = 0
  /\ stage = [p \in Procs |-> "idle"]
  /\ wait = [p \in Procs |-> 0] /\ age = [p \in Procs |-> 0]
  /\ beat = [p \in Procs |-> "none"] /\ old = [p \in Procs |-> FALSE]
  /\ lost = [p \in Procs |-> FALSE] /\ late = [p \in Procs |-> 0]
  /\ split = FALSE

\* A lease lapsed under a run that does not know it, or one run is at the local lock
\* while another is at the remote one.
Split ==
  \/ \E p \in Procs : L!Believes(p) /\ owner # p
  \/ /\ \E p \in Procs : stage[p] = "local" /\ pc[p] \in Waiting \cup Inside
     /\ \E q \in Procs : stage[q] \in {"asking", "granted", "waiting", "held"}

\* from_url found a remote lock to ask.
AskRemote(p) ==
  /\ setup.remote # "none"
  /\ p \in setup.callers
  /\ stage[p] = "idle"
  /\ UNCHANGED <<setup, vars>>
  /\ L!Ask(p)

\* No remote lock is configured or its URL is unusable, or remote.lock failed: the file
\* lock is asked.
AskFile(p) ==
  /\ p \in setup.callers
  /\ setup.remote = "none" \/ stage[p] = "local"
  /\ Start(p)
  /\ UNCHANGED <<setup, leaseVars>>

RemoteStep(p) == UNCHANGED <<setup, vars>> /\ L!Step(p)

\* The work under the lock is done.
RemoteRelease(p) == UNCHANGED <<setup, vars>> /\ (L!VkUnlock(p) \/ L!RedisDrop(p))

RemoteFault(p) ==
  /\ UNCHANGED <<setup, vars>>
  /\ L!VkLockFails(p) \/ L!RedisLockFails(p) \/ L!LoseRenew(p) \/ L!Gone(p)

Tick == UNCHANGED <<setup, vars>> /\ L!Tick

FileStep(p) == Step(p) /\ UNCHANGED <<setup, leaseVars>>

FileFault(p) == (TimeOut(p) \/ Exit(p)) /\ UNCHANGED <<setup, leaseVars>>

LockNext ==
  /\ \/ Tick
     \/ \E p \in Procs :
          \/ AskRemote(p) \/ AskFile(p)
          \/ RemoteStep(p) \/ RemoteFault(p)
          \/ FileStep(p) \/ FileFault(p)
  /\ split' = (split \/ Split')

LockSpec == LockInit /\ [][LockNext]_lockVars

\* Both locks are polled, the heartbeats run on time, what is done under a lock ends
\* (strong fairness: the release waits for a renewal under way).
LockFairSpec ==
  /\ LockSpec
  /\ WF_locks(Tick)
  /\ \A p \in Procs :
       /\ WF_locks(FileStep(p)) /\ WF_locks(RemoteStep(p)) /\ WF_locks(AskFile(p))
       /\ SF_locks(RemoteRelease(p))

-----------------------------------------------------------------------------
(* Properties                                                              *)

Holders == {p \in Procs : pc[p] \in Inside \/ L!Believes(p)}

B == INSTANCE BuildLock WITH inside <- Holders, broken <- split \/ raced \/ usurped

\* acquire_task_lock is an exclusive lock, over every backend, until an eviction races
\* with a release or takes a holder it may not signal for dead, a lease lapses under its
\* holder or before the grant arrives, or one run falls back to the local lock while
\* another is at the remote one.
Excludes == B!Spec

\* A run whose lease lapsed stops believing in it within Grace intervals, whatever
\* replies are lost (lease_lost and key_lost, sampled by a fixed-rate ticker).
LateBounded == L!LateBounded

\* A name the server holds is only ever freed by its owner or by its TTL: a run that
\* comes late to release or renew does not touch its successor's lease.
OwnLeaseOnly ==
  [][\A p \in Procs :
       owner = p /\ owner' # p => stage'[p] = "out" \/ ttl = 1]_lockVars

\* A run at the remote lock gets past it, whatever became of the holder and of the
\* replies: what nobody renews lapses (the TTL of both backends).
RemoteEnds == \A p \in Procs : stage[p] = "waiting" ~> stage[p] \notin {"waiting", "asking"}

\* What a lease promises the run that holds it: nobody else frees it, and it does
\* not go on for long without it.
LeaseSafe == []LateBounded /\ OwnLeaseOnly

\* Nobody is left at a lock for good: a dead holder's lockfile is evicted, and a
\* lease nobody renews lapses.
LocksEnd == Evicted /\ RemoteEnds

-----------------------------------------------------------------------------
(* The inductive invariant behind Excludes and LeaseSafe                   *)

LeaseTyped ==
  /\ setup \in Setup /\ split \in BOOLEAN
  /\ owner \in Procs \cup {NoPid} /\ ttl \in 0..TTL
  /\ stage \in [Procs -> L!Stages]
  /\ wait \in [Procs -> 0..L!LongestReply] /\ age \in [Procs -> 0..TTL]
  /\ beat \in [Procs -> {"none", "due"} \cup L!InReply] /\ old \in [Procs -> BOOLEAN]
  /\ lost \in [Procs -> BOOLEAN] /\ late \in [Procs -> 0..MaxLate]

\* A run is at one lock at a time: at the file lock where there is no other or the other
\* has failed.
OneLockAtATime ==
  \A p \in Procs :
    /\ pc[p] # "idle" => setup.remote = "none" \/ stage[p] = "local"
    /\ setup.remote = "none" => stage[p] = "idle"

\* A name is owned as long as its TTL runs.
OwnedWhileAlive == owner # NoPid <=> ttl > 0

\* The age of a lease, as far as the server knows it: the time since it was granted or
\* renewed.
ServerAge(p) == IF owner = p THEN TTL - ttl ELSE TTL + late[p]

\* The reply to an acquire is as old as the lease it grants, or older.
GrantTimed ==
  \A p \in Procs :
    stage[p] = "granted" => wait[p] <= L!ReplyTime /\ ServerAge(p) <= wait[p]

\* A confirmation under way is at most one interval old.
RenewalTimed ==
  \A p \in Procs :
    L!Believes(p) /\ beat[p] = "kept" => owner = p /\ TTL - ttl <= (IF old[p] THEN 1 ELSE 0)

\* A holder's own clock is behind the server's by at most the time of a reply, and by
\* at most a TTL of what is left of the lease; once it shows a whole TTL, the renewal that is due or under way is the last one.
HolderTimed ==
  \A p \in Procs :
    L!Believes(p) =>
      /\ age[p] < TTL => ServerAge(p) <= age[p] + L!Behind
      /\ age[p] = TTL =>
           /\ beat[p] # "none"
           /\ late[p] <= L!Behind + (IF beat[p] \in L!InReply /\ old[p] THEN 1 ELSE 0)

\* Only a holder without its name grows late.
LateOnlyWithout ==
  \A p \in Procs : stage[p] # "held" \/ owner = p => late[p] = 0

\* The heartbeat runs as long as the lease is held.
BeatsWhileHeld == \A p \in Procs : stage[p] # "held" => beat[p] = "none"

LeaseTimed == BeatsWhileHeld /\ GrantTimed /\ RenewalTimed /\ HolderTimed /\ LateOnlyWithout

LockInd ==
  /\ IndInv /\ LeaseTyped /\ OneLockAtATime /\ (Split => split)
  /\ OwnedWhileAlive /\ LeaseTimed
=============================================================================
