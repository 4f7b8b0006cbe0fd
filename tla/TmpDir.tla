------------------------------- MODULE TmpDir -------------------------------
(***************************************************************************)
(* The temporary directories of sandboxed runs, shared by every process that *)
(* uses the same .task: private_tmp, TmpLock, remove_tmp and                *)
(* remove_stale_tmp of taskcore/src/sandbox/policy.rs, a system call at a   *)
(* time.  A run's directory has a name of its own (process, count, random). *)
(*                                                                          *)
(* A lock file is the inode [run, attempt], at its setup name, at the lock  *)
(* name, or unlinked.  A sweep looks at one name at a time, in any order.   *)
(***************************************************************************)
EXTENDS Naturals, FiniteSets

CONSTANTS
  Runs,       \* runs with a temporary directory
  Sweeps,     \* calls of remove_stale_tmp
  Proc,       \* the process of each run and sweep
  PosixLocks, \* flock gives no protection within a process (NFS)
  Attempts    \* setup names tried: 4

None == "none"
VARIABLES setup,  \* the setup names that exist, [run, attempt]
          lock,   \* the attempt whose inode is at the run's lock name, 0 for none
          dir,    \* whether the run's directory exists
          held,   \* who holds the flock on an inode: a run, a sweep, or None
          live,   \* live(): per process
          pc,     \* of a run
          try,    \* its attempt
          sw,     \* of a sweep: [pc, kind, run, at]
          left    \* history: runs that are gone and may have left something

vars == <<setup, lock, dir, held, live, pc, try, sw, left>>

Inodes == Runs \X (1..Attempts)
Procs == {Proc[x] : x \in Runs \union Sweeps}
Idle == [pc |-> "idle", kind |-> "none", run |-> None, at |-> 0]

ParametersOK ==
  /\ Runs \cap Sweeps = {} /\ None \notin Runs \union Sweeps
  /\ PosixLocks \in BOOLEAN /\ Attempts \in Nat \ {0}

Stages == {"create", "flock", "rename", "enlist", "mkdir", "live", "rmlock", "drop", "done",
           "failed", "crashed"}
SweepStates == [pc : {"idle", "try", "rmdir", "rm", "seen", "rmonly", "crashed"},
                kind : {"none", "lock", "setup", "dir"}, run : Runs \union {None}, at : 0..Attempts]

TypeOK ==
  /\ setup \subseteq Inodes /\ lock \in [Runs -> 0..Attempts] /\ dir \in [Runs -> BOOLEAN]
  /\ held \in [Inodes -> Runs \union Sweeps \union {None}] /\ live \in [Procs -> SUBSET Runs]
  /\ pc \in [Runs -> Stages] /\ try \in [Runs -> 1..Attempts]
  /\ sw \in [Sweeps -> SweepStates] /\ left \subseteq Runs

Init ==
  /\ setup = {} /\ lock = [r \in Runs |-> 0] /\ dir = [r \in Runs |-> FALSE]
  /\ held = [i \in Inodes |-> None] /\ live = [p \in Procs |-> {}]
  /\ pc = [r \in Runs |-> "create"] /\ try = [r \in Runs |-> 1]
  /\ sw = [s \in Sweeps |-> Idle] /\ left = {}

Goto(r, to) == pc' = [pc EXCEPT ![r] = to]
\* flock: who could take an inode's lock.
MayLock(x, i) == held[i] = None \/ (PosixLocks /\ held[i] \in {y \in Runs \union Sweeps : Proc[y] = Proc[x]})

(***************************************************************************)
(* A run: private_tmp.                                                     *)
(***************************************************************************)
CreateSetup(r) ==
  /\ pc[r] = "create" /\ Goto(r, "flock")
  /\ setup' = setup \union {<<r, try[r]>>}
  /\ UNCHANGED <<lock, dir, held, live, try, sw, left>>

\* Mutant: renamed first, locked after.
LockSetup_Later(r) ==
  /\ pc[r] = "flock" /\ Goto(r, "rename")
  /\ UNCHANGED <<setup, lock, dir, held, live, try, sw, left>>
LockSetup(r) ==
  /\ pc[r] = "flock" /\ MayLock(r, <<r, try[r]>>) /\ Goto(r, "rename")
  /\ held' = [held EXCEPT ![<<r, try[r]>>] = r]
  /\ UNCHANGED <<setup, lock, dir, live, try, sw, left>>

\* A concurrent sweep took the setup file for a leftover: try another name.
RenameSetup(r) ==
  /\ pc[r] = "rename"
  /\ IF <<r, try[r]>> \in setup
     THEN /\ setup' = setup \ {<<r, try[r]>>} /\ lock' = [lock EXCEPT ![r] = try[r]]
          /\ Goto(r, "enlist") /\ UNCHANGED <<held, try, left>>
     ELSE /\ held' = [held EXCEPT ![<<r, try[r]>>] = None] /\ UNCHANGED <<setup, lock>>
          /\ IF try[r] < Attempts
             THEN try' = [try EXCEPT ![r] = @ + 1] /\ Goto(r, "create") /\ UNCHANGED left
             ELSE Goto(r, "failed") /\ left' = left \union {r} /\ UNCHANGED try
  /\ UNCHANGED <<dir, live, sw>>

Enlist(r) ==
  /\ pc[r] = "enlist" /\ Goto(r, "mkdir")
  /\ live' = [live EXCEPT ![Proc[r]] = @ \union {r}]
  /\ UNCHANGED <<setup, lock, dir, held, try, sw, left>>

MakeDir(r) ==
  /\ pc[r] = "mkdir" /\ Goto(r, "live")
  /\ dir' = [dir EXCEPT ![r] = TRUE]
  /\ UNCHANGED <<setup, lock, held, live, try, sw, left>>

(***************************************************************************)
(* remove_tmp once its commands are done, each removal best effort (gone    *)
(* tells whether it succeeds), and the drop of the policy.                  *)
(***************************************************************************)
RemoveDir(r, gone) ==
  /\ pc[r] = "live" /\ Goto(r, "rmlock")
  /\ dir' = IF gone THEN [dir EXCEPT ![r] = FALSE] ELSE dir
  /\ UNCHANGED <<setup, lock, held, live, try, sw, left>>
RemoveLock(r, gone) ==
  /\ pc[r] = "rmlock" /\ Goto(r, "drop")
  /\ lock' = IF gone THEN [lock EXCEPT ![r] = 0] ELSE lock
  /\ UNCHANGED <<setup, dir, held, live, try, sw, left>>
DropPolicy(r) ==
  /\ pc[r] = "drop" /\ Goto(r, "done")
  /\ live' = [live EXCEPT ![Proc[r]] = @ \ {r}]
  /\ held' = [held EXCEPT ![<<r, try[r]>>] = None]
  /\ left' = left \union {r}
  /\ UNCHANGED <<setup, lock, dir, try, sw>>

\* The process dies: its locks and live set go with it.
Crash(p) ==
  /\ \E r \in Runs : Proc[r] = p /\ pc[r] \notin {"done", "failed", "crashed"}
  /\ pc' = [r \in Runs |-> IF Proc[r] = p /\ pc[r] # "done" THEN "crashed" ELSE pc[r]]
  /\ held' = [i \in Inodes |-> IF held[i] # None /\ Proc[held[i]] = p THEN None ELSE held[i]]
  /\ live' = [live EXCEPT ![p] = {}]
  /\ sw' = [s \in Sweeps |-> IF Proc[s] = p THEN [Idle EXCEPT !.pc = "crashed"] ELSE sw[s]]
  /\ left' = left \union {r \in Runs : Proc[r] = p /\ pc[r] # "done"}
  /\ UNCHANGED <<setup, lock, dir, try>>

(***************************************************************************)
(* remove_stale_tmp: one entry at a time.  A lock file of a live run of     *)
(* this process is skipped; any other is removed if its lock can be taken.  *)
(***************************************************************************)
At(s, to) == sw' = [sw EXCEPT ![s].pc = to]
OpenLock(s, r) ==
  /\ sw[s].pc = "idle" /\ lock[r] # 0 /\ r \notin live[Proc[s]]
  /\ sw' = [sw EXCEPT ![s] = [pc |-> "try", kind |-> "lock", run |-> r, at |-> lock[r]]]
  /\ UNCHANGED <<setup, lock, dir, held, live, pc, try, left>>
OpenSetup(s, i) ==
  /\ sw[s].pc = "idle" /\ i \in setup
  /\ sw' = [sw EXCEPT ![s] = [pc |-> "try", kind |-> "setup", run |-> i[1], at |-> i[2]]]
  /\ UNCHANGED <<setup, lock, dir, held, live, pc, try, left>>
TryLock(s) ==
  LET i == <<sw[s].run, sw[s].at>>
  IN  /\ sw[s].pc = "try"
      /\ IF MayLock(s, i)
         THEN /\ held' = [held EXCEPT ![i] = IF @ = None THEN s ELSE @]
              /\ At(s, IF sw[s].kind = "lock" THEN "rmdir" ELSE "rm")
         ELSE sw' = [sw EXCEPT ![s] = Idle] /\ UNCHANGED held
      /\ UNCHANGED <<setup, lock, dir, live, pc, try, left>>
SweepDir(s, gone) ==
  /\ sw[s].pc = "rmdir" /\ At(s, "rm")
  /\ dir' = IF gone THEN [dir EXCEPT ![sw[s].run] = FALSE] ELSE dir
  /\ UNCHANGED <<setup, lock, held, live, pc, try, left>>
\* remove_file by name, then the descriptor is closed.
SweepFile(s, gone) ==
  LET i == <<sw[s].run, sw[s].at>>
  IN  /\ sw[s].pc = "rm" /\ sw' = [sw EXCEPT ![s] = Idle]
      /\ lock' = IF gone /\ sw[s].kind = "lock" THEN [lock EXCEPT ![sw[s].run] = 0] ELSE lock
      /\ setup' = IF gone /\ sw[s].kind # "lock" THEN setup \ {i} ELSE setup
      /\ held' = [held EXCEPT ![i] = IF @ = s THEN None ELSE @]
      /\ UNCHANGED <<dir, live, pc, try, left>>
\* A directory: listed, then its lock file looked for, then the live set.
SeeDir(s, r) ==
  /\ sw[s].pc = "idle" /\ dir[r]
  /\ sw' = [sw EXCEPT ![s] = [pc |-> "seen", kind |-> "dir", run |-> r, at |-> 0]]
  /\ UNCHANGED <<setup, lock, dir, held, live, pc, try, left>>
LookForLock(s) ==
  /\ sw[s].pc = "seen"
  /\ IF lock[sw[s].run] # 0 \/ sw[s].run \in live[Proc[s]]
     THEN sw' = [sw EXCEPT ![s] = Idle] ELSE At(s, "rmonly")
  /\ UNCHANGED <<setup, lock, dir, held, live, pc, try, left>>
SweepBareDir(s, gone) ==
  /\ sw[s].pc = "rmonly" /\ sw' = [sw EXCEPT ![s] = Idle]
  /\ dir' = IF gone THEN [dir EXCEPT ![sw[s].run] = FALSE] ELSE dir
  /\ UNCHANGED <<setup, lock, held, live, pc, try, left>>

\* The steps of a sweep once it has an entry in hand.
Goes(s) ==
  \/ TryLock(s) \/ LookForLock(s)
  \/ \E gone \in BOOLEAN : SweepDir(s, gone) \/ SweepFile(s, gone) \/ SweepBareDir(s, gone)

Next ==
  \/ \E r \in Runs : CreateSetup(r) \/ LockSetup(r) \/ RenameSetup(r) \/ Enlist(r) \/ MakeDir(r)
                       \/ DropPolicy(r) \/ \E gone \in BOOLEAN : RemoveDir(r, gone) \/ RemoveLock(r, gone)
  \/ \E s \in Sweeps, r \in Runs : OpenLock(s, r) \/ SeeDir(s, r)
  \/ \E s \in Sweeps, i \in Inodes : OpenSetup(s, i)
  \/ \E s \in Sweeps : Goes(s)
  \/ \E p \in Procs : Crash(p)
Spec == Init /\ [][Next]_vars

(***************************************************************************)
(* Properties.                                                             *)
(***************************************************************************)
\* A run that is using its temporary directory has it: no sweep, of its own or of
\* another process, removes it (remove_stale_tmp: "Safe to run concurrently").
LiveDirKept == \A r \in Runs : pc[r] = "live" => dir[r]

\* What runs that are gone have left, crashed, failed or done with a removal that did
\* not succeed, is removed in the end, by the sweeps of the processes that go on.
Swept(r) == ~dir[r] /\ lock[r] = 0 /\ ~\E i \in setup : i[1] = r

-----------------------------------------------------------------------------
(* The inductive invariant behind LiveDirKept                              *)

\* A run holds the lock of its inode from the rename to the drop of its policy.
OwnLock ==
  \A r \in Runs :
    pc[r] \in {"rename", "enlist", "mkdir", "live", "rmlock", "drop"} => held[<<r, try[r]>>] = r

\* Renamed: the inode at the lock name is, or was, that of the last attempt.
Named == {"enlist", "mkdir", "live", "rmlock", "drop", "done", "crashed"}
LockNamed ==
  \A r \in Runs :
    /\ pc[r] \in {"enlist", "mkdir", "live", "rmlock"} => lock[r] = try[r]
    /\ lock[r] # 0 => pc[r] \in Named /\ lock[r] = try[r]

\* A directory is there only after MakeDir.
DirMade == \A r \in Runs : dir[r] => pc[r] \in {"live", "rmlock", "drop", "done", "crashed"}

\* What a sweep with an entry in hand knows of the entry's run.
SweepKnows(s) ==
  LET r == sw[s].run IN
  /\ sw[s].pc \in {"try", "rmdir", "rm"} =>
       /\ r \in Runs /\ sw[s].at \in 1..Attempts
       /\ sw[s].kind = "lock" => pc[r] \in Named /\ sw[s].at = try[r]
  /\ sw[s].pc \in {"rmdir", "rm"} => held[<<r, sw[s].at>>] = s
  /\ sw[s].pc = "rmdir" => sw[s].kind = "lock"
  /\ sw[s].pc = "seen" => r \in Runs /\ pc[r] \in {"live", "rmlock", "drop", "done", "crashed"}
  /\ sw[s].pc = "rmonly" => r \in Runs /\ pc[r] \in {"drop", "done", "crashed"}

TmpDirInd ==
  /\ TypeOK /\ OwnLock /\ LockNamed /\ DirMade /\ LiveDirKept
  /\ \A s \in Sweeps : SweepKnows(s)
=============================================================================
