------------------------------ MODULE TaskRun ------------------------------
(***************************************************************************)
(* Invocations of one fingerprinted task (`sources`, `generates`, `cache`) *)
(* in one working tree: Executor::execute and Executor::execute_locked,    *)
(* with the fingerprint state file of ChecksumChecker, the build cache of  *)
(* cache_restore / cache_save, and the build-once lock as an abstract lock *)
(* (FileLock models its default implementation).                           *)
(*                                                                         *)
(* The sources are abstracted to a version number, the generated files to  *)
(* the version they were built from, and a checksum to the thing it is     *)
(* the checksum of.  An edit always makes a new version, so a source tree  *)
(* that is changed and changed back during a run is not modelled.          *)
(* A process runs the task once; `--dry` runs are left out.                *)
(***************************************************************************)
EXTENDS Integers

CONSTANTS Procs,       \* invocations of task
          NoProc,      \* no invocation: a free lock, no pending restore
          MaxVersion,  \* bound on the number of edits of the sources
          KeyedUrl,    \* does cache.url contain {{CHECKSUM}}?
          Envs         \* the environments a behaviour may start in

(***************************************************************************)
(* What the surroundings may do.  overlap: runs share the tree at the same *)
(* time.  edits: the sources may be edited while a run is in flight.       *)
(* remote: cache.lock names a lease server.  orphans: a command, or the    *)
(* blocking thread that writes a restore, may outlive the cancellation of  *)
(* the run that started it.                                                *)
(***************************************************************************)
Environments == [overlap: BOOLEAN, edits: BOOLEAN, remote: BOOLEAN, orphans: BOOLEAN]

ASSUME ProcsAssumption == NoProc \notin Procs
ASSUME VersionAssumption == MaxVersion \in Nat
ASSUME UrlAssumption == KeyedUrl \in BOOLEAN
ASSUME EnvAssumption == Envs \subseteq Environments

Versions  == 0..MaxVersion
NoVersion == -1              \* an empty checksum
Nothing   == -2              \* no generated files
Partial   == -3              \* a command, or one cut short, is writing them
Outputs   == Versions \cup {Nothing, Partial}
Kinds     == {"remote", "local"}
LockNames == Kinds \X Versions

\* A cancelled run whose restore was not undone is abandoned: its journal is left.
Terminal == {"done", "failed", "cancelled", "abandoned", "dead"}
Locked   == {"check", "compare", "recover", "restore", "assemble", "verify", "record",
             "commit", "deps", "cmd", "running", "ran", "reading", "publish", "save"}
\* A cancelled run's command, or its restore's thread, is still writing.
Adrift   == {"orphan", "detached"}
Stages   == {"idle", "setup", "finalize", "lock"} \cup Adrift \cup Locked \cup Terminal

\* An absent state file or cache entry reads as empty checksums.
NoFp    == [sources |-> NoVersion, generates |-> NoVersion, via |-> "none"]
NoEntry == [sources |-> NoVersion, generates |-> NoVersion, content |-> NoVersion]

VARIABLES
  env,     \* the environment of this behaviour
  src,     \* version of the source files
  out,     \* what the generated files hold
  outBy,   \* the run whose unverified restore put them there
  fp,      \* the state file under <temp>/checksum; via is a ghost: who wrote it
  cache,   \* cache entries by slot
  lock,    \* holder of each lock name
  pc,      \* stage of each run
  forced,  \* the run skips the up-to-date check (--force, --force-all)
  kind,    \* which lock the run asks for
  lost,    \* Guard::is_lost
  key,     \* source_hash and cache_checksum: the run's sources value
  pre,     \* ChecksumChecker.pre_exec
  meta,    \* generates checksum of the restored entry
  pulled,  \* what the entry being assembled holds
  aside,   \* the generated files the restore moved aside
  built,   \* version the command read
  postS,   \* PostRun.sources
  postG    \* PostRun.generates

disk   == <<src, out, outBy, fp, cache>>
locals == <<forced, kind, key, pre, meta, pulled, aside, built, postS, postG>>
vars   == <<env, disk, lock, pc, lost, locals>>

TypeOK ==
  /\ env \in Envs
  /\ src \in Versions
  /\ out \in Outputs
  /\ outBy \in Procs \cup {NoProc}
  /\ fp \in {NoFp} \cup [sources: Versions, generates: Outputs,
                        via: {"run", "force", "restore"}]
  /\ cache \in [Versions -> {NoEntry} \cup [sources: Versions, generates: Outputs,
                                           content: Outputs]]
  /\ lock \in [LockNames -> Procs \cup {NoProc}]
  /\ pc \in [Procs -> Stages]
  /\ forced \in [Procs -> BOOLEAN]
  /\ kind \in [Procs -> Kinds]
  /\ lost \in [Procs -> BOOLEAN]
  /\ key \in [Procs -> Versions \cup {NoVersion}]
  /\ pre \in [Procs -> Versions \cup {NoVersion}]
  /\ meta \in [Procs -> Outputs \cup {NoVersion}]
  /\ pulled \in [Procs -> Outputs \cup {NoVersion}]
  /\ aside \in [Procs -> Outputs \cup {NoVersion}]
  /\ built \in [Procs -> Versions \cup {NoVersion}]
  /\ postS \in [Procs -> Versions \cup {NoVersion}]
  /\ postG \in [Procs -> Outputs \cup {NoVersion}]

Init ==
  /\ env \in Envs
  /\ src = 0
  /\ out = Nothing
  /\ outBy = NoProc
  /\ fp = NoFp
  /\ cache = [v \in Versions |-> NoEntry]
  /\ lock = [n \in LockNames |-> NoProc]
  /\ pc = [p \in Procs |-> "idle"]
  /\ forced = [p \in Procs |-> FALSE]
  /\ kind = [p \in Procs |-> "local"]
  /\ lost = [p \in Procs |-> FALSE]
  /\ key = [p \in Procs |-> NoVersion]
  /\ pre = [p \in Procs |-> NoVersion]
  /\ meta = [p \in Procs |-> NoVersion]
  /\ pulled = [p \in Procs |-> NoVersion]
  /\ aside = [p \in Procs |-> NoVersion]
  /\ built = [p \in Procs |-> NoVersion]
  /\ postS = [p \in Procs |-> NoVersion]
  /\ postG = [p \in Procs |-> NoVersion]

-----------------------------------------------------------------------------
InFlight(p) == pc[p] \notin {"idle"} \cup Terminal
Quiescent   == \A p \in Procs : ~InFlight(p)

LockName(p)  == <<kind[p], key[p]>>
CacheSlot(v) == IF KeyedUrl THEN v ELSE 0

\* The run moves on to stage s.
Goto(p, s) == pc' = [pc EXCEPT ![p] = s]

\* Guard::unlock, or the guard's drop: a lost lease is no longer the run's.
Unlocked(p) == [n \in LockNames |-> IF lock[n] = p THEN NoProc ELSE lock[n]]

\* The mutant of Finish: the guard of a failed run is leaked.
Finish_LeaksLock(p, s) ==
  /\ Goto(p, s)
  /\ lock' = IF s = "failed" THEN lock ELSE Unlocked(p)

\* execute_locked returns and execute releases the lock.
Finish(p, s) ==
  /\ Goto(p, s)
  /\ lock' = Unlocked(p)

\* Written::undo: the originals go back where the restore's files still are.
Undone(p) == IF outBy = p THEN aside[p] ELSE out
UndoneBy(p) == IF outBy = p THEN NoProc ELSE outBy

-----------------------------------------------------------------------------
(* The surroundings                                                        *)

\* Someone edits the sources: between runs, or at any time where env allows.
Edit ==
  /\ src < MaxVersion
  /\ env.edits \/ Quiescent
  /\ src' = src + 1
  /\ UNCHANGED <<env, out, outBy, fp, cache, lock, pc, lost, locals>>

\* Someone removes the generated files between runs; a journal a restore left stays.
Clean ==
  /\ Quiescent
  /\ out' = Nothing
  /\ UNCHANGED <<env, src, outBy, fp, cache, lock, pc, lost, locals>>

\* The server gives p's lease to nobody or somebody else, and the heartbeat says so.
LoseLease(p) ==
  /\ pc[p] \in Locked
  /\ kind[p] = "remote"
  /\ ~lost[p]
  /\ lost' = [lost EXCEPT ![p] = TRUE]
  /\ lock' = Unlocked(p)
  /\ UNCHANGED <<env, disk, pc, locals>>

\* A dead holder's lockfile is evicted; the lease of a run that is gone lapses.
Evict(p) ==
  /\ pc[p] \in {"dead", "cancelled", "abandoned"} \cup Adrift
  /\ \E n \in LockNames : lock[n] = p
  /\ lock' = Unlocked(p)
  /\ UNCHANGED <<env, disk, pc, lost, locals>>

\* A command left running by a cancelled run stops, writing what it was going to or part of it.
OrphanStops(p) ==
  /\ pc[p] = "orphan"
  /\ out' \in {built[p], Partial}
  /\ outBy' = NoProc
  /\ Goto(p, "cancelled")
  /\ UNCHANGED <<env, src, fp, cache, lock, lost, locals>>

\* assemble's thread ends with nobody to take its Written: all or part of the entry is
\* in the tree, in its journal's hands, or the assembly failed and undid itself.
ThreadEnds(p) ==
  \/ /\ out' \in {pulled[p], Partial}
     /\ outBy' = p
     /\ Goto(p, "abandoned")
  \/ /\ out' = Undone(p)
     /\ outBy' = UndoneBy(p)
     /\ Goto(p, "cancelled")

\* The thread of a cancelled run's restore ends.
DetachedStops(p) ==
  /\ pc[p] = "detached"
  /\ ThreadEnds(p)
  /\ UNCHANGED <<env, src, fp, cache, lock, lost, locals>>

-----------------------------------------------------------------------------
(* Executor::execute                                                       *)

Start(p) ==
  /\ pc[p] = "idle"
  /\ env.overlap \/ Quiescent
  /\ \E f \in BOOLEAN : forced' = [forced EXCEPT ![p] = f]
  /\ Goto(p, "setup")
  /\ UNCHANGED <<env, disk, lock, lost, kind, key, pre, meta, pulled, aside, built, postS, postG>>

\* run_setup: a failing setup task fails the run before it takes the lock.
RunSetup(p) ==
  /\ pc[p] = "setup"
  /\ \E s \in {"finalize", "failed"} : Goto(p, s)
  /\ UNCHANGED <<env, disk, lock, lost, locals>>

\* finalized_task: the sources are hashed once, for the cache key and the lock name.
Finalize(p) ==
  /\ pc[p] = "finalize"
  /\ key' = [key EXCEPT ![p] = src]
  /\ kind' = [kind EXCEPT ![p] = IF env.remote THEN "remote" ELSE "local"]
  /\ Goto(p, "lock")
  /\ UNCHANGED <<env, disk, lock, lost, forced, pre, meta, pulled, aside, built, postS, postG>>

\* The mutant of AcquireLock: the lock is taken from whoever holds it.
AcquireLock_Unchecked(p) ==
  /\ pc[p] = "lock"
  /\ lock' = [lock EXCEPT ![LockName(p)] = p]
  /\ Goto(p, IF forced[p] THEN "deps" ELSE "check")
  /\ UNCHANGED <<env, disk, lost, locals>>

\* acquire_task_lock: a forced run goes on to its deps without any up-to-date check.
AcquireLock(p) ==
  /\ pc[p] = "lock"
  /\ lock[LockName(p)] = NoProc
  /\ lock' = [lock EXCEPT ![LockName(p)] = p]
  /\ Goto(p, IF forced[p] THEN "deps" ELSE "check")
  /\ UNCHANGED <<env, disk, lost, locals>>

\* acquire_task_lock: the lease server fails, the run falls back to the file lock.
FallBack(p) ==
  /\ pc[p] = "lock"
  /\ kind[p] = "remote"
  /\ kind' = [kind EXCEPT ![p] = "local"]
  /\ UNCHANGED <<env, disk, lock, pc, lost, forced, key, pre, meta, pulled, aside, built, postS, postG>>

\* The wait for the file lock times out.
LockTimeout(p) ==
  /\ pc[p] = "lock"
  /\ kind[p] = "local"
  /\ lock[LockName(p)] # NoProc
  /\ Goto(p, "failed")
  /\ UNCHANGED <<env, disk, lock, lost, locals>>

-----------------------------------------------------------------------------
(* Executor::execute_locked: the up-to-date check and the cache            *)

\* The preconditions, then Spec::up_to_date's reading of the sources.
CheckSources(p) ==
  /\ pc[p] = "check"
  /\ \/ /\ pre' = [pre EXCEPT ![p] = src]
        /\ Goto(p, "compare")
        /\ UNCHANGED lock
     \/ /\ Finish(p, "failed")
        /\ UNCHANGED pre
  /\ UNCHANGED <<env, disk, lost, forced, kind, key, meta, pulled, aside, built, postS, postG>>

UpToDate(p) == fp.sources = pre[p] /\ fp.generates = out

\* The sources changed between the reading the cache key was taken from and this one.
StaleKey(p) == key[p] # pre[p]

Compare(p) ==
  /\ pc[p] = "compare"
  /\ IF UpToDate(p)
       THEN Finish(p, "done")
       ELSE Goto(p, IF StaleKey(p) THEN "deps" ELSE "recover") /\ UNCHANGED lock
  /\ UNCHANGED <<env, disk, lost, locals>>

\* A restore cut short, its journal no longer held.
CutShort == outBy # NoProc /\ pc[outBy] \in Terminal

\* recover_restores: the originals go back and the journal is removed, which happens
\* too where they could not all be put back: that is only reported.
Recover(p) ==
  /\ pc[p] = "recover"
  /\ \/ ~CutShort /\ UNCHANGED <<out, outBy>>
     \/ /\ CutShort
        /\ out' \in {aside[outBy], out, Partial}
        /\ outBy' = NoProc
  /\ Goto(p, "restore")
  /\ UNCHANGED <<env, src, fp, cache, lock, lost, locals>>

\* The mutant of CheckMeta: the entry's sources are not compared.
CheckMeta_AnySources(e, v) == e.generates # NoVersion

\* TaskRestore::check_meta
CheckMeta(e, v) == e.generates # NoVersion /\ e.sources = v

\* cache_restore: a miss, a refused entry and an unreachable cache leave the tree as it
\* is; otherwise assemble starts writing, the originals moved aside.
Restore(p) ==
  LET e == cache[CacheSlot(key[p])] IN
  /\ pc[p] = "restore"
  /\ \/ /\ CheckMeta(e, key[p])
        /\ out' = Partial
        /\ outBy' = p
        /\ aside' = [aside EXCEPT ![p] = out]
        /\ meta' = [meta EXCEPT ![p] = e.generates]
        /\ pulled' = [pulled EXCEPT ![p] = e.content]
        /\ Goto(p, "assemble")
     \/ /\ Goto(p, "deps")
        /\ UNCHANGED <<out, outBy, aside, meta, pulled>>
  /\ UNCHANGED <<env, src, fp, cache, lock, lost, forced, kind, key, pre, built, postS, postG>>

\* Undo the restore and run the task normally, or fail where the undo fails, some of
\* the originals put back or none.
GiveUpRestore(p) ==
  \/ /\ out' = Undone(p)
     /\ outBy' = UndoneBy(p)
     /\ Goto(p, "deps")
     /\ UNCHANGED lock
  \/ /\ out' \in {out, Partial}
     /\ Finish(p, "failed")
     /\ UNCHANGED outBy

\* assemble_pulled: the blocking thread has written the entry, or failed and undone
\* what it wrote; one that cannot fails the run (Unrecoverable).
Assemble(p) ==
  /\ pc[p] = "assemble"
  /\ \/ /\ out' = pulled[p]
        /\ outBy' = p
        /\ Goto(p, "verify")
        /\ UNCHANGED lock
     \/ GiveUpRestore(p)
  /\ UNCHANGED <<env, src, fp, cache, lost, locals>>

\* cache_verify_meta: the generates checksum of what was restored.
Verify(p) ==
  /\ pc[p] = "verify"
  /\ IF out = meta[p]
       THEN Goto(p, "record") /\ UNCHANGED <<out, outBy, lock>>
       ELSE GiveUpRestore(p)
  /\ UNCHANGED <<env, src, fp, cache, lost, locals>>

\* set_up_to_date_with_generates: the sources are read afresh.
Record(p) ==
  /\ pc[p] = "record"
  /\ \/ /\ fp' = [sources |-> src, generates |-> meta[p], via |-> "restore"]
        /\ Goto(p, "commit")
        /\ UNCHANGED <<out, outBy, lock>>
     \/ /\ GiveUpRestore(p)
        /\ UNCHANGED fp
  /\ UNCHANGED <<env, src, cache, lost, locals>>

\* Unverified::commit; one that cannot be marked kept takes the fingerprint with it.
Commit(p) ==
  /\ pc[p] = "commit"
  /\ \/ /\ outBy' = UndoneBy(p)
        /\ Finish(p, "done")
        /\ UNCHANGED <<out, fp>>
     \/ /\ fp' = NoFp
        /\ GiveUpRestore(p)
  /\ UNCHANGED <<env, src, cache, lost, locals>>

-----------------------------------------------------------------------------
(* Executor::execute_locked: deps, commands, post-run                      *)

\* run_deps, the prompts, mkdir and the sandbox policy.
RunDeps(p) ==
  /\ pc[p] = "deps"
  /\ \/ Goto(p, "cmd") /\ UNCHANGED lock
     \/ Finish(p, "failed")
  /\ UNCHANGED <<env, disk, lost, locals>>

\* The commands read the sources and start rewriting the generated files, as new files.
StartCommands(p) ==
  /\ pc[p] = "cmd"
  /\ built' = [built EXCEPT ![p] = src]
  /\ out' = Partial
  /\ outBy' = NoProc
  /\ Goto(p, "running")
  /\ UNCHANGED <<env, src, fp, cache, lock, lost, forced, kind, key, pre, meta, pulled, aside,
                 postS, postG>>

\* The commands end: well, with an ignored error (on_error, then on), or with an
\* error (on_error, then the deferred commands, and the run fails).
EndCommands(p) ==
  /\ pc[p] = "running"
  /\ \/ /\ out' = built[p]
        /\ outBy' = NoProc
        /\ fp' \in {fp, NoFp}
        /\ Goto(p, "ran")
        /\ UNCHANGED lock
     \/ /\ fp' = NoFp
        /\ Finish(p, "failed")
        /\ UNCHANGED <<out, outBy>>
  /\ UNCHANGED <<env, src, cache, lost, locals>>

\* is_lost, then Spec::post_run's reading of the sources.
PostRunSources(p) ==
  /\ pc[p] = "ran"
  /\ \/ /\ lost[p]
        /\ fp' = NoFp
        /\ Finish(p, "done")
        /\ UNCHANGED postS
     \/ /\ ~lost[p]
        /\ postS' = [postS EXCEPT ![p] = src]
        /\ Goto(p, "reading")
        /\ UNCHANGED <<fp, lock>>
     \/ /\ ~lost[p]
        /\ Finish(p, "failed")
        /\ UNCHANGED <<fp, postS>>
  /\ UNCHANGED <<env, src, out, outBy, cache, lost, forced, kind, key, pre, meta, pulled, aside,
                 built, postG>>

\* Spec::post_run's reading of the generates.
PostRunGenerates(p) ==
  /\ pc[p] = "reading"
  /\ postG' = [postG EXCEPT ![p] = out]
  /\ Goto(p, "publish")
  /\ UNCHANGED <<env, disk, lock, lost, forced, kind, key, pre, meta, pulled, aside, built, postS>>

\* The mutant of Drifted: sources edited during the run go unnoticed.
Drifted_Never(p) == FALSE

\* ChecksumChecker::drifted: never without an up-to-date reading.
Drifted(p) == ~forced[p] /\ pre[p] # postS[p]

\* The mutant of BuiltFromKey: the entry is saved under whatever key the run has.
BuiltFromKey_Always(p) == TRUE

\* Saved only under the key of what it was built from.
BuiltFromKey(p) == postS[p] = key[p]

\* The lock may have been lost during the readings; a run that lost it, or whose
\* sources drifted, publishes nothing.  A state file that cannot be written, or a
\* generates reading that failed, fails the run.
Publish(p) ==
  /\ pc[p] = "publish"
  /\ \/ /\ lost[p] \/ Drifted(p)
        /\ fp' = NoFp
        /\ Finish(p, "done")
     \/ /\ ~lost[p] /\ ~Drifted(p)
        /\ fp' = [sources |-> postS[p], generates |-> postG[p],
                  via |-> IF forced[p] THEN "force" ELSE "run"]
        /\ IF BuiltFromKey(p) THEN Goto(p, "save") /\ UNCHANGED lock ELSE Finish(p, "done")
     \/ /\ ~lost[p] /\ ~Drifted(p)
        /\ Finish(p, "failed")
        /\ UNCHANGED fp
  /\ UNCHANGED <<env, src, out, outBy, cache, lost, locals>>

\* cache_save: archives the generated files as they are now, under the checksums
\* just recorded; a failure is only reported.
Save(p) ==
  LET k == CacheSlot(key[p]) IN
  /\ pc[p] = "save"
  /\ cache' \in {cache,
                 [cache EXCEPT ![k] = [sources |-> key[p], generates |-> postG[p],
                                       content |-> out]]}
  /\ Finish(p, "done")
  /\ UNCHANGED <<env, src, out, outBy, fp, lost, locals>>

-----------------------------------------------------------------------------
(* Cancellation and crashes                                                *)

\* The guard is dropped, which removes a lockfile and may leave a lease to lapse.
DropGuard(p) == lock' \in {Unlocked(p)} \cup (IF kind[p] = "remote" THEN {lock} ELSE {})

\* A fail-fast sibling or an interrupt drops the run's future at an await.  A running
\* command is left behind.
Cancel(p) ==
  /\ InFlight(p)
  /\ pc[p] \notin {"assemble", "verify", "record", "commit"} \cup Adrift
  /\ Goto(p, IF pc[p] = "running" /\ env.orphans THEN "orphan" ELSE "cancelled")
  /\ DropGuard(p)
  /\ UNCHANGED <<env, disk, lost, locals>>

\* The mutant of CancelRestore: the dropped future leaves its restore as it is.
CancelRestore_Kept(p) ==
  /\ pc[p] \in {"verify", "record"}
  /\ Goto(p, "cancelled")
  /\ DropGuard(p)
  /\ UNCHANGED <<env, disk, lost, locals>>

\* Cancelled with its restore not yet verified: Drop for Unverified undoes it, and
\* leaves it to its journal where the undo fails.
CancelRestore(p) ==
  /\ pc[p] \in {"verify", "record"}
  /\ \/ /\ out' = Undone(p)
        /\ outBy' = UndoneBy(p)
        /\ Goto(p, "cancelled")
     \/ /\ out' \in {out, Partial}
        /\ Goto(p, "abandoned")
        /\ UNCHANGED outBy
  /\ DropGuard(p)
  /\ UNCHANGED <<env, src, fp, cache, lost, locals>>

\* Cancelled while spawn_blocking's thread assembles the entry: no future owns its
\* Written any more, and the thread goes on or ends with the process.
CancelAssembly(p) ==
  /\ pc[p] = "assemble"
  /\ \/ env.orphans /\ Goto(p, "detached") /\ UNCHANGED <<out, outBy>>
     \/ ~env.orphans /\ ThreadEnds(p)
  /\ DropGuard(p)
  /\ UNCHANGED <<env, src, fp, cache, lost, locals>>

\* The process is killed, its command with it.  The state file is rewritten in
\* place, so a kill in the middle leaves one that matches nothing.
Crash(p) ==
  /\ InFlight(p)
  /\ pc[p] \notin Adrift
  /\ Goto(p, "dead")
  /\ fp' \in {fp} \cup (IF pc[p] \in {"record", "publish"} THEN {NoFp} ELSE {})
  /\ UNCHANGED <<env, src, out, outBy, cache, lock, lost, locals>>

Step(p) ==
  \/ RunSetup(p) \/ Finalize(p) \/ AcquireLock(p)
  \/ CheckSources(p) \/ Compare(p) \/ Recover(p) \/ Restore(p) \/ Assemble(p)
  \/ Verify(p) \/ Record(p) \/ Commit(p)
  \/ RunDeps(p) \/ StartCommands(p) \/ EndCommands(p)
  \/ PostRunSources(p) \/ PostRunGenerates(p) \/ Publish(p) \/ Save(p)
  \/ OrphanStops(p) \/ DetachedStops(p) \/ Evict(p)

Next ==
  \/ Edit
  \/ Clean
  \/ \E p \in Procs :
       \/ Step(p) \/ Start(p) \/ FallBack(p) \/ LockTimeout(p) \/ LoseLease(p)
       \/ Cancel(p) \/ CancelRestore(p) \/ CancelAssembly(p) \/ Crash(p)

Spec == Init /\ [][Next]_vars

\* Every stage of a run is the executor polling on, a command that ends, or the
\* retry loop of a lock: none of them stops for good.
FairSpec == Spec /\ \A p \in Procs : WF_vars(Step(p))

-----------------------------------------------------------------------------
(* Properties                                                              *)

\* The state file pairs a source version with the output of that version, so that a
\* later `is_up_to_date` answers yes only over outputs of the sources it read
\* (ChecksumChecker::publish and set_up_to_date_with_generates).
RecordedMatch == fp # NoFp => fp.generates = fp.sources

\* While nobody edits the sources under a running task, whatever the interleaving of
\* runs, forced runs, restores, undos, cancellations and kills, what is recorded as up
\* to date is up to date (execute_locked).
FingerprintSound == ~env.edits => RecordedMatch

\* What a cache restore records as up to date is the output of the sources recorded:
\* the key it restored under was not of other sources (the stale_key guard of
\* execute_locked and its comment).
RestoredMatch == fp.via = "restore" => RecordedMatch

\* With sources edited at any time, what an unforced run of the commands records is
\* still the output of the sources recorded (ChecksumChecker::drifted).
DriftCaught == fp.via = "run" => RecordedMatch

\* A cache entry whose files have the checksum it carries, the ones cache_verify_meta
\* lets through, holds the output of the sources it is offered for: edits, --force and
\* lost leases included (the BuiltFromKey guard of execute_locked).
CacheSound ==
  \A k \in Versions :
    cache[k] # NoEntry /\ cache[k].content = cache[k].generates
      => cache[k].content = cache[k].sources

\* A restore not kept is never left to nobody: a run that ended well, or was cancelled
\* with its undo done, has none in the tree, and one that is there belongs to a run that
\* is still at it, or to one that was killed, could not undo it, or was cancelled while
\* its thread wrote, whose journal the next recover finds (Unverified, execute_locked).
RestoreSettled ==
  \A p \in Procs :
    outBy = p => pc[p] \in {"assemble", "verify", "record", "commit", "detached",
                            "failed", "dead", "abandoned"}

\* Outputs that are the originals a run killed between record and commit had moved
\* aside: recover puts them back after the up-to-date check has answered, when what
\* that run restored was removed meanwhile.
RecordedOriginals(o) ==
  \E q \in Procs : pc[q] = "dead" /\ aside[q] = o /\ meta[q] = fp.generates

\* Outputs o are not known to be those of the current sources.
NeedsBuild(o) == fp.sources = src /\ fp.generates = o => RecordedOriginals(o)

\* An unforced run never starts the commands over outputs recorded as those of the
\* current sources: the verdict it took under the lock still stands after the restore
\* attempt and the deps (the build-once lock of execute).  The one exception is a set
\* of originals that recover put back in between.
NoRebuild ==
  [][\A p \in Procs :
       pc[p] = "cmd" /\ pc'[p] = "running" /\ ~forced[p] => NeedsBuild(out)]_vars

\* A run waiting for the build-once lock gets past it without its time-out: whatever
\* ended or killed the holder, the lock is released or evicted (execute's unlock).
WaiterProceeds ==
  \A p \in Procs : pc[p] = "lock" ~> pc[p] # "lock"

-----------------------------------------------------------------------------
(* The inductive invariant behind them                                     *)

\* Runs share a tree only where its sources are left alone, leases are not used and
\* commands die with their runs.
Disciplined == env.overlap => ~env.edits /\ ~env.remote /\ ~env.orphans

\* What each stage has set.
StageTyped ==
  /\ outBy # NoProc => aside[outBy] \in Outputs
  /\ \A p \in Procs :
       /\ pc[p] \in Locked \cup {"lock"} => key[p] \in Versions
       /\ pc[p] = "compare" => pre[p] \in Versions
       /\ pc[p] \in {"assemble", "verify", "record", "commit"} => meta[p] \in Outputs
       /\ pc[p] \in {"assemble", "detached"} => pulled[p] \in Outputs /\ aside[p] \in Outputs
       /\ pc[p] \in {"running", "orphan"} => built[p] \in Versions
       /\ pc[p] \in {"reading", "publish"} => postS[p] \in Versions
       /\ pc[p] \in {"publish", "save"} => postG[p] \in Outputs

\* Runs that overlap hold the file lock of their key; otherwise runs do not overlap.
LockHeld ==
  /\ env.overlap =>
       \A p \in Procs :
         /\ pc[p] \notin Adrift
         /\ pc[p] \in Locked \cup {"lock"} => kind[p] = "local"
         /\ pc[p] \in Locked => lock[LockName(p)] = p
  /\ ~env.overlap => \A p, q \in Procs : InFlight(p) /\ InFlight(q) => p = q

\* At most one run reads or writes the generated files.
Exclusive ==
  \A p, q \in Procs :
    pc[p] \in Locked \cup Adrift /\ pc[q] \in Locked \cup Adrift => p = q

Checked   == {"compare", "recover", "restore", "assemble", "verify", "record", "commit"}
Commanded == {"running", "ran", "reading", "publish", "save"}

\* A run reads the sources in the order key, up-to-date check, commands, post-run.
ReadingOrder ==
  \A p \in Procs :
    /\ pc[p] \in Locked \cup {"lock"} => key[p] <= src /\ (~env.edits => key[p] = src)
    /\ pc[p] \in Checked \cup {"deps", "cmd"} /\ ~forced[p] => pre[p] <= src
    /\ pc[p] \in Commanded => key[p] <= built[p] /\ built[p] <= src
    /\ pc[p] \in Commanded /\ ~forced[p] => pre[p] <= built[p]
    /\ pc[p] \in {"reading", "publish", "save"} => built[p] <= postS[p] /\ postS[p] <= src
    /\ pc[p] = "save" => postS[p] = key[p]

\* What a run knows of the generated files at each stage.
OutputsKnown ==
  \A p \in Procs :
    /\ outBy = p => pc[p] \notin {"idle", "setup", "finalize", "lock"}
    /\ pc[p] = "assemble" /\ pulled[p] = meta[p] => meta[p] = key[p]
    /\ pc[p] = "verify" /\ out = meta[p] => meta[p] = key[p]
    /\ pc[p] \in {"record", "commit"} => meta[p] = key[p]
    /\ pc[p] \in {"ran", "reading"} => out = built[p]
    /\ pc[p] \in {"publish", "save"} => postG[p] = built[p]

\* A half-written tree is never recorded.
WholeRecorded == fp.generates \in Versions \cup {NoVersion}

Safe ==
  /\ LockHeld /\ ReadingOrder /\ OutputsKnown /\ WholeRecorded
  /\ FingerprintSound /\ DriftCaught /\ CacheSound

IndInv == TypeOK /\ StageTyped /\ (Disciplined => Safe)

\* The verdict of the up-to-date check stays true: of the outputs in the tree up to the
\* commands, and of the originals moved aside while a restore is pending.
VerdictStands ==
  /\ fp.sources <= src
  /\ outBy # NoProc /\ pc[outBy] # "commit" => NeedsBuild(aside[outBy])
  /\ \A p \in Procs :
       /\ pc[p] = "compare" => fp.sources <= pre[p] /\ pre[p] <= src
       /\ pc[p] \in {"recover", "restore"} => NeedsBuild(out)
       /\ pc[p] \in {"assemble", "verify", "record", "commit", "detached"} => outBy = p
       /\ pc[p] = "commit" => fp.generates = meta[p]
       /\ pc[p] \in {"deps", "cmd"} /\ ~forced[p] => NeedsBuild(out)
       /\ pc[p] \in Commanded => outBy = NoProc

RebuildInv == RestoreSettled /\ (Disciplined => VerdictStands)

\* The types, and RestoreSettled: whatever ends a run, a restore it did not keep is
\* taken back or has a journal that recover will find (Unverified).
Settled == TypeOK /\ RestoreSettled
=============================================================================
