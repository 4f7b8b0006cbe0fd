------------------------------ MODULE FileLock ------------------------------
(***************************************************************************)
(* The file backend of `cache.lock` and the default build-once lock:       *)
(* file_lock, evict_stale_lock and Guard for one lock name.                *)
(*                                                                         *)
(* A process takes the lock at most once and then exits; another           *)
(* invocation of task is another process, with a PID of its own (a PID     *)
(* used again for a live process is not modelled), perhaps of another user *)
(* or in another container that shares the directory.  An action is one    *)
(* system call: the lockfile may change between any two of them.           *)
(***************************************************************************)
EXTENDS Naturals, FiniteSets

CONSTANTS Procs,   \* processes, named by their PIDs
          NoPid    \* read_holder_pid of a lockfile that names no holder

ASSUME PidAssumption == NoPid \notin Procs

VARIABLES
  file,    \* the lockfile: absent, or who created it and the PID written in it
  pc,      \* stage of each process
  seen,    \* the PID evict_stale_lock read
  blind,   \* <<p, q>>: p may not signal q (EPERM), or does not see q's PID
  raced,   \* ghost: an eviction unlinked another file than the one it read
  usurped  \* ghost: an eviction unlinked the file of a process that was there

ghosts == <<raced, usurped>>
vars   == <<file, pc, seen, blind, ghosts>>

Absent  == [by |-> NoPid, pid |-> NoPid]
Waiting == {"try", "read", "probe", "unlink", "sleep"}
Inside  == {"created", "held"}
Stages  == {"idle", "released", "failed", "dead"} \cup Waiting \cup Inside

TypeOK ==
  /\ file \in [by: Procs \cup {NoPid}, pid: Procs \cup {NoPid}]
  /\ pc \in [Procs -> Stages]
  /\ seen \in [Procs -> Procs \cup {NoPid}]
  /\ blind \subseteq Procs \X Procs
  /\ raced \in BOOLEAN /\ usurped \in BOOLEAN

Init ==
  /\ file = Absent
  /\ pc = [p \in Procs |-> "idle"]
  /\ seen = [p \in Procs |-> NoPid]
  /\ blind \in SUBSET {e \in Procs \X Procs : e[1] # e[2]}
  /\ raced = FALSE /\ usurped = FALSE

Goto(p, s) == pc' = [pc EXCEPT ![p] = s]

Start(p) ==
  /\ pc[p] = "idle"
  /\ Goto(p, "try")
  /\ UNCHANGED <<file, seen, blind, ghosts>>

\* The mutant of TryCreate: the lockfile is opened without create_new.
TryCreate_Open(p) ==
  /\ pc[p] = "try"
  /\ file' = [by |-> p, pid |-> NoPid]
  /\ Goto(p, "created")
  /\ UNCHANGED <<seen, blind, ghosts>>

\* open with create_new: the lockfile is the process's, or it already exists.
TryCreate(p) ==
  /\ pc[p] = "try"
  /\ \/ /\ file = Absent
        /\ file' = [by |-> p, pid |-> NoPid]
        /\ Goto(p, "created")
     \/ /\ file # Absent
        /\ Goto(p, "read")
        /\ UNCHANGED file
  /\ UNCHANGED <<seen, blind, ghosts>>

\* write_holder writes to the file it opened, also when that is no longer the one in place.
WriteHolder(p) ==
  /\ pc[p] = "created"
  /\ file' = IF file.by = p THEN [file EXCEPT !.pid = p] ELSE file
  /\ Goto(p, "held")
  /\ UNCHANGED <<seen, blind, ghosts>>

\* evict_stale_lock reads the lockfile; one that is gone or names no holder is left alone.
ReadHolder(p) ==
  /\ pc[p] = "read"
  /\ seen' = [seen EXCEPT ![p] = file.pid]
  /\ Goto(p, IF file.pid = NoPid THEN "sleep" ELSE "probe")
  /\ UNCHANGED <<file, blind, ghosts>>

\* The process has not exited and was not killed.
Lives(q) == pc[q] \notin {"failed", "dead"}

\* kill(pid, 0) = 0: the process is there, and p sees it and may signal it.  Any error,
\* EPERM too, is taken for its death.
ProcessAlive(p, q) == Lives(q) /\ <<p, q>> \notin blind

\* The mutant of ProbeHolder: nothing is ever stale.
ProbeHolder_NeverStale(p) ==
  /\ pc[p] = "probe"
  /\ Goto(p, "sleep")
  /\ UNCHANGED <<file, seen, blind, ghosts>>

\* process_alive of the PID that was read
ProbeHolder(p) ==
  /\ pc[p] = "probe"
  /\ Goto(p, IF ProcessAlive(p, seen[p]) THEN "sleep" ELSE "unlink")
  /\ UNCHANGED <<file, seen, blind, ghosts>>

\* remove_file unlinks the path, whatever file is there by now.
Unlink(p) ==
  /\ pc[p] = "unlink"
  /\ file' = Absent
  /\ raced' = (raced \/ (file # Absent /\ file.pid # seen[p]))
  /\ usurped' = (usurped \/ (file # Absent /\ Lives(file.by)))
  /\ Goto(p, "sleep")
  /\ UNCHANGED <<seen, blind>>

\* FILE_RETRY_INTERVAL is over.
Retry(p) ==
  /\ pc[p] = "sleep"
  /\ Goto(p, "try")
  /\ UNCHANGED <<file, seen, blind, ghosts>>

\* The deadline is reached, and the run fails.
TimeOut(p) ==
  /\ pc[p] = "sleep"
  /\ Goto(p, "failed")
  /\ UNCHANGED <<file, seen, blind, ghosts>>

\* Guard::unlock and Drop for Guard unlink the path.
Release(p) ==
  /\ pc[p] = "held"
  /\ file' = Absent
  /\ Goto(p, "released")
  /\ UNCHANGED <<seen, blind, ghosts>>

\* The process exits, or is killed where it stands.
Exit(p) ==
  /\ pc[p] \notin {"idle", "failed", "dead"}
  /\ Goto(p, "dead")
  /\ UNCHANGED <<file, seen, blind, ghosts>>

Step(p) ==
  \/ TryCreate(p) \/ WriteHolder(p) \/ ReadHolder(p) \/ ProbeHolder(p) \/ Unlink(p)
  \/ Retry(p) \/ Release(p)

Next == \E p \in Procs : Step(p) \/ Start(p) \/ TimeOut(p) \/ Exit(p)

Spec == Init /\ [][Next]_vars

\* A process keeps polling, what it does under the lock ends, and nobody waits forever.
FairSpec == Spec /\ \A p \in Procs : WF_vars(Step(p))

-----------------------------------------------------------------------------
(* Properties                                                              *)

\* At most one live process is past file_lock and has not released.
OneHolder == \A p, q \in Procs : pc[p] \in Inside /\ pc[q] \in Inside => p = q

\* Exclusion is only ever lost in one of two ways.  An eviction unlinks another lockfile
\* than the one evict_stale_lock read; or it takes a live holder for dead, which it only
\* does where process_alive may not signal it or does not see it.  Creation, the holder's
\* PID, the release by path and crashes at any system call never cost it.
OneHolderUnlessRaced ==
  /\ ~raced /\ ~usurped => OneHolder
  /\ ~raced /\ usurped => blind # {}

\* The lockfile in place was made by a process that died before write_holder.
Unnamed == file # Absent /\ file.pid = NoPid /\ ~Lives(file.by)

\* A waiting process gets the lock, or gives up: a lockfile whose holder died anywhere
\* but between create_new and write_holder is evicted (file_lock's retry loop).
Evicted == \A p \in Procs : pc[p] \in Waiting ~> pc[p] \notin Waiting \/ Unnamed

-----------------------------------------------------------------------------
(* The inductive invariant behind OneHolderUnlessRaced                     *)

\* Whoever is inside made the lockfile in place, and it names nobody else.
HolderOwnsFile ==
  \A p \in Procs :
    /\ pc[p] \in Inside => file.by = p
    /\ pc[p] = "held" => file.pid = p

\* A lockfile names its maker or nobody.
NamesMaker == file = Absent \/ (file.by \in Procs /\ file.pid \in {file.by, NoPid})

\* A process about to unlink read the PID of a process that is gone, or out of its sight.
StaleSeen ==
  \A p \in Procs :
    pc[p] = "unlink" => seen[p] \in Procs /\ (Lives(seen[p]) => <<p, seen[p]>> \in blind)

ProbedSeen == \A p \in Procs : pc[p] = "probe" => seen[p] \in Procs

IndInv ==
  /\ TypeOK /\ NamesMaker /\ StaleSeen /\ ProbedSeen
  /\ ~raced /\ ~usurped => HolderOwnsFile
  /\ ~raced /\ usurped => blind # {}
=============================================================================
