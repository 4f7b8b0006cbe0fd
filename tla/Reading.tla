------------------------------ MODULE Reading ------------------------------
(***************************************************************************)
(* Fingerprint readings off the engine's thread: taskcore/src/fingerprint/  *)
(* offload.rs (off_thread, cancellation), pool.rs (digest_in, the hashing   *)
(* budget) and checksum.rs (digest, combine).                               *)
(*                                                                          *)
(* A job digests the entries 1..N of its walk, in canonical order, on its   *)
(* own thread and on helpers; other processes edit the files meanwhile; the *)
(* engine may drop the future that awaits it.  Digests do not collide: a    *)
(* digest is the content it is of.                                          *)
(***************************************************************************)
EXTENDS Naturals, FiniteSets, FiniteSetsExt

CONSTANTS
  Jobs,
  N,          \* entries of a reading
  Budget,     \* parallelism(): hashing threads, process-wide
  PerThread,  \* PER_THREAD
  Nodes,      \* what an entry can be: [kind, data]
  MaxEdits    \* bound: edits by other processes

VARIABLES disk,     \* the entries' nodes
          edits,
          free,     \* permits of the budget
          job,      \* the jobs
          thread    \* the hashing threads of each job: see Idle

vars == <<disk, edits, free, job, thread>>

None == [kind |-> "none"]
Error(why) == [kind |-> "error", why |-> why]
ErrorAt(i, why) == [kind |-> "error", why |-> why, path |-> i]
Entries == 1..N
Threads == 1..Budget

\* The thread's place: not started, between entries, digesting one, joined.
Idle == [at |-> "off", entry |-> 0]
Nothing == [i \in Entries |-> None]
Asked == [st |-> "asked", next |-> 1, firstErr |-> N + 1, slots |-> Nothing, flag |-> FALSE,
          result |-> None, steady |-> TRUE, was |-> Nothing]

Init ==
  /\ disk \in [Entries -> Nodes]
  /\ edits = 0 /\ free = Budget
  /\ job = [j \in Jobs |-> Asked]
  /\ thread = [j \in Jobs |-> [t \in Threads |-> Idle]]

(***************************************************************************)
(* checksum.rs.                                                            *)
(***************************************************************************)

\* The walk's hint: the listed type of a file or a link.  A path that is not
\* there is not in the list, and stands for nothing in the checksum.
Absent == [kind |-> "absent"]
HintOf(node) ==
  CASE node.kind \in {"file", "link"} -> node.kind
    [] node.kind = "gone" -> "absent"
    [] OTHER -> "Unknown"

\* digest_inner: a link by its target, a file by its content; another kind, or
\* a change of kind since the listing, is an error naming the path.
Digest(i, node, hint) ==
  CASE hint = "absent" -> Absent
    [] hint # "absent" /\ node.kind = "gone" -> ErrorAt(i, "gone")
    [] hint \in {"file", "link"} /\ node.kind # "gone" ->
         IF node.kind = hint THEN node ELSE ErrorAt(i, "changed")
    [] hint = "Unknown" /\ node.kind # "gone" ->
         IF node.kind \in {"file", "link"} THEN node ELSE ErrorAt(i, "unsupported")

\* combine: one hash over every entry's digest, in entry order.
Combine(slots) == [kind |-> "hash", of |-> slots]

\* The mutant of Collect: the last failing entry is reported.
Collect_LastError(slots) ==
  LET failed == {i \in Entries : slots[i].kind = "error"}
  IN  IF failed = {} THEN Combine(slots) ELSE slots[Max(failed)]

\* digest_in's slots: the first failing entry in order is the error.
Collect(slots) ==
  LET failed == {i \in Entries : slots[i].kind \in {"error", "none"}}
  IN  IF failed = {} THEN Combine(slots)
      ELSE IF slots[Min(failed)] = None THEN Error("not digested")
      ELSE slots[Min(failed)]

(***************************************************************************)
(* offload.rs.                                                             *)
(***************************************************************************)

\* off_thread: the job's own thread takes a permit of the budget, waiting; its
\* walk types the entries.
Start(j) ==
  /\ job[j].st = "asked" /\ free > 0
  /\ free' = free - 1
  /\ job' = [job EXCEPT ![j].st = "started", ![j].was = disk]
  /\ UNCHANGED <<disk, edits, thread>>

\* How many threads a job is worth.
Wanted == Min({Budget, Max({1, (N + PerThread - 1) \div PerThread})})

\* take_helpers: as many as are free, without waiting for more.
HelperCounts == 0..Min({free, Wanted - 1})
TakeHelpers(j) ==
  \E n \in HelperCounts :
    /\ job[j].st = "started" /\ n <= free
    /\ free' = free - n
    /\ job' = [job EXCEPT ![j].st = "digesting"]
    /\ thread' = [thread EXCEPT ![j] = [t \in Threads |->
                    IF t <= n + 1 THEN [at |-> "claim", entry |-> 0] ELSE Idle]]
    /\ UNCHANGED <<disk, edits>>

\* digest_in's loop: claim the next entry; stop at the end or when cancelled;
\* pass over an entry above a failure.
Skips(j, i) == i > job[j].firstErr
Claim(j, t) ==
  LET i == job[j].next
      ends == i > N \/ job[j].flag
  IN  /\ thread[j][t].at = "claim"
      /\ job' = [job EXCEPT ![j].next = i + 1]
      /\ thread' = [thread EXCEPT ![j][t] =
           IF ends THEN [at |-> "joined", entry |-> 0]
           ELSE IF Skips(j, i) THEN [at |-> "claim", entry |-> 0]
           ELSE [at |-> "digest", entry |-> i]]
      /\ UNCHANGED <<disk, edits, free>>

\* digest: a set flag stops a file between reads.
DigestEntry(j, t) ==
  LET i == thread[j][t].entry
      d == IF job[j].flag THEN Error("interrupted") ELSE Digest(i, disk[i], HintOf(job[j].was[i]))
  IN  /\ thread[j][t].at = "digest"
      /\ job' = [job EXCEPT ![j].slots[i] = d,
                   ![j].firstErr = IF d.kind = "error" THEN Min({@, i}) ELSE @]
      /\ thread' = [thread EXCEPT ![j][t] = [at |-> "claim", entry |-> 0]]
      /\ UNCHANGED <<disk, edits, free>>

Used(j) == Cardinality({t \in Threads : thread[j][t].at # "off"})

\* The scope joins every thread; the helpers' permits and the job's go back.
Returned(j) == Used(j)
Join(j) ==
  /\ job[j].st = "digesting"
  /\ \A t \in Threads : thread[j][t].at \in {"off", "joined"}
  /\ free' = free + Returned(j)
  /\ thread' = [thread EXCEPT ![j] = [t \in Threads |-> Idle]]
  /\ job' = [job EXCEPT ![j].st = "done", ![j].next = 1, ![j].firstErr = N + 1, ![j].slots = Nothing,
               ![j].was = IF job[j].flag \/ ~job[j].steady THEN Nothing ELSE @,
               ![j].result = IF job[j].flag THEN Error("interrupted") ELSE Collect(job[j].slots)]
  /\ UNCHANGED <<disk, edits>>

\* CancelOnDrop: the engine drops the future; a job still waiting for its
\* permit never runs.
Drop(j) ==
  /\ job[j].st \in {"asked", "started", "digesting"} /\ ~job[j].flag
  /\ job' = [job EXCEPT ![j].flag = TRUE,
               ![j].st = IF @ = "asked" THEN "done" ELSE @,
               ![j].result = IF job[j].st = "asked" THEN Error("interrupted") ELSE @]
  /\ UNCHANGED <<disk, edits, free, thread>>

\* Another process writes, replaces or removes an entry.
Edit ==
  /\ edits < MaxEdits
  /\ \E i \in Entries, n \in Nodes :
       /\ disk' = [disk EXCEPT ![i] = n]
       /\ job' = [j \in Jobs |-> [job[j] EXCEPT !.steady = @ /\ job[j].st \in {"asked", "done"}]]
  /\ edits' = edits + 1
  /\ UNCHANGED <<free, thread>>

Step(j) == Start(j) \/ TakeHelpers(j) \/ Join(j)
Next ==
  \/ Edit
  \/ \E j \in Jobs :
       Step(j) \/ Drop(j) \/ \E t \in Threads : Claim(j, t) \/ DigestEntry(j, t)

\* The blocking pool and its threads run; nothing is assumed of edits or drops.
Spec == Init /\ [][Next]_vars

(***************************************************************************)
(* Properties.                                                             *)
(***************************************************************************)

\* "The checksum does not depend on how many threads ran or in which order
\* they finished" (pool.rs): over files left alone, a reading that is awaited
\* to its end is the one a single thread makes, error included.
OneThread(was) ==
  LET d == [i \in Entries |-> Digest(i, was[i], HintOf(was[i]))]
      failed == {i \in Entries : d[i].kind = "error"}
  IN  IF failed = {} THEN Combine(d) ELSE d[Min(failed)]
SameAnyThreads ==
  \A j \in Jobs :
    job[j].st = "done" /\ ~job[j].flag /\ job[j].steady => job[j].result = OneThread(job[j].was)

\* Jobs "neither exceed that budget nor wait for it inside the pool"
\* (offload.rs): every permit is free or behind one live hashing thread,
\* cancelled or not.
Holders ==
  {h \in Jobs \X Threads :
     thread[h[1]][h[2]].at # "off" \/ (job[h[1]].st = "started" /\ h[2] = 1)}
BudgetKept == free + Cardinality(Holders) = Budget

\* No entry is passed over unless one before it failed: the "not digested" of
\* digest_in's slots is never the answer, whatever is edited or dropped.
AllDigested ==
  \A j \in Jobs : job[j].st = "done" => job[j].result # Error("not digested")

\* As long as a reading that was asked for is not answered, some reading can go
\* on: the budget is never held by readings that all wait for more of it.
ReadingGoesOn ==
  (\E j \in Jobs : job[j].st \in {"asked", "started", "digesting"}) =>
    ENABLED (\E j \in Jobs : Step(j) \/ \E t \in Threads : Claim(j, t) \/ DigestEntry(j, t))

(***************************************************************************)
(* The inductive invariant behind the first three.                         *)
(***************************************************************************)

\* A reading has entries to count and a budget; what is on disk is no answer.
ParametersOK ==
  /\ N \in Nat /\ Budget \in Nat \ {0} /\ IsFiniteSet(Jobs)
  /\ \A n \in Nodes : n.kind \notin {"error", "none"}

\* What a slot may hold, and what a job may answer.
ErrorsNamed == {ErrorAt(i, why) : i \in Entries, why \in {"gone", "changed", "unsupported"}}
Digests == {None, Absent, Error("interrupted")} \union Nodes \union ErrorsNamed
Results == Digests \union {Error("not digested")}
             \union {Combine(slots) : slots \in [Entries -> Digests]}

JobType ==
  [st : {"asked", "started", "digesting", "done"}, next : Nat \ {0},
   firstErr : 1..(N + 1), slots : [Entries -> Digests], flag : BOOLEAN,
   result : Results, steady : BOOLEAN, was : [Entries -> Nodes \union {None}]]
ThreadType == [at : {"off", "claim", "digest", "joined"}, entry : 0..N]

TypeOK ==
  /\ disk \in [Entries -> Nodes]
  /\ job \in [Jobs -> JobType]
  /\ thread \in [Jobs -> [Threads -> ThreadType]]

\* Some thread of j has claimed entry i and not answered for it yet.
InHand(j, i) == \E t \in Threads : thread[j][t].at = "digest" /\ thread[j][t].entry = i

\* Before it hashes a job has no slot filled.
NotBegun(j) ==
  job[j].next = 1 /\ job[j].firstErr = N + 1 /\ job[j].slots = Nothing

\* A job that hashes: its own thread is there; firstErr is the first failure so far;
\* every entry claimed is answered for, in hand of one thread, or behind a failure;
\* threads leave only at the end.
Covered(j) ==
  /\ thread[j][1].at # "off"
  /\ job[j].firstErr \in Entries => job[j].slots[job[j].firstErr].kind = "error"
  /\ \A i \in Entries :
       /\ job[j].slots[i].kind = "error" => job[j].firstErr <= i
       /\ i < job[j].next => job[j].slots[i] # None \/ InHand(j, i) \/ i > job[j].firstErr
       /\ i >= job[j].next => job[j].slots[i] = None
  /\ \A t \in Threads :
       thread[j][t].at = "digest" =>
         /\ thread[j][t].entry < job[j].next /\ job[j].slots[thread[j][t].entry] = None
         /\ \A u \in Threads :
              thread[j][u].at = "digest" /\ thread[j][u].entry = thread[j][t].entry => u = t
  /\ \A t \in Threads : thread[j][t].at = "joined" => job[j].next > N

\* Over files left alone every slot filled is what one thread would have put there.
Faithful(j) ==
  /\ job[j].was = disk
  /\ \A i \in Entries : job[j].slots[i] \in {None, Digest(i, disk[i], HintOf(disk[i]))}

ReadingInd ==
  /\ TypeOK
  /\ SameAnyThreads
  /\ AllDigested
  /\ \A j \in Jobs :
       /\ job[j].st # "digesting" => \A t \in Threads : thread[j][t].at = "off"
       /\ \A t \in Threads : thread[j][t].at = "digest" => thread[j][t].entry \in Entries
       /\ job[j].st \in {"asked", "started"} => NotBegun(j)
       /\ job[j].st = "digesting" /\ ~job[j].flag => Covered(j)
       /\ job[j].st \in {"started", "digesting"} /\ ~job[j].flag /\ job[j].steady => Faithful(j)
=============================================================================
