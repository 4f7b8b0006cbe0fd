--------------------------- MODULE ProcessProofs ---------------------------
(***************************************************************************)
(* Proofs about one Task process: the reading of its sources (Reading), the *)
(* supervisor of its sandboxed commands (Supervisor), the stopping of its  *)
(* commands (Reap), their output (Output) and the replacement of the       *)
(* binary (Update), for every value of the constants, and about MCProcess, *)
(* which starts any of them.                                               *)
(***************************************************************************)
EXTENDS MCProcess, FiniteSetTheorems, SequenceTheorems, TLAPS


-----------------------------------------------------------------------------
(* The operators                                                           *)

\* The least element of a set of integers is its Min.
LEMMA MinIs ==
  ASSUME NEW A \in SUBSET Int, NEW m \in A, \A x \in A : m <= x
  PROVE  R!Min(A) = m
<1> DEFINE P(x) == x \in A /\ \A y \in A : x =< y
           c == CHOOSE x : P(x)
<1>1. P(m)
  OBVIOUS
<1>2. P(c)
  <2> HIDE DEF P
  <2> QED
    BY <1>1, Zenon
<1>3. R!Min(A) = c
  BY DEF R!Min
<1>4. c \in A /\ c <= m /\ m <= c
  BY <1>2
<1> HIDE DEF c
<1> QED
  BY <1>3, <1>4

\* The first failure recorded by a fetch_min: the smaller of the two.
LEMMA MinOfTwo ==
  ASSUME NEW a \in Int, NEW b \in Int
  PROVE  R!Min({a, b}) = IF a <= b THEN a ELSE b
<1>1. CASE a <= b
  BY <1>1, MinIs, \A x \in {a, b} : a <= x
<1>2. CASE ~(a <= b)
  <2>1. \A x \in {a, b} : b <= x
    BY <1>2
  <2> QED
    BY <1>2, <2>1, MinIs
<1> QED
  BY <1>1, <1>2

\* A slot is empty exactly when it holds None.
LEMMA NoneKind ==
  ASSUME R!ParametersOK, NEW d \in R!Digests
  PROVE  /\ d.kind = "none" => d = R!None
         /\ d.kind = "error" => d # R!Error("not digested")
<1>1. CASE d \in {R!None, R!Absent}
  <2>1. R!None.kind = "none" /\ R!Absent.kind = "absent"
    BY DEF R!None, R!Absent
  <2> QED
    BY <1>1, <2>1
<1>5. CASE d = R!Error("interrupted")
  <2>1. d.kind = "error" /\ d.why # R!Error("not digested").why
    BY <1>5 DEF R!Error
  <2> QED
    BY <2>1
<1>2. CASE d \in Nodes
  BY <1>2 DEF R!ParametersOK
<1>3. ASSUME NEW i \in R!Entries, NEW why \in {"gone", "changed", "unsupported"},
             d = R!ErrorAt(i, why)
      PROVE  d.kind = "error" /\ d # R!Error("not digested")
  <2>1. d.why # R!Error("not digested").why
    BY <1>3 DEF R!ErrorAt, R!Error
  <2> QED
    BY <1>3, <2>1 DEF R!ErrorAt
<1>4. CASE d \in R!ErrorsNamed
  <2>1. PICK i \in R!Entries, why \in {"gone", "changed", "unsupported"} : d = R!ErrorAt(i, why)
    BY <1>4 DEF R!ErrorsNamed
  <2>2. d.kind = "error"
    BY <2>1 DEF R!ErrorAt
  <2> QED
    BY <1>3, <2>1, <2>2
<1> QED
  BY <1>1, <1>2, <1>4, <1>5 DEF R!Digests

\* digest_inner answers for every entry: a digest or an error that names it.
LEMMA DigestAnswers ==
  ASSUME R!ParametersOK, NEW i \in R!Entries, NEW n \in Nodes, NEW w
  PROVE  R!Digest(i, n, R!HintOf(w)) \in R!Digests \ {R!None}
<1>1. R!HintOf(w) \in {"file", "link", "absent", "Unknown"}
  BY DEF R!HintOf
<1>2. n # R!None /\ R!Absent # R!None /\ \A why : R!ErrorAt(i, why) # R!None
  BY DEF R!ParametersOK, R!None, R!Absent, R!ErrorAt
<1>3. CASE R!HintOf(w) = "absent"
  BY <1>2, <1>3 DEF R!Digest, R!Digests, R!ErrorsNamed
<1>4. CASE R!HintOf(w) \in {"file", "link"}
  BY <1>2, <1>4 DEF R!Digest, R!Digests, R!ErrorsNamed
<1>5. CASE R!HintOf(w) = "Unknown"
  BY <1>2, <1>5 DEF R!Digest, R!Digests, R!ErrorsNamed
<1> QED
  BY <1>1, <1>3, <1>4, <1>5

\* What digest_in makes of its slots, when m is the first failure and only entries
\* above it were passed over.
LEMMA CollectFirst ==
  ASSUME R!ParametersOK, NEW slots \in [R!Entries -> R!Digests], NEW m \in 1..(N + 1),
         m \in R!Entries => slots[m].kind = "error",
         \A i \in R!Entries : slots[i].kind = "error" => m <= i,
         \A i \in R!Entries : slots[i] = R!None => m < i
  PROVE  R!Collect(slots) = IF m \in R!Entries THEN slots[m] ELSE R!Combine(slots)
<1> DEFINE wrong == {i \in R!Entries : slots[i].kind \in {"error", "none"}}
<1>0. N \in Nat /\ R!Entries = 1..N
  BY DEF R!ParametersOK, R!Entries
<1>1. \A i \in wrong : m <= i
  <2> SUFFICES ASSUME NEW i \in wrong PROVE m <= i
    OBVIOUS
  <2>1. CASE slots[i].kind = "error"
    BY <2>1
  <2>2. CASE slots[i].kind = "none"
    <3>1. slots[i] = R!None
      BY <2>2, NoneKind
    <3> QED
      BY <1>0, <3>1
  <2> QED
    BY <2>1, <2>2
<1>2. CASE m \in R!Entries
  <2>1. m \in wrong /\ wrong \in SUBSET Int
    BY <1>0, <1>2
  <2>2. R!Min(wrong) = m
    BY <1>1, <2>1, MinIs
  <2>3. slots[m] # R!None
    BY <1>0, <1>2
  <2> QED
    BY <1>2, <2>1, <2>2, <2>3 DEF R!Collect
<1>3. CASE m \notin R!Entries
  <2>1. wrong = {}
    BY <1>0, <1>1, <1>3
  <2> QED
    BY <1>3, <2>1 DEF R!Collect
<1> QED
  BY <1>2, <1>3

\* If moreover every slot filled is what one thread would have put there, the answer
\* is the one of one thread.
LEMMA CollectFaithful ==
  ASSUME R!ParametersOK, NEW slots \in [R!Entries -> R!Digests], NEW m \in 1..(N + 1),
         m \in R!Entries => slots[m].kind = "error",
         \A i \in R!Entries : slots[i].kind = "error" => m <= i,
         \A i \in R!Entries : slots[i] = R!None => m < i,
         NEW was \in [R!Entries -> Nodes],
         \A i \in R!Entries : slots[i] \in {R!None, R!Digest(i, was[i], R!HintOf(was[i]))}
  PROVE  R!Collect(slots) = R!OneThread(was)
<1> DEFINE d == [i \in R!Entries |-> R!Digest(i, was[i], R!HintOf(was[i]))]
           wrong == {i \in R!Entries : d[i].kind = "error"}
<1>0. N \in Nat /\ R!Entries = 1..N
  BY DEF R!ParametersOK, R!Entries
<1>1. R!Collect(slots) = IF m \in R!Entries THEN slots[m] ELSE R!Combine(slots)
  BY CollectFirst
<1>2. \A i \in R!Entries : i <= m => slots[i] = d[i]
  BY <1>0
<1>3. CASE m \in R!Entries
  <2>1. slots[m] = d[m] /\ m \in wrong /\ wrong \in SUBSET Int
    BY <1>0, <1>2, <1>3
  <2>2. \A i \in wrong : m <= i
    BY <1>0, <1>2
  <2>3. R!Min(wrong) = m
    BY <2>1, <2>2, MinIs
  <2> QED
    BY <1>1, <1>3, <2>1, <2>3 DEF R!OneThread
<1>4. CASE m \notin R!Entries
  <2>1. slots = d
    BY <1>0, <1>2, <1>4
  <2>2. wrong = {}
    BY <1>0, <1>2, <1>4
  <2> QED
    BY <1>1, <1>4, <2>1, <2>2 DEF R!OneThread
<1> QED
  BY <1>3, <1>4
-----------------------------------------------------------------------------
(* The invariant, job by job                                               *)

\* What ReadingInd says of one job.
JobInd(k) ==
  /\ job[k].st = "done" /\ ~job[k].flag /\ job[k].steady => job[k].result = R!OneThread(job[k].was)
  /\ job[k].st = "done" => job[k].result # R!Error("not digested")
  /\ job[k].st # "digesting" => \A t \in R!Threads : thread[k][t].at = "off"
  /\ \A t \in R!Threads : thread[k][t].at = "digest" => thread[k][t].entry \in R!Entries
  /\ job[k].st \in {"asked", "started"} => R!NotBegun(k)
  /\ job[k].st = "digesting" /\ ~job[k].flag => R!Covered(k)
  /\ job[k].st \in {"started", "digesting"} /\ ~job[k].flag /\ job[k].steady => R!Faithful(k)

LEMMA JobByJob == R!ReadingInd <=> R!TypeOK /\ \A k \in Readings : JobInd(k)
BY DEF R!ReadingInd, JobInd, R!SameAnyThreads, R!AllDigested

LEMMA JobByJobNext == R!TypeOK' /\ (\A k \in Readings : JobInd(k)') => R!ReadingInd'
BY DEF R!ReadingInd, JobInd, R!SameAnyThreads, R!AllDigested

\* A step of another job leaves what is known of this one.
LEMMA Untouched ==
  ASSUME NEW k \in Readings, JobInd(k), job'[k] = job[k], thread'[k] = thread[k], disk' = disk
  PROVE  JobInd(k)'
<1>1. \A i \in R!Entries : R!InHand(k, i) => R!InHand(k, i)'
  BY DEF R!InHand
<1>2. R!Covered(k) => R!Covered(k)'
  BY <1>1 DEF R!Covered
<1>3. (R!NotBegun(k) => R!NotBegun(k)') /\ (R!Faithful(k) => R!Faithful(k)')
  BY DEF R!NotBegun, R!Faithful
<1> QED
  BY <1>2, <1>3 DEF JobInd

\* At first every reading is asked for and none has begun.
LEMMA ReadingInit ==
  ASSUME R!ParametersOK
  PROVE  R!Init => R!ReadingInd
<1> SUFFICES ASSUME R!Init PROVE R!TypeOK /\ \A k \in Readings : JobInd(k)
  BY JobByJob
<1>0. N \in Nat /\ Budget \in Nat
  BY DEF R!ParametersOK
<1>1. R!Nothing \in [R!Entries -> R!Digests] /\ R!Nothing \in [R!Entries -> Nodes \union {R!None}]
  BY DEF R!Nothing, R!Digests
<1>2. R!None \in R!Results
  BY DEF R!Results, R!Digests
<1>3. job \in [Readings -> R!JobType]
  BY <1>0, <1>1, <1>2 DEF R!Init, R!Asked, R!JobType
<1>4. thread \in [Readings -> [R!Threads -> R!ThreadType]]
  BY <1>0 DEF R!Init, R!Idle, R!ThreadType
<1>5. R!TypeOK
  BY <1>3, <1>4 DEF R!Init, R!TypeOK, R!JobType, R!ThreadType
<1>6. ASSUME NEW k \in Readings PROVE JobInd(k)
  <2>1. job[k] = R!Asked
    BY DEF R!Init
  <2> QED
    BY <2>1 DEF R!Init, JobInd, R!NotBegun, R!Asked, R!Idle
<1> QED
  BY <1>5, <1>6

-----------------------------------------------------------------------------
(* One step                                                                *)

\* off_thread types the entries as they are on disk.
LEMMA StartInd ==
  ASSUME R!ParametersOK, R!ReadingInd, NEW j \in Readings, R!Start(j)
  PROVE  R!ReadingInd'
<1> SUFFICES R!TypeOK' /\ \A k \in Readings : JobInd(k)'
  BY JobByJobNext
<1>0. R!TypeOK /\ \A k \in Readings : JobInd(k)
  BY JobByJob
<1>1. /\ job' = [job EXCEPT ![j].st = "started", ![j].was = disk]
      /\ disk' = disk /\ thread' = thread /\ job[j].st = "asked"
  BY DEF R!Start
<1>2. R!TypeOK'
  <2>1. disk \in [R!Entries -> Nodes \union {R!None}]
    BY <1>0 DEF R!TypeOK, R!JobType, R!ThreadType
  <2>5. job[j] \in R!JobType
    BY <1>0 DEF R!TypeOK
  <2>2. [job[j] EXCEPT !.st = "started", !.was = disk] \in R!JobType
    BY <2>1, <2>5 DEF R!JobType
  <2>3. job' = [job EXCEPT ![j] = [job[j] EXCEPT !.st = "started", !.was = disk]]
    BY <1>1
  <2>4. job' \in [Readings -> R!JobType]
    BY <1>0, <2>2, <2>3 DEF R!TypeOK
  <2> QED
    BY <1>0, <1>1, <2>4 DEF R!TypeOK
<1>3. /\ job'[j].st = "started" /\ job'[j].was = disk
      /\ job'[j].next = job[j].next /\ job'[j].firstErr = job[j].firstErr
      /\ job'[j].slots = job[j].slots
  BY <1>0, <1>1 DEF R!TypeOK, R!JobType, R!ThreadType
<1>4. R!NotBegun(j)
  BY <1>0, <1>1 DEF JobInd
<1>7. \A t \in R!Threads : thread'[j][t].at = "off"
  BY <1>0, <1>1 DEF JobInd
<1>8. R!NotBegun(j)' /\ R!Faithful(j)'
  BY <1>1, <1>3, <1>4 DEF R!NotBegun, R!Faithful, R!Nothing
<1>5. JobInd(j)'
  BY <1>3, <1>7, <1>8 DEF JobInd
<1>6. ASSUME NEW k \in Readings, k # j PROVE JobInd(k)'
  BY <1>0, <1>1, <1>6, Untouched DEF R!TypeOK, R!JobType, R!ThreadType
<1> QED
  BY <1>2, <1>5, <1>6

\* take_helpers: the job's own thread and the helpers stand before their first entry.
LEMMA TakeHelpersInd ==
  ASSUME R!ParametersOK, R!ReadingInd, NEW j \in Readings, R!TakeHelpers(j)
  PROVE  R!ReadingInd'
<1> SUFFICES R!TypeOK' /\ \A k \in Readings : JobInd(k)'
  BY JobByJobNext
<1>0. R!TypeOK /\ \A k \in Readings : JobInd(k)
  BY JobByJob
<1>a. N \in Nat /\ Budget \in Nat \ {0}
  BY DEF R!ParametersOK
<1>1. PICK n \in R!HelperCounts :
        /\ job' = [job EXCEPT ![j].st = "digesting"]
        /\ thread' = [thread EXCEPT ![j] = [t \in R!Threads |->
                        IF t <= n + 1 THEN [at |-> "claim", entry |-> 0] ELSE R!Idle]]
        /\ disk' = disk /\ job[j].st = "started"
  BY DEF R!TakeHelpers
<1>2. n \in Int /\ n >= 0
  BY DEF R!HelperCounts
<1>3. R!TypeOK'
  <2>3. job[j] \in R!JobType
    BY <1>0 DEF R!TypeOK
  <2>4. [job[j] EXCEPT !.st = "digesting"] \in R!JobType
    BY <2>3 DEF R!JobType
  <2>1. job' \in [Readings -> R!JobType]
    BY <1>0, <1>1, <2>4 DEF R!TypeOK
  <2>2. thread' \in [Readings -> [R!Threads -> R!ThreadType]]
    BY <1>0, <1>1, <1>a DEF R!TypeOK, R!ThreadType, R!Idle
  <2> QED
    BY <1>0, <1>1, <2>1, <2>2 DEF R!TypeOK, R!JobType, R!ThreadType
<1>4. /\ job'[j].st = "digesting" /\ job'[j].was = job[j].was /\ job'[j].flag = job[j].flag
      /\ job'[j].next = job[j].next /\ job'[j].firstErr = job[j].firstErr
      /\ job'[j].slots = job[j].slots /\ job'[j].steady = job[j].steady
  BY <1>0, <1>1 DEF R!TypeOK, R!JobType, R!ThreadType
<1>5. /\ thread'[j][1].at = "claim"
      /\ \A t \in R!Threads : thread'[j][t].at \in {"claim", "off"}
  BY <1>0, <1>1, <1>2, <1>a DEF R!TypeOK, R!JobType, R!ThreadType, R!Threads, R!Idle
<1>6. R!NotBegun(j)
  BY <1>0, <1>1 DEF JobInd
<1>7. R!Covered(j)'
  BY <1>4, <1>5, <1>6, <1>a DEF R!Covered, R!NotBegun, R!Nothing, R!None, R!Entries
<1>8. ~job[j].flag /\ job[j].steady => R!Faithful(j)'
  BY <1>0, <1>1, <1>4 DEF JobInd, R!Faithful
<1>9. JobInd(j)'
  BY <1>4, <1>5, <1>7, <1>8 DEF JobInd
<1>10. ASSUME NEW k \in Readings, k # j PROVE JobInd(k)'
  BY <1>0, <1>1, <1>10, Untouched DEF R!TypeOK, R!JobType, R!ThreadType
<1> QED
  BY <1>3, <1>9, <1>10
\* A thread claims the next entry, passes over one above a failure, or leaves at the end.
LEMMA ClaimInd ==
  ASSUME R!ParametersOK, R!ReadingInd, NEW j \in Readings, NEW t \in R!Threads, R!Claim(j, t)
  PROVE  R!ReadingInd'
<1> SUFFICES R!TypeOK' /\ \A k \in Readings : JobInd(k)'
  BY JobByJobNext
<1>0. R!TypeOK /\ \A k \in Readings : JobInd(k)
  BY JobByJob
<1>a. N \in Nat /\ R!Entries = 1..N /\ 1 \in R!Threads
  BY DEF R!ParametersOK, R!Entries, R!Threads
<1> DEFINE i == job[j].next
           ends == i > N \/ job[j].flag
           th == IF ends THEN [at |-> "joined", entry |-> 0]
                 ELSE IF R!Skips(j, i) THEN [at |-> "claim", entry |-> 0]
                 ELSE [at |-> "digest", entry |-> i]
<1>1. /\ thread[j][t].at = "claim" /\ disk' = disk
      /\ job' = [job EXCEPT ![j].next = i + 1]
      /\ thread' = [thread EXCEPT ![j][t] = th]
  BY DEF R!Claim
<1>2. i \in Nat \ {0} /\ job[j] \in R!JobType /\ thread[j] \in [R!Threads -> R!ThreadType]
  BY <1>0 DEF R!TypeOK, R!JobType
<1>3. th \in R!ThreadType /\ (~ends => i \in 0..N)
  BY <1>2, <1>a DEF R!ThreadType
<1>4. R!TypeOK'
  <2>3. [job[j] EXCEPT !.next = i + 1] \in R!JobType
    BY <1>2 DEF R!JobType
  <2>1. job' \in [Readings -> R!JobType]
    BY <1>0, <1>1, <2>3 DEF R!TypeOK
  <2>2. thread' \in [Readings -> [R!Threads -> R!ThreadType]]
    BY <1>0, <1>1, <1>3 DEF R!TypeOK
  <2> QED
    BY <1>0, <1>1, <2>1, <2>2 DEF R!TypeOK
<1>5. /\ job'[j].next = i + 1 /\ job'[j].st = job[j].st /\ job'[j].was = job[j].was
      /\ job'[j].flag = job[j].flag /\ job'[j].firstErr = job[j].firstErr
      /\ job'[j].slots = job[j].slots /\ job'[j].steady = job[j].steady
      /\ job'[j].result = job[j].result
  BY <1>0, <1>1 DEF R!TypeOK, R!JobType
<1>6. thread'[j][t] = th /\ \A u \in R!Threads : u # t => thread'[j][u] = thread[j][u]
  BY <1>0, <1>1 DEF R!TypeOK
<1>7. job[j].st = "digesting"
  BY <1>0, <1>1 DEF JobInd
<1>8. ASSUME ~job[j].flag PROVE R!Covered(j)'
  <2>0. R!Covered(j)
    BY <1>0, <1>7, <1>8 DEF JobInd
  <2>1. thread'[j][1].at # "off"
    BY <1>1, <1>6, <2>0 DEF R!Covered
  <2>3. ASSUME NEW x \in R!Entries, x < i + 1
        PROVE  job[j].slots[x] # R!None \/ R!InHand(j, x)' \/ x > job[j].firstErr
    <3>1. CASE x = i
      BY <1>6, <1>8, <1>a, <3>1 DEF R!InHand, R!Skips
    <3>2. CASE x < i
      <4>1. job[j].slots[x] # R!None \/ R!InHand(j, x) \/ x > job[j].firstErr
        BY <2>0, <3>2 DEF R!Covered
      <4>2. R!InHand(j, x) => R!InHand(j, x)'
        BY <1>1, <1>6 DEF R!InHand
      <4> QED
        BY <4>1, <4>2
    <3> QED
      BY <1>2, <1>a, <2>3, <3>1, <3>2
  <2>4. \A u \in R!Threads : thread'[j][u].at = "joined" => i + 1 > N
    BY <1>2, <1>6, <1>8, <1>a, <2>0 DEF R!Covered
  <2>5. \A x \in R!Entries : x >= i + 1 => job[j].slots[x] = R!None
    BY <1>2, <1>a, <2>0 DEF R!Covered
  <2>6. ASSUME NEW u \in R!Threads, thread'[j][u].at = "digest"
        PROVE  /\ thread'[j][u].entry < i + 1 /\ job[j].slots[thread'[j][u].entry] = R!None
               /\ \A v \in R!Threads :
                    thread'[j][v].at = "digest" /\ thread'[j][v].entry = thread'[j][u].entry
                      => v = u
    <3>1. th.at = "digest" => th.entry = i /\ i \in R!Entries /\ job[j].slots[i] = R!None
      BY <1>2, <1>a, <2>0 DEF R!Covered
    <3>2. \A v \in R!Threads : v # t /\ thread'[j][v].at = "digest" =>
            thread'[j][v].entry \in R!Entries /\ thread'[j][v].entry < i
      BY <1>0, <1>6, <2>0 DEF R!Covered, JobInd
    <3>3. CASE u = t
      BY <1>2, <1>6, <1>a, <2>6, <3>1, <3>2, <3>3
    <3>4. CASE u # t
      <4>1. thread'[j][u] = thread[j][u]
        BY <1>6, <3>4
      <4>2. thread[j][u].entry < i /\ job[j].slots[thread[j][u].entry] = R!None
        BY <2>0, <2>6, <4>1 DEF R!Covered
      <4>3. ASSUME NEW v \in R!Threads, thread'[j][v].at = "digest",
                   thread'[j][v].entry = thread'[j][u].entry
            PROVE  v = u
        <5>1. v # t
          BY <1>2, <1>6, <1>a, <3>1, <3>2, <3>4, <2>6, <4>3
        <5> QED
          BY <1>6, <2>0, <2>6, <4>1, <4>3, <5>1 DEF R!Covered
      <4> QED
        BY <1>0, <1>2, <1>a, <2>6, <3>2, <3>4, <4>1, <4>2, <4>3
    <3> QED
      BY <3>3, <3>4
  <2> QED
    BY <1>5, <2>0, <2>1, <2>3, <2>4, <2>5, <2>6 DEF R!Covered
<1>11. \A u \in R!Threads : thread'[j][u].at = "digest" => thread'[j][u].entry \in R!Entries
  <2>1. th.at = "digest" => th.entry \in R!Entries
    BY <1>2, <1>a
  <2> QED
    BY <1>0, <1>6, <2>1 DEF JobInd
<1>12. R!Faithful(j) => R!Faithful(j)'
  BY <1>1, <1>5 DEF R!Faithful
<1>9. JobInd(j)'
  BY <1>0, <1>5, <1>7, <1>8, <1>11, <1>12 DEF JobInd
<1>10. ASSUME NEW k \in Readings, k # j PROVE JobInd(k)'
  BY <1>0, <1>1, <1>10, Untouched DEF R!TypeOK
<1> QED
  BY <1>4, <1>9, <1>10
\* A thread answers for the entry it claimed; a failure lowers firstErr.
LEMMA DigestEntryInd ==
  ASSUME R!ParametersOK, R!ReadingInd, NEW j \in Readings, NEW t \in R!Threads, R!DigestEntry(j, t)
  PROVE  R!ReadingInd'
<1> SUFFICES R!TypeOK' /\ \A k \in Readings : JobInd(k)'
  BY JobByJobNext
<1>0. R!TypeOK /\ \A k \in Readings : JobInd(k)
  BY JobByJob
<1>a. N \in Nat /\ R!Entries = 1..N /\ 1 \in R!Threads
  BY DEF R!ParametersOK, R!Entries, R!Threads
<1> DEFINE i == thread[j][t].entry
           d == IF job[j].flag THEN R!Error("interrupted")
                ELSE R!Digest(i, disk[i], R!HintOf(job[j].was[i]))
           e == IF d.kind = "error" THEN R!Min({job[j].firstErr, i}) ELSE job[j].firstErr
<1>1. /\ thread[j][t].at = "digest" /\ disk' = disk
      /\ job' = [job EXCEPT ![j] = [job[j] EXCEPT !.slots = [job[j].slots EXCEPT ![i] = d],
                                                 !.firstErr = e]]
      /\ thread' = [thread EXCEPT ![j][t] = [at |-> "claim", entry |-> 0]]
  BY <1>0 DEF R!DigestEntry, R!TypeOK, R!JobType
<1>2. job[j] \in R!JobType /\ thread[j] \in [R!Threads -> R!ThreadType]
  BY <1>0 DEF R!TypeOK
<1>3. job[j].st = "digesting"
  BY <1>0, <1>1 DEF JobInd
<1>4. i \in R!Entries
  BY <1>0, <1>1 DEF JobInd
<1>5. job[j].firstErr \in 1..(N + 1) /\ job[j].slots \in [R!Entries -> R!Digests]
  BY <1>2 DEF R!JobType
<1>6. d \in R!Digests \ {R!None}
  <2>1. R!Digest(i, disk[i], R!HintOf(job[j].was[i])) \in R!Digests \ {R!None}
    BY <1>0, <1>4, DigestAnswers DEF R!TypeOK
  <2>2. R!Error("interrupted") \in R!Digests \ {R!None}
    BY DEF R!Digests, R!Error, R!None
  <2> QED
    BY <2>1, <2>2
<1>7. e = IF d.kind = "error" /\ i < job[j].firstErr THEN i ELSE job[j].firstErr
  BY <1>4, <1>5, <1>a, MinOfTwo
<1> HIDE DEF d, e
<1>8. e \in 1..(N + 1) /\ e <= job[j].firstErr
  BY <1>4, <1>5, <1>7, <1>a
<1>9. R!TypeOK'
  <2>1. [job[j].slots EXCEPT ![i] = d] \in [R!Entries -> R!Digests]
    BY <1>5, <1>6
  <2>2. [job[j] EXCEPT !.slots = [job[j].slots EXCEPT ![i] = d], !.firstErr = e] \in R!JobType
    BY <1>2, <1>8, <2>1 DEF R!JobType
  <2>3. job' \in [Readings -> R!JobType]
    BY <1>0, <1>1, <2>2 DEF R!TypeOK
  <2>4. thread' \in [Readings -> [R!Threads -> R!ThreadType]]
    BY <1>0, <1>1, <1>a DEF R!TypeOK, R!ThreadType
  <2> QED
    BY <1>0, <1>1, <2>3, <2>4 DEF R!TypeOK
<1>10. /\ job'[j].slots = [job[j].slots EXCEPT ![i] = d] /\ job'[j].firstErr = e
       /\ job'[j].next = job[j].next /\ job'[j].st = job[j].st /\ job'[j].was = job[j].was
       /\ job'[j].flag = job[j].flag /\ job'[j].steady = job[j].steady
  BY <1>0, <1>1, <1>2 DEF R!TypeOK, R!JobType
<1>11. /\ thread'[j][t] = [at |-> "claim", entry |-> 0]
       /\ \A u \in R!Threads : u # t => thread'[j][u] = thread[j][u]
  BY <1>0, <1>1 DEF R!TypeOK
<1>12. job'[j].slots[i] = d /\ \A x \in R!Entries : x # i => job'[j].slots[x] = job[j].slots[x]
  BY <1>4, <1>5, <1>10
<1>13. ASSUME ~job[j].flag PROVE R!Covered(j)'
  <2>0. R!Covered(j)
    BY <1>0, <1>3, <1>13 DEF JobInd
  <2>1. thread'[j][1].at # "off"
    BY <1>11, <1>a, <2>0 DEF R!Covered
  <2>2. e \in R!Entries => job'[j].slots[e].kind = "error"
    <3>1. CASE d.kind = "error" /\ i < job[j].firstErr
      BY <1>7, <1>12, <3>1
    <3>2. CASE ~(d.kind = "error" /\ i < job[j].firstErr)
      <4>1. e = job[j].firstErr
        BY <1>7, <3>2
      <4>2. e # i
        <5>1. job[j].slots[i] = R!None
          BY <1>1, <2>0 DEF R!Covered
        <5> QED
          BY <1>4, <2>0, <4>1, <5>1 DEF R!Covered, R!None
      <4> QED
        BY <1>12, <2>0, <4>1, <4>2 DEF R!Covered
    <3> QED
      BY <3>1, <3>2
  <2>3. ASSUME NEW x \in R!Entries PROVE job'[j].slots[x].kind = "error" => e <= x
    <3>1. CASE x = i
      BY <1>4, <1>5, <1>7, <1>12, <1>a, <3>1
    <3>2. CASE x # i
      <4>1. job[j].slots[x].kind = "error" => job[j].firstErr <= x
        BY <2>0 DEF R!Covered
      <4> QED
        BY <1>5, <1>8, <1>12, <1>a, <3>2, <4>1
    <3> QED
      BY <3>1, <3>2
  <2>4. ASSUME NEW x \in R!Entries, x < job[j].next
        PROVE  job'[j].slots[x] # R!None \/ R!InHand(j, x)' \/ x > e
    <3>1. CASE x = i
      BY <1>6, <1>12, <3>1
    <3>2. CASE x # i
      <4>1. job[j].slots[x] # R!None \/ R!InHand(j, x) \/ x > job[j].firstErr
        BY <2>0, <2>4 DEF R!Covered
      <4>2. R!InHand(j, x) => R!InHand(j, x)'
        BY <1>11, <3>2 DEF R!InHand
      <4>3. x > job[j].firstErr => x > e
        BY <1>5, <1>8, <1>a
      <4> QED
        BY <1>12, <3>2, <4>1, <4>2, <4>3
    <3> QED
      BY <3>1, <3>2
  <2>5. \A u \in R!Threads : thread'[j][u].at = "joined" => job[j].next > N
    BY <1>11, <2>0 DEF R!Covered
  <2>6. \A x \in R!Entries : x >= job[j].next => job'[j].slots[x] = R!None
    <3>1. i < job[j].next
      BY <1>1, <2>0 DEF R!Covered
    <3> QED
      BY <1>2, <1>4, <1>12, <1>a, <2>0, <3>1 DEF R!Covered, R!JobType
  <2>7. ASSUME NEW u \in R!Threads, thread'[j][u].at = "digest"
        PROVE  /\ thread'[j][u].entry < job[j].next
               /\ job'[j].slots[thread'[j][u].entry] = R!None
               /\ \A v \in R!Threads :
                    thread'[j][v].at = "digest" /\ thread'[j][v].entry = thread'[j][u].entry
                      => v = u
    <3>1. \A v \in R!Threads : thread'[j][v].at = "digest" => v # t /\ thread'[j][v] = thread[j][v]
      BY <1>11
    <3>2. u # t /\ thread'[j][u] = thread[j][u]
      BY <2>7, <3>1
    <3>3. thread[j][u].entry # i /\ thread[j][u].entry \in R!Entries
      BY <1>0, <1>1, <2>0, <2>7, <3>2 DEF R!Covered, JobInd
    <3>4. /\ thread[j][u].entry < job[j].next /\ job[j].slots[thread[j][u].entry] = R!None
          /\ \A v \in R!Threads :
               thread[j][v].at = "digest" /\ thread[j][v].entry = thread[j][u].entry => v = u
      BY <2>0, <2>7, <3>2 DEF R!Covered
    <3> QED
      BY <1>12, <3>1, <3>2, <3>3, <3>4
  <2> QED
    BY <1>10, <2>1, <2>2, <2>3, <2>4, <2>5, <2>6, <2>7 DEF R!Covered
<1>14. ASSUME ~job[j].flag, job[j].steady PROVE R!Faithful(j)'
  <2>0. R!Faithful(j)
    BY <1>0, <1>3, <1>14 DEF JobInd
  <2>1. d = R!Digest(i, disk[i], R!HintOf(disk[i]))
    BY <1>14, <2>0 DEF d, R!Faithful
  <2> QED
    BY <1>1, <1>10, <1>12, <2>0, <2>1 DEF R!Faithful
<1>15. \A u \in R!Threads : thread'[j][u].at = "digest" => thread'[j][u].entry \in R!Entries
  <2>1. thread'[j][t].at = "claim"
    BY <1>11
  <2> QED
    BY <1>0, <1>11, <2>1 DEF JobInd
<1>16. JobInd(j)'
  BY <1>3, <1>10, <1>13, <1>14, <1>15 DEF JobInd
<1>17. ASSUME NEW k \in Readings, k # j PROVE JobInd(k)'
  BY <1>0, <1>1, <1>17, Untouched DEF R!TypeOK
<1> QED
  BY <1>9, <1>16, <1>17
\* The scope joins its threads: with all of them at the end nothing was left out, and
\* the slots make the answer of one thread.
LEMMA JoinInd ==
  ASSUME R!ParametersOK, R!ReadingInd, NEW j \in Readings, R!Join(j)
  PROVE  R!ReadingInd'
<1> SUFFICES R!TypeOK' /\ \A k \in Readings : JobInd(k)'
  BY JobByJobNext
<1>0. R!TypeOK /\ \A k \in Readings : JobInd(k)
  BY JobByJob
<1>a. N \in Nat /\ R!Entries = 1..N /\ 1 \in R!Threads
  BY DEF R!ParametersOK, R!Entries, R!Threads
<1> DEFINE r == IF job[j].flag THEN R!Error("interrupted") ELSE R!Collect(job[j].slots)
           w == IF job[j].flag \/ ~job[j].steady THEN R!Nothing ELSE job[j].was
           m == job[j].firstErr
           new == [job[j] EXCEPT !.st = "done", !.next = 1, !.firstErr = N + 1,
                                 !.slots = R!Nothing, !.was = w, !.result = r]
<1>1. /\ job[j].st = "digesting" /\ disk' = disk
      /\ \A t \in R!Threads : thread[j][t].at \in {"off", "joined"}
      /\ thread' = [thread EXCEPT ![j] = [t \in R!Threads |-> R!Idle]]
      /\ job' = [job EXCEPT ![j] = new]
  BY <1>0 DEF R!Join, R!TypeOK, R!JobType
<1>2. job[j] \in R!JobType /\ m \in 1..(N + 1) /\ job[j].slots \in [R!Entries -> R!Digests]
  BY <1>0 DEF R!TypeOK, R!JobType
<1>3. ASSUME ~job[j].flag
      PROVE  /\ m \in R!Entries => job[j].slots[m].kind = "error"
             /\ \A x \in R!Entries : job[j].slots[x].kind = "error" => m <= x
             /\ \A x \in R!Entries : job[j].slots[x] = R!None => m < x
  <2>0. R!Covered(j)
    BY <1>0, <1>1, <1>3 DEF JobInd
  <2>1. job[j].next > N
    BY <1>1, <1>a, <2>0 DEF R!Covered
  <2>2. \A x \in R!Entries : ~R!InHand(j, x)
    BY <1>1 DEF R!InHand
  <2>3. job[j].next \in Nat
    BY <1>2 DEF R!JobType
  <2>4. \A x \in R!Entries : job[j].slots[x] = R!None => m < x
    BY <1>2, <1>a, <2>0, <2>1, <2>2, <2>3 DEF R!Covered
  <2> QED
    BY <2>0, <2>4 DEF R!Covered
<1>4. ~job[j].flag => r = IF m \in R!Entries THEN job[j].slots[m] ELSE R!Combine(job[j].slots)
  BY <1>2, <1>3, CollectFirst
<1>5. r \in R!Results /\ r # R!Error("not digested")
  <2>1. CASE job[j].flag
    <3>1. R!Error("interrupted").why # R!Error("not digested").why
      BY DEF R!Error
    <3> QED
      BY <2>1, <3>1 DEF R!Results, R!Digests
  <2>2. CASE ~job[j].flag /\ m \in R!Entries
    <3>1. r = job[j].slots[m] /\ r \in R!Digests /\ r.kind = "error"
      BY <1>2, <1>3, <1>4, <2>2
    <3> QED
      BY <3>1, NoneKind DEF R!Results
  <2>3. CASE ~job[j].flag /\ m \notin R!Entries
    <3>1. r = R!Combine(job[j].slots)
      BY <1>4, <2>3
    <3>2. R!Combine(job[j].slots).kind = "hash" /\ R!Error("not digested").kind = "error"
      BY DEF R!Combine, R!Error
    <3> QED
      BY <1>2, <3>1, <3>2 DEF R!Results
  <2> QED
    BY <2>1, <2>2, <2>3
<1>6. ~job[j].flag /\ job[j].steady => r = R!OneThread(job[j].was)
  <2> SUFFICES ASSUME ~job[j].flag, job[j].steady PROVE r = R!OneThread(job[j].was)
    OBVIOUS
  <2>1. R!Faithful(j)
    BY <1>0, <1>1 DEF JobInd
  <2>2. /\ job[j].was \in [R!Entries -> Nodes]
        /\ \A x \in R!Entries :
             job[j].slots[x] \in {R!None, R!Digest(x, job[j].was[x], R!HintOf(job[j].was[x]))}
    BY <1>0, <2>1 DEF R!Faithful, R!TypeOK
  <2>3. R!Collect(job[j].slots) = R!OneThread(job[j].was)
    BY <1>2, <1>3, <2>2, CollectFaithful
  <2> QED
    BY <2>3
<1>7. w \in [R!Entries -> Nodes \union {R!None}] /\ R!Nothing \in [R!Entries -> R!Digests]
  BY <1>2 DEF R!JobType, R!Nothing, R!Digests
<1> HIDE DEF r, w
<1>8. new \in R!JobType
  <2>1. N + 1 \in 1..(N + 1) /\ 1 \in Nat \ {0}
    BY <1>a
  <2> QED
    BY <1>2, <1>5, <1>7, <2>1 DEF R!JobType
<1>9. R!TypeOK'
  <2>1. job' \in [Readings -> R!JobType]
    BY <1>0, <1>1, <1>8 DEF R!TypeOK
  <2>2. thread' \in [Readings -> [R!Threads -> R!ThreadType]]
    BY <1>0, <1>1, <1>a DEF R!TypeOK, R!ThreadType, R!Idle
  <2> QED
    BY <1>0, <1>1, <2>1, <2>2 DEF R!TypeOK
<1>10. job'[j] = new /\ \A t \in R!Threads : thread'[j][t].at = "off"
  BY <1>0, <1>1 DEF R!TypeOK, R!Idle
<1>11. /\ new.st = "done" /\ new.flag = job[j].flag /\ new.steady = job[j].steady
       /\ new.result = r /\ new.was = w
  BY <1>2 DEF R!JobType
<1>12. ~job[j].flag /\ job[j].steady => w = job[j].was
  BY DEF w
<1> HIDE DEF new
<1>13. JobInd(j)'
  BY <1>5, <1>6, <1>10, <1>11, <1>12 DEF JobInd
<1>14. ASSUME NEW k \in Readings, k # j PROVE JobInd(k)'
  BY <1>0, <1>1, <1>14, Untouched DEF R!TypeOK
<1> QED
  BY <1>9, <1>13, <1>14

\* A dropped future: nothing more is promised of the job but that it stops.
LEMMA DropInd ==
  ASSUME R!ParametersOK, R!ReadingInd, NEW j \in Readings, R!Drop(j)
  PROVE  R!ReadingInd'
<1> SUFFICES R!TypeOK' /\ \A k \in Readings : JobInd(k)'
  BY JobByJobNext
<1>0. R!TypeOK /\ \A k \in Readings : JobInd(k)
  BY JobByJob
<1>a. N \in Nat /\ R!Entries = 1..N /\ 1 \in R!Threads
  BY DEF R!ParametersOK, R!Entries, R!Threads
<1> DEFINE new == [job[j] EXCEPT !.flag = TRUE,
                                 !.st = IF job[j].st = "asked" THEN "done" ELSE job[j].st,
                                 !.result = IF job[j].st = "asked" THEN R!Error("interrupted")
                                            ELSE job[j].result]
<1>1. /\ job[j].st \in {"asked", "started", "digesting"} /\ disk' = disk /\ thread' = thread
      /\ job' = [job EXCEPT ![j] = new]
  BY <1>0 DEF R!Drop, R!TypeOK, R!JobType
<1>2. job[j] \in R!JobType
  BY <1>0 DEF R!TypeOK
<1>3. /\ new.flag = TRUE /\ new.st = IF job[j].st = "asked" THEN "done" ELSE job[j].st
      /\ new.result = IF job[j].st = "asked" THEN R!Error("interrupted") ELSE job[j].result
      /\ new.next = job[j].next /\ new.firstErr = job[j].firstErr /\ new.slots = job[j].slots
  BY <1>2 DEF R!JobType
<1>4. R!Error("interrupted") \in R!Results /\ R!Error("interrupted") # R!Error("not digested")
  <2>1. R!Error("interrupted").why # R!Error("not digested").why
    BY DEF R!Error
  <2> QED
    BY <2>1 DEF R!Results, R!Digests
<1>5. new \in R!JobType
  BY <1>2, <1>4 DEF R!JobType
<1> HIDE DEF new
<1>6. R!TypeOK'
  BY <1>0, <1>1, <1>5 DEF R!TypeOK
<1>7. job'[j] = new
  BY <1>0, <1>1 DEF R!TypeOK
<1>8. JobInd(j)'
  BY <1>0, <1>1, <1>3, <1>4, <1>7 DEF JobInd, R!NotBegun
<1>9. ASSUME NEW k \in Readings, k # j PROVE JobInd(k)'
  BY <1>0, <1>1, <1>9, Untouched DEF R!TypeOK
<1> QED
  BY <1>6, <1>8, <1>9

\* An edit takes nothing from what is known, but that the files were left alone.
LEMMA EditInd ==
  ASSUME R!ParametersOK, R!ReadingInd, R!Edit
  PROVE  R!ReadingInd'
<1> SUFFICES R!TypeOK' /\ \A k \in Readings : JobInd(k)'
  BY JobByJobNext
<1>0. R!TypeOK /\ \A k \in Readings : JobInd(k)
  BY JobByJob
<1>a. N \in Nat /\ R!Entries = 1..N /\ 1 \in R!Threads
  BY DEF R!ParametersOK, R!Entries, R!Threads
<1> DEFINE new(k) == [job[k] EXCEPT !.steady = job[k].steady /\ job[k].st \in {"asked", "done"}]
<1>1. PICK i \in R!Entries, n \in Nodes :
        disk' = [disk EXCEPT ![i] = n] /\ job' = [k \in Readings |-> new(k)] /\ thread' = thread
  BY DEF R!Edit
<1>2. ASSUME NEW k \in Readings
      PROVE  /\ new(k) \in R!JobType
             /\ new(k).st = job[k].st /\ new(k).flag = job[k].flag /\ new(k).result = job[k].result
             /\ new(k).was = job[k].was /\ new(k).slots = job[k].slots
             /\ new(k).next = job[k].next /\ new(k).firstErr = job[k].firstErr
             /\ new(k).steady => job[k].steady /\ job[k].st \in {"asked", "done"}
  BY <1>0 DEF R!TypeOK, R!JobType
<1> HIDE DEF new
<1>3. R!TypeOK'
  BY <1>0, <1>1, <1>2 DEF R!TypeOK
<1>4. ASSUME NEW k \in Readings PROVE JobInd(k)'
  <2>1. job'[k] = new(k)
    BY <1>1
  <2>2. R!NotBegun(k) => R!NotBegun(k)'
    BY <1>2, <2>1 DEF R!NotBegun
  <2>4. \A x \in R!Entries : R!InHand(k, x) => R!InHand(k, x)'
    BY <1>1 DEF R!InHand
  <2>5. /\ job'[k].slots = job[k].slots /\ job'[k].next = job[k].next
        /\ job'[k].firstErr = job[k].firstErr /\ thread'[k] = thread[k]
    BY <1>1, <1>2, <2>1
  <2>3. R!Covered(k) => R!Covered(k)'
    <3> SUFFICES ASSUME R!Covered(k) PROVE R!Covered(k)'
      OBVIOUS
    <3>1. \A x \in R!Entries :
            /\ job'[k].slots[x].kind = "error" => job'[k].firstErr <= x
            /\ x < job'[k].next =>
                 job'[k].slots[x] # R!None \/ R!InHand(k, x)' \/ x > job'[k].firstErr
            /\ x >= job'[k].next => job'[k].slots[x] = R!None
      BY <2>4, <2>5 DEF R!Covered
    <3>2. \A t \in R!Threads :
            thread'[k][t].at = "digest" =>
              /\ thread'[k][t].entry < job'[k].next
              /\ job'[k].slots[thread'[k][t].entry] = R!None
              /\ \A u \in R!Threads :
                   thread'[k][u].at = "digest" /\ thread'[k][u].entry = thread'[k][t].entry
                     => u = t
      BY <2>5 DEF R!Covered
    <3>3. /\ thread'[k][1].at # "off"
          /\ job'[k].firstErr \in R!Entries => job'[k].slots[job'[k].firstErr].kind = "error"
          /\ \A t \in R!Threads : thread'[k][t].at = "joined" => job'[k].next > N
      BY <2>5 DEF R!Covered
    <3> QED
      BY <3>1, <3>2, <3>3 DEF R!Covered
  <2>6. /\ job'[k].st = job[k].st /\ job'[k].flag = job[k].flag
        /\ job'[k].result = job[k].result /\ job'[k].was = job[k].was
        /\ job'[k].steady => job[k].steady /\ job[k].st \in {"asked", "done"}
    BY <1>2, <2>1
  <2>7. JobInd(k)
    BY <1>0
  <2> QED
    BY <2>2, <2>3, <2>5, <2>6, <2>7 DEF JobInd
<1> QED
  BY <1>3, <1>4

\* ReadingInd is inductive.
LEMMA ReadingInductive ==
  ASSUME R!ParametersOK
  PROVE  R!ReadingInd /\ [R!Next]_(R!vars) => R!ReadingInd'
<1> SUFFICES ASSUME R!ReadingInd, [R!Next]_(R!vars) PROVE R!ReadingInd'
  OBVIOUS
<1>1. CASE R!Edit
  BY <1>1, EditInd
<1>2. ASSUME NEW j \in Readings, R!Step(j) \/ R!Drop(j) PROVE R!ReadingInd'
  BY <1>2, StartInd, TakeHelpersInd, JoinInd, DropInd DEF R!Step
<1>3. ASSUME NEW j \in Readings, NEW t \in R!Threads, R!Claim(j, t) \/ R!DigestEntry(j, t)
      PROVE  R!ReadingInd'
  BY <1>3, ClaimInd, DigestEntryInd
<1>4. CASE UNCHANGED R!vars
  <2>1. R!TypeOK /\ \A k \in Readings : JobInd(k)
    BY JobByJob
  <2>2. R!TypeOK'
    BY <1>4, <2>1 DEF R!vars, R!TypeOK
  <2>3. \A k \in Readings : JobInd(k)'
    BY <1>4, <2>1, Untouched DEF R!vars
  <2> QED
    BY <2>2, <2>3, JobByJobNext
<1> QED
  BY <1>1, <1>2, <1>3, <1>4 DEF R!Next

-----------------------------------------------------------------------------
(* The budget *)

Budgeted == R!ReadingInd /\ free \in Nat /\ R!BudgetKept

\* The instance counts as the library does.
LEMMA SameCounts ==
  ASSUME NEW A
  PROVE  R!Cardinality(A) = Cardinality(A) /\ (R!IsFiniteSet(A) <=> IsFiniteSet(A))
<1>1. R!Cardinality(A) = Cardinality(A)
  BY DEF R!Cardinality, Cardinality
<1>2. R!IsFiniteSet(A) <=> IsFiniteSet(A)
  BY DEF R!IsFiniteSet, IsFiniteSet
<1> QED
  BY <1>1, <1>2

LEMMA HoldersFinite ==
  ASSUME R!ParametersOK
  PROVE  IsFiniteSet(R!Holders) /\ Cardinality(R!Holders) \in Nat
<1>1. IsFiniteSet(R!Threads) /\ IsFiniteSet(Readings)
  BY FS_Interval, SameCounts DEF R!Threads, R!ParametersOK
<1>2. IsFiniteSet(Readings \X R!Threads)
  BY <1>1, FS_Product
<1>3. R!Holders \subseteq Readings \X R!Threads
  BY DEF R!Holders
<1> QED
  BY <1>2, <1>3, FS_Subset, FS_CardinalityType

\* The threads of one job among the holders.
LEMMA OfOneJob ==
  ASSUME NEW j, NEW A, IsFiniteSet(A)
  PROVE  IsFiniteSet({j} \X A) /\ Cardinality({j} \X A) = Cardinality(A) /\ Cardinality(A) \in Nat
<1>1. IsFiniteSet({j}) /\ Cardinality({j}) = 1
  BY FS_Singleton
<1>2. Cardinality(A) \in Nat
  BY FS_CardinalityType
<1> QED
  BY <1>1, <1>2, FS_Product

LEMMA StartBudget ==
  ASSUME R!ParametersOK, Budgeted, NEW j \in Readings, R!Start(j)
  PROVE  free' \in Nat /\ R!BudgetKept'
<1>0. R!TypeOK /\ \A t \in R!Threads : thread[j][t].at = "off"
  BY DEF Budgeted, R!ReadingInd, R!Start
<1>1. /\ job' = [job EXCEPT ![j].st = "started", ![j].was = disk] /\ thread' = thread
      /\ job[j].st = "asked" /\ free > 0 /\ free' = free - 1
  BY DEF R!Start
<1>2. job'[j].st = "started" /\ \A k \in Readings \ {j} : job'[k] = job[k]
  BY <1>0, <1>1 DEF R!TypeOK, R!JobType
<1>3. 1 \in R!Threads
  BY DEF R!ParametersOK, R!Threads
<1>4. <<j, 1>> \notin R!Holders
  BY <1>0, <1>1, <1>3 DEF R!Holders
<1>5. R!Holders' = R!Holders \cup {<<j, 1>>}
  <2>1. ASSUME NEW k \in Readings, NEW t \in R!Threads
        PROVE  <<k, t>> \in R!Holders' <=> <<k, t>> \in R!Holders \cup {<<j, 1>>}
    <3>1. CASE k = j
      BY <1>0, <1>1, <1>2, <1>3, <3>1 DEF R!Holders
    <3>2. CASE k # j
      BY <1>1, <1>2, <3>2 DEF R!Holders
    <3> QED
      BY <3>1, <3>2
  <2>2. R!Holders \subseteq Readings \X R!Threads /\ R!Holders' \subseteq Readings \X R!Threads
    BY DEF R!Holders
  <2> QED
    BY <1>3, <2>1, <2>2
<1>6. Cardinality(R!Holders') = Cardinality(R!Holders) + 1
  BY <1>4, <1>5, HoldersFinite, FS_AddElement
<1> QED
  BY <1>1, <1>6, HoldersFinite, SameCounts DEF Budgeted, R!BudgetKept, R!ParametersOK

LEMMA TakeHelpersBudget ==
  ASSUME R!ParametersOK, Budgeted, NEW j \in Readings, R!TakeHelpers(j)
  PROVE  free' \in Nat /\ R!BudgetKept'
<1>0. R!TypeOK /\ job[j].st = "started" /\ \A t \in R!Threads : thread[j][t].at = "off"
  BY DEF Budgeted, R!ReadingInd, R!TakeHelpers
<1>1. PICK n \in R!HelperCounts :
         /\ n <= free /\ free' = free - n
         /\ job' = [job EXCEPT ![j].st = "digesting"]
         /\ thread' = [thread EXCEPT ![j] = [t \in R!Threads |->
                    IF t <= n + 1 THEN [at |-> "claim", entry |-> 0] ELSE R!Idle]]
  BY DEF R!TakeHelpers
<1>2. n \in Nat /\ free \in Nat /\ Budget \in Nat \ {0} /\ free + Cardinality(R!Holders) = Budget
  BY <1>1, SameCounts DEF R!HelperCounts, Budgeted, R!BudgetKept, R!ParametersOK
<1>3. <<j, 1>> \in R!Holders
  BY <1>0 DEF R!Holders, R!Threads, R!ParametersOK
<1>4. n + 1 <= Budget
  <2>1. Cardinality(R!Holders) \in Nat /\ Cardinality(R!Holders) # 0
    BY <1>3, HoldersFinite, FS_EmptySet
  <2> QED
    BY <1>1, <1>2, <2>1
<1> DEFINE helpers == {j} \X (2 .. (n + 1))
<1>5. IsFiniteSet(helpers) /\ Cardinality(helpers) = n
  <2>1. IsFiniteSet(2 .. (n + 1)) /\ Cardinality(2 .. (n + 1)) = n
    BY <1>2, FS_Interval
  <2> QED
    BY <2>1, OfOneJob
<1>6. job'[j].st = "digesting" /\ \A k \in Readings \ {j} : job'[k] = job[k] /\ thread'[k] = thread[k]
  BY <1>0, <1>1 DEF R!TypeOK, R!JobType
<1>7. \A t \in R!Threads : thread'[j][t].at # "off" <=> t <= n + 1
  BY <1>0, <1>1 DEF R!TypeOK, R!Idle
<1>8. R!Holders' = R!Holders \cup helpers
  <2>1. ASSUME NEW k \in Readings, NEW t \in R!Threads
        PROVE  <<k, t>> \in R!Holders' <=> <<k, t>> \in R!Holders \cup helpers
    <3>1. CASE k = j
      <4>1. <<k, t>> \in R!Holders' <=> t <= n + 1
        BY <1>6, <1>7, <3>1 DEF R!Holders
      <4>2. <<k, t>> \in R!Holders <=> t = 1
        BY <1>0, <3>1 DEF R!Holders
      <4>3. <<k, t>> \in helpers <=> t \in 2 .. (n + 1)
        BY <3>1
      <4> QED
        BY <1>2, <4>1, <4>2, <4>3 DEF R!Threads
    <3>2. CASE k # j
      BY <1>6, <3>2 DEF R!Holders
    <3> QED
      BY <3>1, <3>2
  <2>2. R!Holders \subseteq Readings \X R!Threads /\ R!Holders' \subseteq Readings \X R!Threads
    BY DEF R!Holders
  <2>3. helpers \subseteq Readings \X R!Threads
    BY <1>2, <1>4 DEF R!Threads
  <2> QED
    BY <2>1, <2>2, <2>3
<1>9. R!Holders \cap helpers = {}
  BY <1>0, <1>2 DEF R!Holders, R!Threads
<1> HIDE DEF helpers
<1>10. Cardinality(R!Holders') = Cardinality(R!Holders) + n
  <2>1. Cardinality(R!Holders \cap helpers) = 0
    BY <1>9, FS_EmptySet
  <2>2. Cardinality(R!Holders \cup helpers) = Cardinality(R!Holders) + Cardinality(helpers) - Cardinality(R!Holders \cap helpers)
    BY <1>5, HoldersFinite, FS_Union
  <2> QED
    BY <1>2, <1>5, <1>8, <2>1, <2>2, HoldersFinite
<1> QED
  BY <1>1, <1>2, <1>10, HoldersFinite, SameCounts DEF R!BudgetKept

LEMMA JoinBudget ==
  ASSUME R!ParametersOK, Budgeted, NEW j \in Readings, R!Join(j)
  PROVE  free' \in Nat /\ R!BudgetKept'
<1>0. R!TypeOK /\ job[j].st = "digesting"
  BY DEF Budgeted, R!ReadingInd, R!Join
<1> DEFINE mine == {t \in R!Threads : thread[j][t].at # "off"}
<1>1. free' = free + Cardinality(mine)
  BY SameCounts DEF R!Join, R!Returned, R!Used
<1>2. /\ job'[j].st = "done" /\ \A t \in R!Threads : thread'[j][t].at = "off"
      /\ \A k \in Readings \ {j} : job'[k] = job[k] /\ thread'[k] = thread[k]
  BY <1>0 DEF R!Join, R!TypeOK, R!JobType, R!Idle
<1>3. R!Holders' = R!Holders \ ({j} \X mine)
  <2>1. ASSUME NEW k \in Readings, NEW t \in R!Threads
        PROVE  <<k, t>> \in R!Holders' <=> <<k, t>> \in R!Holders \ ({j} \X mine)
    <3>1. CASE k = j
      BY <1>0, <1>2, <3>1 DEF R!Holders
    <3>2. CASE k # j
      BY <1>2, <3>2 DEF R!Holders
    <3> QED
      BY <3>1, <3>2
  <2>2. R!Holders \subseteq Readings \X R!Threads /\ R!Holders' \subseteq Readings \X R!Threads
    BY DEF R!Holders
  <2> QED
    BY <2>1, <2>2
<1>4. ({j} \X mine) \subseteq R!Holders
  BY DEF R!Holders
<1>5. IsFiniteSet(mine)
  <2>1. mine \subseteq R!Threads
    OBVIOUS
  <2>2. IsFiniteSet(R!Threads)
    BY FS_Interval DEF R!Threads, R!ParametersOK
  <2> HIDE DEF mine
  <2> QED
    BY <2>1, <2>2, FS_Subset
<1> HIDE DEF mine
<1>6. Cardinality(R!Holders') = Cardinality(R!Holders) - Cardinality(mine) /\ Cardinality(mine) \in Nat
  <2>1. R!Holders \cap ({j} \X mine) = {j} \X mine
    BY <1>4
  <2>2. Cardinality({j} \X mine) = Cardinality(mine) /\ Cardinality(mine) \in Nat
    BY <1>5, OfOneJob
  <2>3. Cardinality(R!Holders \ ({j} \X mine)) = Cardinality(R!Holders) - Cardinality(R!Holders \cap ({j} \X mine))
    BY HoldersFinite, FS_Difference
  <2> QED
    BY <1>3, <2>1, <2>2, <2>3
<1> QED
  BY <1>1, <1>6, HoldersFinite, SameCounts DEF Budgeted, R!BudgetKept, R!ParametersOK

\* The other steps start no thread and end none.
LEMMA OthersBudget ==
  ASSUME R!ParametersOK, Budgeted,
         R!Edit \/ \E j \in Readings : R!Drop(j) \/ \E t \in R!Threads : R!Claim(j, t) \/ R!DigestEntry(j, t)
  PROVE  free' \in Nat /\ R!BudgetKept'
<1>0. R!TypeOK /\ free' = free
  BY DEF Budgeted, R!ReadingInd, R!Edit, R!Drop, R!Claim, R!DigestEntry
<1> DEFINE Same(k) == /\ job'[k].st = "started" <=> job[k].st = "started"
                      /\ \A t \in R!Threads : thread'[k][t].at = "off" <=> thread[k][t].at = "off"
<1>1. ASSUME NEW k \in Readings PROVE Same(k)
  <2>1. CASE R!Edit
    <3>1. job'[k] = [job[k] EXCEPT !.steady = @ /\ job[k].st \in {"asked", "done"}] /\ thread' = thread
      BY <2>1 DEF R!Edit
    <3> QED
      BY <1>0, <3>1 DEF R!TypeOK, R!JobType
  <2>2. ASSUME NEW j \in Readings, R!Drop(j) PROVE Same(k)
    BY <1>0, <2>2 DEF R!Drop, R!TypeOK, R!JobType
  <2>3. ASSUME NEW j \in Readings, NEW t \in R!Threads, R!Claim(j, t) PROVE Same(k)
    BY <1>0, <2>3 DEF R!Claim, R!TypeOK, R!JobType
  <2>4. ASSUME NEW j \in Readings, NEW t \in R!Threads, R!DigestEntry(j, t) PROVE Same(k)
    <3>1. PICK d, e : /\ job' = [job EXCEPT ![j].slots[thread[j][t].entry] = d, ![j].firstErr = e]
                      /\ thread' = [thread EXCEPT ![j][t] = [at |-> "claim", entry |-> 0]]
                      /\ thread[j][t].at = "digest"
      BY <2>4 DEF R!DigestEntry
    <3>2. job'[k].st = job[k].st
      BY <1>0, <3>1 DEF R!TypeOK, R!JobType
    <3> QED
      BY <1>0, <3>1, <3>2 DEF R!TypeOK
  <2> QED
    BY <2>1, <2>2, <2>3, <2>4
<1>2. R!Holders' = R!Holders
  BY <1>1 DEF R!Holders
<1> QED
  BY <1>0, <1>2 DEF Budgeted, R!BudgetKept

LEMMA InitBudget ==
  ASSUME R!ParametersOK, R!Init
  PROVE  free \in Nat /\ R!BudgetKept
<1>1. R!Holders = {}
  BY DEF R!Init, R!Holders, R!Idle, R!Asked
<1> QED
  BY <1>1, FS_EmptySet, SameCounts DEF R!Init, R!BudgetKept, R!ParametersOK

\* The inductive invariant of a reading, its budget included, is kept.
LEMMA ReadingKept ==
  ASSUME R!ParametersOK
  PROVE  Budgeted /\ [R!Next]_(R!vars) => Budgeted'
<1> SUFFICES ASSUME Budgeted, [R!Next]_(R!vars) PROVE Budgeted'
  OBVIOUS
<1>1. R!ReadingInd'
  BY ReadingInductive DEF Budgeted
<1>2. free' \in Nat /\ R!BudgetKept'
  <2>1. ASSUME NEW j \in Readings, R!Step(j) PROVE free' \in Nat /\ R!BudgetKept'
    BY <2>1, StartBudget, TakeHelpersBudget, JoinBudget DEF R!Step
  <2>2. CASE R!Edit \/ \E j \in Readings : R!Drop(j) \/ \E t \in R!Threads : R!Claim(j, t) \/ R!DigestEntry(j, t)
    BY <2>2, OthersBudget
  <2>3. CASE UNCHANGED R!vars
    BY <2>3 DEF R!vars, Budgeted, R!BudgetKept, R!Holders
  <2> QED
    BY <2>1, <2>2, <2>3 DEF R!Next
<1> QED
  BY <1>1, <1>2 DEF Budgeted

LEMMA ReadingSpec ==
  ASSUME R!ParametersOK
  PROVE  R!Spec => []Budgeted
<1>1. R!Init => Budgeted
  BY ReadingInit, InitBudget DEF Budgeted
<1> QED
  BY <1>1, ReadingKept, PTL DEF R!Spec

\* For any number of readings, entries, hashing threads and edits: over files left
\* alone, a reading awaited to its end is the one a single thread makes, the error it
\* reports included (digest_in).
THEOREM AnyThreads ==
  ASSUME R!ParametersOK
  PROVE  R!Spec => []R!SameAnyThreads
<1>1. Budgeted => R!SameAnyThreads
  BY DEF Budgeted, R!ReadingInd
<1> QED
  BY <1>1, ReadingSpec, PTL

\* And whatever is edited or dropped meanwhile, no entry of an answered reading was
\* passed over: digest_in's `not digested` is unreachable.
THEOREM NothingPassedOver ==
  ASSUME R!ParametersOK
  PROVE  R!Spec => []R!AllDigested
<1>1. Budgeted => R!AllDigested
  BY DEF Budgeted, R!ReadingInd
<1> QED
  BY <1>1, ReadingSpec, PTL

\* However many readings share the budget and whichever are dropped, every permit is
\* free or behind exactly one live hashing thread: none is lost with a cancelled
\* reading, none is given back twice (offload.rs).
THEOREM PermitsReturned ==
  ASSUME R!ParametersOK
  PROVE  R!Spec => []R!BudgetKept
<1>1. Budgeted => R!BudgetKept
  BY DEF Budgeted
<1> QED
  BY <1>1, ReadingSpec, PTL

\* The states the supervisor goes through.
LEMMA IdleState == S!Idle \in S!SupStates /\ S!Idle.pc = "poll"
BY DEF S!Idle, S!SupStates, S!Kinds

LEMMA SupStep ==
  ASSUME NEW s \in S!SupStates, NEW k \in S!Kinds
  PROVE  /\ [s EXCEPT !.pc = "checked", !.verdict = k] \in S!SupStates
         /\ [s EXCEPT !.pc = "checked", !.verdict = k].pc = "checked"
         /\ [s EXCEPT !.pc = "checked", !.verdict = k].of = s.of
         /\ [s EXCEPT !.pc = "checked", !.verdict = k].id = s.id
         /\ [s EXCEPT !.pc = "checked", !.verdict = k].verdict = k
         /\ \A p \in {"answer", "ended"} :
              /\ [s EXCEPT !.pc = p] \in S!SupStates /\ [s EXCEPT !.pc = p].pc = p
              /\ [s EXCEPT !.pc = p].of = s.of /\ [s EXCEPT !.pc = p].id = s.id
              /\ [s EXCEPT !.pc = p].verdict = s.verdict
BY DEF S!SupStates

\* Nothing has begun.
LEMMA SupervisorInit ==
  ASSUME S!ParametersOK
  PROVE  S!Init => S!SupervisorInd
<1> SUFFICES ASSUME S!Init PROVE S!SupervisorInd
  OBVIOUS
<1> USE DEF S!Init, S!Layers, S!Kinds
<1>1. S!TypeOK
  <2>1. env \in S!Machines
    BY DEF S!ParametersOK
  <2>2. sup \in [S!Layers -> S!SupStates]
    BY DEF S!Idle, S!SupStates
  <2> QED
    BY <2>1, <2>2 DEF S!TypeOK
<1>2. S!NotBegun /\ S!Counted /\ S!Held /\ S!DeniedFails /\ S!OnlyOwnDenials
  BY DEF S!NotBegun, S!Counted, S!Held, S!DeniedFails, S!OnlyOwnDenials
<1>3. \A l \in S!Layers : S!Judged(l) /\ S!ToBeShown(l)
  BY DEF S!Judged, S!ToBeShown, S!Idle
<1> QED
  BY <1>1, <1>2, <1>3 DEF S!SupervisorInd

\* sandbox_backend, before any command has begun.
LEMMA ResolveInd ==
  ASSUME S!SupervisorInd, S!Resolve
  PROVE  S!SupervisorInd'
<1> USE DEF S!SupervisorInd, S!Resolve, S!history
<1>1. S!Pick(env) \in {"landlock", "seccomp", "audit", "none", "error"}
  BY DEF S!TypeOK, S!Machines, S!Pick
<1>2. S!TypeOK'
  <2>1. pc' \in [Boxed -> {"new", "start", "run", "blocked", "over", "dead"}]
    BY DEF S!TypeOK
  <2>2. result' \in [Boxed -> {"none", "ok", "failed"}]
    BY DEF S!TypeOK
  <2> QED
    BY <1>1, <2>1, <2>2 DEF S!TypeOK
<1>3. \A c \in Boxed : layers[c] = "free" /\ c \notin hurt /\ pc[c] = "new"
  BY DEF S!NotBegun
<1>4. hurt = {}
  BY DEF S!NotBegun
<1>5. S!NotBegun' /\ S!Counted' /\ S!Held' /\ S!DeniedFails' /\ S!OnlyOwnDenials'
  BY <1>1, <1>3, <1>4 DEF S!TypeOK, S!NotBegun, S!Counted, S!Held, S!DeniedFails, S!OnlyOwnDenials, S!Layers
<1>6. ASSUME NEW l \in S!Layers PROVE S!Judged(l)' /\ S!ToBeShown(l)'
  BY <1>3 DEF S!Judged, S!ToBeShown, S!Layers
<1> QED
  BY <1>2, <1>5, <1>6

\* A command begins with the count of the layers it is put under.
LEMMA BeginInd ==
  ASSUME S!SupervisorInd, NEW d \in Boxed, S!Begin(d)
  PROVE  S!SupervisorInd'
<1> USE DEF S!SupervisorInd, S!Begin, S!history
<1> DEFINE l0 == S!LayersOf(d)
<1>1. l0 \in S!Layers \union {"free"}
  BY DEF S!LayersOf, S!Layers
<1>2. /\ layers' = [layers EXCEPT ![d] = l0]
      /\ l0 = "free" => pc' = [pc EXCEPT ![d] = "run"] /\ before' = before /\ worker' = worker
      /\ l0 # "free" => /\ pc' = [pc EXCEPT ![d] = "start"]
                        /\ before' = [before EXCEPT ![d] = count[l0]]
                        /\ worker' = [worker EXCEPT ![l0] = IF @ = "no" THEN "start" ELSE @]
  OBVIOUS
<1> HIDE DEF l0
<1>3. pc[d] = "new" /\ layers[d] = "free" /\ d \notin hurt
  BY DEF S!NotBegun
<1>4. S!TypeOK'
  <2>1. CASE l0 = "free"
    BY <1>1, <1>2, <2>1 DEF S!TypeOK
  <2>2. CASE l0 # "free"
    <3>1. l0 \in S!Layers
      BY <1>1, <2>2
    <3>2. pc' \in [Boxed -> {"new", "start", "run", "blocked", "over", "dead"}]
      BY <1>2, <2>2 DEF S!TypeOK
    <3>3. before' \in [Boxed -> Nat] /\ layers' \in [Boxed -> S!Layers \union {"free"}]
      BY <1>2, <2>2, <3>1 DEF S!TypeOK
    <3>4. worker' \in [S!Layers -> {"no", "start", "ready", "failed"}]
      <4>1. /\ worker \in [S!Layers -> {"no", "start", "ready", "failed"}]
            /\ worker' = [worker EXCEPT ![l0] = IF @ = "no" THEN "start" ELSE @]
        BY <1>2, <2>2 DEF S!TypeOK
      <4> HIDE DEF S!SupervisorInd, S!Begin
      <4> QED
        BY <3>1, <4>1
    <3>5. S!TypeOK /\ UNCHANGED <<env, backend, unenforced, listener, sup, seen, out, count,
                                  result, call, shown, hurt, late, made>>
      OBVIOUS
    <3> HIDE DEF S!SupervisorInd, S!Begin
    <3> QED
      BY <3>2, <3>3, <3>4, <3>5 DEF S!TypeOK
  <2> QED
    BY <2>1, <2>2
<1>5. /\ pc'[d] \in {"run", "start"} /\ layers'[d] = l0
      /\ \A c \in Boxed : c # d => /\ pc'[c] = pc[c] /\ layers'[c] = layers[c]
                                   /\ before'[c] = before[c]
  BY <1>2 DEF S!TypeOK
<1>6. l0 \in S!Layers => before'[d] = count[l0]
  BY <1>2 DEF S!TypeOK, S!Layers
<1>7. S!NotBegun' /\ S!Held' /\ S!DeniedFails' /\ S!OnlyOwnDenials'
  BY <1>3, <1>5 DEF S!NotBegun, S!Held, S!DeniedFails, S!OnlyOwnDenials
<1>8. S!Counted'
  BY <1>1, <1>3, <1>5, <1>6 DEF S!TypeOK, S!Counted
<1>9. ASSUME NEW l \in S!Layers PROVE S!Judged(l)' /\ S!ToBeShown(l)'
  <2>1. S!Judged(l)'
    BY <1>3, <1>5 DEF S!Judged, S!Waiting
  <2>2. S!ToBeShown(l)'
    BY <1>3, <1>5 DEF S!ToBeShown, S!Layers
  <2> QED
    BY <2>1, <2>2
<1> QED
  BY <1>4, <1>7, <1>8, <1>9

\* The worker of some layers starts or fails to.
LEMMA StartWorkerInd ==
  ASSUME S!SupervisorInd, NEW m \in S!Layers, S!StartWorker(m)
  PROVE  S!SupervisorInd'
<1> USE DEF S!SupervisorInd, S!StartWorker, S!history
<1>1. S!TypeOK'
  BY DEF S!TypeOK
<1>2. S!NotBegun' /\ S!Counted' /\ S!Held' /\ S!DeniedFails' /\ S!OnlyOwnDenials'
  BY DEF S!NotBegun, S!Counted, S!Held, S!DeniedFails, S!OnlyOwnDenials
<1>3. ASSUME NEW l \in S!Layers PROVE S!Judged(l)' /\ S!ToBeShown(l)'
  BY DEF S!Judged, S!ToBeShown, S!Waiting
<1> QED
  BY <1>1, <1>2, <1>3

\* A command enters its worker, or dies, or what it left behind ends.
LEMMA EnterDieInd ==
  ASSUME S!SupervisorInd, NEW d \in Boxed, S!Enter(d) \/ S!Die(d) \/ S!LeftoverEnds(d)
  PROVE  S!SupervisorInd'
<1> USE DEF S!SupervisorInd, S!history, S!engine
<1>1. /\ \/ pc[d] = "start" /\ pc'[d] = "run" /\ result'[d] = result[d]
         \/ pc[d] = "start" /\ pc'[d] = "over" /\ result'[d] = "failed"
         \/ pc[d] \in {"run", "blocked"} /\ pc'[d] \in {"dead", "over"} /\ result'[d] = result[d]
      /\ \A c \in Boxed : c # d => pc'[c] = pc[c] /\ result'[c] = result[c]
      /\ result' \in [Boxed -> {"none", "ok", "failed"}]
      /\ pc' \in [Boxed -> {"new", "start", "run", "blocked", "over", "dead"}]
  BY DEF S!Enter, S!Die, S!LeftoverEnds, S!TypeOK
<1>2. UNCHANGED <<S!engine, sup, seen, out, count, layers, before, call, S!history>>
  BY DEF S!Enter, S!Die, S!LeftoverEnds
<1>3. S!TypeOK'
  BY <1>1, <1>2 DEF S!TypeOK
<1>4. S!NotBegun' /\ S!Counted' /\ S!Held' /\ S!DeniedFails' /\ S!OnlyOwnDenials'
  BY <1>1, <1>2 DEF S!NotBegun, S!Counted, S!Held, S!DeniedFails, S!OnlyOwnDenials
<1>5. ASSUME NEW l \in S!Layers PROVE S!Judged(l)' /\ S!ToBeShown(l)'
  <2>1. S!Judged(l)'
    BY <1>1, <1>2 DEF S!Judged, S!Waiting
  <2>2. S!ToBeShown(l)'
    BY <1>1, <1>2 DEF S!ToBeShown
  <2> QED
    BY <2>1, <2>2
<1> QED
  BY <1>3, <1>4, <1>5

\* A new call has a new id: none that the supervisor has in hand.
LEMMA MakeCallInd ==
  ASSUME S!SupervisorInd, NEW d \in Boxed, NEW k \in S!Kinds, S!MakeCall(d, k)
  PROVE  S!SupervisorInd'
<1> USE DEF S!SupervisorInd, S!MakeCall, S!history, S!engine
<1>1. layers[d] \in S!Layers
  BY DEF S!TypeOK
<1>2. /\ call'[d] = [id |-> call[d].id + 1, kind |-> k]
      /\ \A c \in Boxed : c # d => call'[c] = call[c] /\ pc'[c] = pc[c]
      /\ pc[d] = "run" /\ pc'[d] \in {"run", "blocked"}
      /\ k \in made'[layers[d]] /\ \A l \in S!Layers : made[l] \subseteq made'[l]
  BY <1>1 DEF S!TypeOK
<1>3. S!TypeOK'
  BY <1>1 DEF S!TypeOK
<1>4. S!NotBegun' /\ S!Counted' /\ S!DeniedFails' /\ S!OnlyOwnDenials'
  BY <1>2 DEF S!NotBegun, S!Counted, S!DeniedFails, S!OnlyOwnDenials
<1>5. S!Held'
  BY <1>1, <1>2 DEF S!Held
<1>6. ASSUME NEW l \in S!Layers PROVE S!Judged(l)' /\ S!ToBeShown(l)'
  <2>1. S!Judged(l)'
    <3>1. sup[l].id \in Nat /\ call[d].id \in Nat
      BY DEF S!TypeOK, S!SupStates
    <3> QED
      BY <1>2, <3>1 DEF S!Judged, S!Waiting
  <2>2. S!ToBeShown(l)'
    BY <1>2 DEF S!ToBeShown
  <2> QED
    BY <2>1, <2>2
<1> QED
  BY <1>3, <1>4, <1>5, <1>6

\* A command that was denied something ends well only when auditing.
LEMMA EndInd ==
  ASSUME S!SupervisorInd, NEW d \in Boxed, S!End(d)
  PROVE  S!SupervisorInd'
<1> USE DEF S!SupervisorInd, S!End, S!history, S!engine
<1>1. /\ pc[d] \in {"run", "blocked"} /\ pc'[d] \in {pc[d], "over"}
      /\ result'[d] = IF S!Denied(d) THEN "failed" ELSE "ok"
      /\ \A c \in Boxed : c # d => pc'[c] = pc[c] /\ result'[c] = result[c]
  BY DEF S!TypeOK
<1>2. S!TypeOK'
  <2>1. pc' \in [Boxed -> {"new", "start", "run", "blocked", "over", "dead"}]
    BY DEF S!TypeOK
  <2>2. shown' \in [S!Layers -> SUBSET S!Kinds] /\ out' \in [S!Layers -> SUBSET S!Kinds]
    <3>1. layers[d] \in S!Layers \/ layers[d] = "free"
      BY DEF S!TypeOK
    <3>2. CASE layers[d] = "free"
      BY <3>2 DEF S!TypeOK
    <3>3. CASE layers[d] \in S!Layers /\ layers[d] # "free"
      <4>1. /\ shown' = [shown EXCEPT ![layers[d]] = @ \union out[layers[d]]]
            /\ out' = [out EXCEPT ![layers[d]] = {}]
        BY <3>3
      <4> HIDE DEF S!End
      <4> QED
        BY <3>3, <4>1 DEF S!TypeOK
    <3> QED
      BY <3>1, <3>2, <3>3
  <2>3. result' \in [Boxed -> {"none", "ok", "failed"}]
    BY DEF S!TypeOK
  <2> QED
    BY <2>1, <2>2, <2>3 DEF S!TypeOK
<1>3. S!NotBegun' /\ S!Counted' /\ S!Held' /\ S!OnlyOwnDenials'
  BY <1>1 DEF S!NotBegun, S!Counted, S!Held, S!OnlyOwnDenials
<1>4. S!DeniedFails'
  <2>1. d \in hurt /\ ~S!Denied(d) => backend = "audit"
    BY DEF S!Counted, S!Denied, S!By, S!Layers
  <2> QED
    BY <1>1, <2>1 DEF S!DeniedFails
<1>5. ASSUME NEW l \in S!Layers PROVE S!Judged(l)' /\ S!ToBeShown(l)'
  <2>1. S!Judged(l)'
    BY <1>1 DEF S!Judged, S!Waiting
  <2>2. S!ToBeShown(l)'
    <3>1. CASE layers[d] = l
      <4>1. out'[l] = {}
        BY <3>1 DEF S!TypeOK, S!Layers
      <4> QED
        BY <4>1 DEF S!ToBeShown
    <3>2. CASE layers[d] # l
      <4>1. out'[l] = out[l]
        BY <3>2 DEF S!TypeOK
      <4> QED
        BY <1>1, <3>2, <4>1 DEF S!ToBeShown
    <3> QED
      BY <3>1, <3>2
  <2> QED
    BY <2>1, <2>2
<1> QED
  BY <1>2, <1>3, <1>4, <1>5

\* The supervisor takes up a call that waits, and judges it.
LEMMA ReceiveCheckInd ==
  ASSUME S!SupervisorInd, NEW m \in S!Layers, S!Receive(m) \/ S!Check(m)
  PROVE  S!SupervisorInd'
<1> USE DEF S!SupervisorInd, S!history, S!engine
<1>1. UNCHANGED <<S!engine, seen, out, count, pc, result, layers, before, call, S!history>>
  BY DEF S!Receive, S!Check
<1>2. \A l \in S!Layers : l # m => sup'[l] = sup[l]
  BY DEF S!Receive, S!Check, S!TypeOK
<1>3. CASE S!Receive(m)
  <2>1. PICK c \in Boxed :
          /\ pc[c] = "blocked" /\ layers[c] = m
          /\ sup' = [sup EXCEPT ![m] = [pc |-> "got", of |-> c, id |-> call[c].id,
                                        verdict |-> "fine"]]
    BY <1>3 DEF S!Receive
  <2>2. S!TypeOK'
    BY <1>1, <2>1 DEF S!TypeOK, S!SupStates, S!Kinds
  <2>3. sup[m].pc = "poll" /\ sup'[m].pc = "got" /\ sup'[m].of = c /\ sup'[m].id = call[c].id
    BY <1>3, <2>1 DEF S!Receive, S!TypeOK
  <2>4. S!Judged(m)' /\ S!ToBeShown(m)'
    <3>1. call[c].id \in Nat
      BY DEF S!TypeOK
    <3> QED
      BY <1>1, <2>1, <2>3, <3>1 DEF S!Judged, S!ToBeShown
  <2>5. \A l \in S!Layers : S!Judged(l)' /\ S!ToBeShown(l)'
    BY <1>1, <1>2, <2>4 DEF S!Judged, S!ToBeShown, S!Waiting
  <2> QED
    BY <1>1, <2>2, <2>5 DEF S!NotBegun, S!Counted, S!Held, S!DeniedFails, S!OnlyOwnDenials
<1>4. CASE S!Check(m)
  <2>1. PICK k \in S!Kinds :
          /\ S!Waiting(m, sup[m].of, sup[m].id) => k = call[sup[m].of].kind
          /\ sup' = [sup EXCEPT ![m].pc = "checked", ![m].verdict = k]
    BY <1>4 DEF S!Check
  <2>a. /\ sup[m] \in S!SupStates /\ sup \in [S!Layers -> S!SupStates]
        /\ sup' = [sup EXCEPT ![m] = [sup[m] EXCEPT !.pc = "checked", !.verdict = k]]
    BY <2>1 DEF S!TypeOK
  <2>b. sup' \in [S!Layers -> S!SupStates]
    BY <2>a, SupStep
  <2>2. S!TypeOK'
    BY <1>1, <2>b DEF S!TypeOK
  <2>3. /\ sup[m].pc = "got" /\ sup'[m].pc = "checked" /\ sup'[m].of = sup[m].of
        /\ sup'[m].id = sup[m].id /\ sup'[m].verdict = k
    <3>1. sup'[m] = [sup[m] EXCEPT !.pc = "checked", !.verdict = k]
      BY <2>a
    <3>2. sup[m].pc = "got"
      BY <1>4 DEF S!Check
    <3>3. /\ sup'[m].pc = "checked" /\ sup'[m].of = sup[m].of
          /\ sup'[m].id = sup[m].id /\ sup'[m].verdict = k
      <4>1. sup[m] \in S!SupStates
        BY <2>a
      <4> HIDE DEF S!SupervisorInd
      <4> QED
        BY <3>1, <4>1 DEF S!SupStates
    <3> QED
      BY <3>2, <3>3
  <2>4. S!Judged(m)' /\ S!ToBeShown(m)'
    BY <1>1, <2>1, <2>3 DEF S!Judged, S!ToBeShown, S!Waiting
  <2>5. \A l \in S!Layers : S!Judged(l)' /\ S!ToBeShown(l)'
    BY <1>1, <1>2, <2>4 DEF S!Judged, S!ToBeShown, S!Waiting
  <2> QED
    BY <1>1, <2>2, <2>5 DEF S!NotBegun, S!Counted, S!Held, S!DeniedFails, S!OnlyOwnDenials
<1> QED
  BY <1>3, <1>4

\* What recording a denial does to the table of the layers, and to no other.
LEMMA RecordedOnce ==
  ASSUME S!TypeOK, NEW m \in S!Layers, NEW k \in S!Kinds, S!Recorded(m, k)
  PROVE  /\ seen' \in [S!Layers -> SUBSET S!Kinds] /\ out' \in [S!Layers -> SUBSET S!Kinds]
         /\ count' \in [S!Layers -> Nat]
         /\ seen'[m] = seen[m] \union {k} /\ count[m] <= count'[m]
         /\ k # "foreign" => count[m] < count'[m]
         /\ \A l \in S!Layers : /\ l # m => seen'[l] = seen[l] /\ out'[l] = out[l] /\ count'[l] = count[l]
                                /\ count[l] \in Nat /\ count'[l] \in Nat /\ count[l] <= count'[l]
BY DEF S!TypeOK, S!Recorded

\* A denial is recorded while its caller waits.
LEMMA RecordInd ==
  ASSUME S!SupervisorInd, NEW m \in S!Layers, S!Record(m)
  PROVE  S!SupervisorInd'
<1> USE DEF S!SupervisorInd, S!history, S!engine
<1> DEFINE c0 == sup[m].of
           k0 == sup[m].verdict
<1>1. /\ UNCHANGED <<S!engine, pc, result, layers, before, call, shown, hurt, made>>
      /\ sup[m].pc = "checked"
  BY DEF S!Record
<1>2. /\ c0 \in Boxed /\ layers[c0] = m /\ pc[c0] # "new" /\ k0 \in S!Kinds
      /\ sup[m].id <= call[c0].id
      /\ S!Waiting(m, c0, sup[m].id) => k0 = call[c0].kind
  BY <1>1 DEF S!Judged, S!TypeOK, S!SupStates
<1>3. CASE ~S!Waiting(m, c0, sup[m].id)
  <2>1. sup' = [sup EXCEPT ![m] = S!Idle] /\ UNCHANGED <<seen, out, count, late>>
    BY <1>3 DEF S!Record
  <2>2. S!TypeOK'
    BY <1>1, <2>1, IdleState DEF S!TypeOK
  <2>3. sup'[m].pc = "poll" /\ \A l \in S!Layers : l # m => sup'[l] = sup[l]
    BY <2>1, IdleState DEF S!TypeOK
  <2>4. \A l \in S!Layers : S!Judged(l)' /\ S!ToBeShown(l)'
    BY <1>1, <2>1, <2>3 DEF S!Judged, S!ToBeShown, S!Waiting
  <2> QED
    BY <1>1, <2>1, <2>2, <2>4 DEF S!NotBegun, S!Counted, S!Held, S!DeniedFails, S!OnlyOwnDenials
<1>4. CASE S!Waiting(m, c0, sup[m].id)
  <2>1. /\ sup' = [sup EXCEPT ![m].pc = "answer"]
        /\ k0 = "fine" => UNCHANGED <<seen, out, count, late>>
        /\ k0 # "fine" => S!Recorded(m, k0) /\ S!Noted(c0)
    BY <1>4 DEF S!Record
  <2>2. /\ seen' \in [S!Layers -> SUBSET S!Kinds] /\ out' \in [S!Layers -> SUBSET S!Kinds]
        /\ count' \in [S!Layers -> Nat]
        /\ k0 \notin {"fine", "foreign"} => count[m] < count'[m]
        /\ seen'[m] \subseteq seen[m] \union {k0}
        /\ \A l \in S!Layers : /\ l # m => seen'[l] = seen[l] /\ out'[l] = out[l]
                               /\ count[l] \in Nat /\ count'[l] \in Nat /\ count[l] <= count'[l]
    <3>1. CASE k0 = "fine"
      BY <2>1, <3>1 DEF S!TypeOK
    <3>2. CASE k0 # "fine"
      BY <1>2, <2>1, <3>2, RecordedOnce
    <3> QED
      BY <3>1, <3>2
  <2>a. /\ sup[m] \in S!SupStates /\ sup \in [S!Layers -> S!SupStates]
        /\ sup' = [sup EXCEPT ![m] = [sup[m] EXCEPT !.pc = "answer"]]
    BY <2>1 DEF S!TypeOK
  <2>3. /\ sup' \in [S!Layers -> S!SupStates] /\ sup'[m].pc = "answer"
        /\ sup'[m].of = c0 /\ sup'[m].id = sup[m].id /\ sup'[m].verdict = k0
        /\ \A l \in S!Layers : l # m => sup'[l] = sup[l]
    BY <1>2, <2>a, SupStep
  <2>b. /\ late' \in SUBSET Boxed /\ late \subseteq late'
        /\ k0 # "fine" => result[c0] = "none" \/ c0 \in late'
    BY <1>2, <2>1 DEF S!Noted, S!TypeOK
  <2>4. S!TypeOK'
    BY <1>1, <2>2, <2>3, <2>b DEF S!TypeOK
  <2>5. pc[c0] = "blocked" /\ k0 = call[c0].kind /\ k0 \in made[m]
    BY <1>2, <1>4 DEF S!Waiting, S!Held
  <2>6. S!NotBegun' /\ S!Held' /\ S!DeniedFails'
    BY <1>1 DEF S!NotBegun, S!Held, S!DeniedFails
  <2>7. S!OnlyOwnDenials'
    BY <1>1, <2>2, <2>5 DEF S!OnlyOwnDenials
  <2>8. S!Counted'
    BY <1>1, <2>2 DEF S!Counted, S!TypeOK
  <2>9. S!Judged(m)' /\ S!ToBeShown(m)'
    <3>1. before[c0] \in Nat /\ before[c0] <= count[m]
      BY <1>2 DEF S!Counted, S!TypeOK
    <3>2. S!Judged(m)'
      BY <1>1, <1>2, <2>2, <2>3, <2>5, <3>1 DEF S!Judged, S!Waiting
    <3>3. k0 = "fine" => out' = out
      BY <2>1
    <3> QED
      BY <1>1, <1>2, <2>3, <2>5, <2>b, <3>2, <3>3 DEF S!ToBeShown
  <2>10. ASSUME NEW l \in S!Layers, l # m PROVE S!Judged(l)' /\ S!ToBeShown(l)'
    <3>1. S!Judged(l)'
      <4>1. \A c \in Boxed : before[c] \in Nat
        BY DEF S!TypeOK
      <4> QED
        BY <1>1, <2>2, <2>3, <2>10, <4>1 DEF S!Judged, S!Waiting
    <3> QED
      BY <1>1, <2>2, <2>3, <2>10, <2>b, <3>1 DEF S!ToBeShown
  <2> QED
    BY <2>4, <2>6, <2>7, <2>8, <2>9, <2>10
<1> QED
  BY <1>3, <1>4

\* The call that was recorded is answered, unless its caller is gone.
LEMMA AnswerInd ==
  ASSUME S!SupervisorInd, NEW m \in S!Layers, S!Answer(m)
  PROVE  S!SupervisorInd'
<1> USE DEF S!SupervisorInd, S!history, S!engine
<1> DEFINE c0 == sup[m].of
           k0 == sup[m].verdict
           deny == k0 # "fine" /\ S!By(m) # "audit"
           there == S!Waiting(m, c0, sup[m].id)
<1>1. /\ UNCHANGED <<S!engine, result, layers, before, call, shown, made>>
      /\ sup[m].pc = "answer" /\ sup' = [sup EXCEPT ![m] = S!Idle]
      /\ pc' = IF there THEN [pc EXCEPT ![c0] = "run"] ELSE pc
      /\ hurt' = IF there /\ (deny \/ ~env.continue) /\ k0 # "foreign" /\ result[c0] = "none"
                 THEN hurt \union {c0} ELSE hurt
      /\ IF there /\ ~deny /\ ~env.continue THEN S!Recorded(m, "unchecked") /\ S!Noted(c0)
                                            ELSE UNCHANGED <<seen, out, count, late>>
  BY DEF S!Answer
<1>2. /\ c0 \in Boxed /\ layers[c0] = m /\ k0 \in S!Kinds
      /\ k0 \notin {"fine", "foreign"} => before[c0] < count[m]
      /\ before[c0] <= count[m] /\ before[c0] \in Nat /\ pc[c0] # "new"
  BY <1>1 DEF S!Judged, S!TypeOK, S!SupStates, S!Counted
<1>3. there => pc[c0] = "blocked"
  BY DEF S!Waiting
<1> HIDE DEF there, deny
<1>4. /\ seen' \in [S!Layers -> SUBSET S!Kinds] /\ out' \in [S!Layers -> SUBSET S!Kinds]
      /\ count' \in [S!Layers -> Nat]
      /\ there /\ ~deny /\ ~env.continue => count[m] < count'[m]
      /\ ~(there /\ ~deny /\ ~env.continue) => out' = out
      /\ late' \in SUBSET Boxed /\ late \subseteq late'
      /\ there /\ ~deny /\ ~env.continue => result[c0] = "none" \/ c0 \in late'
      /\ \A l \in S!Layers : /\ seen'[l] \subseteq seen[l] \union {"unchecked"}
                             /\ l # m => out'[l] = out[l]
                             /\ count[l] \in Nat /\ count'[l] \in Nat /\ count[l] <= count'[l]
  <2>1. CASE there /\ ~deny /\ ~env.continue
    <3>1. /\ late' \in SUBSET Boxed /\ late \subseteq late'
          /\ result[c0] = "none" \/ c0 \in late'
      BY <1>1, <1>2, <2>1 DEF S!Noted, S!TypeOK
    <3> QED
      BY <1>1, <2>1, <3>1, RecordedOnce DEF S!Kinds
  <2>2. CASE ~(there /\ ~deny /\ ~env.continue)
    BY <1>1, <2>2 DEF S!TypeOK
  <2> QED
    BY <2>1, <2>2
<1>5. sup'[m].pc = "poll" /\ \A l \in S!Layers : l # m => sup'[l] = sup[l]
  BY <1>1, IdleState DEF S!TypeOK
<1>6. /\ pc' \in [Boxed -> {"new", "start", "run", "blocked", "over", "dead"}]
      /\ \A c \in Boxed : pc'[c] = pc[c] \/ (c = c0 /\ pc[c] = "blocked" /\ pc'[c] = "run" /\ there)
      /\ there => pc'[c0] = "run"
  BY <1>1, <1>2, <1>3 DEF S!TypeOK
<1>7. S!TypeOK'
  <2>1. sup' \in [S!Layers -> S!SupStates]
    BY <1>1, IdleState DEF S!TypeOK
  <2>2. hurt' \in SUBSET Boxed
    BY <1>1, <1>2 DEF S!TypeOK
  <2> QED
    BY <1>1, <1>4, <1>6, <2>1, <2>2 DEF S!TypeOK
<1>8. \A c \in hurt' : c \in hurt \/ (c = c0 /\ there /\ result[c0] = "none")
  BY <1>1
<1>9. S!NotBegun' /\ S!Held' /\ S!OnlyOwnDenials'
  <2>1. S!NotBegun'
    <3>1. backend # "unknown"
      BY <1>2 DEF S!NotBegun
    <3> QED
      BY <1>1, <1>3, <1>6, <1>8, <3>1 DEF S!NotBegun
  <2>2. S!Held'
    BY <1>1, <1>6 DEF S!Held
  <2>3. S!OnlyOwnDenials'
    BY <1>1, <1>4 DEF S!OnlyOwnDenials
  <2> QED
    BY <2>1, <2>2, <2>3
<1>10. S!DeniedFails'
  BY <1>1, <1>6, <1>8 DEF S!DeniedFails
<1>11. S!Counted'
  <2>1. \A c \in Boxed : before[c] \in Nat
    BY DEF S!TypeOK
  <2>2. c0 \in hurt' \ hurt => before[c0] < count'[m]
    <3>1. CASE deny
      BY <1>1, <1>2, <1>4, <3>1 DEF deny
    <3>2. CASE ~deny
      BY <1>1, <1>2, <1>4, <3>2
    <3> QED
      BY <3>1, <3>2
  <2> QED
    BY <1>1, <1>2, <1>4, <1>8, <2>1, <2>2 DEF S!Counted
<1>12. S!Judged(m)' /\ S!ToBeShown(m)'
  <2>1. S!Judged(m)'
    BY <1>5 DEF S!Judged
  <2>2. S!ToBeShown(m)'
    <3>1. CASE there /\ ~deny /\ ~env.continue
      BY <1>1, <1>2, <1>4, <1>6, <3>1 DEF S!ToBeShown
    <3>2. CASE ~(there /\ ~deny /\ ~env.continue)
      BY <1>1, <1>4, <1>6, <3>2 DEF S!ToBeShown
    <3> QED
      BY <3>1, <3>2
  <2> QED
    BY <2>1, <2>2
<1>13. ASSUME NEW l \in S!Layers, l # m PROVE S!Judged(l)' /\ S!ToBeShown(l)'
  <2>1. S!Judged(l)'
    <3>1. \A c \in Boxed : before[c] \in Nat
      BY DEF S!TypeOK
    <3>2. \A c \in Boxed : pc[c] # "new" => pc'[c] # "new"
      BY <1>6
    <3>3. \A c \in Boxed, i \in Nat : S!Waiting(l, c, i)' => S!Waiting(l, c, i)
      BY <1>1, <1>6 DEF S!Waiting
    <3>4. sup[l].id \in Nat
      BY DEF S!TypeOK, S!SupStates
    <3> QED
      BY <1>1, <1>4, <1>5, <1>13, <3>1, <3>2, <3>3, <3>4 DEF S!Judged
  <2>2. S!ToBeShown(l)'
    BY <1>1, <1>4, <1>5, <1>6, <1>13 DEF S!ToBeShown
  <2> QED
    BY <2>1, <2>2
<1> QED
  BY <1>7, <1>9, <1>10, <1>11, <1>12, <1>13

\* The supervisor ends with no call in hand, and lets go of those that wait.
LEMMA StopInd ==
  ASSUME S!SupervisorInd, NEW m \in S!Layers, S!Stop(m)
  PROVE  S!SupervisorInd'
<1> USE DEF S!SupervisorInd, S!history, S!engine
<1>1. /\ UNCHANGED <<env, backend, worker, unenforced, result, layers, before, call, S!history>>
      /\ sup' = [sup EXCEPT ![m].pc = "ended"] /\ listener' = [listener EXCEPT ![m] = "closed"]
      /\ pc' = [c \in Boxed |-> IF pc[c] = "blocked" /\ layers[c] = m THEN "run" ELSE pc[c]]
  BY DEF S!Stop
<1>2. /\ seen' \in [S!Layers -> SUBSET S!Kinds] /\ out' \in [S!Layers -> SUBSET S!Kinds]
      /\ count' \in [S!Layers -> Nat] /\ seen'[m] = seen[m] \union {"unchecked"}
      /\ \A l \in S!Layers : /\ l # m => seen'[l] = seen[l] /\ out'[l] = out[l]
                             /\ count[l] \in Nat /\ count'[l] \in Nat /\ count[l] <= count'[l]
  BY RecordedOnce DEF S!Stop, S!Kinds
<1>3. /\ sup' \in [S!Layers -> S!SupStates] /\ sup'[m].pc = "ended"
      /\ \A l \in S!Layers : l # m => sup'[l] = sup[l]
  <2>1. /\ sup[m] \in S!SupStates /\ sup \in [S!Layers -> S!SupStates]
        /\ sup' = [sup EXCEPT ![m] = [sup[m] EXCEPT !.pc = "ended"]]
    BY <1>1 DEF S!TypeOK
  <2>2. "fine" \in S!Kinds
    BY DEF S!Kinds
  <2> QED
    BY <2>1, <2>2, SupStep
<1>4. /\ pc' \in [Boxed -> {"new", "start", "run", "blocked", "over", "dead"}]
      /\ \A c \in Boxed : pc'[c] = pc[c] \/ (layers[c] = m /\ pc[c] = "blocked" /\ pc'[c] = "run")
  BY <1>1 DEF S!TypeOK
<1>5. S!TypeOK'
  <2>1. listener' \in [S!Layers -> {"none", "open", "closed"}]
    BY <1>1 DEF S!TypeOK
  <2> QED
    BY <1>1, <1>2, <1>3, <1>4, <2>1 DEF S!TypeOK
<1>6. S!NotBegun' /\ S!Held' /\ S!DeniedFails'
  BY <1>1, <1>4 DEF S!NotBegun, S!Held, S!DeniedFails
<1>7. S!OnlyOwnDenials'
  BY <1>1, <1>2 DEF S!OnlyOwnDenials
<1>8. S!Counted'
  <2>1. \A c \in Boxed : before[c] \in Nat
    BY DEF S!TypeOK
  <2> QED
    BY <1>1, <1>2, <2>1 DEF S!Counted
<1>9. ASSUME NEW l \in S!Layers PROVE S!Judged(l)' /\ S!ToBeShown(l)'
  <2>1. CASE l = m
    BY <1>3, <2>1 DEF S!Judged, S!ToBeShown
  <2>2. CASE l # m
    <3>1. S!Judged(l)'
      <4>1. \A c \in Boxed : before[c] \in Nat
        BY DEF S!TypeOK
      <4>2. \A c \in Boxed, i \in Nat : S!Waiting(l, c, i)' => S!Waiting(l, c, i)
        BY <1>1, <1>4 DEF S!Waiting
      <4>3. sup[l].id \in Nat
        BY DEF S!TypeOK, S!SupStates
      <4>4. \A c \in Boxed : pc[c] # "new" => pc'[c] # "new"
        BY <1>4
      <4> QED
        BY <1>1, <1>2, <1>3, <2>2, <4>1, <4>2, <4>3, <4>4 DEF S!Judged
    <3>2. S!ToBeShown(l)'
      BY <1>1, <1>2, <1>3, <1>4, <2>2 DEF S!ToBeShown
    <3> QED
      BY <3>1, <3>2
  <2> QED
    BY <2>1, <2>2
<1> QED
  BY <1>5, <1>6, <1>7, <1>8, <1>9

\* SupervisorInd is inductive.
LEMMA SupervisorInductive ==
  ASSUME S!ParametersOK
  PROVE  S!SupervisorInd /\ [S!Next]_(S!vars) => S!SupervisorInd'
<1> SUFFICES ASSUME S!SupervisorInd, [S!Next]_(S!vars) PROVE S!SupervisorInd'
  OBVIOUS
<1>1. CASE S!Resolve
  BY <1>1, ResolveInd
<1>2. ASSUME NEW c \in Boxed, 
             S!Begin(c) \/ S!Enter(c) \/ S!Die(c) \/ S!LeftoverEnds(c) \/ S!End(c)
      PROVE  S!SupervisorInd'
  BY <1>2, BeginInd, EnterDieInd, EndInd
<1>3. ASSUME NEW c \in Boxed, NEW k \in S!Kinds, S!MakeCall(c, k) PROVE S!SupervisorInd'
  BY <1>3, MakeCallInd
<1>4. ASSUME NEW l \in S!Layers,
             S!StartWorker(l) \/ S!Receive(l) \/ S!Check(l) \/ S!Record(l) \/ S!Answer(l) \/ S!Stop(l)
      PROVE  S!SupervisorInd'
  BY <1>4, StartWorkerInd, ReceiveCheckInd, RecordInd, AnswerInd, StopInd
<1>5. CASE UNCHANGED S!vars
  BY <1>5 DEF S!vars, S!SupervisorInd, S!TypeOK, S!NotBegun, S!Counted, S!Held, S!DeniedFails,
              S!OnlyOwnDenials, S!Judged, S!ToBeShown, S!Waiting
<1> QED
  BY <1>1, <1>2, <1>3, <1>4, <1>5 DEF S!Next

LEMMA SupervisorSpec ==
  ASSUME S!ParametersOK
  PROVE  S!Spec => []S!SupervisorInd
BY SupervisorInit, SupervisorInductive, PTL DEF S!Spec

\* However many commands share a supervisor, whichever of them die meanwhile and
\* whatever they leave behind: one whose own call was denied before its verdict never
\* passes, unless only auditing (sandbox_verdict).
THEOREM DeniedNeverPasses ==
  ASSUME S!ParametersOK
  PROVE  S!Spec => []S!DeniedFails
<1>1. S!SupervisorInd => S!DeniedFails
  BY DEF S!SupervisorInd
<1> QED
  BY <1>1, SupervisorSpec, PTL

\* A denial is recorded only of a call that was made under the layers: what is read of
\* a caller that died, whose pid may be another's, is dropped (supervise: id_valid).
THEOREM DenialsHappened ==
  ASSUME S!ParametersOK
  PROVE  S!Spec => []S!OnlyOwnDenials
<1>1. S!SupervisorInd => S!OnlyOwnDenials
  BY DEF S!SupervisorInd
<1> QED
  BY <1>1, SupervisorSpec, PTL

\* No denial is lost between the commands that share the list of them, unless one of
\* them dies, a process one of them left behind is denied after its verdict, or the
\* supervisor ends (take_denials).
THEOREM DenialsShown ==
  ASSUME S!ParametersOK
  PROVE  S!Spec => []S!NothingUnshown
<1>1. S!SupervisorInd => S!NothingUnshown
  BY DEF S!SupervisorInd, S!NothingUnshown, S!ToBeShown
<1> QED
  BY <1>1, SupervisorSpec, PTL

LEMMA SweepIs ==
  ASSUME K!TypeOK
  PROVE  /\ sweep.kind # "none" => sweep \in K!Sweeps
         /\ sweep = K!NoSweep => sweep.kind = "none"
         /\ parked = K!NoSweep => parked.kind = "none"
         /\ parked # K!NoSweep => parked \in K!Sweeps
         /\ \A s \in K!Sweeps : s # K!NoSweep /\ s.kind # "none"
<1>1. K!NoSweep.kind = "none"
  BY DEF K!NoSweep
<1>2. \A s \in K!Sweeps : s.kind # "none"
  BY DEF K!Sweeps
<1> QED
  BY <1>1, <1>2 DEF K!TypeOK

\* What the processes do among themselves, as far as a sweep cares.
Moves ==
  /\ proc' \in [Procs -> [st : {"none", "live", "zombie", "gone"}, par : Procs \cup {K!Me, "init", "outside"}]]
  /\ \A q \in Strangers : proc'[q].par \in {"outside", K!Adopter} \cup reused
  /\ \A q \in Procs : proc[q].st = "gone" => proc'[q].st = "gone"
  /\ \A q \in base.own : /\ proc'[q].par = K!Me /\ proc'[q].st # "none"
                         /\ proc'[q].st = "live" => proc[q].st = "live"

LEMMA MovesInd ==
  ASSUME K!ReapInd, Moves, UNCHANGED <<host, sweep, parked, base, hit, reused, slipped, exit>>
  PROVE  K!ReapInd'
<1>1. K!TypeOK' /\ K!StrangersSafe'
  BY DEF K!ReapInd, K!TypeOK, K!StrangersSafe, Moves
<1>2. K!Apart' /\ K!OwnStays'
  BY DEF K!ReapInd, K!Apart, K!OwnStays, Moves, K!Adopter
<1>3. K!InHand(sweep)' /\ K!InHand(parked)' /\ K!Places'
  BY DEF K!ReapInd, K!InHand, K!Hand, K!Places, K!Declines
<1>4. K!OwnReached'
  <2>1. \A p \in base.own : K!Reached(p) => K!Reached(p)'
    BY DEF K!Reached, K!Told
  <2>2. \A p \in base.own : K!Live(p)' => K!Live(p)
    BY DEF Moves, K!Live
  <2> QED
    BY <2>1, <2>2 DEF K!ReapInd, K!OwnReached
<1> QED
  BY <1>1, <1>2, <1>3, <1>4 DEF K!ReapInd

LEMMA DeadMoves ==
  ASSUME K!ParametersOK, K!ReapInd, NEW p \in Procs, K!Live(p), proc' = K!Dead(proc, p)
  PROVE  Moves /\ proc'[p].st # "live"
<1> DEFINE States == {"none", "live", "zombie", "gone"}
           Parents == Procs \cup {K!Me, "init", "outside"}
<1>0. K!Adopter \in {K!Me, "init"}
  BY DEF K!Adopter
<1>1. proc \in [Procs -> [st : States, par : Parents]]
  BY DEF K!ReapInd, K!TypeOK
<1>2. proc'[p].st \in {"zombie", "gone"} /\ proc'[p].par = proc[p].par
  BY <1>1 DEF K!Dead
<1>3. ASSUME NEW q \in Procs, q # p, proc[q].par = p
      PROVE  proc'[q].st \in {proc[q].st, "gone"} /\ proc'[q].par = K!Adopter
  BY <1>3 DEF K!Dead
<1>4. ASSUME NEW q \in Procs, q # p, proc[q].par # p
      PROVE  proc'[q] = proc[q]
  BY <1>4 DEF K!Dead
<1>5. proc' \in [Procs -> [st : States, par : Parents]]
  <2>1. proc' = [q \in Procs |-> proc'[q]]
    BY DEF K!Dead
  <2>2. ASSUME NEW q \in Procs PROVE proc'[q] \in [st : States, par : Parents]
    <3>1. CASE q = p
      BY <1>1, <3>1 DEF K!Dead
    <3>2. CASE q # p /\ proc[q].par = p
      BY <1>0, <1>1, <3>2 DEF K!Dead
    <3>3. CASE q # p /\ proc[q].par # p
      BY <1>1, <1>4, <3>3
    <3> QED
      BY <3>1, <3>2, <3>3
  <2> QED
    BY <2>1, <2>2
<1>6. \A q \in Strangers : q \in Procs /\ proc[q].par # p /\ proc[q].par \in {"outside", K!Adopter} \cup reused
  BY <1>0 DEF K!ReapInd, K!Apart, K!ParametersOK, K!Live
<1>9. \A q \in Procs : proc[q].st = "gone" => proc'[q].st = "gone"
  BY <1>3, <1>4 DEF K!Live
<1>7. \A q \in base.own : q \in Procs /\ proc[q].par # p /\ proc[q].par = K!Me /\ proc[q].st # "none"
  BY DEF K!ReapInd, K!OwnStays, K!TypeOK, K!ParametersOK
<1>8. \A q \in Procs : proc[q].par # p => proc'[q].par = proc[q].par /\ (q # p => proc'[q].st = proc[q].st)
  BY <1>2, <1>4
<1> QED
  BY <1>2, <1>5, <1>6, <1>7, <1>8, <1>9 DEF Moves

LEMMA ReapInit ==
  ASSUME K!ParametersOK
  PROVE  K!Init => K!ReapInd
<1> SUFFICES ASSUME K!Init PROVE K!ReapInd
  OBVIOUS
<1> USE DEF K!Init
<1>1. K!TypeOK /\ K!StrangersSafe
  BY DEF K!TypeOK, K!StrangersSafe
<1>2. K!Apart /\ K!OwnStays
  BY DEF K!ParametersOK, K!Apart, K!OwnStays
<1>3. sweep.kind = "none" /\ sweep = K!NoSweep /\ parked = K!NoSweep
  BY DEF K!NoSweep
<1>4. K!InHand(sweep) /\ K!InHand(parked) /\ K!OwnReached /\ K!Places
  BY <1>3 DEF K!InHand, K!OwnReached, K!Places
<1> QED
  BY <1>1, <1>2, <1>4 DEF K!ReapInd

-----------------------------------------------------------------------------
(* The processes *)

LEMMA ForkInd ==
  ASSUME K!ParametersOK, K!ReapInd, NEW p \in Procs \cup {K!Me}, K!Fork(p)
  PROVE  K!ReapInd'
<1> DEFINE fresh == {q \in Procs \ Strangers : proc[q].st = "none"}
           c == CHOOSE q \in fresh : TRUE
<1>1. c \in fresh
  BY DEF K!Fork
<1>2. proc' = [proc EXCEPT ![c] = [st |-> "live", par |-> p]]
  BY DEF K!Fork
<1> HIDE DEF c
<1>3. Moves
  BY <1>1, <1>2 DEF K!ReapInd, K!TypeOK, K!Apart, K!OwnStays, Moves, K!ParametersOK
<1> QED
  BY <1>3, MovesInd DEF K!Fork

LEMMA TableInd ==
  ASSUME K!ParametersOK, K!ReapInd, NEW p \in Procs \ Strangers, K!Exit(p) \/ K!Reaped(p)
  PROVE  K!ReapInd'
<1>1. CASE K!Exit(p)
  BY <1>1, DeadMoves, MovesInd DEF K!Exit
<1>2. CASE K!Reaped(p)
  <2>1. Moves
    BY <1>2 DEF K!Reaped, K!ReapInd, K!TypeOK, K!Apart, K!OwnStays, Moves, K!ParametersOK
  <2> QED
    BY <1>2, <2>1, MovesInd DEF K!Reaped
<1> QED
  BY <1>1, <1>2

LEMMA OrphanedInd ==
  ASSUME K!ParametersOK, K!ReapInd, K!Orphaned
  PROVE  K!ReapInd'
<1>1. proc' = [p \in Procs |-> IF proc[p].par = "outside" /\ p \in Strangers
                              THEN [proc[p] EXCEPT !.par = K!Adopter] ELSE proc[p]]
  BY DEF K!Orphaned
<1>2. K!Adopter \in {K!Me, "init"}
  BY DEF K!Adopter
<1>3. \A p \in Procs : /\ proc'[p].st = proc[p].st
                       /\ p \notin Strangers => proc'[p] = proc[p]
                       /\ proc'[p].par \in {proc[p].par, K!Adopter}
  BY <1>1 DEF K!ReapInd, K!TypeOK
<1>4. proc' \in [Procs -> [st : {"none", "live", "zombie", "gone"}, par : Procs \cup {K!Me, "init", "outside"}]]
  BY <1>1, <1>2 DEF K!ReapInd, K!TypeOK
<1>5. Moves
  BY <1>3, <1>4 DEF K!ReapInd, K!TypeOK, K!Apart, K!OwnStays, Moves, K!ParametersOK
<1> QED
  BY <1>5, MovesInd DEF K!Orphaned

\* A pid a sweep has in hand goes to a stranger: it is known to have slipped.
LEMMA RecycleInd ==
  ASSUME K!ParametersOK, K!ReapInd, NEW p \in Procs \ Strangers, K!Recycle(p)
  PROVE  K!ReapInd'
<1>1. /\ K!Alive /\ proc[p].st = "gone" /\ reused' = reused \cup {p}
      /\ slipped' = slipped \cup ({p} \cap K!Hand(sweep))
      /\ UNCHANGED <<host, sweep, parked, base, hit, exit>>
  BY DEF K!Recycle
<1>2. PICK below \in SUBSET {q \in Strangers : proc[q].par = "outside"} :
        proc' = [q \in Procs |-> IF q \in below THEN [proc[q] EXCEPT !.par = p] ELSE proc[q]]
  BY DEF K!Recycle
<1>3. proc' \in [Procs -> [st : {"none", "live", "zombie", "gone"}, par : Procs \cup {K!Me, "init", "outside"}]]
  BY <1>2 DEF K!ReapInd, K!TypeOK
<1>4. \A q \in Procs : /\ proc'[q].st = proc[q].st /\ proc'[q].par \in {proc[q].par, p}
                       /\ q \notin Strangers => proc'[q] = proc[q]
  BY <1>2 DEF K!ReapInd, K!TypeOK
<1>5. K!TypeOK' /\ K!StrangersSafe'
  BY <1>1, <1>3 DEF K!ReapInd, K!TypeOK, K!StrangersSafe
<1>6. K!Apart' /\ K!OwnStays'
  <2>1. K!Apart'
    BY <1>1, <1>4 DEF K!ReapInd, K!Apart, K!Adopter, K!ParametersOK
  <2>2. K!OwnStays'
    BY <1>1, <1>4 DEF K!ReapInd, K!OwnStays, K!TypeOK
  <2> QED
    BY <2>1, <2>2
<1>7. K!InHand(sweep)'
  BY <1>1 DEF K!ReapInd, K!InHand, K!Hand, K!Declines
<1>8. K!InHand(parked)'
  <2>1. parked # K!NoSweep => K!Hand(parked) = {}
    BY DEF K!ReapInd, K!Places, K!InHand, K!Hand
  <2>2. K!Hand(parked)' = K!Hand(parked)
    BY <1>1 DEF K!Hand
  <2> QED
    BY <1>1, <2>1, <2>2 DEF K!ReapInd, K!InHand, K!Declines
<1>9. K!OwnReached' /\ K!Places'
  <2>1. \A q \in base.own : (K!Live(q)' => K!Live(q)) /\ (K!Reached(q) => K!Reached(q)')
    BY <1>1, <1>4 DEF K!Live, K!Reached, K!Told, K!ReapInd, K!TypeOK
  <2> QED
    BY <1>1, <2>1 DEF K!ReapInd, K!OwnReached, K!Places
<1> QED
  BY <1>5, <1>6, <1>7, <1>8, <1>9 DEF K!ReapInd

\* The engine blocks on a join, and no longer.
LEMMA EngineJoinInd ==
  ASSUME K!ReapInd, K!Joined \/ \E p \in Procs \ Strangers : K!Join(p)
  PROVE  K!ReapInd'
<1>1. UNCHANGED <<proc, host, sweep, parked, base, hit, reused, slipped, exit>>
  BY DEF K!Joined, K!Join
<1>2. Moves
  BY <1>1 DEF K!ReapInd, K!TypeOK, K!Apart, K!OwnStays, Moves
<1> QED
  BY <1>1, <1>2, MovesInd

-----------------------------------------------------------------------------
(* The walk and the signals *)

\* What a step of the sweep itself must keep.
LEMMA SweepMoves ==
  ASSUME K!ReapInd, K!Alive, sweep.kind # "none", UNCHANGED <<proc, host, parked, base, hit, reused, slipped, exit>>,
         sweep' \in K!Sweeps, sweep'.kind = sweep.kind, K!InHand(sweep)', K!OwnReached'
  PROVE  K!ReapInd'
<1>1. K!TypeOK' /\ K!StrangersSafe' /\ K!Apart' /\ K!OwnStays'
  BY DEF K!ReapInd, K!TypeOK, K!StrangersSafe, K!Apart, K!OwnStays, K!Adopter
<1>2. K!InHand(parked)'
  BY DEF K!ReapInd, K!InHand, K!Hand, K!Declines
<1>3. K!Places'
  BY DEF K!ReapInd, K!Places, K!Alive
<1> QED
  BY <1>1, <1>2, <1>3 DEF K!ReapInd

LEMMA TakeChildInd ==
  ASSUME K!ParametersOK, K!ReapInd, K!Alive, sweep.kind # "none", sweep.walking,
         NEW q \in sweep.kids, K!TakeChild(q), UNCHANGED <<proc, host, parked, base, hit, reused, slipped, exit>>
  PROVE  K!ReapInd'
<1>1. sweep \in K!Sweeps /\ sweep # K!NoSweep /\ K!TypeOK /\ K!InHand(sweep) /\ K!OwnReached
  BY SweepIs DEF K!ReapInd
<1>2. q \in Procs /\ K!Me \notin sweep.frontier
  BY <1>1 DEF K!Sweeps, K!InHand
<1>3. CASE K!Full
  <2>1. sweep' = [sweep EXCEPT !.kids = {}, !.truncated = TRUE]
    BY <1>3 DEF K!TakeChild
  <2>2. sweep' \in K!Sweeps /\ sweep'.kind = sweep.kind /\ sweep'.truncated
    BY <1>1, <2>1 DEF K!Sweeps
  <2>3. K!InHand(sweep)'
    BY <1>1, <1>2, <2>1 DEF K!InHand, K!Hand, K!Declines, K!Sweeps
  <2>4. K!OwnReached'
    BY <2>2 DEF K!OwnReached, K!Reached, K!Told
  <2> QED
    BY <2>2, <2>3, <2>4, SweepMoves
<1>4. CASE ~K!Full /\ (q \in sweep.seen \/ proc[q].st = "zombie")
  <2>1. sweep' = [sweep EXCEPT !.kids = @ \ {q}, !.seen = @ \cup {q}]
    BY <1>4 DEF K!TakeChild
  <2>2. sweep' \in K!Sweeps /\ sweep'.kind = sweep.kind
    BY <1>1, <1>2, <2>1 DEF K!Sweeps
  <2>3. K!InHand(sweep)'
    BY <1>1, <1>2, <2>1 DEF K!InHand, K!Hand, K!Declines, K!Sweeps
  <2>4. ASSUME NEW p \in base.own, K!Live(p), K!Reached(p) PROVE K!Reached(p)'
    <3>1. CASE p = q
      BY <1>1, <1>2, <1>4, <2>1, <2>4, <3>1 DEF K!Reached, K!Told, K!Sweeps, K!Live
    <3>2. CASE p # q
      BY <1>1, <1>2, <2>1, <2>4, <3>2 DEF K!Reached, K!Told, K!Sweeps
    <3> QED
      BY <3>1, <3>2
  <2>5. K!OwnReached'
    BY <1>1, <2>2, <2>4 DEF K!OwnReached, K!Live
  <2> QED
    BY <2>2, <2>3, <2>5, SweepMoves
<1>5. CASE ~K!Full /\ q \notin sweep.seen /\ proc[q].st # "zombie"
  <2>1. sweep' = [sweep EXCEPT !.kids = @ \ {q}, !.seen = @ \cup {q},
                               !.found = @ \cup {q}, !.frontier = @ \cup {q}]
    <3> DEFINE rest == [sweep EXCEPT !.kids = @ \ {q}, !.seen = @ \cup {q}]
    <3>1. sweep' = [rest EXCEPT !.found = @ \cup {q}, !.frontier = @ \cup {q}]
      BY <1>5 DEF K!TakeChild
    <3> QED
      BY <1>1, <3>1 DEF K!Sweeps
  <2>2. sweep' \in K!Sweeps /\ sweep'.kind = sweep.kind
    BY <1>1, <1>2, <2>1 DEF K!Sweeps
  <2>3. K!InHand(sweep)'
    <3>1. ~(K!Declines \/ host.noReap)
      BY <1>1 DEF K!InHand
    <3>2. q # K!Me
      BY <1>2 DEF K!ParametersOK
    <3> QED
      BY <1>1, <1>2, <2>1, <3>1, <3>2 DEF K!InHand, K!Hand, K!Declines, K!Sweeps
  <2>4. ASSUME NEW p \in base.own, K!Reached(p) PROVE K!Reached(p)'
    <3>1. CASE p = q
      BY <1>1, <2>1, <3>1 DEF K!Reached, K!Sweeps
    <3>2. CASE p # q
      BY <1>1, <1>2, <2>1, <2>4, <3>2 DEF K!Reached, K!Told, K!Sweeps
    <3> QED
      BY <3>1, <3>2
  <2>5. K!OwnReached'
    BY <1>1, <2>2, <2>4 DEF K!OwnReached, K!Live
  <2> QED
    BY <2>2, <2>3, <2>5, SweepMoves
<1> QED
  BY <1>3, <1>4, <1>5

LEMMA ExpandInd ==
  ASSUME K!ParametersOK, K!ReapInd, K!Alive, sweep.kind # "none", sweep.walking, sweep.kids = {},
         NEW n \in sweep.frontier, K!Expand(n), UNCHANGED <<proc, host, parked, base, hit, reused, slipped, exit>>
  PROVE  K!ReapInd'
<1>1. sweep \in K!Sweeps /\ sweep # K!NoSweep /\ K!TypeOK /\ K!InHand(sweep) /\ K!OwnReached
  BY SweepIs DEF K!ReapInd
<1>2. /\ ~K!Declines /\ ~host.noReap /\ n \in Procs \cup {K!Me}
      /\ n \in reused => n \in slipped
  BY <1>1 DEF K!InHand, K!Hand, K!Sweeps
<1>3. sweep.visited + 1 \in Nat
  BY <1>1 DEF K!Sweeps
<1> DEFINE stops == sweep.visited + 1 > host.maxWalk \/ K!Full
<1>4. CASE stops
  <2>1. sweep' = [sweep EXCEPT !.frontier = @ \ {n}, !.visited = @ + 1, !.truncated = TRUE, !.walking = FALSE]
    <3> DEFINE popped == [sweep EXCEPT !.frontier = @ \ {n}, !.visited = @ + 1]
    <3>1. sweep' = [popped EXCEPT !.truncated = TRUE, !.walking = FALSE]
      BY <1>4 DEF K!Expand
    <3> QED
      BY <1>1, <3>1 DEF K!Sweeps
  <2>2. sweep' \in K!Sweeps /\ sweep'.kind = sweep.kind /\ sweep'.truncated
    BY <1>1, <1>3, <2>1 DEF K!Sweeps
  <2>3. K!InHand(sweep)'
    BY <1>1, <1>2, <2>1 DEF K!InHand, K!Hand, K!Declines, K!Sweeps
  <2>4. K!OwnReached'
    BY <2>2 DEF K!OwnReached, K!Reached, K!Told
  <2> QED
    BY <2>2, <2>3, <2>4, SweepMoves
<1>5. CASE ~stops
  <2>1. sweep' = [sweep EXCEPT !.frontier = @ \ {n}, !.visited = @ + 1, !.kids = K!Listed(n),
                               !.truncated = @ \/ ~K!Complete(n)]
    <3> DEFINE popped == [sweep EXCEPT !.frontier = @ \ {n}, !.visited = @ + 1]
    <3>1. sweep' = [popped EXCEPT !.kids = K!Listed(n), !.truncated = @ \/ ~K!Complete(n)]
      BY <1>5 DEF K!Expand
    <3> QED
      BY <1>1, <3>1 DEF K!Sweeps
  \* What is listed are processes of this run: only the engine adopts strangers, and
  \* where it does nothing is walked; a stranger's children are below a pid that slipped.
  <2>2. /\ K!Listed(n) \subseteq Procs /\ K!Listed(n) \cap reused = {}
        /\ slipped = {} => K!Listed(n) \cap Strangers = {}
    <3>1. \A q \in Strangers : proc[q].par \in {"outside", "init"} \cup reused
      BY <1>2 DEF K!ReapInd, K!Apart, K!Adopter, K!Declines, K!TypeOK, K!ParametersOK
    <3>2. n \notin {"outside", "init"}
      BY <1>2 DEF K!ParametersOK, K!Me
    <3>3. \A q \in reused : proc[q].st = "gone"
      BY DEF K!ReapInd, K!Apart
    <3> QED
      BY <1>2, <3>1, <3>2, <3>3 DEF K!Listed, K!ChildrenOf, K!ParametersOK
  <2>3. sweep' \in K!Sweeps /\ sweep'.kind = sweep.kind
    BY <1>1, <1>3, <2>1, <2>2 DEF K!Sweeps
  <2>4. K!InHand(sweep)'
    <3>1. K!Me \notin sweep'.frontier
      BY <1>1, <2>1 DEF K!InHand, K!Sweeps
    <3>2. /\ sweep'.frontier \subseteq sweep.frontier /\ sweep'.kids = K!Listed(n)
          /\ sweep'.found = sweep.found /\ sweep'.walking
      BY <1>1, <2>1 DEF K!Sweeps
    <3> QED
      BY <1>1, <1>2, <2>2, <3>1, <3>2 DEF K!InHand, K!Hand, K!Declines
  <2>5. ASSUME NEW p \in base.own, K!Live(p), K!Reached(p) PROVE K!Reached(p)'
    <3>1. CASE K!Me \in sweep.frontier
      <4>1. n = K!Me /\ sweep.seen = {}
        BY <1>1, <3>1 DEF K!InHand
      <4>2. p \in K!Listed(K!Me)
        BY <2>5 DEF K!ReapInd, K!OwnStays, K!TypeOK, K!Listed, K!ChildrenOf, K!Live
      <4>3. sweep'.walking /\ sweep'.kids = K!Listed(K!Me) /\ sweep'.seen = {}
        BY <1>1, <2>1, <4>1 DEF K!Sweeps
      <4> QED
        BY <4>2, <4>3 DEF K!Reached
    <3>2. CASE K!Me \notin sweep.frontier
      <4>1. /\ sweep'.found = sweep.found /\ sweep'.pass = sweep.pass /\ sweep'.asked = sweep.asked
            /\ sweep'.unstoppable = sweep.unstoppable /\ sweep'.declined = sweep.declined
            /\ sweep.truncated => sweep'.truncated
        BY <1>1, <2>1 DEF K!Sweeps
      <4> QED
        BY <2>5, <3>2, <4>1 DEF K!Reached, K!Told
    <3> QED
      BY <3>1, <3>2
  <2>6. K!OwnReached'
    BY <1>1, <2>3, <2>5 DEF K!OwnReached, K!Live
  <2> QED
    BY <2>3, <2>4, <2>6, SweepMoves
<1> QED
  BY <1>4, <1>5

LEMMA WalkInd ==
  ASSUME K!ParametersOK, K!ReapInd, K!Walk
  PROVE  K!ReapInd'
<1>1. K!Alive /\ sweep.kind # "none" /\ sweep.walking /\ UNCHANGED <<proc, host, parked, base, hit, reused, slipped, exit>>
  BY DEF K!Walk
<1>2. CASE \E q \in sweep.kids : K!TakeChild(q)
  BY <1>1, <1>2, TakeChildInd
<1>3. CASE sweep.kids = {} /\ \E p \in sweep.frontier : K!Expand(p)
  BY <1>1, <1>3, ExpandInd
<1>4. CASE sweep.kids = {} /\ sweep.frontier = {} /\ sweep' = [sweep EXCEPT !.walking = FALSE]
  <2>1. sweep \in K!Sweeps /\ K!InHand(sweep) /\ K!OwnReached
    BY <1>1, SweepIs DEF K!ReapInd
  <2>2. sweep' \in K!Sweeps /\ sweep'.kind = sweep.kind
    BY <1>4, <2>1 DEF K!Sweeps
  <2>3. K!InHand(sweep)'
    <3>1. sweep # K!NoSweep /\ ~sweep'.walking /\ sweep'.frontier = {} /\ sweep'.kids = {} /\ sweep'.found = sweep.found
      BY <1>4, <2>1, <1>1, SweepIs DEF K!Sweeps, K!ReapInd
    <3>2. /\ ~K!Declines /\ ~host.noReap /\ sweep.found \cap reused \subseteq slipped
          /\ slipped = {} => sweep.found \cap Strangers = {}
      BY <1>1, <2>1, <3>1 DEF K!InHand, K!Hand
    <3> QED
      BY <1>1, <3>1, <3>2 DEF K!InHand, K!Hand, K!Declines
  <2>4. ASSUME NEW p \in base.own, K!Reached(p) PROVE K!Reached(p)'
    BY <1>1, <1>4, <2>1, <2>4 DEF K!Reached, K!Told, K!Sweeps
  <2>5. K!OwnReached'
    BY <1>1, <2>1, <2>2, <2>4 DEF K!OwnReached, K!Live
  <2> QED
    BY <1>1, <2>2, <2>3, <2>5, SweepMoves
<1> QED
  BY <1>2, <1>3, <1>4 DEF K!Walk

LEMMA SignalInd ==
  ASSUME K!ParametersOK, K!ReapInd, K!Signal
  PROVE  K!ReapInd'
<1>1. /\ K!Alive /\ sweep.kind # "none" /\ ~sweep.walking
      /\ UNCHANGED <<host, parked, base, reused, slipped, exit>>
  BY DEF K!Signal
<1>2. sweep \in K!Sweeps /\ sweep # K!NoSweep /\ K!TypeOK /\ K!InHand(sweep) /\ K!OwnReached
  BY <1>1, SweepIs DEF K!ReapInd
<1> DEFINE Sends(p) == p \notin host.denied /\ (proc[p].st \in {"live", "zombie"} \/ p \in reused)
           Rest(p) == [sweep EXCEPT !.found = @ \ {p}]
<1>3. PICK t \in sweep.found :
        /\ sweep' = IF K!Refused(t) THEN [Rest(t) EXCEPT !.unstoppable = @ \cup {t}]
                    ELSE IF Sends(t) THEN [Rest(t) EXCEPT !.asked = IF sweep.pass = "ask" THEN @ \cup {t} ELSE @]
                    ELSE Rest(t)
        /\ hit' = IF Sends(t) THEN hit \cup ({t} \cap (Strangers \cup reused)) ELSE hit
        /\ proc' = IF Sends(t) /\ sweep.pass = "kill" /\ K!Live(t) THEN K!Dead(proc, t) ELSE proc
  BY DEF K!Signal
<1>4. /\ t \in Procs /\ ~(K!Declines \/ host.noReap)
      /\ t \in reused => t \in slipped
      /\ slipped = {} => t \notin Strangers
  BY <1>2 DEF K!Sweeps, K!InHand, K!Hand
<1>5. /\ sweep' \in K!Sweeps /\ sweep'.kind = sweep.kind /\ sweep'.pass = sweep.pass
      /\ ~sweep'.walking /\ sweep'.frontier = sweep.frontier /\ sweep'.kids = sweep.kids
      /\ sweep'.seen = sweep.seen /\ sweep'.found = sweep.found \ {t}
      /\ sweep.asked \subseteq sweep'.asked /\ sweep.unstoppable \subseteq sweep'.unstoppable
      /\ sweep'.truncated = sweep.truncated /\ sweep'.declined = sweep.declined
  <2>1. CASE K!Refused(t)
    BY <1>1, <1>2, <1>3, <1>4, <2>1 DEF K!Sweeps
  <2>2. CASE ~K!Refused(t) /\ Sends(t)
    BY <1>1, <1>2, <1>3, <1>4, <2>2 DEF K!Sweeps
  <2>3. CASE ~K!Refused(t) /\ ~Sends(t)
    BY <1>1, <1>2, <1>3, <1>4, <2>3 DEF K!Sweeps
  <2> QED
    BY <2>1, <2>2, <2>3
<1>6. K!StrangersSafe' /\ hit' \subseteq Procs
  BY <1>1, <1>3, <1>4 DEF K!ReapInd, K!StrangersSafe, K!TypeOK
<1>7. Moves
  <2>1. CASE proc' = K!Dead(proc, t) /\ K!Live(t)
    BY <1>4, <2>1, DeadMoves
  <2>2. CASE proc' = proc
    BY <2>2 DEF K!ReapInd, K!TypeOK, K!Apart, K!OwnStays, Moves
  <2> QED
    BY <1>3, <2>1, <2>2
<1>8. K!TypeOK' /\ K!StrangersSafe' /\ K!Apart' /\ K!OwnStays'
  BY <1>1, <1>5, <1>6, <1>7 DEF K!ReapInd, K!TypeOK, K!Apart, K!OwnStays, Moves, K!Adopter
<1>9. K!InHand(sweep)' /\ K!InHand(parked)'
  <2>1. K!InHand(sweep)'
    BY <1>1, <1>2, <1>4, <1>5 DEF K!InHand, K!Hand, K!Declines
  <2>2. K!InHand(parked)'
    BY <1>1 DEF K!ReapInd, K!InHand, K!Hand, K!Declines
  <2> QED
    BY <2>1, <2>2
<1>10. K!Places'
  BY <1>1, <1>5 DEF K!ReapInd, K!Places, K!Alive
\* The one that is signalled is refused and told of, asked, or dead.
<1>11. ASSUME NEW p \in base.own, K!Live(p)', K!Reached(p) PROVE K!Reached(p)'
  <2>1. CASE p = t
    <3>1. K!Live(t)
      BY <1>7, <1>11, <2>1 DEF Moves, K!Live
    <3>2. CASE K!Refused(t)
      <4>1. t \in sweep'.unstoppable
        BY <1>2, <1>3, <3>2 DEF K!Sweeps
      <4> QED
        BY <2>1, <4>1 DEF K!Reached, K!Told
    <3>3. CASE ~K!Refused(t)
      <4>1. Sends(t)
        BY <3>1, <3>3 DEF K!Refused, K!Live
      <4>2. sweep.pass = "ask"
        <5> SUFFICES ASSUME sweep.pass = "kill" PROVE FALSE
          BY <1>2 DEF K!Sweeps
        <5>1. proc' = K!Dead(proc, t)
          BY <1>3, <3>1, <4>1
        <5> QED
          BY <1>4, <1>11, <2>1, <3>1, <5>1, DeadMoves DEF K!Live
      <4>3. t \in sweep'.asked
        BY <1>2, <1>3, <3>3, <4>1, <4>2 DEF K!Sweeps
      <4> QED
        BY <1>5, <2>1, <4>2, <4>3 DEF K!Reached
    <3> QED
      BY <3>2, <3>3
  <2>2. CASE p # t
    BY <1>1, <1>5, <1>11, <2>2 DEF K!Reached, K!Told
  <2> QED
    BY <2>1, <2>2
<1>12. K!OwnReached'
  <2>1. \A p \in base.own : K!Live(p)' => K!Live(p)
    BY <1>7 DEF Moves, K!Live
  <2> QED
    BY <1>1, <1>2, <1>5, <1>11, <2>1 DEF K!OwnReached
<1> QED
  BY <1>8, <1>9, <1>10, <1>12 DEF K!ReapInd

\* The engine has its own pid, which is nobody else's.
LEMMA EngineApart ==
  ASSUME K!ParametersOK, K!ReapInd
  PROVE  K!Me \notin Strangers /\ K!Me \notin reused
BY DEF K!ParametersOK, K!ReapInd, K!TypeOK

\* The kill pass begins at the engine again.
LEMMA KillPassIs ==
  ASSUME NEW s \in K!Sweeps
  PROVE  /\ K!KillPass(s) \in K!Sweeps /\ K!KillPass(s).kind = s.kind /\ K!KillPass(s).walking
         /\ K!KillPass(s).frontier = {K!Me} /\ K!KillPass(s).seen = {} /\ K!KillPass(s).kids = s.kids
         /\ K!KillPass(s).found = s.found /\ K!KillPass(s).asked = s.asked
BY DEF K!KillPass, K!Sweeps

LEMMA GraceInd ==
  ASSUME K!ParametersOK, K!ReapInd, K!Grace
  PROVE  K!ReapInd'
<1>1. /\ K!Alive /\ sweep.kind \in {"drain", "force"} /\ ~sweep.walking /\ sweep.found = {} /\ sweep.asked # {}
      /\ UNCHANGED <<proc, host, base, hit, reused, slipped, exit>>
  BY DEF K!Grace, K!Signalled
<1>2. /\ sweep \in K!Sweeps /\ sweep # K!NoSweep /\ K!InHand(sweep) /\ sweep.kids = {}
      /\ ~K!Declines /\ ~host.noReap
  BY <1>1, SweepIs DEF K!ReapInd, K!InHand
<1>3. CASE sweep.kind = "force"
  <2>1. sweep' = K!KillPass(sweep) /\ parked' = parked
    BY <1>3 DEF K!Grace, K!Blocks
  <2>2. K!InHand(sweep)'
    BY <1>1, <1>2, <2>1, KillPassIs, EngineApart DEF K!InHand, K!Hand, K!Declines
  <2>3. K!OwnReached'
    BY <1>2, <2>1, KillPassIs DEF K!OwnReached, K!Reached
  <2> QED
    BY <1>1, <1>2, <2>1, <2>2, <2>3, KillPassIs, SweepMoves
<1>4. CASE sweep.kind = "drain"
  <2>1. sweep' = K!NoSweep /\ parked' = sweep
    BY <1>4 DEF K!Grace, K!Blocks
  <2>2. sweep'.kind = "none"
    BY <2>1 DEF K!NoSweep
  <2>3. K!TypeOK' /\ K!StrangersSafe' /\ K!Apart' /\ K!OwnStays'
    BY <1>1, <1>2, <2>1 DEF K!ReapInd, K!TypeOK, K!StrangersSafe, K!Apart, K!OwnStays, K!Adopter
  <2>4. K!InHand(sweep)' /\ K!InHand(parked)' /\ K!OwnReached'
    BY <1>1, <1>2, <2>1, <2>2 DEF K!InHand, K!Hand, K!OwnReached, K!Declines
  <2>5. K!Places'
    BY <1>1, <1>4, <2>1, <2>2 DEF K!ReapInd, K!Places, K!Alive
  <2> QED
    BY <2>3, <2>4, <2>5 DEF K!ReapInd
<1> QED
  BY <1>1, <1>3, <1>4

LEMMA GraceOverInd ==
  ASSUME K!ParametersOK, K!ReapInd, K!GraceOver
  PROVE  K!ReapInd'
<1>1. /\ K!Alive /\ sweep = K!NoSweep /\ parked # K!NoSweep
      /\ sweep' = K!KillPass(parked) /\ parked' = K!NoSweep
      /\ UNCHANGED <<proc, host, base, hit, reused, slipped, exit>>
  BY DEF K!GraceOver
<1>2. /\ parked \in K!Sweeps /\ parked.kind = "drain" /\ parked.found = {} /\ parked.kids = {}
      /\ ~K!Declines /\ ~host.noReap
  BY <1>1, SweepIs DEF K!ReapInd, K!InHand, K!Places
<1>3. sweep.kind = "none" /\ base.kind # "force"
  BY <1>1, SweepIs DEF K!ReapInd, K!Places
<1>4. K!TypeOK' /\ K!StrangersSafe' /\ K!Apart' /\ K!OwnStays'
  BY <1>1, <1>2, KillPassIs DEF K!ReapInd, K!TypeOK, K!StrangersSafe, K!Apart, K!OwnStays, K!Adopter
<1>5. K!InHand(sweep)' /\ K!InHand(parked)'
  BY <1>1, <1>2, KillPassIs, EngineApart DEF K!InHand, K!Hand, K!Declines
<1>6. K!OwnReached'
  BY <1>1, <1>2, KillPassIs DEF K!OwnReached, K!Reached
<1>7. K!Places'
  <2>1. base.kind = "drain"
    BY <1>1, <1>3 DEF K!ReapInd, K!Places, K!TypeOK
  <2>2. sweep'.kind = "drain"
    BY <1>1, <1>2, KillPassIs
  <2> QED
    BY <1>1, <2>1, <2>2 DEF K!Places, K!Alive
<1> QED
  BY <1>4, <1>5, <1>6, <1>7 DEF K!ReapInd

LEMMA SweepOverInd ==
  ASSUME K!ParametersOK, K!ReapInd, K!SweepOver
  PROVE  K!ReapInd'
<1>1. /\ K!Alive /\ sweep.kind # "none" /\ ~sweep.walking /\ sweep.found = {}
      /\ sweep.kind = "relay" \/ sweep.pass = "kill" \/ sweep.asked = {}
      /\ UNCHANGED <<proc, host, parked, base, hit, reused, slipped>>
  BY DEF K!SweepOver, K!Signalled
<1>2. sweep \in K!Sweeps /\ sweep.kind \in {"relay", "drain", "force"}
  BY <1>1, SweepIs DEF K!ReapInd, K!Sweeps
<1>3. CASE sweep.kind = "relay"
  <2>1. sweep' = K!NoSweep /\ exit' = exit /\ base.kind # "force"
    BY <1>3 DEF K!SweepOver, K!ReapInd, K!Places
  <2>2. sweep'.kind = "none"
    BY <2>1 DEF K!NoSweep
  <2>3. K!TypeOK' /\ K!StrangersSafe' /\ K!Apart' /\ K!OwnStays'
    BY <1>1, <2>1 DEF K!ReapInd, K!TypeOK, K!StrangersSafe, K!Apart, K!OwnStays, K!Adopter
  <2>4. K!InHand(sweep)' /\ K!InHand(parked)' /\ K!OwnReached'
    BY <1>1, <2>1, <2>2 DEF K!ReapInd, K!InHand, K!Hand, K!OwnReached, K!Declines
  <2>5. K!Places'
    BY <1>1, <2>1, <2>2 DEF K!ReapInd, K!Places, K!Alive
  <2> QED
    BY <2>3, <2>4, <2>5 DEF K!ReapInd
<1>4. CASE sweep.kind # "relay"
  <2>1. sweep' = sweep /\ exit' = IF sweep.kind = "drain" THEN "own" ELSE "forced"
    BY <1>2, <1>4 DEF K!SweepOver
  <2>2. K!TypeOK' /\ K!StrangersSafe' /\ K!Apart' /\ K!OwnStays'
    BY <1>1, <2>1 DEF K!ReapInd, K!TypeOK, K!StrangersSafe, K!Apart, K!OwnStays, K!Adopter
  <2>3. K!InHand(sweep)' /\ K!InHand(parked)'
    BY <1>1, <2>1 DEF K!ReapInd, K!InHand, K!Hand, K!Declines
  <2>4. K!OwnReached'
    BY <1>1, <2>1 DEF K!ReapInd, K!OwnReached, K!Reached, K!Told, K!Live
  <2>5. K!Places'
    BY <1>1, <1>2, <1>4, <2>1 DEF K!ReapInd, K!Places
  <2> QED
    BY <2>2, <2>3, <2>4, <2>5 DEF K!ReapInd
<1> QED
  BY <1>3, <1>4

-----------------------------------------------------------------------------
(* The run and the signals *)

\* A sweep begins at the engine, or says that it does not look.
LEMMA StartedInd ==
  ASSUME K!ParametersOK, K!ReapInd, K!Alive, sweep = K!NoSweep, NEW kind \in {"relay", "drain", "force"},
         K!Started(kind), UNCHANGED <<proc, host, parked, hit, reused, slipped, exit>>
  PROVE  K!ReapInd'
<1>1. /\ sweep' \in K!Sweeps /\ sweep'.kind = kind /\ sweep'.frontier = {K!Me} /\ sweep'.kids = {}
      /\ sweep'.found = {} /\ sweep'.seen = {} /\ sweep'.asked = {}
      /\ sweep'.walking <=> ~(K!Declines \/ host.noReap)
      /\ K!Declines => sweep'.declined \/ host.noReap
  <2>1. CASE host.noReap
    BY <2>1 DEF K!Started, K!Swept, K!Sweeps
  <2>2. CASE ~host.noReap /\ K!Declines
    BY <2>2 DEF K!Started, K!Swept, K!Sweeps
  <2>3. CASE ~host.noReap /\ ~K!Declines
    BY <2>3 DEF K!Started, K!Swept, K!Sweeps
  <2> QED
    BY <2>1, <2>2, <2>3
<1>2. base' = IF kind = "relay" THEN base
              ELSE [kind |-> kind, own |-> {q \in Procs \ Strangers : K!Live(q) /\ proc[q].par = K!Me}]
  BY DEF K!Started
<1>3. sweep.kind = "none" /\ base.kind # "force"
  BY SweepIs DEF K!ReapInd, K!Places
<1>4. K!TypeOK' /\ K!StrangersSafe' /\ K!Apart'
  <2>1. base' \in [kind : {"none", "drain", "force"}, own : SUBSET Procs]
    BY <1>2 DEF K!ReapInd, K!TypeOK
  <2> QED
    BY <1>1, <2>1 DEF K!ReapInd, K!TypeOK, K!StrangersSafe, K!Apart, K!Adopter
<1>5. K!OwnStays'
  BY <1>2 DEF K!ReapInd, K!OwnStays, K!Live
<1>6. K!InHand(sweep)' /\ K!InHand(parked)'
  <2>1. K!InHand(sweep)'
    BY <1>1, EngineApart DEF K!InHand, K!Hand, K!Declines
  <2>2. K!InHand(parked)'
    BY DEF K!ReapInd, K!InHand, K!Hand, K!Declines
  <2> QED
    BY <2>1, <2>2
<1>7. K!OwnReached'
  BY <1>1 DEF K!OwnReached, K!Reached, K!Told
<1>8. K!Places'
  <2>1. kind # "relay" => base'.kind = kind
    BY <1>2
  <2>2. kind = "relay" => base' = base
    BY <1>2
  <2> QED
    BY <1>1, <1>3, <2>1, <2>2 DEF K!ReapInd, K!Places, K!Alive
<1> QED
  BY <1>4, <1>5, <1>6, <1>7, <1>8 DEF K!ReapInd

\* A step that ends the process or changes none of what a sweep looks at.
LEMMA EndsInd ==
  ASSUME K!ReapInd, K!Alive, UNCHANGED <<proc, host, sweep, parked, base, hit, reused, slipped>>,
         exit' \in {exit, "signal"} \/ (exit' = "own" /\ sweep = K!NoSweep)
  PROVE  K!ReapInd'
<1>1. K!TypeOK' /\ K!StrangersSafe' /\ K!Apart' /\ K!OwnStays'
  BY DEF K!ReapInd, K!TypeOK, K!StrangersSafe, K!Apart, K!OwnStays, K!Adopter
<1>2. K!InHand(sweep)' /\ K!InHand(parked)'
  BY DEF K!ReapInd, K!InHand, K!Hand, K!Declines
<1>3. K!OwnReached'
  BY DEF K!ReapInd, K!OwnReached, K!Reached, K!Told, K!Live
<1>4. K!Places'
  <2>1. sweep = K!NoSweep => sweep.kind = "none"
    BY SweepIs DEF K!ReapInd
  <2> QED
    BY <2>1 DEF K!ReapInd, K!Places, K!Alive
<1> QED
  BY <1>1, <1>2, <1>3, <1>4 DEF K!ReapInd

LEMMA RunEndsInd ==
  ASSUME K!ParametersOK, K!ReapInd, K!RunEnds
  PROVE  K!ReapInd'
<1>1. K!Alive /\ sweep = K!NoSweep /\ UNCHANGED <<proc, host, parked, hit, reused, slipped>>
  BY DEF K!RunEnds, K!Turns
<1>2. CASE UNCHANGED <<sweep, base>> /\ exit' \in {exit, "own"}
  BY <1>1, <1>2, EndsInd
<1>3. CASE K!Started("drain") /\ UNCHANGED exit
  BY <1>1, <1>3, StartedInd
<1> QED
  BY <1>2, <1>3 DEF K!RunEnds

LEMMA SignalsInd ==
  ASSUME K!ParametersOK, K!ReapInd, NEW s \in {"int", "term"}, K!Sent(s) \/ K!Receives(s)
  PROVE  K!ReapInd'
<1>1. CASE K!Sent(s)
  BY <1>1, EndsInd DEF K!Sent
<1>2. CASE K!Receives(s)
  <2>1. K!Alive /\ sweep = K!NoSweep /\ UNCHANGED <<proc, host, parked, hit, reused, slipped, exit>>
    BY <1>2 DEF K!Receives, K!Polled, K!Turns
  <2>2. CASE K!Started("force") \/ K!Started("relay")
    BY <2>1, <2>2, StartedInd
  <2>3. CASE UNCHANGED <<sweep, base>>
    BY <2>1, <2>3, EndsInd
  <2> QED
    BY <1>2, <2>2, <2>3 DEF K!Receives
<1> QED
  BY <1>1, <1>2

LEMMA ReapInductive ==
  ASSUME K!ParametersOK, K!ReapInd, [K!Next]_(K!vars)
  PROVE  K!ReapInd'
<1>1. CASE K!Next
  <2>1. CASE K!Engine
    BY <2>1, WalkInd, SignalInd, GraceInd, GraceOverInd, SweepOverInd, RunEndsInd DEF K!Engine
  <2>2. CASE K!Receive
    BY <2>2, EndsInd DEF K!Receive, K!Turns
  <2>3. CASE \E s \in {"int", "term"} : K!Sent(s) \/ K!Receives(s)
    BY <2>3, SignalsInd
  <2>4. CASE \E p \in Procs \cup {K!Me} : K!Fork(p)
    BY <2>4, ForkInd
  <2>5. CASE \E p \in Procs \ Strangers : K!Exit(p) \/ K!Reaped(p) \/ K!Recycle(p) \/ K!Join(p)
    BY <2>5, TableInd, RecycleInd, EngineJoinInd
  <2>6. CASE K!Orphaned \/ K!Joined
    BY <2>6, OrphanedInd, EngineJoinInd
  <2> QED
    BY <1>1, <2>1, <2>2, <2>3, <2>4, <2>5, <2>6 DEF K!Next
<1>2. CASE UNCHANGED K!vars
  <2>1. Moves
    BY <1>2 DEF K!ReapInd, K!TypeOK, K!Apart, K!OwnStays, Moves, K!vars
  <2> QED
    BY <1>2, <2>1, MovesInd DEF K!vars
<1> QED
  BY <1>1, <1>2

\* What the invariant says of the end.
LEMMA ReapConclusion ==
  ASSUME K!ReapInd
  PROVE  K!StrangersSafe /\ K!CommandsStopped /\ K!ForcedWins
<1>1. ASSUME NEW kind \in {"drain", "force"}, K!Ended(kind), NEW p \in base.own, K!Live(p)
      PROVE  K!Told(p)
  <2>1. sweep.kind = kind /\ exit \in {"own", "forced"} /\ K!Reached(p)
    BY <1>1 DEF K!Ended, K!ReapInd, K!OwnReached
  <2>2. sweep # K!NoSweep
    BY <2>1 DEF K!NoSweep
  <2>3. ~sweep.walking /\ sweep.found = {} /\ (sweep.pass = "kill" \/ sweep.asked = {})
    BY <2>1, <2>2 DEF K!ReapInd, K!Places
  <2> QED
    BY <2>1, <2>3 DEF K!Reached
<1>2. K!ForcedWins
  <2>1. exit = "own" => base.kind # "force"
    BY DEF K!ReapInd, K!Places
  <2>2. parked.kind # "force"
    <3>1. parked = K!NoSweep => parked.kind = "none"
      BY SweepIs DEF K!ReapInd
    <3> QED
      BY <3>1 DEF K!ReapInd, K!Places
  <2> QED
    BY <2>1, <2>2 DEF K!ForcedWins
<1> QED
  BY <1>1, <1>2 DEF K!ReapInd, K!CommandsStopped

LEMMA ReapSpec ==
  ASSUME K!ParametersOK
  PROVE  K!Spec => []K!ReapInd
<1>1. K!ReapInd /\ [K!Next]_(K!vars) => K!ReapInd'
  BY ReapInductive
<1> QED
  BY <1>1, ReapInit, PTL DEF K!Spec

\* However the processes fork, exit, are reparented and have their pids recycled while the
\* table is walked: a process that a command of this run did not start is sent a signal
\* only under a pid that changed hands between the walk's list and the signal, or below
\* such a one; where the engine adopts orphans of others too (descendant_pids).
THEOREM OnlyOwnSignalled ==
  ASSUME K!ParametersOK
  PROVE  K!Spec => []K!StrangersSafe
<1>1. K!ReapInd => K!StrangersSafe
  BY DEF K!ReapInd
<1> QED
  BY <1>1, ReapSpec, PTL

\* When a teardown or a forced shutdown is over, each command that was running when it
\* began is dead or the report says that it may not be (stop_commands, report_swept).
THEOREM NoneLeftRunning ==
  ASSUME K!ParametersOK
  PROVE  K!Spec => []K!CommandsStopped
<1>1. K!ReapInd => K!CommandsStopped
  BY ReapConclusion
<1> QED
  BY <1>1, ReapSpec, PTL

\* A run that a forced shutdown cut short never returns its own code from under it
\* (stop_commands_blocking keeps the thread).
THEOREM ForcedShutdownWins ==
  ASSUME K!ParametersOK
  PROVE  K!Spec => []K!ForcedWins
<1>1. K!ReapInd => K!ForcedWins
  BY ReapConclusion
<1> QED
  BY <1>1, ReapSpec, PTL

LEMMA BitsIs == "u+x" \in U!Bits /\ \A m \in FileModes : m \subseteq U!Bits
<1>1. "u+x" \in U!Bits
  BY Zenon DEF U!Bits
<1>2. ASSUME NEW m \in FileModes, NEW b \in m PROVE b \in U!Bits
  BY Zenon, <1>2 DEF U!Bits
<1> QED
  BY <1>1, <1>2

LEMMA UntarIs ==
  ASSUME NEW m \in Seq(U!Members)
  PROVE  U!Untar(m) \subseteq U!Datas
<1>1. ASSUME NEW d \in U!Untar(m) PROVE \E i \in DOMAIN m : d = m[i].data
  BY <1>1 DEF U!Untar
<1>2. \A i \in DOMAIN m : m[i] \in U!Members
  OBVIOUS
<1>3. \A x \in U!Members : x.data \in U!Datas
  BY DEF U!Members
<1> QED
  BY <1>1, <1>2, <1>3

\* A step of u leaves the others their names and their files.
Keeps(u) ==
  /\ \A v \in Updates \ {u} : upd'[v] = upd[v] /\ dir'[v] = dir[v]
  /\ \A i \in DOMAIN file : /\ i \in DOMAIN file'
                            /\ (upd[u].pc \in U!Active /\ upd[u].id = i) \/ file'[i] = file[i]
  /\ first' = first
  /\ dir'[U!Exe] = dir[U!Exe] \/ (upd[u].pc \in U!Active /\ dir'[U!Exe] = upd[u].id)
  /\ disk'[U!Exe] \in {disk[U!Exe], dir[U!Exe]}
  /\ upd'[u].pc \in U!Active => (upd[u].pc \in U!Active /\ upd'[u].id = upd[u].id) \/ upd'[u].id \notin DOMAIN file

LEMMA WholeKept ==
  ASSUME NEW i \in DOMAIN file, U!Whole(i), i \in DOMAIN file', file'[i] = file[i], first' = first
  PROVE  U!Whole(i)'
BY DEF U!Whole

LEMMA OthersKeep ==
  ASSUME U!UpdateInd, NEW u \in Updates, Keeps(u), NEW v \in Updates \ {u}
  PROVE  U!Holds(v)'
<1>1. U!Holds(v) /\ U!Holds(u) /\ upd'[v] = upd[v] /\ dir'[v] = dir[v]
  BY DEF U!UpdateInd, Keeps
<1>2. CASE upd[v].pc \notin U!Active
  BY <1>1, <1>2 DEF U!Holds, U!Active
<1>3. CASE upd[v].pc \in U!Active
  <2>1. PICK i \in DOMAIN file :
          /\ i = upd[v].id /\ i = dir[v] /\ i \notin {1, dir[U!Exe], disk[U!Exe]}
          /\ \A w \in Updates \ {v} : upd[w].pc \in U!Active => upd[w].id # i
    BY <1>1, <1>3 DEF U!Holds
  <2>2. upd[u].pc \in U!Active => upd[u].id # i
    BY <2>1
  <2>3. i \in DOMAIN file' /\ file'[i] = file[i] /\ first' = first
    BY <2>2 DEF Keeps
  <2>4. i \notin {1, dir'[U!Exe], disk'[U!Exe]}
    BY <2>1, <2>2 DEF Keeps
  <2>5. ASSUME NEW w \in Updates \ {v}, upd'[w].pc \in U!Active PROVE upd'[w].id # i
    <3>1. CASE w = u
      BY <2>1, <2>2, <2>5, <3>1 DEF Keeps
    <3>2. CASE w # u
      BY <2>1, <2>5, <3>2 DEF Keeps
    <3> QED
      BY <3>1, <3>2
  <2>6. U!Whole(i) => U!Whole(i)'
    BY <2>3, WholeKept
  <2>7. upd'[v].id = i /\ dir'[v] = i
    BY <1>1, <2>1
  <2>8. /\ upd'[v].pc = "publish" => U!Whole(i)'
        /\ upd'[v].pc \in {"smoke", "publish"} => file'[i].synced
    BY <1>1, <2>1, <2>3, <2>6 DEF U!Holds
  <2>9. upd'[v].pc = "publish" => U!Whole(upd[v].id)'
    BY <2>7, <2>8
  <2>10. /\ upd'[v].pc \in U!Active /\ upd'[v].exit = "none" /\ upd'[v].to \in Releases
         /\ upd'[v].pc \notin {"plan", "confirm", "create", "published", "over"}
    BY <1>1, <1>3 DEF U!Holds, U!Active
  <2> QED
    BY <2>3, <2>4, <2>5, <2>7, <2>8, <2>9, <2>10 DEF U!Holds
<1> QED
  BY <1>2, <1>3

LEMMA UpdateInit ==
  ASSUME U!ParametersOK, U!Init
  PROVE  U!UpdateInd
<1> USE DEF U!Init
<1>1. PICK f : /\ file = <<f>> /\ f = [U!Original EXCEPT !.mode = first]
  OBVIOUS
<1>2. f = [data |-> [build |-> Current, runs |-> TRUE, whole |-> TRUE], mode |-> first, synced |-> TRUE]
  BY <1>1 DEF U!Original
<1>3. file \in Seq(U!Inodes)
  <2>1. f \in U!Inodes
    BY <1>2 DEF U!Inodes, U!Datas, U!ParametersOK, U!Bits
  <2> QED
    BY <1>1, <2>1
<1>4. dir \in [U!Names -> Nat] /\ disk = dir /\ dir[U!Exe] = 1
  BY DEF U!Names
<1>5. \A u \in Updates : upd[u] = [pc |-> "plan", to |-> U!NoRelease, body |-> <<>>, id |-> 0, exit |-> "none"]
  OBVIOUS
<1>6. U!TypeOK
  BY <1>3, <1>4 DEF U!TypeOK, U!States
<1>7. U!Whole(1)
  <2>1. DOMAIN file = {1} /\ file[1] = f
    BY <1>1
  <2> QED
    BY <1>2, <2>1 DEF U!Whole
<1>8. \A u \in Updates : U!Holds(u)
  BY <1>5 DEF U!Holds, U!Active
<1> QED
  BY <1>4, <1>6, <1>7, <1>8 DEF U!UpdateInd

\* A step of u that writes no file and renames none.
LEMMA UpdOnly ==
  ASSUME U!ParametersOK, U!UpdateInd, NEW u \in Updates, U!TypeOK', U!Holds(u)', UNCHANGED <<file, dir, first>>,
         disk' \in {dir, disk},
         \A v \in Updates \ {u} : upd'[v] = upd[v],
         upd'[u].pc \in U!Active => upd[u].pc \in U!Active /\ upd'[u].id = upd[u].id
  PROVE  U!UpdateInd'
<1>1. Keeps(u)
  BY DEF Keeps, U!ParametersOK
<1>2. \A v \in Updates \ {u} : U!Holds(v)'
  BY <1>1, OthersKeep
<1>3. U!Whole(dir[U!Exe])' /\ U!Whole(disk[U!Exe])'
  BY DEF U!UpdateInd, U!Whole
<1> QED
  BY <1>2, <1>3 DEF U!UpdateInd

\* Every step of u changes its own record only.
LEMMA UpdStep ==
  ASSUME U!TypeOK, NEW u \in Updates, NEW r \in U!States, upd' = [upd EXCEPT ![u] = r]
  PROVE  upd'[u] = r /\ upd' \in [Updates -> U!States] /\ \A v \in Updates \ {u} : upd'[v] = upd[v]
BY DEF U!TypeOK

LEMMA GoesIs ==
  ASSUME U!TypeOK, NEW u \in Updates, NEW place \in {"create", "smoke", "publish", "published"}
  PROVE  /\ U!Goes(u, place) = [upd EXCEPT ![u] = [upd[u] EXCEPT !.pc = place]]
         /\ [upd[u] EXCEPT !.pc = place] \in U!States
         /\ [upd[u] EXCEPT !.pc = place] = [pc |-> place, to |-> upd[u].to, body |-> upd[u].body,
                                         id |-> upd[u].id, exit |-> upd[u].exit]
<1>1. upd[u] \in U!States /\ u \in DOMAIN upd
  BY DEF U!TypeOK
<1> QED
  BY <1>1 DEF U!Goes, U!States, U!Active

LEMMA ExitsIs ==
  ASSUME U!TypeOK, NEW u \in Updates, NEW rc \in {"0", "1", "2", "killed"}
  PROVE  \E s \in U!States : /\ U!Exits(u, rc) = [upd EXCEPT ![u] = s]
                             /\ s.pc = "over" /\ s.exit = rc /\ s.id = upd[u].id
<1>1. upd[u] \in U!States /\ u \in DOMAIN upd
  BY DEF U!TypeOK
<1>2. PICK s : s = [upd[u] EXCEPT !.pc = "over", !.exit = rc]
  OBVIOUS
<1>3. s \in U!States /\ s.pc = "over" /\ s.exit = rc /\ s.id = upd[u].id
  BY <1>1, <1>2 DEF U!States
<1>4. U!Exits(u, rc) = [upd EXCEPT ![u] = s]
  BY <1>1, <1>2 DEF U!Exits
<1> QED
  BY <1>3, <1>4

\* An update that ends without having changed a file or a name.
LEMMA ExitsInd ==
  ASSUME U!ParametersOK, U!UpdateInd, NEW u \in Updates, NEW rc \in {"0", "1", "2", "killed"},
         upd' = U!Exits(u, rc), UNCHANGED <<file, dir, first>>, disk' \in {dir, disk}
  PROVE  U!UpdateInd'
<1>0. U!TypeOK
  BY DEF U!UpdateInd
<1>1. /\ upd'[u].pc = "over" /\ upd' \in [Updates -> U!States]
      /\ \A v \in Updates \ {u} : upd'[v] = upd[v]
  BY <1>0, ExitsIs, UpdStep
<1>2. U!TypeOK'
  BY <1>0, <1>1 DEF U!TypeOK
<1>3. U!Holds(u)'
  BY <1>1 DEF U!Holds, U!Active
<1> QED
  BY <1>1, <1>2, <1>3, UpdOnly DEF U!Active

LEMMA FailsInd ==
  ASSUME U!ParametersOK, U!UpdateInd, NEW u \in Updates, upd[u].pc \in U!Active, U!Fails(u), UNCHANGED <<disk, first>>
  PROVE  U!UpdateInd'
<1>0. U!TypeOK /\ U!Exe # u /\ u \in U!Names /\ U!Exe \in U!Names
  BY DEF U!UpdateInd, U!ParametersOK, U!Names
<1>1. upd' = U!Exits(u, "2") /\ dir' \in {dir, [dir EXCEPT ![u] = 0]} /\ file' = file
  BY DEF U!Fails, U!TmpName
<1>2. /\ upd'[u].pc = "over" /\ upd' \in [Updates -> U!States]
      /\ \A v \in Updates \ {u} : upd'[v] = upd[v]
  BY <1>0, <1>1, ExitsIs, UpdStep
<1>3. U!TypeOK'
  BY <1>0, <1>1, <1>2 DEF U!TypeOK
<1>4. dir'[U!Exe] = dir[U!Exe] /\ \A v \in Updates \ {u} : dir'[v] = dir[v]
  BY <1>0, <1>1 DEF U!TypeOK, U!Names
<1>5. Keeps(u)
  BY <1>1, <1>2, <1>4 DEF Keeps, U!Active
<1>6. U!Holds(u)'
  BY <1>2 DEF U!Holds, U!Active
<1>7. U!Whole(dir[U!Exe])' /\ U!Whole(disk[U!Exe])'
  BY <1>1, <1>4 DEF U!UpdateInd, U!Whole
<1> QED
  BY <1>3, <1>5, <1>6, <1>7, OthersKeep DEF U!UpdateInd

LEMMA PlanInd ==
  ASSUME U!ParametersOK, U!UpdateInd, NEW u \in Updates, U!Plan(u) \/ U!Confirm(u) \/ U!Killed(u) \/ U!SyncDir(u)
  PROVE  U!UpdateInd'
<1>0. U!TypeOK /\ U!Holds(u) /\ upd[u] \in U!States /\ u \in DOMAIN upd
  BY DEF U!UpdateInd, U!TypeOK
<1>1. CASE \E rc \in {"0", "1", "2", "killed"} : upd' = U!Exits(u, rc)
  <2>1. UNCHANGED <<file, dir, first>> /\ disk' \in {dir, disk}
    BY DEF U!Plan, U!Confirm, U!Killed, U!SyncDir
  <2> QED
    BY <1>1, <2>1, ExitsInd
<1>2. ASSUME NEW r \in Releases, upd[u].pc = "plan", upd' = [upd EXCEPT ![u].pc = "confirm", ![u].to = r],
             UNCHANGED <<file, dir, disk, first>>
      PROVE  U!UpdateInd'
  <2>1. PICK s : s = [upd[u] EXCEPT !.pc = "confirm", !.to = r]
    OBVIOUS
  <2>2. upd' = [upd EXCEPT ![u] = s]
    BY <1>0, <1>2, <2>1
  <2>3. s \in U!States /\ s.pc = "confirm" /\ s.to = r /\ s.id = upd[u].id /\ s.exit = upd[u].exit
    BY <1>0, <2>1 DEF U!States
  <2>4. /\ upd'[u] = s /\ upd' \in [Updates -> U!States]
        /\ \A v \in Updates \ {u} : upd'[v] = upd[v]
    BY <1>0, <2>2, <2>3, UpdStep
  <2>5. U!TypeOK'
    BY <1>0, <1>2, <2>4 DEF U!TypeOK
  <2>6. U!Holds(u)'
    BY <1>0, <1>2, <2>3, <2>4 DEF U!Holds, U!Active
  <2> QED
    BY <1>2, <2>3, <2>4, <2>5, <2>6, UpdOnly DEF U!Active
<1>3. ASSUME upd[u].pc = "confirm", upd' = U!Goes(u, "create"), UNCHANGED <<file, dir, disk, first>>
      PROVE  U!UpdateInd'
  <2>1. PICK s : s = [upd[u] EXCEPT !.pc = "create"]
    OBVIOUS
  <2>2. upd' = [upd EXCEPT ![u] = s]
    BY <1>0, <1>3, <2>1, GoesIs
  <2>3. s \in U!States /\ s.pc = "create" /\ s.to = upd[u].to /\ s.id = upd[u].id /\ s.exit = upd[u].exit
    BY <1>0, <2>1 DEF U!States
  <2>4. /\ upd'[u] = s /\ upd' \in [Updates -> U!States]
        /\ \A v \in Updates \ {u} : upd'[v] = upd[v]
    BY <1>0, <2>2, <2>3, UpdStep
  <2>5. U!TypeOK'
    BY <1>0, <1>3, <2>4 DEF U!TypeOK
  <2>6. U!Holds(u)'
    BY <1>0, <1>3, <2>3, <2>4 DEF U!Holds, U!Active
  <2> QED
    BY <1>3, <2>3, <2>4, <2>5, <2>6, UpdOnly DEF U!Active
<1>4. CASE U!Plan(u)
  <2>1. CASE upd' = U!Exits(u, "2")
    BY <1>1, <1>4, <2>1
  <2>2. ASSUME NEW r \in Releases, NEW check \in BOOLEAN,
          upd' = IF check THEN U!Exits(u, IF U!Step(r.tag) = "newer" THEN "1" ELSE "0")
                 ELSE IF U!Step(r.tag) = "same" \/ r.size > MaxAsset
                 THEN U!Exits(u, IF U!Step(r.tag) = "same" THEN "0" ELSE "2")
                 ELSE [upd EXCEPT ![u].pc = "confirm", ![u].to = r]
        PROVE U!UpdateInd'
    <3>1. (\E rc \in {"0", "1", "2", "killed"} : upd' = U!Exits(u, rc)) \/ upd' = [upd EXCEPT ![u].pc = "confirm", ![u].to = r]
      BY <2>2
    <3> QED
      BY <1>1, <1>2, <1>4, <3>1 DEF U!Plan, U!At
  <2> QED
    BY <1>4, <2>1, <2>2 DEF U!Plan
<1>5. CASE U!Confirm(u)
  BY <1>1, <1>3, <1>5 DEF U!Confirm, U!At
<1>6. CASE U!Killed(u) \/ U!SyncDir(u)
  BY <1>1, <1>6 DEF U!Killed, U!SyncDir
<1> QED
  BY <1>4, <1>5, <1>6

LEMMA CreateInd ==
  ASSUME U!ParametersOK, U!UpdateInd, NEW u \in Updates, U!CreateTmp(u)
  PROVE  U!UpdateInd'
<1>0. /\ U!TypeOK /\ U!Holds(u) /\ upd[u] \in U!States /\ u \in DOMAIN upd
      /\ U!Exe # u /\ u \in U!Names /\ U!Exe \in U!Names
  BY DEF U!UpdateInd, U!TypeOK, U!ParametersOK, U!Names
<1>1. upd[u].pc = "create" /\ UNCHANGED <<disk, first>>
  BY DEF U!CreateTmp, U!At
<1>2. CASE dir[U!Exe] = 0 \/ dir[u] # 0
  BY <1>1, <1>2, ExitsInd DEF U!CreateTmp, U!TmpName
<1>3. CASE ~(dir[U!Exe] = 0 \/ dir[u] # 0)
  <2>1. PICK f, n : /\ f = [data |-> [build |-> <<>>, runs |-> FALSE, whole |-> FALSE],
                             mode |-> {}, synced |-> TRUE]
                    /\ n = Len(file) + 1
    OBVIOUS
  <2>2. /\ file' = Append(file, f) /\ dir' = [dir EXCEPT ![u] = n]
        /\ upd' = [upd EXCEPT ![u].pc = "download", ![u].id = n]
    BY <1>3, <2>1 DEF U!CreateTmp, U!TmpName
  <2>3. f \in U!Inodes
    BY <2>1 DEF U!Inodes, U!Datas
  <2>4. file \in Seq(U!Inodes)
    BY <1>0 DEF U!TypeOK
  <2>5. /\ file' \in Seq(U!Inodes) /\ n \in Nat /\ n \in DOMAIN file' /\ n \notin DOMAIN file
        /\ \A i \in DOMAIN file : i \in DOMAIN file' /\ file'[i] = file[i]
    BY <2>1, <2>2, <2>3, <2>4
  <2>6. PICK s : s = [upd[u] EXCEPT !.pc = "download", !.id = n]
    OBVIOUS
  <2>7. upd' = [upd EXCEPT ![u] = s]
    BY <1>0, <2>2, <2>6
  <2>8. s \in U!States /\ s.pc = "download" /\ s.to = upd[u].to /\ s.id = n /\ s.exit = upd[u].exit
    BY <1>0, <2>5, <2>6 DEF U!States, U!Active
  <2>9. /\ upd'[u] = s /\ upd' \in [Updates -> U!States]
        /\ \A v \in Updates \ {u} : upd'[v] = upd[v]
    BY <1>0, <2>7, <2>8, UpdStep
  <2>10. /\ dir' \in [U!Names -> Nat] /\ dir'[u] = n /\ dir'[U!Exe] = dir[U!Exe]
         /\ \A v \in Updates \ {u} : dir'[v] = dir[v]
    BY <1>0, <2>2, <2>5 DEF U!TypeOK, U!Names
  <2>11. U!TypeOK'
    BY <1>0, <1>1, <2>5, <2>9, <2>10 DEF U!TypeOK
  <2>12. Keeps(u)
    BY <1>1, <2>5, <2>8, <2>9, <2>10 DEF Keeps
  <2>13. dir[U!Exe] \in DOMAIN file /\ disk[U!Exe] \in DOMAIN file /\ U!Whole(dir[U!Exe]) /\ U!Whole(disk[U!Exe])
    BY DEF U!UpdateInd, U!Whole
  <2>14. U!Whole(dir[U!Exe])' /\ U!Whole(disk[U!Exe])'
    BY <1>1, <2>5, <2>10, <2>13 DEF U!Whole
  <2>15. n # 1
    BY <2>1, <2>4, <2>13
  <2>16. \A v \in Updates \ {u} : upd[v].pc \in U!Active => upd[v].id # n
    BY <2>5 DEF U!UpdateInd, U!Holds
  <2>17. U!Holds(u)'
    <3>1. upd[u].to \in Releases /\ upd[u].exit = "none"
      BY <1>0, <1>1 DEF U!Holds
    <3> QED
      BY <1>1, <2>5, <2>8, <2>9, <2>10, <2>13, <2>15, <2>16, <3>1 DEF U!Holds, U!Active
  <2> QED
    BY <2>11, <2>12, <2>14, <2>17, OthersKeep DEF U!UpdateInd
<1> QED
  BY <1>2, <1>3

\* An active update that writes its own file, or no file, and stays active.
LEMMA WritesInd ==
  ASSUME U!ParametersOK, U!UpdateInd, NEW u \in Updates, upd[u].pc \in U!Active, UNCHANGED <<dir, disk, first>>,
         NEW s \in U!States, upd' = [upd EXCEPT ![u] = s],
         s.pc \in U!Active, s.to = upd[u].to, s.id = upd[u].id, s.exit = upd[u].exit,
         NEW f \in U!Inodes, file' = [file EXCEPT ![upd[u].id] = f],
         s.pc \in {"smoke", "publish"} => f.synced,
         s.pc = "publish" => /\ f.data.whole /\ f.data.runs /\ f.data.build = upd[u].to.tag
                             /\ f.mode \subseteq first \cup {"u+x"}
                             /\ f.mode \cap {"suid", "g+w", "o+w"} = {}
  PROVE  U!UpdateInd'
<1>1. U!TypeOK /\ U!Holds(u) /\ file \in Seq(U!Inodes)
  BY DEF U!UpdateInd, U!TypeOK
<1>2. PICK n \in DOMAIN file :
        /\ n = upd[u].id /\ n = dir[u] /\ n \notin {1, dir[U!Exe], disk[U!Exe]}
        /\ \A v \in Updates \ {u} : upd[v].pc \in U!Active => upd[v].id # n
  BY <1>1 DEF U!Holds
<1>3. /\ file' \in Seq(U!Inodes) /\ DOMAIN file' = DOMAIN file /\ file'[n] = f
      /\ \A i \in DOMAIN file : i # n => file'[i] = file[i]
  BY <1>1, <1>2
<1>4. /\ upd'[u] = s /\ upd' \in [Updates -> U!States]
      /\ \A v \in Updates \ {u} : upd'[v] = upd[v]
  BY <1>1, UpdStep
<1>5. U!TypeOK'
  BY <1>1, <1>3, <1>4 DEF U!TypeOK
<1>6. Keeps(u)
  BY <1>2, <1>3, <1>4 DEF Keeps
<1>7. dir[U!Exe] \in DOMAIN file /\ disk[U!Exe] \in DOMAIN file /\ U!Whole(dir[U!Exe]) /\ U!Whole(disk[U!Exe])
  BY DEF U!UpdateInd, U!Whole
<1>8. U!Whole(dir[U!Exe])' /\ U!Whole(disk[U!Exe])'
  BY <1>2, <1>3, <1>7 DEF U!Whole
<1>9. upd[u].to \in Releases /\ upd[u].exit = "none"
  BY <1>1 DEF U!Holds, U!Active
<1>10. s.pc = "publish" => U!Whole(n)'
  BY <1>2, <1>3, <1>9 DEF U!Whole
<1>11. upd'[u].pc = "publish" => U!Whole(upd[u].id)'
  BY <1>2, <1>4, <1>10
<1>12. U!Holds(u)'
  <2>1. s.pc \notin {"plan", "confirm", "create", "published", "over"}
    BY DEF U!Active
  <2>2. \A v \in Updates \ {u} : upd'[v].pc \in U!Active => upd'[v].id # n
    BY <1>2, <1>4
  <2> QED
    BY <1>2, <1>3, <1>4, <1>9, <1>11, <2>1, <2>2 DEF U!Holds
<1> QED
  BY <1>5, <1>6, <1>8, <1>12, OthersKeep DEF U!UpdateInd

LEMMA DownloadInd ==
  ASSUME U!ParametersOK, U!UpdateInd, NEW u \in Updates, U!Download(u)
  PROVE  U!UpdateInd'
<1>0. U!TypeOK /\ U!Holds(u) /\ upd[u] \in U!States /\ u \in DOMAIN upd
  BY DEF U!UpdateInd, U!TypeOK
<1>1. upd[u].pc = "download" /\ upd[u].pc \in U!Active /\ UNCHANGED <<disk, first>>
  BY DEF U!Download, U!At, U!Active
<1>2. CASE U!Fails(u)
  BY <1>1, <1>2, FailsInd
<1>3. CASE ~U!Fails(u)
  <2>1. upd' = [upd EXCEPT ![u].pc = "extract", ![u].body = upd[u].to.served.members] /\ UNCHANGED <<file, dir>>
    BY <1>3 DEF U!Download
  <2>2. upd[u].to \in Releases /\ upd[u].id \in DOMAIN file
    BY <1>0, <1>1 DEF U!Holds
  <2>3. PICK s : s = [upd[u] EXCEPT !.pc = "extract", !.body = upd[u].to.served.members]
    OBVIOUS
  <2>4. upd' = [upd EXCEPT ![u] = s]
    BY <1>0, <2>1, <2>3
  <2>5. upd[u].to.served.members \in Seq(U!Members)
    BY <2>2 DEF U!ParametersOK
  <2>6. /\ s \in U!States /\ s.pc = "extract" /\ s.to = upd[u].to /\ s.id = upd[u].id /\ s.exit = upd[u].exit
        /\ s.pc \in U!Active
    BY <1>0, <2>3, <2>5 DEF U!States, U!Active
  <2>7. PICK f \in U!Inodes : f = file[upd[u].id]
    BY <1>0, <2>2 DEF U!TypeOK
  <2>8. file' = [file EXCEPT ![upd[u].id] = f]
    BY <1>0, <2>1, <2>2, <2>7 DEF U!TypeOK
  <2> QED
    BY <1>1, <2>1, <2>4, <2>6, <2>8, WritesInd
<1> QED
  BY <1>2, <1>3

LEMMA ExtractInd ==
  ASSUME U!ParametersOK, U!UpdateInd, NEW u \in Updates, U!Extract(u)
  PROVE  U!UpdateInd'
<1>0. U!TypeOK /\ U!Holds(u) /\ upd[u] \in U!States /\ u \in DOMAIN upd
  BY DEF U!UpdateInd, U!TypeOK
<1>1. upd[u].pc = "extract" /\ upd[u].pc \in U!Active /\ UNCHANGED <<disk, first>>
  BY DEF U!Extract, U!At, U!Active
<1>2. CASE U!Fails(u)
  BY <1>1, <1>2, FailsInd
<1>3. CASE ~U!Fails(u)
  <2>1. PICK data \in U!Untar(upd[u].body) :
          /\ file' = [file EXCEPT ![upd[u].id] = [data |-> data, mode |-> {"u+x"}, synced |-> FALSE]]
          /\ upd' = [upd EXCEPT ![u].pc = "sync", ![u].body = <<>>] /\ UNCHANGED dir
    BY <1>3 DEF U!Extract
  <2>2. data \in U!Datas
    <3>1. upd[u].body \in Seq(U!Members)
      BY <1>0 DEF U!States
    <3> QED
      BY <3>1, UntarIs
  <2>3. PICK f \in U!Inodes : f = [data |-> data, mode |-> {"u+x"}, synced |-> FALSE] 
    <3>1. {"u+x"} \in SUBSET U!Bits
      BY BitsIs
    <3>2. [data |-> data, mode |-> {"u+x"}, synced |-> FALSE] \in U!Inodes
      BY <2>2, <3>1 DEF U!Inodes
    <3> QED
      BY <3>2
  <2>4. PICK s : s = [upd[u] EXCEPT !.pc = "sync", !.body = <<>>]
    OBVIOUS
  <2>5. upd' = [upd EXCEPT ![u] = s]
    BY <1>0, <2>1, <2>4
  <2>6. /\ s \in U!States /\ s.pc = "sync" /\ s.to = upd[u].to /\ s.id = upd[u].id /\ s.exit = upd[u].exit
        /\ s.pc \in U!Active
    <3>1. <<>> \in Seq(U!Members)
      OBVIOUS
    <3> QED
      BY <1>0, <2>4, <3>1 DEF U!States, U!Active
  <2> QED
    BY <1>1, <2>1, <2>3, <2>5, <2>6, WritesInd
<1> QED
  BY <1>2, <1>3

LEMMA SyncFileInd ==
  ASSUME U!ParametersOK, U!UpdateInd, NEW u \in Updates, U!SyncFile(u)
  PROVE  U!UpdateInd'
<1>0. U!TypeOK /\ U!Holds(u) /\ upd[u] \in U!States /\ u \in DOMAIN upd
  BY DEF U!UpdateInd, U!TypeOK
<1>1. upd[u].pc = "sync" /\ upd[u].pc \in U!Active /\ UNCHANGED <<disk, first>>
  BY DEF U!SyncFile, U!At, U!Active
<1>2. CASE U!Fails(u)
  BY <1>1, <1>2, FailsInd
<1>3. CASE ~U!Fails(u)
  <2>1. /\ file' = [file EXCEPT ![upd[u].id] = U!Synced(file[upd[u].id])]
        /\ upd' = U!Goes(u, "smoke") /\ UNCHANGED dir
    BY <1>0, <1>3 DEF U!SyncFile, U!TypeOK
  <2>2. file[upd[u].id] \in U!Inodes
    BY <1>0, <1>1 DEF U!Holds, U!TypeOK
  <2>3. PICK f \in U!Inodes : f = U!Synced(file[upd[u].id]) /\ f.synced
    <3>1. \A g \in U!Inodes : U!Synced(g) \in U!Inodes /\ U!Synced(g).synced
      BY DEF U!Inodes, U!Synced
    <3> QED
      BY <2>2, <3>1
  <2>4. PICK s : s = [upd[u] EXCEPT !.pc = "smoke"]
    OBVIOUS
  <2>5. upd' = [upd EXCEPT ![u] = s]
    BY <1>0, <2>1, <2>4, GoesIs
  <2>6. /\ s \in U!States /\ s.pc = "smoke" /\ s.to = upd[u].to /\ s.id = upd[u].id /\ s.exit = upd[u].exit
        /\ s.pc \in U!Active
    BY <1>0, <2>4 DEF U!States, U!Active
  <2> QED
    BY <1>1, <2>1, <2>3, <2>5, <2>6, WritesInd
<1> QED
  BY <1>2, <1>3

\* What was tried and given its mode may be installed.
LEMMA SmokeInd ==
  ASSUME U!ParametersOK, U!UpdateInd, NEW u \in Updates, U!Smoke(u)
  PROVE  U!UpdateInd'
<1>0. U!TypeOK /\ U!Holds(u) /\ upd[u] \in U!States /\ u \in DOMAIN upd /\ U!Whole(dir[U!Exe])
  BY DEF U!UpdateInd, U!TypeOK
<1>1. upd[u].pc = "smoke" /\ upd[u].pc \in U!Active /\ UNCHANGED <<disk, first>>
  BY DEF U!Smoke, U!At, U!Active
<1>2. CASE U!Fails(u)
  BY <1>1, <1>2, FailsInd
<1>3. CASE ~U!Fails(u)
  <2>1. PICK m : m = IF dir[U!Exe] = 0 THEN {"u+x"} ELSE U!ModeOf(file[dir[U!Exe]].mode)
    OBVIOUS
  <2>2. /\ file' = [file EXCEPT ![upd[u].id].mode = m]
        /\ U!SmokeTest(file[upd[u].id].data, upd[u].to.tag)
        /\ upd' = U!Goes(u, "publish") /\ UNCHANGED dir
    BY <1>3, <2>1 DEF U!Smoke
  <2>3. m \in SUBSET U!Bits /\ m \subseteq first \cup {"u+x"} /\ m \cap {"suid", "g+w", "o+w"} = {}
    <3>1. first \subseteq U!Bits /\ "u+x" \in U!Bits
      <4>1. first \in FileModes
        BY <1>0 DEF U!TypeOK
      <4> QED
        BY <4>1, BitsIs
    <3>2. file[dir[U!Exe]].mode \subseteq first \cup {"u+x"}
      BY <1>0 DEF U!Whole
    <3> QED
      BY <2>1, <3>1, <3>2 DEF U!ModeOf
  <2>4. file[upd[u].id] \in U!Inodes /\ file[upd[u].id].synced /\ upd[u].id \in DOMAIN file
    BY <1>0, <1>1 DEF U!Holds, U!TypeOK
  <2>5. PICK f : f = [file[upd[u].id] EXCEPT !.mode = m]
    OBVIOUS
  <2>6. f \in U!Inodes /\ f.synced /\ f.mode = m /\ f.data = file[upd[u].id].data
    BY <2>3, <2>4, <2>5 DEF U!Inodes
  <2>7. file' = [file EXCEPT ![upd[u].id] = f]
    BY <1>0, <2>2, <2>4, <2>5 DEF U!TypeOK
  <2>8. f.data.whole /\ f.data.runs /\ f.data.build = upd[u].to.tag
    BY <2>2, <2>6 DEF U!SmokeTest
  <2>9. PICK s : s = [upd[u] EXCEPT !.pc = "publish"]
    OBVIOUS
  <2>10. upd' = [upd EXCEPT ![u] = s]
    BY <1>0, <2>2, <2>9, GoesIs
  <2>11. /\ s \in U!States /\ s.pc = "publish" /\ s.to = upd[u].to /\ s.id = upd[u].id /\ s.exit = upd[u].exit
         /\ s.pc \in U!Active
    BY <1>0, <2>9 DEF U!States, U!Active
  <2> QED
    BY <1>1, <2>2, <2>3, <2>6, <2>7, <2>8, <2>10, <2>11, WritesInd
<1> QED
  BY <1>2, <1>3

LEMMA PublishInd ==
  ASSUME U!ParametersOK, U!UpdateInd, NEW u \in Updates, U!Publish(u)
  PROVE  U!UpdateInd'
<1>0. /\ U!TypeOK /\ U!Holds(u) /\ upd[u] \in U!States /\ u \in DOMAIN upd
      /\ U!Exe # u /\ u \in U!Names /\ U!Exe \in U!Names
  BY DEF U!UpdateInd, U!TypeOK, U!ParametersOK, U!Names
<1>1. upd[u].pc = "publish" /\ upd[u].pc \in U!Active /\ UNCHANGED <<disk, first>>
  BY DEF U!Publish, U!At, U!Active
<1>2. CASE U!Fails(u)
  BY <1>1, <1>2, FailsInd
<1>3. CASE ~U!Fails(u)
  <2>1. PICK n \in DOMAIN file : n = dir[u] /\ n = upd[u].id /\ U!Whole(n)
    BY <1>0, <1>1 DEF U!Holds
  <2>2. dir' = [dir EXCEPT ![U!Exe] = n, ![u] = 0] /\ upd' = U!Goes(u, "published") /\ UNCHANGED file
    BY <1>3, <2>1 DEF U!Publish, U!TmpName
  <2>3. PICK s : s = [upd[u] EXCEPT !.pc = "published"]
    OBVIOUS
  <2>4. upd' = [upd EXCEPT ![u] = s]
    BY <1>0, <2>2, <2>3, GoesIs
  <2>5. s \in U!States /\ s.pc = "published" /\ s.exit = upd[u].exit
    BY <1>0, <2>3 DEF U!States
  <2>6. /\ upd'[u] = s /\ upd' \in [Updates -> U!States]
        /\ \A v \in Updates \ {u} : upd'[v] = upd[v]
    BY <1>0, <2>4, <2>5, UpdStep
  <2>7. n \in Nat
    BY <1>0, <2>1 DEF U!TypeOK
  <2>8. /\ dir' \in [U!Names -> Nat] /\ dir'[U!Exe] = n /\ dir'[u] = 0
        /\ \A v \in Updates \ {u} : dir'[v] = dir[v]
    <3>1. \A v \in Updates : v \in U!Names /\ v # U!Exe
      BY DEF U!ParametersOK, U!Names
    <3> QED
      BY <1>0, <2>2, <2>7, <3>1 DEF U!TypeOK
  <2>9. U!TypeOK'
    BY <1>0, <1>1, <2>2, <2>6, <2>8 DEF U!TypeOK
  <2>10. Keeps(u)
    BY <1>1, <2>1, <2>2, <2>5, <2>6, <2>8 DEF Keeps, U!Active
  <2>11. U!Whole(dir[U!Exe])' /\ U!Whole(disk[U!Exe])'
    BY <1>1, <2>1, <2>2, <2>8 DEF U!UpdateInd, U!Whole
  <2>12. U!Holds(u)'
    BY <1>0, <1>1, <2>5, <2>6, <2>8 DEF U!Holds, U!Active
  <2> QED
    BY <2>9, <2>10, <2>11, <2>12, OthersKeep DEF U!UpdateInd
<1> QED
  BY <1>2, <1>3

LEMMA CrashInd ==
  ASSUME U!ParametersOK, U!UpdateInd, U!Crash
  PROVE  U!UpdateInd'
<1>0. U!TypeOK /\ U!Whole(dir[U!Exe]) /\ U!Whole(disk[U!Exe]) /\ file \in Seq(U!Inodes)
  BY DEF U!UpdateInd, U!TypeOK
<1>1. PICK kept \in BOOLEAN :
       file' = [i \in DOMAIN file |->
                  IF file[i].synced \/ kept THEN [file[i] EXCEPT !.synced = TRUE]
                  ELSE [file[i] EXCEPT !.synced = TRUE, !.data.whole = FALSE]]
  BY DEF U!Crash
<1>2. \A i \in DOMAIN file : file[i] \in U!Inodes
  BY <1>0
<1>3. \A f \in U!Inodes : /\ [f EXCEPT !.synced = TRUE] \in U!Inodes
                          /\ [f EXCEPT !.synced = TRUE, !.data.whole = FALSE] \in U!Inodes
                          /\ [f EXCEPT !.synced = TRUE].synced
                          /\ [f EXCEPT !.synced = TRUE].data = f.data
                          /\ [f EXCEPT !.synced = TRUE].mode = f.mode
  BY DEF U!Inodes, U!Datas
<1>4. \A i \in DOMAIN file : file'[i] \in U!Inodes /\ (file[i].synced => file'[i] = [file[i] EXCEPT !.synced = TRUE])
  BY <1>1, <1>2, <1>3
<1>5. file' \in Seq(U!Inodes) /\ DOMAIN file' = DOMAIN file
  <2>1. DOMAIN file = 1 .. Len(file) /\ Len(file) \in Nat
    BY <1>0
  <2>2. file' \in [1 .. Len(file) -> U!Inodes]
    BY <1>1, <1>4, <2>1
  <2>3. file' \in UNION {[1 .. n -> U!Inodes] : n \in Nat}
    BY <2>1, <2>2
  <2>4. Seq(U!Inodes) = UNION {[1 .. n -> U!Inodes] : n \in Nat}
    BY SeqDef
  <2> QED
    BY <1>1, <2>3, <2>4
<1>6. first' = first /\ dir' \in {dir, disk} /\ disk' = dir'
  BY DEF U!Crash
<1>7. ASSUME NEW i \in DOMAIN file, U!Whole(i) PROVE U!Whole(i)'
  <2>1. file[i].synced /\ file[i] \in U!Inodes
    BY <1>2, <1>7 DEF U!Whole
  <2>2. file'[i].synced /\ file'[i].data = file[i].data /\ file'[i].mode = file[i].mode
    BY <1>3, <1>4, <2>1
  <2> QED
    BY <1>5, <1>6, <1>7, <2>2 DEF U!Whole
<1>8. PICK n \in DOMAIN file : n = dir'[U!Exe] /\ n = disk'[U!Exe] /\ U!Whole(n)
  BY <1>0, <1>6 DEF U!Whole
<1>9. U!Whole(dir[U!Exe])' /\ U!Whole(disk[U!Exe])'
  <2>1. U!Whole(n)'
    BY <1>7, <1>8
  <2> QED
    BY <1>8, <2>1
<1>10. \A u \in Updates : upd'[u] = [upd[u] EXCEPT !.pc = "over", !.exit = "killed"]
  BY DEF U!Crash
<1>11. upd' \in [Updates -> U!States] /\ \A u \in Updates : upd'[u].pc = "over"
  <2>1. \A s \in U!States : /\ [s EXCEPT !.pc = "over", !.exit = "killed"] \in U!States
                            /\ [s EXCEPT !.pc = "over", !.exit = "killed"].pc = "over"
    BY DEF U!States
  <2> QED
    BY <1>0, <1>10, <2>1 DEF U!Crash, U!TypeOK
<1>12. U!TypeOK'
  BY <1>0, <1>5, <1>6, <1>11 DEF U!TypeOK
<1>13. \A u \in Updates : U!Holds(u)'
  BY <1>11 DEF U!Holds, U!Active
<1> QED
  BY <1>9, <1>12, <1>13 DEF U!UpdateInd

LEMMA UpdateInductive ==
  ASSUME U!ParametersOK, U!UpdateInd, [U!Next]_(U!vars)
  PROVE  U!UpdateInd'
<1>1. CASE UNCHANGED U!vars
  BY <1>1 DEF U!UpdateInd, U!TypeOK, U!Whole, U!Holds, U!vars
<1>2. CASE U!Next
  BY <1>2, PlanInd, CreateInd, DownloadInd, ExtractInd, SyncFileInd, SmokeInd, PublishInd, CrashInd DEF U!Next
<1> QED
  BY <1>1, <1>2

LEMMA UpdateInstalled ==
  ASSUME U!UpdateInd
  PROVE  U!Installed
<1>1. dir[U!Exe] # 0
  <2>1. 0 \notin DOMAIN file
    BY DEF U!UpdateInd, U!TypeOK
  <2> QED
    BY <2>1 DEF U!UpdateInd, U!Whole
<1> QED
  BY <1>1 DEF U!UpdateInd, U!Whole, U!Installed

LEMMA OneSteps ==
  ASSUME U!TypeOK, NEW u \in Updates, NEW v \in Updates, u # v,
         \/ U!Plan(v) \/ U!Confirm(v) \/ U!CreateTmp(v) \/ U!Download(v) \/ U!Extract(v)
         \/ U!SyncFile(v) \/ U!Smoke(v) \/ U!Publish(v) \/ U!SyncDir(v) \/ U!Killed(v)
  PROVE  upd'[u] = upd[u]
<1>1. u \in DOMAIN upd
  BY DEF U!TypeOK
<1>2. \A rc : U!Exits(v, rc)[u] = upd[u] /\ U!Goes(v, rc)[u] = upd[u]
  BY <1>1 DEF U!Exits, U!Goes
<1>3. CASE U!Plan(v) \/ U!Confirm(v) \/ U!Killed(v) \/ U!SyncDir(v)
  BY <1>1, <1>2, <1>3 DEF U!Plan, U!Confirm, U!Killed, U!SyncDir
<1>4. CASE U!CreateTmp(v) \/ U!Download(v)
  BY <1>1, <1>2, <1>4 DEF U!CreateTmp, U!Download, U!Fails
<1>5. CASE U!Extract(v)
  BY <1>1, <1>2, <1>5 DEF U!Extract, U!Fails
<1>6. CASE U!SyncFile(v) \/ U!Smoke(v) \/ U!Publish(v)
  BY <1>1, <1>2, <1>6 DEF U!SyncFile, U!Smoke, U!Publish, U!Fails
<1> QED
  BY <1>3, <1>4, <1>5, <1>6

\* What a step of one update says of the others.
LEMMA UpdateLeavesNothing ==
  ASSUME U!ParametersOK, U!UpdateInd, [U!Next]_(U!vars)
  PROVE  U!NothingLeftBy
<1> SUFFICES ASSUME NEW u \in Updates, upd[u].pc # "over", upd'[u].exit \in {"0", "1", "2"}
             PROVE  /\ upd[u].id # 0 /\ upd'[u].exit = "0" => dir'[u] = 0
                    /\ upd'[u].exit # "0" => \A n \in U!Names \ {u} : dir'[n] = dir[n]
  BY DEF U!NothingLeftBy, U!TmpName
<1>0. /\ U!TypeOK /\ U!Holds(u) /\ upd[u].exit = "none" /\ u \in DOMAIN upd /\ upd[u] \in U!States
      /\ U!Exe # u /\ u \in U!Names /\ U!Exe \in U!Names /\ dir \in [U!Names -> Nat]
  BY DEF U!UpdateInd, U!TypeOK, U!Holds, U!ParametersOK, U!Names
<1>1. upd'[u] # upd[u]
  BY <1>0
\* Only a step of u itself changes what is recorded of u; a crash of the host
\* reports nothing.
<1>2. ~U!Crash
  <2> SUFFICES ASSUME U!Crash PROVE FALSE
    OBVIOUS
  <2>1. upd'[u] = [upd[u] EXCEPT !.pc = "over", !.exit = "killed"]
    BY DEF U!Crash
  <2>2. upd'[u].exit = "killed"
    BY <1>0, <2>1 DEF U!States
  <2> QED
    BY <2>2
<1>3. PICK v \in Updates : U!Plan(v) \/ U!Confirm(v) \/ U!CreateTmp(v) \/ U!Download(v) \/ U!Extract(v)
                           \/ U!SyncFile(v) \/ U!Smoke(v) \/ U!Publish(v) \/ U!SyncDir(v) \/ U!Killed(v)
  BY <1>1, <1>2 DEF U!Next, U!vars
<1>4. v = u
  BY <1>0, <1>1, <1>3, OneSteps
<1>5. CASE U!Plan(u) \/ U!Confirm(u)
  <2>1. upd[u].id = 0 /\ dir' = dir
    BY <1>0, <1>5 DEF U!Holds, U!Plan, U!Confirm, U!At
  <2> QED
    BY <2>1
<1>6. CASE U!CreateTmp(u)
  <2>1. upd[u].id = 0
    BY <1>0, <1>6 DEF U!Holds, U!CreateTmp, U!At
  <2>2. \A n \in U!Names \ {u} : dir'[n] = dir[n]
    BY <1>0, <1>6 DEF U!CreateTmp, U!TmpName
  <2> QED
    BY <2>1, <2>2
<1>7. CASE U!SyncDir(u)
  <2>1. dir'[u] = 0 /\ dir' = dir
    BY <1>0, <1>7 DEF U!Holds, U!SyncDir, U!At
  <2> QED
    BY <2>1
<1>8. CASE U!Killed(u)
  <2>1. PICK s \in U!States : upd' = [upd EXCEPT ![u] = s] /\ s.exit = "killed"
    BY <1>0, <1>8, ExitsIs DEF U!Killed
  <2>2. upd'[u].exit = "killed"
    BY <1>0, <2>1
  <2> QED
    BY <2>2
<1>9. CASE U!Fails(u)
  <2>1. PICK s \in U!States : upd' = [upd EXCEPT ![u] = s] /\ s.exit = "2"
    BY <1>0, <1>9, ExitsIs DEF U!Fails
  <2>2. upd'[u].exit = "2"
    BY <1>0, <2>1
  <2> QED
    BY <1>0, <1>9, <2>2 DEF U!Fails, U!TmpName
<1>10. CASE ~U!Fails(u) /\ (U!Download(u) \/ U!Extract(u) \/ U!SyncFile(u) \/ U!Smoke(u) \/ U!Publish(u))
  <2>1. upd'[u].exit = upd[u].exit
    BY <1>0, <1>10 DEF U!Download, U!Extract, U!SyncFile, U!Smoke, U!Publish, U!Goes, U!States
  <2> QED
    BY <1>0, <2>1
<1> QED
  BY <1>3, <1>4, <1>5, <1>6, <1>7, <1>8, <1>9, <1>10

LEMMA UpdateSpec ==
  ASSUME U!ParametersOK
  PROVE  U!Spec => []U!UpdateInd
<1>1. U!Init => U!UpdateInd
  BY UpdateInit
<1>2. U!UpdateInd /\ [U!Next]_(U!vars) => U!UpdateInd'
  BY UpdateInductive
<1> QED
  BY <1>1, <1>2, PTL DEF U!Spec

\* With any number of updates at once, each of which may fail or be killed at any
\* step, and any number of crashes of the host: the installed name is always a whole
\* binary that runs, with no permission it did not have (install, publish).
THEOREM AlwaysInstalled ==
  ASSUME U!ParametersOK
  PROVE  U!Spec => []U!Installed
<1>1. U!UpdateInd => U!Installed
  BY UpdateInstalled
<1> QED
  BY <1>1, UpdateSpec, PTL

\* An update that reports success leaves no file of its own beside the binary, and one
\* that does not has changed no name but that of its own file: neither the binary nor
\* what another update works on (install; the removal after a failure is best effort).
THEOREM NothingLeftBehind ==
  ASSUME U!ParametersOK
  PROVE  U!Spec => [][U!NothingLeftBy]_(U!vars)
<1>1. U!UpdateInd /\ [U!Next]_(U!vars) => [U!NothingLeftBy]_(U!vars)
  BY UpdateLeavesNothing
<1> QED
  BY <1>1, UpdateSpec, PTL DEF U!Spec

-----------------------------------------------------------------------------
(* The output of commands                                                  *)

LEMMA ThreeJoined == \A x, y, z \in O!Bytes : (x \o y) \o z = x \o (y \o z)
BY ConcatAssociative DEF O!Bytes

LEMMA OutputInit ==
  ASSUME O!ParametersOK, O!Init
  PROVE  O!OutputInd
<1>1. \A c \in Cmds : prog[c] \in Programs /\ prog[c].writes \in Seq(O!Streams \X O!Bytes)
  BY DEF O!Init, O!ParametersOK
<1>2. <<>> \in O!Bytes
  BY DEF O!Bytes
<1>3. O!TypeOK
  BY <1>1, <1>2 DEF O!Init, O!TypeOK, O!None
<1>4. O!InTransit
  BY <1>2, ConcatEmptySeq DEF O!Init, O!InTransit, O!Bytes
<1>5. O!EndsSeen
  BY DEF O!Init, O!EndsSeen
<1>6. \A c \in Cmds : O!Records(c) = {}
  BY DEF O!Init, O!Records, O!Out
<1>7. O!BlocksWhole /\ O!Replaying
  BY <1>6 DEF O!Init, O!BlocksWhole, O!Together, O!Replaying
<1> QED
  BY <1>3, <1>4, <1>5, <1>7 DEF O!OutputInd

\* The bytes and the records of a step are what the invariant says they are.
LEMMA OutputParts ==
  ASSUME O!ParametersOK, O!TypeOK, NEW c \in Cmds
  PROVE  /\ prog[c].live \in BOOLEAN /\ prog[c].ok \in BOOLEAN /\ prog[c].opts \in BOOLEAN
         /\ style.name \in STRING /\ style.error_only \in BOOLEAN /\ style.marked \in BOOLEAN
         /\ \A s \in O!Streams : wrote[c][s] \in O!Bytes /\ pipe[c][s] \in O!Bytes /\ buf[c][s] \in O!Bytes
         /\ left[c] # <<>> => Head(left[c])[1] \in O!Streams /\ Head(left[c])[2] \in O!Bytes
                              /\ Tail(left[c]) \in Seq(O!Streams \X O!Bytes)
         /\ <<"late", O!NL>> \in O!Bytes
<1>1. prog[c] \in Programs /\ style \in Styles
  BY DEF O!TypeOK
<1>2. /\ prog[c].live \in BOOLEAN /\ prog[c].ok \in BOOLEAN /\ prog[c].opts \in BOOLEAN
      /\ style.name \in STRING /\ style.error_only \in BOOLEAN /\ style.marked \in BOOLEAN
  BY <1>1 DEF O!ParametersOK
<1>3. \A s \in O!Streams : wrote[c][s] \in O!Bytes /\ pipe[c][s] \in O!Bytes /\ buf[c][s] \in O!Bytes
  BY DEF O!TypeOK
<1>4. ASSUME left[c] # <<>>
      PROVE  Head(left[c]) \in O!Streams \X O!Bytes /\ Tail(left[c]) \in Seq(O!Streams \X O!Bytes)
  BY <1>4, HeadTailProperties DEF O!TypeOK
<1>5. <<"late", O!NL>> \in O!Bytes
  BY DEF O!Bytes, O!Symbols
<1> QED
  BY <1>2, <1>3, <1>4, <1>5

\* A write to a captured stream is in transit, and reaches a terminal that is not
\* grouped, or that of a command which is not captured.
LEMMA PutTyped ==
  ASSUME O!ParametersOK, O!TypeOK, NEW c \in Cmds, NEW s \in O!Streams, NEW bytes \in O!Bytes,
         O!Put(c, s, bytes), UNCHANGED <<style, prog>>
  PROVE  /\ wrote' \in [Cmds -> [O!Streams -> O!Bytes]] /\ pipe' \in [Cmds -> [O!Streams -> O!Bytes]]
         /\ style.name = "group" => term' \in Seq(Cmds \X O!Kinds \X O!Bytes)
<1>1. wrote[c][s] \o bytes \in O!Bytes /\ pipe[c][s] \o bytes \in O!Bytes
  BY OutputParts, ConcatProperties DEF O!Bytes
<1>2. wrote' \in [Cmds -> [O!Streams -> O!Bytes]]
  BY <1>1 DEF O!Put, O!TypeOK
<1>3. pipe' \in [Cmds -> [O!Streams -> O!Bytes]]
  <2>1. CASE O!Captured(c)
    <3>1. pipe' = [pipe EXCEPT ![c][s] = pipe[c][s] \o bytes]
      BY <2>1 DEF O!Put
    <3> QED
      BY <1>1, <3>1 DEF O!TypeOK
  <2>2. CASE ~O!Captured(c)
    <3>1. pipe' = pipe
      BY <2>2 DEF O!Put
    <3> QED
      BY <3>1 DEF O!TypeOK
  <2> QED
    BY <2>1, <2>2
<1>4. ASSUME style.name = "group" PROVE term' \in Seq(Cmds \X O!Kinds \X O!Bytes)
  <2>1. <<c, "live", bytes>> \in Cmds \X O!Kinds \X O!Bytes
    BY DEF O!Kinds
  <2>2. term \in Seq(Cmds \X O!Kinds \X O!Bytes)
    BY <1>4 DEF O!TypeOK
  <2>3. term' = term \/ term' = Append(term, <<c, "live", bytes>>)
    BY DEF O!Put
  <2> QED
    BY <2>1, <2>2, <2>3, AppendProperties
<1> QED
  BY <1>2, <1>3, <1>4

LEMMA PutInTransit ==
  ASSUME O!ParametersOK, O!TypeOK, O!InTransit,
         NEW c \in Cmds, NEW s \in O!Streams, NEW bytes \in O!Bytes,
         O!Put(c, s, bytes), UNCHANGED <<style, prog, buf>>
  PROVE  O!InTransit'
<1> SUFFICES ASSUME NEW d \in Cmds, NEW q \in O!Streams, O!Captured(d)'
             PROVE  wrote'[d][q] = buf'[d][q] \o pipe'[d][q]
  BY DEF O!InTransit
<1>1. O!Captured(d)
  BY DEF O!Captured
<1>2. wrote[d][q] = buf[d][q] \o pipe[d][q]
  BY <1>1 DEF O!InTransit
<1>3. CASE d = c /\ q = s
  <2>1. wrote'[c][s] = wrote[c][s] \o bytes /\ pipe'[c][s] = pipe[c][s] \o bytes
    BY <1>1, <1>3 DEF O!Put, O!TypeOK
  <2>2. (buf[c][s] \o pipe[c][s]) \o bytes = buf[c][s] \o (pipe[c][s] \o bytes)
    <3>1. buf[c][s] \in O!Bytes
      BY OutputParts
    <3>2. pipe[c][s] \in O!Bytes
      BY OutputParts
    <3>3. bytes \in O!Bytes
      OBVIOUS
    <3> QED
      BY <3>1, <3>2, <3>3, ThreeJoined, Zenon
  <2> QED
    BY <1>2, <1>3, <2>1, <2>2
<1>4. CASE ~(d = c /\ q = s)
  <2>1. wrote'[d][q] = wrote[d][q] /\ pipe'[d][q] = pipe[d][q]
    BY <1>4 DEF O!Put, O!TypeOK
  <2> QED
    BY <1>2, <2>1
<1> QED
  BY <1>3, <1>4

\* What is said of the records of a command, of any sequence of records.
TogetherIn(o, d) ==
  \A i, k \in 1 .. Len(o) : o[i][1] = d /\ o[k][1] = d =>
    \A j \in i .. k : o[j][1] = d \/ o[j][2] = "live"
AtEndIn(o, d) ==
  \A i \in 1 .. Len(o) : o[i][1] = d => \A j \in i .. Len(o) : o[j][1] = d \/ o[j][2] = "live"
NoneIn(o, d) == \A i \in 1 .. Len(o) : o[i][1] # d

LEMMA RecordsOfOut ==
  ASSUME NEW d
  PROVE  /\ O!Together(d) <=> TogetherIn(O!Out, d)
         /\ O!AtEnd(d) <=> AtEndIn(O!Out, d)
         /\ O!Records(d) = {} <=> NoneIn(O!Out, d)
         /\ O!Together(d)' <=> TogetherIn(O!Out', d)
         /\ O!AtEnd(d)' <=> AtEndIn(O!Out', d)
         /\ O!Records(d)' = {} <=> NoneIn(O!Out', d)
BY DEF O!Together, O!AtEnd, O!Records, TogetherIn, AtEndIn, NoneIn

\* A live command writes before what waits in the engine's stdout.
LEMMA LiveBetween ==
  ASSUME NEW Rec, NEW t \in Seq(Rec), NEW s \in Seq(Rec), NEW e \in Rec, e[2] = "live", NEW d, e[1] # d
  PROVE  LET o == t \o s  o2 == Append(t, e) \o s
         IN  /\ TogetherIn(o, d) => TogetherIn(o2, d)
             /\ AtEndIn(o, d) => AtEndIn(o2, d)
             /\ NoneIn(o, d) => NoneIn(o2, d)
<1> DEFINE o == t \o s
           o2 == Append(t, e) \o s
           n == Len(t)
           m == Len(s)
           At(i) == IF i <= n THEN i ELSE i - 1
<1>1. n \in Nat /\ m \in Nat
  OBVIOUS
<1>2. Append(t, e) \in Seq(Rec) /\ Len(Append(t, e)) = n + 1
      /\ \A i \in 1 .. n + 1 : Append(t, e)[i] = IF i <= n THEN t[i] ELSE e
  BY AppendProperties
<1>3. Len(o) = n + m /\ \A i \in 1 .. n + m : o[i] = IF i <= n THEN t[i] ELSE s[i - n]
  BY ConcatProperties
<1>4. Len(o2) = n + 1 + m
      /\ \A i \in 1 .. n + 1 + m : o2[i] = IF i <= n + 1 THEN Append(t, e)[i] ELSE s[i - (n + 1)]
  BY <1>2, ConcatProperties
<1> HIDE DEF o, o2, n, m
<1>5. o2[n + 1] = e
  BY <1>1, <1>2, <1>4
<1>6. ASSUME NEW i \in 1 .. n + 1 + m, i # n + 1
      PROVE  At(i) \in 1 .. n + m /\ o2[i] = o[At(i)]
  <2>1. CASE i <= n
    BY <1>1, <1>2, <1>3, <1>4, <2>1
  <2>2. CASE i > n + 1
    <3>1. At(i) = i - 1 /\ i - 1 \in 1 .. n + m /\ i - 1 > n
      BY <1>1, <2>2
    <3>2. o2[i] = s[i - (n + 1)] /\ o[i - 1] = s[(i - 1) - n]
      BY <1>1, <1>3, <1>4, <2>2, <3>1
    <3> QED
      BY <1>1, <3>1, <3>2
  <2> QED
    BY <1>1, <1>6, <2>1, <2>2
<1>7. ASSUME NEW i \in 1 .. n + 1 + m, NEW j \in 1 .. n + 1 + m, i # n + 1, j # n + 1, i <= j
      PROVE  At(i) <= At(j)
  BY <1>1, <1>7
<1> HIDE DEF At
<1>8. ASSUME NEW i \in 1 .. Len(o2), o2[i][1] = d PROVE i # n + 1
  BY <1>5, <1>8
<1>9. ASSUME TogetherIn(o, d) PROVE TogetherIn(o2, d)
  <2> SUFFICES ASSUME NEW i \in 1 .. Len(o2), NEW k \in 1 .. Len(o2), o2[i][1] = d, o2[k][1] = d, NEW j \in i .. k
               PROVE  o2[j][1] = d \/ o2[j][2] = "live"
    BY DEF TogetherIn
  <2>1. CASE j = n + 1
    BY <1>5, <2>1
  <2>2. CASE j # n + 1
    <3>1. i # n + 1 /\ k # n + 1 /\ j \in 1 .. n + 1 + m /\ i \in 1 .. n + 1 + m /\ k \in 1 .. n + 1 + m
      BY <1>1, <1>4, <1>8
    <3>2. /\ At(i) \in 1 .. Len(o) /\ At(j) \in 1 .. Len(o) /\ At(k) \in 1 .. Len(o)
          /\ o[At(i)] = o2[i] /\ o[At(j)] = o2[j] /\ o[At(k)] = o2[k]
      BY <1>3, <1>6, <2>2, <3>1
    <3>3. At(i) <= At(j) /\ At(j) <= At(k)
      BY <1>7, <2>2, <3>1
    <3>4. At(j) \in At(i) .. At(k)
      BY <3>2, <3>3
    <3> QED
      BY <1>9, <3>2, <3>4 DEF TogetherIn
  <2> QED
    BY <2>1, <2>2
<1>10. ASSUME AtEndIn(o, d) PROVE AtEndIn(o2, d)
  <2> SUFFICES ASSUME NEW i \in 1 .. Len(o2), o2[i][1] = d, NEW j \in i .. Len(o2)
               PROVE  o2[j][1] = d \/ o2[j][2] = "live"
    BY DEF AtEndIn
  <2>1. CASE j = n + 1
    BY <1>5, <2>1
  <2>2. CASE j # n + 1
    <3>1. i # n + 1 /\ j \in 1 .. n + 1 + m /\ i \in 1 .. n + 1 + m
      BY <1>1, <1>4, <1>8
    <3>2. At(i) \in 1 .. Len(o) /\ At(j) \in 1 .. Len(o) /\ o[At(i)] = o2[i] /\ o[At(j)] = o2[j]
      BY <1>3, <1>6, <2>2, <3>1
    <3>3. At(i) <= At(j)
      BY <1>7, <2>2, <3>1
    <3>4. At(j) \in At(i) .. Len(o)
      BY <1>1, <1>3, <3>2, <3>3
    <3> QED
      BY <1>10, <3>2, <3>4 DEF AtEndIn
  <2> QED
    BY <2>1, <2>2
<1>11. ASSUME NoneIn(o, d) PROVE NoneIn(o2, d)
  <2> SUFFICES ASSUME NEW i \in 1 .. Len(o2), o2[i][1] = d PROVE FALSE
    BY DEF NoneIn
  <2>1. At(i) \in 1 .. Len(o) /\ o[At(i)][1] = d
    BY <1>3, <1>4, <1>6, <1>8
  <2> QED
    BY <1>11, <2>1 DEF NoneIn
<1> QED
  BY <1>9, <1>10, <1>11 DEF o, o2

\* A command's replay goes on at the end.
LEMMA ReplayAppended ==
  ASSUME NEW Rec, NEW o \in Seq(Rec), NEW more \in Seq(Rec), NEW c,
         \A i \in 1 .. Len(more) : more[i][1] = c
  PROVE  LET o2 == o \o more
         IN  /\ AtEndIn(o, c) => TogetherIn(o2, c) /\ AtEndIn(o2, c)
             /\ \A d : d # c /\ TogetherIn(o, d) => TogetherIn(o2, d)
             /\ \A d : d # c /\ NoneIn(o, d) => NoneIn(o2, d)
<1> DEFINE o2 == o \o more
           n == Len(o)
           m == Len(more)
<1>1. n \in Nat /\ m \in Nat
  OBVIOUS
<1>2. Len(o2) = n + m /\ \A i \in 1 .. n + m : o2[i] = IF i <= n THEN o[i] ELSE more[i - n]
  BY ConcatProperties
<1> HIDE DEF o2, n, m
<1>3. ASSUME NEW i \in 1 .. n + m, i <= n PROVE i \in 1 .. n /\ o2[i] = o[i]
  BY <1>1, <1>2, <1>3
<1>4. ASSUME NEW i \in 1 .. n + m, i > n PROVE o2[i][1] = c
  <2>1. i - n \in 1 .. m /\ o2[i] = more[i - n]
    BY <1>1, <1>2, <1>4
  <2> QED
    BY <2>1 DEF m
<1>5. ASSUME AtEndIn(o, c) PROVE AtEndIn(o2, c) /\ TogetherIn(o2, c)
  <2>1. ASSUME NEW i \in 1 .. n + m, o2[i][1] = c, NEW j \in i .. n + m
        PROVE  o2[j][1] = c \/ o2[j][2] = "live"
    <3>1. j \in 1 .. n + m /\ (j <= n \/ j > n)
      BY <1>1
    <3>2. CASE j > n
      BY <1>4, <3>1, <3>2
    <3>3. CASE j <= n
      <4>1. i <= n /\ o2[i] = o[i] /\ o2[j] = o[j] /\ i \in 1 .. n /\ j \in i .. n
        BY <1>1, <1>3, <3>1, <3>3
      <4> QED
        BY <1>5, <2>1, <4>1 DEF AtEndIn, n
    <3> QED
      BY <3>1, <3>2, <3>3
  <2>2. ASSUME NEW k \in 1 .. n + m, NEW i \in 1 .. n + m, NEW j \in i .. k PROVE j \in i .. n + m
    BY <1>1
  <2> QED
    BY <1>2, <2>1, <2>2 DEF AtEndIn, TogetherIn
<1>6. ASSUME NEW d, d # c, NEW i \in 1 .. n + m, o2[i][1] = d PROVE i \in 1 .. n /\ o2[i] = o[i]
  BY <1>1, <1>3, <1>4, <1>6
<1>7. ASSUME NEW d, d # c, TogetherIn(o, d) PROVE TogetherIn(o2, d)
  <2> SUFFICES ASSUME NEW i \in 1 .. n + m, NEW k \in 1 .. n + m, o2[i][1] = d, o2[k][1] = d, NEW j \in i .. k
               PROVE  o2[j][1] = d \/ o2[j][2] = "live"
    BY <1>2 DEF TogetherIn
  <2>1. i \in 1 .. n /\ k \in 1 .. n /\ o2[i] = o[i] /\ o2[k] = o[k]
    BY <1>6, <1>7
  <2>2. j \in 1 .. n + m /\ j <= n
    BY <1>1, <2>1
  <2>3. o2[j] = o[j]
    BY <1>3, <2>2
  <2> QED
    BY <1>7, <2>1, <2>3 DEF TogetherIn, n
<1>8. ASSUME NEW d, d # c, NoneIn(o, d) PROVE NoneIn(o2, d)
  BY <1>2, <1>6, <1>8 DEF NoneIn, n
<1> QED
  BY <1>5, <1>7, <1>8 DEF o2

\* The block of a group: one record, or three with the markers.
LEMMA GroupTyped ==
  ASSUME O!ParametersOK, O!TypeOK, NEW c \in Cmds, NEW bytes \in O!Bytes, NEW wrong \in BOOLEAN
  PROVE  /\ O!GroupOut(c, bytes, wrong) \in Seq(Cmds \X O!Kinds \X O!Bytes)
         /\ \A i \in 1 .. Len(O!GroupOut(c, bytes, wrong)) : O!GroupOut(c, bytes, wrong)[i][1] = c
<1> DEFINE Rec == Cmds \X O!Kinds \X O!Bytes
<1>1. <<>> \in O!Bytes
  BY DEF O!Bytes
<1>2. <<c, "begin", <<>>>> \in Rec /\ <<c, "block", bytes>> \in Rec /\ <<c, "end", <<>>>> \in Rec
  BY <1>1 DEF O!Kinds
<1> HIDE DEF Rec
<1>3. /\ <<<<c, "begin", <<>>>>, <<c, "block", bytes>>, <<c, "end", <<>>>>>> \in Seq(Rec)
      /\ <<<<c, "block", bytes>>>> \in Seq(Rec) /\ <<>> \in Seq(Rec)
  BY <1>2
<1>4. \/ O!GroupOut(c, bytes, wrong) = <<>>
      \/ O!GroupOut(c, bytes, wrong) = <<<<c, "begin", <<>>>>, <<c, "block", bytes>>, <<c, "end", <<>>>>>>
      \/ O!GroupOut(c, bytes, wrong) = <<<<c, "block", bytes>>>>
  BY DEF O!GroupOut
<1>5. O!GroupOut(c, bytes, wrong) \in Seq(Rec)
  BY <1>3, <1>4
<1>6. \A i \in 1 .. Len(O!GroupOut(c, bytes, wrong)) : O!GroupOut(c, bytes, wrong)[i][1] = c
  BY <1>4
<1> QED
  BY <1>5, <1>6 DEF Rec

LEMMA FinishTyped ==
  ASSUME O!ParametersOK, O!TypeOK, NEW c \in Cmds, O!Finish(c), style.name = "group"
  PROVE  /\ queue' \in Seq(Cmds \X O!Kinds \X O!Bytes)
         /\ \A i \in 1 .. Len(queue') : queue'[i][1] = c
         /\ ~O!Captured(c) => queue' = <<>>
<1> DEFINE bytes == buf[c]["out"] \o buf[c]["err"]
           wrong == ~(prog[c].ok /\ prog[c].opts)
<1>1. bytes \in O!Bytes
  BY OutputParts, ConcatProperties DEF O!Bytes, O!Streams
<1>2. wrong \in BOOLEAN
  OBVIOUS
<1>3. O!Replayed(c, wrong) = O!GroupOut(c, bytes, wrong)
  BY DEF O!Replayed
<1>4. IF O!Captured(c) THEN queue' = O!Replayed(c, wrong) ELSE queue' = <<>>
  BY DEF O!Finish
<1> HIDE DEF bytes, wrong
<1>5. /\ O!GroupOut(c, bytes, wrong) \in Seq(Cmds \X O!Kinds \X O!Bytes)
      /\ \A i \in 1 .. Len(O!GroupOut(c, bytes, wrong)) : O!GroupOut(c, bytes, wrong)[i][1] = c
  BY <1>1, <1>2, GroupTyped
<1>6. CASE O!Captured(c)
  BY <1>3, <1>4, <1>5, <1>6
<1>7. CASE ~O!Captured(c)
  BY <1>4, <1>7
<1> QED
  BY <1>6, <1>7

\* One write of a group's replay, cut at its last newline.
LEMMA CutTyped ==
  ASSUME NEW r \in Cmds \X O!Kinds \X O!Bytes, NEW n \in O!Goes(r)
  PROVE  /\ O!HeadOf(r, n) \in Cmds \X O!Kinds \X O!Bytes
         /\ O!TailOf(r, n) \in Seq(Cmds \X O!Kinds \X O!Bytes)
         /\ O!HeadOf(r, n)[1] = r[1]
         /\ \A i \in 1 .. Len(O!TailOf(r, n)) : O!TailOf(r, n)[i][1] = r[1]
<1> DEFINE Rec == Cmds \X O!Kinds \X O!Bytes
           b == r[3]
<1>1. b \in Seq(O!Symbols) /\ Len(b) \in Nat /\ r[1] \in Cmds /\ r[2] \in O!Kinds
  BY DEF O!Bytes
<1>2. n \in 0 .. Len(b)
  BY <1>1 DEF O!Goes
<1>3. \A i \in 1 .. Len(b) : b[i] \in O!Symbols
  BY <1>1
<1> HIDE DEF b
<1>4. SubSeq(b, 1, n) \in O!Bytes
  <2>1. \A i \in 1 .. n : b[i] \in O!Symbols
    BY <1>1, <1>2, <1>3
  <2> QED
    BY <1>2, <2>1, SubSeqProperties DEF O!Bytes
<1>5. SubSeq(b, n + 1, Len(b)) \in O!Bytes
  <2>1. \A i \in n + 1 .. Len(b) : b[i] \in O!Symbols
    BY <1>1, <1>2, <1>3
  <2> QED
    BY <1>1, <1>2, <2>1, SubSeqProperties DEF O!Bytes
<1>6. /\ <<r[1], r[2], SubSeq(b, 1, n)>> \in Rec
      /\ <<r[1], r[2], SubSeq(b, n + 1, Len(b))>> \in Rec
  BY <1>1, <1>4, <1>5
<1>7. O!HeadOf(r, n) = <<r[1], r[2], SubSeq(b, 1, n)>>
      /\ (O!TailOf(r, n) = <<>> \/ O!TailOf(r, n) = <<<<r[1], r[2], SubSeq(b, n + 1, Len(b))>>>>)
  BY DEF O!HeadOf, O!TailOf, b
<1> DEFINE last == <<r[1], r[2], SubSeq(b, n + 1, Len(b))>>
<1>8. O!TailOf(r, n) \in Seq(Rec)
  <2>1. last \in Rec /\ (O!TailOf(r, n) = <<>> \/ O!TailOf(r, n) = <<last>>)
    BY <1>6, <1>7
  <2> HIDE DEF Rec, last
  <2>2. <<last>> \in Seq(Rec) /\ <<>> \in Seq(Rec)
    BY <2>1
  <2> QED
    BY <2>1, <2>2
<1> HIDE DEF Rec, last
<1> QED
  BY <1>6, <1>7, <1>8 DEF Rec

LEMMA EmitAppends ==
  ASSUME O!TypeOK, NEW c \in Cmds, O!Emit(c), style.name = "group",
         \A i \in 1 .. Len(queue) : queue[i][1] = c
  PROVE  /\ \A q \in {queue', stash', term'} : q \in Seq(Cmds \X O!Kinds \X O!Bytes)
         /\ \A i \in 1 .. Len(queue') : queue'[i][1] = c
         /\ \E more \in Seq(Cmds \X O!Kinds \X O!Bytes) :
              O!Out' = O!Out \o more /\ \A i \in 1 .. Len(more) : more[i][1] = c
<1> DEFINE Rec == Cmds \X O!Kinds \X O!Bytes
           r == Head(queue)
<1>1. queue \in Seq(Rec) /\ stash \in Seq(Rec) /\ term \in Seq(Rec) /\ queue # <<>>
  BY DEF O!TypeOK, O!Emit
<1>2. r \in Rec /\ r[1] = c /\ Tail(queue) \in Seq(Rec) /\ <<>> \in Seq(Rec)
      /\ \A i \in 1 .. Len(Tail(queue)) : Tail(queue)[i][1] = c
  <2>1. 1 \in 1 .. Len(queue) /\ r = queue[1]
    BY <1>1
  <2>2. /\ Tail(queue) \in Seq(Rec) /\ Len(Tail(queue)) = Len(queue) - 1
        /\ \A i \in 1 .. Len(Tail(queue)) : Tail(queue)[i] = queue[i + 1]
    BY <1>1, HeadTailProperties
  <2>3. \A i \in 1 .. Len(Tail(queue)) : i + 1 \in 1 .. Len(queue)
    BY <1>1, <2>2
  <2>4. r \in Rec
    BY <1>1, <2>1
  <2> QED
    BY <2>1, <2>2, <2>3, <2>4
<1>3. queue' \in {<<>>, Tail(queue)}
  BY DEF O!Emit
<1>4. queue' \in Seq(Rec) /\ \A i \in 1 .. Len(queue') : queue'[i][1] = c
  <2> HIDE DEF Rec
  <2>1. CASE queue' = <<>>
    BY <1>2, <2>1
  <2>2. CASE queue' = Tail(queue)
    BY <1>2, <2>2
  <2> QED
    BY <1>3, <2>1, <2>2
<1>5. O!Out = term \o stash /\ O!Out' = term' \o stash' /\ term \o stash \in Seq(Rec)
  BY <1>1, ConcatProperties DEF O!Out
<1>6. CASE UNCHANGED <<stash, term>>
  <2> HIDE DEF Rec
  <2>1. O!Out' = O!Out \o <<>>
    BY <1>5, <1>6, ConcatEmptySeq
  <2>2. \A i \in 1 .. Len(<<>>) : <<>>[i][1] = c
    OBVIOUS
  <2>3. /\ term' \in Seq(Rec) /\ stash' \in Seq(Rec)
        /\ \E more \in Seq(Rec) :
             O!Out' = O!Out \o more /\ \A i \in 1 .. Len(more) : more[i][1] = c
    BY <1>1, <1>2, <1>6, <2>1, <2>2
  <2> QED
    BY <1>4, <2>3 DEF Rec
<1>7. ASSUME NEW n \in O!Goes(r), term' = (term \o stash) \o <<O!HeadOf(r, n)>>, stash' = O!TailOf(r, n)
      PROVE  /\ term' \in Seq(Rec) /\ stash' \in Seq(Rec)
             /\ \E more \in Seq(Rec) :
                  O!Out' = O!Out \o more /\ \A i \in 1 .. Len(more) : more[i][1] = c
  <2> DEFINE h == O!HeadOf(r, n)
             l == O!TailOf(r, n)
             more == <<h>> \o l
             o == term \o stash
  <2>1. h \in Rec /\ l \in Seq(Rec) /\ h[1] = c /\ \A i \in 1 .. Len(l) : l[i][1] = c
    BY <1>2, <1>7, CutTyped
  <2>2. o \in Seq(Rec) /\ O!Out = o /\ term' = o \o <<h>> /\ stash' = l /\ O!Out' = (o \o <<h>>) \o l
    BY <1>5, <1>7
  <2> HIDE DEF h, l, o, Rec
  <2>3. <<h>> \in Seq(Rec) /\ Len(<<h>>) = 1 /\ <<h>>[1] = h
    BY <2>1
  <2>4. /\ more \in Seq(Rec) /\ Len(more) = 1 + Len(l)
        /\ \A i \in 1 .. 1 + Len(l) : more[i] = IF i <= 1 THEN <<h>>[i] ELSE l[i - 1]
    BY <2>1, <2>3, ConcatProperties
  <2>5. ASSUME NEW i \in 1 .. Len(more) PROVE more[i][1] = c
    <3>1. Len(l) \in Nat
      BY <2>1
    <3>2. CASE i = 1
      BY <2>1, <2>3, <2>4, <3>1, <3>2
    <3>3. CASE i # 1
      <4>1. i - 1 \in 1 .. Len(l) /\ more[i] = l[i - 1]
        BY <2>4, <3>1, <3>3
      <4> QED
        BY <2>1, <4>1
    <3> QED
      BY <3>2, <3>3
  <2>6. (o \o <<h>>) \o l = o \o (<<h>> \o l)
    BY <2>1, <2>2, <2>3, ConcatAssociative
  <2>7. o \o <<h>> \in Seq(Rec)
    BY <2>2, <2>3, ConcatProperties
  <2> QED
    BY <2>1, <2>2, <2>4, <2>5, <2>6, <2>7
<1>8. ASSUME stash' = Append(stash, r), term' = term
      PROVE  /\ term' \in Seq(Rec) /\ stash' \in Seq(Rec)
             /\ \E more \in Seq(Rec) :
                  O!Out' = O!Out \o more /\ \A i \in 1 .. Len(more) : more[i][1] = c
  <2> HIDE DEF Rec, r
  <2>1. <<r>> \in Seq(Rec) /\ Append(stash, r) = stash \o <<r>> /\ Append(stash, r) \in Seq(Rec)
        /\ \A i \in 1 .. Len(<<r>>) : <<r>>[i][1] = c
    BY <1>1, <1>2
  <2>2. (term \o stash) \o <<r>> = term \o (stash \o <<r>>)
    BY <1>1, <2>1, ConcatAssociative
  <2> QED
    BY <1>1, <1>5, <1>8, <2>1, <2>2
<1>9. \/ UNCHANGED <<stash, term>>
      \/ \E n \in O!Goes(r) : term' = (term \o stash) \o <<O!HeadOf(r, n)>> /\ stash' = O!TailOf(r, n)
      \/ stash' = Append(stash, r) /\ term' = term
  BY DEF O!Emit
<1> HIDE DEF Rec, r
<1>10. /\ term' \in Seq(Rec) /\ stash' \in Seq(Rec)
       /\ \E more \in Seq(Rec) :
            O!Out' = O!Out \o more /\ \A i \in 1 .. Len(more) : more[i][1] = c
  BY <1>6, <1>7, <1>8, <1>9 DEF Rec
<1> QED
  BY <1>4, <1>10 DEF Rec

LEMMA OutputTyped ==
  ASSUME O!ParametersOK, O!TypeOK, O!Replaying, O!Next
  PROVE  O!TypeOK'
<1>1. ASSUME NEW c \in Cmds, O!Acquire(c) PROVE O!TypeOK'
  BY <1>1 DEF O!Acquire, O!screen, O!TypeOK
<1>2. ASSUME NEW c \in Cmds, O!PreludeFails(c) PROVE O!TypeOK'
  BY <1>2 DEF O!PreludeFails, O!Join, O!Blocks, O!screen, O!TypeOK
<1>3. ASSUME NEW c \in Cmds, O!Write(c) PROVE O!TypeOK'
  <2>1. /\ Head(left[c])[1] \in O!Streams /\ Head(left[c])[2] \in O!Bytes
        /\ Tail(left[c]) \in Seq(O!Streams \X O!Bytes)
    BY <1>3, OutputParts DEF O!Write
  <2>2. /\ wrote' \in [Cmds -> [O!Streams -> O!Bytes]] /\ pipe' \in [Cmds -> [O!Streams -> O!Bytes]]
        /\ style.name = "group" => term' \in Seq(Cmds \X O!Kinds \X O!Bytes)
    BY <1>3, <2>1, PutTyped DEF O!Write
  <2>3. left' \in [Cmds -> Seq(O!Streams \X O!Bytes)]
    BY <1>3, <2>1 DEF O!Write, O!TypeOK
  <2> QED
    BY <1>3, <2>2, <2>3 DEF O!Write, O!TypeOK
<1>4. ASSUME NEW c \in Cmds, O!ShellEnds(c) PROVE O!TypeOK'
  BY <1>4 DEF O!ShellEnds, O!Join, O!Blocks, O!screen, O!TypeOK
<1>5. ASSUME NEW c \in Cmds, O!ChildExits(c) PROVE O!TypeOK'
  <2>1. /\ wrote' \in [Cmds -> [O!Streams -> O!Bytes]] /\ pipe' \in [Cmds -> [O!Streams -> O!Bytes]]
        /\ style.name = "group" => term' \in Seq(Cmds \X O!Kinds \X O!Bytes)
    BY <1>5, OutputParts, PutTyped DEF O!ChildExits, O!Streams
  <2> QED
    BY <1>5, <2>1 DEF O!ChildExits, O!TypeOK
<1>6. ASSUME NEW c \in Cmds, NEW s \in O!Streams, O!Drain(c, s) PROVE O!TypeOK'
  <2>1. Append(buf[c][s], Head(pipe[c][s])) \in O!Bytes /\ Tail(pipe[c][s]) \in O!Bytes
    BY <1>6, OutputParts, HeadTailProperties, AppendProperties DEF O!Drain, O!Bytes
  <2> QED
    BY <1>6, <2>1 DEF O!Drain, O!screen, O!TypeOK
<1>7. ASSUME NEW c \in Cmds, NEW s \in O!Streams, O!DrainEnds(c, s) PROVE O!TypeOK'
  BY <1>7 DEF O!DrainEnds, O!screen, O!TypeOK
<1>8. ASSUME NEW c \in Cmds, O!Finish(c) PROVE O!TypeOK'
  <2>1. style.name = "group" => \A q \in {queue', stash', term'} : q \in Seq(Cmds \X O!Kinds \X O!Bytes)
    BY <1>8, FinishTyped DEF O!Finish, O!TypeOK
  <2> QED
    BY <1>8, <2>1 DEF O!Finish, O!TypeOK
<1>9. ASSUME NEW c \in Cmds, O!Emit(c) PROVE O!TypeOK'
  <2>1. style.name = "group" => \A q \in {queue', stash', term'} : q \in Seq(Cmds \X O!Kinds \X O!Bytes)
    BY <1>9, EmitAppends DEF O!Replaying, O!Emit
  <2> QED
    BY <1>9, <2>1 DEF O!Emit, O!TypeOK
<1>10. ASSUME NEW c \in Cmds, O!Report(c) PROVE O!TypeOK'
  BY <1>10 DEF O!Report, O!screen, O!None, O!TypeOK
<1>11. ASSUME NEW c \in Cmds, O!Dropped(c) PROVE O!TypeOK'
  BY <1>11 DEF O!Dropped, O!screen, O!TypeOK
<1>12. ASSUME O!Exit PROVE O!TypeOK'
  <2>1. ASSUME style.name = "group"
        PROVE  \A q \in {queue', stash', term'} : q \in Seq(Cmds \X O!Kinds \X O!Bytes)
    <3> DEFINE Rec == Cmds \X O!Kinds \X O!Bytes
    <3>1. queue \in Seq(Rec) /\ stash \in Seq(Rec) /\ term \in Seq(Rec)
      BY <2>1 DEF O!TypeOK
    <3>2. term' = term \o stash /\ stash' = <<>> /\ queue' = queue
      BY <1>12 DEF O!Exit
    <3> HIDE DEF Rec
    <3>3. term \o stash \in Seq(Rec) /\ <<>> \in Seq(Rec)
      BY <3>1, ConcatProperties
    <3> QED
      BY <3>1, <3>2, <3>3 DEF Rec
  <2> QED
    BY <1>12, <2>1 DEF O!Exit, O!TypeOK
<1>13. ASSUME O!Done PROVE O!TypeOK'
  BY <1>13 DEF O!Done, O!vars, O!TypeOK
<1> QED
  BY <1>1, <1>2, <1>3, <1>4, <1>5, <1>6, <1>7, <1>8, <1>9, <1>10, <1>11, <1>12, <1>13 DEF O!Next, O!Step

\* A read moves the front of the pipe to the end of the buffer.
LEMMA DrainInTransit ==
  ASSUME O!ParametersOK, O!TypeOK, O!InTransit, NEW c \in Cmds, NEW s \in O!Streams, O!Drain(c, s)
  PROVE  O!InTransit'
<1> SUFFICES ASSUME NEW d \in Cmds, NEW q \in O!Streams, O!Captured(d)'
             PROVE  wrote'[d][q] = buf'[d][q] \o pipe'[d][q]
  BY DEF O!InTransit
<1>1. wrote[d][q] = buf[d][q] \o pipe[d][q]
  BY DEF O!InTransit, O!Captured, O!Drain
<1>2. CASE d = c /\ q = s
  <2> DEFINE b == buf[c][s]
             p == pipe[c][s]
  <2>1. b \in O!Bytes /\ p \in O!Bytes /\ p # <<>>
    BY OutputParts DEF O!Drain
  <2>2. wrote'[c][s] = wrote[c][s] /\ buf'[c][s] = Append(b, Head(p)) /\ pipe'[c][s] = Tail(p)
    BY DEF O!Drain, O!TypeOK
  <2> HIDE DEF b, p
  <2>3. /\ <<Head(p)>> \in O!Bytes /\ Tail(p) \in O!Bytes
        /\ Append(b, Head(p)) = b \o <<Head(p)>> /\ p = <<Head(p)>> \o Tail(p)
    BY <2>1 DEF O!Bytes
  <2>4. (b \o <<Head(p)>>) \o Tail(p) = b \o (<<Head(p)>> \o Tail(p))
    BY <2>1, <2>3, ThreeJoined, Zenon
  <2>5. wrote[c][s] = b \o p
    BY <1>1, <1>2 DEF b, p
  <2> QED
    BY <1>2, <2>2, <2>3, <2>4, <2>5
<1>3. CASE ~(d = c /\ q = s)
  BY <1>1, <1>3 DEF O!Drain, O!TypeOK
<1> QED
  BY <1>2, <1>3

LEMMA OutputInTransit ==
  ASSUME O!ParametersOK, O!TypeOK, O!InTransit, O!Next
  PROVE  O!InTransit'
<1>1. ASSUME UNCHANGED <<style, prog, wrote, buf, pipe>> PROVE O!InTransit'
  BY <1>1 DEF O!InTransit, O!Captured
<1>2. ASSUME NEW c \in Cmds, O!Write(c) PROVE O!InTransit'
  <2>1. Head(left[c])[1] \in O!Streams /\ Head(left[c])[2] \in O!Bytes
    BY <1>2, OutputParts DEF O!Write
  <2> QED
    BY <1>2, <2>1, PutInTransit DEF O!Write
<1>3. ASSUME NEW c \in Cmds, O!ChildExits(c) PROVE O!InTransit'
  BY <1>3, OutputParts, PutInTransit DEF O!ChildExits, O!Streams
<1>4. ASSUME NEW c \in Cmds, O!Acquire(c) \/ O!PreludeFails(c) \/ O!ShellEnds(c) \/ O!Finish(c)
                             \/ O!Emit(c) \/ O!Report(c) \/ O!Dropped(c)
      PROVE  O!InTransit'
  BY <1>1, <1>4 DEF O!Acquire, O!PreludeFails, O!ShellEnds, O!Finish, O!Emit, O!Report, O!Dropped
<1>5. ASSUME NEW c \in Cmds, NEW s \in O!Streams, O!DrainEnds(c, s) PROVE O!InTransit'
  BY <1>1, <1>5 DEF O!DrainEnds
<1>6. ASSUME O!Exit \/ O!Done PROVE O!InTransit'
  BY <1>1, <1>6 DEF O!Exit, O!Done, O!vars
<1> QED
  BY <1>2, <1>3, <1>4, <1>5, <1>6, DrainInTransit DEF O!Next, O!Step

\* Only a stream somebody holds is written to, and what is closed stays closed.
LEMMA OutputEnds ==
  ASSUME O!ParametersOK, O!TypeOK, O!EndsSeen, O!Next
  PROVE  O!EndsSeen'
<1>1. ASSUME NEW c \in Cmds, O!Acquire(c) PROVE O!EndsSeen'
  BY <1>1 DEF O!Acquire, O!TypeOK, O!EndsSeen, O!Captured
<1>2. ASSUME NEW c \in Cmds, O!PreludeFails(c) PROVE O!EndsSeen'
  BY <1>2 DEF O!PreludeFails, O!Join, O!TypeOK, O!EndsSeen, O!Captured
<1>3. ASSUME NEW c \in Cmds, NEW s \in O!Streams, NEW bytes \in O!Bytes, O!Put(c, s, bytes),
             eof[c] = {}, UNCHANGED eof
      PROVE  \A d \in Cmds, q \in O!Streams : q \in eof'[d] => pipe'[d][q] = <<>>
  <2> SUFFICES ASSUME NEW d \in Cmds, NEW q \in O!Streams, q \in eof[d] PROVE pipe'[d][q] = <<>>
    BY <1>3
  <2>1. d # c /\ pipe[d][q] = <<>>
    BY <1>3 DEF O!EndsSeen
  <2> QED
    BY <1>3, <2>1 DEF O!Put, O!TypeOK
<1>4. ASSUME NEW c \in Cmds, O!Write(c) PROVE O!EndsSeen'
  <2>1. Head(left[c])[1] \in O!Streams /\ Head(left[c])[2] \in O!Bytes
    BY <1>4, OutputParts DEF O!Write
  <2>2. eof[c] = {}
    BY <1>4 DEF O!Write, O!EndsSeen
  <2>3. \A d \in Cmds, q \in O!Streams : q \in eof'[d] => pipe'[d][q] = <<>>
    BY <1>3, <1>4, <2>1, <2>2 DEF O!Write
  <2>4. \A d \in Cmds : eof'[d] \subseteq O!Streams
    BY <1>4 DEF O!Write, O!TypeOK
  <2> QED
    BY <1>4, <2>3, <2>4 DEF O!Write, O!EndsSeen, O!Captured
<1>5. ASSUME NEW c \in Cmds, O!ShellEnds(c) PROVE O!EndsSeen'
  BY <1>5 DEF O!ShellEnds, O!Join, O!TypeOK, O!EndsSeen, O!Captured
<1>6. ASSUME NEW c \in Cmds, O!ChildExits(c) PROVE O!EndsSeen'
  <2>1. eof[c] = {} /\ pc[c] # "queued"
    BY <1>6 DEF O!ChildExits, O!EndsSeen
  <2>2. \A d \in Cmds, q \in O!Streams : q \in eof'[d] => pipe'[d][q] = <<>>
    BY <1>3, <1>6, <2>1, OutputParts DEF O!ChildExits, O!Streams
  <2>3. \A d \in Cmds : eof'[d] \subseteq O!Streams
    BY <1>6 DEF O!ChildExits, O!TypeOK
  <2>4. /\ holders'[c] = holders[c] \ {"child"}
        /\ \A d \in Cmds \ {c} : holders'[d] = holders[d]
    BY <1>6 DEF O!ChildExits, O!TypeOK
  <2> QED
    BY <1>6, <2>1, <2>2, <2>3, <2>4 DEF O!ChildExits, O!EndsSeen, O!Captured
<1>7. ASSUME NEW c \in Cmds, NEW s \in O!Streams, O!Drain(c, s) PROVE O!EndsSeen'
  BY <1>7 DEF O!Drain, O!TypeOK, O!EndsSeen, O!Captured
<1>8. ASSUME NEW c \in Cmds, NEW s \in O!Streams, O!DrainEnds(c, s) PROVE O!EndsSeen'
  BY <1>8 DEF O!DrainEnds, O!TypeOK, O!EndsSeen, O!Captured
<1>9. ASSUME NEW c \in Cmds, O!Finish(c) PROVE O!EndsSeen'
  BY <1>9 DEF O!Finish, O!Joined, O!TypeOK, O!EndsSeen, O!Captured
<1>10. ASSUME NEW c \in Cmds, O!Dropped(c) PROVE O!EndsSeen'
  BY <1>10 DEF O!Dropped, O!TypeOK, O!EndsSeen, O!Captured
<1>11. ASSUME NEW c \in Cmds, O!Emit(c) PROVE O!EndsSeen'
  BY <1>11 DEF O!Emit, O!EndsSeen, O!Captured
<1>12. ASSUME NEW c \in Cmds, O!Report(c) PROVE O!EndsSeen'
  BY <1>12 DEF O!Report, O!TypeOK, O!EndsSeen, O!Captured
<1>13. ASSUME O!Exit \/ O!Done PROVE O!EndsSeen'
  BY <1>13 DEF O!Exit, O!Done, O!vars, O!EndsSeen, O!Captured
<1> QED
  BY <1>1, <1>2, <1>4, <1>5, <1>6, <1>7, <1>8, <1>9, <1>10, <1>11, <1>12, <1>13 DEF O!Next, O!Step

\* A finished command whose drains were joined shows all that was written to it.
LEMMA OutputDrained ==
  ASSUME O!ParametersOK, O!TypeOK, O!InTransit, O!EndsSeen, NEW c \in Cmds,
         O!Captured(c), eof[c] = O!Streams
  PROVE  holders[c] = {} /\ \A s \in O!Streams : buf[c][s] = wrote[c][s]
<1>1. holders[c] = {}
  BY DEF O!EndsSeen, O!Streams
<1>2. ASSUME NEW s \in O!Streams PROVE buf[c][s] = wrote[c][s]
  <2>1. pipe[c][s] = <<>> /\ wrote[c][s] = buf[c][s] \o pipe[c][s]
    BY DEF O!EndsSeen, O!InTransit
  <2>2. buf[c][s] \in Seq(O!Symbols)
    BY OutputParts DEF O!Bytes
  <2> QED
    BY <2>1, <2>2, ConcatEmptySeq
<1> QED
  BY <1>1, <1>2

\* The engine belongs to the one replay there is, and its queue to that command.
LEMMA OutputEngine ==
  ASSUME O!ParametersOK, O!TypeOK, O!Replaying, O!Next, NEW d \in Cmds, pc'[d] = "writing"
  PROVE  /\ engine' = d
         /\ style.name = "group" => /\ \A i \in 1 .. Len(queue') : queue'[i][1] = d
                                    /\ ~O!Captured(d) => queue' = <<>>
<1>1. O!None \notin Cmds
  BY DEF O!ParametersOK
<1>2. \A c \in Cmds : pc[c] = "writing" =>
        /\ engine = c
        /\ style.name = "group" => /\ \A i \in 1 .. Len(queue) : queue[i][1] = c
                                   /\ ~O!Captured(c) => queue = <<>>
  BY DEF O!Replaying
<1>3. CASE pc[d] = "writing" /\ UNCHANGED <<engine, queue>>
  BY <1>2, <1>3
<1>4. ASSUME NEW c \in Cmds, O!Acquire(c) \/ O!Write(c) \/ O!ChildExits(c) \/ O!Dropped(c)
      PROVE  pc[d] = "writing" /\ UNCHANGED <<engine, queue>>
  BY <1>4 DEF O!Acquire, O!Write, O!ChildExits, O!Dropped, O!screen, O!TypeOK
<1>5. ASSUME NEW c \in Cmds, O!PreludeFails(c) \/ O!ShellEnds(c)
      PROVE  pc[d] = "writing" /\ UNCHANGED <<engine, queue>>
  <2>1. pc[c] = "running" /\ pc' = [pc EXCEPT ![c] = "joining"] /\ UNCHANGED queue
        /\ (engine = O!None \/ prog[c].boxed) /\ engine' = IF prog[c].boxed THEN engine ELSE c
    BY <1>5 DEF O!PreludeFails, O!ShellEnds, O!Join, O!Blocks, O!Polled, O!EngineFree, O!screen
  <2>2. d # c /\ pc[d] = "writing"
    BY <2>1 DEF O!TypeOK
  <2>3. engine = d
    BY <1>2, <2>2
  <2> QED
    BY <1>1, <2>1, <2>2, <2>3
<1>6. ASSUME NEW c \in Cmds, NEW s \in O!Streams, O!Drain(c, s) \/ O!DrainEnds(c, s)
      PROVE  pc[d] = "writing" /\ UNCHANGED <<engine, queue>>
  BY <1>6 DEF O!Drain, O!DrainEnds, O!screen
<1>7. CASE O!Exit \/ O!Done
  BY <1>2, <1>7 DEF O!Exit, O!Done, O!vars
<1>8. ASSUME NEW c \in Cmds, O!Finish(c)
      PROVE  /\ c = d /\ engine' = d
             /\ style.name = "group" => /\ \A i \in 1 .. Len(queue') : queue'[i][1] = d
                                        /\ ~O!Captured(d) => queue' = <<>>
  <2>1. pc[c] = "joining" /\ pc' = [pc EXCEPT ![c] = "writing"] /\ engine \in {c, O!None} /\ engine' = c
    BY <1>8 DEF O!Finish
  <2>2. c = d
    <3> SUFFICES ASSUME c # d PROVE FALSE
      OBVIOUS
    <3>1. pc[d] = "writing"
      BY <2>1 DEF O!TypeOK
    <3> QED
      BY <1>1, <1>2, <2>1, <3>1
  <2> QED
    BY <1>8, <2>1, <2>2, FinishTyped
<1>9. ASSUME NEW c \in Cmds, O!Emit(c)
      PROVE  /\ engine' = d
             /\ style.name = "group" => /\ \A i \in 1 .. Len(queue') : queue'[i][1] = d
                                        /\ ~O!Captured(d) => queue' = <<>>
  <2>1. pc[c] = "writing" /\ UNCHANGED <<pc, engine>> /\ queue # <<>>
    BY <1>9 DEF O!Emit
  <2>2. c = d /\ engine = d
    BY <1>2, <2>1
  <2>3. ASSUME style.name = "group"
        PROVE  (\A i \in 1 .. Len(queue') : queue'[i][1] = d) /\ O!Captured(d)
    BY <1>2, <1>9, <2>1, <2>2, <2>3, EmitAppends
  <2> QED
    BY <2>1, <2>2, <2>3
<1>10. ASSUME NEW c \in Cmds, O!Report(c) PROVE FALSE
  <2>1. pc[c] = "writing" /\ pc' = [pc EXCEPT ![c] = "done"]
    BY <1>10 DEF O!Report
  <2>2. d # c /\ pc[d] = "writing"
    BY <2>1 DEF O!TypeOK
  <2> QED
    BY <1>2, <2>1, <2>2
<1> QED
  BY <1>3, <1>4, <1>5, <1>6, <1>7, <1>8, <1>9, <1>10 DEF O!Next, O!Step

\* A command's block grows at the end of what is shown and stays together.
LEMMA OutputTogether ==
  ASSUME O!ParametersOK, O!OutputInd, O!Next, style.name = "group", NEW d \in Cmds, O!Captured(d)
  PROVE  /\ O!Together(d)'
         /\ pc'[d] \in {"queued", "running", "joining"} => O!Records(d)' = {}
         /\ pc'[d] = "writing" => O!AtEnd(d)'
<1> DEFINE Early == {"queued", "running", "joining"}
           Rec == Cmds \X O!Kinds \X O!Bytes
           Goal == /\ TogetherIn(O!Out', d)
                   /\ pc'[d] \in Early => NoneIn(O!Out', d)
                   /\ pc'[d] = "writing" => AtEndIn(O!Out', d)
<1>0. O!TypeOK /\ O!EndsSeen /\ O!BlocksWhole /\ O!Replaying
  BY DEF O!OutputInd
<1>1. /\ TogetherIn(O!Out, d)
      /\ pc[d] \in Early => NoneIn(O!Out, d)
      /\ pc[d] = "writing" => AtEndIn(O!Out, d)
  BY <1>0, RecordsOfOut DEF O!BlocksWhole, O!Replaying
<1>2. term \in Seq(Rec) /\ stash \in Seq(Rec) /\ queue \in Seq(Rec) /\ O!Out = term \o stash
  BY <1>0 DEF O!TypeOK, O!Out
<1> SUFFICES Goal
  BY RecordsOfOut
<1>3. ASSUME O!Out' = O!Out, pc'[d] \in Early => pc[d] \in Early,
             pc'[d] = "writing" => pc[d] \in Early \cup {"writing"}
      PROVE  Goal
  <2>1. NoneIn(O!Out, d) => AtEndIn(O!Out, d)
    BY DEF NoneIn, AtEndIn
  <2> QED
    BY <1>1, <1>3, <2>1
<1>4. ASSUME NEW c \in Cmds, NEW s \in O!Streams, NEW bytes \in O!Bytes, O!Put(c, s, bytes),
             UNCHANGED <<pc, stash>>
      PROVE  Goal
  <2>1. CASE O!Captured(c)
    BY <1>3, <1>4, <2>1 DEF O!Put, O!Out
  <2>2. CASE ~O!Captured(c)
    <3> DEFINE e == <<c, "live", bytes>>
    <3>1. e \in Rec /\ e[2] = "live" /\ e[1] # d
      BY <2>2 DEF O!Kinds
    <3>2. O!Out' = Append(term, e) \o stash
      BY <1>4, <2>2 DEF O!Put, O!Out
    <3> HIDE DEF e, Rec
    <3>3. /\ TogetherIn(O!Out, d) => TogetherIn(O!Out', d)
          /\ AtEndIn(O!Out, d) => AtEndIn(O!Out', d)
          /\ NoneIn(O!Out, d) => NoneIn(O!Out', d)
      BY <1>2, <3>1, <3>2, LiveBetween
    <3> QED
      BY <1>1, <1>4, <3>3
  <2> QED
    BY <2>1, <2>2
<1>5. ASSUME NEW c \in Cmds, O!Write(c) PROVE Goal
  <2>1. Head(left[c])[1] \in O!Streams /\ Head(left[c])[2] \in O!Bytes
    BY <1>0, <1>5, OutputParts DEF O!Write
  <2>2. O!Put(c, Head(left[c])[1], Head(left[c])[2]) /\ UNCHANGED <<pc, stash>>
    BY <1>5 DEF O!Write
  <2> HIDE DEF Goal
  <2> QED
    BY <1>4, <2>1, <2>2
<1>6. ASSUME NEW c \in Cmds, O!ChildExits(c) PROVE Goal
  <2>1. "out" \in O!Streams /\ <<"late", O!NL>> \in O!Bytes
    BY <1>0, OutputParts DEF O!Streams
  <2>2. O!Put(c, "out", <<"late", O!NL>>) /\ UNCHANGED <<pc, stash>>
    BY <1>6 DEF O!ChildExits
  <2> HIDE DEF Goal
  <2> QED
    BY <1>4, <2>1, <2>2
<1>7. ASSUME NEW c \in Cmds, O!Emit(c) PROVE Goal
  <2>1. pc[c] = "writing" /\ queue # <<>> /\ UNCHANGED pc
    BY <1>7 DEF O!Emit
  <2>2. (\A i \in 1 .. Len(queue) : queue[i][1] = c) /\ O!Captured(c) /\ engine = c
    BY <1>0, <2>1 DEF O!Replaying
  <2>3. PICK more \in Seq(Rec) : O!Out' = O!Out \o more /\ \A i \in 1 .. Len(more) : more[i][1] = c
    BY <1>0, <1>7, <2>2, EmitAppends
  <2>4. O!Out \in Seq(Rec)
    BY <1>2, ConcatProperties
  <2> HIDE DEF Rec
  <2>5. /\ AtEndIn(O!Out, c) => TogetherIn(O!Out', c) /\ AtEndIn(O!Out', c)
        /\ d # c /\ TogetherIn(O!Out, d) => TogetherIn(O!Out', d)
        /\ d # c /\ NoneIn(O!Out, d) => NoneIn(O!Out', d)
    BY <2>3, <2>4, ReplayAppended
  <2>6. CASE d = c
    BY <1>1, <2>1, <2>5, <2>6
  <2>7. CASE d # c
    <3>1. pc[d] # "writing"
      BY <1>0, <2>2, <2>7 DEF O!Replaying
    <3> QED
      BY <1>1, <2>1, <2>5, <2>7, <3>1
  <2> QED
    BY <2>6, <2>7
<1>8. ASSUME NEW c \in Cmds, O!Acquire(c) \/ O!PreludeFails(c) \/ O!ShellEnds(c) \/ O!Finish(c)
                             \/ O!Report(c) \/ O!Dropped(c)
      PROVE  Goal
  <2>1. UNCHANGED <<stash, term>>
    BY <1>8 DEF O!Acquire, O!PreludeFails, O!ShellEnds, O!Finish, O!Report, O!Dropped, O!screen
  <2>2. O!Out' = O!Out
    BY <2>1 DEF O!Out
  <2>3. pc'[d] = pc[d] \/ (pc[d] \in Early /\ pc'[d] \in {"running", "joining", "writing", "dropped"})
        \/ pc'[d] = "done"
    BY <1>0, <1>8 DEF O!Acquire, O!PreludeFails, O!ShellEnds, O!Finish, O!Report, O!Dropped, O!Join, O!TypeOK
  <2> HIDE DEF Goal
  <2> QED
    BY <1>3, <2>2, <2>3
<1>9. ASSUME NEW c \in Cmds, NEW s \in O!Streams, O!Drain(c, s) \/ O!DrainEnds(c, s) PROVE Goal
  <2>1. O!Out' = O!Out /\ UNCHANGED pc
    BY <1>9 DEF O!Drain, O!DrainEnds, O!screen, O!Out
  <2> QED
    BY <1>3, <2>1
<1>10. ASSUME O!Exit PROVE Goal
  <2>1. UNCHANGED pc /\ O!Out' = (term \o stash) \o <<>>
    BY <1>10 DEF O!Exit, O!Out
  <2>2. O!Out' = O!Out
    BY <1>2, <2>1, ConcatProperties, ConcatEmptySeq
  <2> QED
    BY <1>3, <2>1, <2>2
<1>11. ASSUME O!Done PROVE Goal
  <2>1. O!Out' = O!Out /\ UNCHANGED pc
    BY <1>11 DEF O!Done, O!vars, O!Out
  <2> QED
    BY <1>3, <2>1
<1> HIDE DEF Goal
<1> QED
  BY <1>5, <1>6, <1>7, <1>8, <1>9, <1>10, <1>11 DEF O!Next, O!Step

LEMMA OutputBlocks ==
  ASSUME O!ParametersOK, O!OutputInd, O!Next
  PROVE  O!BlocksWhole' /\ O!Replaying'
<1>1. UNCHANGED <<style, prog>>
  BY DEF O!Next, O!Step, O!Acquire, O!PreludeFails, O!Write, O!ShellEnds, O!ChildExits,
         O!Finish, O!Emit, O!Report, O!Drain, O!DrainEnds, O!Dropped, O!Exit, O!Done, O!vars
<1>2. \A d \in Cmds : O!Captured(d)' <=> O!Captured(d)
  BY <1>1 DEF O!Captured
<1>3. O!TypeOK /\ O!Replaying
  BY DEF O!OutputInd
<1>4. O!BlocksWhole'
  BY <1>1, <1>2, OutputTogether DEF O!BlocksWhole
<1>5. ASSUME NEW d \in Cmds, pc'[d] = "writing", style.name = "group", O!Captured(d) PROVE O!AtEnd(d)'
  BY <1>5, OutputTogether
<1>6. O!Replaying'
  BY <1>1, <1>2, <1>3, <1>5, OutputEngine DEF O!Replaying
<1> QED
  BY <1>4, <1>6

LEMMA OutputInductive ==
  ASSUME O!ParametersOK, O!OutputInd, [O!Next]_(O!vars)
  PROVE  O!OutputInd'
<1>1. CASE O!Next
  <2>1. O!TypeOK /\ O!InTransit /\ O!EndsSeen /\ O!Replaying
    BY DEF O!OutputInd
  <2> QED
    BY <1>1, <2>1, OutputTyped, OutputInTransit, OutputEnds, OutputBlocks DEF O!OutputInd
<1>2. CASE UNCHANGED O!vars
  <2>1. O!TypeOK' /\ O!InTransit' /\ O!EndsSeen'
    BY <1>2 DEF O!vars, O!OutputInd, O!TypeOK, O!InTransit, O!EndsSeen, O!Captured
  <2>2. O!Out' = O!Out
    BY <1>2 DEF O!vars, O!Out
  <2>3. ASSUME NEW d \in Cmds
        PROVE  /\ O!Together(d)' <=> O!Together(d)
               /\ O!AtEnd(d)' <=> O!AtEnd(d)
               /\ O!Records(d)' = {} <=> O!Records(d) = {}
    BY <2>2, RecordsOfOut
  <2>4. O!BlocksWhole' /\ O!Replaying'
    BY <1>2, <2>3 DEF O!vars, O!OutputInd, O!BlocksWhole, O!Replaying, O!Captured
  <2> QED
    BY <2>1, <2>4 DEF O!OutputInd
<1> QED
  BY <1>1, <1>2

LEMMA OutputConclusion ==
  ASSUME O!ParametersOK, O!OutputInd
  PROVE  O!Drained /\ O!BlocksWhole
<1>1. O!TypeOK /\ O!InTransit /\ O!EndsSeen /\ O!BlocksWhole
  BY DEF O!OutputInd
<1>2. ASSUME NEW c \in Cmds, pc[c] = "done", O!Captured(c)
      PROVE  holders[c] = {} /\ \A s \in O!Streams : buf[c][s] = wrote[c][s]
  <2>1. eof[c] = O!Streams
    BY <1>1, <1>2 DEF O!EndsSeen
  <2> QED
    BY <1>1, <1>2, <2>1, OutputDrained
<1> QED
  BY <1>1, <1>2 DEF O!Drained

LEMMA OutputSpec ==
  ASSUME O!ParametersOK
  PROVE  O!Spec => []O!OutputInd
<1>1. O!Init => O!OutputInd
  BY OutputInit
<1>2. O!OutputInd /\ [O!Next]_(O!vars) => O!OutputInd'
  BY OutputInductive
<1> QED
  BY <1>1, <1>2, PTL DEF O!Spec

\* For any commands, programs and output styles: when a captured command is reported
\* done, both its pipes are drained to their ends and nobody can write to them any
\* more, a process it left in the background included (CaptureDrain, finish_with).
THEOREM AllDrained ==
  ASSUME O!ParametersOK
  PROVE  O!Spec => []O!Drained
<1>1. O!OutputInd => O!Drained
  BY OutputConclusion
<1> QED
  BY <1>1, OutputSpec, PTL

\* Under the group style a command's output is one block, written in pieces, which no
\* other captured command cuts: only a command that has the terminal to itself writes
\* between them.  None of it shows before the command ended (GroupBuf::flush_block,
\* exec_shell).
THEOREM BlocksUncut ==
  ASSUME O!ParametersOK
  PROVE  O!Spec => []O!BlocksWhole
<1>1. O!OutputInd => O!BlocksWhole
  BY OutputConclusion
<1> QED
  BY <1>1, OutputSpec, PTL

-----------------------------------------------------------------------------
(* The process *)

\* A behaviour of the process is one of its parts throughout.
LEMMA PartStays == [Next]_everything => part' = part
BY DEF Next, everything

\* Whatever the other parts do, the answers of a reading are those of one thread and
\* its permits go back (fingerprint/pool.rs, offload.rs).
THEOREM ReadingIsSound == Spec => []ReadingSound
<1> DEFINE Ind == part = "reading" => Budgeted
<1>1. Init => Ind
  BY ReadingParameters, ReadingInit, InitBudget DEF Init, Budgeted
<1>2. Ind /\ [Next]_everything => Ind'
  <2> SUFFICES ASSUME Budgeted, part = "reading", [Next]_everything PROVE Budgeted'
    BY PartStays
  <2>1. [R!Next]_(R!vars)
    BY DEF Next, everything, ownReading, R!vars
  <2> QED
    BY <2>1, ReadingParameters, ReadingKept
<1>3. Ind => ReadingSound
  BY DEF ReadingSound, Budgeted, R!ReadingInd
<1> QED
  BY <1>1, <1>2, <1>3, PTL DEF Spec

\* A command denied a call fails, and what is reported of denials is what happened
\* and is shown (sandbox/mod.rs, seccomp.rs).
THEOREM SupervisorIsSound == Spec => []SupervisorSound
<1> DEFINE Ind == part = "supervisor" => S!SupervisorInd
<1>1. Init => Ind
  BY SupervisorParameters, SupervisorInit DEF Init
<1>2. Ind /\ [Next]_everything => Ind'
  <2> SUFFICES ASSUME S!SupervisorInd, part = "supervisor", [Next]_everything PROVE S!SupervisorInd'
    BY PartStays
  <2>1. [S!Next]_(S!vars)
    BY DEF Next, everything, ownSupervisor, S!vars
  <2> QED
    BY <2>1, SupervisorParameters, SupervisorInductive
<1>3. Ind => SupervisorSound
  BY DEF SupervisorSound, S!SupervisorInd, S!NothingUnshown, S!ToBeShown
<1> QED
  BY <1>1, <1>2, <1>3, PTL DEF Spec

\* Every command is stopped or told of, no stranger is signalled, and a forced shutdown
\* ends as one (reap.rs, executor/signals.rs).
THEOREM CommandsAreReaped == Spec => []CommandsReaped
<1> DEFINE Ind == part = "reap" => K!ReapInd
<1>1. Init => Ind
  BY ReapParameters, ReapInit DEF Init
<1>2. Ind /\ [Next]_everything => Ind'
  <2> SUFFICES ASSUME K!ReapInd, part = "reap", [Next]_everything PROVE K!ReapInd'
    BY PartStays
  <2>1. [K!Next]_(K!vars)
    BY DEF Next, everything, ownReap, K!vars
  <2> QED
    BY <2>1, ReapParameters, ReapInductive
<1>3. Ind => CommandsReaped
  BY ReapConclusion DEF CommandsReaped
<1> QED
  BY <1>1, <1>2, <1>3, PTL DEF Spec

\* The installed binary is whole at every moment, and an update that fails leaves
\* nothing (task/src/update.rs).
THEOREM UpdateIsSafe == Spec => UpdateSafe
<1> DEFINE Ind == part = "update" => U!UpdateInd
<1>1. Init => Ind
  BY UpdateParameters, UpdateInit DEF Init
<1>2. ASSUME part = "update", [Next]_everything PROVE [U!Next]_(U!vars)
  BY <1>2 DEF Next, everything, ownUpdate, U!vars
<1>3. Ind /\ [Next]_everything => Ind'
  BY <1>2, PartStays, UpdateParameters, UpdateInductive
<1>4. Ind => (part = "update" => U!Installed)
  BY UpdateInstalled
<1>5. Ind /\ [Next]_everything => [part = "update" => U!NothingLeftBy]_<<part, file, dir, disk, upd>>
  BY <1>2, UpdateParameters, UpdateLeavesNothing
<1> QED
  BY <1>1, <1>3, <1>4, <1>5, PTL DEF Spec, UpdateSafe

\* Whatever the other parts do, a captured command is drained to the end before it is
\* done, and the blocks of grouped ones do not cut each other (execext.rs,
\* output/group.rs).
THEOREM OutputIsShown == Spec => [](part = "output" => O!Drained /\ O!BlocksWhole)
<1> DEFINE Ind == part = "output" => O!OutputInd
<1>1. Init => Ind
  BY OutputParameters, OutputInit DEF Init
<1>2. Ind /\ [Next]_everything => Ind'
  <2> SUFFICES ASSUME O!OutputInd, part = "output", [Next]_everything PROVE O!OutputInd'
    BY PartStays
  <2>1. [O!Next]_(O!vars)
    BY DEF Next, everything, ownOutput, O!vars
  <2> QED
    BY <2>1, OutputParameters, OutputInductive
<1>3. Ind => (part = "output" => O!Drained /\ O!BlocksWhole)
  BY OutputParameters, OutputConclusion
<1> QED
  BY <1>1, <1>2, <1>3, PTL DEF Spec
=============================================================================
