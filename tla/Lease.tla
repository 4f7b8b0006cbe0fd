------------------------------- MODULE Lease -------------------------------
(***************************************************************************)
(* The remote backends of cache.lock for one lock name: the vk-registry    *)
(* lease of ocicas::Locker and the Redis key of RedisLocker, with their    *)
(* heartbeats, lost replies, time-outs and owner-checked releases.         *)
(*                                                                         *)
(* A unit of time is one heartbeat interval (10 s); TTL, LEASE_TTL and     *)
(* LOCK_TTL_SECS in the code, is 3 of them.  Time only passes when nothing *)
(* is overdue: the runtime polls its timers, and a request is answered or  *)
(* times out.                                                              *)
(***************************************************************************)
EXTENDS Naturals

CONSTANTS Procs,    \* runs that ask for the lock, each once
          NoProc,   \* the server knows no owner
          TTL,      \* the lease, in heartbeat intervals
          MaxLate   \* cap of the ghost clock late

Backends == {"vk", "redis"}

VARIABLES
  backend,  \* the scheme of cache.lock
  owner,    \* server: whose token the name carries
  ttl,      \* server: time left before it lapses
  stage,    \* of each run
  wait,     \* time the reply to an acquire has been under way
  age,      \* last_ok.elapsed(), as the heartbeat task sees it
  beat,     \* the heartbeat task: idle, due, and the renewal under way
  old,      \* the renewal has been under way for one interval
  lost,     \* the latched is_lost
  late      \* ghost: how long a holder has gone on without owning the name

server == <<owner, ttl>>
hb     == <<age, beat, old>>
vars   == <<backend, server, stage, wait, hb, lost, late>>

Stages  == {"idle", "asking", "granted", "waiting", "held", "local", "out", "gone"}
InReply == {"sent", "kept", "disowned", "unheard"}   \* a renewal: not yet landed, and as answered

\* How long a reply may be under way.  vk: the time-out of Locker::acquire's request is
\* POLL_CAP beyond the wait it asks for, itself at most POLL_CAP, and the server may
\* grant the name at once: 60 s.  redis: ACQUIRE_IO_TIMEOUT.
LongestReply == 6
ReplyTime    == IF backend = "vk" THEN LongestReply ELSE 1

TypeOK ==
  /\ backend \in Backends
  /\ owner \in Procs \cup {NoProc} /\ ttl \in 0..TTL
  /\ stage \in [Procs -> Stages]
  /\ wait \in [Procs -> 0..LongestReply] /\ age \in [Procs -> 0..TTL]
  /\ beat \in [Procs -> {"none", "due"} \cup InReply] /\ old \in [Procs -> BOOLEAN]
  /\ lost \in [Procs -> BOOLEAN] /\ late \in [Procs -> 0..MaxLate]

Init ==
  /\ backend \in Backends
  /\ owner = NoProc /\ ttl = 0
  /\ stage = [p \in Procs |-> "idle"]
  /\ wait = [p \in Procs |-> 0] /\ age = [p \in Procs |-> 0]
  /\ beat = [p \in Procs |-> "none"] /\ old = [p \in Procs |-> FALSE]
  /\ lost = [p \in Procs |-> FALSE] /\ late = [p \in Procs |-> 0]

Goto(p, s) == stage' = [stage EXCEPT ![p] = s]
Capped(n, cap) == IF n < cap THEN n + 1 ELSE cap

\* A holder with no evidence of having lost the lease.
Believes(p) == stage[p] = "held" /\ ~lost[p]

\* The run leaves: its heartbeat stops and its guard is gone.
Left(p, s) ==
  /\ Goto(p, s)
  /\ wait' = [wait EXCEPT ![p] = 0] /\ age' = [age EXCEPT ![p] = 0]
  /\ beat' = [beat EXCEPT ![p] = "none"] /\ old' = [old EXCEPT ![p] = FALSE]
  /\ lost' = [lost EXCEPT ![p] = FALSE] /\ late' = [late EXCEPT ![p] = 0]

-----------------------------------------------------------------------------
(* Acquiring                                                               *)

Ask(p) ==
  /\ stage[p] \in {"idle", "waiting"}
  /\ Goto(p, "asking")
  /\ UNCHANGED <<backend, server, wait, hb, lost, late>>

\* POST /lock/acquire: the server grants a name nobody owns, now or during the
\* long-poll, and its TTL starts.
VkAcquire(p) ==
  /\ backend = "vk"
  /\ stage[p] = "asking"
  /\ \/ /\ owner = NoProc
        /\ owner' = p /\ ttl' = TTL
        /\ wait' = [wait EXCEPT ![p] = 0]
        /\ Goto(p, "granted")
     \/ /\ owner # NoProc            \* 409
        /\ Goto(p, "waiting")
        /\ UNCHANGED <<server, wait>>
  /\ UNCHANGED <<backend, hb, lost, late>>

\* SET key owner NX EX 30
RedisSet(p) ==
  /\ backend = "redis"
  /\ stage[p] = "asking"
  /\ \/ /\ owner = NoProc
        /\ owner' = p /\ ttl' = TTL
        /\ wait' = [wait EXCEPT ![p] = 0]
        /\ Goto(p, "granted")
     \/ /\ owner # NoProc            \* nil
        /\ Goto(p, "waiting")
        /\ UNCHANGED <<server, wait>>
  /\ UNCHANGED <<backend, hb, lost, late>>

\* The grant reaches the run; last_ok is the time of the reply, not of the grant.
Hold(p) ==
  /\ stage[p] = "granted"
  /\ Goto(p, "held")
  /\ wait' = [wait EXCEPT ![p] = 0] /\ age' = [age EXCEPT ![p] = 0]
  /\ UNCHANGED <<backend, server, beat, old, lost, late>>

\* Locker::lock gives up: a failed or refused request, a reply that is lost after the
\* server granted the name, the contention time-out.
VkLockFails(p) ==
  /\ backend = "vk"
  /\ stage[p] \in {"asking", "granted", "waiting"}
  /\ Left(p, "local")
  /\ UNCHANGED <<backend, server>>

\* RedisLocker::lock gives up: connection failures for CONNECT_GIVE_UP, a failed SET
\* whether or not it took effect, the contention time-out.
RedisLockFails(p) ==
  /\ backend = "redis"
  /\ stage[p] \in {"asking", "granted", "waiting"}
  /\ Left(p, "local")
  /\ UNCHANGED <<backend, server>>

-----------------------------------------------------------------------------
(* The heartbeat                                                           *)

SendRenew(p) ==
  /\ Believes(p)
  /\ beat[p] = "due"
  /\ beat' = [beat EXCEPT ![p] = "sent"]
  /\ old' = [old EXCEPT ![p] = FALSE]
  /\ UNCHANGED <<backend, server, stage, wait, age, lost, late>>

\* RENEW_LUA, and the server's /lock/renew: only the owner's lease is extended.
ServeRenew(p) ==
  /\ beat[p] = "sent"
  /\ IF owner = p
       THEN ttl' = TTL /\ beat' = [beat EXCEPT ![p] = "kept"]
       ELSE beat' = [beat EXCEPT ![p] = "disowned"] /\ UNCHANGED ttl
  /\ UNCHANGED <<backend, owner, stage, wait, age, old, lost, late>>

\* The reply, or the request, is lost: nothing is established.
LoseRenew(p) ==
  /\ beat[p] \in {"sent", "kept", "disowned"}
  /\ beat' = [beat EXCEPT ![p] = "unheard"]
  /\ UNCHANGED <<backend, server, stage, wait, age, old, lost, late>>

\* lease_lost: the server disowned the run, or a whole TTL went by unconfirmed.
LeaseLost(answer, since) ==
  answer = "disowned" \/ (answer = "unheard" /\ since >= TTL)

\* key_lost: the same rule over what RENEW_LUA returned.
KeyLost(answer, since) ==
  answer = "disowned" \/ (answer = "unheard" /\ since >= TTL)

\* The heartbeat task takes the answer; a ticker that fell behind fires at once.
Heard(p, gone(_, _)) ==
  LET since == IF beat[p] = "kept" THEN 0 ELSE age[p] IN
  /\ Believes(p)
  /\ beat[p] \in InReply \ {"sent"}
  /\ age' = [age EXCEPT ![p] = since]
  /\ lost' = [lost EXCEPT ![p] = gone(beat[p], since)]
  /\ beat' = [beat EXCEPT ![p] = IF old[p] /\ ~lost'[p] THEN "due" ELSE "none"]
  /\ old' = [old EXCEPT ![p] = FALSE]
  /\ UNCHANGED <<backend, server, stage, wait, late>>

VkHeartbeat(p)    == backend = "vk" /\ Heard(p, LeaseLost)
RedisHeartbeat(p) == backend = "redis" /\ Heard(p, KeyLost)

-----------------------------------------------------------------------------
(* Letting go                                                              *)

\* The mutant of Released: the name is freed whoever owns it.
Released_Unchecked(p) == NoProc

\* RELEASE_LUA, and the server's /lock/release: only the owner's lease is freed.
Released(p) == IF owner = p THEN NoProc ELSE owner

\* Lease::unlock waits for the renewal under way; a lease given up on, and one whose
\* release fails, is left to lapse.
VkUnlock(p) ==
  /\ backend = "vk"
  /\ stage[p] = "held" /\ beat[p] \in {"none", "due"}
  /\ Left(p, "out")
  /\ owner' \in IF lost[p] THEN {owner} ELSE {owner, Released(p)}
  /\ ttl' = IF owner' = NoProc THEN 0 ELSE ttl
  /\ UNCHANGED backend

\* Drop for RedisGuard: the owner-checked DEL, best effort, also for a lost key.
RedisDrop(p) ==
  /\ backend = "redis"
  /\ stage[p] = "held"
  /\ Left(p, "out")
  /\ owner' \in {owner, Released(p)}
  /\ ttl' = IF owner' = NoProc THEN 0 ELSE ttl
  /\ UNCHANGED backend

\* The run's future is dropped while it holds a vk lease (Drop for Lease cannot
\* release) or waits for either, or its process is killed: the name lapses by itself.
Gone(p) ==
  /\ stage[p] \in {"asking", "granted", "waiting", "held"}
  /\ Left(p, "gone")
  /\ UNCHANGED <<backend, server>>

-----------------------------------------------------------------------------
(* Time                                                                    *)

Overdue(p) ==
  \/ beat[p] = "due" /\ Believes(p)
  \/ beat[p] \in InReply /\ old[p]
  \/ stage[p] = "granted" /\ wait[p] >= ReplyTime

Tick ==
  /\ ttl > 0 \/ \E p \in Procs : Believes(p)
  /\ \A p \in Procs : ~Overdue(p)
  /\ ttl' = IF ttl > 0 THEN ttl - 1 ELSE 0
  /\ owner' = IF ttl > 1 THEN owner ELSE NoProc
  /\ wait' = [p \in Procs |-> IF stage[p] = "granted" THEN Capped(wait[p], LongestReply) ELSE wait[p]]
  /\ age' = [p \in Procs |-> IF Believes(p) THEN Capped(age[p], TTL) ELSE age[p]]
  /\ beat' = [p \in Procs |-> IF Believes(p) /\ beat[p] = "none" THEN "due" ELSE beat[p]]
  /\ old' = [p \in Procs |-> IF beat[p] \in InReply THEN TRUE ELSE old[p]]
  /\ late' = [p \in Procs |-> IF Believes(p) /\ owner # p THEN Capped(late[p], MaxLate) ELSE late[p]]
  /\ UNCHANGED <<backend, stage, lost>>

Step(p) ==
  \/ Ask(p) /\ stage[p] # "idle"
  \/ VkAcquire(p) \/ RedisSet(p) \/ Hold(p)
  \/ SendRenew(p) \/ ServeRenew(p) \/ VkHeartbeat(p) \/ RedisHeartbeat(p)
  \/ VkUnlock(p) \/ RedisDrop(p)

Next ==
  \/ Tick
  \/ \E p \in Procs :
       Step(p) \/ Ask(p) \/ VkLockFails(p) \/ RedisLockFails(p) \/ LoseRenew(p) \/ Gone(p)

Spec == Init /\ [][Next]_vars

-----------------------------------------------------------------------------
(* Properties                                                              *)

\* How far a holder's clock is behind its lease: last_ok is the time of the reply.  A
\* reply that takes longer than the lease (vk) finds it lapsed.
Behind == IF ReplyTime < TTL THEN ReplyTime ELSE TTL

\* How long a run may go on believing in a lease it no longer has: what its clock is
\* behind, and the renewal under way when the clock shows a TTL.
Grace == Behind + 1

\* A run whose lease lapsed stops believing in it within Grace intervals, whatever
\* replies are lost (lease_lost and key_lost, sampled by a fixed-rate ticker).
LateBounded == \A p \in Procs : Believes(p) => late[p] <= Grace
=============================================================================
