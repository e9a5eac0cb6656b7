--------------------------- MODULE TravelJobQueue ---------------------------
(***************************************************************************)
(* RedisTravelJobQueue (services/job_queue.py): the ready list, the leased  *)
(* hash with its expiry index, and the dead-letter list, shared by worker   *)
(* processes that dequeue, ack and fail, and by observers that only take a  *)
(* snapshot (which also recovers expired leases).                           *)
(*                                                                         *)
(* Every Redis command is one step: each `await` of the code is a point     *)
(* where another process runs, or where the process dies.  Clock readings   *)
(* are abstracted to two facts that time makes true: a lease is overdue     *)
(* (leased_until <= now) and a queued item is due (available_at <= now).    *)
(***************************************************************************)
EXTENDS Naturals, Sequences, FiniteSets

CONSTANTS
  Jobs,         \* job ids
  Workers,      \* processes that run TravelJobWorker
  Observers,    \* processes that call snapshot()
  LeaseIds,     \* uuid4 lease ids; reused only once nothing refers to them
  MaxAttempts,  \* JOB_QUEUE_MAX_ATTEMPTS
  MaxLapses,    \* bound: how often a live worker outlives a lease, per job
  MaxCrashes,   \* bound: process deaths in one behaviour
  NoItem, NoLease

Callers == Workers \union Observers
Item    == [job : Jobs, attempt : Nat, due : BOOLEAN]

ASSUME QueueAssumption ==
  /\ Workers \intersect Observers = {}
  /\ MaxAttempts \in Nat \ {0}
  /\ MaxLapses \in Nat
  /\ MaxCrashes \in Nat
  /\ NoItem \notin Item
  /\ NoLease \notin LeaseIds

\* A deployment runs finitely many processes, and a uuid4 has 122 random bits.
ASSUME FiniteAssumption == IsFiniteSet(Callers) /\ IsFiniteSet(LeaseIds)

VARIABLES
  ready,    \* the list self.key: items waiting for a worker, head first
  leased,   \* the hash leased_key: lease id -> item, NoItem when absent
  index,    \* the sorted set leased_index_key, as the set of its members
  overdue,  \* leases whose leased_until has passed
  dead,     \* the list dead_letter_key, order dropped
  pc,       \* where each process is between two Redis commands
  item,     \* the item a process holds in memory
  lease,    \* the lease key a process works on
  todo,     \* recover_expired_leases: expired keys still to visit
  (* History, read by no step of the code: *)
  enqueued, \* jobs some request has enqueued
  acked,    \* jobs whose lease a worker has acknowledged
  lapses,   \* how often a lease on the job has become overdue
  crashes,  \* process deaths so far
  lost      \* jobs whose item a dying process dropped

redis   == <<ready, leased, index, overdue, dead>>
local   == <<pc, item, lease, todo>>
history == <<enqueued, acked, lapses, crashes, lost>>
vars    == <<ready, leased, index, overdue, dead, pc, item, lease, todo,
             enqueued, acked, lapses, crashes, lost>>

-----------------------------------------------------------------------------
(* Program points, each named for the command that comes next.             *)

RecoverPCs == {"recover_get", "recover_drop", "recover_del",
               "recover_unindex", "recover_push"}
PCs == RecoverPCs \union
       {"idle", "pop", "put_back", "lease", "index", "holding",
        "ack_unindex", "fail_unindex", "fail_push"}

\* Points at which the item is nowhere in Redis.
InMemoryOnly == {"put_back", "lease", "recover_unindex", "recover_push",
                 "fail_unindex", "fail_push"}
\* Points at which a process dying drops the item: the above, and the lease
\* that is written but not indexed, which no recovery will ever visit.
LossWindow == InMemoryOnly \union {"index"}
\* Points of a worker that runs, or is about to run, a leased item.
Owning == {"index", "holding"}

HasItem(c)  == pc[c] \in LossWindow \union {"holding", "recover_del"}
HasLease(c) == pc[c] \in {"recover_drop", "recover_del", "recover_unindex",
                          "index", "holding", "ack_unindex", "fail_unindex"}

Init ==
  /\ ready = << >>
  /\ leased = [l \in LeaseIds |-> NoItem]
  /\ index = {} /\ overdue = {} /\ dead = {}
  /\ pc = [c \in Callers |-> "idle"]
  /\ item = [c \in Callers |-> NoItem]
  /\ lease = [c \in Callers |-> NoLease]
  /\ todo = [c \in Callers |-> {}]
  /\ enqueued = {} /\ acked = {} /\ lost = {}
  /\ lapses = [j \in Jobs |-> 0]
  /\ crashes = 0

\* uuid4: a lease id that nothing refers to any more is as good as a new one.
Unused(l) ==
  /\ leased[l] = NoItem /\ l \notin index
  /\ \A c \in Callers : lease[c] # l /\ l \notin todo[c]

Goto(c, point) == pc' = [pc EXCEPT ![c] = point]
Take(c, x, l)  == item' = [item EXCEPT ![c] = x] /\ lease' = [lease EXCEPT ![c] = l]
Finish(c)      == Goto(c, "idle") /\ Take(c, NoItem, NoLease)

(* Operators named <action>_<fault> are faulty variants of the action that  *)
(* follows them, kept to show that a property notices the fault.            *)

-----------------------------------------------------------------------------
(* enqueue: one RPUSH, of a job that has just been created.                *)
Enqueue(j) ==
  /\ j \notin enqueued
  /\ enqueued' = enqueued \union {j}
  /\ ready' = Append(ready, [job |-> j, attempt |-> 0, due |-> TRUE])
  /\ UNCHANGED <<leased, index, overdue, dead, local, acked, lapses, crashes, lost>>

(***************************************************************************)
(* recover_expired_leases, which opens both dequeue and snapshot.          *)
(***************************************************************************)

\* Where the caller of recover_expired_leases goes when no key is left.
AfterRecovery(c, rest) ==
  IF rest # {} THEN "recover_get" ELSE IF c \in Workers THEN "pop" ELSE "idle"

Scan_EveryKey(c) ==
  /\ pc[c] = "idle"
  /\ todo' = [todo EXCEPT ![c] = index]
  /\ Goto(c, AfterRecovery(c, index))
  /\ UNCHANGED <<redis, item, lease, history>>

\* ZRANGEBYSCORE index 0 now: the keys are read once, before the loop.
Scan(c) ==
  /\ pc[c] = "idle"
  /\ todo' = [todo EXCEPT ![c] = index \intersect overdue]
  /\ Goto(c, AfterRecovery(c, index \intersect overdue))
  /\ UNCHANGED <<redis, item, lease, history>>

\* HGET of the next key: the hash may have lost it since the scan.
RecoverGet(c) ==
  /\ pc[c] = "recover_get"
  /\ \E l \in todo[c] :
       /\ Take(c, leased[l], l)
       /\ Goto(c, IF leased[l] = NoItem THEN "recover_drop" ELSE "recover_del")
  /\ UNCHANGED <<redis, todo, history>>

NextKey(c) ==
  LET rest == todo[c] \ {lease[c]}
  IN  /\ todo' = [todo EXCEPT ![c] = rest]
      /\ Goto(c, AfterRecovery(c, rest))
      /\ Take(c, NoItem, NoLease)

RecoverDrop_KeyStays(c) ==
  /\ pc[c] = "recover_drop"
  /\ NextKey(c)
  /\ UNCHANGED <<redis, history>>

\* ZREM of a key whose hash entry is gone.
RecoverDrop(c) ==
  /\ pc[c] = "recover_drop"
  /\ index' = index \ {lease[c]}
  /\ NextKey(c)
  /\ UNCHANGED <<ready, leased, overdue, dead, history>>

RecoverDelete(c) ==
  /\ pc[c] = "recover_del"
  /\ leased' = [leased EXCEPT ![lease[c]] = NoItem]
  /\ Goto(c, "recover_unindex")
  /\ UNCHANGED <<ready, index, overdue, dead, item, lease, todo, history>>

RecoverUnindex(c) ==
  /\ pc[c] = "recover_unindex"
  /\ index' = index \ {lease[c]}
  /\ Goto(c, "recover_push")
  /\ UNCHANGED <<ready, leased, overdue, dead, item, lease, todo, history>>

\* RPUSH with the attempt count it was leased with; it was due then.
RecoverPush(c) ==
  /\ pc[c] = "recover_push"
  /\ ready' = Append(ready, item[c])
  /\ NextKey(c)
  /\ UNCHANGED <<leased, index, overdue, dead, history>>

(***************************************************************************)
(* The rest of dequeue.                                                    *)
(***************************************************************************)

\* BLPOP takes the head; whether it is due is read right after.
Pop(c) ==
  /\ pc[c] = "pop" /\ ready # << >>
  /\ ready' = Tail(ready)
  /\ Take(c, Head(ready), NoLease)
  /\ Goto(c, IF Head(ready).due THEN "lease" ELSE "put_back")
  /\ UNCHANGED <<leased, index, overdue, dead, todo, history>>

PopTimeout(c) ==
  /\ pc[c] = "pop" /\ ready = << >>
  /\ Finish(c)
  /\ UNCHANGED <<redis, todo, history>>

PutBack_Forgotten(c) ==
  /\ pc[c] = "put_back"
  /\ Finish(c)
  /\ UNCHANGED <<redis, todo, history>>

\* An item still in its backoff goes back to the tail; dequeue returns None.
PutBack(c) ==
  /\ pc[c] = "put_back"
  /\ ready' = Append(ready, item[c])
  /\ Finish(c)
  /\ UNCHANGED <<leased, index, overdue, dead, todo, history>>

\* HSET under a fresh lease id, with the attempt counted.
Delivered(x) == [x EXCEPT !.attempt = @ + 1]
WriteLease(c) ==
  /\ pc[c] = "lease"
  /\ \E l \in LeaseIds :
       /\ Unused(l)
       /\ leased' = [leased EXCEPT ![l] = Delivered(item[c])]
       /\ overdue' = overdue \ {l}
       /\ Take(c, Delivered(item[c]), l)
  /\ Goto(c, "index")
  /\ UNCHANGED <<ready, index, dead, todo, history>>

IndexLease_NotIndexed(c) ==
  /\ pc[c] = "index"
  /\ Goto(c, "holding")
  /\ UNCHANGED <<redis, item, lease, todo, history>>

\* ZADD; dequeue returns the leased item.
IndexLease(c) ==
  /\ pc[c] = "index"
  /\ index' = index \union {lease[c]}
  /\ Goto(c, "holding")
  /\ UNCHANGED <<ready, leased, overdue, dead, item, lease, todo, history>>

(***************************************************************************)
(* ack: HDEL, ZREM.  fail: ack, then RPUSH to one of the two lists.        *)
(***************************************************************************)

AckDelete(c) ==
  /\ pc[c] = "holding"
  /\ leased' = [leased EXCEPT ![lease[c]] = NoItem]
  /\ acked' = acked \union {item[c].job}
  /\ Goto(c, "ack_unindex")
  /\ UNCHANGED <<ready, index, overdue, dead, item, lease, todo,
                 enqueued, lapses, crashes, lost>>

AckUnindex(c) ==
  /\ pc[c] = "ack_unindex"
  /\ index' = index \ {lease[c]}
  /\ Finish(c)
  /\ UNCHANGED <<ready, leased, overdue, dead, todo, history>>

FailDelete_LeaseStays(c) ==
  /\ pc[c] = "holding"
  /\ Goto(c, "fail_unindex")
  /\ UNCHANGED <<redis, item, lease, todo, history>>

FailDelete(c) ==
  /\ pc[c] = "holding"
  /\ leased' = [leased EXCEPT ![lease[c]] = NoItem]
  /\ Goto(c, "fail_unindex")
  /\ UNCHANGED <<ready, index, overdue, dead, item, lease, todo, history>>

FailUnindex(c) ==
  /\ pc[c] = "fail_unindex"
  /\ index' = index \ {lease[c]}
  /\ Goto(c, "fail_push")
  /\ UNCHANGED <<ready, leased, overdue, dead, item, lease, todo, history>>

FailPush_OneTooMany(c) ==
  /\ pc[c] = "fail_push"
  /\ \/ /\ item[c].attempt > MaxAttempts
        /\ dead' = dead \union {item[c]}
        /\ ready' = ready
     \/ /\ item[c].attempt <= MaxAttempts
        /\ ready' = Append(ready, [item[c] EXCEPT !.due = FALSE])
        /\ dead' = dead
  /\ Finish(c)
  /\ UNCHANGED <<leased, index, overdue, todo, history>>

\* A retry waits retry_backoff_seconds * 2^(attempt - 1): not due yet.
FailPush(c) ==
  /\ pc[c] = "fail_push"
  /\ \/ /\ item[c].attempt >= MaxAttempts
        /\ dead' = dead \union {item[c]}
        /\ ready' = ready
     \/ /\ item[c].attempt < MaxAttempts
        /\ ready' = Append(ready, [item[c] EXCEPT !.due = FALSE])
        /\ dead' = dead
  /\ Finish(c)
  /\ UNCHANGED <<leased, index, overdue, todo, history>>

(***************************************************************************)
(* Time and failures.                                                      *)
(***************************************************************************)

BackoffElapses(i) ==
  /\ ~ ready[i].due
  /\ ready' = [ready EXCEPT ![i].due = TRUE]
  /\ UNCHANGED <<leased, index, overdue, dead, local, history>>

\* Nobody is going to ack or fail the lease any more.
Orphaned(l) == \A c \in Callers : pc[c] \in Owning => lease[c] # l

\* leased_until passes.  A lease whose owner lives may or may not be outlived.
LeaseLapses(l) ==
  /\ leased[l] # NoItem /\ l \notin overdue
  /\ Orphaned(l) \/ lapses[leased[l].job] < MaxLapses
  /\ overdue' = overdue \union {l}
  /\ lapses' = [lapses EXCEPT ![leased[l].job] = @ + 1]
  /\ UNCHANGED <<ready, leased, index, dead, local, enqueued, acked, crashes, lost>>

\* The score of an index entry whose hash entry is gone passes too.
StaleKeyLapses(l) ==
  /\ leased[l] = NoItem /\ l \in index /\ l \notin overdue
  /\ overdue' = overdue \union {l}
  /\ UNCHANGED <<ready, leased, index, dead, local, history>>

\* The process dies (or an exception leaves run_once, which ends it) and is
\* started again: everything in its memory is gone.
Crash(c) ==
  /\ pc[c] # "idle" /\ crashes < MaxCrashes
  /\ crashes' = crashes + 1
  /\ lost' = IF pc[c] \in LossWindow THEN lost \union {item[c].job} ELSE lost
  /\ todo' = [todo EXCEPT ![c] = {}]
  /\ Finish(c)
  /\ UNCHANGED <<redis, enqueued, acked, lapses>>

Recover(c) ==
  \/ Scan(c) \/ RecoverGet(c) \/ RecoverDrop(c)
  \/ RecoverDelete(c) \/ RecoverUnindex(c) \/ RecoverPush(c)
Dequeue(w) ==
  \/ Pop(w) \/ PopTimeout(w) \/ PutBack(w) \/ WriteLease(w) \/ IndexLease(w)
Ack(w)  == AckDelete(w) \/ AckUnindex(w)
Fail(w) == FailDelete(w) \/ FailUnindex(w) \/ FailPush(w)

Worker(w) == Recover(w) \/ Dequeue(w) \/ Ack(w) \/ Fail(w)
Time ==
  \/ \E i \in DOMAIN ready : BackoffElapses(i)
  \/ \E l \in LeaseIds : LeaseLapses(l) \/ StaleKeyLapses(l)

Next ==
  \/ \E j \in Jobs : Enqueue(j)
  \/ \E c \in Callers : Recover(c)
  \/ \E w \in Workers : Dequeue(w) \/ Ack(w) \/ Fail(w)
  \/ Time
  \/ \E c \in Callers : Crash(c)

Spec == Init /\ [][Next]_vars

(* The worker command is `while True: run_once()` and the supervisor starts *)
(* it again, so every worker keeps taking its next step; a request that has *)
(* begun a recovery goes on with it; clocks advance, so a backoff ends (also *)
(* of an item that workers keep passing through their memory, hence SF) and *)
(* the lease of nobody lapses.  Nothing makes a client enqueue, an observer *)
(* look, a live worker outlive its lease or a process die.                  *)
OrphanLapses ==
  \E l \in LeaseIds : StaleKeyLapses(l) \/ (Orphaned(l) /\ LeaseLapses(l))
BackoffEnds  == \E i \in DOMAIN ready : BackoffElapses(i)

Fairness ==
  /\ \A w \in Workers : WF_vars(Worker(w))
  /\ \A o \in Observers : WF_vars(pc[o] # "idle" /\ Recover(o))
  /\ SF_vars(BackoffEnds)
  /\ WF_vars(OrphanLapses)

FairSpec == Spec /\ Fairness
-----------------------------------------------------------------------------
(***************************************************************************)
(* Properties.                                                             *)
(***************************************************************************)

InReady(j) == \E i \in DOMAIN ready : ready[i].job = j
InHand(j)  == \E c \in Callers : pc[c] \in InMemoryOnly /\ item[c].job = j
InDead(j)  == \E x \in dead : x.job = j
\* A lease that recovery will find, or whose owner is about to index it.
Found(l) == l \in index \/ \E c \in Callers : pc[c] = "index" /\ lease[c] = l
InLease(j) == \E l \in LeaseIds : leased[l] # NoItem /\ leased[l].job = j /\ Found(l)

\* Every variable has its type; a process that needs an item or a lease has it.
TypeOK ==
  /\ ready \in Seq(Item)
  /\ leased \in [LeaseIds -> Item \union {NoItem}]
  /\ index \subseteq LeaseIds /\ overdue \subseteq LeaseIds
  /\ dead \subseteq Item
  /\ pc \in [Callers -> PCs]
  /\ item \in [Callers -> Item \union {NoItem}]
  /\ lease \in [Callers -> LeaseIds \union {NoLease}]
  /\ todo \in [Callers -> SUBSET LeaseIds]
  /\ enqueued \subseteq Jobs /\ acked \subseteq Jobs /\ lost \subseteq Jobs
  /\ lapses \in [Jobs -> Nat]
  /\ crashes \in Nat
  /\ \A c \in Callers : /\ HasItem(c) => item[c] \in Item
                        /\ HasLease(c) => lease[c] \in LeaseIds

\* Between the non-atomic Redis commands of dequeue, ack, fail and recovery a
\* job never falls through: it is waiting, leased where recovery can find it,
\* carried by a process, dead-lettered or acknowledged.  Only a process dying
\* inside LossWindow can drop it.
NoJobLost ==
  \A j \in enqueued :
    \/ j \in acked \/ j \in lost
    \/ InReady(j) \/ InLease(j) \/ InHand(j) \/ InDead(j)

\* Two workers run the same job at once only after a lease on it has lapsed.
OneWorkerPerJob ==
  \A v, w \in Workers :
    pc[v] = "holding" /\ pc[w] = "holding" /\ v # w /\ item[v].job = item[w].job
      => lapses[item[v].job] > 0

\* A delivery takes one attempt; failures stop at max_attempts, so only lapses
\* can push a job over it, one attempt each, however many copies they made.
RetryBudget ==
  /\ \A i \in DOMAIN ready : ready[i].attempt < MaxAttempts + lapses[ready[i].job]
  /\ \A w \in Workers : pc[w] = "holding" =>
        item[w].attempt <= MaxAttempts + lapses[item[w].job]
  /\ \A x \in dead : x.attempt \in MaxAttempts .. MaxAttempts + lapses[x.job]

\* Where copies of a job are, a worker that still runs a lease already
\* recovered from under it included: it may yet fail the item and push it.
InMemory(j) ==
  {c \in Callers : /\ item[c] # NoItem /\ item[c].job = j
                   /\ \/ pc[c] \in InMemoryOnly
                      \/ pc[c] = "holding" /\ leased[lease[c]] = NoItem}
ReadyOf(j) == {i \in DOMAIN ready : ready[i].job = j}
LeasesOf(j) == {l \in LeaseIds : leased[l] # NoItem /\ leased[l].job = j}
DeadOf(j) == {x \in dead : x.job = j}
Copies(j) ==
  Cardinality(ReadyOf(j)) + Cardinality(LeasesOf(j)) + Cardinality(InMemory(j))
  + Cardinality(DeadOf(j)) + Cardinality(acked \intersect {j})

\* Recovery duplicates a job only when a lease lapsed, and one lapse makes at
\* most one extra copy for each other process that may be reading the hash.
DuplicationBound ==
  \A j \in Jobs : Copies(j) <= 1 + lapses[j] * (Cardinality(Callers) - 1)

\* Every enqueued job is acknowledged or dead-lettered in the end, whatever
\* interleaving, lapse or crash it meets outside LossWindow: a crashed worker's
\* lease lapses, recovery finds it and another worker finishes it.
EveryJobSettles ==
  \A j \in Jobs : (j \in enqueued) ~> (j \in acked \/ InDead(j) \/ j \in lost)

\* An index entry never stays for ever, whether its owner acks or fails it,
\* recovery returns it, or a process died between the HDEL and the ZREM.
LeasesAreReturned ==
  \A l \in LeaseIds : (l \in index) ~> (l \notin index)
=============================================================================
