--------------------------- MODULE TravelJobSystem --------------------------
(***************************************************************************)
(* The asynchronous job path in queue mode: the API handlers that create a  *)
(* job and enqueue it (api/routes.py), the worker's run_once                *)
(* (services/job_worker.py), the Redis job store (services/job_store.py),   *)
(* the engagement feed that the API process writes into the same record     *)
(* (services/engagement_feed_service.py) and the client's event stream,     *)
(* over the queue of TravelJobQueue.                                        *)
(*                                                                         *)
(* A store operation is a GET and a SET of the whole record: two steps.     *)
(***************************************************************************)
EXTENDS TravelJobQueue

CONSTANTS
  GeneralQuestions,  \* jobs of kind "general_question"; the rest are DIY
  QaConfigured,      \* whether the workers were given a qa_service_factory
  Flaky,             \* jobs whose answering service may raise
  Expiring,          \* jobs whose record may reach its TTL
  Feeds,             \* jobs whose engagement feed may write after the enqueue
  NoRecord

JobStatus == {"queued", "running", "completed", "failed"}
Record    == [status : JobStatus, answered : BOOLEAN]

ASSUME SystemAssumption ==
  /\ GeneralQuestions \subseteq Jobs /\ Flaky \subseteq Jobs /\ Expiring \subseteq Jobs
  /\ Feeds \subseteq Jobs
  /\ QaConfigured \in BOOLEAN
  /\ NoRecord \notin Record

VARIABLES
  record,  \* the job store: job id -> [status, answered], NoRecord when absent
  stage,   \* where a worker is in run_once while it holds an item
  seen,    \* the record a worker read last
  feed,    \* the record a job's engagement feed read last
  told,    \* the terminal event the client's stream ended with, or "none"
  (* History: *)
  stale    \* jobs whose record the feed put back to an older state

sysvars == <<record, stage, seen, feed, told, stale>>
allvars == <<ready, leased, index, overdue, dead, pc, item, lease, todo,
             enqueued, acked, lapses, crashes, lost,
             record, stage, seen, feed, told, stale>>

Stages    == {"none", "fetch", "mark_get", "mark_set", "answering", "complete_get",
              "complete_set", "fail_get", "fail_set", "ack", "fail"}

SysInit ==
  /\ Init
  /\ record = [j \in Jobs |-> NoRecord]
  /\ stage = [w \in Workers |-> "none"]
  /\ seen = [w \in Workers |-> NoRecord]
  /\ feed = [j \in Jobs |-> NoRecord]
  /\ told = [j \in Jobs |-> "none"]
  /\ stale = {}

-----------------------------------------------------------------------------
(* The API: job_store.create, later job_queue.enqueue.  A handler that dies *)
(* in between leaves a record no worker will ever see.                      *)

CreateJob(j) ==
  /\ record[j] = NoRecord /\ j \notin enqueued
  /\ record' = [record EXCEPT ![j] = [status |-> "queued", answered |-> FALSE]]
  /\ UNCHANGED <<vars, stage, seen, feed, told, stale>>

EnqueueJob(j) ==
  /\ record[j] # NoRecord
  /\ Enqueue(j)
  /\ UNCHANGED sysvars

\* _travel_job_event_stream polls the record until it is terminal or gone.
StreamPoll(j) ==
  /\ j \in enqueued /\ told[j] = "none"
  /\ \/ record[j] = NoRecord /\ told' = [told EXCEPT ![j] = "failed"]
     \/ /\ record[j] # NoRecord /\ record[j].status \in {"completed", "failed"}
        /\ told' = [told EXCEPT ![j] = record[j].status]
  /\ UNCHANGED <<vars, record, stage, seen, feed, stale>>

RecordExpires(j) ==
  /\ j \in Expiring \intersect enqueued /\ record[j] # NoRecord
  /\ record' = [record EXCEPT ![j] = NoRecord]
  /\ UNCHANGED <<vars, stage, seen, feed, told, stale>>

\* update_engagement_feed, GET then SET, in the API process: the feed starts
\* before the enqueue and goes on while a worker runs the job.  Only what the
\* SET does to the other fields is kept; a GET whose SET the feed's timeout
\* cancelled is followed by another.
FeedGet(j) ==
  /\ j \in Feeds /\ record[j] # NoRecord
  /\ feed' = [feed EXCEPT ![j] = record[j]]
  /\ UNCHANGED <<vars, record, stage, seen, told, stale>>

FeedSet(j) ==
  /\ feed[j] # NoRecord
  /\ record' = [record EXCEPT ![j] = feed[j]]
  /\ feed' = [feed EXCEPT ![j] = NoRecord]
  /\ stale' = IF record[j] = feed[j] THEN stale ELSE stale \union {j}
  /\ UNCHANGED <<vars, stage, seen, told>>

-----------------------------------------------------------------------------
(* run_once: what the worker does with the item that dequeue returned.     *)

At(w, s) == pc[w] = "holding" /\ stage[w] = s
Job(w)   == item[w].job
Proceed(w, s) == stage' = [stage EXCEPT ![w] = s]

\* The rest of a step that ends run_once, normally or by the process dying.
Leave(w) == Proceed(w, "none") /\ seen' = [seen EXCEPT ![w] = NoRecord]

\* A store operation that finds no record raises out of run_once, and the
\* worker command dies with it: the lease stays behind.
Abort(w) ==
  /\ Finish(w) /\ Leave(w)
  /\ UNCHANGED <<redis, todo, history, record, feed, told, stale>>

Fetch_NotMarked(w) ==
  /\ At(w, "fetch")
  /\ Proceed(w, IF record[Job(w)] = NoRecord THEN "ack" ELSE "answering")
  /\ UNCHANGED <<vars, record, seen, feed, told, stale>>

\* job_store.get: a job that is gone is acknowledged.
Fetch(w) ==
  /\ At(w, "fetch")
  /\ Proceed(w, IF record[Job(w)] = NoRecord THEN "ack" ELSE "mark_get")
  /\ UNCHANGED <<vars, record, seen, feed, told, stale>>

\* The GET that opens mark_running, complete and fail.
ReadRecord(w, from, to) ==
  /\ At(w, from)
  /\ \/ /\ record[Job(w)] # NoRecord
        /\ seen' = [seen EXCEPT ![w] = record[Job(w)]]
        /\ Proceed(w, to)
        /\ UNCHANGED <<vars, record, feed, told, stale>>
     \/ record[Job(w)] = NoRecord /\ Abort(w)

\* The SET that closes it: the record that was read, with the fields changed.
WriteRecord(w, from, new, to) ==
  /\ At(w, from)
  /\ record' = [record EXCEPT ![Job(w)] = new]
  /\ seen' = [seen EXCEPT ![w] = NoRecord]
  /\ Proceed(w, to)
  /\ UNCHANGED <<vars, feed, told, stale>>

\* mark_running, then the branch on the kind: a general question without a
\* qa_service_factory goes straight to fail.
MarkGet(w) == ReadRecord(w, "mark_get", "mark_set")

MarkSet(w) ==
  WriteRecord(w, "mark_set", [seen[w] EXCEPT !.status = "running"],
              IF Job(w) \in GeneralQuestions /\ ~ QaConfigured
              THEN "fail_get" ELSE "answering")

Answer_ExceptionAcked(w) ==
  /\ At(w, "answering")
  /\ \/ Proceed(w, "complete_get")
     \/ Job(w) \in Flaky /\ Proceed(w, "ack")
  /\ UNCHANGED <<vars, record, seen, feed, told, stale>>

\* service.answer returns, or raises.
Answer(w) ==
  /\ At(w, "answering")
  /\ \/ Proceed(w, "complete_get")
     \/ Job(w) \in Flaky /\ Proceed(w, "fail_get")
  /\ UNCHANGED <<vars, record, seen, feed, told, stale>>

CompleteGet(w) == ReadRecord(w, "complete_get", "complete_set")
CompleteSet_StatusFirst(w) ==
  WriteRecord(w, "complete_set", [seen[w] EXCEPT !.status = "completed"], "ack")
CompleteSet(w) ==
  WriteRecord(w, "complete_set", [status |-> "completed", answered |-> TRUE], "ack")

FailGet(w) == ReadRecord(w, "fail_get", "fail_set")

FailSet_NotAStatus(w) ==
  WriteRecord(w, "fail_set", [seen[w] EXCEPT !.status = "error"], "fail")

FailSet_ThenAck(w) ==
  WriteRecord(w, "fail_set", [seen[w] EXCEPT !.status = "failed"], "ack")

FailSet(w) ==
  WriteRecord(w, "fail_set", [seen[w] EXCEPT !.status = "failed"], "fail")

\* The queue's ack and fail, called where run_once calls them.
AckItem(w)  == At(w, "ack") /\ AckDelete(w) /\ Leave(w)
               /\ UNCHANGED <<record, feed, told, stale>>
FailItem(w) == At(w, "fail") /\ FailDelete(w) /\ Leave(w)
               /\ UNCHANGED <<record, feed, told, stale>>

Leased(w) == IndexLease(w) /\ Proceed(w, "fetch")
             /\ UNCHANGED <<record, seen, feed, told, stale>>

RunOnce(w) ==
  \/ Fetch(w) \/ MarkGet(w) \/ MarkSet(w) \/ Answer(w)
  \/ CompleteGet(w) \/ CompleteSet(w) \/ FailGet(w) \/ FailSet(w)
  \/ AckItem(w) \/ FailItem(w) \/ Leased(w)
  \/ /\ \/ Pop(w) \/ PopTimeout(w) \/ PutBack(w) \/ WriteLease(w)
        \/ AckUnindex(w) \/ FailUnindex(w) \/ FailPush(w)
     /\ UNCHANGED sysvars

Recovering(c) == Recover(c) /\ UNCHANGED sysvars

Dies(c) ==
  /\ Crash(c)
  /\ stage' = [w \in Workers |-> IF w = c THEN "none" ELSE stage[w]]
  /\ seen' = [w \in Workers |-> IF w = c THEN NoRecord ELSE seen[w]]
  /\ UNCHANGED <<record, feed, told, stale>>

SysNext ==
  \/ \E j \in Jobs :
       \/ CreateJob(j) \/ EnqueueJob(j) \/ StreamPoll(j) \/ RecordExpires(j)
       \/ FeedGet(j) \/ FeedSet(j)
  \/ \E w \in Workers : RunOnce(w)
  \/ \E c \in Callers : Recovering(c) \/ Dies(c)
  \/ Time /\ UNCHANGED sysvars

SysSpec == SysInit /\ [][SysNext]_allvars

SysFairness ==
  /\ \A w \in Workers : WF_allvars(RunOnce(w) \/ Recovering(w))
  /\ \A o \in Observers : WF_allvars(pc[o] # "idle" /\ Recovering(o))
  /\ SF_allvars(BackoffEnds /\ UNCHANGED sysvars)
  /\ WF_allvars(OrphanLapses /\ UNCHANGED sysvars)

SysFairSpec == SysSpec /\ SysFairness

-----------------------------------------------------------------------------
(***************************************************************************)
(* Properties.                                                             *)
(***************************************************************************)

\* Every variable has its type, and a worker is inside run_once exactly while it
\* holds an item that dequeue returned.
SysTypeOK ==
  /\ TypeOK
  /\ record \in [Jobs -> Record \union {NoRecord}]
  /\ stage \in [Workers -> Stages]
  /\ seen \in [Workers -> Record \union {NoRecord}]
  /\ told \in [Jobs -> {"none", "completed", "failed"}]
  /\ feed \in [Jobs -> Record \union {NoRecord}]
  /\ stale \subseteq Jobs
  /\ \A w \in Workers : stage[w] # "none" <=> pc[w] = "holding"

\* Jobs with a single delivery history: no lease on them lapsed, no TTL.
DeliveredOnce == {j \in Jobs \ Expiring : lapses[j] = 0}
\* Those whose record, besides, no feed has put back.
Steady == DeliveredOnce \ stale

\* The queue and the store agree about a steady job: acknowledged means
\* completed with an answer, dead-lettered or waiting for a retry means
\* failed, waiting for its first run means queued.  The two are written by
\* separate commands, in an order that must hold at every crash.
StoreMatchesQueue ==
  \A j \in Steady \intersect enqueued :
    LET r == record[j]
    IN  /\ j \in acked => r.status = "completed" /\ r.answered
        /\ InDead(j) => r.status = "failed"
        /\ \A i \in DOMAIN ready : ready[i].job = j =>
             r.status = IF ready[i].attempt = 0 THEN "queued" ELSE "failed"

\* A client whose stream ended with "completed" finds the job completed and
\* answered ever after.  (Not so "failed": a retry may still complete the job.)
ToldCompletedStays ==
  \A j \in Steady : told[j] = "completed" => record[j].status = "completed" /\ record[j].answered

\* Clients see a lifecycle that JobLifecycle allows.
Lifecycle == INSTANCE JobLifecycle WITH
  shown     <- [j \in Jobs |-> IF record[j] = NoRecord THEN "absent" ELSE record[j].status],
  disturbed <- {j \in Jobs : lapses[j] > 0} \union (Expiring \intersect enqueued),
  rewound   <- stale
ImplementsLifecycle == Lifecycle!Spec

\* Every enqueued job that no crash dropped and no feed put back comes to rest
\* with a verdict in its record: no second delivery, retry or restart leaves a
\* client with "running".
JobsGetVerdict ==
  LET Verdict(j) == record[j] # NoRecord /\ record[j].status \in {"completed", "failed"}
  IN  \A j \in Jobs \ Expiring :
        <>[](j \in enqueued /\ j \notin lost \union stale => Verdict(j))
=============================================================================
