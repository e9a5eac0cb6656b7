# Verification of the HuaXia travel system

The repository is a FastAPI backend (`src/huaxia_tourismrag`) with a Redis
store, a worker command, an Expo mobile app (`mobile/`) and a React web planner
(`frontend/`). This directory holds TLA+ models of the parts whose correctness
depends on the order in which processes, devices, Redis commands and callbacks
meet, TLC runs on small instances of them, and proofs of what matters most for
instances of any size.

Paths below are relative to the repository; `services/` stands for
`src/huaxia_tourismrag/services/`, `api/` for `src/huaxia_tourismrag/api/`.

## Inventory

| Component | State | Operations | What is hard | Here |
|---|---|---|---|---|
| Job queue, `services/job_queue.py` | Redis: ready list, leased hash, expiry index, dead-letter list | `enqueue`, `dequeue`, `ack`, `fail`, `recover_expired_leases`, `snapshot` | no operation is atomic: each is two to five commands, any process may run or die between two of them; leases expire by the clock | modelled |
| Job store, `services/job_store.py` | one JSON record per job, with a TTL | `create`, `get`, `mark_running`, `complete`, `fail`, `update_*`, `append_topic_section` | each is a GET and a SET of the whole record, from several processes | modelled (Redis) |
| Worker, `services/job_worker.py`, `cli.py` | the item in hand | `run_once` in an endless loop | failure at each step, retries, second deliveries, an exception ends the process | modelled |
| Job handlers and event stream, `api/routes.py` | none of their own | `create_*_job`, `_travel_job_event_stream`, in-process runners | record created before the item; "failed" is not final; the runner's writes against the feed's | modelled, in queue and in in-process mode |
| Engagement feed, `services/engagement_feed_service.py`, `engagement_feed_graph.py` | a part of the job record | `start_for_job`, the graph's batches, `_persist_feed` | runs in the API process while a runner or worker writes the same record; cancelled by a time limit | its writes |
| Web planner, `frontend/src/App.tsx` and `features/travel/` | active job, answer, completed job, the stream, the query cache | submit, `handleJobEvent`, `onerror`, poll, create a trip draft | late GETs, broken streams, two submissions in flight, answer and job id updated by different callbacks | partly |
| Durable approval, `services/trip_workflow_runtime.py` | workflow records, an idempotency index | `create_or_get`, `mark_*`, `run_trip_approval_workflow` | check-then-act on the index; crash between `mark_running` and `mark_completed`; stale saves of the trip | modelled |
| Trips, `services/trip_workflow.py`, `services/trip_store.py` | one JSON trip: drafts, phases, tasks, bookings, documents, audit events | some twenty operations, each GET, change, SET | lost updates; task dependencies; lifecycle | tasks, draft edits, approval, archiving |
| Task screen, `mobile/src/features/workflow/CurrentTaskScreen.tsx` | the cached task list, patches under way | complete, skip, roll back, refetch | optimistic moves against fetches, roll-backs and lost answers | partly |
| Offline task sync, `mobile/src/features/offline/`, `api/routes.py` | a queue of mutations on the device | `queueTaskStatusMutation`, `removeQueuedTaskMutation`, `syncQueuedTaskMutations`, `sync_trip_offline_task_updates` | lost requests and responses, timeouts, overlapping syncs, stale versions | modelled |
| Provider circuit breaker, `services/provider_circuit_breaker.py` | a snapshot per circuit, in one process | `record_failure`, `record_success`, `list` | states computed from a clock only when somebody calls | modelled |
| Provider budgets and costs, `services/provider_budget.py`, `provider_cost_control.py`, `embedding_circuit_breaker.py` | counters in one process | `check`, ... | window boundaries | no |
| Sessions, `services/session_store.py`, `session_reply_service.py` | one JSON session, messages, pending question | `create`, `append_reply`, `update_pending`, `complete`, `reply` | lost replies, clarification limit, stale questions, expiry, completion in queue mode | modelled |
| Notification ledger, `services/notification_delivery.py` | records per trip, one process | `record`, `list` | deduplication, quiet hours over midnight | no |
| Retention, freshness, execution events | derived from trips | `apply_trip_retention`, `record_refresh`, `append` | dates, redaction, projection by id | no |
| Caches, market store, sales handoff, incidents | independent entries | get, set, append | nothing that takes several steps to go wrong | no |
| Question answering, itineraries, retrieval, agents, corpus tools | none that lasts | `answer`, `generate`, ... | outcome is model output and text | no |
| Generated API clients, schemas, view models, static screen descriptions | none | | most of the TypeScript lines; data to text | no |

How they interact: the planner submits a job; the handler creates a record in
the store and an item in the queue; a worker leases the item, writes the record
at each stage and acks or fails the item; a stream polls the record and sends it
to the planner, which polls itself when the stream breaks; the feed writes into
the record on the side. The planner makes a trip draft from a completed job; the
trip is edited and approved. The app patches the trip's tasks, shows the result
at once, and queues the patch when there is no response; the queue is sent later
and the handler applies it with the trip store's `patch_task`, which other
requests call as well. Failed and completed provider follow-ups feed the
circuit breaker. Without a queue the handler's own process runs the job, next to
the feed. An answer that asks something back leaves a session; the user's reply
is appended to it and answered, at once or by a job.

What each part must promise:

- the queue loses no job and bounds its retries and duplicates, whatever
  interleaves; a job is run by one worker at a time while its lease holds;
  every job is acknowledged or dead-lettered in the end;
- the store tells a client what happened to its job and agrees with the queue;
- the planner shows the job it waits for and nothing else, listens until it is
  told the outcome, keeps a plan once shown, and makes drafts from that plan;
- an approval runs once, its record tells the truth about the trip, a retry
  undoes neither the record nor the user's work, and a draft is approved at last;
- the task screen settles on what the server has, and no tap is dropped in
  silence or saved twice;
- the app forgets no task update the server did not take, the server takes
  each once; no task can be started before its prerequisites;
- in in-process mode the record shows what the runner did, a job is given its
  verdict and a feed stops loading;
- a session asks no more often than the limit, is completed by a final answer,
  and takes a reply as the answer to the question the user saw;
- a circuit opens exactly when failures call for it and stays open for its
  cooldown.

## Modules

| Module | Models | Composes |
|---|---|---|
| `TravelJobQueue` | `RedisTravelJobQueue`, one action per Redis command | |
| `TravelJobSystem` | handlers, worker, store, feed and stream in queue mode | extends `TravelJobQueue` |
| `JobLifecycle` | abstract: the statuses a client of the jobs API may see | implemented by `TravelJobSystem` and `InProcessJob`, environment of `WebPlanner` |
| `InProcessJob` | one job in in-process mode: handler, runner, feed sidecar, stream, crash | implements `JobLifecycle` |
| `ReplySession` | one clarification session: replies by either route, in process or queued | |
| `WebPlanner` | the planner's job flow and its trip draft button | instantiates `JobLifecycle` as the server |
| `ApprovalWorkflow` | the approval route, the workflow store, racing writers of the trip | |
| `TripTasks` | task statuses, transitions, dependency resolution, as operators on a trip | |
| `OfflineTaskSync` | device queue, sync requests, handler, trip store, another device | extends `TripTasks` |
| `TaskScreen` | the screen's cached list, its patches and fetches, the server, another device | extends `TripTasks` |
| `ProviderBreaker` | the circuit breaker against a clock | |
| `TravelJobProofs`, `InProcessJobProofs`, `WebPlannerProofs`, `ApprovalWorkflowProofs`, `OfflineTaskSyncProofs`, `TaskScreenProofs`, `ProviderBreakerProofs`, `ReplySessionProofs` | theorems and proofs about the module they are named for | `TravelJobProofs` is about `TravelJobQueue` and `TravelJobSystem` |
| `MC*` | symmetry sets and definitions of the instances | |

`TravelJobSystem` and `InProcessJob` are checked and proved to implement `JobLifecycle`, and `WebPlanner` takes
`JobLifecycle` for its server: what the planner relies on is what the backend was
shown to provide for jobs delivered once.

An operator named `<Action>_<Fault>`, just before the action, is a faulty
variant of it: `PutBack_Forgotten` drops what `PutBack` does. It appears in no
specification. Replacing the action by it makes the property named for it in
`PROJECT.json` fail, which shows that the property looks at that code.

### TravelJobQueue

`ready`, `leased`, `index` and `dead` are the four Redis keys; `pc`, `item`,
`lease` and `todo` the local state of a process between two commands, `pc`
being named for the command that comes next. `dequeue` is `Scan`, the
`Recover*` loop, `Pop` or `PopTimeout`, then `PutBack` (item in backoff) or
`WriteLease` and `IndexLease`. `ack` is `AckDelete`, `AckUnindex`; `fail` is
`FailDelete`, `FailUnindex`, `FailPush`. An observer runs `snapshot`, which is
only the recovery.

Abstracted: timestamps. A lease is overdue or not (`LeaseLapses` makes it so at
any time when its owner is gone, and up to `MaxLapses` times per job when the
owner lives), and a queued item is due or not. `uuid4` lease ids are taken from
`LeaseIds` when nothing refers to them, which a fresh id satisfies. The in-memory queue
of the tests is not modelled. History variables (`enqueued`, `acked`, `lapses`,
`crashes`, `lost`) are read by no action of the code; `lapses` and `crashes`
also bound the environment.

### TravelJobSystem

Adds the store (`record`), the position of each worker in `run_once` (`stage`)
and the record its last GET returned (`seen`), the record an engagement feed
has read (`feed`) and the event the stream ended with (`told`). Each store
operation is a GET and a SET. `Abort` is the exception that a store operation
raises when the record has expired: nothing in `cli.py` catches it, the command
ends, and the lease stays behind. `EnqueueJob` is a step after `CreateJob`:
a handler may die in between. Progress, partial answers and topic sections are
written in in-process mode only and are in `InProcessJob`; the fields a feed
writes are dropped, and what its SET does to the other fields is kept.

The event stream's outcome (`told`) is kept because the client is told only
once: `ToldCompletedStays` says that "completed" is final.

`JobLifecycle` is what a client may rely on: absent, queued, running, then
completed (final) or failed (running again on a retry). Jobs that were
delivered a second time after a lapse, or whose record may expire, may show any
status but never "queued" again; jobs whose record the feed put back are
exempted. The refinement reads `shown` off `record`.

### InProcessJob

`runner` and `feeder` are two coroutines of one process, each with its next
operation (`op`), the copy of the record it holds between a GET and a SET, and
what it has written so far (`wrote`, read by properties, and by the model for the
stage and section that come next). `RunnerGet`/`RunnerSet` are the store
operations of the runner in the order the answering service makes them: mark,
five progress reports, the preview, sections, complete, or fail after an
exception at any point; a question back or a cached answer ends it early
(`Follow`). The sidecar's graph generates batch by batch, persisting valid ones
(`Generate`, `FeederGet`, `FeederSet`), then the final feed, then fills missing
batches from a preview (`Check`); `TimesOut` is the time limit or an exception in
the graph, at any await, after which the fallback is saved.

Abstracted: a feed is its status and number of batches; stage and percentage are
a milestone, which a failure leaves as it is. `append_topic_section` also copies
the sections into the preview. With the feed switched off there is one writer,
and nothing here can go wrong. `rewound` and `overwritten` are history: who put
back an older state of the other.

### ReplySession

A member of `Replies` is one reply: its `via` says whether `POST .../reply`
answers it (`sync`), a job of the API process (`job`) or a job of the queue
(`queue`); `step` is what its handler does next, `copy` the session it read last.
`Send` is the GET and `AppendSet` the SET of `append_reply`. `Answer` is the
answering service followed by the limit check, which uses the appended session
(`reply`) or one read after the answer (`complete_job_session`); it leads to
`update_pending` or to `complete`, each a GET and a SET. `Deliver` is the answer's
way to the client. `WorkerAnswers` is the queue's worker, which has no session
store. A handler may die, or a store operation raise, at any point (`Crash`).

Abstracted: a question is its kind, and the text, options and reason stored with
it are replaced with it; whether and what the service asks is a free choice, and
so is the quick reply the user picks. `shown` is the question on the client's
screen; `met` and `used` are the question the sender saw and the one the
answering service was told the reply is for. `dropped`, `reopened` and `muddled`
are history, and `rank` is the order of the messages.

### TripTasks and OfflineTaskSync

A trip is a status, a version (`updated_at`) and a count of audit events per
mutation id. `Updated` is `update_task` with `_resolve_task_dependencies`.
`Generated` over-approximates what `generate_operational_tasks` creates: a task
with prerequisites starts pending or blocked.

A member of `Syncs` is one call of `syncQueuedTaskMutations` at both ends: the
app's snapshot (`sent`, empty once it awaits nothing), the handler's remaining
mutations and its `latest_trip` (`todo`, `copy`), and the results (`done`).
The queue is an array that only grows at its end, in the order of the
milliseconds in the mutation ids; it is modelled as a set of mutations with
increasing ids, and the handler takes the least id next (`IsNext`).
`Read` and `Save` are the GET and the SET of `patch_task`. `GiveUp` is the
30-second timeout of the HTTP client or a restart of the app while the handler
goes on; `Lost` is a request or response that is lost. `OtherRead`/`OtherSave`
are another device's patch of a task of the same trip. Patches of other
parts of a trip are not modelled: they add lost updates of the same kind.

### WebPlanner

`activeJobId`, `latestAnswer` and `latestCompletedJobId` are the fields of the
UI store; `sseFailedJobId` and `streamedJob` the state of `App`; `stream` the
EventSource of the active job with the record its server end sent last; `query`
the cached job and the GET in flight; `view` whether `AnswerView` is mounted and
its draft mutation under way. `requests` are the two mutations that submit jobs
(the composer's three forms are one channel: its button is disabled while any is
pending). `drafts` and `failures` are history.

A step of the client is a callback with the renderings and effects it causes:
`OnSuccess` includes the effect that closes one stream and opens the next,
`Finish` the one that closes the stream of a completed job. The prefetch on
submission is part of `OnSuccess` (`Fetching`). `FetchArrives` is the response
and the effect on `jobQuery.data`, which runs whether polling is enabled or not.

Abstracted: the query cache holds the active job only (entries of other jobs are
never read again, as a job id is submitted once), and its `staleTime` is a free
choice of whether `OnError` fetches at once. A closed EventSource delivers no
queued event. The engagement feed panel, language and voice input are left out,
and so are expiry of records and the rewinding of `JobLifecycle`.

### ApprovalWorkflow

`index` and `record` are the Redis keys of `RedisTripWorkflowStore`, a record
being named by its key and its creator (a uuid in the code). A request is at the
Redis command that comes next: `Lookup`, `Create`, `SetIndex` are
`create_or_get`, `Fetch` the answer for a record that runs or has completed,
`MarkRunning`, `ReadTrip`, `Approve`, `Mark` the run. `mark_*` is a GET and a SET
whose status does not depend on what was read, hence one step. Every step may be
the last of its handler (`Crash`: its process dies, or a Redis command outside the
`try` raises). Inside the `try` any exception leads to `mark_failed` (`Raise`): the
GET of the trip raises, or its SET does, which Redis may have carried out all the
same, so that a failed record may belong to an approved trip. The editor is one other handler of the same
trip, GET and SET: an edit of the draft, a completed task, an archiving. Statuses
after "approved", date edits of approved trips, and the set of a trip's workflows
(read by a list only) are left out.

`contended` and `reverted` are history. The lookup of the index and the mark of
the record are not atomic, so two requests that meet in between may both run:
that is what the code does, and `OneRun`, `CompletedStays` and `ProgressKept` say
what holds outside that window, including after crashes, exceptions, failed runs and retries
under other keys. `CompletedIsTrue` needs no such exemption, only that no edit
that had read the draft was saved over the approval.

### TaskScreen

`shown` is the list in the query cache, `fetch` the query's request, `previous`
the snapshot `onMutate` keeps for the roll-back, `wire` where a patch is on its
way to the server and back. `Tap` is `mutate` with `onMutate`, `Succeed`,
`Reject` and `NoAnswer` are `onSuccess`, `onError` and `onSettled`; a patch may
reach the server after the device gave it up. Completing and skipping are two
mutations of the screen with the same callbacks, and are one action here. The
server takes a patch in one step: its GET and SET are split in
`OfflineTaskSync`, which also follows the queued updates. `stale` and `behind`
say when the device cannot know better: the last fetch failed, or another device
or a late patch changed the trip since it was fetched.

### ProviderBreaker

One action per call of the store, which never awaits, and a clock. `failed` is
history: the times of a circuit's failures since its last success, of which the
properties speak; the code keeps a count and the latest time only. `List` stores
the half-open state it computes, for any subset of circuits, as the filters of
an action sheet or of the inspection route may select.

## Runs

| Run | Instance | Shows |
|---|---|---|
| `queue` | 1 job, 2 workers, 3 leases, 2 attempts, 1 lapse, 1 crash, fairness (124 000 states) | `NoJobLost`, `OneWorkerPerJob`, `RetryBudget`, `DuplicationBound`, `EveryJobSettles`, `LeasesAreReturned` |
| `jobs_safety` | 2 jobs: a general question that may raise and has a feed, a DIY job that may expire (1 100 000 states) | `StoreMatchesQueue`, `ToldCompletedStays`, `ImplementsLifecycle`, `SysTypeOK` |
| `jobs_liveness` | 2 jobs, one of which may raise, 2 workers, 1 crash, fairness (518 000 states) | `JobsGetVerdict` |
| `in_process` | 1 job, 2 topic sections, 2 feed batches, fairness (278 000 states) | `RecordKeepsUp`, `VerdictHolds`, `ImplementsLifecycle`, `JobSettles`, `FeedSettles`, `TypeOK` |
| `session` | 3 replies, 2 kinds of question, limit 2, all routes (2 093 000 states) | `LimitHolds`, `FinalCloses`, `MeetsQuestion` |
| `web` | 2 jobs, 1 partial answer each, 1 failure, fairness (719 000 states) | `AnswerBelongsToActive`, `ListensUntilTold`, `DraftIsOfItsPlan`, `FinalAnswerStays`, `PlanIsShown` |
| `approval` | 2 requests, 2 keys, 1 fault, 1 edit, fairness (1 357 000 states) | `OneRun`, `CompletedIsTrue`, `CompletedStays`, `ProgressKept`, `DraftIsApproved` |
| `approval_crash` | 2 requests, 1 key, 1 fault | `ApprovalRecovers` is violated |
| `offline_sync` | 2 tasks, one depending on the other, 1 mutation, 2 syncs, 3 saves (1 440 000 states) | `AppliedAtMostOnce`, `StatusesResolved`, `DroppedMutationsWereSaved` |
| `offline_lost` | 2 mutations, 1 sync | `NoMutationLost` is violated |
| `task_screen` | 2 tasks, one depending on the other, 2 patches, 1 edit elsewhere, fairness (407 000 states) | `QuietScreenIsTrue`, `TapStays`, `TappedTwiceSavedOnce`, `ScreenCatchesUp` |
| `breaker` | 2 circuits, threshold 3, window 2, cooldown 2, clock to 7, 4 failures (687 000 states) | `BurstOpens`, `OpenIsEarned`, `CooldownHolds` |

The type invariants of the other modules with a proof module, and `UpdateIsKept`,
are theorems for every instance and are in no run.

### What the violations say

- `approval_crash`: a process that dies after `mark_running` leaves its record
  running, and since `_save` sets no expiry it stays so until somebody deletes
  it; `run_trip_approval_workflow` answers every retry under the
  same key as if the approval were under way, and the app sends no key, so it
  always uses the same one. The workflow runtime document promises that critical
  transitions are recoverable. `DraftIsApproved` is the same property with
  abandoned records (and edits saved over the approval) exempted, and holds: a run
  that ends in `mark_failed` can be tried again.
- `offline_lost`: a mutation queued while a sync is awaited is overwritten by
  what remains of the snapshot taken before. The app tells the user that
  operations saved to the local queue are not lost. `DroppedMutationsWereSaved`
  is the same promise for mutations queued while no sync was awaited, and is
  proved.

### Seen while modelling, without a run

Jobs:

- An item lives in one process only between BLPOP and HSET, and between HDEL and
  RPUSH in `fail` and in recovery; a lease is outside the index between HSET and
  ZADD. A process that dies there drops the job, although the queue strategy
  document says that a crash ends in redelivery. `NoJobLost` exempts exactly
  these windows (`lost`).
- A handler that dies between creating the record and enqueueing the item
  (`api/routes.py:4247`) leaves a job queued that no worker will see.
- In in-process mode the sidecar may read the job, and save what it read after the
  runner has completed it: the job is running again, its answer is gone, and
  nobody runs it again, although the sidecar's docstring says that it does not
  affect the main job. `VerdictHolds` and `JobSettles` exempt this window.
- The event stream ends at the first "failed" (`api/routes.py:4774`) although
  the worker may retry the job and complete it; the planner then shows a failure
  for a job that is done. `ListensUntilTold` and `PlanIsShown` exempt a client
  that was told "failed".
- The worker command passes no `qa_service_factory` (`cli.py:967`), so a queued
  general question fails on every attempt without being asked and ends in the
  dead letters. `jobs_safety` sets `QaConfigured`.
- The feed's read-modify-write of the record (`job_store.py:310`) can undo the
  worker's completion; the item has been acknowledged, so nothing corrects it.
  The job is then `stale` in the model.
- A job whose worker dies each time is redelivered without limit:
  `recover_expired_leases` never compares attempts with `max_attempts`. This is
  why `RetryBudget` adds the number of lapses.
- A live worker that outlives its lease can leave "running" behind another
  worker's completion; `JobsGetVerdict` is checked with `MaxLapses = 0`.
- In queue mode the worker ignores `session_id`, so a session reply job never
  completes its session, and a question back to the user is delivered as a
  completed answer (`clear_unbacked_reply_state`), to which no reply is possible.
  `FinalCloses` therefore exempts the queue.
- In in-process mode a job whose process dies stays queued or running for ever;
  `JobSettles` and `FeedSettles` speak of processes that live.
- The in-process runner and the feed of one job lose no more than one another's
  latest writes; the next write of the loser does not bring the lost fields back,
  except the feed, which is written whole.

Sessions:

- Two replies that overlap are each appended to the messages they read; one is
  overwritten, the session counts one turn too few and the user is asked once more
  than the limit allows. `LimitHolds` says that this is the only way: one more
  question for each message overwritten.
- Which question a reply answers travels in fields of the question that are
  excluded from serialisation (`schemas/evidence.py:454`), so the queue's worker,
  which reads the question from the job's record, does not know it, and an answered
  preference checkpoint can be asked again. The tests set the field on the question
  directly. `MeetsQuestion` exempts the queue.
- `completed` is written and never read: `append_reply` takes replies to a
  completed session, and answers them.
- A late `append_reply` can bring an expired session back to life.
- `messages` is limited to 20 on reading, not on appending
  (`schemas/session.py:30`): a session that was sent a 21st message can no longer
  be read. The model's handlers may die at any GET, which covers the failure.

Planner and trips:

- Versions are checked against the copy `patch_task` has read (`trip_store.py:821`),
  but the SET is unconditional, so the later of two concurrent patches erases the
  earlier, even of another task, and its audit event: an applied and acknowledged
  mutation may be undone. The offline document promises no silent overwrites.
- The draft button is offered for a preview too (`AnswerView.tsx:191`); the draft
  is then made from the job completed before. `DraftIsOfItsPlan` therefore
  speaks of finished plans.
- An edit of a draft that was read before the approval and saved after it makes
  the trip a draft again, under a record that says completed (`reverted`).
- `approve_trip` does not resolve dependencies: tasks with prerequisites are
  pending until the first update of any task. `StatusesResolved` therefore
  starts at the first update. The support endpoints
  (`_clear_blocked_task_for_support`,
  `_mark_provider_action_completed_for_support`) do not resolve either.

Mobile app:

- With two overlapping patches that both fail, the second roll-back restores the
  optimistic move of the first, which stays on the screen until the refetch
  (`CurrentTaskScreen.tsx:130`); the screen's document promises a revert.
  `QuietScreenIsTrue` speaks of the screen once all is over.
- An update that was queued is rolled back on the screen, so the task can be
  tapped, and queued, again.
- A device whose earlier patch reached the server but whose response was lost
  later reports a conflict with itself: the queued mutation carries the version
  from before, and a direct patch carries no mutation id.

Circuit breaker:

- A probe that fails later than the window after the previous failure counts as
  the first failure of a new window and closes the circuit
  (`provider_circuit_breaker.py:98-108`).
- The window is measured from the latest failure, so failures that are each
  within the window of the one before open the circuit however long the chain;
  `OpenIsEarned` states exactly this.
- `apply_provider_circuits_to_actions` looks circuits up by provider alone.

## Bounds

- Queue: two processes that dequeue are what the races of recovery against ack,
  fail and another recovery need. Three leases are enough that a recovered, a
  live and a new lease of one job exist together. `MaxAttempts = 2` has a first
  failure (retry) and a last one (dead letter). One lapse and one crash each
  reach every branch. With more of any of these, and with observers, the four
  invariants still hold: they are proved without a bound.
- `queue` has one job: jobs meet only in the order of the ready list, which none
  of its safety properties mentions. `jobs_safety` and `jobs_liveness` have two: a
  due item is reached although another one is in backoff. Without a lapse a job has
  one lease at a time, so two leases are enough for two jobs.
- `jobs_safety` has one worker (its properties are proved for any number), so that
  two jobs fit; `queue` and `jobs_liveness` have two.
- Planner: two jobs, so that one replaces the other while its stream, GET or
  submission is under way; one partial answer, so that there are previews before
  and after it; one failure, which may hit a submission, a fetch or a draft.
  Without EventSource there is polling only: the proofs cover that case as well.
- Approval: two requests meet in every window; two keys, so that a retry uses the
  same key or another; one fault (a process that dies or a command that raises)
  and one edit, as two of either add no new order of reads and saves between an
  approval and another writer. The safety properties are proved for any number.
- Offline: `AppliedAtMostOnce` needs two requests with the same mutation and at
  least two saves, hence 2 syncs and `MaxClock = 3` with a third for the other
  device.
- Task screen: two patches overlap in every order, of one task or of two that
  depend on each other; one edit elsewhere makes versions disagree.
- In-process job: two sections and two batches give each coroutine a write before,
  between and after the other's; more of them repeat these, and the invariants and
  the refinement are proved for any number.
- Session: a limit of 2 with three replies is the smallest in which replies
  overlap below the limit, at it and beyond it. The four proved properties hold
  for every limit and number of replies.
- Breaker: the clock passes window and cooldown three times, failures go beyond
  the threshold by one; two circuits, so that an operation on one could disturb
  the other.
- Symmetry is used over processes, lease ids, syncs, replies and kinds of question (not over mutation
  ids, which are ordered), in runs that check safety only.
- `CHECK_DEADLOCK FALSE` is set where the system may come to rest: mutations
  settled and `MaxClock` reached, both jobs shown, all patches over, all replies
  over, the in-process job told, the clock at its end. The queue, job and approval runs check deadlock.

## Fairness

- `TravelJobQueue`, `TravelJobSystem`: what the deployment provides. The worker
  command loops over `run_once` for ever and the supervisor restarts it (weak
  fairness of each worker's next step); a snapshot that has begun goes on; clocks
  advance, so a lease nobody holds lapses (weak fairness) and a backoff ends.
  The last is strong fairness, because workers take an item out of the list and
  put it back while it waits, which disables the step again and again although
  time passes all the while. None of clients, snapshots, crashes, the TTL, or of
  a live worker outliving its lease.
- `InProcessJob`: the event loop runs every coroutine that is ready, so the handler,
  the runner and the sidecar go on while their process lives (weak fairness of
  each), a call of the model ends (it has a timeout), and the client polls on.
  None of crashes.
- `WebPlanner`: the two ends of a stream, a GET and the poll timer go on. None of
  the server's progress, of users or of failures.
- `ApprovalWorkflow`: a handler that does not die runs to its end, and the user
  keeps asking for the approval. None of crashes, of commands that raise and of edits.
- `TaskScreen`: a request ends, at the latest when the client's 30-second timeout
  does, and so does a fetch, one way or the other.
- The breaker and the session have no liveness property: nothing in the one
  happens by itself, and a reply's process may always die.

## Proofs

Each proof holds for every value of the constants that satisfies the named
assumption of its module. Each step lemma has one case per action and, below it,
one step per conjunct the action can disturb.

### TravelJobProofs

About the queue by itself, from `QueueAssumption` (disjoint workers and observers,
`MaxAttempts` positive, the null values distinct) and, for the count of copies,
`FiniteAssumption` (finitely many processes and lease ids):

| Theorem | Statement | Inductive invariant |
|---|---|---|
| `TypeCorrect` | `Spec => []TypeOK` | `TypeOK` itself, which includes that a process at a point that needs an item or a lease has one |
| `NoJobIsLost` | `Spec => []NoJobLost` | `TypeOK`, `LeaseAgrees` (a lease a process is about to index holds the item in its hand) |
| `RetriesAreBounded` | `Spec => []RetryBudget` | `AttemptBounds`: the bound for queued, leased, held and dead items |
| `OneWorkerRunsAJob` | `Spec => []OneWorkerPerJob` | `CopyInv` |
| `DuplicationIsBounded` | `Spec => []DuplicationBound` | `CountInv`, with `QueueInv` |

About the job path over it, from `SystemAssumption` as well (the null record is no
record, the sets of jobs are sets of jobs):

| Theorem | Statement | Inductive invariant |
|---|---|---|
| `SystemTypeCorrect` | `SysSpec => []SysTypeOK` | `StoreTypes`, with `QueueInv` |
| `StoreFollowsQueue` | `SysSpec => []StoreMatchesQueue` | `SysInv` |
| `ToldCompletedIsKept` | `SysSpec => []ToldCompletedStays` | `SysInv` |
| `SystemOneWorkerRunsAJob` | `SysSpec => []OneWorkerPerJob` | `SysInv` |
| `SystemLosesNoJob` | `SysSpec => []NoJobLost` | `NoJobLost`, with `SysInv` |
| `SystemKeepsTheBounds` | `SysSpec => [](RetryBudget /\ DuplicationBound)` | `CountInv`, with `SysInv` |
| `SystemImplementsLifecycle` | `SysSpec => ImplementsLifecycle` | `SysInv`, and each step simulated |

`RetryBudget` speaks of lists and hands only. It is not inductive: a lease whose
attempt count is too high would break it when recovered. `LeasedBound` gives the
bound on leases, one weaker for those that are not overdue, and `TodoOverdue`
says that recovery only visits overdue ones, so each recovery is paid by a lapse.

`OneWorkerPerJob` needs to know that a job without a lapse has a single copy
anywhere. `SoleCopies` says so; `RecoveredLapsed` that recovery only holds items
of jobs that lapsed; `OwnersDiffer` and `OwnersLeased` that two workers never
work under one lease id and that a lease without a lapse is still in the hash;
`ItemsEnqueued` that no item exists of a job not yet enqueued.

`DuplicationBound` counts copies, and the count is not inductive: several
processes may have read an overdue lease, none of which carries a copy until the
first deletes it and each of the others finds its own. So `Potential` counts an
overdue lease `Procs` times, once for every process that may have read it. A
lapse then adds `Procs - 1`, which is what the bound allows it, and no other step
adds anything: a push, a pop or a new lease moves one copy (`PushMoves`,
`PopMoves`, `LeaseMoves`), and a deletion is one of three. The lease was taken by
another process before (`OvertakenDelete`), it is not overdue and only its owner
knows it (`FreshDelete`, from `OwnersDiffer` and `RecoversOverdue`), or it is
overdue and its weight pays for a copy in every memory (`LateDelete`).
`LeasedByCaller` is the case of a deployment without processes, in which the
factor `Procs - 1` would be negative.

`QueueInv` is all of these except the count, with two facts the store needs: a
job that is settled and has not lapsed exists nowhere else (`SettledAlone`), and
an item that was delivered has an attempt (`RetriesCounted`).

Every step of the job path is a step of the queue or one that the queue does not
have: a worker stops because a store operation raised, and its lease stays
(`Stops`, `QueueSteps`). `QueueInv` is kept by both.

`StoreInv` says for every place of a steady job what its record shows: "queued" or
"failed" while it waits, depending on its attempts; the same while a worker has
the item and has not marked it; "running" between the mark and the verdict; the
verdict while the item is acknowledged or failed, and after (`InStage`,
`ReadyClaim`, `HandClaim`, `RestClaim`). It is inductive because a worker that runs
a steady job is alone with it (`Alone`, from `QueueInv`): nobody else writes the
record, and no other copy of the item is left to contradict what it writes. A job
is steady if it was delivered once, does not expire and its record was not put
back by a feed; no step makes a job steady again (`SteadyBefore`).

The refinement maps the record's status to `shown`, jobs that lapsed or may
expire to those that stray, and `stale` to those rewound. There is one lemma for
each kind of step a client may notice: `CreateAdvances`, `SetMoves` (a worker's
SET of a job that is steady follows `StoreInv`; of another it may be any status
but "queued"), `ExpiryStrays`, `FeedRewinds`, and `LapseDisturbs` and
`EnqueueDisturbs`, which change only who may stray; `LifecycleStutters` is the rest.

`StepCases` lists the actions of the queue and `SysStepCases` those of the job
path. Lemmas on sequences (`PushFacts`, `PopFacts`, `DueFacts`) hold what RPUSH,
BLPOP and the passing of a backoff do to the entries of the list.

### InProcessJobProofs

From `JobAssumption` (numbers of sections and batches, at least one batch; the null
value is no record):

| Theorem | Statement | Inductive invariant |
|---|---|---|
| `TypeCorrect` | `Spec => []TypeOK` | `TypeOK`, in `JobInv` |
| `RecordIsKeptUp` | `Spec => []RecordKeepsUp` | `JobInv` |
| `VerdictIsHeld` | `Spec => []VerdictHolds` | `JobInv` |
| `LifecycleImplemented` | `Spec => ImplementsLifecycle` | `JobInv`, and each step simulated |

Each of the two coroutines writes back a whole record it read some awaits ago.
`CopiesKeepUp` says that, until the feed puts an old copy back, the record and
the runner's own copy hold what the runner wrote last, so the runner's next SET
loses nothing of its own. `NoAnswerYet` says that before the runner has ended no
copy holds an answer, so a SET of the feed that takes a verdict back is of a copy
read before it. `RunnerInOrder` and
`FeederInOrder` tie the next operation to what was written: a verdict is only
written over "running", and sections come one after the other (`SectionFacts`).
The refinement needs, besides, that a SET of the feed either leaves the status as
it is or is counted as a rewinding.

### OfflineTaskSyncProofs

From `TasksAssumption` (dependencies are tasks; nothing is assumed about cycles) and
`SyncAssumption` (mutation ids are numbers, the null value is no trip):

| Theorem | Statement | Inductive invariant |
|---|---|---|
| `TypeCorrect` | `Spec => []TypeOK` | `TypeOK` itself |
| `StatusesAreResolved` | `Spec => []StatusesResolved` | itself, with `TypeOK` |
| `MutationsAppliedOnce` | `Spec => []AppliedAtMostOnce` | `IdInv` |
| `DroppedWereSaved` | `Spec => []DroppedMutationsWereSaved` | `DropInv`, with `IdInv` |

`StatusesAreResolved` rests on one fact about the code: resolving turns no task
terminal or back, so the prerequisites that are unmet are the same after the
pass as before (`ResolvedFacts`). One pass is therefore enough, also for chains.

`AppliedAtMostOnce` is about the stored trip, but a save may write back a copy
of any age. So the invariant is about every trip in anybody's hands by itself
(`Sound`): it carries each mutation at most once, and if it carries one that may
still be sent (`Pending`), it shows that task under a version newer than the one
the mutation expects. A handler hence never reads, as current, a trip that
already carries its mutation (`SaveIsFresh`), although it looks for duplicates
in an older one. `PendingIssued` and `OnePerId` say that ids are not reused.

`DroppedMutationsWereSaved` needs that what a sync reports is saved (`DoneSaved`;
for a duplicate this is `Sound`) and that the snapshot that will replace the
queue contains every mutation queued before it, unless it was saved or given up
(`SentCovers`). A mutation queued meanwhile is not in it: this is exactly what
`offline_lost` shows, and why the property exempts `raced`.

`UpdatedFacts` holds which fields an update writes, of any trip. How statuses may
move (`UpdatedStatuses`) is needed by the screen only and is in `TaskScreenProofs`.

### TaskScreenProofs

From `TasksAssumption` and `ScreenAssumption` (the null values are no lists):

| Theorem | Statement | Inductive invariant |
|---|---|---|
| `TypeCorrect` | `Spec => []TypeOK` | `TypeOK` itself |
| `ScreenTrue` | `Spec => []QuietScreenIsTrue` | `ListsAreTrue` |
| `TapsStay` | `Spec => []TapStays` | `TapsHold` |
| `UpdatesKept` | `Spec => []UpdateIsKept` | itself |
| `SavedOnce` | `Spec => []TappedTwiceSavedOnce` | `Once` |

`QuietScreenIsTrue` is about the list at rest; `ListsAreTrue` adds that, with no
patch awaited, a list on its way is the server's: the refetch of the last patch
to settle dropped every older one. `TapsHold` adds that no fetch is under way
while `untouched` patches exist. For `TappedTwiceSavedOnce` the version guard must
refuse the second patch of a task: `Once` says that no list on the device, shown,
fetched or kept for a roll-back, is newer than the server, and that one which
shows a task open under the server's version of it is right (`Old`, `Fresh`).

### ApprovalWorkflowProofs

From `ApprovalAssumption` (the bounds are numbers, the null value is no request):

| Theorem | Statement | Inductive invariant |
|---|---|---|
| `TypeCorrect` | `Spec => []TypeOK` | `Typed`: with which fields of a request are set at which step |
| `CompletedTrue` | `Spec => []CompletedIsTrue` | `Approved` |
| `RunsOnce` | `Spec => []OneRun` | `IInv` |
| `CompletedKept` | `Spec => CompletedStays` | `IInv` |
| `WorkKept` | `Spec => ProgressKept` | `IInv` |

`CompletedIsTrue` is not inductive because a handler about to mark "completed"
has approved but not said so: `Approved` includes it. `IInv` is about uncontended
histories: `Place` says, for each step a request can be at, where all the others
are (idle until the mark; idle, or past it under the same key, afterwards), that
the record it works on is the one the index names, and what that record and the
trip hold. `CopyOK` relates the copy of the trip in the editor's hand to the
trip: since it was read only an approval can have changed it. Hence a request
that approves finds no work done, and one that follows finds "running" or
"completed" and leaves.

### WebPlannerProofs

From `PlannerAssumption`, with EventSource or without:

| Theorem | Statement | Inductive invariant |
|---|---|---|
| `TypeCorrect` | `Spec => []TypeOK` | `Typed`: with `ClientOK`, which says that streams and fetches belong to an active job that exists and that no completed job stays in the cache |
| `AnswersBelong` | `Spec => []AnswerBelongsToActive` | itself, with `Typed` |
| `DraftsOfTheirPlans` | `Spec => []DraftIsOfItsPlan` | itself, with `AnswerBelongsToActive` |
| `PlanStays` | `Spec => FinalAnswerStays` | `Typed`, `AnswerBelongsToActive` |
| `Listens` | `Spec => []ListensUntilTold` | `Heard` |

`ListensUntilTold` is not inductive: a stream that breaks must leave polling
enabled, for this job and not for the one before. `Heard` says that an active job
has its stream, or is the one whose stream failed, or has failed itself.

### ProviderBreakerProofs

From `BreakerAssumption` (positive numbers; the constructor asks no more of them).
The defaults are 300 s for window and cooldown alike, and so they are in the run.
Were the cooldown longer than the window, a failure during the cooldown but later
than the window after the one before would start a new count and close the
circuit: `CooldownHolds` allows that case and no other.

| Theorem | Statement | Inductive invariant |
|---|---|---|
| `TypeCorrect` | `Spec => []TypeOK` | `Inv` |
| `OpensInTime` | `Spec => []BurstOpens` | `Inv` |
| `OpensOnlyThen` | `Spec => []OpenIsEarned` | `Inv` |
| `CooldownKept` | `Spec => CooldownHolds` | `Inv` |

The code keeps a count; the properties speak of times. `Inv` connects them: the
count is the length of the longest run of failures, up to the latest, no two
neighbours of which are further apart than the window (`IsRun`), the kept time is
that of the latest failure (`IsLatest`), and the circuit is not closed exactly
when the count has reached the threshold (`IsState`).

### ReplySessionProofs

From `SessionAssumption` (finitely many replies, a positive limit, the null value is
no session):

| Theorem | Statement | Inductive invariant |
|---|---|---|
| `TypeCorrect` | `Spec => []TypeOK` | `TypeOK` itself, which includes that a handler past its GET has a session |
| `TurnsLimited` | `Spec => []LimitHolds` | `Inv` |
| `FinalAnswersClose` | `Spec => []FinalCloses` | itself, with `Fresh` |
| `RepliesMeetQuestion` | `Spec => []MeetsQuestion` | `CalmInv` |

`LimitHolds` counts the replies that were asked something back, the code counts the
messages of one copy of the session. `Inv` connects the two by the order in which
messages were saved: replies are ranked 1, 2, 3, ... (`Ranked`), every message
recorded is in the session or was dropped (`Covered`), and the copy a reply has
appended to holds all messages up to its own, but for dropped ones
(`CopyCovers`). A reply that passes the limit check hence has a rank below the
limit plus the number of messages dropped (`Permitted`), and ranks do not repeat
(`FewAsk`). `CalmInv` says, for replies that follow one another, that every copy of
the session has the question on the client's screen, except while a new question
is on its way (`Asking`).

### Only model-checked

The liveness properties `EveryJobSettles`, `LeasesAreReturned`, `JobsGetVerdict`,
`JobSettles`, `FeedSettles`, `PlanIsShown`, `DraftIsApproved` and
`ScreenCatchesUp`: liveness under fairness, and the ENABLED it rests on, are outside
what the proof system's backends do. So are induction over data and RECURSIVE
operators, of which no module here has any. Every invariant and every action
property of the passing runs, and both refinements of `JobLifecycle`, are proved.

## Not modelled

- The other operations on a trip (bookings, documents, day updates, provider
  actions, retention, support repairs): each is a GET, a change of its own field
  and a SET; they add lost updates of the kind shown, and their changes are text.
- Provider budgets, cost control, embedding breaker, notification ledger,
  route freshness: every call is one step on the memory of one process, and what
  it must do is a function of one record and the time, which unit tests reach.
- Caches, market store, sales handoff, incidents: independent entries, no
  property that takes several steps.
- Question answering, itineraries, retrieval, indexing, reports: model output
  and text; their outcome is an input of `TravelJobSystem`.
- Most of the frontends' lines: generated API clients, type declarations, static
  descriptions of screens, view models from data to text, layout. Of their
  stateful screens the planner, the task list and the offline queue are modelled,
  where several requests and devices meet; `TaskDetailScreen` repeats the task
  list's pattern for one task.
