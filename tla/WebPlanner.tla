----------------------------- MODULE WebPlanner -----------------------------
(***************************************************************************)
(* The web planning client: the job flow of frontend/src/App.tsx, the two   *)
(* places that submit jobs (TripComposer and CheckpointPanel), the UI store *)
(* and the "create trip draft" button of AnswerView, against the jobs API.  *)
(*                                                                         *)
(* The server moves a job as JobLifecycle allows.  The client learns of it  *)
(* through an event stream and, when that breaks, by polling; a GET that    *)
(* was prefetched on submission may answer late.  A step of the client is   *)
(* one callback with the rendering and the effects it causes: the store's   *)
(* updates are rendered, and their effects run, before the next callback.   *)
(***************************************************************************)
EXTENDS Naturals, FiniteSets

CONSTANTS
  Jobs,                \* the jobs that submissions may create
  MaxParts,            \* bound on the partial answers of a job
  MaxFailures,         \* bound on submissions and fetches that fail
  SupportsEventSource, \* whether the browser has EventSource
  None

ASSUME PlannerAssumption ==
  /\ MaxParts \in Nat /\ MaxFailures \in Nat
  /\ SupportsEventSource \in BOOLEAN
  /\ None \notin Jobs
  /\ Jobs \intersect {"idle", "sent"} = {}

VARIABLES
  (* The server: *)
  shown,                \* the status of a job's record
  part,                 \* how many partial answers it has published
  asks,                 \* whether its answer needs a reply from the user
  (* The client: *)
  requests,             \* per channel: "idle", "sent", or the job the response names
  activeJobId, latestAnswer, latestCompletedJobId, sseFailedJobId,
  stream,               \* the EventSource of the active job, with the server's end
  streamedJob,          \* the last event of the active job, None if there was none
  query,                \* the job query of the active job: cached data, GET in flight
  view,                 \* AnswerView: "gone", "idle", "creating", "created"
  (* History: *)
  drafts,               \* [source, of, final]: drafts made, from which job, of which answer
  failures

server == <<shown, part, asks>>
ui     == <<activeJobId, latestAnswer, latestCompletedJobId, sseFailedJobId, streamedJob, view>>
vars   == <<shown, part, asks, requests, activeJobId, latestAnswer, latestCompletedJobId,
            sseFailedJobId, stream, streamedJob, query, view, drafts, failures>>

Channels == {"composer", "checkpoint"}
Statuses == {"absent", "queued", "running", "completed", "failed"}
Snapshot == [status : Statuses \ {"absent"}, part : 0..MaxParts, asks : BOOLEAN]
Answer   == [job : Jobs, final : BOOLEAN, part : 0..MaxParts, asks : BOOLEAN]
Draft    == [source : Jobs, of : Jobs, final : BOOLEAN]

Closed   == [open |-> FALSE, event |-> None, last |-> None]
Opened   == [Closed EXCEPT !.open = TRUE]
NoQuery  == [data |-> None, fetch |-> "idle", answer |-> None]
Fetching == [NoQuery EXCEPT !.fetch = "sent"]

Life == INSTANCE JobLifecycle WITH disturbed <- {}, rewound <- {}

Init ==
  /\ Life!Init
  /\ part = [j \in Jobs |-> 0] /\ asks = [j \in Jobs |-> FALSE]
  /\ requests = [c \in Channels |-> "idle"]
  /\ activeJobId = None /\ latestAnswer = None /\ latestCompletedJobId = None
  /\ sseFailedJobId = None
  /\ stream = Closed /\ streamedJob = None /\ query = NoQuery /\ view = "gone"
  /\ drafts = {} /\ failures = 0

Fails == failures < MaxFailures /\ failures' = failures + 1

-----------------------------------------------------------------------------
(* The server.  A partial answer is published while the job runs; a job     *)
(* that failed may be run again; its record may hold a question back to the *)
(* user in place of a plan.                                                 *)

Status(j) ==
  /\ shown[j] # "absent" /\ Life!Advance(j)
  /\ \E b \in BOOLEAN :
       /\ b => shown'[j] = "completed"
       /\ asks' = [asks EXCEPT ![j] = b]
  /\ UNCHANGED <<part, requests, ui, stream, query, drafts, failures>>

Publish(j) ==
  /\ shown[j] = "running" /\ part[j] < MaxParts
  /\ part' = [part EXCEPT ![j] = @ + 1]
  /\ UNCHANGED <<shown, asks, requests, ui, stream, query, drafts, failures>>

Accept(c, j) ==
  /\ requests[c] = "sent" /\ shown[j] = "absent"
  /\ Life!Move(j, "queued")
  /\ requests' = [requests EXCEPT ![c] = j]
  /\ UNCHANGED <<part, asks, ui, stream, query, drafts, failures>>

Read(j) == [status |-> shown[j], part |-> part[j], asks |-> asks[j]]

-----------------------------------------------------------------------------
(* Submissions.  Each channel has one request at a time; the two channels   *)
(* know nothing of each other.                                              *)

MayReply == latestAnswer # None /\ latestAnswer.asks

Submit(c) ==
  /\ requests[c] = "idle"
  /\ c = "checkpoint" => MayReply
  /\ requests' = [requests EXCEPT ![c] = "sent"]
  /\ UNCHANGED <<server, ui, stream, query, drafts, failures>>

SubmitFails(c) ==
  /\ requests[c] # "idle" /\ Fails
  /\ requests' = [requests EXCEPT ![c] = "idle"]
  /\ UNCHANGED <<server, ui, stream, query, drafts>>

\* A faulty variant: the previous answer stays on the screen.
OnSuccess_KeepsAnswer(c) ==
  /\ requests[c] \in Jobs
  /\ activeJobId' = requests[c]
  /\ stream' = IF SupportsEventSource THEN Opened ELSE Closed
  /\ query' = Fetching /\ streamedJob' = None
  /\ requests' = [requests EXCEPT ![c] = "idle"]
  /\ UNCHANGED <<server, latestAnswer, latestCompletedJobId, sseFailedJobId, view, drafts, failures>>

\* onSuccess: the job becomes the active one, the old answer is dropped and
\* with it AnswerView; the effect closes the old stream and opens another.
OnSuccess(c) ==
  /\ requests[c] \in Jobs
  /\ activeJobId' = requests[c]
  /\ latestAnswer' = None /\ view' = "gone"
  /\ stream' = IF SupportsEventSource THEN Opened ELSE Closed
  /\ query' = Fetching /\ streamedJob' = None
  /\ requests' = [requests EXCEPT ![c] = "idle"]
  /\ UNCHANGED <<server, latestCompletedJobId, sseFailedJobId, drafts, failures>>

-----------------------------------------------------------------------------
(* What the client does with a snapshot of the active job.                  *)

Shows(answer) ==
  /\ latestAnswer' = answer
  /\ view' = IF view = "gone" THEN "idle" ELSE view

\* A faulty variant: the job is done but stays the active one.
Finish_StaysActive(snap) ==
  /\ Shows([job |-> activeJobId, final |-> TRUE, part |-> snap.part, asks |-> snap.asks])
  /\ latestCompletedJobId' = activeJobId
  /\ activeJobId' = activeJobId
  /\ stream' = Closed /\ streamedJob' = snap /\ query' = [query EXCEPT !.data = snap]

\* A faulty variant: the job that was finished is not noted.
Finish_NotNoted(snap) ==
  /\ Shows([job |-> activeJobId, final |-> TRUE, part |-> snap.part, asks |-> snap.asks])
  /\ activeJobId' = None
  /\ stream' = Closed /\ streamedJob' = None /\ query' = NoQuery
  /\ latestCompletedJobId' = IF latestCompletedJobId = None THEN activeJobId ELSE latestCompletedJobId

Finish(snap) ==
  /\ Shows([job |-> activeJobId, final |-> TRUE, part |-> snap.part, asks |-> snap.asks])
  /\ latestCompletedJobId' = activeJobId
  /\ activeJobId' = None
  /\ stream' = Closed /\ streamedJob' = None /\ query' = NoQuery

Preview(snap) ==
  /\ IF snap.part = 0
     THEN UNCHANGED <<latestAnswer, view>>
     ELSE Shows([job |-> activeJobId, final |-> FALSE, part |-> snap.part, asks |-> FALSE])
  /\ UNCHANGED <<activeJobId, latestCompletedJobId>>

-----------------------------------------------------------------------------
(* The event stream: the server's end reads the record and sends it when    *)
(* it differs from what it sent last; handleJobEvent; source.onerror.       *)

StreamPolls ==
  /\ stream.open /\ stream.event = None
  /\ Read(activeJobId) # stream.last
  /\ stream' = [stream EXCEPT !.event = Read(activeJobId), !.last = Read(activeJobId)]
  /\ UNCHANGED <<server, requests, ui, query, drafts, failures>>

HandleJobEvent ==
  LET job == stream.event IN
  /\ stream.open /\ job # None
  /\ IF job.status = "completed"
     THEN Finish(job)
     ELSE /\ Preview(job)
          /\ stream' = IF job.status = "failed" THEN Closed ELSE [stream EXCEPT !.event = None]
          /\ query' = [query EXCEPT !.data = job] /\ streamedJob' = job
  /\ UNCHANGED <<server, requests, sseFailedJobId, drafts, failures>>

\* A faulty variant: the stream is closed and nothing takes its place.
OnError_NoFallback ==
  /\ stream.open
  /\ stream' = Closed
  /\ UNCHANGED <<server, requests, ui, query, drafts, failures>>

\* The query becomes enabled, and fetches at once when its data is stale.
OnError ==
  /\ stream.open
  /\ stream' = Closed
  /\ sseFailedJobId' = activeJobId
  /\ \E f \in {query.fetch, "sent"} :
       query' = IF query.fetch = "idle" THEN [query EXCEPT !.fetch = f] ELSE query
  /\ UNCHANGED <<server, requests, activeJobId, latestAnswer, latestCompletedJobId,
                 streamedJob, view, drafts, failures>>

-----------------------------------------------------------------------------
(* The job query: polls while it is enabled and no terminal status is       *)
(* cached.  Its observer sees what a GET or an event puts in the cache      *)
(* whether it is enabled or not.                                            *)

Enabled == activeJobId # None /\ (~SupportsEventSource \/ sseFailedJobId = activeJobId)
Settled == query.data # None /\ query.data.status \in {"completed", "failed"}

\* A faulty variant: polling is for browsers without EventSource only.
Poll_OnlyWithoutStream ==
  /\ activeJobId # None /\ ~SupportsEventSource /\ query.fetch = "idle" /\ ~Settled
  /\ query' = [query EXCEPT !.fetch = "sent"]
  /\ UNCHANGED <<server, requests, ui, stream, drafts, failures>>

Poll ==
  /\ Enabled /\ query.fetch = "idle" /\ ~Settled
  /\ query' = [query EXCEPT !.fetch = "sent"]
  /\ UNCHANGED <<server, requests, ui, stream, drafts, failures>>

GetJob ==
  /\ activeJobId # None /\ query.fetch = "sent"
  /\ query' = [query EXCEPT !.fetch = "answered", !.answer = Read(activeJobId)]
  /\ UNCHANGED <<server, requests, ui, stream, drafts, failures>>

\* The response, and the effect on jobQuery.data.
FetchArrives ==
  LET job == query.answer IN
  /\ query.fetch = "answered"
  /\ IF job.status = "completed"
     THEN Finish(job)
     ELSE /\ Preview(job)
          /\ query' = [NoQuery EXCEPT !.data = job]
          /\ UNCHANGED <<stream, streamedJob>>
  /\ UNCHANGED <<server, requests, sseFailedJobId, drafts, failures>>

FetchFails ==
  /\ query.fetch # "idle" /\ Fails
  /\ query' = [NoQuery EXCEPT !.data = query.data]
  /\ UNCHANGED <<server, requests, ui, stream, drafts>>

-----------------------------------------------------------------------------
(* AnswerView: a draft is made from the job completed last.                 *)

CreateTripOffered == latestAnswer # None /\ ~latestAnswer.asks /\ latestCompletedJobId # None

CreateTrip ==
  /\ CreateTripOffered /\ view = "idle"
  /\ view' = "creating"
  /\ drafts' = drafts \union
       {[source |-> latestCompletedJobId, of |-> latestAnswer.job, final |-> latestAnswer.final]}
  /\ UNCHANGED <<server, requests, activeJobId, latestAnswer, latestCompletedJobId,
                 sseFailedJobId, stream, streamedJob, query, failures>>

TripCreated ==
  /\ view = "creating"
  /\ \/ view' = "created" /\ UNCHANGED failures
     \/ view' = "idle" /\ Fails
  /\ UNCHANGED <<server, requests, activeJobId, latestAnswer, latestCompletedJobId,
                 sseFailedJobId, stream, streamedJob, query, drafts>>

-----------------------------------------------------------------------------
Client ==
  \/ \E c \in Channels : Submit(c) \/ SubmitFails(c) \/ OnSuccess(c)
  \/ HandleJobEvent \/ OnError \/ Poll \/ FetchArrives \/ FetchFails
  \/ CreateTrip \/ TripCreated

Server ==
  \/ \E j \in Jobs : Status(j) \/ Publish(j) \/ \E c \in Channels : Accept(c, j)
  \/ StreamPolls \/ GetJob

Next == Client \/ Server
Spec == Init /\ [][Next]_vars

\* The two ends of the stream and of a GET go on, and so does polling; jobs,
\* users and failures are free.
FairSpec ==
  /\ Spec
  /\ WF_vars(StreamPolls) /\ WF_vars(HandleJobEvent)
  /\ WF_vars(Poll) /\ WF_vars(GetJob) /\ WF_vars(FetchArrives)

-----------------------------------------------------------------------------
(***************************************************************************)
(* Properties.                                                             *)
(***************************************************************************)

\* Every variable has its type.
TypeOK ==
  /\ shown \in [Jobs -> Statuses]
  /\ part \in [Jobs -> 0..MaxParts] /\ asks \in [Jobs -> BOOLEAN]
  /\ requests \in [Channels -> Jobs \union {"idle", "sent"}]
  /\ activeJobId \in Jobs \union {None}
  /\ latestAnswer \in Answer \union {None}
  /\ latestCompletedJobId \in Jobs \union {None}
  /\ sseFailedJobId \in Jobs \union {None}
  /\ stream \in [open : BOOLEAN, event : Snapshot \union {None}, last : Snapshot \union {None}]
  /\ streamedJob \in Snapshot \union {None}
  /\ query \in [data : Snapshot \union {None}, fetch : {"idle", "sent", "answered"},
                 answer : Snapshot \union {None}]
  /\ view \in {"gone", "idle", "creating", "created"}
  /\ drafts \subseteq Draft
  /\ failures \in 0..MaxFailures

\* The workspace shows the active job only: while a job is being waited for,
\* no answer of another one is on the screen, however the streams, GETs and
\* submissions of several jobs overlap.  When nothing is being waited for, it
\* shows the answer of the job that drafts are made from.
AnswerBelongsToActive ==
  latestAnswer # None =>
    IF activeJobId # None
    THEN latestAnswer.job = activeJobId /\ ~latestAnswer.final
    ELSE latestAnswer.job = latestCompletedJobId /\ latestAnswer.final

\* A trip draft made from a plan on the screen is made from that plan's job.  (One
\* made from a preview is not: the draft is then of the job completed before.)
DraftIsOfItsPlan == \A d \in drafts : d.final => d.source = d.of

Failed(job) == job # None /\ job.status = "failed"
Listening   == stream.open \/ query.fetch # "idle" \/ (Enabled /\ ~Settled)

\* The client stops listening for the active job only after it was told that
\* the job failed: otherwise a stream is open, a GET is in flight or the next
\* poll is due, whatever broke and whichever answer came late.
ListensUntilTold ==
  activeJobId # None => Listening \/ Failed(streamedJob) \/ Failed(query.data)

\* Once the plan of a job is on the screen, no late event or GET puts a
\* preview in its place: it stays until a new job is submitted.
FinalAnswerStays ==
  [][latestAnswer # None /\ latestAnswer.final => latestAnswer' \in {latestAnswer, None}]_vars

\* A job that is done is shown, or another one has become the active job, or
\* the client had been told that it failed (and was run again).
PlanIsShown ==
  \A j \in Jobs :
    (activeJobId = j /\ shown[j] = "completed") ~>
      (activeJobId # j \/ Failed(streamedJob) \/ Failed(query.data))
=============================================================================
