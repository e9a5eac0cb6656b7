-------------------------- MODULE WebPlannerProofs --------------------------
(***************************************************************************)
(* Theorems about WebPlanner, for any number of jobs, partial answers and   *)
(* failures, with EventSource or without.                                  *)
(***************************************************************************)
EXTENDS WebPlanner, TLAPS

StreamType == [open : BOOLEAN, event : Snapshot \union {None}, last : Snapshot \union {None}]
QueryType  == [data : Snapshot \union {None}, fetch : {"idle", "sent", "answered"},
               answer : Snapshot \union {None}]

\* The part of the types that the server's steps change, and the client's part.
ServerOK ==
  /\ shown \in [Jobs -> Statuses]
  /\ part \in [Jobs -> 0..MaxParts] /\ asks \in [Jobs -> BOOLEAN]
ScreenOK ==
  /\ activeJobId \in Jobs \union {None}
  /\ latestAnswer \in Answer \union {None}
  /\ latestCompletedJobId \in Jobs \union {None}
  /\ sseFailedJobId \in Jobs \union {None}
  /\ stream \in StreamType /\ streamedJob \in Snapshot \union {None}
  /\ query \in QueryType
  /\ view \in {"gone", "idle", "creating", "created"}

\* A stream is open, and a query holds something, for an active job only; a
\* completed job is never kept in the cache; an answered GET has its answer.
ClientOK ==
  /\ activeJobId = None => ~ stream.open /\ query.fetch = "idle"
  /\ query.fetch = "answered" => query.answer \in Snapshot
  /\ query.data # None => query.data.status # "completed"
  /\ activeJobId # None => shown[activeJobId] # "absent"
  /\ \A c \in Channels : requests[c] \in Jobs => shown[requests[c]] # "absent"

Typed == TypeOK /\ ClientOK

LEMMA Types ==
  TypeOK <=> /\ ServerOK /\ ScreenOK /\ requests \in [Channels -> Jobs \union {"idle", "sent"}]
             /\ drafts \subseteq Draft /\ failures \in 0..MaxFailures
BY DEF TypeOK, ServerOK, ScreenOK, StreamType, QueryType

LEMMA TypedInit == Init => Typed
<1> SUFFICES ASSUME Init PROVE Typed
  OBVIOUS
<1>1. ServerOK
  BY PlannerAssumption DEF Init, Life!Init, ServerOK, Statuses
<1>2. ScreenOK
  BY DEF Init, ScreenOK, Closed, NoQuery, StreamType, QueryType
<1>3. requests \in [Channels -> Jobs \union {"idle", "sent"}] /\ drafts \subseteq Draft
      /\ failures \in 0..MaxFailures
  BY PlannerAssumption DEF Init
<1>4. ClientOK
  BY PlannerAssumption DEF Init, ClientOK, Closed, NoQuery
<1> QED
  BY <1>1, <1>2, <1>3, <1>4, Types DEF Typed

\* What the client reads of a job, and what it may show.
LEMMA ReadTyped ==
  ASSUME Typed, NEW j \in Jobs, shown[j] # "absent"
  PROVE  Read(j) \in Snapshot
BY Types DEF Typed, ServerOK, Read, Snapshot

LEMMA NoneIsNoSnapshot == ASSUME NEW s \in Snapshot \union {None}, s # None PROVE s \in Snapshot
OBVIOUS

\* A new stream, and a new query.
LEMMA NewTyped ==
  /\ Closed \in StreamType /\ Opened \in StreamType
  /\ NoQuery \in QueryType /\ Fetching \in QueryType
  /\ ~ Closed.open /\ Opened.open /\ Opened.event = None
  /\ NoQuery.fetch = "idle" /\ NoQuery.data = None
  /\ Fetching.fetch = "sent" /\ Fetching.data = None
BY DEF Closed, Opened, NoQuery, Fetching, StreamType, QueryType

LEMMA ServerStep ==
  ASSUME Typed, [Next]_vars
  PROVE  /\ ServerOK'
         /\ \A j \in Jobs : shown[j] # "absent" => shown'[j] # "absent"
<1>1. ServerOK
  BY Types DEF Typed
<1>2. ASSUME UNCHANGED server
      PROVE  ServerOK' /\ \A j \in Jobs : shown[j] # "absent" => shown'[j] # "absent"
  BY <1>1, <1>2 DEF ServerOK, server
<1>3. ASSUME NEW j \in Jobs, NEW s \in Statuses, s # "absent", shown' = [shown EXCEPT ![j] = s]
      PROVE  /\ shown' \in [Jobs -> Statuses]
             /\ \A i \in Jobs : shown[i] # "absent" => shown'[i] # "absent"
  BY <1>1, <1>3 DEF ServerOK
<1>4. ASSUME NEW j \in Jobs, Status(j)
      PROVE  ServerOK' /\ \A i \in Jobs : shown[i] # "absent" => shown'[i] # "absent"
  <2>1. \E s \in Statuses : s # "absent" /\ shown' = [shown EXCEPT ![j] = s]
    BY <1>4 DEF Status, Life!Advance, Life!Legal, Life!Statuses, Life!Move, Statuses
  <2>2. asks' \in [Jobs -> BOOLEAN] /\ UNCHANGED part
    BY <1>1, <1>4 DEF Status, ServerOK
  <2> QED
    BY <1>1, <1>3, <2>1, <2>2 DEF ServerOK
<1>5. ASSUME NEW j \in Jobs, Publish(j)
      PROVE  ServerOK' /\ \A i \in Jobs : shown[i] # "absent" => shown'[i] # "absent"
  <2>1. part[j] + 1 \in 0..MaxParts
    BY <1>1, <1>5, PlannerAssumption DEF Publish, ServerOK
  <2> QED
    BY <1>1, <1>5, <2>1 DEF Publish, ServerOK
<1>6. ASSUME NEW j \in Jobs, NEW c \in Channels, Accept(c, j)
      PROVE  ServerOK' /\ \A i \in Jobs : shown[i] # "absent" => shown'[i] # "absent"
  <2>1. shown' = [shown EXCEPT ![j] = "queued"] /\ UNCHANGED <<part, asks>>
    BY <1>6 DEF Accept, Life!Move
  <2> QED
    BY <1>1, <1>3, <2>1 DEF ServerOK, Statuses
<1>7. CASE StreamPolls \/ GetJob
  BY <1>2, <1>7 DEF StreamPolls, GetJob
<1>8. CASE Client
  BY <1>2, <1>8 DEF Client, Submit, SubmitFails, OnSuccess, HandleJobEvent, OnError, Poll,
                    FetchArrives, FetchFails, CreateTrip, TripCreated
<1>9. CASE UNCHANGED vars
  BY <1>2, <1>9 DEF vars, server
<1> QED
  BY <1>4, <1>5, <1>6, <1>7, <1>8, <1>9 DEF Next, Server

\* A step that leaves the requests, or forgets one.
Requests(c) == UNCHANGED requests \/ requests' = [requests EXCEPT ![c] = "idle"]

LEMMA RequestsKept ==
  ASSUME Typed, NEW c \in Channels, Requests(c),
         \A j \in Jobs : shown[j] # "absent" => shown'[j] # "absent"
  PROVE  /\ requests' \in [Channels -> Jobs \union {"idle", "sent"}]
         /\ \A d \in Channels : requests'[d] \in Jobs => shown'[requests'[d]] # "absent"
<1>1. requests \in [Channels -> Jobs \union {"idle", "sent"}] /\ "idle" \notin Jobs
  BY Types, PlannerAssumption DEF Typed
<1>2. ASSUME NEW d \in Channels PROVE requests'[d] = requests[d] \/ requests'[d] = "idle"
  BY <1>1 DEF Requests
<1> QED
  BY <1>1, <1>2 DEF Requests, Typed, ClientOK

\* The job of a snapshot is shown: as its plan, or as a preview.
LEMMA FinishTyped ==
  ASSUME Typed, activeJobId # None, NEW snap \in Snapshot, Finish(snap), UNCHANGED sseFailedJobId
  PROVE  ScreenOK' /\ activeJobId' = None /\ ~ stream'.open /\ query'.fetch = "idle"
         /\ query'.data = None
<1>1. [job |-> activeJobId, final |-> TRUE, part |-> snap.part, asks |-> snap.asks] \in Answer
  BY Types DEF Typed, ScreenOK, Snapshot, Answer
<1> QED
  BY <1>1, Types, NewTyped DEF Finish, Shows, Typed, ScreenOK

LEMMA PreviewTyped ==
  ASSUME Typed, activeJobId # None, NEW snap \in Snapshot, Preview(snap)
  PROVE  /\ latestAnswer' \in Answer \union {None}
         /\ view' \in {"gone", "idle", "creating", "created"}
         /\ UNCHANGED <<activeJobId, latestCompletedJobId>>
<1>1. [job |-> activeJobId, final |-> FALSE, part |-> snap.part, asks |-> FALSE] \in Answer
  BY Types DEF Typed, ScreenOK, Snapshot, Answer
<1> QED
  BY <1>1, Types DEF Preview, Shows, Typed, ScreenOK

\* What the callbacks leave of the client's types, one by one.
Kept ==
  /\ ScreenOK' /\ requests' \in [Channels -> Jobs \union {"idle", "sent"}]
  /\ drafts' \subseteq Draft /\ failures' \in 0..MaxFailures
  /\ ClientOK'

LEMMA HandleJobEventKeeps ==
  ASSUME Typed, HandleJobEvent PROVE Kept
<1>1. /\ stream.open /\ stream.event # None /\ activeJobId # None /\ stream.event \in Snapshot
      /\ UNCHANGED <<shown, part, asks, requests, sseFailedJobId, drafts, failures>>
  BY Types DEF HandleJobEvent, Typed, ClientOK, ScreenOK, StreamType, server
<1> DEFINE job == stream.event
<1>2. CASE job.status = "completed"
  <2>1. Finish(job)
    BY <1>2 DEF HandleJobEvent
  <2>2. ScreenOK' /\ activeJobId' = None /\ ~ stream'.open /\ query'.fetch = "idle"
        /\ query'.data = None
    BY <1>1, <2>1, FinishTyped
  <2> QED
    BY <1>1, <2>2, Types DEF Kept, Typed, ClientOK
<1>3. CASE job.status # "completed"
  <2>1. /\ Preview(job)
        /\ stream' = IF job.status = "failed" THEN Closed ELSE [stream EXCEPT !.event = None]
        /\ query' = [query EXCEPT !.data = job] /\ streamedJob' = job
    BY <1>3 DEF HandleJobEvent
  <2>2. stream \in StreamType /\ query \in QueryType /\ ScreenOK
    BY Types DEF Typed, ScreenOK
  <2>3. stream' \in StreamType
    BY <2>1, <2>2, NewTyped DEF StreamType
  <2>4. /\ query' \in QueryType /\ query'.fetch = query.fetch /\ query'.answer = query.answer
        /\ query'.data = job
    BY <1>1, <2>1, <2>2 DEF QueryType
  <2>5. /\ latestAnswer' \in Answer \union {None}
        /\ view' \in {"gone", "idle", "creating", "created"}
        /\ UNCHANGED <<activeJobId, latestCompletedJobId>>
    BY <1>1, <2>1, PreviewTyped
  <2>6. ScreenOK'
    BY <1>1, <2>1, <2>2, <2>3, <2>4, <2>5 DEF ScreenOK
  <2> QED
    BY <1>1, <1>3, <2>4, <2>5, <2>6, Types DEF Kept, Typed, ClientOK
<1> QED
  BY <1>2, <1>3

LEMMA FetchArrivesKeeps ==
  ASSUME Typed, FetchArrives PROVE Kept
<1>1. /\ query.fetch = "answered" /\ activeJobId # None
      /\ query.answer \in Snapshot
      /\ UNCHANGED <<shown, part, asks, requests, sseFailedJobId, drafts, failures>>
  BY DEF FetchArrives, Typed, ClientOK, server
<1> DEFINE job == query.answer
<1>2. CASE job.status = "completed"
  <2>1. Finish(job)
    BY <1>2 DEF FetchArrives
  <2>2. ScreenOK' /\ activeJobId' = None /\ ~ stream'.open /\ query'.fetch = "idle"
        /\ query'.data = None
    BY <1>1, <2>1, FinishTyped
  <2> QED
    BY <1>1, <2>2, Types DEF Kept, Typed, ClientOK
<1>3. CASE job.status # "completed"
  <2>1. /\ Preview(job) /\ query' = [NoQuery EXCEPT !.data = job]
        /\ UNCHANGED <<stream, streamedJob>>
    BY <1>3 DEF FetchArrives
  <2>2. query' \in QueryType /\ query'.fetch = "idle" /\ query'.data = job
    BY <1>1, <2>1 DEF QueryType, NoQuery
  <2>3. /\ latestAnswer' \in Answer \union {None}
        /\ view' \in {"gone", "idle", "creating", "created"}
        /\ UNCHANGED <<activeJobId, latestCompletedJobId>>
    BY <1>1, <2>1, PreviewTyped
  <2>4. ScreenOK'
    BY <1>1, <2>1, <2>2, <2>3, Types DEF Typed, ScreenOK
  <2> QED
    BY <1>1, <1>3, <2>1, <2>2, <2>3, <2>4, Types DEF Kept, Typed, ClientOK
<1> QED
  BY <1>2, <1>3

LEMMA TypedNext == Typed /\ [Next]_vars => Typed'
<1> SUFFICES ASSUME Typed, [Next]_vars PROVE Typed'
  OBVIOUS
<1>1. ServerOK' /\ \A j \in Jobs : shown[j] # "absent" => shown'[j] # "absent"
  BY ServerStep
<1>2. ScreenOK /\ requests \in [Channels -> Jobs \union {"idle", "sent"}]
      /\ drafts \subseteq Draft /\ failures \in 0..MaxFailures
      /\ stream \in StreamType /\ query \in QueryType
  BY Types DEF Typed, ScreenOK
<1>3. Kept => Typed'
  <2>1. TypeOK' <=> /\ ServerOK' /\ ScreenOK'
                    /\ requests' \in [Channels -> Jobs \union {"idle", "sent"}]
                    /\ drafts' \subseteq Draft /\ failures' \in 0..MaxFailures
    BY DEF TypeOK, ServerOK, ScreenOK, StreamType, QueryType
  <2> QED
    BY <1>1, <2>1 DEF Kept, Typed
<1>4. ASSUME UNCHANGED <<ui, stream, query, requests, drafts>>, failures' \in 0..MaxFailures
      PROVE  Kept
  BY <1>1, <1>2, <1>4 DEF Kept, ScreenOK, ClientOK, Typed, ui
<1>5. ASSUME NEW j \in Jobs, NEW c \in Channels, Accept(c, j) PROVE Kept
  <2>1. /\ requests' = [requests EXCEPT ![c] = j] /\ shown' = [shown EXCEPT ![j] = "queued"]
        /\ UNCHANGED <<ui, stream, query, drafts, failures>>
    BY <1>5 DEF Accept, Life!Move
  <2>2. shown'[j] # "absent"
    BY <2>1, Types DEF Typed, ServerOK
  <2>3. requests' \in [Channels -> Jobs \union {"idle", "sent"}]
        /\ \A d \in Channels : requests'[d] \in Jobs => shown'[requests'[d]] # "absent"
    BY <1>1, <1>2, <2>1, <2>2 DEF Typed, ClientOK
  <2>4. ScreenOK'
    BY <1>2, <2>1 DEF ScreenOK, ui
  <2> QED
    BY <1>1, <1>2, <2>1, <2>3, <2>4 DEF Kept, Typed, ClientOK, ui, ScreenOK
<1>6. ASSUME Fails PROVE failures' \in 0..MaxFailures
  BY <1>2, <1>6, PlannerAssumption DEF Fails
<1>7. ASSUME NEW c \in Channels, Submit(c) \/ SubmitFails(c) PROVE Kept
  <2>1. /\ requests' \in [Channels -> Jobs \union {"idle", "sent"}]
        /\ \A d \in Channels : requests'[d] \in Jobs => requests'[d] = requests[d]
    BY <1>2, <1>7, PlannerAssumption DEF Submit, SubmitFails
  <2>2. UNCHANGED <<ui, stream, query, drafts>> /\ failures' \in 0..MaxFailures
    BY <1>2, <1>6, <1>7 DEF Submit, SubmitFails
  <2>3. ScreenOK'
    BY <1>2, <2>2 DEF ScreenOK, ui
  <2> QED
    BY <1>1, <1>2, <2>1, <2>2, <2>3 DEF Kept, Typed, ClientOK, ui, ScreenOK
<1>8. ASSUME NEW c \in Channels, OnSuccess(c) PROVE Kept
  <2>1. /\ requests[c] \in Jobs /\ activeJobId' = requests[c] /\ activeJobId' # None
        /\ latestAnswer' = None /\ view' = "gone" /\ streamedJob' = None
        /\ stream' \in {Opened, Closed} /\ query' = Fetching
        /\ UNCHANGED <<shown, latestCompletedJobId, sseFailedJobId, drafts, failures>>
    BY <1>8, PlannerAssumption DEF OnSuccess, server
  <2>2. ScreenOK'
    BY <1>2, <2>1, NewTyped DEF ScreenOK
  <2>3. requests' \in [Channels -> Jobs \union {"idle", "sent"}]
        /\ \A d \in Channels : requests'[d] \in Jobs => shown'[requests'[d]] # "absent"
    BY <1>1, <1>8, RequestsKept DEF OnSuccess, Requests
  <2>4. shown'[activeJobId'] # "absent"
    BY <2>1 DEF Typed, ClientOK
  <2> QED
    BY <1>2, <2>1, <2>2, <2>3, <2>4, NewTyped DEF Kept, ClientOK
<1>9. CASE OnError
  <2>1. /\ stream.open /\ stream' = Closed /\ sseFailedJobId' = activeJobId
        /\ \E f \in {query.fetch, "sent"} : query' = query \/ query' = [query EXCEPT !.fetch = f]
        /\ UNCHANGED <<shown, requests, activeJobId, latestAnswer, latestCompletedJobId,
                       streamedJob, view, drafts, failures>>
    BY <1>9 DEF OnError, server
  <2>2. query' \in QueryType /\ query'.data = query.data /\ query'.answer = query.answer
        /\ query'.fetch \in {query.fetch, "sent"}
    BY <1>2, <2>1 DEF QueryType
  <2>3. ScreenOK'
    BY <1>2, <1>3, <2>1, <2>2, NewTyped DEF ScreenOK
  <2> QED
    BY <1>2, <1>3, <2>1, <2>2, <2>3, NewTyped DEF Kept, Typed, ClientOK
<1>10. CASE Poll \/ GetJob \/ FetchFails
  <2>1. /\ UNCHANGED <<shown, requests, ui, stream, drafts>> /\ failures' \in 0..MaxFailures
        /\ activeJobId = None => FetchFails
    BY <1>2, <1>6, <1>10 DEF Poll, Enabled, GetJob, FetchFails, server
  <2>2. /\ query' \in QueryType /\ query'.data = query.data
        /\ query'.fetch = "answered" => query'.answer \in Snapshot
        /\ activeJobId = None => query'.fetch = "idle"
    <3>1. CASE Poll
      BY <1>2, <3>1 DEF Poll, Enabled, QueryType
    <3>2. CASE GetJob
      <4>1. Read(activeJobId) \in Snapshot
        <5>1. activeJobId \in Jobs /\ shown[activeJobId] # "absent"
          BY <1>2, <3>2 DEF GetJob, ScreenOK, Typed, ClientOK
        <5> QED
          BY <5>1, ReadTyped
      <4> QED
        BY <1>2, <3>2, <4>1 DEF GetJob, QueryType
    <3>3. CASE FetchFails
      BY <1>2, <3>3 DEF FetchFails, NoQuery, QueryType
    <3> QED
      BY <1>10, <3>1, <3>2, <3>3
  <2>3. ScreenOK'
    BY <1>2, <1>3, <2>1, <2>2 DEF ScreenOK, ui
  <2> QED
    BY <1>2, <1>3, <2>1, <2>2, <2>3, NewTyped DEF Kept, Typed, ClientOK, ui
<1>11. CASE StreamPolls
  <2>1. activeJobId \in Jobs /\ shown[activeJobId] # "absent"
    BY <1>2, <1>11 DEF StreamPolls, ScreenOK, Typed, ClientOK
  <2>2. stream' \in StreamType /\ stream'.open = stream.open
    BY <1>2, <1>11, <2>1, ReadTyped DEF StreamPolls, StreamType
  <2>3. UNCHANGED <<shown, requests, ui, query, drafts, failures>>
    BY <1>11 DEF StreamPolls, server
  <2>4. ScreenOK'
    BY <1>2, <1>3, <2>2, <2>3 DEF ScreenOK, ui
  <2> QED
    BY <1>2, <1>3, <2>2, <2>3, <2>4, NewTyped DEF Kept, Typed, ClientOK, ui
<1>12. CASE CreateTrip
  <2>1. /\ latestAnswer \in Answer /\ latestCompletedJobId \in Jobs
        /\ drafts' = drafts \union {[source |-> latestCompletedJobId, of |-> latestAnswer.job,
                                     final |-> latestAnswer.final]}
        /\ view' = "creating"
        /\ UNCHANGED <<shown, requests, activeJobId, latestAnswer, latestCompletedJobId,
                       sseFailedJobId, stream, streamedJob, query, failures>>
    BY <1>2, <1>12 DEF CreateTrip, CreateTripOffered, ScreenOK, server
  <2>2. drafts' \subseteq Draft
    BY <1>2, <1>3, <2>1 DEF Answer, Draft
  <2>3. ScreenOK'
    BY <1>2, <1>3, <2>1 DEF ScreenOK
  <2> QED
    BY <1>2, <1>3, <2>1, <2>2, <2>3, NewTyped DEF Kept, Typed, ClientOK
<1>13. CASE TripCreated
  <2>1. /\ view' \in {"created", "idle"} /\ failures' \in 0..MaxFailures
        /\ UNCHANGED <<shown, requests, activeJobId, latestAnswer, latestCompletedJobId,
                       sseFailedJobId, stream, streamedJob, query, drafts>>
    BY <1>2, <1>6, <1>13 DEF TripCreated, server
  <2>2. ScreenOK'
    BY <1>2, <1>3, <2>1 DEF ScreenOK
  <2> QED
    BY <1>2, <1>3, <2>1, <2>2, NewTyped DEF Kept, Typed, ClientOK
<1>14. ASSUME NEW j \in Jobs, Status(j) \/ Publish(j) PROVE Kept
  BY <1>2, <1>4, <1>14 DEF Status, Publish
<1>15. CASE UNCHANGED vars
  BY <1>2, <1>3, <1>4, <1>15 DEF vars, ui
<1> QED
  BY <1>3, <1>5, <1>7, <1>8, <1>9, <1>10, <1>11, <1>12, <1>13, <1>14, <1>15,
     HandleJobEventKeeps, FetchArrivesKeeps DEF Next, Client, Server

LEMMA TypedAlways == Spec => []Typed
BY TypedInit, TypedNext, PTL DEF Spec

\* Every variable has its type, in every reachable state.
THEOREM TypeCorrect == Spec => []TypeOK
<1>1. Typed => TypeOK
  BY DEF Typed
<1> QED
  BY <1>1, TypedAlways, PTL

-----------------------------------------------------------------------------
(* Whose answer is shown, and what drafts are made of.                     *)

Steady == UNCHANGED <<activeJobId, latestAnswer, latestCompletedJobId>>

LEMMA AnswerNext == Typed /\ AnswerBelongsToActive /\ [Next]_vars => AnswerBelongsToActive'
<1> SUFFICES ASSUME Typed, AnswerBelongsToActive, [Next]_vars PROVE AnswerBelongsToActive'
  OBVIOUS
<1>1. ASSUME Steady PROVE AnswerBelongsToActive'
  BY <1>1 DEF Steady, AnswerBelongsToActive
<1>2. ASSUME NEW c \in Channels, OnSuccess(c) PROVE AnswerBelongsToActive'
  BY <1>2 DEF OnSuccess, AnswerBelongsToActive
<1>3. ASSUME NEW snap, Finish(snap) PROVE AnswerBelongsToActive'
  BY <1>3 DEF Finish, Shows, AnswerBelongsToActive
<1>4. ASSUME NEW snap, activeJobId # None, Preview(snap) PROVE AnswerBelongsToActive'
  BY <1>4 DEF Preview, Shows, AnswerBelongsToActive
<1>5. CASE HandleJobEvent \/ FetchArrives
  <2>1. activeJobId # None
    BY <1>5 DEF HandleJobEvent, FetchArrives, Typed, ClientOK
  <2> QED
    BY <1>3, <1>4, <1>5, <2>1 DEF HandleJobEvent, FetchArrives
<1>6. ASSUME NEW c \in Channels, Submit(c) \/ SubmitFails(c) \/ \E j \in Jobs : Accept(c, j)
      PROVE  Steady
  BY <1>6 DEF Submit, SubmitFails, Accept, ui, Steady
<1>7. ASSUME NEW j \in Jobs, Status(j) \/ Publish(j) PROVE Steady
  BY <1>7 DEF Status, Publish, ui, Steady
<1>8. CASE OnError \/ Poll \/ FetchFails \/ CreateTrip \/ TripCreated \/ StreamPolls \/ GetJob
           \/ UNCHANGED vars
  BY <1>1, <1>8 DEF OnError, Poll, FetchFails, CreateTrip, TripCreated, StreamPolls, GetJob, vars,
                    ui, Steady
<1> QED
  BY <1>1, <1>2, <1>5, <1>6, <1>7, <1>8 DEF Next, Client, Server

\* The answer on the screen is the active job's, or that of the last plan.
THEOREM AnswersBelong == Spec => []AnswerBelongsToActive
<1>1. Init => AnswerBelongsToActive
  BY DEF Init, AnswerBelongsToActive
<1> QED
  BY <1>1, AnswerNext, TypedAlways, PTL DEF Spec

LEMMA DraftNext ==
  AnswerBelongsToActive /\ DraftIsOfItsPlan /\ Typed /\ [Next]_vars => DraftIsOfItsPlan'
<1> SUFFICES ASSUME AnswerBelongsToActive, DraftIsOfItsPlan, Typed, [Next]_vars
             PROVE  DraftIsOfItsPlan'
  OBVIOUS
<1>1. CASE CreateTrip
  <2>1. latestAnswer # None
        /\ drafts' = drafts \union {[source |-> latestCompletedJobId, of |-> latestAnswer.job,
                                     final |-> latestAnswer.final]}
    BY <1>1 DEF CreateTrip, CreateTripOffered
  <2>2. latestAnswer.final => latestAnswer.job = latestCompletedJobId
    <3>1. latestAnswer \in Answer
      BY <2>1, Types DEF Typed, ScreenOK
    <3> QED
      BY <2>1, <3>1 DEF AnswerBelongsToActive, Answer
  <2> QED
    BY <2>1, <2>2 DEF DraftIsOfItsPlan
<1>2. ASSUME NEW c \in Channels,
             Submit(c) \/ SubmitFails(c) \/ OnSuccess(c) \/ \E j \in Jobs : Accept(c, j)
      PROVE  UNCHANGED drafts
  BY <1>2 DEF Submit, SubmitFails, OnSuccess, Accept
<1>3. ASSUME NEW j \in Jobs, Status(j) \/ Publish(j) PROVE UNCHANGED drafts
  BY <1>3 DEF Status, Publish
<1>4. CASE HandleJobEvent \/ FetchArrives \/ OnError \/ Poll \/ FetchFails \/ TripCreated
           \/ StreamPolls \/ GetJob \/ UNCHANGED vars
  BY <1>4 DEF HandleJobEvent, FetchArrives, OnError, Poll, FetchFails, TripCreated, StreamPolls,
              GetJob, vars, DraftIsOfItsPlan
<1> QED
  BY <1>1, <1>2, <1>3, <1>4 DEF Next, Client, Server, DraftIsOfItsPlan

\* A draft made from a plan is made from that plan's job.
THEOREM DraftsOfTheirPlans == Spec => []DraftIsOfItsPlan
<1>1. Init => DraftIsOfItsPlan
  BY DEF Init, DraftIsOfItsPlan
<1> QED
  BY <1>1, DraftNext, AnswersBelong, TypedAlways, PTL DEF Spec

\* A plan that is shown is not replaced by a preview.
THEOREM PlanStays == Spec => FinalAnswerStays
<1> DEFINE Stays == latestAnswer # None /\ latestAnswer.final => latestAnswer' \in {latestAnswer, None}
<1>1. Typed /\ AnswerBelongsToActive /\ [Next]_vars => Stays
  <2> SUFFICES ASSUME Typed, AnswerBelongsToActive, [Next]_vars,
                      latestAnswer # None, latestAnswer.final
               PROVE  latestAnswer' \in {latestAnswer, None}
    OBVIOUS
  <2>1. activeJobId = None
    BY DEF AnswerBelongsToActive
  <2>2. ~ HandleJobEvent /\ ~ FetchArrives
    BY <2>1 DEF HandleJobEvent, FetchArrives, Typed, ClientOK
  <2>3. ASSUME NEW c \in Channels,
               Submit(c) \/ SubmitFails(c) \/ OnSuccess(c) \/ \E j \in Jobs : Accept(c, j)
        PROVE  latestAnswer' \in {latestAnswer, None}
    BY <2>3 DEF Submit, SubmitFails, OnSuccess, Accept, ui
  <2>4. ASSUME NEW j \in Jobs, Status(j) \/ Publish(j) PROVE UNCHANGED latestAnswer
    BY <2>4 DEF Status, Publish, ui
  <2>5. CASE OnError \/ Poll \/ FetchFails \/ CreateTrip \/ TripCreated \/ StreamPolls \/ GetJob
             \/ UNCHANGED vars
    BY <2>5 DEF OnError, Poll, FetchFails, CreateTrip, TripCreated, StreamPolls, GetJob, vars, ui
  <2> QED
    BY <2>2, <2>3, <2>4, <2>5 DEF Next, Client, Server
<1> QED
  BY <1>1, TypedAlways, AnswersBelong, PTL DEF Spec, FinalAnswerStays

-----------------------------------------------------------------------------
(* Listening.                                                              *)

\* An active job has its stream, or polling is enabled, or the job has failed.
Heard == activeJobId # None => stream.open \/ Enabled \/ Failed(streamedJob)

LEMMA HeardNext == Typed /\ Heard /\ [Next]_vars => Heard'
<1> SUFFICES ASSUME Typed, Heard, [Next]_vars PROVE Heard'
  OBVIOUS
<1>1. ASSUME UNCHANGED <<activeJobId, sseFailedJobId, streamedJob>>, stream'.open = stream.open
      PROVE  Heard'
  BY <1>1 DEF Heard, Enabled, Failed
<1>2. ASSUME NEW c \in Channels, OnSuccess(c) PROVE Heard'
  BY <1>2, NewTyped DEF OnSuccess, Heard, Enabled
<1>3. CASE OnError
  BY <1>3 DEF OnError, Heard, Enabled
<1>4. CASE HandleJobEvent
  <2>1. CASE stream.event.status = "completed"
    BY <1>4, <2>1 DEF HandleJobEvent, Finish, Heard
  <2>2. CASE stream.event.status = "failed"
    BY <1>4, <2>2 DEF HandleJobEvent, Preview, Heard, Failed
  <2>3. CASE stream.event.status \notin {"completed", "failed"}
    <3>1. stream \in StreamType
      BY Types DEF Typed, ScreenOK
    <3> QED
      BY <1>4, <2>3, <3>1 DEF HandleJobEvent, Heard, StreamType
  <2> QED
    BY <2>1, <2>2, <2>3
<1>5. CASE FetchArrives
  <2>1. CASE query.answer.status = "completed"
    BY <1>5, <2>1 DEF FetchArrives, Finish, Heard
  <2>2. CASE query.answer.status # "completed"
    BY <1>1, <1>5, <2>2 DEF FetchArrives, Preview
  <2> QED
    BY <2>1, <2>2
<1>6. ASSUME NEW c \in Channels, Submit(c) \/ SubmitFails(c) \/ \E j \in Jobs : Accept(c, j)
      PROVE  Heard'
  BY <1>1, <1>6 DEF Submit, SubmitFails, Accept, ui
<1>7. ASSUME NEW j \in Jobs, Status(j) \/ Publish(j) PROVE Heard'
  BY <1>1, <1>7 DEF Status, Publish, ui
<1>8. CASE StreamPolls
  <2>1. stream \in StreamType
    BY Types DEF Typed, ScreenOK
  <2> QED
    BY <1>1, <1>8, <2>1 DEF StreamPolls, StreamType, ui
<1>9. CASE Poll \/ FetchFails \/ CreateTrip \/ TripCreated \/ GetJob \/ UNCHANGED vars
  BY <1>1, <1>9 DEF Poll, FetchFails, CreateTrip, TripCreated, GetJob, vars, ui
<1> QED
  BY <1>2, <1>3, <1>4, <1>5, <1>6, <1>7, <1>8, <1>9 DEF Next, Client, Server

\* The client listens for the active job until it is told that it failed.
THEOREM Listens == Spec => []ListensUntilTold
<1>1. Init => Heard
  BY DEF Init, Heard
<1>2. Typed /\ Heard => ListensUntilTold
  BY DEF Typed, ClientOK, Heard, ListensUntilTold, Listening, Settled, Failed
<1> QED
  BY <1>1, <1>2, HeardNext, TypedAlways, PTL DEF Spec
=============================================================================
