-------------------------- MODULE ApprovalWorkflow --------------------------
(***************************************************************************)
(* Approving a trip: POST /trips/{id}/approve, which runs                   *)
(* run_trip_approval_workflow over the Redis workflow store and the Redis   *)
(* trip store.  An idempotency key names a workflow record; the record says *)
(* whether an approval under that key is to run, runs, or has ended.  Every *)
(* Redis command is a step; requests run concurrently and their processes   *)
(* die; other handlers edit, work on and archive the same trip.             *)
(*                                                                         *)
(* One trip.  A record is named by its key and the request that created it. *)
(* attempt_count is left out: it is positive in every record that runs.     *)
(***************************************************************************)
EXTENDS Naturals

CONSTANTS
  Requests,   \* approval requests that may be under way at one time
  Keys,       \* idempotency keys
  MaxFaults,  \* bound on processes that die and commands that raise
  MaxEdits,   \* bound on other handlers' writes of the trip
  None

ASSUME ApprovalAssumption ==
  /\ MaxFaults \in Nat /\ MaxEdits \in Nat
  /\ None \notin Requests

VARIABLES
  trip,       \* the stored trip: its status, and its generated tasks
  index,      \* key -> the record it names
  record,     \* key, creator -> the record's status; "absent" before it is saved
  request,    \* the handlers: where they are, their key and record, what they read
  editor,     \* another handler of the trip: what it does and the copy it has read
  faults, edits,
  contended,  \* history: a request began while another had not marked its record
  reverted    \* history: an edit of a draft was saved over an approved trip

vars == <<trip, index, record, request, editor, faults, edits, contended, reverted>>
rest == <<editor, faults, edits, contended, reverted>>

Trip     == [status : {"draft", "approved", "archived"}, tasks : {"none", "open", "done"}]
Kinds    == {"edit", "task", "archive"}
Statuses == {"absent", "queued", "running", "completed", "failed"}
Marked   == {"read", "approve", "completed", "failed"}
Runs     == {"begin"} \union Marked
Steps    == {"idle", "lookup", "create", "index", "fetch"} \union Runs

Idle == [step |-> "idle", key |-> None, wf |-> None]

Init ==
  /\ trip = [status |-> "draft", tasks |-> "none"]
  /\ index = [k \in Keys |-> None]
  /\ record = [k \in Keys |-> [r \in Requests |-> "absent"]]
  /\ request = [r \in Requests |-> Idle]
  /\ editor = [kind |-> "none", copy |-> trip]
  /\ faults = 0 /\ edits = 0
  /\ contended = FALSE /\ reverted = FALSE

At(r, step)   == request[r].step = step
Goto(r, step) == request' = [request EXCEPT ![r].step = step]
Leave(r)      == request' = [request EXCEPT ![r] = Idle]
StatusOf(r)   == record[request[r].key][request[r].wf]
Save(r, status) ==
  record' = [record EXCEPT ![request[r].key] = [@ EXCEPT ![request[r].wf] = status]]

-----------------------------------------------------------------------------
(* A request with its key.  It is uncontended when every other request      *)
(* under way has the same key and has marked its record running.            *)

Start(r, k) ==
  /\ At(r, "idle")
  /\ request' = [request EXCEPT ![r] = [step |-> "lookup", key |-> k, wf |-> None]]
  /\ contended' = (contended \/ \E q \in Requests \ {r} :
                      ~At(q, "idle") /\ ~(request[q].step \in Marked /\ request[q].key = k))
  /\ UNCHANGED <<trip, index, record, editor, faults, edits, reverted>>

\* create_or_get: GET of the index, then of the record, or SET of both.
Lookup(r) ==
  LET wf == index[request[r].key] IN
  /\ At(r, "lookup")
  /\ request' = IF wf # None
                THEN [request EXCEPT ![r].step = "fetch", ![r].wf = wf]
                ELSE [request EXCEPT ![r].step = "create", ![r].wf = r]
  /\ UNCHANGED <<trip, index, record, rest>>

Create(r) ==
  /\ At(r, "create")
  /\ Save(r, "queued") /\ Goto(r, "index")
  /\ UNCHANGED <<trip, index, rest>>

SetIndex(r) ==
  /\ At(r, "index")
  /\ index' = [index EXCEPT ![request[r].key] = r] /\ Goto(r, "begin")
  /\ UNCHANGED <<trip, record, rest>>

\* A faulty variant: only a completed workflow is not run again.
Fetch_IgnoresRunning(r) ==
  /\ At(r, "fetch")
  /\ IF StatusOf(r) = "completed" THEN Leave(r) ELSE Goto(r, "begin")
  /\ UNCHANGED <<trip, index, record, rest>>

\* A faulty variant: a completed workflow is run again.
Fetch_IgnoresCompleted(r) ==
  /\ At(r, "fetch")
  /\ IF StatusOf(r) = "running" THEN Leave(r) ELSE Goto(r, "begin")
  /\ UNCHANGED <<trip, index, record, rest>>

\* A faulty variant: a failed workflow is not run again either.
Fetch_OnlyOnce(r) ==
  /\ At(r, "fetch")
  /\ Leave(r)
  /\ UNCHANGED <<trip, index, record, rest>>

\* A record that runs or has completed is answered with the trip as it is.
Fetch(r) ==
  /\ At(r, "fetch")
  /\ IF StatusOf(r) \in {"completed", "running"} THEN Leave(r) ELSE Goto(r, "begin")
  /\ UNCHANGED <<trip, index, record, rest>>

-----------------------------------------------------------------------------
(* The run: mark_running, approve, mark_completed or mark_failed.  A mark is *)
(* a GET and a SET; the status it sets does not depend on the one it read,  *)
(* so a mark is one step.                                                   *)

MarkRunning(r) ==
  /\ At(r, "begin")
  /\ Save(r, "running") /\ Goto(r, "read")
  /\ UNCHANGED <<trip, index, rest>>

\* A faulty variant: any trip may be approved.
ReadTrip_Unchecked(r) ==
  /\ At(r, "read") /\ Goto(r, "approve")
  /\ UNCHANGED <<trip, index, record, rest>>

\* transition_trip refuses a trip that is not a draft.
ReadTrip(r) ==
  /\ At(r, "read")
  /\ Goto(r, IF trip.status = "draft" THEN "approve" ELSE "failed")
  /\ UNCHANGED <<trip, index, record, rest>>

\* A faulty variant: the approved trip is never saved.
Approve_NotSaved(r) ==
  /\ At(r, "approve") /\ Goto(r, "completed")
  /\ UNCHANGED <<trip, index, record, rest>>

\* The tasks are generated anew.
ApprovedTrip == [status |-> "approved", tasks |-> "open"]

Approve(r) ==
  /\ At(r, "approve")
  /\ trip' = ApprovedTrip /\ Goto(r, "completed")
  /\ UNCHANGED <<index, record, rest>>

\* The GET or the SET of the trip raises: the workflow fails, whether or not
\* Redis has carried out the SET.
Raise(r) ==
  /\ faults < MaxFaults
  /\ faults' = faults + 1
  /\ \/ At(r, "read") /\ UNCHANGED trip
     \/ At(r, "approve") /\ trip' \in {trip, ApprovedTrip}
  /\ Goto(r, "failed")
  /\ UNCHANGED <<index, record, editor, edits, contended, reverted>>

Mark(r) ==
  /\ At(r, "completed") \/ At(r, "failed")
  /\ Save(r, request[r].step) /\ Leave(r)
  /\ UNCHANGED <<trip, index, rest>>

\* The process dies, or a command outside the run's try raises: the handler ends.
Crash(r) ==
  /\ ~At(r, "idle") /\ faults < MaxFaults
  /\ faults' = faults + 1 /\ Leave(r)
  /\ UNCHANGED <<trip, index, record, editor, edits, contended, reverted>>

-----------------------------------------------------------------------------
(* Another handler of the trip, GET and SET: a draft is edited, a task is   *)
(* completed, the trip is archived.                                         *)

Allowed(kind) ==
  /\ kind = "edit" => trip.status = "draft"
  /\ kind = "task" => trip.tasks = "open"

EditorReads(kind) ==
  /\ editor.kind = "none" /\ edits < MaxEdits /\ Allowed(kind)
  /\ editor' = [kind |-> kind, copy |-> trip]
  /\ edits' = edits + 1
  /\ UNCHANGED <<trip, index, record, request, faults, contended, reverted>>

EditorSaves ==
  /\ editor.kind # "none"
  /\ trip' = CASE editor.kind = "edit"    -> editor.copy
               [] editor.kind = "task"    -> [editor.copy EXCEPT !.tasks = "done"]
               [] editor.kind = "archive" -> [editor.copy EXCEPT !.status = "archived"]
  /\ editor' = [kind |-> "none", copy |-> trip']
  /\ reverted' = (reverted \/ (trip'.status = "draft" /\ trip.status # "draft"))
  /\ UNCHANGED <<index, record, request, faults, edits, contended>>

-----------------------------------------------------------------------------
Step(r) ==
  \/ Lookup(r) \/ Create(r) \/ SetIndex(r) \/ Fetch(r)
  \/ MarkRunning(r) \/ ReadTrip(r) \/ Approve(r) \/ Mark(r)

Editor == EditorSaves \/ \E kind \in Kinds : EditorReads(kind)

Next ==
  \/ \E r \in Requests : Step(r) \/ Raise(r) \/ Crash(r) \/ \E k \in Keys : Start(r, k)
  \/ Editor

Spec == Init /\ [][Next]_vars

\* Handlers run to their end unless they die, and the user keeps asking.  No
\* process need die and no command need raise.
FairSpec ==
  /\ Spec
  /\ \A r \in Requests : WF_vars(Step(r)) /\ WF_vars(\E k \in Keys : Start(r, k))

-----------------------------------------------------------------------------
\* Every variable has its type: a record has a status that readers know, and a
\* handler is at one of its steps.
TypeOK ==
  /\ trip \in Trip
  /\ index \in [Keys -> Requests \union {None}]
  /\ record \in [Keys -> [Requests -> Statuses]]
  /\ request \in [Requests -> [step : Steps, key : Keys \union {None}, wf : Requests \union {None}]]
  /\ editor \in [kind : {"none"} \union Kinds, copy : Trip]
  /\ faults \in 0..MaxFaults /\ edits \in 0..MaxEdits
  /\ contended \in BOOLEAN /\ reverted \in BOOLEAN

Running == {r \in Requests : request[r].step \in Runs}

\* A request that comes after the running mark never runs the approval a
\* second time: without two requests in the window between the lookup and the
\* mark, one run at most is under way, under whichever key, crash or retry.
OneRun == ~contended => \A q, r \in Running : q = r

\* A workflow recorded as completed tells the truth about the trip: it is no
\* draft, whatever was retried, run twice or recorded as failed, unless an edit
\* that had read the draft was saved over the approval.
CompletedIsTrue ==
  \A k \in Keys, w \in Requests :
    record[k][w] = "completed" => trip.status # "draft" \/ reverted

\* A completed workflow stays completed: no late mark overwrites it, so a retry
\* is answered like the first request (the window of OneRun apart).
CompletedStays ==
  [][\A k \in Keys, w \in Requests :
       record[k][w] = "completed" => record'[k][w] = "completed" \/ contended]_vars

\* What the user has done since the approval is not lost to a repeated one,
\* which generates the tasks anew (the window of OneRun apart).
ProgressKept ==
  [][trip.tasks = "done" => trip'.tasks = "done" \/ contended]_vars

Abandoned ==
  \E k \in Keys, w \in Requests :
    record[k][w] = "running" /\ ~\E r \in Running : request[r].key = k /\ request[r].wf = w

\* While the user keeps asking, a draft is approved at last, retries and
\* failed runs included, unless a run ended without a mark or an edit was
\* saved over the approval.
DraftIsApproved == trip.status = "draft" ~> (trip.status # "draft" \/ Abandoned \/ reverted)

\* What the docs say: "Critical trip state transitions are recoverable and
\* idempotent".  A process that dies in a run leaves its record running, which
\* every later request with the key takes for a run under way.
ApprovalRecovers == trip.status = "draft" ~> trip.status # "draft"
=============================================================================
