----------------------- MODULE ApprovalWorkflowProofs -----------------------
(***************************************************************************)
(* Theorems about ApprovalWorkflow, for any number of requests, keys,       *)
(* faults and edits.                                                       *)
(***************************************************************************)
EXTENDS ApprovalWorkflow, TLAPS

\* Which fields of a handler's request are set where.
RequestOK(r) ==
  /\ ~At(r, "idle") => request[r].key \in Keys
  /\ request[r].step \notin {"idle", "lookup"} => request[r].wf \in Requests
  /\ request[r].step \in {"create", "index"} => request[r].wf = r
  /\ request[r].step \in {"fetch"} \union Runs => index[request[r].key] # None

Typed == TypeOK /\ \A r \in Requests : RequestOK(r)

-----------------------------------------------------------------------------
(* Types.                                                                  *)

LEMMA TypedInit == Init => Typed
<1> SUFFICES ASSUME Init PROVE Typed
  OBVIOUS
<1>1. request \in [Requests -> [step : Steps, key : Keys \union {None}, wf : Requests \union {None}]]
  BY DEF Init, Idle, Steps
<1>2. record \in [Keys -> [Requests -> Statuses]] /\ index \in [Keys -> Requests \union {None}]
  BY DEF Init, Statuses
<1>3. trip \in Trip /\ editor \in [kind : {"none"} \union Kinds, copy : Trip]
  BY DEF Init, Trip
<1>4. faults \in 0 .. MaxFaults /\ edits \in 0 .. MaxEdits
  BY ApprovalAssumption DEF Init
<1>5. \A r \in Requests : RequestOK(r)
  BY DEF Init, RequestOK, At, Idle, Runs, Marked
<1> QED
  BY <1>1, <1>2, <1>3, <1>4, <1>5 DEF Typed, TypeOK, Init

\* A handler that goes to another step with its key and its record.
LEMMA GotoTyped ==
  ASSUME Typed, NEW r \in Requests, ~At(r, "idle"), NEW s \in Steps, Goto(r, s),
         \A k \in Keys : index[k] # None => index'[k] # None,
         s \notin {"idle", "lookup"} => ~At(r, "lookup"),
         s \in {"create", "index"} => request[r].wf = r,
         s \in {"fetch"} \union Runs => index'[request[r].key] # None
  PROVE  /\ request' \in [Requests -> [step : Steps, key : Keys \union {None},
                                       wf : Requests \union {None}]]
         /\ \A q \in Requests : RequestOK(q)'
<1>1. request'[r] = [request[r] EXCEPT !.step = s] /\ \A q \in Requests \ {r} : request'[q] = request[q]
  BY DEF Goto, Typed, TypeOK
<1>2. request[r] \in [step : Steps, key : Keys \union {None}, wf : Requests \union {None}]
  BY DEF Typed, TypeOK
<1>3. RequestOK(r)'
  BY <1>1, <1>2 DEF RequestOK, At, Typed
<1>4. ASSUME NEW q \in Requests \ {r} PROVE RequestOK(q)'
  <2>1. request'[q] = request[q] /\ RequestOK(q)
    BY <1>1 DEF Typed
  <2>2. request[q].step # "idle" => request[q].key \in Keys
    BY <2>1 DEF RequestOK, At
  <2>3. Runs = {"begin", "read", "approve", "completed", "failed"}
    BY DEF Runs, Marked
  <2> QED
    BY <2>1, <2>2, <2>3 DEF RequestOK, At
<1> QED
  BY <1>1, <1>2, <1>3, <1>4 DEF Goto, Typed, TypeOK

LEMMA LeaveTyped ==
  ASSUME Typed, NEW r \in Requests, Leave(r), UNCHANGED index
  PROVE  /\ request' \in [Requests -> [step : Steps, key : Keys \union {None},
                                       wf : Requests \union {None}]]
         /\ \A q \in Requests : RequestOK(q)'
<1>1. request'[r] = Idle /\ \A q \in Requests \ {r} : request'[q] = request[q]
  BY DEF Leave, Typed, TypeOK
<1>2. Idle \in [step : Steps, key : Keys \union {None}, wf : Requests \union {None}]
  BY DEF Idle, Steps
<1>3. RequestOK(r)'
  BY <1>1 DEF RequestOK, At, Idle, Runs, Marked
<1>4. \A q \in Requests \ {r} : RequestOK(q)'
  BY <1>1 DEF RequestOK, At, Typed
<1> QED
  BY <1>1, <1>2, <1>3, <1>4 DEF Leave, Typed, TypeOK

\* A handler saves a status of its record.
LEMMA SaveTyped ==
  ASSUME Typed, NEW r \in Requests, request[r].step \notin {"idle", "lookup"},
         NEW s \in Statuses, Save(r, s)
  PROVE  /\ record' \in [Keys -> [Requests -> Statuses]]
         /\ request[r].key \in Keys /\ request[r].wf \in Requests
         /\ record'[request[r].key][request[r].wf] = s
         /\ \A k \in Keys, w \in Requests :
              <<k, w>> # <<request[r].key, request[r].wf>> => record'[k][w] = record[k][w]
<1>1. request[r].key \in Keys /\ request[r].wf \in Requests /\ record \in [Keys -> [Requests -> Statuses]]
  BY DEF Typed, TypeOK, RequestOK, At
<1>2. record' = [record EXCEPT ![request[r].key] = [@ EXCEPT ![request[r].wf] = s]]
  BY DEF Save
<1> HIDE DEF Save
<1>3. record' \in [Keys -> [Requests -> Statuses]]
  BY <1>1, <1>2
<1>4. record'[request[r].key] = [record[request[r].key] EXCEPT ![request[r].wf] = s]
  BY <1>1, <1>2
<1>5. \A k \in Keys : k # request[r].key => record'[k] = record[k]
  BY <1>1, <1>2
<1>6. record[request[r].key] \in [Requests -> Statuses]
  BY <1>1
<1> QED
  BY <1>1, <1>3, <1>4, <1>5, <1>6

LEMMA TypedNext == Typed /\ [Next]_vars => Typed'
<1> SUFFICES ASSUME Typed, [Next]_vars PROVE Typed'
  OBVIOUS
<1>1. ASSUME NEW r \in Requests, NEW k \in Keys, Start(r, k) PROVE Typed'
  <2>1. request'[r] = [step |-> "lookup", key |-> k, wf |-> None]
        /\ \A q \in Requests \ {r} : request'[q] = request[q]
    BY <1>1 DEF Start, Typed, TypeOK
  <2>2. [step |-> "lookup", key |-> k, wf |-> None]
          \in [step : Steps, key : Keys \union {None}, wf : Requests \union {None}]
    BY DEF Steps
  <2>3. \A q \in Requests : RequestOK(q)'
    BY <1>1, <2>1 DEF Start, RequestOK, At, Typed, Runs, Marked
  <2>4. request' \in [Requests -> [step : Steps, key : Keys \union {None}, wf : Requests \union {None}]]
    BY <1>1, <2>2 DEF Start, Typed, TypeOK
  <2>5. contended' \in BOOLEAN
    BY <1>1 DEF Start, Typed, TypeOK
  <2> QED
    BY <1>1, <2>3, <2>4, <2>5 DEF Start, Typed, TypeOK
<1>2. ASSUME NEW r \in Requests, Lookup(r) PROVE Typed'
  <2> DEFINE wf == index[request[r].key]
             new == IF wf # None THEN [request[r] EXCEPT !.step = "fetch", !.wf = wf]
                    ELSE [request[r] EXCEPT !.step = "create", !.wf = r]
  <2>1. request[r].key \in Keys /\ wf \in Requests \union {None} /\ At(r, "lookup")
    BY <1>2 DEF Lookup, Typed, TypeOK, RequestOK, At
  <2>2. request[r] \in [step : Steps, key : Keys \union {None}, wf : Requests \union {None}]
    BY DEF Typed, TypeOK
  <2>3. request' = [request EXCEPT ![r] = new]
    BY <1>2, <2>2 DEF Lookup, Typed, TypeOK
  <2>4. new \in [step : Steps, key : Keys \union {None}, wf : Requests \union {None}]
    BY <2>1, <2>2 DEF Steps
  <2>5. new.key = request[r].key /\ (wf # None => new.step = "fetch" /\ new.wf = wf)
        /\ (wf = None => new.step = "create" /\ new.wf = r)
    BY <2>2
  <2>6. request'[r] = new /\ \A q \in Requests \ {r} : request'[q] = request[q]
    BY <2>3 DEF Typed, TypeOK
  <2> HIDE DEF new
  <2>7. RequestOK(r)'
    BY <1>2, <2>1, <2>5, <2>6 DEF RequestOK, At, Lookup, Runs, Marked
  <2>8. \A q \in Requests \ {r} : RequestOK(q)'
    BY <1>2, <2>6 DEF RequestOK, At, Typed, Lookup
  <2> QED
    BY <1>2, <2>3, <2>4, <2>7, <2>8 DEF Lookup, rest, Typed, TypeOK
<1>3. ASSUME NEW r \in Requests, Create(r) PROVE Typed'
  <2>1. request[r].step = "create" /\ Goto(r, "index") /\ Save(r, "queued")
        /\ UNCHANGED <<trip, index, rest>>
    BY <1>3 DEF Create, At
  <2>2. record' \in [Keys -> [Requests -> Statuses]]
    BY <2>1, SaveTyped DEF Statuses
  <2>3. request[r].wf = r
    BY <2>1 DEF Typed, RequestOK
  <2> QED
    BY <2>1, <2>2, <2>3, GotoTyped DEF rest, Typed, TypeOK, At, Steps, Runs, Marked
<1>4. ASSUME NEW r \in Requests, SetIndex(r) PROVE Typed'
  <2>1. request[r].step = "index" /\ Goto(r, "begin") /\ index' = [index EXCEPT ![request[r].key] = r]
        /\ UNCHANGED <<trip, record, rest>>
    BY <1>4 DEF SetIndex, At
  <2>2. request[r].key \in Keys /\ r # None
    BY <2>1, ApprovalAssumption DEF Typed, RequestOK, At
  <2>3. index' \in [Keys -> Requests \union {None}] /\ index'[request[r].key] # None
        /\ \A k \in Keys : index[k] # None => index'[k] # None
    BY <2>1, <2>2 DEF Typed, TypeOK
  <2> QED
    BY <2>1, <2>3, GotoTyped DEF rest, Typed, TypeOK, At, Steps, Runs, Marked
<1>5. ASSUME NEW r \in Requests, Fetch(r) PROVE Typed'
  <2>1. request[r].step = "fetch" /\ (Goto(r, "begin") \/ Leave(r)) /\ UNCHANGED <<trip, index, record, rest>>
    BY <1>5 DEF Fetch, At
  <2>2. index[request[r].key] # None
    BY <2>1 DEF Typed, RequestOK
  <2>3. CASE Goto(r, "begin")
    BY <2>1, <2>2, <2>3, GotoTyped DEF rest, Typed, TypeOK, At, Steps, Runs, Marked
  <2>4. CASE Leave(r)
    BY <2>1, <2>4, LeaveTyped DEF rest, Typed, TypeOK
  <2> QED
    BY <2>1, <2>3, <2>4
<1>6. ASSUME NEW r \in Requests, MarkRunning(r) \/ ReadTrip(r) \/ Approve(r) PROVE Typed'
  <2>1. /\ request[r].step \in Runs
        /\ \E s \in {"read", "approve", "failed", "completed"} : Goto(r, s)
        /\ UNCHANGED <<index, rest>>
    BY <1>6 DEF MarkRunning, ReadTrip, Approve, At, Runs, Marked
  <2>2. index[request[r].key] # None
    BY <2>1 DEF Typed, RequestOK
  <2>3. record' \in [Keys -> [Requests -> Statuses]] /\ trip' \in Trip
    <3>1. CASE MarkRunning(r)
      BY <3>1, SaveTyped DEF MarkRunning, At, Statuses, Typed, TypeOK
    <3>2. CASE ReadTrip(r) \/ Approve(r)
      BY <3>2 DEF ReadTrip, Approve, ApprovedTrip, Trip, Typed, TypeOK
    <3> QED
      BY <1>6, <3>1, <3>2
  <2> QED
    BY <2>1, <2>2, <2>3, GotoTyped DEF rest, Typed, TypeOK, At, Steps, Runs, Marked
<1>7. ASSUME NEW r \in Requests, Mark(r) PROVE Typed'
  <2>1. request[r].step \in {"completed", "failed"} /\ Save(r, request[r].step) /\ Leave(r)
        /\ UNCHANGED <<trip, index, rest>>
    BY <1>7 DEF Mark, At
  <2>2. record' \in [Keys -> [Requests -> Statuses]]
    BY <2>1, SaveTyped DEF Statuses
  <2> QED
    BY <2>1, <2>2, LeaveTyped DEF rest, Typed, TypeOK
<1>8. ASSUME NEW r \in Requests, Crash(r) PROVE Typed'
  <2>1. faults' \in 0 .. MaxFaults
    BY <1>8, ApprovalAssumption DEF Crash, Typed, TypeOK
  <2> QED
    BY <1>8, <2>1, LeaveTyped DEF Crash, Typed, TypeOK
<1>9. ASSUME NEW r \in Requests, Raise(r) PROVE Typed'
  <2>1. request[r].step \in {"read", "approve"} /\ Goto(r, "failed") /\ UNCHANGED index
    BY <1>9 DEF Raise, At
  <2>2. index[request[r].key] # None
    BY <2>1 DEF Typed, RequestOK, Runs, Marked
  <2>3. trip' \in Trip
    BY <1>9 DEF Raise, ApprovedTrip, Typed, TypeOK, Trip
  <2>4. faults' \in 0 .. MaxFaults
    BY <1>9, ApprovalAssumption DEF Raise, Typed, TypeOK
  <2>5. "failed" \in Steps /\ "failed" \notin {"idle", "lookup", "create", "index"}
    BY DEF Steps, Runs, Marked
  <2>6. /\ request' \in [Requests -> [step : Steps, key : Keys \union {None},
                                       wf : Requests \union {None}]]
        /\ \A q \in Requests : RequestOK(q)'
    BY <2>1, <2>2, <2>5, GotoTyped DEF At
  <2> QED
    BY <1>9, <2>3, <2>4, <2>6 DEF Raise, Typed, TypeOK
<1>10. ASSUME NEW kind \in Kinds, EditorReads(kind) PROVE Typed'
  BY <1>10, ApprovalAssumption DEF EditorReads, Typed, TypeOK, RequestOK, At
<1>11. CASE EditorSaves
  <2>1. trip' \in Trip
    BY <1>11 DEF EditorSaves, Typed, TypeOK, Trip, Kinds
  <2> QED
    BY <1>11, <2>1 DEF EditorSaves, Typed, TypeOK, RequestOK, At
<1>12. CASE UNCHANGED vars
  BY <1>12 DEF vars, Typed, TypeOK, RequestOK, At
<1> QED
  BY <1>1, <1>2, <1>3, <1>4, <1>5, <1>6, <1>7, <1>8, <1>9, <1>10, <1>11, <1>12 DEF Next, Step, Editor

THEOREM TypedAlways == Spec => []Typed
<1>1. Init => Typed
  BY TypedInit
<1>2. Typed /\ [Next]_vars => Typed'
  BY TypedNext
<1> QED
  BY <1>1, <1>2, PTL DEF Spec

\* Every variable has its type, in every reachable state.
THEOREM TypeCorrect == Spec => []TypeOK
<1>1. Typed => TypeOK
  BY DEF Typed
<1> QED
  BY <1>1, TypedAlways, PTL

-----------------------------------------------------------------------------
(* A completed workflow and the trip.                                      *)

\* Who has approved, or recorded it, left a trip that is no draft.
Approved ==
  (\/ \E k \in Keys, w \in Requests : record[k][w] = "completed"
   \/ \E r \in Requests : At(r, "completed"))
  => trip.status # "draft" \/ reverted

LEMMA ApprovedInit == Init => Approved
BY DEF Init, Approved, At, Idle

LEMMA ApprovedNext == Typed /\ Approved /\ [Next]_vars => Approved'
<1> SUFFICES ASSUME Typed, Approved, [Next]_vars PROVE Approved'
  OBVIOUS
<1>1. ASSUME NEW r \in Requests, NEW step, step # "completed",
             \A q \in Requests \ {r} : request'[q] = request[q],
             request'[r].step = step, UNCHANGED <<trip, record, reverted>>
      PROVE  Approved'
  BY <1>1 DEF Approved, At
<1>2. ASSUME NEW r \in Requests, NEW k \in Keys, Start(r, k) PROVE Approved'
  <2>1. request'[r].step = "lookup" /\ \A q \in Requests \ {r} : request'[q] = request[q]
    BY <1>2 DEF Start, Typed, TypeOK
  <2> QED
    BY <1>1, <1>2, <2>1 DEF Start
<1>3. ASSUME NEW r \in Requests, Lookup(r) \/ SetIndex(r) \/ Fetch(r) \/ ReadTrip(r) \/ Crash(r)
      PROVE  Approved'
  <2>1. \E step : /\ step # "completed" /\ request'[r].step = step
                 /\ \A q \in Requests \ {r} : request'[q] = request[q]
    BY <1>3 DEF Lookup, SetIndex, Fetch, ReadTrip, Crash, Goto, Leave, Idle, Typed, TypeOK
  <2> QED
    BY <1>1, <1>3, <2>1 DEF Lookup, SetIndex, Fetch, ReadTrip, Crash, rest
<1>4. ASSUME NEW r \in Requests, Create(r) \/ MarkRunning(r) PROVE Approved'
  <2>1. /\ request[r].step \notin {"idle", "lookup"}
        /\ \E s \in {"queued", "running"} : Save(r, s)
        /\ \E s \in {"index", "read"} : Goto(r, s)
        /\ UNCHANGED <<trip, reverted>>
    BY <1>4 DEF Create, MarkRunning, At, rest
  <2>2. \A k \in Keys, w \in Requests : record'[k][w] = "completed" => record[k][w] = "completed"
    BY <2>1, SaveTyped DEF Statuses
  <2>3. \A q \in Requests : At(q, "completed")' => At(q, "completed")
    BY <2>1 DEF Goto, At, Typed, TypeOK
  <2> QED
    BY <2>1, <2>2, <2>3 DEF Approved
<1>5. ASSUME NEW r \in Requests, Approve(r) PROVE Approved'
  BY <1>5 DEF Approve, ApprovedTrip, Approved
<1>6. ASSUME NEW r \in Requests, Raise(r) PROVE Approved'
  <2>1. UNCHANGED <<record, reverted>> /\ (trip' = trip \/ trip'.status = "approved")
    BY <1>6 DEF Raise, ApprovedTrip
  <2>2. \A q \in Requests : At(q, "completed")' => At(q, "completed")
    BY <1>6 DEF Raise, Goto, At, Typed, TypeOK
  <2> QED
    BY <2>1, <2>2 DEF Approved
<1>7. ASSUME NEW r \in Requests, Mark(r) PROVE Approved'
  <2>1. /\ request[r].step \in {"completed", "failed"} /\ Save(r, request[r].step)
        /\ Leave(r) /\ UNCHANGED <<trip, reverted>>
    BY <1>7 DEF Mark, At, rest
  <2>2. \A q \in Requests : At(q, "completed")' => At(q, "completed")
    BY <2>1 DEF Leave, Idle, At, Typed, TypeOK
  <2>3. \A k \in Keys, w \in Requests :
          record'[k][w] = "completed" => record[k][w] = "completed" \/ At(r, "completed")
    BY <2>1, SaveTyped DEF Statuses, At
  <2> QED
    BY <2>1, <2>2, <2>3 DEF Approved
<1>8. CASE Editor
  <2>1. UNCHANGED <<record, request>>
        /\ (trip'.status = "draft" => trip.status = "draft" \/ reverted')
        /\ (reverted => reverted')
    <3>1. CASE EditorSaves
      BY <3>1 DEF EditorSaves, Typed, TypeOK
    <3>2. ASSUME NEW kind \in Kinds, EditorReads(kind)
          PROVE  UNCHANGED <<trip, record, request, reverted>>
      BY <3>2 DEF EditorReads
    <3> QED
      BY <1>8, <3>1, <3>2 DEF Editor
  <2> QED
    BY <2>1 DEF Approved, At
<1>9. CASE UNCHANGED vars
  BY <1>9 DEF vars, Approved, At
<1> QED
  BY <1>2, <1>3, <1>4, <1>5, <1>6, <1>7, <1>8, <1>9 DEF Next, Step

\* A workflow recorded as completed tells the truth about the trip, whatever
\* was retried, run twice or recorded as failed.
THEOREM CompletedTrue == Spec => []CompletedIsTrue
<1>1. Approved => CompletedIsTrue
  BY DEF Approved, CompletedIsTrue
<1> QED
  BY <1>1, ApprovedInit, ApprovedNext, TypedAlways, PTL DEF Spec

-----------------------------------------------------------------------------
(* The trip and the copy another handler has read: since then only an       *)
(* approval can have changed the trip.                                      *)

CopyOK ==
  /\ trip.status = "draft" => trip.tasks = "none"
  /\ editor.copy.status = "draft" => editor.copy.tasks = "none"
  /\ editor.kind # "none" =>
       editor.copy = trip \/ trip = ApprovedTrip
  /\ editor.kind = "task" => editor.copy.tasks = "open"

LEMMA CopyInit == Init => CopyOK
BY DEF Init, CopyOK

LEMMA CopyNext == Typed /\ CopyOK /\ [Next]_vars => CopyOK'
<1> SUFFICES ASSUME Typed, CopyOK, [Next]_vars PROVE CopyOK'
  OBVIOUS
<1>1. ASSUME UNCHANGED <<trip, editor>> PROVE CopyOK'
  BY <1>1 DEF CopyOK
<1>2. ASSUME NEW r \in Requests, Approve(r) PROVE CopyOK'
  BY <1>2 DEF Approve, ApprovedTrip, rest, CopyOK
<1>3. ASSUME NEW r \in Requests, Raise(r) PROVE CopyOK'
  BY <1>1, <1>3 DEF Raise, ApprovedTrip, CopyOK
<1>4. ASSUME NEW kind \in Kinds, EditorReads(kind) PROVE CopyOK'
  BY <1>4 DEF EditorReads, Allowed, CopyOK
<1>5. CASE EditorSaves
  <2>1. editor.kind \in Kinds /\ editor.copy \in Trip
    BY <1>5 DEF EditorSaves, Typed, TypeOK
  <2>2. CASE editor.kind = "edit"
    BY <1>5, <2>1, <2>2 DEF EditorSaves, CopyOK
  <2>3. CASE editor.kind = "task"
    BY <1>5, <2>1, <2>3 DEF EditorSaves, CopyOK, Trip
  <2>4. CASE editor.kind = "archive"
    BY <1>5, <2>1, <2>4 DEF EditorSaves, CopyOK, Trip
  <2> QED
    BY <2>1, <2>2, <2>3, <2>4 DEF Kinds
<1>6. ASSUME NEW r \in Requests, NEW k \in Keys, Start(r, k) PROVE CopyOK'
  BY <1>1, <1>6 DEF Start
<1>7. ASSUME NEW r \in Requests,
             \/ Lookup(r) \/ Create(r) \/ SetIndex(r) \/ Fetch(r)
             \/ MarkRunning(r) \/ ReadTrip(r) \/ Mark(r) \/ Crash(r)
      PROVE  CopyOK'
  BY <1>1, <1>7 DEF Lookup, Create, SetIndex, Fetch, MarkRunning, ReadTrip, Mark, Crash, rest
<1>8. CASE UNCHANGED vars
  BY <1>1, <1>8 DEF vars
<1> QED
  BY <1>2, <1>3, <1>4, <1>5, <1>6, <1>7, <1>8 DEF Next, Step, Editor

-----------------------------------------------------------------------------
(* Uncontended: where a request is says where the others are, and what its  *)
(* record and the trip hold.                                                *)

Alone(r)   == \A q \in Requests \ {r} : At(q, "idle")
Follows(r) ==
  \A q \in Requests \ {r} :
    At(q, "idle") \/ (request[q].step \in Marked /\ request[q].key = request[r].key)

Place(r) ==
  /\ request[r].step \in {"lookup", "fetch"} => Follows(r)
  /\ request[r].step \in {"create", "index", "begin"} => Alone(r)
  /\ request[r].step \in {"create", "index"} => index[request[r].key] = None
  /\ request[r].step \in {"fetch"} \union Runs => index[request[r].key] = request[r].wf
  /\ request[r].step \in {"index", "begin"} => StatusOf(r) # "completed"
  /\ request[r].step \in Marked =>
       StatusOf(r) = "running" /\ \A q \in Requests \ {r} : request[q].step \notin Runs
  /\ At(r, "approve") => trip.tasks = "none"

Named == \A k \in Keys, w \in Requests : record[k][w] = "completed" => index[k] # None
Calm  == ~ contended => \A r \in Requests : Place(r)

LEMMA CalmInit == Init => Named /\ Calm
BY DEF Init, Named, Calm, Place, At, Idle, Runs, Marked

\* A request that leaves: every other one keeps its place.
LEMMA LeavePlaces ==
  ASSUME Typed, NEW r \in Requests, \A q \in Requests : Place(q), Leave(r),
         UNCHANGED <<trip, index, record>>
  PROVE  \A q \in Requests : Place(q)'
<1>1. request'[r].step = "idle" /\ \A q \in Requests \ {r} : request'[q] = request[q]
  BY DEF Leave, Idle, Typed, TypeOK
<1>2. Place(r)'
  BY <1>1 DEF Place, At, Runs, Marked
<1>3. ASSUME NEW q \in Requests \ {r} PROVE Place(q)'
  <2>1. Place(q)
    OBVIOUS
  <2>2. Alone(q) => Alone(q)'
    BY <1>1 DEF Alone, At
  <2>3. Follows(q) => Follows(q)'
    BY <1>1 DEF Follows, At
  <2>4. (\A z \in Requests \ {q} : request[z].step \notin Runs)
          => \A z \in Requests \ {q} : request'[z].step \notin Runs
    BY <1>1 DEF Runs, Marked
  <2> QED
    BY <1>1, <2>1, <2>2, <2>3, <2>4 DEF Place, At, StatusOf
<1> QED
  BY <1>2, <1>3

\* A request that is alone, or only followed by requests that ask for its
\* record, moves on: the places of idle requests need no more.
LEMMA AlonePlaces ==
  ASSUME Typed, NEW r \in Requests, Alone(r),
         \A q \in Requests \ {r} : request'[q] = request[q], Place(r)'
  PROVE  \A q \in Requests : Place(q)'
<1>1. ASSUME NEW q \in Requests \ {r} PROVE Place(q)'
  <2>1. request'[q].step = "idle"
    BY DEF Alone, At
  <2> QED
    BY <2>1 DEF Place, At, Runs, Marked
<1> QED
  BY <1>1

\* A request that has marked its record goes on from there.
LEMMA MarkedPlaces ==
  ASSUME Typed, NEW r \in Requests, \A q \in Requests : Place(q),
         request[r].step \in Marked, NEW s \in Marked, Goto(r, s),
         UNCHANGED <<index, record>>, s = "approve" => trip'.tasks = "none"
  PROVE  \A q \in Requests : Place(q)'
<1>1. /\ request'[r].step = s /\ request'[r].key = request[r].key /\ request'[r].wf = request[r].wf
      /\ \A q \in Requests \ {r} : request'[q] = request[q]
  BY DEF Goto, Typed, TypeOK
<1>2. Place(r)'
  <2>1. /\ index[request[r].key] = request[r].wf /\ StatusOf(r) = "running"
        /\ \A q \in Requests \ {r} : request[q].step \notin Runs
    BY DEF Place, Runs
  <2>2. s \notin {"lookup", "fetch", "create", "index", "begin"}
    BY DEF Marked
  <2> QED
    BY <1>1, <2>1, <2>2 DEF Place, StatusOf, Runs, At
<1>3. ASSUME NEW q \in Requests \ {r} PROVE Place(q)'
  <2>1. request[q].step \notin Runs
    BY DEF Place
  <2>2. request[q].step \notin {"create", "index"}
    BY DEF Place, Alone, At, Marked
  <2>3. Follows(q) => Follows(q)'
    BY <1>1 DEF Follows, At, Marked
  <2>4. Place(q)
    OBVIOUS
  <2> QED
    BY <1>1, <2>1, <2>2, <2>3, <2>4 DEF Place, At, Runs, Marked
<1> QED
  BY <1>2, <1>3

LEMMA NamedNext == Typed /\ Named /\ [Next]_vars => Named'
<1> SUFFICES ASSUME Typed, Named, [Next]_vars PROVE Named'
  OBVIOUS
<1>1. ASSUME UNCHANGED <<index, record>> PROVE Named'
  BY <1>1 DEF Named
<1>2. ASSUME NEW r \in Requests, Create(r) \/ MarkRunning(r) PROVE Named'
  <2>1. /\ request[r].step \notin {"idle", "lookup"} /\ UNCHANGED index
        /\ \E s \in {"queued", "running"} : Save(r, s)
    BY <1>2 DEF Create, MarkRunning, At
  <2>2. \A k \in Keys, w \in Requests : record'[k][w] = "completed" => record[k][w] = "completed"
    BY <2>1, SaveTyped DEF Statuses
  <2> QED
    BY <2>1, <2>2 DEF Named
<1>3. ASSUME NEW r \in Requests, Mark(r) PROVE Named'
  <2>1. /\ request[r].step \in {"completed", "failed"} /\ Save(r, request[r].step) /\ UNCHANGED index
    BY <1>3 DEF Mark, At
  <2>2. index[request[r].key] # None
    BY <2>1 DEF Typed, RequestOK, Runs, Marked
  <2>3. \A k \in Keys, w \in Requests :
          record'[k][w] = "completed" => record[k][w] = "completed" \/ k = request[r].key
    BY <2>1, SaveTyped DEF Statuses
  <2> QED
    BY <2>1, <2>2, <2>3 DEF Named
<1>4. ASSUME NEW r \in Requests, SetIndex(r) PROVE Named'
  <2>1. index' = [index EXCEPT ![request[r].key] = r] /\ UNCHANGED record
    BY <1>4 DEF SetIndex
  <2>2. \A k \in Keys : index[k] # None => index'[k] # None
    BY <2>1, ApprovalAssumption DEF Typed, TypeOK
  <2> QED
    BY <2>1, <2>2 DEF Named
<1>5. ASSUME NEW r \in Requests, NEW k \in Keys, Start(r, k) PROVE Named'
  BY <1>1, <1>5 DEF Start
<1>6. ASSUME NEW r \in Requests, \/ Lookup(r) \/ Fetch(r) \/ ReadTrip(r) \/ Approve(r)
                                \/ Raise(r) \/ Crash(r)
      PROVE  Named'
  BY <1>1, <1>6 DEF Lookup, Fetch, ReadTrip, Approve, Raise, Crash
<1>7. CASE Editor
  BY <1>1, <1>7 DEF Editor, EditorReads, EditorSaves
<1>8. CASE UNCHANGED vars
  BY <1>1, <1>8 DEF vars
<1> QED
  BY <1>2, <1>3, <1>4, <1>5, <1>6, <1>7, <1>8 DEF Next, Step

LEMMA CalmNext == Typed /\ CopyOK /\ Calm /\ [Next]_vars => Calm'
<1> SUFFICES ASSUME Typed, CopyOK, Calm, [Next]_vars, ~ contended'
             PROVE  \A q \in Requests : Place(q)'
  BY DEF Calm
<1>0. ~ contended /\ \A q \in Requests : Place(q)
  <2>1. contended => contended'
    BY DEF Next, Step, Start, Lookup, Create, SetIndex, Fetch, MarkRunning, ReadTrip, Approve,
           Raise, Mark, Crash, Editor, EditorReads, EditorSaves, rest, vars
  <2> QED
    BY <2>1 DEF Calm
<1>1. ASSUME NEW r \in Requests, NEW k \in Keys, Start(r, k)
      PROVE  \A q \in Requests : Place(q)'
  <2>1. /\ At(r, "idle") /\ request'[r].step = "lookup" /\ request'[r].key = k
        /\ \A q \in Requests \ {r} : request'[q] = request[q]
        /\ UNCHANGED <<trip, index, record>>
    BY <1>1 DEF Start, Typed, TypeOK
  <2>2. \A q \in Requests \ {r} :
          At(q, "idle") \/ (request[q].step \in Marked /\ request[q].key = k)
    BY <1>1 DEF Start
  <2>3. Place(r)'
    <3>1. Follows(r)'
      BY <2>1, <2>2 DEF Follows, At
    <3> QED
      BY <2>1, <3>1 DEF Place, At, Runs, Marked
  <2>4. ASSUME NEW q \in Requests \ {r} PROVE Place(q)'
    <3>1. (\A z \in Requests \ {q} : request[z].step \notin Runs)
            => \A z \in Requests \ {q} : request'[z].step \notin Runs
      BY <2>1 DEF Runs, Marked
    <3>2. request[q].step = "idle" \/ request[q].step \in Marked
      BY <2>2 DEF At
    <3>3. Place(q)
      BY <1>0
    <3> QED
      BY <2>1, <3>1, <3>2, <3>3 DEF Place, At, StatusOf, Runs, Marked
  <2> QED
    BY <2>3, <2>4
<1>2. ASSUME NEW r \in Requests, Lookup(r) PROVE \A q \in Requests : Place(q)'
  <2>1. At(r, "lookup") /\ Follows(r) /\ UNCHANGED <<trip, index, record>>
    BY <1>0, <1>2 DEF Lookup, Place, At
  <2>2. CASE index[request[r].key] = None
    <3>1. Alone(r)
      <4> SUFFICES ASSUME NEW q \in Requests \ {r}, ~ At(q, "idle") PROVE FALSE
        BY DEF Alone
      <4>1. request[q].step \in Marked /\ request[q].key = request[r].key
        BY <2>1 DEF Follows
      <4> QED
        BY <2>2, <4>1 DEF Typed, RequestOK, Runs
    <3>2. /\ request'[r].step = "create" /\ request'[r].key = request[r].key
          /\ \A q \in Requests \ {r} : request'[q] = request[q]
      BY <1>2, <2>2 DEF Lookup, Typed, TypeOK
    <3>3. Place(r)'
      BY <2>1, <2>2, <3>1, <3>2 DEF Place, Alone, At, Runs, Marked
    <3> QED
      BY <3>1, <3>2, <3>3, AlonePlaces
  <2>3. CASE index[request[r].key] # None
    <3>1. /\ request'[r].step = "fetch" /\ request'[r].key = request[r].key
          /\ request'[r].wf = index[request[r].key]
          /\ \A q \in Requests \ {r} : request'[q] = request[q]
      BY <1>2, <2>3 DEF Lookup, Typed, TypeOK
    <3>2. Place(r)'
      <4>1. Follows(r)'
        BY <2>1, <3>1 DEF Follows, At
      <4> QED
        BY <2>1, <3>1, <4>1 DEF Place, At, Runs, Marked
    <3>3. ASSUME NEW q \in Requests \ {r} PROVE Place(q)'
      <4>1. (\A z \in Requests \ {q} : request[z].step \notin Runs)
              => \A z \in Requests \ {q} : request'[z].step \notin Runs
        BY <3>1 DEF Runs, Marked
      <4>2. request[q].step = "idle" \/ request[q].step \in Marked
        BY <2>1 DEF Follows, At
      <4>3. Place(q)
        BY <1>0
      <4> QED
        BY <2>1, <3>1, <4>1, <4>2, <4>3 DEF Place, At, StatusOf, Runs, Marked
    <3> QED
      BY <3>2, <3>3
  <2> QED
    BY <2>2, <2>3
<1>3. ASSUME NEW r \in Requests, Create(r) PROVE \A q \in Requests : Place(q)'
  <2>1. /\ request[r].step = "create" /\ Alone(r) /\ index[request[r].key] = None
        /\ Save(r, "queued") /\ Goto(r, "index") /\ UNCHANGED <<trip, index>>
    BY <1>0, <1>3 DEF Create, Place, At
  <2>2. /\ request'[r].step = "index" /\ request'[r].key = request[r].key
        /\ request'[r].wf = request[r].wf
        /\ \A q \in Requests \ {r} : request'[q] = request[q]
    BY <2>1 DEF Goto, Typed, TypeOK
  <2>3. StatusOf(r)' = "queued"
    BY <2>1, <2>2, SaveTyped DEF StatusOf, Statuses
  <2>4. Place(r)'
    BY <2>1, <2>2, <2>3 DEF Place, Alone, At, Runs, Marked
  <2> QED
    BY <2>1, <2>2, <2>4, AlonePlaces
<1>4. ASSUME NEW r \in Requests, SetIndex(r) PROVE \A q \in Requests : Place(q)'
  <2>1. /\ request[r].step = "index" /\ Alone(r) /\ StatusOf(r) # "completed"
        /\ index' = [index EXCEPT ![request[r].key] = r]
        /\ Goto(r, "begin") /\ UNCHANGED <<trip, record>>
    BY <1>0, <1>4 DEF SetIndex, Place, At
  <2>2. /\ request'[r].step = "begin" /\ request'[r].key = request[r].key
        /\ request'[r].wf = request[r].wf
        /\ \A q \in Requests \ {r} : request'[q] = request[q]
    BY <2>1 DEF Goto, Typed, TypeOK
  <2>3. index'[request'[r].key] = request'[r].wf
    BY <2>1, <2>2 DEF Typed, TypeOK, RequestOK, At
  <2>4. Place(r)'
    BY <2>1, <2>2, <2>3 DEF Place, Alone, At, StatusOf, Marked
  <2> QED
    BY <2>1, <2>2, <2>4, AlonePlaces
<1>5. ASSUME NEW r \in Requests, Fetch(r) PROVE \A q \in Requests : Place(q)'
  <2>1. /\ request[r].step = "fetch" /\ Follows(r) /\ index[request[r].key] = request[r].wf
        /\ UNCHANGED <<trip, index, record>>
    BY <1>0, <1>5 DEF Fetch, Place, At
  <2>2. CASE Leave(r)
    BY <1>0, <2>1, <2>2, LeavePlaces
  <2>3. CASE Goto(r, "begin") /\ StatusOf(r) \notin {"completed", "running"}
    <3>1. /\ request'[r].step = "begin" /\ request'[r].key = request[r].key
          /\ request'[r].wf = request[r].wf
          /\ \A q \in Requests \ {r} : request'[q] = request[q]
      BY <2>3 DEF Goto, Typed, TypeOK
    <3>2. Alone(r)
      <4> SUFFICES ASSUME NEW q \in Requests \ {r}, ~ At(q, "idle") PROVE FALSE
        BY DEF Alone
      <4>1. request[q].step \in Marked /\ request[q].key = request[r].key
        BY <2>1 DEF Follows
      <4>2. index[request[q].key] = request[q].wf /\ StatusOf(q) = "running"
        BY <1>0, <4>1 DEF Place, Runs
      <4> QED
        BY <2>1, <2>3, <4>1, <4>2 DEF StatusOf
    <3>3. Place(r)'
      BY <2>1, <2>3, <3>1, <3>2 DEF Place, Alone, At, StatusOf, Marked
    <3> QED
      BY <3>1, <3>2, <3>3, AlonePlaces
  <2> QED
    BY <1>5, <2>2, <2>3 DEF Fetch
<1>6. ASSUME NEW r \in Requests, MarkRunning(r) PROVE \A q \in Requests : Place(q)'
  <2>1. /\ request[r].step = "begin" /\ Alone(r) /\ index[request[r].key] = request[r].wf
        /\ Save(r, "running") /\ Goto(r, "read") /\ UNCHANGED <<trip, index>>
    BY <1>0, <1>6 DEF MarkRunning, Place, At, Runs
  <2>2. /\ request'[r].step = "read" /\ request'[r].key = request[r].key
        /\ request'[r].wf = request[r].wf
        /\ \A q \in Requests \ {r} : request'[q] = request[q]
    BY <2>1 DEF Goto, Typed, TypeOK
  <2>3. StatusOf(r)' = "running"
    BY <2>1, <2>2, SaveTyped DEF StatusOf, Statuses
  <2>4. \A q \in Requests \ {r} : request'[q].step \notin Runs
    BY <2>1, <2>2 DEF Alone, At, Runs, Marked
  <2>5. Place(r)'
    BY <2>1, <2>2, <2>3, <2>4 DEF Place, At
  <2> QED
    BY <2>1, <2>2, <2>5, AlonePlaces
<1>7. ASSUME NEW r \in Requests, ReadTrip(r) PROVE \A q \in Requests : Place(q)'
  <2>1. request[r].step \in Marked /\ UNCHANGED <<trip, index, record>>
    BY <1>7 DEF ReadTrip, At, Marked
  <2>2. CASE trip.status = "draft"
    BY <1>0, <1>7, <2>1, <2>2, MarkedPlaces DEF ReadTrip, CopyOK, Marked
  <2>3. CASE trip.status # "draft"
    BY <1>0, <1>7, <2>1, <2>3, MarkedPlaces DEF ReadTrip, Marked
  <2> QED
    BY <2>2, <2>3
<1>8. ASSUME NEW r \in Requests, Approve(r) PROVE \A q \in Requests : Place(q)'
  BY <1>0, <1>8, MarkedPlaces DEF Approve, At, Marked
<1>9. ASSUME NEW r \in Requests, Raise(r) PROVE \A q \in Requests : Place(q)'
  BY <1>0, <1>9, MarkedPlaces DEF Raise, At, Marked
<1>10. ASSUME NEW r \in Requests, Mark(r) PROVE \A q \in Requests : Place(q)'
  <2>1. /\ request[r].step \in {"completed", "failed"} /\ Save(r, request[r].step)
        /\ Leave(r) /\ UNCHANGED <<trip, index>>
    BY <1>10 DEF Mark, At
  <2>2. request'[r].step = "idle" /\ \A q \in Requests \ {r} : request'[q] = request[q]
    BY <2>1 DEF Leave, Idle, Typed, TypeOK
  <2>3. Place(r)'
    BY <2>2 DEF Place, At, Runs, Marked
  <2>4. ASSUME NEW q \in Requests \ {r} PROVE Place(q)'
    <3>1. request[q].step \notin Runs
      BY <1>0, <2>1 DEF Place, Marked
    <3>2. request[q].step \notin {"create", "index"}
      BY <1>0, <2>1 DEF Place, Alone, At
    <3>3. Follows(q) => Follows(q)'
      BY <2>2 DEF Follows, At
    <3> QED
      BY <1>0, <2>1, <2>2, <3>1, <3>2, <3>3 DEF Place, At, Runs, Marked
  <2> QED
    BY <2>3, <2>4
<1>11. ASSUME NEW r \in Requests, Crash(r) PROVE \A q \in Requests : Place(q)'
  BY <1>0, <1>11, LeavePlaces DEF Crash
<1>12. CASE Editor
  <2>1. UNCHANGED <<index, record, request>>
    BY <1>12 DEF Editor, EditorReads, EditorSaves
  <2>2. trip.tasks = "none" => trip'.tasks = "none"
    <3>1. CASE EditorSaves
      BY <3>1 DEF EditorSaves, CopyOK, ApprovedTrip, Typed, TypeOK, Trip, Kinds
    <3>2. ASSUME NEW kind \in Kinds, EditorReads(kind) PROVE UNCHANGED trip
      BY <3>2 DEF EditorReads
    <3> QED
      BY <1>12, <3>1, <3>2 DEF Editor
  <2> QED
    BY <1>0, <2>1, <2>2 DEF Place, Follows, Alone, At, StatusOf
<1>13. CASE UNCHANGED vars
  BY <1>0, <1>13 DEF vars, Place, Follows, Alone, At, StatusOf
<1> QED
  BY <1>1, <1>2, <1>3, <1>4, <1>5, <1>6, <1>7, <1>8, <1>9, <1>10, <1>11, <1>12, <1>13 DEF Next, Step

IInv == Typed /\ CopyOK /\ Named /\ Calm

LEMMA Invariance == Spec => []IInv
<1>1. Init => IInv
  BY TypedInit, CopyInit, CalmInit DEF IInv
<1>2. IInv /\ [Next]_vars => IInv'
  BY TypedNext, CopyNext, NamedNext, CalmNext DEF IInv
<1> QED
  BY <1>1, <1>2, PTL DEF Spec

\* Without two requests in the window between the lookup and the running mark,
\* one run at most is under way.
THEOREM RunsOnce == Spec => []OneRun
<1>1. IInv => OneRun
  <2> SUFFICES ASSUME IInv, ~ contended, NEW q \in Running, NEW r \in Running, q # r
               PROVE  FALSE
    BY DEF OneRun
  <2>1. Place(q) /\ Place(r) /\ request[q].step \in Runs /\ request[r].step \in Runs
    BY DEF IInv, Calm, Running
  <2> QED
    BY <2>1 DEF Place, Alone, At, Runs, Marked, Running
<1> QED
  BY <1>1, Invariance, PTL

\* Without that window, no late mark overwrites a completed workflow.
THEOREM CompletedKept == Spec => CompletedStays
<1> DEFINE Stays == \A k \in Keys, w \in Requests :
                      record[k][w] = "completed" => record'[k][w] = "completed" \/ contended
<1>1. IInv /\ [Next]_vars => Stays
  <2> SUFFICES ASSUME IInv, [Next]_vars, ~ contended,
                      NEW k \in Keys, NEW w \in Requests, record[k][w] = "completed"
               PROVE  record'[k][w] = "completed"
    OBVIOUS
  <2>1. Typed /\ Named /\ \A r \in Requests : Place(r)
    BY DEF IInv, Calm
  <2>2. ASSUME NEW r \in Requests, NEW s \in Statuses, Save(r, s),
               request[r].step \notin {"idle", "lookup"},
               <<k, w>> # <<request[r].key, request[r].wf>>
        PROVE  record'[k][w] = "completed"
    BY <2>1, <2>2, SaveTyped
  <2>3. ASSUME NEW r \in Requests, Create(r) PROVE record'[k][w] = "completed"
    <3>1. request[r].step = "create" /\ index[request[r].key] = None /\ Save(r, "queued")
      BY <2>1, <2>3 DEF Create, Place, At
    <3>2. index[k] # None
      BY <2>1 DEF Named
    <3> QED
      BY <2>2, <3>1, <3>2 DEF Statuses
  <2>4. ASSUME NEW r \in Requests, MarkRunning(r) \/ Mark(r) PROVE record'[k][w] = "completed"
    <3>1. /\ request[r].step \in {"begin", "completed", "failed"} /\ StatusOf(r) # "completed"
          /\ \E s \in Statuses : Save(r, s)
      BY <2>1, <2>4 DEF MarkRunning, Mark, Place, At, Marked, Statuses
    <3> QED
      BY <2>2, <3>1 DEF StatusOf
  <2>5. ASSUME NEW r \in Requests,
               \/ Lookup(r) \/ SetIndex(r) \/ Fetch(r) \/ ReadTrip(r) \/ Approve(r)
               \/ Raise(r) \/ Crash(r) \/ \E l \in Keys : Start(r, l)
        PROVE  UNCHANGED record
    BY <2>5 DEF Lookup, SetIndex, Fetch, ReadTrip, Approve, Raise, Crash, Start
  <2>6. CASE Editor \/ UNCHANGED vars
    BY <2>6 DEF Editor, EditorReads, EditorSaves, vars
  <2> QED
    BY <2>3, <2>4, <2>5, <2>6 DEF Next, Step
<1> QED
  BY <1>1, Invariance, PTL DEF Spec, CompletedStays

\* Without that window, a repeated approval does not undo the user's work.
THEOREM WorkKept == Spec => ProgressKept
<1> DEFINE Kept == trip.tasks = "done" => trip'.tasks = "done" \/ contended
<1>1. IInv /\ [Next]_vars => Kept
  <2> SUFFICES ASSUME IInv, [Next]_vars, ~ contended, trip.tasks = "done"
               PROVE  trip'.tasks = "done"
    OBVIOUS
  <2>1. Typed /\ CopyOK /\ \A r \in Requests : Place(r)
    BY DEF IInv, Calm
  <2>2. ASSUME NEW r \in Requests, Approve(r) PROVE FALSE
    BY <2>1, <2>2 DEF Approve, Place
  <2>3. ASSUME NEW r \in Requests, Raise(r) PROVE trip'.tasks = "done"
    BY <2>1, <2>3 DEF Raise, Place
  <2>4. CASE EditorSaves
    BY <2>1, <2>4 DEF EditorSaves, CopyOK, ApprovedTrip, Typed, TypeOK, Trip, Kinds
  <2>5. ASSUME NEW r \in Requests,
               \/ Lookup(r) \/ Create(r) \/ SetIndex(r) \/ Fetch(r) \/ MarkRunning(r)
               \/ ReadTrip(r) \/ Mark(r) \/ Crash(r) \/ \E l \in Keys : Start(r, l)
        PROVE  UNCHANGED trip
    BY <2>5 DEF Lookup, Create, SetIndex, Fetch, MarkRunning, ReadTrip, Mark, Crash, Start
  <2>6. ASSUME NEW kind \in Kinds, EditorReads(kind) PROVE UNCHANGED trip
    BY <2>6 DEF EditorReads
  <2>7. CASE UNCHANGED vars
    BY <2>7 DEF vars
  <2> QED
    BY <2>2, <2>3, <2>4, <2>5, <2>6, <2>7 DEF Next, Step, Editor
<1> QED
  BY <1>1, Invariance, PTL DEF Spec, ProgressKept
=============================================================================
