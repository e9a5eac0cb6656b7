--------------------------- MODULE OfflineTaskSync --------------------------
(***************************************************************************)
(* Task updates made without a connection: the device queues them           *)
(* (mobile/src/features/offline/offlineTaskQueue.ts), a sync sends the       *)
(* queue, and the server reconciles it one mutation after another           *)
(* (api/routes.py, sync_trip_offline_task_updates) over the Redis trip store *)
(* (services/trip_store.py), which reads and writes a trip whole, while      *)
(* another device changes the same trip.                                    *)
(*                                                                         *)
(* Two screens of the app can sync, and a sync that the app gave up on goes *)
(* on in the server: a member of Syncs is one such call, at both ends.      *)
(*                                                                         *)
(* The queue is a list that grows at its end only, so it is in the order of *)
(* the milliseconds the ids carry: a set of mutations, the least id first.  *)
(***************************************************************************)
EXTENDS TripTasks

CONSTANTS
  Syncs,         \* calls of syncQueuedTaskMutations that may be in flight together
  OtherStatuses, \* statuses another device's patch may ask for
  MaxClock,      \* bound: task updates saved in one behaviour
  NoTrip

ASSUME SyncAssumption ==
  /\ MutationIds \subseteq Nat
  /\ OtherStatuses \subseteq TaskStatus /\ MaxClock \in Nat /\ NoTrip \notin Trip

VARIABLES
  trip,     \* the trip stored in Redis
  clock,    \* updates saved so far: the next updated_at
  queue,    \* the app's queued mutations, in MMKV
  phase,    \* where each sync is: "idle", "sent", "next" or "save"
  sent,     \* the queue as a sync read it, empty once the app awaits nothing
  todo,     \* the mutations its handler has not come to
  copy,     \* the handler's latest_trip; at "save", the trip patch_task read
  done,     \* the ids it reports accepted or duplicate to an app that waits
  edit,     \* the trip another device's request has read, NoTrip when none
  (* History: *)
  issued,   \* ids of the mutations queued so far
  removed,  \* ids the user gave up in the conflict screen
  saved,    \* ids whose update the server saved, at least once
  raced     \* ids queued while a sync was awaited

server  == <<trip, clock>>
calls   == <<phase, sent, todo, copy, done>>
history == <<issued, removed, saved, raced>>
vars    == <<trip, clock, queue, phase, sent, todo, copy, done,
             edit, issued, removed, saved, raced>>

\* A task is completed or skipped on the device; both carry updated_at.
Mutation == [id : MutationIds, task : Tasks, to : Terminal, expected : Nat]
Phases   == {"idle", "sent", "next", "save"}

Init ==
  /\ trip \in Generated
  /\ clock = 0
  /\ queue = {}
  /\ phase = [c \in Syncs |-> "idle"]
  /\ sent = [c \in Syncs |-> {}]
  /\ todo = [c \in Syncs |-> {}]
  /\ copy = [c \in Syncs |-> NoTrip]
  /\ done = [c \in Syncs |-> {}]
  /\ edit = NoTrip
  /\ issued = {} /\ removed = {} /\ saved = {} /\ raced = {}

-----------------------------------------------------------------------------
(* The app.                                                                *)

Awaited(c) == sent[c] # {}
InQueue(i) == \E m \in queue : m.id = i

\* queueTaskStatusMutation, after a patch that got no response.  The version it
\* expects is the one the app shows, which any earlier fetch may have brought.
QueueTask(i, t, s) ==
  /\ \A k \in issued : k < i
  /\ \E v \in 0 .. clock :
       queue' = queue \union {[id |-> i, task |-> t, to |-> s, expected |-> v]}
  /\ issued' = issued \union {i}
  /\ raced' = IF \E c \in Syncs : Awaited(c) THEN raced \union {i} ELSE raced
  /\ UNCHANGED <<server, calls, edit, removed, saved>>

\* keepLatestServerVersion of the conflict screen.
RemoveTask(i) ==
  /\ InQueue(i)
  /\ queue' = {m \in queue : m.id # i}
  /\ removed' = removed \union {i}
  /\ UNCHANGED <<server, calls, edit, issued, saved, raced>>

\* syncQueuedTaskMutations up to the request ...
StartSync(c) ==
  /\ phase[c] = "idle" /\ queue # {}
  /\ phase' = [phase EXCEPT ![c] = "sent"]
  /\ sent' = [sent EXCEPT ![c] = queue]
  /\ todo' = [todo EXCEPT ![c] = queue]
  /\ UNCHANGED <<server, queue, copy, done, edit, history>>

Idle(c) ==
  /\ phase' = [phase EXCEPT ![c] = "idle"]
  /\ sent' = [sent EXCEPT ![c] = {}]
  /\ todo' = [todo EXCEPT ![c] = {}]
  /\ copy' = [copy EXCEPT ![c] = NoTrip]
  /\ done' = [done EXCEPT ![c] = {}]

\* ... and from the response on: what the snapshot leaves replaces the queue.
Respond(c) ==
  /\ phase[c] = "next" /\ todo[c] = {}
  /\ queue' = IF Awaited(c)
              THEN {m \in sent[c] : m.id \notin done[c]}
              ELSE queue
  /\ Idle(c)
  /\ UNCHANGED <<server, edit, history>>

\* The request times out or the app is restarted; the handler does not know.
GiveUp(c) ==
  /\ Awaited(c)
  /\ sent' = [sent EXCEPT ![c] = {}]
  /\ done' = [done EXCEPT ![c] = {}]
  /\ UNCHANGED <<server, queue, phase, todo, copy, edit, history>>

\* The request or the response is lost, or the handler dies.
Lost(c) ==
  /\ phase[c] # "idle"
  /\ Idle(c)
  /\ UNCHANGED <<server, queue, edit, history>>

-----------------------------------------------------------------------------
(* The handler.                                                            *)

\* trip_store.get, once for all mutations.
Begin(c) ==
  /\ phase[c] = "sent"
  /\ phase' = [phase EXCEPT ![c] = "next"]
  /\ copy' = [copy EXCEPT ![c] = trip]
  /\ UNCHANGED <<server, queue, sent, todo, done, edit, history>>

\* The mutation the handler has come to.
IsNext(c, m) == m \in todo[c] /\ \A n \in todo[c] : m.id <= n.id
Skip(c, m)   == todo' = [todo EXCEPT ![c] = @ \ {m}]
Report(c, m) ==
  done' = IF Awaited(c) THEN [done EXCEPT ![c] = @ \union {m.id}] ELSE done
\* _accepted_offline_mutation_id looks in latest_trip, not in the store.
IsDuplicate(c, m) == copy[c].audit[m.id] > 0

Duplicate(c, m) ==
  /\ phase[c] = "next" /\ IsNext(c, m) /\ IsDuplicate(c, m)
  /\ Report(c, m) /\ Skip(c, m)
  /\ UNCHANGED <<server, queue, phase, sent, copy, edit, history>>

Stale_Unchecked(m) == FALSE
\* _prepare_task_patch: the task changed after the mutation was queued.
Stale(m) == trip.version[m.task] # m.expected
Refused(m) == Stale(m) \/ ~ MayBecome(trip, m.task, m.to)

Refuse_Dropped(c, m) ==
  /\ phase[c] = "next" /\ IsNext(c, m) /\ ~ IsDuplicate(c, m)
  /\ Refused(m)
  /\ Report(c, m) /\ Skip(c, m)
  /\ UNCHANGED <<server, queue, phase, sent, copy, edit, history>>

\* patch_task reads the trip and raises: "conflict" or "failed", either of
\* which leaves the mutation in the queue.
Refuse(c, m) ==
  /\ phase[c] = "next" /\ IsNext(c, m) /\ ~ IsDuplicate(c, m)
  /\ Refused(m)
  /\ Skip(c, m)
  /\ UNCHANGED <<server, queue, phase, sent, copy, done, edit, history>>

\* patch_task reads the trip and accepts ...
Read(c, m) ==
  /\ phase[c] = "next" /\ IsNext(c, m) /\ ~ IsDuplicate(c, m)
  /\ ~ Refused(m)
  /\ copy' = [copy EXCEPT ![c] = trip]
  /\ phase' = [phase EXCEPT ![c] = "save"]
  /\ UNCHANGED <<server, queue, sent, todo, done, edit, history>>

\* ... and writes it back, updated.
Save(c, m) ==
  LET new == Updated(copy[c], m.task, m.to, {m.id}, clock + 1)
  IN  /\ phase[c] = "save" /\ IsNext(c, m) /\ clock < MaxClock
      /\ trip' = new /\ clock' = clock + 1
      /\ copy' = [copy EXCEPT ![c] = new]
      /\ phase' = [phase EXCEPT ![c] = "next"]
      /\ saved' = saved \union {m.id}
      /\ Report(c, m) /\ Skip(c, m)
      /\ UNCHANGED <<queue, sent, edit, issued, removed, raced>>

-----------------------------------------------------------------------------
(* PATCH of a task by another device, or by this one before its response   *)
(* was lost: the same GET and SET, without a client mutation id.  A patch   *)
(* of a task's text leaves its status.                                      *)

OtherRead ==
  /\ edit = NoTrip
  /\ edit' = trip
  /\ UNCHANGED <<server, queue, calls, history>>

OtherSave ==
  /\ edit # NoTrip /\ clock < MaxClock
  /\ \E t \in Tasks : \E s \in OtherStatuses \union {edit.status[t]} :
       MayBecome(edit, t, s) /\ trip' = Updated(edit, t, s, {}, clock + 1)
  /\ clock' = clock + 1
  /\ edit' = NoTrip
  /\ UNCHANGED <<queue, calls, history>>

Next ==
  \/ \E i \in MutationIds, t \in Tasks, s \in Terminal : QueueTask(i, t, s)
  \/ \E i \in MutationIds : RemoveTask(i)
  \/ \E c \in Syncs :
       \/ StartSync(c) \/ Respond(c) \/ GiveUp(c) \/ Lost(c)
       \/ Begin(c)
       \/ \E m \in todo[c] : Duplicate(c, m) \/ Refuse(c, m) \/ Read(c, m) \/ Save(c, m)
  \/ OtherRead \/ OtherSave

Spec == Init /\ [][Next]_vars

-----------------------------------------------------------------------------
(***************************************************************************)
(* Properties.                                                             *)
(***************************************************************************)

\* Every variable has its type; a handler has its trip and its mutation.
TypeOK ==
  /\ trip \in Trip /\ clock \in 0 .. MaxClock
  /\ queue \subseteq Mutation
  /\ phase \in [Syncs -> Phases]
  /\ sent \in [Syncs -> SUBSET Mutation] /\ todo \in [Syncs -> SUBSET Mutation]
  /\ copy \in [Syncs -> Trip \union {NoTrip}]
  /\ done \in [Syncs -> SUBSET MutationIds]
  /\ edit \in Trip \union {NoTrip}
  /\ issued \subseteq MutationIds /\ removed \subseteq MutationIds
  /\ saved \subseteq MutationIds /\ raced \subseteq MutationIds
  /\ \A c \in Syncs : /\ phase[c] \in {"next", "save"} => copy[c] \in Trip
                      /\ phase[c] = "save" => todo[c] # {}
                      /\ Awaited(c) => phase[c] # "idle"

\* The app forgets a mutation only after the server saved it, or when the user
\* gave it up: refused ones stay, and lost responses, retries and overlapping
\* syncs do not change that.  It speaks of mutations queued while no sync was
\* awaited; NoMutationLost is about the others.
DroppedMutationsWereSaved ==
  \A i \in issued \ raced : InQueue(i) \/ i \in saved \/ i \in removed

\* "...will not lose your complete and skip operations", for every mutation.
NoMutationLost ==
  \A i \in issued : InQueue(i) \/ i \in saved \/ i \in removed

\* A mutation is applied to a trip at most once, however often it is sent and
\* however old the trip its handler looked for duplicates in: the version check
\* catches what the duplicate check misses.
AppliedAtMostOnce == \A i \in MutationIds : trip.audit[i] <= 1

\* One pass over the dependencies is enough: in the trip every patch stores no
\* task can be started before its prerequisites, and none waits for nothing.
\* Before the first patch it need not hold: approval resolves nothing.  (Nor do
\* the support endpoints, which are not in this model.)
StatusesResolved == clock > 0 => InOrder(trip)
=============================================================================
