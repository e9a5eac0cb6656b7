------------------------------ MODULE TripTasks -----------------------------
(***************************************************************************)
(* The tasks of an approved trip as services/trip_workflow.py keeps them:   *)
(* statuses, the transitions a patch may make, and the dependencies that    *)
(* are resolved again after every update.  A trip is one value; trip_store  *)
(* reads and writes it whole.                                               *)
(***************************************************************************)
EXTENDS Naturals

CONSTANTS
  Tasks,       \* task ids
  DependsOn,   \* depends_on of each task, fixed when the tasks are generated
  MutationIds  \* client mutation ids, "offline-task-<trip>-<task>-<ms>"

ASSUME TasksAssumption == DependsOn \in [Tasks -> SUBSET Tasks]

TaskStatus == {"pending", "in_progress", "blocked", "completed", "skipped"}
Terminal   == {"completed", "skipped"}

ValidTransitions ==
  [pending     |-> {"in_progress", "blocked", "completed", "skipped"},
   in_progress |-> {"pending", "blocked", "completed", "skipped"},
   blocked     |-> {"pending", "in_progress", "skipped"},
   completed   |-> {},
   skipped     |-> {}]

\* version stands for a task's updated_at, audit for the "task_updated" events
\* that carry a client_mutation_id, counted.
Trip == [status  : [Tasks -> TaskStatus],
         version : [Tasks -> Nat],
         audit   : [MutationIds -> Nat]]

\* What approve_trip generates: a task with prerequisites is born blocked (an
\* activity) or pending (packing, the departure route); nothing is resolved yet.
Generated ==
  {[status |-> s, version |-> [t \in Tasks |-> 0], audit |-> [i \in MutationIds |-> 0]] :
     s \in {s \in [Tasks -> {"pending", "blocked"}] :
              \A t \in Tasks : DependsOn[t] = {} => s[t] = "pending"}}

Unmet(trip, t)  == {d \in DependsOn[t] : trip.status[d] \notin Terminal}
Blocks(trip, t) == Unmet(trip, t) # {} /\ trip.status[t] \in {"pending", "in_progress"}
Frees(trip, t)  ==
  DependsOn[t] # {} /\ Unmet(trip, t) = {} /\ trip.status[t] = "blocked"

\* _resolve_task_dependencies: one pass, against the statuses before it.
Resolved(trip, now) ==
  [trip EXCEPT
     !.status  = [t \in Tasks |-> IF Blocks(trip, t) THEN "blocked"
                                  ELSE IF Frees(trip, t) THEN "pending" ELSE @[t]],
     !.version = [t \in Tasks |-> IF Blocks(trip, t) \/ Frees(trip, t) THEN now ELSE @[t]]]

\* What resolving is for: a task with prerequisites is not open before they are
\* done, and not blocked after.
InOrder(trip) ==
  \A t \in Tasks : DependsOn[t] # {} =>
    IF Unmet(trip, t) # {} THEN trip.status[t] \notin {"pending", "in_progress"}
    ELSE trip.status[t] # "blocked"

MayBecome(trip, t, s) ==
  s = trip.status[t] \/ s \in ValidTransitions[trip.status[t]]

\* update_task on a task that MayBecome s: the field, its updated_at, the audit
\* event, ...
Patched(trip, t, s, ids, now) ==
  [status  |-> [trip.status EXCEPT ![t] = s],
   version |-> [trip.version EXCEPT ![t] = now],
   audit   |-> [i \in MutationIds |-> IF i \in ids THEN trip.audit[i] + 1
                                      ELSE trip.audit[i]]]

Updated_NotResolved(trip, t, s, ids, now) == Patched(trip, t, s, ids, now)

\* ... and then the dependencies.
Updated(trip, t, s, ids, now) == Resolved(Patched(trip, t, s, ids, now), now)
=============================================================================
