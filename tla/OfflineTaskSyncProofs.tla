------------------------ MODULE OfflineTaskSyncProofs -----------------------
(***************************************************************************)
(* Theorems about OfflineTaskSync, for any number of tasks, mutations and   *)
(* syncs and any dependencies: types, resolved dependencies, at most one    *)
(* application of each mutation, and no mutation dropped before it is saved. *)
(***************************************************************************)
EXTENDS OfflineTaskSync, TLAPS

-----------------------------------------------------------------------------
(* What an update does to a trip, whatever the tasks and dependencies.      *)

\* A trip as a record of three functions.
LEMMA TripFields ==
  ASSUME NEW X \in Trip
  PROVE  /\ X.status \in [Tasks -> TaskStatus]
         /\ X.version \in [Tasks -> Nat]
         /\ X.audit \in [MutationIds -> Nat]
  BY DEF Trip

LEMMA PatchedFacts ==
  ASSUME NEW X \in Trip, NEW t \in Tasks, NEW s \in TaskStatus,
         NEW ids \in SUBSET MutationIds, NEW now \in Nat
  PROVE  LET Y == Patched(X, t, s, ids, now)
         IN  /\ Y \in Trip
             /\ Y.version = [X.version EXCEPT ![t] = now]
             /\ Y.audit = [i \in MutationIds |->
                             IF i \in ids THEN X.audit[i] + 1 ELSE X.audit[i]]
  BY TripFields DEF Patched, Trip

\* Resolving writes statuses and, where it does, the version; and it leaves
\* prerequisites done or not done, hence every task in order.
LEMMA ResolvedFacts ==
  ASSUME NEW X \in Trip, NEW now \in Nat
  PROVE  LET Y == Resolved(X, now)
         IN  /\ Y \in Trip
             /\ Y.audit = X.audit
             /\ \A u \in Tasks : Y.version[u] \in {X.version[u], now}
             /\ InOrder(Y)
<1>. DEFINE Y == Resolved(X, now)
<1>1. /\ Y.status = [u \in Tasks |-> IF Blocks(X, u) THEN "blocked"
                                     ELSE IF Frees(X, u) THEN "pending" ELSE X.status[u]]
      /\ Y.version = [u \in Tasks |-> IF Blocks(X, u) \/ Frees(X, u) THEN now
                                      ELSE X.version[u]]
      /\ Y.audit = X.audit
  BY TripFields DEF Resolved, Trip
<1>2. Y \in Trip
  BY TripFields DEF Resolved, Trip, TaskStatus
<1>3. \A u \in Tasks : Y.status[u] \in Terminal <=> X.status[u] \in Terminal
  BY <1>1 DEF Blocks, Frees, Terminal
<1>4. \A u \in Tasks : Unmet(Y, u) = Unmet(X, u)
  BY <1>3, TasksAssumption DEF Unmet
<1>5. InOrder(Y)
  BY <1>1, <1>4 DEF InOrder, Blocks, Frees
<1>. QED  BY <1>1, <1>2, <1>5

\* What is said of an update Y of X.
Updates(Y, X, t, ids, now) ==
  /\ Y \in Trip
  /\ \A i \in MutationIds :
       Y.audit[i] = IF i \in ids THEN X.audit[i] + 1 ELSE X.audit[i]
  /\ \A u \in Tasks : Y.version[u] \in {X.version[u], now}
  /\ Y.version[t] = now
  /\ InOrder(Y)

LEMMA UpdatedFacts ==
  ASSUME NEW X \in Trip, NEW t \in Tasks, NEW s \in TaskStatus,
         NEW ids \in SUBSET MutationIds, NEW now \in Nat
  PROVE  Updates(Updated(X, t, s, ids, now), X, t, ids, now)
<1>. DEFINE P == Patched(X, t, s, ids, now)
<1>1. P \in Trip /\ P.version = [X.version EXCEPT ![t] = now]
      /\ P.audit = [i \in MutationIds |-> IF i \in ids THEN X.audit[i] + 1 ELSE X.audit[i]]
  BY PatchedFacts
<1>2. Updated(X, t, s, ids, now) = Resolved(P, now)
  BY DEF Updated, Patched
<1>3. /\ Resolved(P, now) \in Trip /\ Resolved(P, now).audit = P.audit
      /\ \A u \in Tasks : Resolved(P, now).version[u] \in {P.version[u], now}
      /\ InOrder(Resolved(P, now))
  BY <1>1, ResolvedFacts
<1>. QED  BY <1>1, <1>2, <1>3, TripFields DEF Updates

-----------------------------------------------------------------------------
(* Types.                                                                  *)

LEMMA TypeInit == Init => TypeOK
<1>. SUFFICES ASSUME Init  PROVE TypeOK
  OBVIOUS
<1>1. trip \in Trip
  BY DEF Init, Generated, Trip, TaskStatus
<1>. QED  BY <1>1, SyncAssumption DEF Init, TypeOK, Phases, Awaited

\* The mutation a handler has come to is one, and it asks for a status.
LEMMA NextIsMutation ==
  ASSUME TypeOK, NEW c \in Syncs, NEW m, IsNext(c, m)
  PROVE  /\ m \in Mutation /\ m \in todo[c]
         /\ m.id \in MutationIds /\ m.task \in Tasks /\ m.to \in TaskStatus
         /\ m.expected \in Nat
  BY DEF TypeOK, IsNext, Mutation, Terminal, TaskStatus

\* The steps of the app that change its queue ...
LEMMA TypeQueue ==
  ASSUME TypeOK, NEW i \in MutationIds, NEW t \in Tasks, NEW s \in Terminal,
         QueueTask(i, t, s)
  PROVE  TypeOK'
<1>1. PICK v \in 0 .. clock :
        queue' = queue \union {[id |-> i, task |-> t, to |-> s, expected |-> v]}
  BY DEF QueueTask
<1>2. queue' \subseteq Mutation
  BY <1>1, SyncAssumption DEF TypeOK, Mutation
<1>. QED  BY <1>2 DEF QueueTask, TypeOK, server, calls, Awaited

LEMMA TypeRemove ==
  ASSUME TypeOK, NEW i \in MutationIds, RemoveTask(i)
  PROVE  TypeOK'
BY DEF RemoveTask, TypeOK, server, calls, Awaited

\* ... and those of a sync.
LEMMA TypeCall ==
  ASSUME TypeOK, NEW c \in Syncs,
         StartSync(c) \/ Respond(c) \/ GiveUp(c) \/ Lost(c)
  PROVE  TypeOK'
<1>1. CASE StartSync(c)
  BY <1>1 DEF StartSync, TypeOK, server, history, Awaited, Phases
<1>2. CASE Respond(c)
  BY <1>2 DEF Respond, Idle, TypeOK, server, history, Awaited, Phases
<1>3. CASE GiveUp(c)
  BY <1>3 DEF GiveUp, TypeOK, server, history, Awaited, Phases
<1>4. CASE Lost(c)
  BY <1>4 DEF Lost, Idle, TypeOK, server, history, Awaited, Phases
<1>. QED  BY <1>1, <1>2, <1>3, <1>4

\* The steps of the handler.
LEMMA TypeHandler ==
  ASSUME TypeOK, NEW c \in Syncs, NEW m,
         Begin(c) \/ Duplicate(c, m) \/ Refuse(c, m) \/ Read(c, m) \/ Save(c, m)
  PROVE  TypeOK'
<1>1. CASE Begin(c)
  BY <1>1 DEF Begin, TypeOK, server, history, Awaited, Phases
<1>2. CASE Duplicate(c, m)
  <2>1. m.id \in MutationIds
    BY <1>2, NextIsMutation DEF Duplicate
  <2>. QED  BY <1>2, <2>1 DEF Duplicate, Report, Skip, TypeOK, server, history, Awaited
<1>3. CASE Refuse(c, m)
  BY <1>3 DEF Refuse, Skip, TypeOK, server, history, Awaited
<1>4. CASE Read(c, m)
  <2>1. m \in todo[c]
    BY <1>4, NextIsMutation DEF Read
  <2>. QED  BY <1>4, <2>1 DEF Read, TypeOK, server, history, Awaited, Phases
<1>5. CASE Save(c, m)
  <2>. DEFINE new == Updated(copy[c], m.task, m.to, {m.id}, clock + 1)
  <2>1. m.id \in MutationIds /\ m.task \in Tasks /\ m.to \in TaskStatus
    BY <1>5, NextIsMutation DEF Save
  <2>2. copy[c] \in Trip /\ clock + 1 \in 0 .. MaxClock /\ clock + 1 \in Nat
    BY <1>5, SyncAssumption DEF Save, TypeOK
  <2>3. new \in Trip
    <3>. DEFINE X == copy[c]  t == m.task  s == m.to  now == clock + 1  ids == {m.id}
    <3>1. X \in Trip /\ now \in Nat /\ ids \in SUBSET MutationIds
          /\ t \in Tasks /\ s \in TaskStatus
      BY <2>1, <2>2
    <3>. HIDE DEF X, t, s, now, ids
    <3>2. Updates(Updated(X, t, s, ids, now), X, t, ids, now)
      BY <3>1, UpdatedFacts
    <3>. QED  BY <3>2 DEF Updates, X, t, s, now, ids
  <2>. QED  BY <1>5, <2>1, <2>2, <2>3 DEF Save, Report, Skip, TypeOK, Awaited, Phases
<1>. QED  BY <1>1, <1>2, <1>3, <1>4, <1>5

\* What another device saves is an update of the trip it read.
LEMMA OtherSaves ==
  ASSUME TypeOK, OtherSave
  PROVE  \E t \in Tasks, s \in TaskStatus :
           trip' = Updated(edit, t, s, {}, clock + 1) /\ edit \in Trip
<1>1. PICK t \in Tasks : \E s \in OtherStatuses \union {edit.status[t]} :
        trip' = Updated(edit, t, s, {}, clock + 1)
  BY DEF OtherSave
<1>2. PICK s \in OtherStatuses \union {edit.status[t]} :
        trip' = Updated(edit, t, s, {}, clock + 1)
  BY <1>1
<1>3. edit \in Trip
  BY DEF OtherSave, TypeOK
<1>4. s \in TaskStatus
  BY <1>3, TripFields, SyncAssumption
<1>. QED  BY <1>2, <1>3, <1>4

LEMMA TypeOther ==
  ASSUME TypeOK, OtherRead \/ OtherSave
  PROVE  TypeOK'
<1>1. CASE OtherRead
  BY <1>1 DEF OtherRead, TypeOK, server, calls, history, Awaited
<1>2. CASE OtherSave
  <2>1. clock + 1 \in 0 .. MaxClock /\ clock + 1 \in Nat
    BY <1>2, SyncAssumption DEF OtherSave, TypeOK
  <2>2. PICK t \in Tasks, s \in TaskStatus :
          trip' = Updated(edit, t, s, {}, clock + 1) /\ edit \in Trip
    BY <1>2, OtherSaves
  <2>3. trip' \in Trip
    BY <2>1, <2>2, UpdatedFacts DEF Updates
  <2>. QED  BY <1>2, <2>1, <2>3 DEF OtherSave, TypeOK, calls, history, Awaited
<1>. QED  BY <1>1, <1>2

\* Who can take a step.
LEMMA StepCases ==
  ASSUME [Next]_vars
  PROVE  \/ UNCHANGED vars
         \/ \E i \in MutationIds, t \in Tasks, s \in Terminal : QueueTask(i, t, s)
         \/ \E i \in MutationIds : RemoveTask(i)
         \/ \E c \in Syncs : StartSync(c) \/ Respond(c) \/ GiveUp(c) \/ Lost(c)
         \/ \E c \in Syncs : Begin(c)
         \/ \E c \in Syncs, m \in UNION {todo[d] : d \in Syncs} :
               Duplicate(c, m) \/ Refuse(c, m) \/ Read(c, m) \/ Save(c, m)
         \/ OtherRead \/ OtherSave
BY DEF Next

LEMMA TypeStep == TypeOK /\ [Next]_vars => TypeOK'
<1>1. ASSUME TypeOK, UNCHANGED vars  PROVE TypeOK'
  BY <1>1 DEF vars, TypeOK, Awaited
<1>. QED
  BY <1>1, StepCases, TypeQueue, TypeRemove, TypeCall, TypeHandler, TypeOther

\* The type invariant, for every number of tasks, mutations and syncs: in
\* particular a handler has read a trip before it patches one, and the app
\* awaits only requests that are under way.
THEOREM TypeCorrect == Spec => []TypeOK
<1>1. Init => TypeOK
  BY TypeInit
<1>2. TypeOK /\ [Next]_vars => TypeOK'
  BY TypeStep
<1>. QED  BY <1>1, <1>2, PTL DEF Spec
-----------------------------------------------------------------------------
(* Dependencies.                                                           *)

\* The stored trip changes only by an update of some trip that was read.
LEMMA TripUpdates ==
  ASSUME TypeOK, [Next]_vars
  PROVE  \/ UNCHANGED server
         \/ \E X \in Trip, t \in Tasks, s \in TaskStatus, ids \in SUBSET MutationIds :
              trip' = Updated(X, t, s, ids, clock + 1)
<1>1. CASE UNCHANGED vars
  BY <1>1 DEF vars, server
<1>2. ASSUME NEW c \in Syncs, NEW m, Save(c, m)
      PROVE  \E X \in Trip, t \in Tasks, s \in TaskStatus, ids \in SUBSET MutationIds :
               trip' = Updated(X, t, s, ids, clock + 1)
  <2>1. m.id \in MutationIds /\ m.task \in Tasks /\ m.to \in TaskStatus
    BY <1>2, NextIsMutation DEF Save
  <2>2. copy[c] \in Trip /\ {m.id} \in SUBSET MutationIds
    BY <1>2, <2>1 DEF Save, TypeOK
  <2>3. trip' = Updated(copy[c], m.task, m.to, {m.id}, clock + 1)
    BY <1>2 DEF Save
  <2>. QED  BY <2>1, <2>2, <2>3
<1>3. CASE OtherSave
  BY <1>3, OtherSaves
<1>4. ASSUME NEW c \in Syncs, NEW m, Duplicate(c, m) \/ Refuse(c, m) \/ Read(c, m)
      PROVE  UNCHANGED server
  BY <1>4 DEF Duplicate, Refuse, Read
<1>5. ASSUME NEW c \in Syncs, StartSync(c) \/ Respond(c) \/ GiveUp(c) \/ Lost(c) \/ Begin(c)
      PROVE  UNCHANGED server
  BY <1>5 DEF StartSync, Respond, GiveUp, Lost, Begin
<1>6. ASSUME NEW i \in MutationIds, NEW t \in Tasks, NEW s \in Terminal, QueueTask(i, t, s)
      PROVE  UNCHANGED server
  BY <1>6 DEF QueueTask
<1>7. ASSUME NEW i \in MutationIds, RemoveTask(i)  PROVE UNCHANGED server
  BY <1>7 DEF RemoveTask
<1>8. CASE OtherRead
  BY <1>8 DEF OtherRead
<1>. QED  BY <1>1, <1>2, <1>3, <1>4, <1>5, <1>6, <1>7, <1>8, StepCases

\* For any dependencies, chains and cycles included, the one pass of
\* _resolve_task_dependencies that follows every patch puts all tasks in order,
\* whatever copy of the trip the patch was made on.
THEOREM StatusesAreResolved == Spec => []StatusesResolved
<1>1. Init => StatusesResolved
  BY DEF Init, StatusesResolved
<1>2. TypeOK /\ StatusesResolved /\ [Next]_vars => StatusesResolved'
  <2>. SUFFICES ASSUME TypeOK, StatusesResolved, [Next]_vars  PROVE StatusesResolved'
    OBVIOUS
  <2>1. CASE UNCHANGED server
    BY <2>1 DEF server, StatusesResolved, InOrder, Unmet
  <2>2. ASSUME NEW X \in Trip, NEW t \in Tasks, NEW s \in TaskStatus,
               NEW ids \in SUBSET MutationIds, trip' = Updated(X, t, s, ids, clock + 1)
        PROVE  StatusesResolved'
    <3>1. clock + 1 \in Nat
      BY SyncAssumption DEF TypeOK
    <3>2. InOrder(Updated(X, t, s, ids, clock + 1))
      BY <3>1, UpdatedFacts DEF Updates
    <3>3. InOrder(trip')
      BY <2>2, <3>2
    <3>. QED  BY <3>3 DEF StatusesResolved, InOrder, Unmet
  <2>. QED  BY <2>1, <2>2, TripUpdates
<1>. QED  BY <1>1, <1>2, TypeCorrect, PTL DEF Spec
-----------------------------------------------------------------------------
(***************************************************************************)
(* At most one application.  A trip in anybody's hands that carries a       *)
(* mutation has a version of its task that is newer than the one the        *)
(* mutation expects, so the mutation is stale there; the copy a handler is  *)
(* about to save does not carry the mutation yet.  Copies may be old: this  *)
(* holds of each trip by itself, not of one trip in view of another.        *)
(***************************************************************************)

\* The mutations that may still be sent or applied.
Pending ==
  {m \in Mutation : m \in queue \/ \E c \in Syncs : m \in sent[c] \/ m \in todo[c]}

\* X carries each mutation once and only saved ones, S being the saved ids, and
\* those of the pending set K only under a version newer than they expect.
Sound(X, K, S) ==
  /\ \A i \in MutationIds : X.audit[i] <= 1 /\ (X.audit[i] > 0 => i \in S)
  /\ \A m \in K : X.audit[m.id] > 0 => m.expected < X.version[m.task]

PendingIssued == \A m \in Pending : m.id \in issued /\ m.expected <= clock
OnePerId      == \A m, n \in Pending : m.id = n.id => m = n
TripsSound ==
  /\ Sound(trip, Pending, saved)
  /\ \A c \in Syncs : copy[c] # NoTrip => Sound(copy[c], Pending, saved)
  /\ edit # NoTrip => Sound(edit, Pending, saved)
SaveIsFresh ==
  \A c \in Syncs, m \in Mutation :
    phase[c] = "save" /\ IsNext(c, m) => copy[c].audit[m.id] = 0

IdInv == PendingIssued /\ OnePerId /\ saved \subseteq issued /\ TripsSound /\ SaveIsFresh

LEMMA SoundLess ==
  ASSUME NEW X, NEW K, NEW L \in SUBSET K, NEW S, Sound(X, K, S)
  PROVE  Sound(X, L, S)
BY DEF Sound

LEMMA SoundMore ==
  ASSUME NEW X, NEW K, NEW S, NEW n, n.id \in MutationIds, n.id \notin S, Sound(X, K, S)
  PROVE  Sound(X, K \union {n}, S)
BY DEF Sound

LEMMA SoundUpdated ==
  ASSUME NEW X \in Trip, NEW K \in SUBSET Mutation, NEW S \in SUBSET MutationIds,
         NEW t \in Tasks, NEW s \in TaskStatus, NEW ids \in SUBSET MutationIds,
         NEW now \in Nat
  PROVE  /\ Sound(X, K, S)
         /\ \A i \in ids : X.audit[i] = 0
         /\ \A m \in K : (m.id \in ids => m.task = t) /\ m.expected < now
         => Sound(Updated(X, t, s, ids, now), K, S \union ids)
<1>0. PICK Y : Y = Updated(X, t, s, ids, now) /\ Updates(Y, X, t, ids, now)
  BY UpdatedFacts
<1>1. /\ \A i \in MutationIds :
           Y.audit[i] = IF i \in ids THEN X.audit[i] + 1 ELSE X.audit[i]
      /\ \A u \in Tasks : Y.version[u] \in {X.version[u], now}
      /\ Y.version[t] = now
  BY <1>0 DEF Updates
<1>. SUFFICES ASSUME Sound(X, K, S), \A i \in ids : X.audit[i] = 0,
                     \A m \in K : (m.id \in ids => m.task = t) /\ m.expected < now
              PROVE  Sound(Y, K, S \union ids)
  BY <1>0
<1>2. \A i \in MutationIds : Y.audit[i] <= 1 /\ (Y.audit[i] > 0 => i \in S \union ids)
  BY <1>1, TripFields DEF Sound
<1>3. ASSUME NEW m \in K, Y.audit[m.id] > 0  PROVE m.expected < Y.version[m.task]
  <2>1. m.id \in MutationIds /\ m.task \in Tasks /\ m.expected \in Nat
    BY DEF Mutation
  <2>2. CASE m.id \in ids
    BY <1>1, <2>1, <2>2
  <2>3. CASE m.id \notin ids
    <3>1. m.expected < X.version[m.task]
      BY <1>1, <1>3, <2>1, <2>3 DEF Sound
    <3>. QED  BY <1>1, <2>1, <3>1
  <2>. QED  BY <2>2, <2>3
<1>. QED  BY <1>2, <1>3 DEF Sound

\* Steps that neither queue a mutation nor save a trip.
Quiet ==
  /\ UNCHANGED <<trip, clock, saved, issued>>
  /\ Pending' \subseteq Pending
  /\ \A c \in Syncs : copy'[c] \in {copy[c], trip, NoTrip}
  /\ edit' \in {edit, trip}

LEMMA QuietSteps ==
  ASSUME TypeOK, [Next]_vars
  PROVE  \/ Quiet
         \/ \E i \in MutationIds, t \in Tasks, s \in Terminal : QueueTask(i, t, s)
         \/ \E c \in Syncs, m \in Mutation : Save(c, m)
         \/ OtherSave
<1>1. CASE UNCHANGED vars
  BY <1>1 DEF vars, Quiet, Pending
<1>2. ASSUME NEW i \in MutationIds, RemoveTask(i)  PROVE Quiet
  BY <1>2 DEF RemoveTask, Quiet, Pending, server, calls
<1>3. ASSUME NEW c \in Syncs, StartSync(c)  PROVE Quiet
  BY <1>3 DEF StartSync, Quiet, Pending, server, history, TypeOK
<1>4. ASSUME NEW c \in Syncs, Respond(c)  PROVE Quiet
  BY <1>4 DEF Respond, Idle, Quiet, Pending, server, history, TypeOK
<1>5. ASSUME NEW c \in Syncs, GiveUp(c) \/ Lost(c)  PROVE Quiet
  BY <1>5 DEF GiveUp, Lost, Idle, Quiet, Pending, server, history, TypeOK
<1>6. ASSUME NEW c \in Syncs, Begin(c)  PROVE Quiet
  BY <1>6 DEF Begin, Quiet, Pending, server, history, TypeOK
<1>7. ASSUME NEW c \in Syncs, NEW m, Duplicate(c, m) \/ Refuse(c, m)  PROVE Quiet
  BY <1>7 DEF Duplicate, Refuse, Skip, Quiet, Pending, server, history, TypeOK
<1>8. ASSUME NEW c \in Syncs, NEW m, Read(c, m)  PROVE Quiet
  BY <1>8 DEF Read, Quiet, Pending, server, history, TypeOK
<1>9. ASSUME NEW c \in Syncs, NEW m, Save(c, m)  PROVE m \in Mutation
  BY <1>9, NextIsMutation DEF Save
<1>10. CASE OtherRead
  BY <1>10 DEF OtherRead, Quiet, Pending, server, calls, history
<1>. QED  BY <1>1, <1>2, <1>3, <1>4, <1>5, <1>6, <1>7, <1>8, <1>9, <1>10, StepCases
LEMMA IdInit == Init => IdInv
<1>. SUFFICES ASSUME Init  PROVE IdInv
  OBVIOUS
<1>1. Pending = {}
  BY DEF Init, Pending
<1>2. \A i \in MutationIds : trip.audit[i] = 0
  BY DEF Init, Generated
<1>. QED
  BY <1>1, <1>2 DEF Init, IdInv, PendingIssued, OnePerId, TripsSound, Sound, SaveIsFresh

\* A handler that is about to save has read the trip that does not carry its
\* mutation: the version it found there is the one the mutation expects.
LEMMA FreshStep ==
  ASSUME TypeOK, IdInv, [Next]_vars,
         NEW c \in Syncs, NEW m \in Mutation, phase'[c] = "save", IsNext(c, m)'
  PROVE  copy'[c].audit[m.id] = 0
<1>1. CASE phase[c] = "save" /\ copy'[c] = copy[c] /\ todo'[c] = todo[c]
  BY <1>1 DEF IdInv, SaveIsFresh, IsNext
<1>2. CASE UNCHANGED <<phase, copy, todo>>
  BY <1>1, <1>2
<1>3. ASSUME NEW d \in Syncs, NEW n, Read(d, n)  PROVE copy'[c].audit[m.id] = 0
  <2>1. CASE d # c
    BY <1>1, <1>3, <2>1 DEF Read, TypeOK
  <2>2. CASE d = c
    <3>1. IsNext(c, n) /\ IsNext(c, m) /\ n \in Mutation /\ n \in Pending /\ m \in Pending
      BY <1>3, <2>2, NextIsMutation DEF Read, IsNext, Pending, TypeOK
    <3>2. n.id <= m.id /\ m.id <= n.id /\ m.id \in Nat /\ n.id \in Nat
      BY <3>1, SyncAssumption DEF IsNext, Mutation
    <3>3. n = m
      BY <3>1, <3>2 DEF IdInv, OnePerId
    <3>4. trip.version[m.task] = m.expected /\ m.expected \in Nat /\ copy'[c] = trip
      BY <1>3, <2>2, <3>3 DEF Read, Refused, Stale, Mutation, TypeOK
    <3>5. ~ (trip.audit[m.id] > 0)
      BY <3>1, <3>4 DEF IdInv, TripsSound, Sound
    <3>6. trip.audit[m.id] \in Nat
      BY TripFields DEF TypeOK, Mutation
    <3>. QED  BY <3>4, <3>5, <3>6
  <2>. QED  BY <2>1, <2>2
<1>4. ASSUME NEW d \in Syncs, NEW n, Save(d, n) \/ Duplicate(d, n) \/ Refuse(d, n)
      PROVE  copy'[c].audit[m.id] = 0
  BY <1>1, <1>4 DEF Save, Duplicate, Refuse, Skip, TypeOK
<1>5. ASSUME NEW d \in Syncs,
             StartSync(d) \/ Respond(d) \/ GiveUp(d) \/ Lost(d) \/ Begin(d)
      PROVE  copy'[c].audit[m.id] = 0
  BY <1>1, <1>5 DEF StartSync, Respond, GiveUp, Lost, Begin, Idle, TypeOK
<1>6. ASSUME NEW i \in MutationIds, NEW t \in Tasks, NEW s \in Terminal, QueueTask(i, t, s)
      PROVE  copy'[c].audit[m.id] = 0
  BY <1>2, <1>6 DEF QueueTask, calls
<1>7. ASSUME NEW i \in MutationIds, RemoveTask(i)  PROVE copy'[c].audit[m.id] = 0
  BY <1>2, <1>7 DEF RemoveTask, calls
<1>8. CASE OtherRead \/ OtherSave \/ UNCHANGED vars
  BY <1>2, <1>8 DEF OtherRead, OtherSave, vars, calls
<1>. QED  BY <1>3, <1>4, <1>5, <1>6, <1>7, <1>8, StepCases

LEMMA QuietKeeps ==
  ASSUME TypeOK, IdInv, Quiet
  PROVE  PendingIssued' /\ OnePerId' /\ (saved \subseteq issued)' /\ TripsSound'
<1>1. PendingIssued' /\ OnePerId' /\ (saved \subseteq issued)'
  BY DEF IdInv, Quiet, PendingIssued, OnePerId
<1>2. Sound(trip', Pending', saved')
  BY SoundLess DEF IdInv, TripsSound, Quiet
<1>3. \A c \in Syncs : copy'[c] # NoTrip => Sound(copy'[c], Pending', saved')
  BY <1>2, SoundLess DEF IdInv, TripsSound, Quiet
<1>4. edit' # NoTrip => Sound(edit', Pending', saved')
  BY <1>2, SoundLess DEF IdInv, TripsSound, Quiet
<1>. QED  BY <1>1, <1>2, <1>3, <1>4 DEF TripsSound

\* A new mutation has an id no trip carries.
LEMMA QueueKeeps ==
  ASSUME TypeOK, IdInv, NEW i \in MutationIds, NEW t \in Tasks, NEW s \in Terminal,
         QueueTask(i, t, s)
  PROVE  PendingIssued' /\ OnePerId' /\ (saved \subseteq issued)' /\ TripsSound'
<1>1. PICK v \in 0 .. clock :
        queue' = queue \union {[id |-> i, task |-> t, to |-> s, expected |-> v]}
  BY DEF QueueTask
<1>. DEFINE new == [id |-> i, task |-> t, to |-> s, expected |-> v]
<1>2. new.id = i /\ new.expected <= clock /\ new \in Mutation
  BY <1>1, SyncAssumption DEF TypeOK, Mutation
<1>3. Pending' = Pending \union {new}
  BY <1>1, <1>2 DEF QueueTask, Pending, calls
<1>. HIDE DEF new
<1>4. i \notin issued
  BY SyncAssumption DEF QueueTask
<1>5. /\ issued' = issued \union {i}
      /\ UNCHANGED <<trip, clock, copy, edit, saved>>
  BY DEF QueueTask, server, calls
<1>6. PendingIssued' /\ OnePerId' /\ (saved \subseteq issued)'
  BY <1>2, <1>3, <1>4, <1>5 DEF IdInv, PendingIssued, OnePerId
<1>7. ASSUME NEW X, Sound(X, Pending, saved)  PROVE Sound(X, Pending', saved')
  <2>1. new.id \in MutationIds /\ new.id \notin saved
    BY <1>2, <1>4 DEF IdInv
  <2>. QED  BY <1>3, <1>5, <1>7, <2>1, SoundMore
<1>8. TripsSound'
  BY <1>5, <1>7 DEF IdInv, TripsSound
<1>. QED  BY <1>6, <1>8

\* What is saved is sound if the trip it updates was, whoever saves it.
LEMMA SavedSound ==
  ASSUME TypeOK, IdInv, NEW X \in Trip, Sound(X, Pending, saved),
         NEW t \in Tasks, NEW s \in TaskStatus, NEW ids \in SUBSET MutationIds,
         \A i \in ids : X.audit[i] = 0,
         \A m \in Pending : m.id \in ids => m.task = t
  PROVE  Sound(Updated(X, t, s, ids, clock + 1), Pending, saved \union ids)
<1>1. Pending \in SUBSET Mutation /\ saved \in SUBSET MutationIds
  BY DEF Pending, TypeOK
<1>2. clock \in Nat /\ clock + 1 \in Nat
  BY SyncAssumption DEF TypeOK
<1>3. \A m \in Pending : m.expected < clock + 1
  BY <1>1, <1>2 DEF IdInv, PendingIssued, Mutation
<1>. QED  BY <1>1, <1>2, <1>3, SoundUpdated

LEMMA SoundSaved ==
  ASSUME NEW X, NEW K, NEW L \in SUBSET K, NEW S, NEW R, S \subseteq R, Sound(X, K, S)
  PROVE  Sound(X, L, R)
BY DEF Sound

LEMMA SaveKeeps ==
  ASSUME TypeOK, IdInv, NEW c \in Syncs, NEW m \in Mutation, Save(c, m)
  PROVE  PendingIssued' /\ OnePerId' /\ (saved \subseteq issued)' /\ TripsSound'
<1>1. /\ m \in Pending /\ m.id \in MutationIds /\ m.task \in Tasks /\ m.to \in TaskStatus
      /\ copy[c] \in Trip /\ copy[c] # NoTrip
  BY NextIsMutation, SyncAssumption DEF Save, TypeOK, Pending
<1>2. PICK new : /\ new = Updated(copy[c], m.task, m.to, {m.id}, clock + 1)
                 /\ trip' = new /\ copy' = [copy EXCEPT ![c] = new]
                 /\ saved' = saved \union {m.id}
                 /\ UNCHANGED <<edit, issued>>
  BY DEF Save
<1>3. clock' = clock + 1 /\ clock \in Nat /\ Pending' \in SUBSET Pending
  BY SyncAssumption DEF Save, Skip, Pending, TypeOK
<1>4. PendingIssued'
  <2>1. \A n \in Pending : n.id \in issued /\ n.expected <= clock + 1
    BY <1>3 DEF IdInv, PendingIssued, Pending, TypeOK, Mutation
  <2>. QED  BY <1>2, <1>3, <2>1 DEF PendingIssued
<1>5. OnePerId'
  BY <1>3 DEF IdInv, OnePerId
<1>6. (saved \subseteq issued)'
  BY <1>1, <1>2 DEF IdInv, PendingIssued
<1>7. Sound(new, Pending, saved \union {m.id})
  <2>1. copy[c].audit[m.id] = 0
    BY DEF Save, IdInv, SaveIsFresh
  <2>2. \A n \in Pending : n.id \in {m.id} => n.task = m.task
    BY <1>1 DEF IdInv, OnePerId
  <2>3. Sound(copy[c], Pending, saved)
    BY <1>1 DEF IdInv, TripsSound
  <2>4. {m.id} \in SUBSET MutationIds /\ \A i \in {m.id} : copy[c].audit[i] = 0
    BY <1>1, <2>1
  <2>. QED  BY <1>1, <1>2, <2>2, <2>3, <2>4, SavedSound
<1>8. Sound(trip', Pending', saved')
  BY <1>2, <1>3, <1>7, SoundLess
<1>9. \A d \in Syncs : copy'[d] # NoTrip => Sound(copy'[d], Pending', saved')
  <2>. SUFFICES ASSUME NEW d \in Syncs, copy'[d] # NoTrip
                PROVE  Sound(copy'[d], Pending', saved')
    OBVIOUS
  <2>1. CASE d = c
    BY <1>2, <1>8, <2>1 DEF TypeOK
  <2>2. CASE d # c
    <3>1. copy'[d] = copy[d] /\ Sound(copy[d], Pending, saved)
      BY <1>2, <2>2 DEF TypeOK, IdInv, TripsSound
    <3>. QED  BY <1>2, <1>3, <3>1, SoundSaved
  <2>. QED  BY <2>1, <2>2
<1>10. edit' # NoTrip => Sound(edit', Pending', saved')
  <2>1. edit # NoTrip => Sound(edit, Pending, saved)
    BY DEF IdInv, TripsSound
  <2>. QED  BY <1>2, <1>3, <2>1, SoundSaved
<1>. QED  BY <1>4, <1>5, <1>6, <1>8, <1>9, <1>10 DEF TripsSound

LEMMA OtherKeeps ==
  ASSUME TypeOK, IdInv, OtherSave
  PROVE  PendingIssued' /\ OnePerId' /\ (saved \subseteq issued)' /\ TripsSound'
<1>1. PICK t \in Tasks, s \in TaskStatus :
        trip' = Updated(edit, t, s, {}, clock + 1) /\ edit \in Trip
  BY OtherSaves
<1>2. /\ Pending' = Pending /\ clock' = clock + 1 /\ clock \in Nat /\ edit' = NoTrip
      /\ UNCHANGED <<copy, issued, saved>>
  BY SyncAssumption DEF OtherSave, calls, history, Pending, TypeOK
<1>3. PendingIssued'
  <2>1. \A n \in Pending : n.id \in issued /\ n.expected <= clock + 1
    BY <1>2 DEF IdInv, PendingIssued, Pending, TypeOK, Mutation
  <2>. QED  BY <1>2, <2>1 DEF PendingIssued
<1>4. Sound(trip', Pending', saved')
  <2>1. Sound(edit, Pending, saved)
    BY DEF OtherSave, IdInv, TripsSound
  <2>2. Sound(Updated(edit, t, s, {}, clock + 1), Pending, saved \union {})
    BY <1>1, <2>1, SavedSound
  <2>. QED  BY <1>1, <1>2, <2>2
<1>. QED  BY <1>2, <1>3, <1>4 DEF IdInv, OnePerId, TripsSound

LEMMA IdStep == TypeOK /\ IdInv /\ [Next]_vars => IdInv'
<1>. SUFFICES ASSUME TypeOK, IdInv, [Next]_vars  PROVE IdInv'
  OBVIOUS
<1>1. PendingIssued' /\ OnePerId' /\ (saved \subseteq issued)' /\ TripsSound'
  BY QuietSteps, QuietKeeps, QueueKeeps, SaveKeeps, OtherKeeps
<1>2. SaveIsFresh'
  BY FreshStep DEF SaveIsFresh
<1>. QED  BY <1>1, <1>2 DEF IdInv

LEMMA IdAlways == Spec => [](TypeOK /\ IdInv)
<1>1. TypeOK /\ IdInv /\ [Next]_vars => IdInv'
  BY IdStep
<1>. QED  BY <1>1, IdInit, TypeCorrect, PTL DEF Spec

\* A mutation is applied to a trip at most once, for any number of syncs that
\* resend it, handlers that work on old trips, and devices that overwrite.
THEOREM MutationsAppliedOnce == Spec => []AppliedAtMostOnce
<1>1. TypeOK /\ IdInv => AppliedAtMostOnce
  BY DEF IdInv, TripsSound, Sound, AppliedAtMostOnce
<1>. QED  BY <1>1, IdAlways, PTL
-----------------------------------------------------------------------------
(***************************************************************************)
(* No mutation is dropped before it is saved.  What a sync reports as done  *)
(* is saved; and a mutation queued before the sync was awaited is in the    *)
(* snapshot that will replace the queue, unless it was saved or given up.   *)
(***************************************************************************)

Settled(i)   == i \in saved \/ i \in removed
InSent(c, i) == \E m \in sent[c] : m.id = i

DoneSaved  == \A c \in Syncs : done[c] \subseteq saved
SentCovers ==
  \A c \in Syncs, i \in issued \ raced : Awaited(c) => InSent(c, i) \/ Settled(i)

DropInv == DoneSaved /\ SentCovers /\ DroppedMutationsWereSaved

\* The steps that leave the queue, the snapshots and what was issued.
LEMMA DropSame ==
  ASSUME DropInv, UNCHANGED <<queue, sent, issued, raced, removed>>,
         saved \subseteq saved', DoneSaved'
  PROVE  DropInv'
<1>1. SentCovers'
  BY DEF DropInv, SentCovers, Awaited, InSent, Settled
<1>2. DroppedMutationsWereSaved'
  BY DEF DropInv, DroppedMutationsWereSaved, InQueue
<1>. QED  BY <1>1, <1>2 DEF DropInv

LEMMA DropQueue ==
  ASSUME TypeOK, DropInv, NEW i \in MutationIds, NEW t \in Tasks, NEW s \in Terminal,
         QueueTask(i, t, s)
  PROVE  DropInv'
<1>1. PICK v \in 0 .. clock :
        queue' = queue \union {[id |-> i, task |-> t, to |-> s, expected |-> v]}
  BY DEF QueueTask
<1>2. /\ issued' = issued \union {i}
      /\ UNCHANGED <<sent, done, saved, removed>>
      /\ raced \subseteq raced' /\ ((\E c \in Syncs : Awaited(c)) => i \in raced')
  BY DEF QueueTask, calls
<1>3. InQueue(i)'
  <2>. DEFINE new == [id |-> i, task |-> t, to |-> s, expected |-> v]
  <2>1. new.id = i /\ new \in queue'
    BY <1>1
  <2>. QED  BY <2>1 DEF InQueue
<1>4. \A k : InQueue(k) => InQueue(k)'
  BY <1>1 DEF InQueue
<1>5. DroppedMutationsWereSaved'
  BY <1>2, <1>3, <1>4 DEF DropInv, DroppedMutationsWereSaved
<1>6. SentCovers'
  BY <1>2 DEF DropInv, SentCovers, Awaited, InSent, Settled
<1>. QED  BY <1>2, <1>5, <1>6 DEF DropInv, DoneSaved

LEMMA DropRemove ==
  ASSUME TypeOK, DropInv, NEW i \in MutationIds, RemoveTask(i)
  PROVE  DropInv'
<1>1. /\ removed' = removed \union {i}
      /\ UNCHANGED <<sent, done, saved, issued, raced>>
      /\ \A k : k # i => (InQueue(k) => InQueue(k)')
  BY DEF RemoveTask, calls, InQueue
<1>2. DroppedMutationsWereSaved'
  BY <1>1 DEF DropInv, DroppedMutationsWereSaved
<1>3. SentCovers'
  BY <1>1 DEF DropInv, SentCovers, Awaited, InSent, Settled
<1>. QED  BY <1>1, <1>2, <1>3 DEF DropInv, DoneSaved

\* The snapshot is the queue, which covers what it has to.
LEMMA DropStart ==
  ASSUME TypeOK, DropInv, NEW c \in Syncs, StartSync(c)
  PROVE  DropInv'
<1>1. sent' = [sent EXCEPT ![c] = queue]
      /\ UNCHANGED <<queue, done, issued, removed, saved, raced>>
  BY DEF StartSync, history
<1>2. ASSUME NEW d \in Syncs, NEW i \in issued \ raced, Awaited(d)'
      PROVE  InSent(d, i)' \/ Settled(i)'
  <2>1. CASE d = c
    BY <1>1, <2>1 DEF DropInv, DroppedMutationsWereSaved, InQueue, InSent, Settled, TypeOK
  <2>2. CASE d # c
    <3>1. Awaited(d) /\ (InSent(d, i) => InSent(d, i)') /\ (Settled(i) => Settled(i)')
      BY <1>1, <1>2, <2>2 DEF Awaited, InSent, Settled, TypeOK
    <3>. QED  BY <3>1 DEF DropInv, SentCovers
  <2>. QED  BY <2>1, <2>2
<1>3. SentCovers'
  BY <1>1, <1>2 DEF SentCovers
<1>. QED  BY <1>1, <1>3 DEF DropInv, DoneSaved, DroppedMutationsWereSaved, InQueue

\* A call that ends leaves the others as they are.
LEMMA DropEnd ==
  ASSUME TypeOK, DropInv, NEW c \in Syncs,
         sent' = [sent EXCEPT ![c] = {}], done' = [done EXCEPT ![c] = {}],
         UNCHANGED <<issued, removed, saved, raced>>
  PROVE  DoneSaved' /\ SentCovers'
<1>1. DoneSaved'
  BY DEF DropInv, DoneSaved, TypeOK
<1>2. SentCovers'
  BY DEF DropInv, SentCovers, Awaited, InSent, Settled, TypeOK
<1>. QED  BY <1>1, <1>2

\* What is left of the snapshot replaces the queue.
LEMMA DropRespond ==
  ASSUME TypeOK, DropInv, NEW c \in Syncs, Respond(c)
  PROVE  DropInv'
<1>1. DoneSaved' /\ SentCovers'
  BY DropEnd DEF Respond, Idle, history
<1>2. UNCHANGED <<issued, removed, saved, raced>>
  BY DEF Respond, history
<1>3. CASE ~ Awaited(c)
  <2>1. queue' = queue
    BY <1>3 DEF Respond
  <2>. QED  BY <1>1, <1>2, <2>1 DEF DropInv, DroppedMutationsWereSaved, InQueue
<1>4. CASE Awaited(c)
  <2>1. queue' = {m \in sent[c] : m.id \notin done[c]}
    BY <1>4 DEF Respond
  <2>2. ASSUME NEW i \in issued \ raced  PROVE InQueue(i)' \/ Settled(i)
    <3>1. InSent(c, i) \/ Settled(i)
      BY <1>4 DEF DropInv, SentCovers
    <3>2. i \in done[c] => i \in saved
      BY DEF DropInv, DoneSaved
    <3>. QED  BY <2>1, <3>1, <3>2 DEF InSent, InQueue, Settled
  <2>. QED  BY <1>1, <1>2, <2>2 DEF DropInv, DroppedMutationsWereSaved, Settled
<1>. QED  BY <1>3, <1>4

\* A duplicate was saved before: the trip that carries it says so.
LEMMA DropDuplicate ==
  ASSUME TypeOK, IdInv, DropInv, NEW c \in Syncs, NEW m, Duplicate(c, m)
  PROVE  DropInv'
<1>1. m.id \in MutationIds /\ copy[c] # NoTrip
  BY NextIsMutation, SyncAssumption DEF Duplicate, TypeOK
<1>2. m.id \in saved
  BY <1>1 DEF Duplicate, IsDuplicate, IdInv, TripsSound, Sound
<1>3. DoneSaved'
  BY <1>2 DEF Duplicate, Report, history, DropInv, DoneSaved, TypeOK
<1>. QED  BY <1>3, DropSame DEF Duplicate, history

LEMMA DropSave ==
  ASSUME TypeOK, DropInv, NEW c \in Syncs, NEW m, Save(c, m)
  PROVE  DropInv'
<1>1. saved' = saved \union {m.id} /\ UNCHANGED <<queue, sent, issued, raced, removed>>
  BY DEF Save
<1>2. DoneSaved'
  BY <1>1 DEF Save, Report, DropInv, DoneSaved, TypeOK
<1>. QED  BY <1>1, <1>2, DropSame

LEMMA DropStep == TypeOK /\ IdInv /\ DropInv /\ [Next]_vars => DropInv'
<1>. SUFFICES ASSUME TypeOK, IdInv, DropInv, [Next]_vars  PROVE DropInv'
  OBVIOUS
<1>1. CASE UNCHANGED <<queue, sent, done, history>>
  <2>1. DoneSaved'
    BY <1>1 DEF DropInv, DoneSaved, history
  <2>. QED  BY <1>1, <2>1, DropSame DEF history
<1>2. ASSUME NEW c \in Syncs, NEW m, Refuse(c, m) \/ Read(c, m)  PROVE DropInv'
  BY <1>1, <1>2 DEF Refuse, Read
<1>3. ASSUME NEW c \in Syncs, Begin(c)  PROVE DropInv'
  BY <1>1, <1>3 DEF Begin
<1>4. CASE OtherRead \/ OtherSave \/ UNCHANGED vars
  BY <1>1, <1>4 DEF OtherRead, OtherSave, vars, calls, history
<1>5. ASSUME NEW c \in Syncs, GiveUp(c) \/ Lost(c)  PROVE DropInv'
  <2>1. DoneSaved' /\ SentCovers' /\ UNCHANGED <<queue, issued, removed, saved, raced>>
    BY <1>5, DropEnd DEF GiveUp, Lost, Idle, history
  <2>. QED  BY <2>1 DEF DropInv, DroppedMutationsWereSaved, InQueue
<1>. QED
  BY <1>2, <1>3, <1>4, <1>5, StepCases,
     DropQueue, DropRemove, DropStart, DropRespond, DropDuplicate, DropSave

\* The app forgets a mutation only after the server saved it or the user gave
\* it up: for any number of mutations and overlapping, lost and resent syncs,
\* as far as it was queued while no sync was awaited.
THEOREM DroppedWereSaved == Spec => []DroppedMutationsWereSaved
<1>1. Init => DropInv
  BY DEF Init, DropInv, DoneSaved, SentCovers, DroppedMutationsWereSaved
<1>2. TypeOK /\ IdInv /\ DropInv /\ [Next]_vars => DropInv'
  BY DropStep
<1>3. DropInv => DroppedMutationsWereSaved
  BY DEF DropInv
<1>. QED  BY <1>1, <1>2, <1>3, IdAlways, PTL DEF Spec
=============================================================================
