-------------------------- MODULE TaskScreenProofs --------------------------
(***************************************************************************)
(* Theorems about TaskScreen, for any number of tasks, patches and edits.   *)
(***************************************************************************)
EXTENDS TaskScreen, TLAPS

-----------------------------------------------------------------------------
(* What an update does to the statuses of a trip.                          *)

\* A trip as a record of three functions.
LEMMA TripFields ==
  ASSUME NEW X \in Trip
  PROVE  /\ X.status \in [Tasks -> TaskStatus]
         /\ X.version \in [Tasks -> Nat]
         /\ X.audit \in [MutationIds -> Nat]
  BY DEF Trip

LEMMA UpdatedTyped ==
  ASSUME NEW X \in Trip, NEW t \in Tasks, NEW s \in TaskStatus,
         NEW ids \in SUBSET MutationIds, NEW now \in Nat
  PROVE  /\ Patched(X, t, s, ids, now) \in Trip
         /\ Updated(X, t, s, ids, now) \in Trip
<1>1. Patched(X, t, s, ids, now) \in Trip
  BY TripFields DEF Patched, Trip
<1>2. \A Y \in Trip : Resolved(Y, now) \in Trip
  BY TripFields DEF Resolved, Trip, TaskStatus
<1> QED
  BY <1>1, <1>2 DEF Updated, Patched

\* A task's status changes with its version only; a task that is completed or
\* skipped stays so, and its status stays too unless it is the one updated.
Moves(Y, X, t, s, now) ==
  /\ \A u \in Tasks :
       Y.version[u] = now \/ (Y.version[u] = X.version[u] /\ Y.status[u] = X.status[u])
  /\ \A u \in Tasks \ {t} : X.status[u] \in Terminal => Y.status[u] = X.status[u]
  /\ s \in Terminal => Y.status[t] = s

LEMMA UpdatedStatuses ==
  ASSUME NEW X \in Trip, NEW t \in Tasks, NEW s \in TaskStatus,
         NEW ids \in SUBSET MutationIds, NEW now \in Nat
  PROVE  Moves(Updated(X, t, s, ids, now), X, t, s, now)
<1> DEFINE P == Patched(X, t, s, ids, now)
           Y == Updated(X, t, s, ids, now)
<1>1. /\ P.status = [X.status EXCEPT ![t] = s]
      /\ P.version = [X.version EXCEPT ![t] = now]
      /\ P \in Trip
  BY TripFields, UpdatedTyped DEF Patched
<1>2. Y = Resolved(P, now)
  BY DEF Updated, Patched
<1> HIDE DEF P
<1>3. /\ Y.status = [u \in Tasks |-> IF Blocks(P, u) THEN "blocked"
                                     ELSE IF Frees(P, u) THEN "pending" ELSE P.status[u]]
      /\ Y.version = [u \in Tasks |-> IF Blocks(P, u) \/ Frees(P, u) THEN now
                                      ELSE P.version[u]]
  BY <1>1, <1>2, TripFields DEF Resolved, Trip
<1>4. \A u \in Tasks : P.status[u] \in Terminal => ~ Blocks(P, u) /\ ~ Frees(P, u)
  BY DEF Blocks, Frees, Terminal
<1> HIDE DEF Y
<1>5. \A u \in Tasks :
        Y.version[u] = now \/ (Y.version[u] = X.version[u] /\ Y.status[u] = X.status[u])
  <2> TAKE u \in Tasks
  <2>1. u = t => P.version[u] = now
    BY <1>1, TripFields
  <2>2. u # t => P.version[u] = X.version[u] /\ P.status[u] = X.status[u]
    BY <1>1, TripFields
  <2>3. CASE Blocks(P, u) \/ Frees(P, u)
    BY <1>3, <2>3
  <2>4. CASE ~ Blocks(P, u) /\ ~ Frees(P, u)
    <3>1. Y.version[u] = P.version[u] /\ Y.status[u] = P.status[u]
      BY <1>3, <2>4
    <3> QED
      BY <2>1, <2>2, <3>1
  <2> QED
    BY <2>3, <2>4
<1>6. \A u \in Tasks \ {t} : X.status[u] \in Terminal => Y.status[u] = X.status[u]
  BY <1>1, <1>3, <1>4, TripFields
<1>7. s \in Terminal => Y.status[t] = s
  BY <1>1, <1>3, <1>4, TripFields
<1> QED
  BY <1>5, <1>6, <1>7 DEF Y, Moves

-----------------------------------------------------------------------------
(* Types.                                                                  *)

LEMMA TypeInit == Init => TypeOK
<1> SUFFICES ASSUME Init PROVE TypeOK
  OBVIOUS
<1>1. server \in Trip
  BY DEF Init, Generated, Trip, TaskStatus
<1>2. /\ phase \in [Patches -> {"new", "sent", "done"}] /\ wire \in [Patches -> WireState]
      /\ asked \in [Patches -> Request \union {None}]
      /\ previous \in [Patches -> Trip \union {None}]
      /\ \A p \in Patches : phase[p] = "new" /\ wire[p] = "none"
  BY DEF Init, WireState
<1>3. /\ fetch \in {None, Asked} /\ clock = 0 /\ edits = 0 /\ queued = {} /\ untouched = {}
      /\ stale = FALSE /\ behind = FALSE /\ shown = server
  BY DEF Init
<1>4. clock \in Nat /\ edits \in 0 .. MaxEdits
  BY <1>3, ScreenAssumption
<1>5. /\ fetch \in Trip \union {None, Asked} /\ stale \in BOOLEAN /\ behind \in BOOLEAN
      /\ queued \subseteq Patches /\ untouched \subseteq {p \in Patches : phase[p] = "sent"}
  BY <1>3
<1> QED
  BY <1>1, <1>2, <1>3, <1>4, <1>5 DEF TypeOK

\* What the server stores when it takes an update.
LEMMA ServerTyped ==
  ASSUME TypeOK, NEW t \in Tasks, NEW s \in TaskStatus
  PROVE  /\ Updated(server, t, s, {}, clock + 1) \in Trip
         /\ clock + 1 \in Nat
<1>1. server \in Trip /\ clock + 1 \in Nat /\ {} \in SUBSET MutationIds
  BY DEF TypeOK
<1> QED
  BY <1>1, UpdatedTyped

LEMMA TapTyped ==
  ASSUME TypeOK, NEW p \in Patches, NEW t \in Tasks, NEW s \in Terminal, Tap(p, t, s)
  PROVE  TypeOK'
<1>1. [task |-> t, to |-> s, expected |-> shown.version[t]] \in Request
  BY TripFields DEF TypeOK, Request
<1>2. Moved(shown, t, s) \in Trip
  BY DEF TypeOK, Trip, Moved, Terminal, TaskStatus
<1>3. asked'[p] # None /\ previous'[p] # None
  <2>1. previous'[p] \in Trip /\ asked'[p] \in Request
    BY <1>1 DEF Tap, TypeOK
  <2> QED
    BY <2>1, ScreenAssumption
<1>4. \A q \in Patches \ {p} : asked'[q] = asked[q] /\ previous'[q] = previous[q]
                               /\ phase'[q] = phase[q] /\ wire'[q] = wire[q]
  BY DEF Tap, TypeOK
<1>5. phase'[p] = "sent" /\ wire'[p] = "travelling"
  BY DEF Tap, TypeOK
<1>6. \A q \in Patches : IF phase'[q] = "new" THEN wire'[q] = "none"
                         ELSE asked'[q] # None /\ previous'[q] # None /\ wire'[q] # "none"
  BY <1>3, <1>4, <1>5 DEF TypeOK
<1>7. untouched' \subseteq {q \in Patches : phase'[q] = "sent"}
  BY <1>4, <1>5 DEF Tap, TypeOK
<1>8. /\ asked' \in [Patches -> Request \union {None}]
      /\ previous' \in [Patches -> Trip \union {None}]
      /\ phase' \in [Patches -> {"new", "sent", "done"}]
      /\ wire' \in [Patches -> WireState]
  BY <1>1 DEF Tap, TypeOK, WireState
<1> QED
  BY <1>2, <1>6, <1>7, <1>8 DEF Tap, TypeOK

LEMMA SettleTyped ==
  ASSUME TypeOK, NEW p \in Patches, Succeed(p) \/ Reject(p) \/ NoAnswer(p)
  PROVE  TypeOK'
<1>1. /\ phase[p] = "sent" /\ phase' = [phase EXCEPT ![p] = "done"] /\ fetch' = Asked
      /\ untouched' = {} /\ queued' \subseteq Patches
      /\ UNCHANGED <<server, clock, edits, wire, asked, previous, stale, behind>>
  BY DEF Succeed, Reject, NoAnswer, Settle, TypeOK
<1>2. previous[p] \in Trip
  BY <1>1 DEF TypeOK
<1>3. shown' \in Trip
  BY <1>2 DEF Succeed, Reject, NoAnswer, TypeOK
<1> QED
  BY <1>1, <1>3 DEF TypeOK

LEMMA FetchTyped ==
  ASSUME TypeOK, FetchReads \/ FetchArrives \/ FetchFails
  PROVE  TypeOK'
BY DEF FetchReads, FetchArrives, FetchFails, TypeOK, device

LEMMA ServerSideTyped ==
  ASSUME TypeOK, OtherEdit \/ \E p \in Patches : Take(p) \/ Lose(p)
  PROVE  TypeOK'
<1>1. CASE OtherEdit
  <2>1. PICK t \in Tasks, s \in TaskStatus : server' = Updated(server, t, s, {}, clock + 1)
    BY <1>1 DEF OtherEdit
  <2>2. server' \in Trip /\ clock' \in Nat /\ edits' \in 0 .. MaxEdits
    BY <1>1, <2>1, ServerTyped, ScreenAssumption DEF OtherEdit, TypeOK
  <2> QED
    BY <1>1, <2>2 DEF OtherEdit, TypeOK, device
<1>2. ASSUME NEW p \in Patches, Take(p) PROVE TypeOK'
  <2>1. asked[p] \in Request /\ phase[p] # "new"
    BY <1>2 DEF Take, TypeOK
  <2>2. asked[p].task \in Tasks /\ asked[p].to \in TaskStatus
    BY <2>1 DEF Request, Terminal, TaskStatus
  <2>3. server' \in Trip /\ clock' \in Nat /\ behind' \in BOOLEAN
    <3>1. CASE Refused(asked[p])
      BY <1>2, <3>1 DEF Take, TypeOK
    <3>2. CASE ~ Refused(asked[p])
      <4>1. /\ server' = Updated(server, asked[p].task, asked[p].to, {}, clock + 1)
            /\ clock' = clock + 1 /\ behind' = (behind \/ phase[p] = "done")
        BY <1>2, <3>2 DEF Take
      <4>2. Updated(server, asked[p].task, asked[p].to, {}, clock + 1) \in Trip
            /\ clock + 1 \in Nat
        BY <2>2, ServerTyped
      <4>3. behind' \in BOOLEAN
        BY <4>1
      <4> QED
        BY <4>1, <4>2, <4>3
    <3> QED
      BY <3>1, <3>2
  <2>4. wire' \in [Patches -> WireState] /\ wire'[p] # "none"
        /\ \A q \in Patches \ {p} : wire'[q] = wire[q]
    BY <1>2 DEF Take, TypeOK, WireState
  <2> QED
    BY <1>2, <2>1, <2>3, <2>4 DEF Take, TypeOK, device
<1>3. ASSUME NEW p \in Patches, Lose(p) PROVE TypeOK'
  BY <1>3 DEF Lose, TypeOK, device, WireState
<1> QED
  BY <1>1, <1>2, <1>3

LEMMA TypeNext == TypeOK /\ [Next]_vars => TypeOK'
<1> SUFFICES ASSUME TypeOK, [Next]_vars PROVE TypeOK'
  OBVIOUS
<1>1. CASE UNCHANGED vars
  BY <1>1 DEF TypeOK, vars
<1> QED
  BY <1>1, TapTyped, SettleTyped, FetchTyped, ServerSideTyped DEF Next

\* Type correctness.
THEOREM TypeCorrect == Spec => []TypeOK
<1> QED
  BY TypeInit, TypeNext, PTL DEF Spec

-----------------------------------------------------------------------------
(* The screen at rest.                                                     *)

\* While no patch is awaited, the list shown and the list being answered are the
\* server's, unless another device (or a patch the app gave up) changed the trip
\* since, or the last fetch failed.
ListsAreTrue ==
  (\A p \in Patches : phase[p] # "sent") /\ ~ behind =>
    /\ fetch = None /\ ~ stale => shown = server
    /\ fetch \notin {None, Asked} => fetch = server

LEMMA ListsInit == Init => ListsAreTrue
BY DEF Init, ListsAreTrue

LEMMA ListsNext == TypeOK /\ ListsAreTrue /\ [Next]_vars => ListsAreTrue'
<1> SUFFICES ASSUME TypeOK, ListsAreTrue, [Next]_vars PROVE ListsAreTrue'
  OBVIOUS
<1>1. ASSUME NEW p \in Patches, NEW t \in Tasks, NEW s \in Terminal, Tap(p, t, s)
      PROVE  ListsAreTrue'
  BY <1>1 DEF Tap, TypeOK, ListsAreTrue
<1>2. ASSUME NEW p \in Patches, Succeed(p) \/ Reject(p) \/ NoAnswer(p)
      PROVE  ListsAreTrue'
  BY <1>2, ScreenAssumption DEF Succeed, Reject, NoAnswer, Settle, ListsAreTrue
<1>3. ASSUME NEW p \in Patches, Take(p) PROVE ListsAreTrue'
  <2>1. phase[p] # "new" /\ phase[p] \in {"new", "sent", "done"}
    BY <1>3 DEF Take, TypeOK
  <2>2. CASE phase[p] = "sent"
    BY <1>3, <2>2 DEF Take, device, ListsAreTrue
  <2>3. CASE phase[p] = "done" /\ behind'
    BY <1>3, <2>3 DEF ListsAreTrue
  <2>4. CASE phase[p] = "done" /\ ~ behind'
    BY <1>3, <2>4 DEF Take, device, ListsAreTrue
  <2> QED
    BY <2>1, <2>2, <2>3, <2>4
<1>4. ASSUME NEW p \in Patches, Lose(p) PROVE ListsAreTrue'
  BY <1>4 DEF Lose, device, ListsAreTrue
<1>5. CASE FetchReads
  BY <1>5, ScreenAssumption DEF FetchReads, TypeOK, device, ListsAreTrue
<1>6. CASE FetchArrives
  BY <1>6 DEF FetchArrives, device, ListsAreTrue
<1>7. CASE FetchFails
  BY <1>7 DEF FetchFails, device, ListsAreTrue
<1>8. CASE OtherEdit
  BY <1>8 DEF OtherEdit, device, ListsAreTrue
<1>9. CASE UNCHANGED vars
  BY <1>9 DEF vars, ListsAreTrue
<1> QED
  BY <1>1, <1>2, <1>3, <1>4, <1>5, <1>6, <1>7, <1>8, <1>9 DEF Next

\* At rest the list is the server's: nothing optimistic and nothing rolled back
\* survives the patches, because each of them ends by asking for the list anew.
THEOREM ScreenTrue == Spec => []QuietScreenIsTrue
<1>1. ListsAreTrue => QuietScreenIsTrue
  BY DEF ListsAreTrue, QuietScreenIsTrue, Quiet
<1> QED
  BY <1>1, ListsInit, ListsNext, TypeCorrect, PTL DEF Spec

-----------------------------------------------------------------------------
(* What a tap shows, and what the app keeps.                               *)

\* A tap drops the fetch, and any later one is asked for when a patch is over.
TapsHold ==
  /\ TapStays
  /\ untouched # {} => fetch = None

LEMMA TapsNext == TypeOK /\ TapsHold /\ [Next]_vars => TapsHold'
<1> SUFFICES ASSUME TypeOK, TapsHold, [Next]_vars PROVE TapsHold'
  OBVIOUS
<1>1. ASSUME NEW p \in Patches, NEW t \in Tasks, NEW s \in Terminal, Tap(p, t, s)
      PROVE  TapsHold'
  <2>1. /\ fetch' = None /\ untouched' = untouched \union {p}
        /\ shown' = [shown EXCEPT !.status[t] = s]
        /\ phase[p] = "new"
    BY <1>1 DEF Tap, Moved
  <2>2. asked'[p].task = t /\ asked'[p].to = s /\ shown'.status[t] = s
    BY <1>1, <2>1, TripFields DEF Tap, TypeOK
  <2>3. ASSUME NEW q \in untouched
        PROVE  shown'.status[asked'[q].task] = asked'[q].to
    <3>1. q \in Patches /\ q # p /\ phase[q] = "sent"
      BY <2>1 DEF TypeOK
    <3>2. asked'[q] = asked[q] /\ asked[q] \in Request
      BY <1>1, <3>1 DEF Tap, TypeOK
    <3>3. shown.status[asked[q].task] = asked[q].to
      BY DEF TapsHold, TapStays
    <3>4. asked[q].task # t
      BY <1>1, <3>2, <3>3 DEF Tap, CanTap, Open, Request, Terminal
    <3> QED
      BY <2>1, <3>2, <3>3, <3>4, TripFields DEF TypeOK, Request
  <2> QED
    BY <2>1, <2>2, <2>3 DEF TapsHold, TapStays
<1>2. ASSUME NEW p \in Patches, Succeed(p) \/ Reject(p) \/ NoAnswer(p)
      PROVE  TapsHold'
  BY <1>2 DEF Succeed, Reject, NoAnswer, TapsHold, TapStays
<1>3. ASSUME NEW p \in Patches, Take(p) \/ Lose(p) PROVE TapsHold'
  BY <1>3 DEF Take, Lose, device, TapsHold, TapStays
<1>4. CASE FetchReads \/ FetchArrives \/ FetchFails
  BY <1>4, ScreenAssumption DEF FetchReads, FetchArrives, FetchFails, device, TapsHold, TapStays
<1>5. CASE OtherEdit \/ UNCHANGED vars
  BY <1>5 DEF OtherEdit, vars, device, TapsHold, TapStays
<1> QED
  BY <1>1, <1>2, <1>3, <1>4, <1>5 DEF Next

\* A task stays where the tap put it until another patch is over.
THEOREM TapsStay == Spec => []TapStays
<1>1. Init => TapsHold
  BY DEF Init, TapsHold, TapStays
<1>2. TapsHold => TapStays
  BY DEF TapsHold
<1> QED
  BY <1>1, <1>2, TapsNext, TypeCorrect, PTL DEF Spec

\* No update is dropped in silence.
THEOREM UpdatesKept == Spec => []UpdateIsKept
<1>1. Init => UpdateIsKept
  BY DEF Init, UpdateIsKept
<1>2. TypeOK /\ UpdateIsKept /\ [Next]_vars => UpdateIsKept'
  <2> SUFFICES ASSUME TypeOK, UpdateIsKept, [Next]_vars,
                      NEW q \in Patches, phase'[q] = "done"
               PROVE  q \in queued' \/ wire'[q] \in {"saved", "refused"}
    BY DEF UpdateIsKept
  <2>1. ASSUME NEW p \in Patches, NEW t \in Tasks, NEW s \in Terminal, Tap(p, t, s)
        PROVE  q \in queued' \/ wire'[q] \in {"saved", "refused"}
    BY <2>1 DEF Tap, TypeOK, UpdateIsKept
  <2>2. ASSUME NEW p \in Patches, Succeed(p) \/ Reject(p) \/ NoAnswer(p)
        PROVE  q \in queued' \/ wire'[q] \in {"saved", "refused"}
    BY <2>2 DEF Succeed, Reject, NoAnswer, Settle, TypeOK, UpdateIsKept
  <2>3. ASSUME NEW p \in Patches, Take(p) \/ Lose(p)
        PROVE  q \in queued' \/ wire'[q] \in {"saved", "refused"}
    BY <2>3 DEF Take, Lose, device, TypeOK, UpdateIsKept
  <2>4. CASE FetchReads \/ FetchArrives \/ FetchFails \/ OtherEdit \/ UNCHANGED vars
    BY <2>4 DEF FetchReads, FetchArrives, FetchFails, OtherEdit, vars, device, UpdateIsKept
  <2> QED
    BY <2>1, <2>2, <2>3, <2>4 DEF Next
<1> QED
  BY <1>1, <1>2, TypeCorrect, PTL DEF Spec

-----------------------------------------------------------------------------
(* A task tapped twice.                                                    *)

\* A list x, against the server's trip srv at time c: of a task it shows as open,
\* either the server has it open, or it is later there.
Old(x, srv, c) ==
  \A t \in Tasks :
    /\ x.version[t] <= c
    /\ x.status[t] \notin Terminal /\ x.version[t] = srv.version[t]
         => srv.status[t] \notin Terminal

\* The same of a patch, which was made from a task shown as open.
Fresh(r, srv, c) ==
  /\ r.expected <= c
  /\ r.expected = srv.version[r.task] => srv.status[r.task] \notin Terminal

Once ==
  /\ Old(server, server, clock) /\ Old(shown, server, clock)
  /\ fetch \notin {None, Asked} => Old(fetch, server, clock)
  /\ \A p \in Patches : phase[p] # "new" =>
       Old(previous[p], server, clock) /\ Fresh(asked[p], server, clock)
  /\ \A p \in Patches : wire[p] = "saved" => server.status[asked[p].task] \in Terminal
  /\ TappedTwiceSavedOnce

\* An update keeps what was so of lists, patches and finished tasks.
LEMMA UpdateKeeps ==
  ASSUME NEW srv \in Trip, NEW c \in Nat, NEW t \in Tasks, NEW s \in TaskStatus,
         Old(srv, srv, c), MayBecome(srv, t, s)
  PROVE  LET new == Updated(srv, t, s, {}, c + 1)
         IN  /\ Old(new, new, c + 1)
             /\ \A x \in Trip : Old(x, srv, c) => Old(x, new, c + 1)
             /\ \A r \in Request : Fresh(r, srv, c) => Fresh(r, new, c + 1)
             /\ \A u \in Tasks : srv.status[u] \in Terminal => new.status[u] \in Terminal
             /\ s \in Terminal => new.status[t] \in Terminal
<1> DEFINE new == Updated(srv, t, s, {}, c + 1)
<1>1. {} \in SUBSET MutationIds /\ c + 1 \in Nat
  OBVIOUS
<1>2. /\ new \in Trip
      /\ \A u \in Tasks :
           new.version[u] = c + 1 \/ (new.version[u] = srv.version[u] /\ new.status[u] = srv.status[u])
      /\ \A u \in Tasks \ {t} : srv.status[u] \in Terminal => new.status[u] = srv.status[u]
      /\ s \in Terminal => new.status[t] = s
  <2>1. new \in Trip
    BY <1>1, UpdatedTyped
  <2>2. Moves(new, srv, t, s, c + 1)
    BY <1>1, UpdatedStatuses
  <2> QED
    BY <2>1, <2>2 DEF Moves
<1> HIDE DEF new
<1>3. \A x \in Trip : \A u \in Tasks : x.version[u] \in Nat
  BY TripFields
<1>4. Old(new, new, c + 1)
  <2> SUFFICES ASSUME NEW u \in Tasks PROVE new.version[u] <= c + 1
    BY DEF Old
  <2>1. srv.version[u] \in Nat /\ srv.version[u] <= c
    BY <1>3 DEF Old
  <2> QED
    BY <1>2, <2>1
<1>5. ASSUME NEW x \in Trip, Old(x, srv, c) PROVE Old(x, new, c + 1)
  <2> SUFFICES ASSUME NEW u \in Tasks
               PROVE  /\ x.version[u] <= c + 1
                      /\ x.status[u] \notin Terminal /\ x.version[u] = new.version[u]
                           => new.status[u] \notin Terminal
    BY DEF Old
  <2>1. /\ x.version[u] \in Nat /\ x.version[u] <= c
        /\ x.status[u] \notin Terminal /\ x.version[u] = srv.version[u]
             => srv.status[u] \notin Terminal
    BY <1>3, <1>5 DEF Old
  <2>2. CASE new.version[u] = c + 1
    BY <2>1, <2>2
  <2>3. CASE new.version[u] = srv.version[u] /\ new.status[u] = srv.status[u]
    BY <2>1, <2>3
  <2> QED
    BY <1>2, <2>2, <2>3
<1>6. ASSUME NEW r \in Request, Fresh(r, srv, c) PROVE Fresh(r, new, c + 1)
  <2>1. r.task \in Tasks /\ r.expected \in Nat
    BY DEF Request
  <2> QED
    BY <1>2, <1>3, <1>6, <2>1 DEF Fresh
<1>7. srv.status[t] \in Terminal => s \in Terminal
  BY DEF MayBecome, ValidTransitions, Terminal
<1> QED
  BY <1>2, <1>4, <1>5, <1>6, <1>7 DEF new

LEMMA OnceInit == Init => Once
<1> SUFFICES ASSUME Init PROVE Once
  OBVIOUS
<1>1. \A t \in Tasks : server.version[t] = 0
  BY DEF Init, Generated
<1>2. Old(server, server, clock)
  <2>1. clock = 0
    BY DEF Init
  <2> SUFFICES ASSUME NEW t \in Tasks PROVE server.version[t] <= clock
    BY DEF Old
  <2> QED
    BY <1>1, <2>1
<1> QED
  BY <1>2 DEF Init, Once, TappedTwiceSavedOnce

\* A step that leaves the server, and takes its lists from those there are.
LEMMA OnceDevice ==
  ASSUME TypeOK, Once,
         UNCHANGED <<server, clock, wire, asked, previous>>,
         \A p \in Patches : phase'[p] # "new" => phase[p] # "new",
         Old(shown', server, clock),
         fetch' \notin {None, Asked} => Old(fetch', server, clock)
  PROVE  Once'
BY DEF Once, TappedTwiceSavedOnce

\* A step in which the server stores an update, for the patch p or another device.
LEMMA OnceServer ==
  ASSUME TypeOK, Once, NEW t \in Tasks, NEW s \in TaskStatus, MayBecome(server, t, s),
         server' = Updated(server, t, s, {}, clock + 1), clock' = clock + 1,
         UNCHANGED <<shown, fetch, asked, previous, phase>>
  PROVE  /\ Old(server, server, clock)' /\ Old(shown, server, clock)'
         /\ (fetch \notin {None, Asked} => Old(fetch, server, clock))'
         /\ (\A p \in Patches : phase[p] # "new" =>
               Old(previous[p], server, clock) /\ Fresh(asked[p], server, clock))'
         /\ \A p \in Patches : wire[p] = "saved" => server'.status[asked[p].task] \in Terminal
         /\ s \in Terminal => server'.status[t] \in Terminal
<1>1. /\ server \in Trip /\ clock \in Nat /\ shown \in Trip
      /\ fetch \notin {None, Asked} => fetch \in Trip
      /\ \A p \in Patches : phase[p] # "new" => previous[p] \in Trip /\ asked[p] \in Request
      /\ \A p \in Patches : wire[p] = "saved" => asked[p] \in Request
  BY DEF TypeOK
<1>2. /\ Old(server', server', clock')
      /\ \A x \in Trip : Old(x, server, clock) => Old(x, server', clock')
      /\ \A r \in Request : Fresh(r, server, clock) => Fresh(r, server', clock')
      /\ \A u \in Tasks : server.status[u] \in Terminal => server'.status[u] \in Terminal
      /\ s \in Terminal => server'.status[t] \in Terminal
  BY <1>1, UpdateKeeps DEF Once
<1> QED
  BY <1>1, <1>2 DEF Once, Request

LEMMA OnceNext == TypeOK /\ Once /\ [Next]_vars => Once'
<1> SUFFICES ASSUME TypeOK, Once, [Next]_vars PROVE Once'
  OBVIOUS
<1>1. ASSUME NEW p \in Patches, NEW t \in Tasks, NEW s \in Terminal, Tap(p, t, s)
      PROVE  Once'
  <2>1. /\ fetch' = None /\ server' = server /\ clock' = clock
        /\ phase' = [phase EXCEPT ![p] = "sent"] /\ phase[p] = "new" /\ wire[p] = "none"
        /\ wire' = [wire EXCEPT ![p] = "travelling"]
        /\ shown' = [shown EXCEPT !.status[t] = s]
        /\ previous'[p] = shown
        /\ asked'[p] = [task |-> t, to |-> s, expected |-> shown.version[t]]
        /\ \A q \in Patches \ {p} : asked'[q] = asked[q] /\ previous'[q] = previous[q]
    BY <1>1 DEF Tap, Moved, TypeOK
  <2>2. Old(shown', server, clock)
    <3>1. shown'.version = shown.version
          /\ \A u \in Tasks : shown'.status[u] = IF u = t THEN s ELSE shown.status[u]
      BY <2>1, TripFields DEF TypeOK
    <3> QED
      BY <3>1 DEF Once, Old
  <2>3. Fresh(asked'[p], server, clock)
    <3>1. shown.status[t] \notin Terminal
      BY <1>1 DEF Tap, CanTap, Open, Terminal
    <3>2. Old(shown, server, clock)
      BY DEF Once
    <3> QED
      BY <2>1, <3>1, <3>2 DEF Old, Fresh
  <2>4. \A q \in Patches : phase'[q] # "new" =>
          Old(previous'[q], server, clock) /\ Fresh(asked'[q], server, clock)
    BY <2>1, <2>3 DEF Once, TypeOK
  <2>5. \A q \in Patches : wire'[q] = "saved" =>
          q # p /\ wire[q] = "saved" /\ asked'[q] = asked[q]
    BY <2>1 DEF TypeOK
  <2>6. TappedTwiceSavedOnce'
    BY <2>5 DEF Once, TappedTwiceSavedOnce
  <2> QED
    BY <2>1, <2>2, <2>4, <2>5, <2>6, ScreenAssumption DEF Once
<1>2. ASSUME NEW p \in Patches, Succeed(p) \/ Reject(p) \/ NoAnswer(p)
      PROVE  Once'
  <2>1. /\ phase[p] = "sent" /\ phase' = [phase EXCEPT ![p] = "done"] /\ fetch' = Asked
        /\ UNCHANGED <<server, clock, wire, asked, previous>>
        /\ shown' = shown \/ shown' = previous[p]
    BY <1>2 DEF Succeed, Reject, NoAnswer, Settle
  <2>2. Old(shown', server, clock)
    BY <2>1 DEF Once
  <2>3. \A q \in Patches : phase'[q] # "new" => phase[q] # "new"
    BY <2>1 DEF TypeOK
  <2> QED
    BY <2>1, <2>2, <2>3, OnceDevice
<1>3. ASSUME NEW p \in Patches, Take(p) PROVE Once'
  <2>1. CASE Refused(asked[p])
    <3>1. /\ UNCHANGED <<server, clock, shown, fetch, phase, asked, previous>>
          /\ \A q \in Patches : wire'[q] = "saved" => wire[q] = "saved"
      BY <1>3, <2>1 DEF Take, device, TypeOK
    <3> QED
      BY <3>1 DEF Once, TappedTwiceSavedOnce
  <2>2. CASE ~ Refused(asked[p])
    <3> DEFINE r == asked[p]
    <3>1. /\ r \in Request /\ r.task \in Tasks /\ r.to \in Terminal /\ r.to \in TaskStatus
          /\ phase[p] # "new"
      BY <1>3 DEF Take, TypeOK, Request, Terminal, TaskStatus
    <3>2. /\ MayBecome(server, r.task, r.to) /\ server.version[r.task] = r.expected
          /\ server' = Updated(server, r.task, r.to, {}, clock + 1) /\ clock' = clock + 1
          /\ UNCHANGED <<shown, fetch, asked, previous, phase>>
          /\ wire' = [wire EXCEPT ![p] = "saved"]
      BY <1>3, <2>2 DEF Take, device, Refused, Stale
    <3>3. server.status[r.task] \notin Terminal
      BY <3>1, <3>2 DEF Once, Fresh
    <3>4. \A q \in Patches : wire[q] = "saved" => asked[q].task # r.task
      BY <3>3 DEF Once
    <3>5. \A q \in Patches : wire'[q] = "saved" => q = p \/ wire[q] = "saved"
      BY <3>2 DEF TypeOK
    <3>6. TappedTwiceSavedOnce'
      BY <3>2, <3>4, <3>5 DEF Once, TappedTwiceSavedOnce
    <3>7. /\ Old(server, server, clock)' /\ Old(shown, server, clock)'
          /\ (fetch \notin {None, Asked} => Old(fetch, server, clock))'
          /\ (\A q \in Patches : phase[q] # "new" =>
                Old(previous[q], server, clock) /\ Fresh(asked[q], server, clock))'
          /\ \A q \in Patches : wire[q] = "saved" => server'.status[asked[q].task] \in Terminal
          /\ server'.status[r.task] \in Terminal
      BY <3>1, <3>2, OnceServer
    <3> QED
      BY <3>2, <3>5, <3>6, <3>7 DEF Once
  <2> QED
    BY <2>1, <2>2
<1>4. ASSUME NEW p \in Patches, Lose(p) PROVE Once'
  <2>1. /\ UNCHANGED <<server, clock, shown, fetch, phase, asked, previous>>
        /\ \A q \in Patches : wire'[q] = "saved" => wire[q] = "saved"
    BY <1>4 DEF Lose, device, TypeOK
  <2> QED
    BY <2>1 DEF Once, TappedTwiceSavedOnce
<1>5. CASE FetchReads \/ FetchArrives \/ FetchFails
  <2>1. /\ UNCHANGED <<server, clock, wire, asked, previous, phase>>
        /\ Old(shown', server, clock)
        /\ fetch' \notin {None, Asked} => Old(fetch', server, clock)
    BY <1>5 DEF FetchReads, FetchArrives, FetchFails, device, Once
  <2> QED
    BY <2>1, OnceDevice
<1>6. CASE OtherEdit
  <2>1. PICK t \in Tasks, s \in TaskStatus :
          MayBecome(server, t, s) /\ server' = Updated(server, t, s, {}, clock + 1)
    BY <1>6 DEF OtherEdit
  <2>2. clock' = clock + 1 /\ UNCHANGED <<shown, fetch, asked, previous, phase, wire>>
    BY <1>6 DEF OtherEdit, device
  <2>3. /\ Old(server, server, clock)' /\ Old(shown, server, clock)'
        /\ (fetch \notin {None, Asked} => Old(fetch, server, clock))'
        /\ (\A q \in Patches : phase[q] # "new" =>
              Old(previous[q], server, clock) /\ Fresh(asked[q], server, clock))'
        /\ \A q \in Patches : wire[q] = "saved" => server'.status[asked[q].task] \in Terminal
    BY <2>1, <2>2, OnceServer
  <2> QED
    BY <2>2, <2>3 DEF Once, TappedTwiceSavedOnce
<1>7. CASE UNCHANGED vars
  BY <1>7 DEF vars, Once, TappedTwiceSavedOnce
<1> QED
  BY <1>1, <1>2, <1>3, <1>4, <1>5, <1>6, <1>7 DEF Next

\* The server saves one of two taps of a task: the second was made from a list
\* that shows the task open, so that it expects a version of before the first.
THEOREM SavedOnce == Spec => []TappedTwiceSavedOnce
<1>1. Once => TappedTwiceSavedOnce
  BY DEF Once
<1> QED
  BY <1>1, OnceInit, OnceNext, TypeCorrect, PTL DEF Spec
=============================================================================
