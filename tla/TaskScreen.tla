----------------------------- MODULE TaskScreen -----------------------------
(***************************************************************************)
(* The task screen of the mobile app                                       *)
(* (mobile/src/features/workflow/CurrentTaskScreen.tsx): completing or      *)
(* skipping a task changes the list on the screen at once, sends a patch,   *)
(* takes the list back when the patch fails, queues the update when no      *)
(* answer came, and fetches the list again when the patch is over.  Several  *)
(* patches can be on their way together; nothing orders their answers.       *)
(*                                                                         *)
(* The list is one value, as in the query cache: the trip's tasks with the   *)
(* status and the updated_at of each.  The server takes a patch in one step *)
(* here; OfflineTaskSync splits it, and follows the queued updates.          *)
(***************************************************************************)
EXTENDS TripTasks

CONSTANTS
  Patches,    \* taps of "complete" or "skip", each with its request
  MaxEdits,   \* bound: updates another device saves
  None, Asked \* values of fetch besides a list

Request == [task : Tasks, to : Terminal, expected : Nat]

ASSUME ScreenAssumption ==
  /\ MaxEdits \in Nat
  /\ None # Asked /\ {None, Asked} \intersect Trip = {} /\ None \notin Request

VARIABLES
  server,    \* the trip the server keeps
  clock,     \* its latest updated_at
  edits,     \* updates of another device so far
  shown,     \* the list in the query cache
  fetch,     \* the query's fetch: None, Asked, or the list that is being answered
  phase,     \* each patch on the device: "new", "sent", "done"
  wire,      \* its request: "none", "travelling", "saved", "refused", "lost"
  asked,     \* its task, the status it asks for, the updated_at it expects
  previous,  \* the list as its onMutate found it
  queued,    \* patches whose update is in the offline queue
  (* History: *)
  stale,     \* the last fetch failed, for good
  behind,    \* the server changed since a fetch read it, and this device cannot know
  untouched  \* sent patches since which no other was over

device  == <<phase, asked, previous, queued, untouched>>
vars    == <<server, clock, edits, shown, fetch, phase, wire, asked,
             previous, queued, stale, behind, untouched>>

Open      == {"pending", "in_progress"}
WireState == {"none", "travelling", "saved", "refused", "lost"}

Init ==
  /\ server \in Generated /\ shown = server
  /\ clock = 0 /\ edits = 0
  /\ fetch \in {None, Asked}   \* the screen opens on a cached list, which is stale
  /\ phase = [p \in Patches |-> "new"]
  /\ wire = [p \in Patches |-> "none"]
  /\ asked = [p \in Patches |-> None]
  /\ previous = [p \in Patches |-> None]
  /\ queued = {} /\ untouched = {}
  /\ stale = FALSE /\ behind = FALSE

-----------------------------------------------------------------------------
(* A patch on the device.                                                  *)

CanTap(t, s) == \/ shown.status[t] \in Open
                \/ s = "skipped" /\ shown.status[t] = "blocked"

\* moveTaskToTerminalGroup; the limit on completed tasks is left out.
Moved(list, t, s) == [list EXCEPT !.status[t] = s]

\* A faulty variant: a fetch under way is not cancelled.
Tap_KeepsFetch(p, t, s) ==
  /\ phase[p] = "new" /\ CanTap(t, s)
  /\ asked' = [asked EXCEPT ![p] = [task |-> t, to |-> s, expected |-> shown.version[t]]]
  /\ previous' = [previous EXCEPT ![p] = shown]
  /\ shown' = Moved(shown, t, s)
  /\ phase' = [phase EXCEPT ![p] = "sent"]
  /\ wire' = [wire EXCEPT ![p] = "travelling"]
  /\ untouched' = untouched \union {p}
  /\ UNCHANGED <<server, clock, edits, fetch, queued, stale, behind>>

\* mutate and onMutate: cancelQueries drops a fetch that is under way.
Tap(p, t, s) ==
  /\ phase[p] = "new" /\ CanTap(t, s)
  /\ asked' = [asked EXCEPT ![p] = [task |-> t, to |-> s, expected |-> shown.version[t]]]
  /\ previous' = [previous EXCEPT ![p] = shown]
  /\ shown' = Moved(shown, t, s)
  /\ fetch' = None
  /\ phase' = [phase EXCEPT ![p] = "sent"]
  /\ wire' = [wire EXCEPT ![p] = "travelling"]
  /\ untouched' = untouched \union {p}
  /\ UNCHANGED <<server, clock, edits, queued, stale, behind>>

\* A faulty variant: a fetch under way stands in for the new one.
Settle_JoinsFetch(p) ==
  /\ phase' = [phase EXCEPT ![p] = "done"]
  /\ fetch' = IF fetch = None THEN Asked ELSE fetch

\* onSettled invalidates the list: a fetch under way is dropped for a new one.
Settle(p) ==
  /\ phase' = [phase EXCEPT ![p] = "done"]
  /\ fetch' = Asked

Succeed(p) ==
  /\ phase[p] = "sent" /\ wire[p] = "saved"
  /\ Settle(p)
  /\ untouched' = {}
  /\ UNCHANGED <<server, clock, edits, shown, wire, asked, previous, queued, stale, behind>>

\* onError puts the list back as this patch found it, ...
Reject(p) ==
  /\ phase[p] = "sent" /\ wire[p] = "refused"
  /\ shown' = previous[p]
  /\ Settle(p)
  /\ untouched' = {}
  /\ UNCHANGED <<server, clock, edits, wire, asked, previous, queued, stale, behind>>

\* ... and queues the update when there was no response: the request or the
\* answer was lost, took too long (30 s) or could not be read.
NoAnswer(p) ==
  /\ phase[p] = "sent"
  /\ shown' = previous[p]
  /\ queued' = queued \union {p}
  /\ Settle(p)
  /\ untouched' = {}
  /\ UNCHANGED <<server, clock, edits, wire, asked, previous, stale, behind>>

-----------------------------------------------------------------------------
(* The list's query.                                                       *)

FetchReads ==
  /\ fetch = Asked
  /\ fetch' = server
  /\ behind' = FALSE
  /\ UNCHANGED <<server, clock, edits, shown, device, wire, stale>>

FetchArrives ==
  /\ fetch \notin {None, Asked}
  /\ shown' = fetch
  /\ fetch' = None
  /\ stale' = FALSE
  /\ UNCHANGED <<server, clock, edits, device, wire, behind>>

\* The fetch and its one retry fail: the list stays.
FetchFails ==
  /\ fetch # None
  /\ fetch' = None
  /\ stale' = TRUE
  /\ UNCHANGED <<server, clock, edits, shown, device, wire, behind>>

-----------------------------------------------------------------------------
(* The server and another device.                                          *)

\* A faulty variant: versions are not compared.
Stale_Unchecked(r) == FALSE

\* The version guard of a patch (_prepare_task_patch).
Stale(r) == server.version[r.task] # r.expected
Refused(r) == Stale(r) \/ ~ MayBecome(server, r.task, r.to)

\* The patch may arrive after the device gave it up.
Take(p) ==
  /\ wire[p] = "travelling"
  /\ IF Refused(asked[p])
     THEN /\ wire' = [wire EXCEPT ![p] = "refused"]
          /\ UNCHANGED <<server, clock, behind>>
     ELSE /\ wire' = [wire EXCEPT ![p] = "saved"]
          /\ server' = Updated(server, asked[p].task, asked[p].to, {}, clock + 1)
          /\ clock' = clock + 1
          /\ behind' = (behind \/ phase[p] = "done")
  /\ UNCHANGED <<edits, shown, fetch, device, stale>>

Lose(p) ==
  /\ wire[p] = "travelling"
  /\ wire' = [wire EXCEPT ![p] = "lost"]
  /\ UNCHANGED <<server, clock, edits, shown, fetch, device, stale, behind>>

OtherEdit ==
  /\ edits < MaxEdits
  /\ \E t \in Tasks, s \in TaskStatus :
       /\ MayBecome(server, t, s)
       /\ server' = Updated(server, t, s, {}, clock + 1)
  /\ clock' = clock + 1
  /\ edits' = edits + 1
  /\ behind' = TRUE
  /\ UNCHANGED <<shown, fetch, device, wire, stale>>

-----------------------------------------------------------------------------
Next ==
  \/ \E p \in Patches :
       \/ \E t \in Tasks, s \in Terminal : Tap(p, t, s)
       \/ Succeed(p) \/ Reject(p) \/ NoAnswer(p)
       \/ Take(p) \/ Lose(p)
  \/ FetchReads \/ FetchArrives \/ FetchFails
  \/ OtherEdit

\* A request ends, at the latest when axios' timeout does; so does a fetch.
Fairness ==
  /\ \A p \in Patches : WF_vars(Succeed(p) \/ Reject(p) \/ NoAnswer(p))
  /\ WF_vars(FetchReads \/ FetchFails) /\ WF_vars(FetchArrives \/ FetchFails)

Spec     == Init /\ [][Next]_vars
FairSpec == Spec /\ Fairness

-----------------------------------------------------------------------------
(***************************************************************************)
(* Properties.                                                             *)
(***************************************************************************)

\* Every variable has its type; a sent patch has its request and its snapshot.
TypeOK ==
  /\ server \in Trip /\ shown \in Trip
  /\ clock \in Nat /\ edits \in 0 .. MaxEdits
  /\ fetch \in Trip \union {None, Asked}
  /\ phase \in [Patches -> {"new", "sent", "done"}]
  /\ wire \in [Patches -> WireState]
  /\ asked \in [Patches -> Request \union {None}]
  /\ previous \in [Patches -> Trip \union {None}]
  /\ queued \subseteq Patches
  /\ stale \in BOOLEAN /\ behind \in BOOLEAN
  /\ \A p \in Patches :
       IF phase[p] = "new" THEN wire[p] = "none"
       ELSE asked[p] # None /\ previous[p] # None /\ wire[p] # "none"
  /\ untouched \subseteq {p \in Patches : phase[p] = "sent"}

Quiet == fetch = None /\ \A p \in Patches : phase[p] # "sent"

\* However patches, answers, roll-backs and fetches cross, nothing optimistic
\* and nothing rolled back survives them: once all is over the list is the
\* server's, unless the last fetch failed or another device changed the trip.
QuietScreenIsTrue == Quiet /\ ~ stale /\ ~ behind => shown = server

\* A task the user just completed or skipped stays where the tap put it as long
\* as no other patch is over: a fetch that was under way when the user tapped
\* does not bring the task back, and later taps leave it.
TapStays ==
  \A p \in untouched : shown.status[asked[p].task] = asked[p].to

\* A task that a roll-back or a fetch opened again while its patch was under way
\* can be tapped again; the server takes one of the two.
TappedTwiceSavedOnce ==
  \A p, q \in Patches :
    p # q /\ wire[p] = "saved" /\ wire[q] = "saved" =>
      asked[p].task # asked[q].task

\* An update the user made is never dropped in silence: the server saved it,
\* or refused it and said so, or the app keeps it for the next sync.
UpdateIsKept ==
  \A p \in Patches :
    phase[p] = "done" => p \in queued \/ wire[p] \in {"saved", "refused"}

\* The screen comes to rest on the server's list, or knows that it could not.
ScreenCatchesUp == <>[](shown = server \/ stale \/ behind)
=============================================================================
