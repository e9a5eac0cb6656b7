---------------------------- MODULE ReplySession ----------------------------
(***************************************************************************)
(* One clarification session: a question was answered with a question, and  *)
(* the user replies to it, by POST /sessions/{id}/reply or through a job    *)
(* (/reply/job), until an answer asks nothing more                          *)
(* (services/session_reply_service.py).  The session is one Redis record    *)
(* (services/session_store.py) that every operation GETs and SETs as a      *)
(* whole; replies may overlap (two tabs, a client that gave up waiting),    *)
(* their processes die, and the record may expire.                          *)
(*                                                                         *)
(* A message is the reply that brought it.  The pending question is its     *)
(* kind; what is asked, and whether, is the answering service's choice.     *)
(***************************************************************************)
EXTENDS Naturals, FiniteSets

CONSTANTS
  Replies,    \* replies that may be sent
  Kinds,      \* what may be asked: preference, feasibility, detail_level
  MaxTurns,   \* MAX_CHECKPOINT_REPLY_TURNS
  Routes,     \* how replies are handled: "sync", "job" (in process), "queue"
  None

Session == [messages : SUBSET Replies, kind : Kinds, completed : BOOLEAN]

ASSUME SessionAssumption ==
  /\ IsFiniteSet(Replies) /\ MaxTurns \in Nat \ {0}
  /\ Routes \subseteq {"sync", "job", "queue"}
  /\ None \notin Session

VARIABLES
  session,  \* the stored session, None when it has expired
  reply,    \* the replies: where each is, the session it read, its outcome
  shown,    \* the kind of question the client was asked last
  (* History: *)
  dropped,  \* replies whose message was once missing from what was saved
  reopened, \* whether a completed session was saved as a pending one, or expired
  muddled   \* whether replies overlapped, or a saved question was never delivered

vars == <<session, reply, shown, dropped, reopened, muddled>>

Steps    == {"idle", "append_set", "answering", "update_get", "update_set",
             "complete_get", "complete_set", "deliver", "over"}
Outcomes == {"none", "ask", "final"}
Reply    == [step : Steps, via : Routes \union {"none"}, copy : Session \union {None},
             outcome : Outcomes, met : Kinds, used : Kinds \union {None}, rank : Nat]

At(r, step)  == reply[r].step = step
UnderWay(r)  == reply[r].step \notin {"idle", "over"}
Recorded     == {r \in Replies : reply[r].rank > 0}
Asked        == {r \in Replies : reply[r].outcome = "ask"}

Init ==
  \E k \in Kinds :
    /\ session = [messages |-> {}, kind |-> k, completed |-> FALSE]
    /\ reply = [r \in Replies |-> [step |-> "idle", via |-> "none", copy |-> None,
                                   outcome |-> "none", met |-> k, used |-> k, rank |-> 0]]
    /\ shown = k /\ dropped = {} /\ reopened = FALSE /\ muddled = FALSE

\* A SET, with what it loses of the session it replaces.
Messages(s) == IF s = None THEN {} ELSE s.messages
Save(s) ==
  /\ session' = s
  /\ dropped' = dropped \union (Messages(session) \ Messages(s))
  /\ reopened' = (reopened \/ (session # None /\ session.completed /\ (s = None \/ ~s.completed)))

\* A GET; without a session the request ends with 404, a job fails.
Read(r, next) ==
  /\ reply' = [reply EXCEPT ![r].copy = session,
                            ![r].step = IF session = None THEN "over" ELSE next]
  /\ UNCHANGED <<session, shown, dropped, reopened, muddled>>

-----------------------------------------------------------------------------
(* append_reply: the session is not asked whether it is still pending.  The *)
(* kind of its pending question goes into the question to answer.           *)

Send(r, via) ==
  /\ At(r, "idle")
  /\ reply' = [reply EXCEPT ![r].via = via, ![r].copy = session, ![r].met = shown,
                            ![r].used = IF session = None THEN shown ELSE session.kind,
                            ![r].step = IF session = None THEN "over" ELSE "append_set"]
  /\ muddled' = (muddled \/ \E q \in Replies : UnderWay(q))
  /\ UNCHANGED <<session, shown, dropped, reopened>>

AppendSet(r) ==
  LET s == [reply[r].copy EXCEPT !.messages = @ \union {r}] IN
  /\ At(r, "append_set")
  /\ Save(s)
  /\ reply' = [reply EXCEPT ![r].copy = s, ![r].step = "answering",
                            ![r].rank = Cardinality(Recorded) + 1]
  /\ UNCHANGED <<shown, muddled>>

-----------------------------------------------------------------------------
(* The answering service raises, answers, or asks.  The limit on turns is   *)
(* checked on the session the reply appended to, or by a job on the one it  *)
(* reads after the answer.  A worker of the queue has no session store, and *)
(* takes its question from the job's record, which excludes the kind.       *)

\* A faulty variant: one turn too many.
LimitReached_Late(s) == Cardinality(s.messages) > MaxTurns

LimitReached(s) == Cardinality(s.messages) >= MaxTurns

AnswerRaises(r) ==
  /\ At(r, "answering")
  /\ reply' = [reply EXCEPT ![r].step = "over", ![r].copy = None]
  /\ UNCHANGED <<session, shown, dropped, reopened, muddled>>

\* A faulty variant: the final answer leaves the session pending.
Answer_NotCompleted(r) ==
  LET s == IF reply[r].via = "sync" THEN reply[r].copy ELSE session
      limited(asks) == asks /\ ~LimitReached(s)
  IN
  /\ At(r, "answering") /\ reply[r].via # "queue"
  /\ \E asks \in BOOLEAN :
       reply' = [reply EXCEPT ![r].copy = s,
                              ![r].step = IF s = None THEN "over"
                                          ELSE IF limited(asks) THEN "update_get" ELSE "deliver",
                              ![r].outcome = IF s = None \/ limited(asks) THEN @ ELSE "final"]
  /\ UNCHANGED <<session, shown, dropped, reopened, muddled>>

Answer(r) ==
  LET s == IF reply[r].via = "sync" THEN reply[r].copy ELSE session IN
  /\ At(r, "answering") /\ reply[r].via # "queue"
  /\ \E asks \in BOOLEAN :
       reply' = [reply EXCEPT ![r].copy = s,
                              ![r].step = IF s = None THEN "over"
                                          ELSE IF asks /\ ~LimitReached(s) THEN "update_get"
                                          ELSE "complete_get"]
  /\ UNCHANGED <<session, shown, dropped, reopened, muddled>>

WorkerAnswers(r) ==
  /\ At(r, "answering") /\ reply[r].via = "queue"
  /\ reply' = [reply EXCEPT ![r].step = "deliver", ![r].outcome = "final", ![r].used = None]
  /\ UNCHANGED <<session, shown, dropped, reopened, muddled>>

\* update_pending and complete.
UpdateGet(r) == At(r, "update_get") /\ Read(r, "update_set")

\* A faulty variant: update_pending keeps the kind of the question answered.
UpdateSet_KindKept(r) ==
  /\ At(r, "update_set")
  /\ Save(reply[r].copy)
  /\ \E k \in Kinds :
       reply' = [reply EXCEPT ![r].copy.kind = k, ![r].step = "deliver", ![r].outcome = "ask"]
  /\ UNCHANGED <<shown, muddled>>

UpdateSet(r) ==
  /\ At(r, "update_set")
  /\ \E k \in Kinds : Save([reply[r].copy EXCEPT !.kind = k])
  /\ reply' = [reply EXCEPT ![r].copy = session', ![r].step = "deliver", ![r].outcome = "ask"]
  /\ UNCHANGED <<shown, muddled>>

CompleteGet(r) == At(r, "complete_get") /\ Read(r, "complete_set")

CompleteSet(r) ==
  /\ At(r, "complete_set")
  /\ Save([reply[r].copy EXCEPT !.completed = TRUE])
  /\ reply' = [reply EXCEPT ![r].step = "deliver", ![r].outcome = "final"]
  /\ UNCHANGED <<shown, muddled>>

\* The answer reaches the client, which shows the question in it.
Deliver(r) ==
  /\ At(r, "deliver")
  /\ reply' = [reply EXCEPT ![r].step = "over", ![r].copy = None]
  /\ shown' = IF reply[r].outcome = "ask" THEN reply[r].copy.kind ELSE shown
  /\ UNCHANGED <<session, dropped, reopened, muddled>>

-----------------------------------------------------------------------------
(* A process dies, or its answer is lost on the way; the session expires.   *)

Crash(r) ==
  /\ UnderWay(r)
  /\ reply' = [reply EXCEPT ![r].step = "over", ![r].copy = None]
  /\ muddled' = (muddled \/ (At(r, "deliver") /\ reply[r].outcome = "ask"))
  /\ UNCHANGED <<session, shown, dropped, reopened>>

Expire ==
  /\ session # None
  /\ Save(None)
  /\ UNCHANGED <<reply, shown, muddled>>

Step(r) ==
  \/ \E via \in Routes : Send(r, via)
  \/ AppendSet(r) \/ AnswerRaises(r) \/ Answer(r) \/ WorkerAnswers(r)
  \/ UpdateGet(r) \/ UpdateSet(r) \/ CompleteGet(r) \/ CompleteSet(r)
  \/ Deliver(r) \/ Crash(r)

Next == (\E r \in Replies : Step(r)) \/ Expire
Spec == Init /\ [][Next]_vars

-----------------------------------------------------------------------------
(***************************************************************************)
(* Properties.                                                             *)
(***************************************************************************)

\* Every variable has its type; a reply about to SET holds what it read.
TypeOK ==
  /\ session \in Session \union {None}
  /\ reply \in [Replies -> Reply]
  /\ shown \in Kinds
  /\ dropped \subseteq Replies
  /\ reopened \in BOOLEAN /\ muddled \in BOOLEAN
  /\ \A r \in Replies : reply[r].step \in Steps \ {"idle", "over"} => reply[r].copy # None

\* The user is asked again fewer than MaxTurns times, whatever expires or dies,
\* unless overlapping replies overwrote messages: one more time for each reply
\* that was dropped.
LimitHolds == Cardinality(Asked) + 1 <= MaxTurns + Cardinality(dropped)

\* A session whose user was given an answer without a question is completed,
\* except by the queue's worker: it stays so unless an older copy is saved over it.
FinalCloses ==
  (\E r \in Replies : reply[r].outcome = "final" /\ reply[r].via # "queue")
    => reopened \/ (session # None /\ session.completed)

Unread == {r \in Replies : reply[r].used # reply[r].met}

\* Replies sent one after the other are each read as the answer to the question
\* their sender saw, except by the queue's worker.
MeetsQuestion == ~muddled => \A r \in Unread : reply[r].via = "queue"
=============================================================================
