------------------------- MODULE ReplySessionProofs -------------------------
(***************************************************************************)
(* Proofs about ReplySession, for any replies, kinds, routes and limit.     *)
(* The limit on turns rests on one idea: replies are ranked in the order in *)
(* which their messages were saved, and a reply that passes the limit check *)
(* has found every message up to its own, unless it was dropped.  So its    *)
(* rank is below MaxTurns plus the messages dropped, and no two replies     *)
(* share a rank.                                                           *)
(***************************************************************************)
EXTENDS ReplySession, FiniteSetTheorems, TLAPS

Working == Steps \ {"idle", "over"}

-----------------------------------------------------------------------------
\* Types, and that nothing that was dropped is forgotten.

LEMMA SaveType ==
  ASSUME TypeOK, NEW s \in Session \union {None}, Save(s)
  PROVE  /\ session' \in Session \union {None}
         /\ dropped' \subseteq Replies /\ dropped \subseteq dropped'
         /\ reopened' \in BOOLEAN
BY DEF TypeOK, Save, Messages, Session

LEMMA RecordedFinite ==
  ASSUME TypeOK
  PROVE  IsFiniteSet(Recorded) /\ Cardinality(Recorded) \in Nat
BY SessionAssumption, FS_Subset, FS_CardinalityType DEF Recorded

LEMMA DroppedFinite ==
  ASSUME TypeOK
  PROVE  IsFiniteSet(dropped) /\ Cardinality(dropped) \in Nat
BY SessionAssumption, FS_Subset, FS_CardinalityType DEF TypeOK

\* A SET's session is one, and not None.
LEMMA SessionsKept ==
  ASSUME TypeOK, NEW r \in Replies, reply[r].step \in Working
  PROVE  /\ reply[r].copy \in Session
         /\ [reply[r].copy EXCEPT !.messages = @ \union {r}] \in Session
         /\ \A k \in Kinds : [reply[r].copy EXCEPT !.kind = k] \in Session
         /\ [reply[r].copy EXCEPT !.completed = TRUE] \in Session
<1>1. reply[r].copy \in Session
  BY DEF TypeOK, Reply, Working
<1> QED
  BY <1>1 DEF Session

\* Only the reply whose turn it is changes, and it stays a reply.
LEMMA StepType ==
  ASSUME TypeOK, NEW r \in Replies, Step(r)
  PROVE  TypeOK'
<1> USE SessionAssumption
<1>0. /\ reply[r] \in Reply /\ reply \in [Replies -> Reply]
      /\ session \in Session \union {None}
  BY DEF TypeOK
<1>1. ASSUME NEW via \in Routes, Send(r, via) PROVE TypeOK'
  BY <1>0, <1>1 DEF TypeOK, Send, At, Reply, Session, UnderWay, Steps
<1>2. CASE AppendSet(r)
  <2> DEFINE s == [reply[r].copy EXCEPT !.messages = @ \union {r}]
  <2>1. s \in Session /\ Save(s)
    BY <1>2, SessionsKept DEF AppendSet, At, Working, Steps
  <2>2. Cardinality(Recorded) + 1 \in Nat
    BY RecordedFinite
  <2>3. s # None
    BY <2>1
  <2> HIDE DEF s
  <2>4. /\ reply' = [reply EXCEPT ![r].copy = s, ![r].step = "answering",
                                  ![r].rank = Cardinality(Recorded) + 1]
        /\ UNCHANGED <<shown, muddled>>
    BY <1>2 DEF AppendSet, s
  <2> QED
    BY <1>0, <2>1, <2>2, <2>3, <2>4, SaveType DEF TypeOK, Reply, Steps
<1>3. CASE AnswerRaises(r)
  BY <1>0, <1>3 DEF TypeOK, AnswerRaises, At, Reply, Steps
<1>4. CASE Answer(r)
  BY <1>0, <1>4 DEF TypeOK, Answer, At, Reply, Steps
<1>5. CASE WorkerAnswers(r)
  BY <1>0, <1>5 DEF TypeOK, WorkerAnswers, At, Reply, Steps, Outcomes
<1>6. CASE UpdateGet(r)
  BY <1>0, <1>6 DEF TypeOK, UpdateGet, Read, At, Reply, Steps
<1>7. CASE UpdateSet(r)
  <2>1. PICK k \in Kinds : Save([reply[r].copy EXCEPT !.kind = k])
    BY <1>7 DEF UpdateSet
  <2> DEFINE s == [reply[r].copy EXCEPT !.kind = k]
  <2>2. s \in Session
    BY <1>7, SessionsKept DEF UpdateSet, At, Working, Steps
  <2>3. session' = s /\ s # None
    BY <2>1, <2>2 DEF Save
  <2> HIDE DEF s
  <2>4. /\ reply' = [reply EXCEPT ![r].copy = s, ![r].step = "deliver", ![r].outcome = "ask"]
        /\ UNCHANGED <<shown, muddled>>
    BY <1>7, <2>3 DEF UpdateSet
  <2>5. Save(s)
    BY <2>1 DEF s
  <2> QED
    BY <1>0, <2>2, <2>3, <2>4, <2>5, SaveType DEF TypeOK, Reply, Steps, Outcomes
<1>8. CASE CompleteGet(r)
  BY <1>0, <1>8 DEF TypeOK, CompleteGet, Read, At, Reply, Steps
<1>9. CASE CompleteSet(r)
  <2> DEFINE s == [reply[r].copy EXCEPT !.completed = TRUE]
  <2>1. s \in Session /\ Save(s)
    BY <1>9, SessionsKept DEF CompleteSet, At, Working, Steps
  <2>2. /\ reply' = [reply EXCEPT ![r].step = "deliver", ![r].outcome = "final"]
        /\ UNCHANGED <<shown, muddled>> /\ At(r, "complete_set")
    BY <1>9 DEF CompleteSet
  <2> HIDE DEF s
  <2> QED
    BY <1>0, <2>1, <2>2, SaveType DEF TypeOK, At, Reply, Steps, Outcomes
<1>10. CASE Deliver(r)
  <2>1. reply[r].copy \in Session
    BY <1>10, SessionsKept DEF Deliver, At, Working, Steps
  <2> QED
    BY <1>0, <1>10, <2>1 DEF TypeOK, Deliver, At, Reply, Steps, Session
<1>11. CASE Crash(r)
  BY <1>0, <1>11 DEF TypeOK, Crash, At, UnderWay, Reply, Steps
<1> QED
  BY <1>1, <1>2, <1>3, <1>4, <1>5, <1>6, <1>7, <1>8, <1>9, <1>10, <1>11 DEF Step

LEMMA NextType ==
  ASSUME TypeOK, [Next]_vars
  PROVE  TypeOK'
<1>1. CASE Expire
  BY <1>1, SaveType DEF Expire, TypeOK
<1>2. CASE UNCHANGED vars
  BY <1>2 DEF vars, TypeOK
<1> QED
  BY <1>1, <1>2, StepType DEF Next

LEMMA InitType == Init => TypeOK
<1> SUFFICES ASSUME Init PROVE TypeOK
  OBVIOUS
<1>1. PICK k \in Kinds :
        /\ session = [messages |-> {}, kind |-> k, completed |-> FALSE]
        /\ reply = [r \in Replies |-> [step |-> "idle", via |-> "none", copy |-> None,
                                      outcome |-> "none", met |-> k, used |-> k, rank |-> 0]]
        /\ shown = k /\ dropped = {} /\ reopened = FALSE /\ muddled = FALSE
  BY DEF Init
<1>2. session \in Session
  BY <1>1 DEF Session
<1>3. [step |-> "idle", via |-> "none", copy |-> None, outcome |-> "none",
       met |-> k, used |-> k, rank |-> 0] \in Reply
  BY DEF Reply, Steps, Outcomes
<1>4. \A r \in Replies : reply[r].step = "idle"
  BY <1>1
<1> QED
  BY <1>1, <1>2, <1>3, <1>4 DEF TypeOK

\* Every reachable state is well typed, for any replies and kinds: no handler
\* goes on without a session (get's None is a 404 or a failed job).
THEOREM TypeCorrect == Spec => []TypeOK
BY InitType, NextType, PTL DEF Spec

-----------------------------------------------------------------------------
\* A reply has a rank once its message is saved, and an outcome later still.
Fresh ==
  \A r \in Replies :
    reply[r].step \in {"idle", "append_set"} => reply[r].rank = 0 /\ reply[r].outcome = "none"

\* It is only allowed to ask by an answer.
MayAsk(r) == reply[r].step \in {"update_get", "update_set"} \/ reply[r].outcome = "ask"

LEMMA StepKeeps ==
  ASSUME TypeOK, Fresh, NEW r \in Replies, Step(r)
  PROVE  /\ Fresh'
         /\ \A q \in Replies \ {r} : reply'[q] = reply[q]
         /\ At(r, "idle") \/ reply'[r].via = reply[r].via
         /\ AppendSet(r) \/ reply'[r].rank = reply[r].rank
         /\ AppendSet(r) \/ ~ At(r, "answering")'
         /\ MayAsk(r)' => Answer(r) \/ MayAsk(r)
         /\ \/ UpdateSet(r) \/ CompleteSet(r) \/ WorkerAnswers(r)
            \/ reply'[r].outcome = reply[r].outcome
<1> DEFINE Others  == \A q \in Replies \ {r} : reply'[q] = reply[q]
           Sent    == At(r, "idle") /\ reply'[r].rank = reply[r].rank
                                    /\ reply'[r].outcome = reply[r].outcome
                                    /\ reply'[r].step \in {"append_set", "over"}
           Further == /\ reply'[r].step \notin {"idle", "append_set"}
                      /\ reply'[r].via = reply[r].via
                      /\ AppendSet(r) \/ reply'[r].rank = reply[r].rank
                      /\ AppendSet(r) \/ reply'[r].step # "answering"
                      /\ MayAsk(r)' => Answer(r) \/ MayAsk(r)
                      /\ \/ UpdateSet(r) \/ CompleteSet(r) \/ WorkerAnswers(r)
                         \/ reply'[r].outcome = reply[r].outcome
<1>0. reply \in [Replies -> Reply]
  BY DEF TypeOK
<1>1. ASSUME NEW via \in Routes, Send(r, via) PROVE Others /\ Sent
  BY <1>0, <1>1 DEF Send, Reply
<1>2. CASE AppendSet(r)
  <2>1. Others /\ Further
    BY <1>0, <1>2 DEF AppendSet, At, MayAsk, Reply
  <2> QED
    BY <2>1 DEF Fresh, At
<1>3. CASE AnswerRaises(r)
  <2>1. Others /\ Further
    BY <1>0, <1>3 DEF AnswerRaises, At, MayAsk, Reply
  <2> QED
    BY <2>1 DEF Fresh, At
<1>4. CASE Answer(r)
  <2>0. PICK asks \in BOOLEAN, s \in {reply[r].copy, session} :
          reply' = [reply EXCEPT ![r].copy = s,
                                 ![r].step = IF s = None THEN "over"
                                             ELSE IF asks /\ ~LimitReached(s) THEN "update_get"
                                             ELSE "complete_get"]
    BY <1>4 DEF Answer
  <2>1. Others /\ Further
    BY <1>0, <1>4, <2>0 DEF Reply
  <2> QED
    BY <2>1 DEF Fresh, At
<1>5. CASE WorkerAnswers(r)
  <2>1. Others /\ Further
    BY <1>0, <1>5 DEF WorkerAnswers, At, MayAsk, Reply
  <2> QED
    BY <2>1 DEF Fresh, At
<1>6. CASE UpdateGet(r)
  <2>1. Others /\ Further
    BY <1>0, <1>6 DEF UpdateGet, At, MayAsk, Reply, Read
  <2> QED
    BY <2>1 DEF Fresh, At
<1>7. CASE UpdateSet(r)
  <2>1. Others /\ Further
    BY <1>0, <1>7 DEF UpdateSet, At, MayAsk, Reply
  <2> QED
    BY <2>1 DEF Fresh, At
<1>8. CASE CompleteGet(r)
  <2>1. Others /\ Further
    BY <1>0, <1>8 DEF CompleteGet, At, MayAsk, Reply, Read
  <2> QED
    BY <2>1 DEF Fresh, At
<1>9. CASE CompleteSet(r)
  <2>1. Others /\ Further
    BY <1>0, <1>9 DEF CompleteSet, At, MayAsk, Reply
  <2> QED
    BY <2>1 DEF Fresh, At
<1>10. CASE Deliver(r)
  <2>1. Others /\ Further
    BY <1>0, <1>10 DEF Deliver, At, MayAsk, Reply
  <2> QED
    BY <2>1 DEF Fresh, At
<1>11. CASE Crash(r)
  <2>1. Others /\ Further
    BY <1>0, <1>11 DEF Crash, At, MayAsk, Reply, UnderWay
  <2> QED
    BY <2>1 DEF Fresh, At
<1>12. ASSUME NEW via \in Routes, Send(r, via) PROVE Fresh'
  BY <1>1, <1>12 DEF Fresh, At
<1> QED
  BY <1>1, <1>2, <1>3, <1>4, <1>5, <1>6, <1>7, <1>8, <1>9, <1>10, <1>11, <1>12 DEF Step, MayAsk, At

-----------------------------------------------------------------------------
\* A completed session is never saved as a pending one unnoticed.
LEMMA SaveCloses ==
  ASSUME TypeOK, NEW s \in Session \union {None}, Save(s),
         reopened \/ (session # None /\ session.completed)
  PROVE  reopened' \/ (session' # None /\ session'.completed)
BY DEF Save, TypeOK

LEMMA StepCloses ==
  ASSUME TypeOK, Fresh, FinalCloses, NEW r \in Replies, Step(r)
  PROVE  FinalCloses'
<1> DEFINE closed == reopened \/ (session # None /\ session.completed)
           Finals == {q \in Replies : reply[q].outcome = "final" /\ reply[q].via # "queue"}
<1>0. /\ reply \in [Replies -> Reply] /\ (Finals # {} => closed)
      /\ FinalCloses' <=> (Finals' # {} => closed')
  BY DEF TypeOK, FinalCloses
<1>1. CASE AppendSet(r)
  <2> DEFINE s == [reply[r].copy EXCEPT !.messages = @ \union {r}]
  <2>1. s \in Session /\ Save(s)
    BY <1>1, SessionsKept DEF AppendSet, At, Working, Steps
  <2>2. Finals' = Finals
    BY <1>0, <1>1 DEF AppendSet, Reply
  <2> QED
    BY <1>0, <2>1, <2>2, SaveCloses
<1>2. CASE UpdateSet(r)
  <2>1. PICK k \in Kinds : Save([reply[r].copy EXCEPT !.kind = k])
    BY <1>2 DEF UpdateSet
  <2>2. [reply[r].copy EXCEPT !.kind = k] \in Session
    BY <1>2, SessionsKept DEF UpdateSet, At, Working, Steps
  <2>3. Finals' \subseteq Finals
    BY <1>0, <1>2 DEF UpdateSet, Reply
  <2> QED
    BY <1>0, <2>1, <2>2, <2>3, SaveCloses
<1>3. CASE CompleteSet(r)
  <2> DEFINE s == [reply[r].copy EXCEPT !.completed = TRUE]
  <2>1. s \in Session /\ Save(s)
    BY <1>3, SessionsKept DEF CompleteSet, At, Working, Steps
  <2>2. s.completed /\ s # None
    BY <1>3, <2>1, SessionsKept, SessionAssumption DEF CompleteSet, At, Working, Steps, Session
  <2>3. session' = s
    BY <2>1 DEF Save
  <2> QED
    BY <1>0, <2>2, <2>3
<1>4. CASE ~ (AppendSet(r) \/ UpdateSet(r) \/ CompleteSet(r) \/ WorkerAnswers(r))
  <2>1. session' = session /\ reopened' = reopened
    BY <1>4 DEF Step, Send, AnswerRaises, Answer, UpdateGet, CompleteGet, Read, Deliver, Crash
  <2>2. reply'[r].outcome = reply[r].outcome
    BY <1>4, StepKeeps
  <2>3. \A q \in Replies : reply'[q] = reply[q] \/ q = r
    BY StepKeeps
  <2>4. reply'[r].via = reply[r].via \/ reply[r].outcome = "none"
    BY StepKeeps DEF Fresh, At
  <2>5. Finals' \subseteq Finals
    BY <2>2, <2>3, <2>4
  <2> QED
    BY <1>0, <2>1, <2>5
<1>5. CASE WorkerAnswers(r)
  <2>1. session' = session /\ reopened' = reopened /\ Finals' \subseteq Finals
    BY <1>0, <1>5 DEF WorkerAnswers, Reply
  <2> QED
    BY <1>0, <2>1
<1> QED
  BY <1>1, <1>2, <1>3, <1>4, <1>5 DEF Step

-----------------------------------------------------------------------------
\* The ranks are 1, 2, 3, ... in the order of the SETs.
Upto(k) == {q \in Recorded : reply[q].rank <= k}

Ranked ==
  /\ \A r \in Replies : reply[r].rank <= Cardinality(Recorded)
  /\ \A k \in 0 .. Cardinality(Recorded) : Cardinality(Upto(k)) = k

\* No message is missing unless it was dropped: neither from the session, ...
Covered == Recorded \subseteq Messages(session) \union dropped

\* ... nor, up to its own, from what a reply has appended to.
CopyCovers ==
  \A r \in Replies : At(r, "answering") =>
    Upto(reply[r].rank) \subseteq reply[r].copy.messages \union dropped

\* So a reply that may ask is an early one.
Permitted ==
  \A r \in Replies : MayAsk(r) =>
    reply[r].rank > 0 /\ reply[r].rank + 1 <= MaxTurns + Cardinality(dropped)

Numbered == \A r \in Replies : reply[r].step \in Working \ {"append_set"} => reply[r].rank > 0

Inv == TypeOK /\ Fresh /\ FinalCloses /\ Numbered /\ Ranked /\ Covered /\ CopyCovers /\ Permitted

\* What a step drops is remembered.
LEMMA StepDrops ==
  ASSUME TypeOK, NEW r \in Replies, Step(r) \/ Expire
  PROVE  /\ Messages(session) \union dropped \subseteq Messages(session') \union dropped'
         /\ dropped \subseteq dropped'
<1>1. ASSUME NEW s, Save(s)
      PROVE  /\ Messages(session) \union dropped \subseteq Messages(session') \union dropped'
             /\ dropped \subseteq dropped'
  BY <1>1 DEF Save
<1>2. CASE AppendSet(r) \/ UpdateSet(r) \/ CompleteSet(r) \/ Expire
  BY <1>1, <1>2 DEF AppendSet, UpdateSet, CompleteSet, Expire
<1>3. CASE ~ (AppendSet(r) \/ UpdateSet(r) \/ CompleteSet(r) \/ Expire)
  <2>1. session' = session /\ dropped' = dropped
    BY <1>3 DEF Step, Send, AnswerRaises, Answer, WorkerAnswers, UpdateGet, CompleteGet, Read,
       Deliver, Crash
  <2> QED
    BY <2>1
<1> QED
  BY <1>2, <1>3

\* The limit check, on a session that lacks only dropped messages.
LEMMA CheckPermits ==
  ASSUME TypeOK, NEW s \in Session, ~ LimitReached(s),
         NEW k \in 0 .. Cardinality(Recorded), Ranked,
         Upto(k) \subseteq s.messages \union dropped
  PROVE  k + 1 <= MaxTurns + Cardinality(dropped)
<1>1. s.messages \subseteq Replies
  BY DEF Session
<1>2. IsFiniteSet(s.messages) /\ Cardinality(s.messages) \in Nat
  BY <1>1, SessionAssumption, FS_Subset, FS_CardinalityType
<1>3. IsFiniteSet(dropped) /\ Cardinality(dropped) \in Nat
  BY DroppedFinite
<1>4. IsFiniteSet(s.messages \intersect dropped)
  BY <1>2, FS_Subset
<1>5. Cardinality(s.messages \intersect dropped) \in Nat
  BY <1>4, FS_CardinalityType
<1>6. /\ IsFiniteSet(s.messages \union dropped)
      /\ Cardinality(s.messages \union dropped)
           = Cardinality(s.messages) + Cardinality(dropped)
             - Cardinality(s.messages \intersect dropped)
  BY <1>2, <1>3, FS_Union
<1>7. Cardinality(Upto(k)) <= Cardinality(s.messages \union dropped)
  BY <1>6, FS_Subset
<1>8. Cardinality(Upto(k)) = k
  BY DEF Ranked
<1>9. Cardinality(s.messages) < MaxTurns
  BY <1>2, SessionAssumption DEF LimitReached
<1> QED
  BY <1>2, <1>3, <1>5, <1>6, <1>7, <1>8, <1>9, SessionAssumption

\* Every step keeps the invariant.  A SET of a new message gives the next rank, ...
LEMMA AppendKeeps ==
  ASSUME Inv, TypeOK', NEW r \in Replies, AppendSet(r)
  PROVE  Ranked' /\ Covered' /\ CopyCovers'
<1> DEFINE s == [reply[r].copy EXCEPT !.messages = @ \union {r}]
<1>0. /\ TypeOK /\ Fresh /\ Ranked /\ Covered /\ CopyCovers
      /\ reply \in [Replies -> Reply]
  BY DEF Inv, TypeOK
<1>1. PICK n \in Nat : n = Cardinality(Recorded) /\ IsFiniteSet(Recorded)
  BY <1>0, RecordedFinite
<1>2. reply[r].rank = 0 /\ r \notin Recorded
  BY <1>0 DEF AppendSet, At, Fresh, Recorded
<1>3. /\ reply'[r].rank = n + 1 /\ reply'[r].copy = s /\ session' = s
      /\ \A q \in Replies \ {r} : reply'[q] = reply[q]
  BY <1>0, <1>1 DEF AppendSet, Save, Reply
<1>4. Recorded' = Recorded \union {r}
  BY <1>1, <1>2, <1>3 DEF Recorded
<1>5. Cardinality(Recorded)' = n + 1
  BY <1>1, <1>2, <1>4, FS_AddElement
<1>6. \A q \in Replies : reply[q].rank \in Nat /\ reply[q].rank <= n
  BY <1>0, <1>1 DEF Ranked, Reply
<1>7. \A k \in 0 .. n : Upto(k)' = Upto(k)
  BY <1>1, <1>2, <1>3, <1>4, <1>6 DEF Upto, Recorded
<1>8. Upto(n + 1)' = Recorded'
  <2>1. \A q \in Recorded' : reply'[q].rank <= n + 1
    BY <1>1, <1>3, <1>4, <1>6 DEF Recorded
  <2> QED
    BY <2>1 DEF Upto
<1>9. Ranked'
  <2>1. \A q \in Replies : reply'[q].rank <= n + 1
    BY <1>1, <1>3, <1>6
  <2>2. ASSUME NEW k \in 0 .. n + 1 PROVE Cardinality(Upto(k)') = k
    <3>1. CASE k = n + 1
      BY <1>5, <1>8, <3>1
    <3>2. CASE k # n + 1
      <4>1. k \in 0 .. n
        BY <1>1, <3>2
      <4> QED
        BY <1>0, <1>1, <1>7, <4>1 DEF Ranked
    <3> QED
      BY <3>1, <3>2
  <2> QED
    BY <1>5, <2>1, <2>2 DEF Ranked
<1>10. s \in Session /\ r \in s.messages /\ s # None
  <2>1. s \in Session /\ reply[r].copy \in Session
    BY <1>0, SessionsKept DEF AppendSet, At, Working, Steps
  <2> QED
    BY <2>1, SessionAssumption DEF Session
<1>11. Covered'
  <2>1. Messages(session) \union dropped \subseteq Messages(session') \union dropped'
    BY <1>0, StepDrops DEF Step
  <2>2. r \in Messages(session')
    BY <1>3, <1>10 DEF Messages
  <2> QED
    BY <1>0, <1>4, <2>1, <2>2 DEF Covered
<1>12. CopyCovers'
  <2>1. dropped \subseteq dropped'
    BY <1>0, StepDrops DEF Step
  <2>2. Upto(reply[r].rank)' \subseteq (reply[r].copy.messages)' \union dropped'
    <3>1. Messages(session') = s.messages
      BY <1>3, <1>10 DEF Messages
    <3>2. Upto(reply[r].rank)' = Recorded'
      BY <1>3, <1>8
    <3> QED
      BY <1>3, <1>11, <3>1, <3>2 DEF Covered
  <2>3. ASSUME NEW q \in Replies \ {r}, At(q, "answering")'
        PROVE  Upto(reply[q].rank)' \subseteq (reply[q].copy.messages)' \union dropped'
    <3>1. At(q, "answering") /\ reply'[q] = reply[q]
      BY <1>3, <2>3 DEF At
    <3>2. reply[q].rank \in 0 .. n
      BY <1>1, <1>6
    <3>3. Upto(reply[q].rank)' = Upto(reply[q].rank)
      BY <1>7, <3>1, <3>2
    <3> QED
      BY <1>0, <2>1, <3>1, <3>3 DEF CopyCovers
  <2> QED
    BY <2>2, <2>3 DEF CopyCovers
<1> QED
  BY <1>9, <1>11, <1>12

\* ... every other step leaves the ranks alone, ...
LEMMA RanksKept ==
  ASSUME Inv, TypeOK', reply' \in [Replies -> Reply],
         \A q \in Replies : reply'[q].rank = reply[q].rank,
         \A q \in Replies : At(q, "answering")' => reply'[q] = reply[q],
         Messages(session) \union dropped \subseteq Messages(session') \union dropped',
         dropped \subseteq dropped'
  PROVE  Ranked' /\ Covered' /\ CopyCovers'
<1>0. Ranked /\ Covered /\ CopyCovers
  BY DEF Inv
<1>1. Recorded' = Recorded
  BY DEF Recorded
<1>2. \A k : Upto(k)' = Upto(k)
  BY <1>1 DEF Upto, Recorded
<1>3. Ranked'
  BY <1>0, <1>1, <1>2 DEF Ranked
<1>4. Covered'
  BY <1>0, <1>1 DEF Covered
<1>5. CopyCovers'
  <2> SUFFICES ASSUME NEW q \in Replies, At(q, "answering")'
               PROVE  Upto(reply[q].rank)' \subseteq (reply[q].copy.messages)' \union dropped'
    BY DEF CopyCovers
  <2>1. reply'[q] = reply[q] /\ At(q, "answering")
    BY DEF At
  <2>2. Upto(reply[q].rank)' = Upto(reply[q].rank)
    BY <1>2, <2>1
  <2> QED
    BY <1>0, <2>1, <2>2 DEF CopyCovers
<1> QED
  BY <1>3, <1>4, <1>5

\* ... and only a reply that passes the check may ask.
LEMMA StepPermits ==
  ASSUME Inv, TypeOK', NEW r \in Replies, Step(r), Numbered'
  PROVE  Permitted'
<1>0. /\ TypeOK /\ Fresh /\ Numbered /\ Ranked /\ Covered /\ CopyCovers /\ Permitted
      /\ reply \in [Replies -> Reply]
  BY DEF Inv, TypeOK
<1>1. Cardinality(dropped) \in Nat /\ Cardinality(dropped') \in Nat
      /\ Cardinality(dropped) <= Cardinality(dropped')
  <2>1. dropped \subseteq dropped' /\ dropped' \subseteq Replies
    BY <1>0, StepDrops DEF TypeOK
  <2> QED
    BY <1>0, <2>1, SessionAssumption, FS_Subset, FS_CardinalityType DEF TypeOK
<1>2. \A q \in Replies : MayAsk(q)
        => reply[q].rank > 0 /\ reply[q].rank + 1 <= MaxTurns + Cardinality(dropped')
  BY <1>0, <1>1, SessionAssumption DEF Permitted, Reply
<1>3. ASSUME NEW q \in Replies \ {r}, MayAsk(q)'
      PROVE  reply'[q].rank > 0 /\ reply'[q].rank + 1 <= MaxTurns + Cardinality(dropped')
  <2>1. reply'[q] = reply[q]
    BY <1>0, StepKeeps
  <2> QED
    BY <1>2, <1>3, <2>1 DEF MayAsk
<1>4. ASSUME MayAsk(r)'
      PROVE  reply'[r].rank > 0 /\ reply'[r].rank + 1 <= MaxTurns + Cardinality(dropped')
  <2>1. CASE MayAsk(r)
    <3>1. reply'[r].rank = reply[r].rank
      <4>1. ~ AppendSet(r) \/ reply[r].outcome # "ask"
        BY <1>0 DEF AppendSet, At, Fresh
      <4>2. ~ AppendSet(r)
        BY <2>1, <4>1 DEF MayAsk, AppendSet, At
      <4> QED
        BY <1>0, <4>2, StepKeeps
    <3> QED
      BY <1>2, <2>1, <3>1
  <2>2. CASE ~ MayAsk(r)
    <3>1. Answer(r)
      BY <1>0, <1>4, <2>2, StepKeeps
    <3> DEFINE s == IF reply[r].via = "sync" THEN reply[r].copy ELSE session
    <3>2. At(r, "answering") /\ s # None /\ ~ LimitReached(s) /\ reply'[r].rank = reply[r].rank
          /\ dropped' = dropped
      BY <1>0, <1>4, <2>2, <3>1 DEF Answer, MayAsk, Reply
    <3>3. s \in Session
      BY <1>0, <3>2 DEF TypeOK, Reply
    <3>4. reply[r].rank \in 0 .. Cardinality(Recorded) /\ reply[r].rank > 0
      BY <1>0, <3>2, RecordedFinite DEF Ranked, Reply, Numbered, At, Working, Steps
    <3>5. Upto(reply[r].rank) \subseteq s.messages \union dropped
      <4>1. CASE reply[r].via = "sync"
        BY <1>0, <3>2, <4>1 DEF CopyCovers
      <4>2. CASE reply[r].via # "sync"
        BY <1>0, <3>2, <4>2 DEF Covered, Messages, Upto
      <4> QED
        BY <4>1, <4>2
    <3> HIDE DEF s
    <3>6. reply[r].rank + 1 <= MaxTurns + Cardinality(dropped)
      BY <1>0, <3>2, <3>3, <3>4, <3>5, CheckPermits
    <3> QED
      BY <3>2, <3>4, <3>6
  <2> QED
    BY <2>1, <2>2
<1> QED
  BY <1>3, <1>4 DEF Permitted

LEMMA StepNumbers ==
  ASSUME Inv, NEW r \in Replies, Step(r)
  PROVE  Numbered'
<1>0. /\ TypeOK /\ Fresh /\ Numbered /\ reply \in [Replies -> Reply]
  BY DEF Inv, TypeOK
<1>1. \A q \in Replies \ {r} : reply'[q] = reply[q]
  BY <1>0, StepKeeps
<1>2. CASE AppendSet(r)
  <2>1. reply'[r].rank > 0
    BY <1>0, <1>2, RecordedFinite DEF AppendSet, Reply
  <2> QED
    BY <1>0, <1>1, <2>1 DEF Numbered
<1>3. CASE \E via \in Routes : Send(r, via)
  <2>1. reply'[r].step \in {"append_set", "over"}
    BY <1>0, <1>3 DEF Send, Reply
  <2> QED
    BY <1>0, <1>1, <2>1 DEF Numbered, Working
<1>4. CASE ~ AppendSet(r) /\ ~ \E via \in Routes : Send(r, via)
  <2>1. reply'[r].rank = reply[r].rank
    BY <1>0, <1>4, StepKeeps
  <2>2. reply'[r].step = "over" \/ reply[r].step \in Working \ {"append_set"}
    BY <1>0, <1>4 DEF Step, AnswerRaises, Answer, WorkerAnswers, UpdateGet, UpdateSet,
       CompleteGet, CompleteSet, Deliver, Crash, At, Reply, Working, Steps
  <2> QED
    BY <1>0, <1>1, <2>1, <2>2 DEF Numbered, Working
<1> QED
  BY <1>2, <1>3, <1>4

LEMMA NextKeeps ==
  ASSUME Inv, [Next]_vars
  PROVE  Inv'
<1>0. TypeOK /\ Fresh /\ FinalCloses /\ TypeOK'
  BY NextType DEF Inv
<1>1. ASSUME NEW r \in Replies, Step(r) PROVE Inv'
  <2>1. Fresh' /\ FinalCloses' /\ Numbered'
    BY <1>0, <1>1, StepKeeps, StepCloses, StepNumbers
  <2>2. Permitted'
    BY <1>0, <1>1, <2>1, StepPermits
  <2>3. Ranked' /\ Covered' /\ CopyCovers'
    <3>1. CASE AppendSet(r)
      BY <1>0, <3>1, AppendKeeps
    <3>2. CASE ~ AppendSet(r)
      <4>1. \A q \in Replies : reply'[q].rank = reply[q].rank
        BY <1>0, <1>1, <3>2, StepKeeps
      <4>2. \A q \in Replies : At(q, "answering")' => reply'[q] = reply[q]
        BY <1>0, <1>1, <3>2, StepKeeps
      <4> QED
        BY <1>0, <1>1, <4>1, <4>2, StepDrops, RanksKept DEF TypeOK
    <3> QED
      BY <3>1, <3>2
  <2> QED
    BY <1>0, <2>1, <2>2, <2>3 DEF Inv
<1>2. CASE Expire
  <2>1. reply' = reply /\ Save(None) /\ UNCHANGED <<shown, muddled>>
    BY <1>2 DEF Expire
  <2>2. Fresh' /\ Numbered'
    BY <2>1 DEF Inv, Fresh, Numbered
  <2>3. FinalCloses'
    BY <1>0, <2>1, SaveCloses DEF FinalCloses
  <2>4. Messages(session) \union dropped \subseteq Messages(session') \union dropped'
        /\ dropped \subseteq dropped'
    BY <2>1 DEF Save
  <2>5. Ranked' /\ Covered' /\ CopyCovers'
    BY <1>0, <2>1, <2>4, RanksKept DEF TypeOK
  <2>6. Permitted'
    <3>1. Cardinality(dropped) \in Nat /\ Cardinality(dropped') \in Nat
          /\ Cardinality(dropped) <= Cardinality(dropped')
      BY <1>0, <2>4, SessionAssumption, FS_Subset, FS_CardinalityType DEF TypeOK
    <3> QED
      BY <1>0, <2>1, <3>1, SessionAssumption DEF Inv, Permitted, MayAsk, TypeOK, Reply
  <2> QED
    BY <1>0, <2>2, <2>3, <2>5, <2>6 DEF Inv
<1>3. CASE UNCHANGED vars
  BY <1>0, <1>3 DEF vars, Inv, Fresh, FinalCloses, Numbered, Ranked, Covered, CopyCovers,
     Permitted, MayAsk, At, Upto, Recorded
<1> QED
  BY <1>1, <1>2, <1>3 DEF Next

LEMMA InitInv == Init => Inv
<1> SUFFICES ASSUME Init PROVE Inv
  OBVIOUS
<1>1. TypeOK
  BY InitType
<1>2. \A r \in Replies : reply[r].step = "idle" /\ reply[r].rank = 0 /\ reply[r].outcome = "none"
  BY DEF Init
<1>3. Recorded = {} /\ Cardinality(Recorded) = 0 /\ \A k : Upto(k) = {}
  BY <1>2, FS_EmptySet DEF Recorded, Upto
<1>4. Ranked
  BY <1>2, <1>3 DEF Ranked
<1> QED
  BY <1>1, <1>2, <1>3, <1>4 DEF Inv, Fresh, FinalCloses, Numbered, Covered, CopyCovers,
     Permitted, MayAsk, At, Working

\* A session whose user was given a final answer is completed, unless an older
\* copy was saved over it (reply and complete_job_session).
THEOREM FinalAnswersClose == Spec => []FinalCloses
<1>1. Inv => FinalCloses
  BY DEF Inv
<1> QED
  BY <1>1, InitInv, NextKeeps, PTL DEF Spec

\* The early replies are few.
LEMMA FewAsk ==
  ASSUME Inv
  PROVE  LimitHolds
<1>0. TypeOK /\ Fresh /\ Ranked /\ Permitted
  BY DEF Inv
<1> DEFINE n == Cardinality(Recorded)
           m == MaxTurns + Cardinality(dropped) - 1
<1>1. n \in Nat /\ IsFiniteSet(Recorded) /\ m \in Nat
  BY <1>0, RecordedFinite, DroppedFinite, SessionAssumption
<1>2. Asked \subseteq Recorded /\ \A r \in Asked : reply[r].rank <= m
  <2>1. Cardinality(dropped) \in Nat
    BY <1>0, DroppedFinite
  <2> QED
    BY <1>0, <2>1, SessionAssumption DEF Permitted, MayAsk, Asked, Recorded, TypeOK, Reply
<1>3. Cardinality(Asked) \in Nat /\ Cardinality(Asked) <= m
  <2>1. CASE m <= n
    <3>1. Asked \subseteq Upto(m) /\ IsFiniteSet(Upto(m))
      BY <1>1, <1>2, FS_Subset DEF Upto
    <3>2. Cardinality(Upto(m)) = m
      BY <1>0, <1>1, <2>1 DEF Ranked
    <3> QED
      BY <3>1, <3>2, FS_Subset, FS_CardinalityType
  <2>2. CASE n < m
    <3>1. Cardinality(Asked) \in Nat /\ Cardinality(Asked) <= n
      BY <1>1, <1>2, FS_Subset, FS_CardinalityType
    <3> QED
      BY <1>1, <2>2, <3>1
  <2> QED
    BY <1>1, <2>1, <2>2
<1>4. Cardinality(dropped) \in Nat
  BY <1>0, DroppedFinite
<1> QED
  BY <1>3, <1>4, SessionAssumption DEF LimitHolds

\* The user is asked again fewer than MAX_CHECKPOINT_REPLY_TURNS times, and once
\* more for each message that overlapping replies overwrote.
THEOREM TurnsLimited == Spec => []LimitHolds
BY InitInv, NextKeeps, FewAsk, PTL DEF Spec

-----------------------------------------------------------------------------
\* Replies sent one after the other: one is under way at most, and every copy
\* of the session has the question the client shows, but for the moment in
\* which a new question travels to the client.
Asking(r) == At(r, "deliver") /\ reply[r].outcome = "ask"

Calm ==
  /\ \A q, r \in Replies : UnderWay(q) /\ UnderWay(r) => q = r
  /\ \A r \in Replies : UnderWay(r) /\ ~ Asking(r) => reply[r].copy.kind = shown
  /\ \A r \in Replies : Asking(r) /\ session # None => session.kind = reply[r].copy.kind
  /\ (\A r \in Replies : ~ Asking(r)) /\ session # None => session.kind = shown
  /\ \A r \in Unread : reply[r].via = "queue"

CalmInv == ~ muddled => Calm

LEMMA StepCalm ==
  ASSUME TypeOK, TypeOK', Fresh, Calm, ~ muddled', NEW r \in Replies, Step(r)
  PROVE  Calm'
<1> USE SessionAssumption
<1>0. /\ reply \in [Replies -> Reply] /\ reply' \in [Replies -> Reply]
      /\ \A q \in Replies \ {r} : reply'[q] = reply[q]
      /\ At(r, "idle") \/ reply'[r].via = reply[r].via
  BY StepKeeps DEF TypeOK
\* Who is not r rests, when r is under way or was let start.
<1>1. \A q \in Replies \ {r} : ~ UnderWay(q)
  <2>1. CASE UnderWay(r)
    BY <2>1 DEF Calm
  <2>2. CASE ~ UnderWay(r)
    BY <2>2 DEF Step, Send, AppendSet, AnswerRaises, Answer, WorkerAnswers, UpdateGet, UpdateSet,
       CompleteGet, CompleteSet, Deliver, Crash, UnderWay, At
  <2> QED
    BY <2>1, <2>2
<1>2. \A q \in Replies \ {r} : ~ UnderWay(q)' /\ ~ Asking(q)' /\ ~ Asking(q)
  BY <1>0, <1>1 DEF UnderWay, Asking, At
\* So the invariant is about r alone.
<1>3. SUFFICES /\ UnderWay(r)' /\ ~ Asking(r)' => reply'[r].copy.kind = shown'
               /\ Asking(r)' /\ session' # None => session'.kind = reply'[r].copy.kind
               /\ ~ Asking(r)' /\ session' # None => session'.kind = shown'
               /\ reply'[r].used = reply'[r].met \/ reply'[r].via = "queue"
  BY <1>0, <1>2 DEF Calm, Unread
<1>4. /\ ~ Asking(r) /\ session # None => session.kind = shown
      /\ Asking(r) /\ session # None => session.kind = reply[r].copy.kind
      /\ UnderWay(r) /\ ~ Asking(r) => reply[r].copy.kind = shown
      /\ reply[r].used = reply[r].met \/ reply[r].via = "queue"
  BY <1>2 DEF Calm, Unread
<1>5. ASSUME NEW via \in Routes, Send(r, via)
      PROVE  /\ ~ Asking(r) /\ ~ Asking(r)' /\ session' = session /\ shown' = shown
             /\ reply'[r].copy = session /\ reply'[r].met = shown
             /\ reply'[r].used = IF session = None THEN shown ELSE session.kind
             /\ session = None => ~ UnderWay(r)'
  BY <1>0, <1>5 DEF Send, Asking, At, UnderWay, Reply
<1>6. CASE \E via \in Routes : Send(r, via)
  BY <1>4, <1>5, <1>6
<1>7. CASE ~ \E via \in Routes : Send(r, via)
  <2>1. UnderWay(r) /\ reply[r].copy \in Session
    BY <1>0, <1>7, SessionsKept DEF Step, AppendSet, AnswerRaises, Answer, WorkerAnswers,
       UpdateGet, UpdateSet, CompleteGet, CompleteSet, Deliver, Crash, UnderWay, At, Working,
       TypeOK, Reply
  <2>2. CASE AppendSet(r)
    <3>1. /\ ~ Asking(r) /\ ~ Asking(r)' /\ session' = reply'[r].copy /\ shown' = shown
          /\ session'.kind = reply[r].copy.kind
          /\ reply'[r].used = reply[r].used /\ reply'[r].met = reply[r].met
      BY <1>0, <2>1, <2>2 DEF AppendSet, Save, Asking, At, Reply, Session
    <3> QED
      BY <1>0, <1>4, <2>1, <3>1 DEF UnderWay, At
  <2>3. CASE UpdateSet(r)
    <3>1. session' = reply'[r].copy /\ Asking(r)'
          /\ reply'[r].used = reply[r].used /\ reply'[r].met = reply[r].met
      BY <1>0, <2>3 DEF UpdateSet, Asking, At, Reply
    <3> QED
      BY <1>0, <1>4, <2>3, <3>1 DEF UpdateSet, At
  <2>4. CASE CompleteSet(r)
    <3>1. /\ ~ Asking(r) /\ ~ Asking(r)' /\ reply'[r].copy = reply[r].copy /\ shown' = shown
          /\ session'.kind = reply[r].copy.kind
          /\ reply'[r].used = reply[r].used /\ reply'[r].met = reply[r].met
      BY <1>0, <2>1, <2>4 DEF CompleteSet, Save, Asking, At, Reply, Session
    <3> QED
      BY <1>0, <1>4, <2>1, <2>4, <3>1 DEF CompleteSet, At
  <2>5. CASE UpdateGet(r) \/ CompleteGet(r)
    <3>1. /\ ~ Asking(r) /\ ~ Asking(r)' /\ session' = session /\ shown' = shown
          /\ reply'[r].copy = session /\ (session = None => ~ UnderWay(r)')
          /\ reply'[r].used = reply[r].used /\ reply'[r].met = reply[r].met
          /\ ~ At(r, "idle")
      BY <1>0, <2>5 DEF UpdateGet, CompleteGet, Read, Asking, At, UnderWay, Reply
    <3> QED
      BY <1>0, <1>4, <3>1
  <2>6. CASE Answer(r)
    <3> DEFINE s == IF reply[r].via = "sync" THEN reply[r].copy ELSE session
    <3>1. PICK asks \in BOOLEAN :
            reply' = [reply EXCEPT ![r].copy = s,
                                   ![r].step = IF s = None THEN "over"
                                               ELSE IF asks /\ ~LimitReached(s) THEN "update_get"
                                               ELSE "complete_get"]
      BY <2>6 DEF Answer
    <3>2. ~ Asking(r) /\ ~ At(r, "idle") /\ session' = session /\ shown' = shown
      BY <2>6 DEF Answer, Asking, At
    <3>3. s # None => s.kind = shown
      BY <1>4, <2>1, <3>2
    <3> HIDE DEF s
    <3>4. /\ reply'[r].copy = s /\ (s = None => ~ UnderWay(r)') /\ ~ Asking(r)'
          /\ reply'[r].used = reply[r].used /\ reply'[r].met = reply[r].met
      BY <1>0, <3>1 DEF Asking, At, UnderWay, Reply
    <3> QED
      BY <1>0, <1>4, <3>2, <3>3, <3>4
  <2>7. CASE WorkerAnswers(r)
    <3>1. /\ ~ Asking(r) /\ ~ Asking(r)' /\ session' = session /\ shown' = shown
          /\ reply'[r].copy = reply[r].copy /\ reply'[r].via = "queue"
      BY <1>0, <2>7 DEF WorkerAnswers, Asking, At, Reply
    <3> QED
      BY <1>4, <2>1, <3>1
  <2>8. CASE Deliver(r)
    <3>1. /\ ~ Asking(r)' /\ ~ UnderWay(r)' /\ session' = session /\ ~ At(r, "idle")
          /\ reply'[r].used = reply[r].used /\ reply'[r].met = reply[r].met
          /\ shown' = IF Asking(r) THEN reply[r].copy.kind ELSE shown
      BY <1>0, <2>8 DEF Deliver, Asking, At, UnderWay, Reply
    <3> QED
      BY <1>0, <1>4, <3>1
  <2>9. CASE AnswerRaises(r) \/ Crash(r)
    <3>0. ~ Asking(r)
      <4>1. CASE AnswerRaises(r)
        BY <4>1 DEF AnswerRaises, Asking, At
      <4>2. CASE Crash(r)
        <5>1. muddled' = (muddled \/ Asking(r))
          BY <4>2 DEF Crash, Asking
        <5> QED
          BY <5>1
      <4> QED
        BY <2>9, <4>1, <4>2
    <3>1. /\ ~ Asking(r)' /\ ~ UnderWay(r)' /\ session' = session
          /\ shown' = shown /\ ~ At(r, "idle")
          /\ reply'[r].used = reply[r].used /\ reply'[r].met = reply[r].met
      BY <1>0, <2>9 DEF AnswerRaises, Crash, Asking, At, UnderWay, Reply
    <3> QED
      BY <1>0, <1>4, <3>0, <3>1
  <2> QED
    BY <1>7, <2>2, <2>3, <2>4, <2>5, <2>6, <2>7, <2>8, <2>9 DEF Step
<1> QED
  BY <1>6, <1>7

LEMMA NextCalm ==
  ASSUME Inv, CalmInv, [Next]_vars
  PROVE  CalmInv'
<1>0. TypeOK /\ TypeOK' /\ Fresh
  BY NextType DEF Inv
<1>1. ASSUME NEW r \in Replies, Step(r) PROVE CalmInv'
  <2>1. muddled => muddled'
    BY <1>0, <1>1 DEF Step, Send, AppendSet, AnswerRaises, Answer, WorkerAnswers, UpdateGet,
       UpdateSet, CompleteGet, CompleteSet, Read, Deliver, Crash, TypeOK
  <2> QED
    BY <1>0, <1>1, <2>1, StepCalm DEF CalmInv
<1>2. CASE Expire
  BY <1>2 DEF Expire, Save, CalmInv, Calm, Asking, UnderWay, At, Unread
<1>3. CASE UNCHANGED vars
  BY <1>3 DEF vars, CalmInv, Calm, Asking, UnderWay, At, Unread
<1> QED
  BY <1>1, <1>2, <1>3 DEF Next

LEMMA InitCalm == Init => CalmInv
BY DEF Init, CalmInv, Calm, Asking, UnderWay, At, Unread

\* Replies sent one after the other are read as answers to the question their
\* sender saw (append_reply, update_pending), except by the queue's worker.
THEOREM RepliesMeetQuestion == Spec => []MeetsQuestion
<1>1. CalmInv => MeetsQuestion
  BY DEF CalmInv, Calm, MeetsQuestion
<1> QED
  BY <1>1, InitInv, InitCalm, NextKeeps, NextCalm, PTL DEF Spec

=============================================================================
