--------------------------- MODULE TravelJobProofs --------------------------
(***************************************************************************)
(* Proofs about TravelJobQueue and TravelJobSystem, for every set of jobs,  *)
(* workers, observers and lease ids and every attempt limit.  First the     *)
(* queue by itself: TypeOK, NoJobLost, RetryBudget, OneWorkerPerJob and     *)
(* DuplicationBound are invariants of Spec.  Then the job path over it,     *)
(* whose steps are steps of the queue or the end of a worker.              *)
(***************************************************************************)
EXTENDS TravelJobSystem, SequenceTheorems, FiniteSetTheorems, TLAPS

-----------------------------------------------------------------------------
(* What the three kinds of step on the ready list do to its entries.        *)

\* RPUSH keeps every entry in place and adds one.
LEMMA PushFacts ==
  ASSUME NEW S, NEW s \in Seq(S), NEW x \in S
  PROVE  /\ Append(s, x) \in Seq(S)
         /\ DOMAIN Append(s, x) = DOMAIN s \union {Len(s) + 1}
         /\ Len(s) + 1 \notin DOMAIN s
         /\ \A i \in DOMAIN s : Append(s, x)[i] = s[i]
         /\ Append(s, x)[Len(s) + 1] = x
  <1>1. /\ Append(s, x) \in Seq(S)
        /\ Len(Append(s, x)) = Len(s) + 1
        /\ \A i \in 1 .. Len(s) : Append(s, x)[i] = s[i]
        /\ Append(s, x)[Len(s) + 1] = x
    BY AppendProperties
  <1>2. /\ Len(s) \in Nat /\ DOMAIN s = 1 .. Len(s)
        /\ DOMAIN Append(s, x) = 1 .. Len(s) + 1
    BY <1>1, LenProperties
  <1>. QED  BY <1>1, <1>2

\* BLPOP removes the head: every entry that is left was further back before.
LEMMA PopFacts ==
  ASSUME NEW S, NEW s \in Seq(S), s # << >>
  PROVE  /\ Head(s) \in S /\ Tail(s) \in Seq(S)
         /\ 1 \in DOMAIN s /\ Head(s) = s[1]
         /\ \A i \in DOMAIN Tail(s) : i + 1 \in DOMAIN s /\ i + 1 # 1 /\ Tail(s)[i] = s[i + 1]
         /\ \A i \in DOMAIN s : i # 1 => i - 1 \in DOMAIN Tail(s) /\ Tail(s)[i - 1] = s[i]
  <1>1. /\ Head(s) \in S /\ Tail(s) \in Seq(S) /\ Len(Tail(s)) = Len(s) - 1
        /\ \A i \in 1 .. Len(Tail(s)) : Tail(s)[i] = s[i + 1]
    BY HeadTailProperties
  <1>2. /\ Len(s) \in Nat \ {0} /\ DOMAIN s = 1 .. Len(s)
        /\ DOMAIN Tail(s) = 1 .. Len(s) - 1
    BY <1>1, LenProperties, EmptySeq
  <1>3. Head(s) = s[1]
    OBVIOUS
  <1>. QED  BY <1>1, <1>2, <1>3

\* A backoff that ends changes one entry, and in it only whether it is due.
LEMMA DueFacts ==
  ASSUME NEW s \in Seq(Item), NEW i \in DOMAIN s
  PROVE  LET t == [s EXCEPT ![i].due = TRUE]
         IN  /\ t \in Seq(Item) /\ DOMAIN t = DOMAIN s
             /\ \A k \in DOMAIN s : t[k].job = s[k].job /\ t[k].attempt = s[k].attempt
  <1>. DEFINE e == [s[i] EXCEPT !.due = TRUE]
  <1>1. DOMAIN s = 1 .. Len(s)
    BY LenProperties
  <1>2. s[i] \in Item
    BY <1>1, ElementOfSeq
  <1>3. e \in Item /\ e.job = s[i].job /\ e.attempt = s[i].attempt
    BY <1>2 DEF Item
  <1>4. /\ [s EXCEPT ![i] = e] \in Seq(Item)
        /\ \A k \in 1 .. Len(s) : [s EXCEPT ![i] = e][k] = IF k = i THEN e ELSE s[k]
    BY <1>1, <1>3, ExceptSeq
  <1>. QED  BY <1>1, <1>3, <1>4

LEMMA EntryIsItem ==
  ASSUME NEW s \in Seq(Item), NEW i \in DOMAIN s
  PROVE  s[i] \in Item
  BY LenProperties, ElementOfSeq

\* A delivery counts one attempt and keeps the job.
LEMMA DeliveredFacts ==
  ASSUME NEW x \in Item
  PROVE  /\ Delivered(x) \in Item
         /\ Delivered(x).job = x.job /\ Delivered(x).attempt = x.attempt + 1
  BY DEF Delivered, Item

-----------------------------------------------------------------------------
(* Type correctness.                                                       *)

\* What each step of a caller relies on: it is a caller, and what it holds.
LEMMA HeldTypes ==
  ASSUME TypeOK, NEW c \in Callers
  PROVE  /\ pc[c] \in LossWindow \union {"holding", "recover_del"} => item[c] \in Item
         /\ pc[c] \in {"recover_drop", "recover_del", "recover_unindex", "index",
                       "holding", "ack_unindex", "fail_unindex"} => lease[c] \in LeaseIds
  BY DEF TypeOK, HasItem, HasLease

LEMMA TypeEnqueue ==
  ASSUME TypeOK, NEW j \in Jobs, Enqueue(j)
  PROVE  TypeOK'
  <1>. DEFINE x == [job |-> j, attempt |-> 0, due |-> TRUE]
  <1>1. x \in Item
    BY DEF Item
  <1>2. Append(ready, x) \in Seq(Item)
    BY <1>1, PushFacts DEF TypeOK
  <1>. QED  BY <1>2 DEF TypeOK, Enqueue, local, HasItem, HasLease

LEMMA TypeRecover ==
  ASSUME QueueAssumption, TypeOK, NEW c \in Callers, Recover(c)
  PROVE  TypeOK'
  <1>. USE DEF Goto, Take, Finish, redis, local, history,
               HasItem, HasLease, LossWindow, InMemoryOnly, PCs, RecoverPCs
  <1>1. CASE Scan(c)
    BY <1>1 DEF Scan, AfterRecovery, TypeOK
  <1>2. CASE RecoverGet(c)
    BY <1>2 DEF RecoverGet, TypeOK
  <1>3. CASE RecoverDrop(c)
    BY <1>3 DEF RecoverDrop, NextKey, AfterRecovery, TypeOK
  <1>4. CASE RecoverDelete(c)
    BY <1>4 DEF RecoverDelete, TypeOK
  <1>5. CASE RecoverUnindex(c)
    BY <1>5 DEF RecoverUnindex, TypeOK
  <1>6. CASE RecoverPush(c)
    BY <1>6, HeldTypes, PushFacts DEF RecoverPush, NextKey, AfterRecovery, TypeOK
  <1>. QED  BY <1>1, <1>2, <1>3, <1>4, <1>5, <1>6 DEF Recover

LEMMA TypeDequeue ==
  ASSUME QueueAssumption, TypeOK, NEW w \in Workers, Dequeue(w)
  PROVE  TypeOK'
  <1>. USE DEF Goto, Take, Finish, redis, local, history,
               HasItem, HasLease, LossWindow, InMemoryOnly, PCs, RecoverPCs
  <1>. w \in Callers
    BY DEF Callers
  <1>1. CASE Pop(w)
    <2>1. Head(ready) \in Item /\ Tail(ready) \in Seq(Item)
      BY <1>1, PopFacts DEF Pop, TypeOK
    <2>. QED  BY <1>1, <2>1 DEF Pop, TypeOK
  <1>2. CASE PopTimeout(w)
    BY <1>2 DEF PopTimeout, TypeOK
  <1>3. CASE PutBack(w)
    BY <1>3, HeldTypes, PushFacts DEF PutBack, TypeOK
  <1>4. CASE WriteLease(w)
    <2>1. Delivered(item[w]) \in Item
      BY <1>4, HeldTypes, DeliveredFacts DEF WriteLease
    <2>2. PICK l \in LeaseIds :
            /\ leased' = [leased EXCEPT ![l] = Delivered(item[w])]
            /\ overdue' = overdue \ {l}
            /\ Take(w, Delivered(item[w]), l)
      BY <1>4 DEF WriteLease
    <2>. QED  BY <1>4, <2>1, <2>2 DEF WriteLease, TypeOK
  <1>5. CASE IndexLease(w)
    BY <1>5 DEF IndexLease, TypeOK
  <1>. QED  BY <1>1, <1>2, <1>3, <1>4, <1>5 DEF Dequeue

LEMMA TypeAck ==
  ASSUME QueueAssumption, TypeOK, NEW w \in Workers, Ack(w)
  PROVE  TypeOK'
  <1>. USE DEF Goto, Take, Finish, redis, local, history,
               HasItem, HasLease, LossWindow, InMemoryOnly, PCs, RecoverPCs
  <1>. w \in Callers
    BY DEF Callers
  <1>1. CASE AckDelete(w)
    <2>1. item[w].job \in Jobs
      BY <1>1, HeldTypes DEF AckDelete, Item
    <2>. QED  BY <1>1, <2>1 DEF AckDelete, TypeOK
  <1>2. CASE AckUnindex(w)
    BY <1>2 DEF AckUnindex, TypeOK
  <1>. QED  BY <1>1, <1>2 DEF Ack

LEMMA TypeFail ==
  ASSUME QueueAssumption, TypeOK, NEW w \in Workers, Fail(w)
  PROVE  TypeOK'
  <1>. USE DEF Goto, Take, Finish, redis, local, history,
               HasItem, HasLease, LossWindow, InMemoryOnly, PCs, RecoverPCs
  <1>. w \in Callers
    BY DEF Callers
  <1>1. CASE FailDelete(w)
    BY <1>1 DEF FailDelete, TypeOK
  <1>2. CASE FailUnindex(w)
    BY <1>2 DEF FailUnindex, TypeOK
  <1>3. CASE FailPush(w)
    <2>. DEFINE x == [item[w] EXCEPT !.due = FALSE]
    <2>1. item[w] \in Item /\ x \in Item
      BY <1>3, HeldTypes DEF FailPush, Item
    <2>2. Append(ready, x) \in Seq(Item)
      BY <2>1, PushFacts DEF TypeOK
    <2>. QED  BY <1>3, <2>1, <2>2 DEF FailPush, TypeOK
  <1>. QED  BY <1>1, <1>2, <1>3 DEF Fail

LEMMA TypeTime ==
  ASSUME TypeOK, Time
  PROVE  TypeOK'
  <1>. USE DEF redis, local, history, HasItem, HasLease
  <1>1. CASE \E i \in DOMAIN ready : BackoffElapses(i)
    BY <1>1, DueFacts DEF BackoffElapses, TypeOK
  <1>2. CASE \E l \in LeaseIds : LeaseLapses(l)
    BY <1>2 DEF LeaseLapses, TypeOK, Item
  <1>3. CASE \E l \in LeaseIds : StaleKeyLapses(l)
    BY <1>3 DEF StaleKeyLapses, TypeOK
  <1>. QED  BY <1>1, <1>2, <1>3 DEF Time

LEMMA TypeCrash ==
  ASSUME TypeOK, NEW c \in Callers, Crash(c)
  PROVE  TypeOK'
  <1>1. pc[c] \in LossWindow => item[c].job \in Jobs
    BY HeldTypes DEF Item
  <1>. QED  BY <1>1 DEF Crash, Goto, Take, Finish, redis, TypeOK, HasItem, HasLease,
                        LossWindow, InMemoryOnly, PCs, RecoverPCs

LEMMA TypeStep ==
  ASSUME QueueAssumption, TypeOK, [Next]_vars
  PROVE  TypeOK'
  <1>1. CASE \E j \in Jobs : Enqueue(j)
    BY <1>1, TypeEnqueue
  <1>2. CASE \E c \in Callers : Recover(c)
    BY <1>2, TypeRecover
  <1>3. CASE \E w \in Workers : Dequeue(w) \/ Ack(w) \/ Fail(w)
    BY <1>3, TypeDequeue, TypeAck, TypeFail
  <1>4. CASE Time
    BY <1>4, TypeTime
  <1>5. CASE \E c \in Callers : Crash(c)
    BY <1>5, TypeCrash
  <1>6. CASE UNCHANGED vars
    BY <1>6 DEF vars, TypeOK, HasItem, HasLease
  <1>. QED  BY <1>1, <1>2, <1>3, <1>4, <1>5, <1>6 DEF Next, Worker, Callers

LEMMA TypeInit ==
  ASSUME Init
  PROVE  TypeOK
  BY EmptySeq DEF Init, TypeOK, HasItem, HasLease, LossWindow, InMemoryOnly, PCs, RecoverPCs

\* Type correctness of the queue and of what every process holds in memory.
THEOREM TypeCorrect == Spec => []TypeOK
  <1>1. Init => TypeOK
    BY TypeInit
  <1>2. TypeOK /\ [Next]_vars => TypeOK'
    BY QueueAssumption, TypeStep
  <1>. QED  BY <1>1, <1>2, PTL DEF Spec

-----------------------------------------------------------------------------
(* No job is lost.  What a process believes about its lease must agree with *)
(* the hash: the entry under its lease id is its own item or gone, and gone *)
(* for good once the process is about to remove the index entry.  Without   *)
(* that, removing an index entry could hide a lease that still counts.      *)

LeaseAgrees ==
  \A c \in Callers :
    /\ pc[c] \in {"index", "holding", "recover_del"} =>
         leased[lease[c]] \in {NoItem, item[c]}
    /\ pc[c] \in {"recover_drop", "recover_unindex", "ack_unindex", "fail_unindex"} =>
         leased[lease[c]] = NoItem

LEMMA LeaseAgreesStep ==
  ASSUME QueueAssumption, TypeOK, LeaseAgrees, [Next]_vars
  PROVE  LeaseAgrees'
  <1>. USE DEF Goto, Take, Finish, redis, local, history
  <1>1. ASSUME NEW j \in Jobs, Enqueue(j)  PROVE LeaseAgrees'
    BY <1>1 DEF Enqueue, LeaseAgrees
  <1>2. ASSUME NEW c \in Callers, Recover(c)  PROVE LeaseAgrees'
    <2>1. CASE Scan(c)
      BY <2>1 DEF Scan, AfterRecovery, LeaseAgrees, TypeOK
    <2>2. CASE RecoverGet(c)
      BY <2>2 DEF RecoverGet, LeaseAgrees, TypeOK
    <2>3. CASE RecoverDrop(c)
      BY <2>3 DEF RecoverDrop, NextKey, AfterRecovery, LeaseAgrees, TypeOK
    <2>4. CASE RecoverDelete(c)
      BY <2>4, HeldTypes DEF RecoverDelete, LeaseAgrees, TypeOK
    <2>5. CASE RecoverUnindex(c)
      BY <2>5 DEF RecoverUnindex, LeaseAgrees, TypeOK
    <2>6. CASE RecoverPush(c)
      BY <2>6 DEF RecoverPush, NextKey, AfterRecovery, LeaseAgrees, TypeOK
    <2>. QED  BY <1>2, <2>1, <2>2, <2>3, <2>4, <2>5, <2>6 DEF Recover
  <1>3. ASSUME NEW w \in Workers, Dequeue(w)  PROVE LeaseAgrees'
    <2>. w \in Callers
      BY DEF Callers
    <2>1. CASE Pop(w)
      BY <2>1 DEF Pop, LeaseAgrees, TypeOK
    <2>2. CASE PopTimeout(w)
      BY <2>2 DEF PopTimeout, LeaseAgrees, TypeOK
    <2>3. CASE PutBack(w)
      BY <2>3 DEF PutBack, LeaseAgrees, TypeOK
    <2>4. CASE WriteLease(w)
      <3>1. PICK l \in LeaseIds :
              /\ Unused(l)
              /\ leased' = [leased EXCEPT ![l] = Delivered(item[w])]
              /\ Take(w, Delivered(item[w]), l)
        BY <2>4 DEF WriteLease
      <3>2. pc' = [pc EXCEPT ![w] = "index"]
        BY <2>4 DEF WriteLease
      <3>. QED  BY <3>1, <3>2 DEF Unused, LeaseAgrees, TypeOK
    <2>5. CASE IndexLease(w)
      BY <2>5 DEF IndexLease, LeaseAgrees, TypeOK
    <2>. QED  BY <1>3, <2>1, <2>2, <2>3, <2>4, <2>5 DEF Dequeue
  <1>4. ASSUME NEW w \in Workers, Ack(w)  PROVE LeaseAgrees'
    <2>. w \in Callers
      BY DEF Callers
    <2>1. CASE AckDelete(w)
      BY <2>1, HeldTypes DEF AckDelete, LeaseAgrees, TypeOK
    <2>2. CASE AckUnindex(w)
      BY <2>2 DEF AckUnindex, LeaseAgrees, TypeOK
    <2>. QED  BY <1>4, <2>1, <2>2 DEF Ack
  <1>5. ASSUME NEW w \in Workers, Fail(w)  PROVE LeaseAgrees'
    <2>. w \in Callers
      BY DEF Callers
    <2>1. CASE FailDelete(w)
      BY <2>1, HeldTypes DEF FailDelete, LeaseAgrees, TypeOK
    <2>2. CASE FailUnindex(w)
      BY <2>2 DEF FailUnindex, LeaseAgrees, TypeOK
    <2>3. CASE FailPush(w)
      BY <2>3 DEF FailPush, LeaseAgrees, TypeOK
    <2>. QED  BY <1>5, <2>1, <2>2, <2>3 DEF Fail
  <1>6. ASSUME Time  PROVE LeaseAgrees'
    BY <1>6 DEF Time, BackoffElapses, LeaseLapses, StaleKeyLapses, LeaseAgrees
  <1>7. ASSUME NEW c \in Callers, Crash(c)  PROVE LeaseAgrees'
    BY <1>7 DEF Crash, LeaseAgrees, TypeOK
  <1>8. ASSUME UNCHANGED vars  PROVE LeaseAgrees'
    BY <1>8 DEF vars, LeaseAgrees
  <1>. QED  BY <1>1, <1>2, <1>3, <1>4, <1>5, <1>6, <1>7, <1>8 DEF Next, Worker, Callers

\* The disjuncts of [Next]_vars, one per Redis command or event.
LEMMA StepCases ==
  ASSUME [Next]_vars
  PROVE  \/ \E j \in Jobs : Enqueue(j)
         \/ \E c \in Callers : \/ Scan(c) \/ RecoverGet(c) \/ RecoverDrop(c)
                               \/ RecoverDelete(c) \/ RecoverUnindex(c) \/ RecoverPush(c)
         \/ \E c \in Workers : \/ Pop(c) \/ PopTimeout(c) \/ PutBack(c)
                               \/ WriteLease(c) \/ IndexLease(c)
                               \/ AckDelete(c) \/ AckUnindex(c)
                               \/ FailDelete(c) \/ FailUnindex(c) \/ FailPush(c)
         \/ \E i \in DOMAIN ready : BackoffElapses(i)
         \/ \E l \in LeaseIds : LeaseLapses(l) \/ StaleKeyLapses(l)
         \/ \E c \in Callers : Crash(c)
         \/ UNCHANGED vars
  BY DEF Next, Worker, Recover, Dequeue, Ack, Fail, Time, Callers

\* Where NoJobLost allows an enqueued job to be.
Kept(j) ==
  \/ j \in acked \/ j \in lost
  \/ InReady(j) \/ InLease(j) \/ InHand(j) \/ InDead(j)

LEMMA PushKeepsReady ==
  ASSUME TypeOK, NEW x \in Item, ready' = Append(ready, x)
  PROVE  /\ \A j : InReady(j) => InReady(j)'
         /\ InReady(x.job)'
  BY PushFacts DEF TypeOK, InReady

LEMMA KeptStep ==
  ASSUME QueueAssumption, TypeOK, LeaseAgrees, NEW j \in Jobs, Kept(j), [Next]_vars
  PROVE  Kept(j)'
  <1>. USE DEF Goto, Take, Finish, redis, local, history, Kept, LossWindow, InMemoryOnly
  <1>1. ASSUME NEW k \in Jobs, Enqueue(k)  PROVE Kept(j)'
    <2>1. [job |-> k, attempt |-> 0, due |-> TRUE] \in Item
      BY DEF Item
    <2>2. InReady(j) => InReady(j)'
      BY <1>1, <2>1, PushKeepsReady DEF Enqueue
    <2>. QED  BY <1>1, <2>2 DEF Enqueue, InLease, Found, InHand, InDead
  <1>2. ASSUME NEW c \in Callers, Scan(c)  PROVE Kept(j)'
    BY <1>2 DEF Scan, AfterRecovery, TypeOK, InReady, InLease, Found, InHand, InDead
  <1>3. ASSUME NEW c \in Callers, RecoverGet(c)  PROVE Kept(j)'
    BY <1>3 DEF RecoverGet, TypeOK, InReady, InLease, Found, InHand, InDead
  <1>4. ASSUME NEW c \in Callers, RecoverDrop(c)  PROVE Kept(j)'
    BY <1>4 DEF RecoverDrop, NextKey, AfterRecovery, LeaseAgrees, TypeOK,
                InReady, InLease, Found, InHand, InDead
  <1>5. ASSUME NEW c \in Callers, RecoverDelete(c)  PROVE Kept(j)'
    <2>1. pc[c] = "recover_del" /\ leased[lease[c]] \in {NoItem, item[c]}
      BY <1>5 DEF RecoverDelete, LeaseAgrees
    <2>2. InLease(j) => InLease(j)' \/ j = item[c].job
      BY <1>5, <2>1, HeldTypes DEF RecoverDelete, TypeOK, InLease, Found
    <2>3. j = item[c].job => InHand(j)'
      BY <1>5 DEF RecoverDelete, TypeOK, InHand
    <2>4. InHand(j) => InHand(j)'
      BY <1>5 DEF RecoverDelete, TypeOK, InHand
    <2>. QED  BY <1>5, <2>2, <2>3, <2>4 DEF RecoverDelete, InReady, InDead
  <1>6. ASSUME NEW c \in Callers, RecoverUnindex(c)  PROVE Kept(j)'
    BY <1>6, HeldTypes DEF RecoverUnindex, LeaseAgrees, TypeOK,
                InReady, InLease, Found, InHand, InDead
  <1>7. ASSUME NEW c \in Callers, RecoverPush(c)  PROVE Kept(j)'
    <2>. PICK x \in Item : x = item[c]
      BY <1>7, HeldTypes DEF RecoverPush
    <2>1. InReady(x.job)' /\ (InReady(j) => InReady(j)')
      BY <1>7, PushKeepsReady DEF RecoverPush
    <2>2. InLease(j) => InLease(j)'
      BY <1>7 DEF RecoverPush, NextKey, AfterRecovery, TypeOK, InLease, Found
    <2>3. InHand(j) => InHand(j)' \/ j = x.job
      BY <1>7 DEF RecoverPush, NextKey, AfterRecovery, TypeOK, InHand
    <2>. QED  BY <1>7, <2>1, <2>2, <2>3 DEF RecoverPush, InDead
  <1>8. ASSUME NEW c \in Workers, Pop(c)  PROVE Kept(j)'
    <2>. c \in Callers
      BY DEF Callers
    <2>. PICK x \in Item : x = Head(ready)
      BY <1>8, PopFacts DEF Pop, TypeOK
    <2>0. /\ \A i \in DOMAIN ready : i # 1 =>
                i - 1 \in DOMAIN ready' /\ ready'[i - 1] = ready[i]
          /\ x = ready[1]
      BY <1>8, PopFacts DEF Pop, TypeOK
    <2>1. InReady(j) => InReady(j)' \/ j = x.job
      BY <2>0 DEF InReady
    <2>2. pc'[c] \in {"lease", "put_back"} /\ item'[c] = x
      BY <1>8 DEF Pop, TypeOK
    <2>3. InHand(x.job)' /\ (InHand(j) => InHand(j)')
      BY <1>8, <2>2 DEF Pop, TypeOK, InHand
    <2>4. InLease(j) => InLease(j)'
      BY <1>8 DEF Pop, TypeOK, InLease, Found
    <2>. QED  BY <1>8, <2>1, <2>3, <2>4 DEF Pop, InDead
  <1>9. ASSUME NEW c \in Workers, PopTimeout(c)  PROVE Kept(j)'
    BY <1>9 DEF PopTimeout, Callers, TypeOK, InReady, InLease, Found, InHand, InDead
  <1>10. ASSUME NEW c \in Workers, PutBack(c)  PROVE Kept(j)'
    <2>. c \in Callers
      BY DEF Callers
    <2>. PICK x \in Item : x = item[c]
      BY <1>10, HeldTypes DEF PutBack
    <2>1. InReady(x.job)' /\ (InReady(j) => InReady(j)')
      BY <1>10, PushKeepsReady DEF PutBack
    <2>2. InLease(j) => InLease(j)'
      BY <1>10 DEF PutBack, TypeOK, InLease, Found
    <2>3. InHand(j) => InHand(j)' \/ j = x.job
      BY <1>10 DEF PutBack, TypeOK, InHand
    <2>. QED  BY <1>10, <2>1, <2>2, <2>3 DEF PutBack, InDead
  <1>11. ASSUME NEW c \in Workers, WriteLease(c)  PROVE Kept(j)'
    <2>. c \in Callers
      BY DEF Callers
    <2>. PICK k \in Jobs : k = item[c].job
      BY <1>11, HeldTypes DEF WriteLease, Item
    <2>1. PICK l \in LeaseIds :
            /\ Unused(l)
            /\ leased' = [leased EXCEPT ![l] = Delivered(item[c])]
            /\ Take(c, Delivered(item[c]), l)
      BY <1>11 DEF WriteLease
    <2>2. Delivered(item[c]) \in Item /\ Delivered(item[c]).job = item[c].job
      BY <1>11, HeldTypes, DeliveredFacts DEF WriteLease
    <2>3. /\ pc[c] = "lease" /\ pc' = [pc EXCEPT ![c] = "index"]
          /\ UNCHANGED <<ready, index, dead, acked, lost>>
      BY <1>11 DEF WriteLease
    <2>4. InLease(k)'
      BY <2>1, <2>2, <2>3 DEF QueueAssumption, TypeOK, InLease, Found
    <2>5. InLease(j) => InLease(j)'
      <3>1. SUFFICES ASSUME NEW m \in LeaseIds,
                            leased[m] # NoItem, leased[m].job = j, Found(m)
                     PROVE  InLease(j)'
        BY DEF InLease
      <3>2. m # l
        BY <2>1, <3>1 DEF Unused
      <3>3. leased'[m] = leased[m]
        BY <2>1, <3>2 DEF TypeOK
      <3>4. Found(m)'
        BY <2>1, <2>3, <3>1 DEF Found, TypeOK
      <3>. QED  BY <3>1, <3>3, <3>4 DEF InLease
    <2>6. InHand(j) => InHand(j)' \/ j = k
      BY <2>1, <2>3 DEF TypeOK, InHand
    <2>. QED  BY <2>3, <2>4, <2>5, <2>6 DEF InReady, InDead
  <1>12. ASSUME NEW c \in Workers, IndexLease(c)  PROVE Kept(j)'
    BY <1>12 DEF IndexLease, Callers, TypeOK, InReady, InLease, Found, InHand, InDead
  <1>13. ASSUME NEW c \in Workers, AckDelete(c)  PROVE Kept(j)'
    <2>. c \in Callers
      BY DEF Callers
    <2>. QED  BY <1>13, HeldTypes DEF AckDelete, LeaseAgrees, TypeOK,
                InReady, InLease, Found, InHand, InDead
  <1>14. ASSUME NEW c \in Workers, AckUnindex(c)  PROVE Kept(j)'
    <2>. c \in Callers
      BY DEF Callers
    <2>. QED  BY <1>14, HeldTypes DEF AckUnindex, LeaseAgrees, TypeOK,
                InReady, InLease, Found, InHand, InDead
  <1>15. ASSUME NEW c \in Workers, FailDelete(c)  PROVE Kept(j)'
    <2>. c \in Callers
      BY DEF Callers
    <2>. QED  BY <1>15, HeldTypes DEF FailDelete, LeaseAgrees, TypeOK,
                InReady, InLease, Found, InHand, InDead
  <1>16. ASSUME NEW c \in Workers, FailUnindex(c)  PROVE Kept(j)'
    <2>. c \in Callers
      BY DEF Callers
    <2>. QED  BY <1>16, HeldTypes DEF FailUnindex, LeaseAgrees, TypeOK,
                InReady, InLease, Found, InHand, InDead
  <1>17. ASSUME NEW c \in Workers, FailPush(c)  PROVE Kept(j)'
    <2>. c \in Callers
      BY DEF Callers
    <2>. PICK y \in Item : y = item[c]
      BY <1>17, HeldTypes DEF FailPush
    <2>. PICK x \in Item : x = [y EXCEPT !.due = FALSE]
      BY DEF Item
    <2>1. x.job = y.job
      BY DEF Item
    <2>2. \/ dead' = dead \union {y} /\ ready' = ready
          \/ ready' = Append(ready, x) /\ dead' = dead
      BY <1>17 DEF FailPush
    <2>3. InReady(j) => InReady(j)'
      BY <2>1, <2>2, PushKeepsReady DEF InReady
    <2>4. InReady(y.job)' \/ InDead(y.job)'
      BY <2>1, <2>2, PushKeepsReady DEF InDead
    <2>5. InLease(j) => InLease(j)'
      BY <1>17 DEF FailPush, TypeOK, InLease, Found
    <2>6. InHand(j) => InHand(j)' \/ j = y.job
      BY <1>17 DEF FailPush, TypeOK, InHand
    <2>7. InDead(j) => InDead(j)'
      BY <2>2 DEF InDead
    <2>. QED  BY <1>17, <2>3, <2>4, <2>5, <2>6, <2>7 DEF FailPush
  <1>18. ASSUME NEW i \in DOMAIN ready, BackoffElapses(i)  PROVE Kept(j)'
    <2>1. InReady(j) => InReady(j)'
      BY <1>18, DueFacts DEF BackoffElapses, TypeOK, InReady
    <2>. QED  BY <1>18, <2>1 DEF BackoffElapses, InLease, Found, InHand, InDead
  <1>19. ASSUME NEW l \in LeaseIds, LeaseLapses(l) \/ StaleKeyLapses(l)  PROVE Kept(j)'
    BY <1>19 DEF LeaseLapses, StaleKeyLapses, InReady, InLease, Found, InHand, InDead
  <1>20. ASSUME NEW c \in Callers, Crash(c)  PROVE Kept(j)'
    <2>1. InHand(j) => InHand(j)' \/ j \in lost'
      BY <1>20 DEF Crash, TypeOK, InHand
    <2>2. InLease(j) => InLease(j)' \/ j \in lost'
      BY <1>20, HeldTypes DEF Crash, LeaseAgrees, TypeOK, InLease, Found
    <2>. QED  BY <1>20, <2>1, <2>2 DEF Crash, InReady, InDead
  <1>21. ASSUME UNCHANGED vars  PROVE Kept(j)'
    BY <1>21 DEF vars, InReady, InLease, Found, InHand, InDead
  <1>. QED  BY <1>1, <1>2, <1>3, <1>4, <1>5, <1>6, <1>7, <1>8, <1>9, <1>10, <1>11,
               <1>12, <1>13, <1>14, <1>15, <1>16, <1>17, <1>18, <1>19, <1>20, <1>21, StepCases

LEMMA NoJobLostStep ==
  ASSUME QueueAssumption, TypeOK, LeaseAgrees, NoJobLost, [Next]_vars
  PROVE  NoJobLost'
  <1>1. ASSUME NEW j \in Jobs, j \in enqueued'  PROVE Kept(j)'
    <2>1. CASE j \in enqueued
      BY <2>1, KeptStep DEF NoJobLost, Kept
    <2>2. CASE j \notin enqueued
      <3>1. Enqueue(j)
        BY <1>1, <2>2, StepCases DEF vars, history, Enqueue, Scan, RecoverGet, RecoverDrop,
           RecoverDelete, RecoverUnindex, RecoverPush, Pop, PopTimeout, PutBack, WriteLease,
           IndexLease, AckDelete, AckUnindex, FailDelete, FailUnindex, FailPush,
           BackoffElapses, LeaseLapses, StaleKeyLapses, Crash
      <3>. DEFINE x == [job |-> j, attempt |-> 0, due |-> TRUE]
      <3>2. x \in Item /\ x.job = j
        BY DEF Item
      <3>3. InReady(j)'
        BY <3>1, <3>2, PushKeepsReady DEF Enqueue
      <3>. QED  BY <3>3 DEF Kept
    <2>. QED  BY <2>1, <2>2
  <1>2. enqueued' \subseteq Jobs
    BY TypeStep DEF TypeOK
  <1>. QED  BY <1>1, <1>2 DEF NoJobLost, Kept

\* NoJobLost for every number of jobs, workers, observers, lapses and crashes.
THEOREM NoJobIsLost == Spec => []NoJobLost
  <1>. DEFINE I == TypeOK /\ LeaseAgrees /\ NoJobLost
  <1>1. Init => I
    BY TypeInit DEF Init, LeaseAgrees, NoJobLost
  <1>2. I /\ [Next]_vars => I'
    BY QueueAssumption, TypeStep, LeaseAgreesStep, NoJobLostStep
  <1>. QED  BY <1>1, <1>2, PTL DEF Spec

-----------------------------------------------------------------------------
(* The retry budget.  Between a delivery and the next an item gains at most *)
(* one attempt, and it goes round without a failure only through a lease    *)
(* that is overdue, so whose job has lapsed once more than its attempts     *)
(* beyond the limit.                                                        *)

Budget(x) == MaxAttempts + lapses[x.job]

ReadyBound == \A i \in DOMAIN ready : ready[i].attempt < Budget(ready[i])
LeasedBound ==
  \A l \in LeaseIds : leased[l] # NoItem =>
    /\ leased[l].attempt <= Budget(leased[l])
    /\ l \in overdue => leased[l].attempt < Budget(leased[l])
HeldBound ==
  \A c \in Callers :
    /\ pc[c] \in {"put_back", "lease", "recover_del", "recover_unindex", "recover_push"} =>
         item[c].attempt < Budget(item[c])
    /\ pc[c] \in {"index", "holding", "fail_unindex", "fail_push"} =>
         item[c].attempt <= Budget(item[c])
\* Recovery only visits leases that are overdue, and they stay so: a lease id
\* is not given out again while somebody may still visit it.
TodoOverdue == \A c \in Callers : todo[c] \subseteq overdue
DeadBound == \A x \in dead : MaxAttempts <= x.attempt /\ x.attempt <= Budget(x)

AttemptBounds == ReadyBound /\ LeasedBound /\ HeldBound /\ TodoOverdue /\ DeadBound

LEMMA BudgetTypes ==
  ASSUME QueueAssumption, TypeOK
  PROVE  /\ MaxAttempts \in Nat /\ MaxAttempts > 0
         /\ \A x \in Item : x.attempt \in Nat /\ x.job \in Jobs /\ Budget(x) \in Nat
         /\ \A j \in Jobs : lapses[j] \in Nat
  BY DEF QueueAssumption, TypeOK, Item, Budget

LEMMA AttemptBoundsStep ==
  ASSUME QueueAssumption, TypeOK, AttemptBounds, [Next]_vars
  PROVE  AttemptBounds'
  <1>. USE BudgetTypes DEF Goto, Take, Finish, redis, local, history
  <1>1. ASSUME NEW k \in Jobs, Enqueue(k)  PROVE AttemptBounds'
    <2>. DEFINE x == [job |-> k, attempt |-> 0, due |-> TRUE]
    <2>1. x \in Item /\ x.attempt < Budget(x)
      BY DEF Item, Budget
    <2>2. ReadyBound'
      BY <1>1, <2>1, PushFacts DEF Enqueue, TypeOK, AttemptBounds, ReadyBound, Budget
    <2>. QED  BY <1>1, <2>2 DEF Enqueue, AttemptBounds, LeasedBound, HeldBound, TodoOverdue,
                                DeadBound, Budget
  <1>2. ASSUME NEW c \in Callers, Scan(c)  PROVE AttemptBounds'
    BY <1>2 DEF Scan, AfterRecovery, TypeOK, AttemptBounds, ReadyBound, LeasedBound, HeldBound,
                TodoOverdue, DeadBound, Budget
  <1>3. ASSUME NEW c \in Callers, RecoverGet(c)  PROVE AttemptBounds'
    <2>1. HeldBound'
      BY <1>3 DEF RecoverGet, TypeOK, AttemptBounds, LeasedBound, HeldBound, TodoOverdue, Budget
    <2>. QED  BY <1>3, <2>1 DEF RecoverGet, AttemptBounds, ReadyBound, LeasedBound,
                                TodoOverdue, DeadBound, Budget
  <1>4. ASSUME NEW c \in Callers, RecoverDrop(c)  PROVE AttemptBounds'
    BY <1>4 DEF RecoverDrop, NextKey, AfterRecovery, TypeOK, AttemptBounds, ReadyBound,
                LeasedBound, HeldBound, TodoOverdue, DeadBound, Budget
  <1>5. ASSUME NEW c \in Callers, RecoverDelete(c)  PROVE AttemptBounds'
    <2>1. LeasedBound'
      BY <1>5, HeldTypes DEF RecoverDelete, TypeOK, AttemptBounds, LeasedBound, Budget
    <2>2. HeldBound'
      BY <1>5 DEF RecoverDelete, TypeOK, AttemptBounds, HeldBound, Budget
    <2>. QED  BY <1>5, <2>1, <2>2 DEF RecoverDelete, AttemptBounds, ReadyBound, TodoOverdue,
                                DeadBound, Budget
  <1>6. ASSUME NEW c \in Callers, RecoverUnindex(c)  PROVE AttemptBounds'
    BY <1>6 DEF RecoverUnindex, TypeOK, AttemptBounds, ReadyBound, LeasedBound, HeldBound,
                TodoOverdue, DeadBound, Budget
  <1>7. ASSUME NEW c \in Callers, RecoverPush(c)  PROVE AttemptBounds'
    <2>1. item[c] \in Item /\ item[c].attempt < Budget(item[c])
      BY <1>7, HeldTypes DEF RecoverPush, AttemptBounds, HeldBound, LossWindow, InMemoryOnly
    <2>2. ReadyBound'
      BY <1>7, <2>1, PushFacts DEF RecoverPush, TypeOK, AttemptBounds, ReadyBound, Budget
    <2>. QED  BY <1>7, <2>2 DEF RecoverPush, NextKey, AfterRecovery, TypeOK, AttemptBounds,
                                LeasedBound, HeldBound, TodoOverdue, DeadBound, Budget
  <1>8. ASSUME NEW c \in Workers, Pop(c)  PROVE AttemptBounds'
    <2>. c \in Callers
      BY DEF Callers
    <2>1. ReadyBound'
      BY <1>8, PopFacts DEF Pop, TypeOK, AttemptBounds, ReadyBound, Budget
    <2>2. Head(ready).attempt < Budget(Head(ready))
      BY <1>8, PopFacts DEF Pop, TypeOK, AttemptBounds, ReadyBound
    <2>3. HeldBound'
      BY <1>8, <2>2 DEF Pop, TypeOK, AttemptBounds, HeldBound, Budget
    <2>. QED  BY <1>8, <2>1, <2>3 DEF Pop, AttemptBounds, LeasedBound, TodoOverdue, DeadBound,
                                Budget
  <1>9. ASSUME NEW c \in Workers, PopTimeout(c)  PROVE AttemptBounds'
    BY <1>9 DEF PopTimeout, Callers, TypeOK, AttemptBounds, ReadyBound, LeasedBound, HeldBound,
                TodoOverdue, DeadBound, Budget
  <1>10. ASSUME NEW c \in Workers, PutBack(c)  PROVE AttemptBounds'
    <2>. c \in Callers
      BY DEF Callers
    <2>1. item[c] \in Item /\ item[c].attempt < Budget(item[c])
      BY <1>10, HeldTypes DEF PutBack, AttemptBounds, HeldBound, LossWindow, InMemoryOnly
    <2>2. ReadyBound'
      BY <1>10, <2>1, PushFacts DEF PutBack, TypeOK, AttemptBounds, ReadyBound, Budget
    <2>. QED  BY <1>10, <2>2 DEF PutBack, TypeOK, AttemptBounds,
                                LeasedBound, HeldBound, TodoOverdue, DeadBound, Budget
  <1>11. ASSUME NEW c \in Workers, WriteLease(c)  PROVE AttemptBounds'
    <2>. c \in Callers
      BY DEF Callers
    <2>. DEFINE x == Delivered(item[c])
    <2>1. PICK l \in LeaseIds :
            /\ Unused(l)
            /\ leased' = [leased EXCEPT ![l] = x]
            /\ overdue' = overdue \ {l}
            /\ Take(c, x, l)
      BY <1>11 DEF WriteLease
    <2>2. /\ pc[c] = "lease" /\ pc' = [pc EXCEPT ![c] = "index"]
          /\ UNCHANGED <<ready, todo, dead, lapses>>
      BY <1>11 DEF WriteLease
    <2>3. x \in Item /\ x.attempt <= Budget(x)
      BY <2>2, HeldTypes, DeliveredFacts
         DEF AttemptBounds, HeldBound, LossWindow, InMemoryOnly, Budget
    <2>4. LeasedBound'
      BY <2>1, <2>2, <2>3 DEF TypeOK, AttemptBounds, LeasedBound, Budget
    <2>5. HeldBound'
      BY <2>1, <2>2, <2>3 DEF TypeOK, AttemptBounds, HeldBound, Budget
    <2>6. TodoOverdue'
      BY <2>1, <2>2 DEF Unused, AttemptBounds, TodoOverdue
    <2>. QED  BY <2>2, <2>4, <2>5, <2>6 DEF AttemptBounds, ReadyBound, DeadBound, Budget
  <1>12. ASSUME NEW c \in Workers, IndexLease(c)  PROVE AttemptBounds'
    BY <1>12 DEF IndexLease, Callers, TypeOK, AttemptBounds, ReadyBound, LeasedBound, HeldBound,
                TodoOverdue, DeadBound, Budget
  <1>13. ASSUME NEW c \in Workers, AckDelete(c)  PROVE AttemptBounds'
    <2>1. LeasedBound'
      BY <1>13, HeldTypes DEF AckDelete, Callers, TypeOK, AttemptBounds, LeasedBound, Budget
    <2>. QED  BY <1>13, <2>1 DEF AckDelete, Callers, TypeOK, AttemptBounds, ReadyBound, HeldBound,
                                TodoOverdue, DeadBound, Budget
  <1>14. ASSUME NEW c \in Workers, AckUnindex(c)  PROVE AttemptBounds'
    BY <1>14 DEF AckUnindex, Callers, TypeOK, AttemptBounds, ReadyBound, LeasedBound, HeldBound,
                TodoOverdue, DeadBound, Budget
  <1>15. ASSUME NEW c \in Workers, FailDelete(c)  PROVE AttemptBounds'
    <2>1. LeasedBound'
      BY <1>15, HeldTypes DEF FailDelete, Callers, TypeOK, AttemptBounds, LeasedBound, Budget
    <2>. QED  BY <1>15, <2>1 DEF FailDelete, Callers, TypeOK, AttemptBounds, ReadyBound, HeldBound,
                                TodoOverdue, DeadBound, Budget
  <1>16. ASSUME NEW c \in Workers, FailUnindex(c)  PROVE AttemptBounds'
    BY <1>16 DEF FailUnindex, Callers, TypeOK, AttemptBounds, ReadyBound, LeasedBound, HeldBound,
                TodoOverdue, DeadBound, Budget
  <1>17. ASSUME NEW c \in Workers, FailPush(c)  PROVE AttemptBounds'
    <2>. c \in Callers
      BY DEF Callers
    <2>. DEFINE x == [item[c] EXCEPT !.due = FALSE]
    <2>1. item[c] \in Item /\ item[c].attempt <= Budget(item[c])
      BY <1>17, HeldTypes DEF FailPush, AttemptBounds, HeldBound, LossWindow, InMemoryOnly
    <2>2. x \in Item /\ x.job = item[c].job /\ x.attempt = item[c].attempt
      BY <2>1 DEF Item
    <2>3. lapses' = lapses
      BY <1>17 DEF FailPush
    <2>4. \/ item[c].attempt >= MaxAttempts /\ dead' = dead \union {item[c]} /\ ready' = ready
          \/ item[c].attempt < MaxAttempts /\ dead' = dead /\ ready' = Append(ready, x)
      BY <1>17 DEF FailPush
    <2>5. ReadyBound'
      <3>1. CASE ready' = ready
        BY <2>3, <3>1 DEF AttemptBounds, ReadyBound, Budget
      <3>2. CASE item[c].attempt < MaxAttempts /\ ready' = Append(ready, x)
        <4>1. x.attempt < Budget(x)
          BY <2>1, <2>2, <3>2 DEF Budget
        <4>. QED  BY <2>2, <2>3, <3>2, <4>1, PushFacts DEF TypeOK, AttemptBounds, ReadyBound, Budget
      <3>. QED  BY <2>4, <3>1, <3>2
    <2>6. DeadBound'
      BY <2>1, <2>3, <2>4 DEF TypeOK, AttemptBounds, DeadBound, Budget
    <2>. QED  BY <1>17, <2>5, <2>6 DEF FailPush, TypeOK, AttemptBounds,
                                LeasedBound, HeldBound, TodoOverdue, Budget
  <1>18. ASSUME NEW i \in DOMAIN ready, BackoffElapses(i)  PROVE AttemptBounds'
    <2>1. ReadyBound'
      BY <1>18, DueFacts DEF BackoffElapses, TypeOK, AttemptBounds, ReadyBound, Budget
    <2>. QED  BY <1>18, <2>1 DEF BackoffElapses, AttemptBounds, LeasedBound, HeldBound,
                                TodoOverdue, DeadBound, Budget
  <1>19. ASSUME NEW l \in LeaseIds, LeaseLapses(l)  PROVE AttemptBounds'
    <2>1. /\ leased[l] \in Item /\ overdue' = overdue \union {l}
          /\ lapses' = [lapses EXCEPT ![leased[l].job] = @ + 1]
          /\ UNCHANGED <<ready, leased, dead, pc, item, todo>>
      BY <1>19 DEF LeaseLapses, TypeOK
    <2>2. \A j \in Jobs : lapses'[j] \in Nat /\ lapses[j] <= lapses'[j]
      BY <2>1 DEF TypeOK
    <2>3. lapses'[leased[l].job] = lapses[leased[l].job] + 1
      BY <2>1 DEF TypeOK
    <2>4. ReadyBound'
      BY <2>1, <2>2, EntryIsItem DEF TypeOK, AttemptBounds, ReadyBound, Budget
    <2>5. LeasedBound'
      <3>1. ASSUME NEW m \in LeaseIds, leased[m] # NoItem
            PROVE  /\ leased[m].attempt <= MaxAttempts + lapses'[leased[m].job]
                   /\ m \in overdue' =>
                        leased[m].attempt < MaxAttempts + lapses'[leased[m].job]
        <4>1. /\ leased[m] \in Item /\ leased[m].attempt <= Budget(leased[m])
              /\ m \in overdue => leased[m].attempt < Budget(leased[m])
          BY <3>1 DEF TypeOK, AttemptBounds, LeasedBound
        <4>2. CASE m = l
          BY <2>1, <2>2, <2>3, <4>1, <4>2 DEF Budget
        <4>3. CASE m # l
          BY <2>1, <2>2, <4>1, <4>3 DEF Budget
        <4>. QED  BY <4>2, <4>3
      <3>. QED  BY <2>1, <3>1 DEF LeasedBound, Budget
    <2>6. HeldBound'
      BY <2>1, <2>2, HeldTypes DEF AttemptBounds, HeldBound, Budget, LossWindow, InMemoryOnly
    <2>7. DeadBound'
      BY <2>1, <2>2 DEF TypeOK, AttemptBounds, DeadBound, Budget
    <2>. QED  BY <2>1, <2>4, <2>5, <2>6, <2>7 DEF AttemptBounds, TodoOverdue
  <1>20. ASSUME NEW l \in LeaseIds, StaleKeyLapses(l)  PROVE AttemptBounds'
    BY <1>20 DEF StaleKeyLapses, TypeOK, AttemptBounds, ReadyBound, LeasedBound, HeldBound,
                TodoOverdue, DeadBound, Budget
  <1>21. ASSUME NEW c \in Callers, Crash(c)  PROVE AttemptBounds'
    BY <1>21 DEF Crash, TypeOK, AttemptBounds, ReadyBound, LeasedBound, HeldBound,
                TodoOverdue, DeadBound, Budget
  <1>22. ASSUME UNCHANGED vars  PROVE AttemptBounds'
    BY <1>22 DEF vars, AttemptBounds, ReadyBound, LeasedBound, HeldBound, TodoOverdue, DeadBound,
                Budget
  <1>. QED  BY <1>1, <1>2, <1>3, <1>4, <1>5, <1>6, <1>7, <1>8, <1>9, <1>10, <1>11, <1>12, <1>13,
               <1>14, <1>15, <1>16, <1>17, <1>18, <1>19, <1>20, <1>21, <1>22,
               StepCases

\* What the bounds say of the places RetryBudget names.
LEMMA BudgetFromBounds ==
  ASSUME QueueAssumption, TypeOK, AttemptBounds
  PROVE  RetryBudget
  <1>1. ASSUME NEW x \in dead  PROVE x.attempt \in MaxAttempts .. MaxAttempts + lapses[x.job]
    BY <1>1, BudgetTypes DEF QueueAssumption, TypeOK, AttemptBounds, DeadBound, Budget
  <1>. QED  BY <1>1 DEF AttemptBounds, ReadyBound, HeldBound, RetryBudget, Budget, Callers

\* RetryBudget for every attempt limit and every number of lapses: failures
\* alone never deliver a job more than max_attempts times, and an item is only
\* dead-lettered once it has used them all.
THEOREM RetriesAreBounded == Spec => []RetryBudget
  <1>. DEFINE I == TypeOK /\ AttemptBounds
  <1>1. Init => I
    <2>1. ASSUME Init  PROVE AttemptBounds
      BY <2>1, EmptySeq DEF Init, AttemptBounds, ReadyBound, LeasedBound, HeldBound,
                            TodoOverdue, DeadBound
    <2>. QED  BY <2>1, TypeInit
  <1>2. I /\ [Next]_vars => I'
    BY QueueAssumption, TypeStep, AttemptBoundsStep
  <1>3. I => RetryBudget
    BY QueueAssumption, BudgetFromBounds
  <1>. QED  BY <1>1, <1>2, <1>3, PTL DEF Spec

-----------------------------------------------------------------------------
(* One worker per job.  A job on which no lease has lapsed exists once: in   *)
(* the ready list, under one lease, or in one process's memory.  Two workers *)
(* that ran it would hold two leases on it.                                  *)

\* Every item names an enqueued job, so an Enqueue never makes a second copy.
ItemsEnqueued ==
  /\ \A i \in DOMAIN ready : ready[i].job \in enqueued
  /\ \A l \in LeaseIds : leased[l] # NoItem => leased[l].job \in enqueued
  /\ \A c \in Callers : HasItem(c) => item[c].job \in enqueued

\* Recovery only ever touches jobs that have lapsed.
RecoveredLapsed ==
  /\ \A l \in LeaseIds : leased[l] # NoItem /\ l \in overdue => lapses[leased[l].job] > 0
  /\ \A c \in Callers : pc[c] \in {"recover_del", "recover_unindex", "recover_push"} =>
                         lapses[item[c].job] > 0

OwnersDiffer ==
  \A c, d \in Callers :
    pc[c] \in Owning /\ pc[d] \in Owning /\ lease[c] = lease[d] => c = d

\* The lease of a worker that runs a job without lapses is in the hash.
OwnersLeased ==
  \A c \in Callers :
    pc[c] \in Owning /\ lapses[item[c].job] = 0 => leased[lease[c]] = item[c]

Leases(l, j)  == leased[l] # NoItem /\ leased[l].job = j
Carries(c, j) == pc[c] \in InMemoryOnly /\ item[c].job = j

SoleCopy(j) ==
  /\ \A i, k \in DOMAIN ready : ready[i].job = j /\ ready[k].job = j => i = k
  /\ \A l, m \in LeaseIds : Leases(l, j) /\ Leases(m, j) => l = m
  /\ \A c, d \in Callers : Carries(c, j) /\ Carries(d, j) => c = d
  /\ \A l \in LeaseIds : Leases(l, j) => ~ InReady(j) /\ ~ InHand(j)
  /\ InReady(j) => ~ InHand(j)

SoleCopies == \A j \in Jobs : lapses[j] = 0 => SoleCopy(j)

CopyInv == ItemsEnqueued /\ RecoveredLapsed /\ OwnersDiffer /\ OwnersLeased /\ SoleCopies

LEMMA RecoveredLapsedStep ==
  ASSUME QueueAssumption, TypeOK, AttemptBounds, RecoveredLapsed, [Next]_vars
  PROVE  RecoveredLapsed'
  <1>. USE BudgetTypes DEF Goto, Take, Finish, redis, local, history
  <1>1. ASSUME NEW c \in Callers, Scan(c)  PROVE RecoveredLapsed'
    BY <1>1, HeldTypes DEF Scan, AfterRecovery, TypeOK, RecoveredLapsed
  <1>2. ASSUME NEW c \in Callers, RecoverGet(c)  PROVE RecoveredLapsed'
    BY <1>2 DEF RecoverGet, TypeOK, RecoveredLapsed, AttemptBounds, TodoOverdue
  <1>3. ASSUME NEW c \in Callers, RecoverDrop(c)  PROVE RecoveredLapsed'
    BY <1>3, HeldTypes DEF RecoverDrop, NextKey, AfterRecovery, TypeOK, RecoveredLapsed
  <1>4. ASSUME NEW c \in Callers, RecoverDelete(c)  PROVE RecoveredLapsed'
    BY <1>4, HeldTypes DEF RecoverDelete, TypeOK, RecoveredLapsed
  <1>5. ASSUME NEW c \in Callers, RecoverUnindex(c)  PROVE RecoveredLapsed'
    BY <1>5, HeldTypes DEF RecoverUnindex, TypeOK, RecoveredLapsed
  <1>6. ASSUME NEW c \in Callers, RecoverPush(c)  PROVE RecoveredLapsed'
    BY <1>6, HeldTypes DEF RecoverPush, NextKey, AfterRecovery, TypeOK, RecoveredLapsed
  <1>7. ASSUME NEW c \in Workers, Pop(c)  PROVE RecoveredLapsed'
    BY <1>7, HeldTypes DEF Pop, Callers, TypeOK, RecoveredLapsed
  <1>8. ASSUME NEW c \in Workers, PopTimeout(c)  PROVE RecoveredLapsed'
    BY <1>8, HeldTypes DEF PopTimeout, Callers, TypeOK, RecoveredLapsed
  <1>9. ASSUME NEW c \in Workers, PutBack(c)  PROVE RecoveredLapsed'
    BY <1>9, HeldTypes DEF PutBack, Callers, TypeOK, RecoveredLapsed
  <1>10. ASSUME NEW c \in Workers, WriteLease(c)  PROVE RecoveredLapsed'
    <2>1. PICK l \in LeaseIds :
            /\ leased' = [leased EXCEPT ![l] = Delivered(item[c])]
            /\ overdue' = overdue \ {l}
            /\ Take(c, Delivered(item[c]), l)
      BY <1>10 DEF WriteLease
    <2>. QED  BY <1>10, <2>1 DEF WriteLease, Callers, TypeOK, RecoveredLapsed
  <1>11. ASSUME NEW c \in Workers, IndexLease(c)  PROVE RecoveredLapsed'
    BY <1>11, HeldTypes DEF IndexLease, Callers, TypeOK, RecoveredLapsed
  <1>12. ASSUME NEW c \in Workers, AckDelete(c)  PROVE RecoveredLapsed'
    BY <1>12, HeldTypes DEF AckDelete, Callers, TypeOK, RecoveredLapsed
  <1>13. ASSUME NEW c \in Workers, AckUnindex(c)  PROVE RecoveredLapsed'
    BY <1>13, HeldTypes DEF AckUnindex, Callers, TypeOK, RecoveredLapsed
  <1>14. ASSUME NEW c \in Workers, FailDelete(c)  PROVE RecoveredLapsed'
    BY <1>14, HeldTypes DEF FailDelete, Callers, TypeOK, RecoveredLapsed
  <1>15. ASSUME NEW c \in Workers, FailUnindex(c)  PROVE RecoveredLapsed'
    BY <1>15, HeldTypes DEF FailUnindex, Callers, TypeOK, RecoveredLapsed
  <1>16. ASSUME NEW c \in Workers, FailPush(c)  PROVE RecoveredLapsed'
    BY <1>16, HeldTypes DEF FailPush, Callers, TypeOK, RecoveredLapsed
  <1>17. ASSUME NEW k \in Jobs, Enqueue(k)  PROVE RecoveredLapsed'
    BY <1>17, HeldTypes DEF Enqueue, TypeOK, RecoveredLapsed
  <1>18. ASSUME NEW i \in DOMAIN ready, BackoffElapses(i)  PROVE RecoveredLapsed'
    BY <1>18, HeldTypes DEF BackoffElapses, TypeOK, RecoveredLapsed
  <1>19. ASSUME NEW l \in LeaseIds, LeaseLapses(l)  PROVE RecoveredLapsed'
    <2>1. /\ leased[l] \in Item /\ overdue' = overdue \union {l}
          /\ lapses' = [lapses EXCEPT ![leased[l].job] = @ + 1]
          /\ UNCHANGED <<leased, pc, item>>
      BY <1>19 DEF LeaseLapses, TypeOK
    <2>2. \A j \in Jobs : lapses[j] > 0 => lapses'[j] > 0
      BY <2>1 DEF TypeOK
    <2>3. lapses'[leased[l].job] > 0
      BY <2>1 DEF TypeOK
    <2>4. ASSUME NEW m \in LeaseIds, leased[m] # NoItem, m \in overdue'
          PROVE  lapses'[leased[m].job] > 0
      BY <2>1, <2>2, <2>3, <2>4 DEF TypeOK, RecoveredLapsed
    <2>5. ASSUME NEW c \in Callers, pc[c] \in {"recover_del", "recover_unindex", "recover_push"}
          PROVE  lapses'[item[c].job] > 0
      BY <2>2, <2>5, HeldTypes DEF RecoveredLapsed, LossWindow, InMemoryOnly
    <2>. QED  BY <2>1, <2>4, <2>5 DEF RecoveredLapsed
  <1>20. ASSUME NEW l \in LeaseIds, StaleKeyLapses(l)  PROVE RecoveredLapsed'
    BY <1>20, HeldTypes DEF StaleKeyLapses, TypeOK, RecoveredLapsed
  <1>21. ASSUME NEW c \in Callers, Crash(c)  PROVE RecoveredLapsed'
    BY <1>21, HeldTypes DEF Crash, TypeOK, RecoveredLapsed
  <1>22. ASSUME UNCHANGED vars  PROVE RecoveredLapsed'
    BY <1>22 DEF vars, TypeOK, RecoveredLapsed
  <1>. QED  BY <1>1, <1>2, <1>3, <1>4, <1>5, <1>6, <1>7, <1>8, <1>9, <1>10, <1>11,
               <1>12, <1>13, <1>14, <1>15, <1>16, <1>17, <1>18, <1>19, <1>20, <1>21, <1>22,
               StepCases

LEMMA ItemsEnqueuedStep ==
  ASSUME QueueAssumption, TypeOK, ItemsEnqueued, [Next]_vars
  PROVE  ItemsEnqueued'
  <1>. USE DEF Goto, Take, Finish, redis, local, history, HasItem, LossWindow, InMemoryOnly
  <1>1. ASSUME NEW c \in Callers, Scan(c)  PROVE ItemsEnqueued'
    BY <1>1, HeldTypes DEF Scan, AfterRecovery, TypeOK, ItemsEnqueued
  <1>2. ASSUME NEW c \in Callers, RecoverGet(c)  PROVE ItemsEnqueued'
    BY <1>2, HeldTypes DEF RecoverGet, TypeOK, ItemsEnqueued
  <1>3. ASSUME NEW c \in Callers, RecoverDrop(c)  PROVE ItemsEnqueued'
    BY <1>3, HeldTypes DEF RecoverDrop, NextKey, AfterRecovery, TypeOK, ItemsEnqueued
  <1>4. ASSUME NEW c \in Callers, RecoverDelete(c)  PROVE ItemsEnqueued'
    BY <1>4, HeldTypes DEF RecoverDelete, TypeOK, ItemsEnqueued
  <1>5. ASSUME NEW c \in Callers, RecoverUnindex(c)  PROVE ItemsEnqueued'
    BY <1>5, HeldTypes DEF RecoverUnindex, TypeOK, ItemsEnqueued
  <1>6. ASSUME NEW c \in Callers, RecoverPush(c)  PROVE ItemsEnqueued'
    <2>1. item[c] \in Item /\ item[c].job \in enqueued
      BY <1>6, HeldTypes DEF RecoverPush, ItemsEnqueued
    <2>2. \A i \in DOMAIN ready' : ready'[i].job \in enqueued
      BY <1>6, <2>1, PushFacts DEF RecoverPush, TypeOK, ItemsEnqueued
    <2>. QED  BY <1>6, <2>2 DEF RecoverPush, NextKey, AfterRecovery, TypeOK, ItemsEnqueued
  <1>7. ASSUME NEW c \in Workers, Pop(c)  PROVE ItemsEnqueued'
    <2>. c \in Callers
      BY DEF Callers
    <2>1. /\ Head(ready).job \in enqueued
          /\ \A i \in DOMAIN ready' : ready'[i].job \in enqueued
      BY <1>7, PopFacts DEF Pop, TypeOK, ItemsEnqueued
    <2>. QED  BY <1>7, <2>1 DEF Pop, TypeOK, ItemsEnqueued
  <1>8. ASSUME NEW c \in Workers, PopTimeout(c)  PROVE ItemsEnqueued'
    BY <1>8, HeldTypes DEF PopTimeout, Callers, TypeOK, ItemsEnqueued
  <1>9. ASSUME NEW c \in Workers, PutBack(c)  PROVE ItemsEnqueued'
    <2>. c \in Callers
      BY DEF Callers
    <2>1. item[c] \in Item /\ item[c].job \in enqueued
      BY <1>9, HeldTypes DEF PutBack, ItemsEnqueued
    <2>2. \A i \in DOMAIN ready' : ready'[i].job \in enqueued
      BY <1>9, <2>1, PushFacts DEF PutBack, TypeOK, ItemsEnqueued
    <2>. QED  BY <1>9, <2>2 DEF PutBack, TypeOK, ItemsEnqueued
  <1>10. ASSUME NEW c \in Workers, WriteLease(c)  PROVE ItemsEnqueued'
    <2>1. PICK l \in LeaseIds :
            /\ leased' = [leased EXCEPT ![l] = Delivered(item[c])]
            /\ Take(c, Delivered(item[c]), l)
      BY <1>10 DEF WriteLease
    <2>2. Delivered(item[c]).job \in enqueued
      BY <1>10, HeldTypes, DeliveredFacts DEF WriteLease, Callers, ItemsEnqueued
    <2>. QED  BY <1>10, <2>1, <2>2 DEF WriteLease, Callers, TypeOK, ItemsEnqueued
  <1>11. ASSUME NEW c \in Workers, IndexLease(c)  PROVE ItemsEnqueued'
    BY <1>11, HeldTypes DEF IndexLease, Callers, TypeOK, ItemsEnqueued
  <1>12. ASSUME NEW c \in Workers, AckDelete(c)  PROVE ItemsEnqueued'
    BY <1>12, HeldTypes DEF AckDelete, Callers, TypeOK, ItemsEnqueued
  <1>13. ASSUME NEW c \in Workers, AckUnindex(c)  PROVE ItemsEnqueued'
    BY <1>13, HeldTypes DEF AckUnindex, Callers, TypeOK, ItemsEnqueued
  <1>14. ASSUME NEW c \in Workers, FailDelete(c)  PROVE ItemsEnqueued'
    BY <1>14, HeldTypes DEF FailDelete, Callers, TypeOK, ItemsEnqueued
  <1>15. ASSUME NEW c \in Workers, FailUnindex(c)  PROVE ItemsEnqueued'
    BY <1>15, HeldTypes DEF FailUnindex, Callers, TypeOK, ItemsEnqueued
  <1>16. ASSUME NEW c \in Workers, FailPush(c)  PROVE ItemsEnqueued'
    <2>. c \in Callers
      BY DEF Callers
    <2>. DEFINE x == [item[c] EXCEPT !.due = FALSE]
    <2>1. x \in Item /\ x.job \in enqueued
      BY <1>16, HeldTypes DEF FailPush, ItemsEnqueued, Item
    <2>2. ready' = ready \/ ready' = Append(ready, x)
      BY <1>16 DEF FailPush
    <2>3. \A i \in DOMAIN ready' : ready'[i].job \in enqueued
      <3>1. CASE ready' = ready
        BY <3>1 DEF ItemsEnqueued
      <3>2. CASE ready' = Append(ready, x)
        BY <2>1, <3>2, PushFacts DEF TypeOK, ItemsEnqueued
      <3>. QED  BY <2>2, <3>1, <3>2
    <2>. QED  BY <1>16, <2>3 DEF FailPush, TypeOK, ItemsEnqueued
  <1>17. ASSUME NEW k \in Jobs, Enqueue(k)  PROVE ItemsEnqueued'
    <2>. DEFINE x == [job |-> k, attempt |-> 0, due |-> TRUE]
    <2>1. x \in Item /\ x.job = k
      BY DEF Item
    <2>2. \A i \in DOMAIN ready' : ready'[i].job \in enqueued'
      BY <1>17, <2>1, PushFacts DEF Enqueue, TypeOK, ItemsEnqueued
    <2>. QED  BY <1>17, <2>2 DEF Enqueue, ItemsEnqueued
  <1>18. ASSUME NEW i \in DOMAIN ready, BackoffElapses(i)  PROVE ItemsEnqueued'
    <2>1. \A k \in DOMAIN ready' : ready'[k].job \in enqueued
      BY <1>18, DueFacts DEF BackoffElapses, TypeOK, ItemsEnqueued
    <2>. QED  BY <1>18, <2>1 DEF BackoffElapses, ItemsEnqueued
  <1>19. ASSUME NEW l \in LeaseIds, LeaseLapses(l)  PROVE ItemsEnqueued'
    BY <1>19, HeldTypes DEF LeaseLapses, TypeOK, ItemsEnqueued
  <1>20. ASSUME NEW l \in LeaseIds, StaleKeyLapses(l)  PROVE ItemsEnqueued'
    BY <1>20, HeldTypes DEF StaleKeyLapses, TypeOK, ItemsEnqueued
  <1>21. ASSUME NEW c \in Callers, Crash(c)  PROVE ItemsEnqueued'
    BY <1>21, HeldTypes DEF Crash, TypeOK, ItemsEnqueued
  <1>22. ASSUME UNCHANGED vars  PROVE ItemsEnqueued'
    BY <1>22 DEF vars, TypeOK, ItemsEnqueued
  <1>. QED  BY <1>1, <1>2, <1>3, <1>4, <1>5, <1>6, <1>7, <1>8, <1>9, <1>10, <1>11,
               <1>12, <1>13, <1>14, <1>15, <1>16, <1>17, <1>18, <1>19, <1>20, <1>21, <1>22,
               StepCases

LEMMA OwnersStep ==
  ASSUME QueueAssumption, TypeOK, LeaseAgrees, RecoveredLapsed, OwnersDiffer, OwnersLeased,
         [Next]_vars
  PROVE  OwnersDiffer' /\ OwnersLeased'
  <1>. USE BudgetTypes DEF Goto, Take, Finish, redis, local, history, Owning
  <1>1. ASSUME NEW c \in Callers, Scan(c)  PROVE OwnersDiffer' /\ OwnersLeased'
    BY <1>1, HeldTypes DEF Scan, AfterRecovery, TypeOK, OwnersDiffer, OwnersLeased
  <1>2. ASSUME NEW c \in Callers, RecoverGet(c)  PROVE OwnersDiffer' /\ OwnersLeased'
    BY <1>2, HeldTypes DEF RecoverGet, TypeOK, OwnersDiffer, OwnersLeased
  <1>3. ASSUME NEW c \in Callers, RecoverDrop(c)  PROVE OwnersDiffer' /\ OwnersLeased'
    BY <1>3, HeldTypes DEF RecoverDrop, NextKey, AfterRecovery, TypeOK, OwnersDiffer, OwnersLeased
  <1>4. ASSUME NEW c \in Callers, RecoverDelete(c)  PROVE OwnersDiffer' /\ OwnersLeased'
    <2>1. /\ leased' = [leased EXCEPT ![lease[c]] = NoItem]
          /\ pc[c] = "recover_del" /\ pc' = [pc EXCEPT ![c] = "recover_unindex"]
          /\ leased[lease[c]] \in {NoItem, item[c]} /\ lapses[item[c].job] > 0
          /\ lease[c] \in LeaseIds /\ UNCHANGED <<item, lease, lapses>>
      BY <1>4, HeldTypes DEF RecoverDelete, LeaseAgrees, RecoveredLapsed
    <2>2. ASSUME NEW d \in Callers, pc[d] \in Owning, lapses[item[d].job] = 0
          PROVE  lease[d] # lease[c]
      <3>1. leased[lease[d]] = item[d] /\ item[d] \in Item
        BY <2>2, HeldTypes DEF OwnersLeased, LossWindow
      <3>. QED  BY <2>1, <2>2, <3>1 DEF QueueAssumption
    <2>. QED  BY <2>1, <2>2, HeldTypes DEF TypeOK, OwnersDiffer, OwnersLeased
  <1>5. ASSUME NEW c \in Callers, RecoverUnindex(c)  PROVE OwnersDiffer' /\ OwnersLeased'
    BY <1>5, HeldTypes DEF RecoverUnindex, TypeOK, OwnersDiffer, OwnersLeased
  <1>6. ASSUME NEW c \in Callers, RecoverPush(c)  PROVE OwnersDiffer' /\ OwnersLeased'
    BY <1>6, HeldTypes DEF RecoverPush, NextKey, AfterRecovery, TypeOK, OwnersDiffer, OwnersLeased
  <1>7. ASSUME NEW c \in Workers, Pop(c)  PROVE OwnersDiffer' /\ OwnersLeased'
    BY <1>7, HeldTypes DEF Pop, Callers, TypeOK, OwnersDiffer, OwnersLeased
  <1>8. ASSUME NEW c \in Workers, PopTimeout(c)  PROVE OwnersDiffer' /\ OwnersLeased'
    BY <1>8, HeldTypes DEF PopTimeout, Callers, TypeOK, OwnersDiffer, OwnersLeased
  <1>9. ASSUME NEW c \in Workers, PutBack(c)  PROVE OwnersDiffer' /\ OwnersLeased'
    BY <1>9, HeldTypes DEF PutBack, Callers, TypeOK, OwnersDiffer, OwnersLeased
  <1>10. ASSUME NEW c \in Workers, WriteLease(c)  PROVE OwnersDiffer' /\ OwnersLeased'
    <2>. c \in Callers
      BY DEF Callers
    <2>1. PICK l \in LeaseIds :
            /\ Unused(l)
            /\ leased' = [leased EXCEPT ![l] = Delivered(item[c])]
            /\ Take(c, Delivered(item[c]), l)
      BY <1>10 DEF WriteLease
    <2>2. pc' = [pc EXCEPT ![c] = "index"] /\ lapses' = lapses
      BY <1>10 DEF WriteLease
    <2>. QED  BY <2>1, <2>2, HeldTypes DEF Unused, TypeOK, OwnersDiffer, OwnersLeased
  <1>11. ASSUME NEW c \in Workers, IndexLease(c)  PROVE OwnersDiffer' /\ OwnersLeased'
    BY <1>11, HeldTypes DEF IndexLease, Callers, TypeOK, OwnersDiffer, OwnersLeased
  <1>12. ASSUME NEW c \in Workers, AckDelete(c)  PROVE OwnersDiffer' /\ OwnersLeased'
    <2>1. /\ c \in Callers /\ lease[c] \in LeaseIds /\ pc[c] = "holding"
          /\ leased' = [leased EXCEPT ![lease[c]] = NoItem]
          /\ pc' = [pc EXCEPT ![c] = "ack_unindex"] /\ UNCHANGED <<item, lease, lapses>>
      BY <1>12, HeldTypes DEF AckDelete, Callers
    <2>2. \A d \in Callers \ {c} : pc[d] \in Owning => lease[d] # lease[c]
      BY <2>1 DEF OwnersDiffer
    <2>. QED  BY <2>1, <2>2, HeldTypes DEF TypeOK, OwnersDiffer, OwnersLeased
  <1>13. ASSUME NEW c \in Workers, AckUnindex(c)  PROVE OwnersDiffer' /\ OwnersLeased'
    BY <1>13, HeldTypes DEF AckUnindex, Callers, TypeOK, OwnersDiffer, OwnersLeased
  <1>14. ASSUME NEW c \in Workers, FailDelete(c)  PROVE OwnersDiffer' /\ OwnersLeased'
    <2>1. /\ c \in Callers /\ lease[c] \in LeaseIds /\ pc[c] = "holding"
          /\ leased' = [leased EXCEPT ![lease[c]] = NoItem]
          /\ pc' = [pc EXCEPT ![c] = "fail_unindex"] /\ UNCHANGED <<item, lease, lapses>>
      BY <1>14, HeldTypes DEF FailDelete, Callers
    <2>2. \A d \in Callers \ {c} : pc[d] \in Owning => lease[d] # lease[c]
      BY <2>1 DEF OwnersDiffer
    <2>. QED  BY <2>1, <2>2, HeldTypes DEF TypeOK, OwnersDiffer, OwnersLeased
  <1>15. ASSUME NEW c \in Workers, FailUnindex(c)  PROVE OwnersDiffer' /\ OwnersLeased'
    BY <1>15, HeldTypes DEF FailUnindex, Callers, TypeOK, OwnersDiffer, OwnersLeased
  <1>16. ASSUME NEW c \in Workers, FailPush(c)  PROVE OwnersDiffer' /\ OwnersLeased'
    BY <1>16, HeldTypes DEF FailPush, Callers, TypeOK, OwnersDiffer, OwnersLeased
  <1>17. ASSUME NEW k \in Jobs, Enqueue(k)  PROVE OwnersDiffer' /\ OwnersLeased'
    BY <1>17, HeldTypes DEF Enqueue, TypeOK, OwnersDiffer, OwnersLeased
  <1>18. ASSUME NEW i \in DOMAIN ready, BackoffElapses(i)  PROVE OwnersDiffer' /\ OwnersLeased'
    BY <1>18, HeldTypes DEF BackoffElapses, TypeOK, OwnersDiffer, OwnersLeased
  <1>19. ASSUME NEW l \in LeaseIds, LeaseLapses(l)  PROVE OwnersDiffer' /\ OwnersLeased'
    <2>1. \A d \in Callers : pc[d] \in Owning => item[d] \in Item
      BY HeldTypes DEF LossWindow
    <2>2. /\ leased[l] \in Item /\ UNCHANGED <<leased, pc, item, lease>>
          /\ lapses' = [lapses EXCEPT ![leased[l].job] = @ + 1]
      BY <1>19 DEF LeaseLapses, TypeOK
    <2>3. \A j \in Jobs : lapses'[j] = 0 => lapses[j] = 0
      BY <2>2 DEF TypeOK
    <2>. QED  BY <2>1, <2>2, <2>3 DEF OwnersDiffer, OwnersLeased
  <1>20. ASSUME NEW l \in LeaseIds, StaleKeyLapses(l)  PROVE OwnersDiffer' /\ OwnersLeased'
    BY <1>20, HeldTypes DEF StaleKeyLapses, TypeOK, OwnersDiffer, OwnersLeased
  <1>21. ASSUME NEW c \in Callers, Crash(c)  PROVE OwnersDiffer' /\ OwnersLeased'
    BY <1>21, HeldTypes DEF Crash, TypeOK, OwnersDiffer, OwnersLeased
  <1>22. ASSUME UNCHANGED vars  PROVE OwnersDiffer' /\ OwnersLeased'
    BY <1>22 DEF vars, TypeOK, OwnersDiffer, OwnersLeased
  <1>. QED  BY <1>1, <1>2, <1>3, <1>4, <1>5, <1>6, <1>7, <1>8, <1>9, <1>10, <1>11,
               <1>12, <1>13, <1>14, <1>15, <1>16, <1>17, <1>18, <1>19, <1>20, <1>21, <1>22,
               StepCases

\* A step that leaves the three kinds of place of j alone, or empties some.
LEMMA SoleCopyShrinks ==
  ASSUME NEW j, SoleCopy(j), InReady(j)' => InReady(j),
         \A i, k \in DOMAIN ready' : ready'[i].job = j /\ ready'[k].job = j => i = k,
         \A l \in LeaseIds : Leases(l, j)' => Leases(l, j),
         \A c \in Callers : Carries(c, j)' => Carries(c, j)
  PROVE  SoleCopy(j)'
  BY DEF SoleCopy, InHand, Carries

\* A push of another job's item leaves the entries of j alone.
LEMMA PushOfOther ==
  ASSUME TypeOK, NEW x \in Item, ready' = Append(ready, x), NEW j, x.job # j, SoleCopy(j)
  PROVE  /\ InReady(j)' => InReady(j)
         /\ \A i, k \in DOMAIN ready' : ready'[i].job = j /\ ready'[k].job = j => i = k
  BY PushFacts DEF TypeOK, InReady, SoleCopy

\* A push of the one copy that is in c's memory, or of a first copy.
LEMMA PushOfOnlyCopy ==
  ASSUME TypeOK, NEW x \in Item, ready' = Append(ready, x), ~ InReady(x.job),
         \A l \in LeaseIds : ~ Leases(l, x.job)', ~ InHand(x.job)'
  PROVE  SoleCopy(x.job)'
  <1>1. \A i, k \in DOMAIN ready' : ready'[i].job = x.job /\ ready'[k].job = x.job => i = k
    BY PushFacts DEF TypeOK, InReady
  <1>. QED  BY <1>1 DEF SoleCopy, InHand, Carries

\* History only grows: what was never so has not been so before.
LEMMA HistoryGrows ==
  ASSUME TypeOK, [Next]_vars
  PROVE  /\ enqueued \subseteq enqueued' /\ acked \subseteq acked'
         /\ \A j \in Jobs : lapses'[j] = 0 => lapses[j] = 0
  <1>1. CASE \E l \in LeaseIds : LeaseLapses(l)
    BY <1>1 DEF LeaseLapses, TypeOK, Item
  <1>2. CASE ~ \E l \in LeaseIds : LeaseLapses(l)
    BY <1>2, StepCases DEF vars, history, local, Enqueue, Scan, RecoverGet, RecoverDrop,
       RecoverDelete, RecoverUnindex, RecoverPush, Pop, PopTimeout, PutBack, WriteLease,
       IndexLease, AckDelete, AckUnindex, FailDelete, FailUnindex, FailPush,
       BackoffElapses, StaleKeyLapses, Crash
  <1>. QED  BY <1>1, <1>2

LEMMA SoleCopyStep ==
  ASSUME QueueAssumption, TypeOK, CopyInv, [Next]_vars, NEW j \in Jobs, lapses'[j] = 0
  PROVE  SoleCopy(j)'
  <1>. USE DEF Goto, Take, Finish, redis, local, history, InMemoryOnly
  <1>a. lapses[j] = 0
    BY HistoryGrows
  <1>b. SoleCopy(j)
    BY <1>a DEF CopyInv, SoleCopies
  <1>1. ASSUME NEW c \in Callers, Scan(c)  PROVE SoleCopy(j)'
    <2>1. UNCHANGED ready /\ \A l \in LeaseIds : Leases(l, j)' => Leases(l, j)
      BY <1>1, HeldTypes DEF Scan, TypeOK, Leases
    <2>2. \A d \in Callers : Carries(d, j)' => Carries(d, j)
      BY <1>1 DEF Scan, AfterRecovery, TypeOK, Carries
    <2>. QED  BY <1>b, <2>1, <2>2, SoleCopyShrinks DEF SoleCopy, InReady
  <1>2. ASSUME NEW c \in Callers, RecoverGet(c)  PROVE SoleCopy(j)'
    <2>1. UNCHANGED ready /\ \A l \in LeaseIds : Leases(l, j)' => Leases(l, j)
      BY <1>2, HeldTypes DEF RecoverGet, TypeOK, Leases
    <2>2. \A d \in Callers : Carries(d, j)' => Carries(d, j)
      BY <1>2 DEF RecoverGet, TypeOK, Carries
    <2>. QED  BY <1>b, <2>1, <2>2, SoleCopyShrinks DEF SoleCopy, InReady
  <1>3. ASSUME NEW c \in Callers, RecoverDrop(c)  PROVE SoleCopy(j)'
    <2>1. UNCHANGED ready /\ \A l \in LeaseIds : Leases(l, j)' => Leases(l, j)
      BY <1>3, HeldTypes DEF RecoverDrop, TypeOK, Leases
    <2>2. \A d \in Callers : Carries(d, j)' => Carries(d, j)
      BY <1>3 DEF RecoverDrop, NextKey, AfterRecovery, TypeOK, Carries
    <2>. QED  BY <1>b, <2>1, <2>2, SoleCopyShrinks DEF SoleCopy, InReady
  <1>4. ASSUME NEW c \in Callers, RecoverDelete(c)  PROVE SoleCopy(j)'
    <2>1. UNCHANGED ready /\ \A l \in LeaseIds : Leases(l, j)' => Leases(l, j)
      BY <1>4, HeldTypes DEF RecoverDelete, TypeOK, Leases
    <2>0. item[c].job # j
      BY <1>a, <1>4 DEF RecoverDelete, CopyInv, RecoveredLapsed
    <2>2. \A d \in Callers : Carries(d, j)' => Carries(d, j)
      BY <1>4, <2>0 DEF RecoverDelete, TypeOK, Carries
    <2>. QED  BY <1>b, <2>1, <2>2, SoleCopyShrinks DEF SoleCopy, InReady
  <1>5. ASSUME NEW c \in Callers, RecoverUnindex(c)  PROVE SoleCopy(j)'
    <2>1. UNCHANGED ready /\ \A l \in LeaseIds : Leases(l, j)' => Leases(l, j)
      BY <1>5, HeldTypes DEF RecoverUnindex, TypeOK, Leases
    <2>2. \A d \in Callers : Carries(d, j)' => Carries(d, j)
      BY <1>5 DEF RecoverUnindex, TypeOK, Carries
    <2>. QED  BY <1>b, <2>1, <2>2, SoleCopyShrinks DEF SoleCopy, InReady
  <1>6. ASSUME NEW c \in Callers, RecoverPush(c)  PROVE SoleCopy(j)'
    <2>. PICK x \in Item : x = item[c]
      BY <1>6, HeldTypes DEF RecoverPush, LossWindow
    <2>1. ready' = Append(ready, x) /\ x.job # j
      BY <1>a, <1>6 DEF RecoverPush, CopyInv, RecoveredLapsed
    <2>2. \A l \in LeaseIds : Leases(l, j)' => Leases(l, j)
      BY <1>6 DEF RecoverPush, Leases
    <2>3. \A d \in Callers : Carries(d, j)' => Carries(d, j)
      BY <1>6 DEF RecoverPush, NextKey, AfterRecovery, TypeOK, Carries
    <2>. QED  BY <1>b, <2>1, <2>2, <2>3, PushOfOther, SoleCopyShrinks
  <1>7. ASSUME NEW c \in Workers, Pop(c)  PROVE SoleCopy(j)'
    <2>. c \in Callers
      BY DEF Callers
    <2>. PICK x \in Item : x = Head(ready)
      BY <1>7, PopFacts DEF Pop, TypeOK
    <2>1. /\ 1 \in DOMAIN ready /\ x = ready[1]
          /\ \A i \in DOMAIN ready' :
               i + 1 \in DOMAIN ready /\ i + 1 # 1 /\ ready'[i] = ready[i + 1]
          /\ \A i, k \in DOMAIN ready' : i + 1 = k + 1 => i = k
      <3>1. Tail(ready) \in Seq(Item) /\ ready' = Tail(ready)
        BY <1>7, PopFacts DEF Pop, TypeOK
      <3>2. DOMAIN ready' \subseteq Nat
        BY <3>1, LenProperties
      <3>. QED  BY <1>7, <3>2, PopFacts DEF Pop, TypeOK
    <2>2. /\ leased' = leased /\ item'[c] = x /\ pc'[c] \in {"lease", "put_back"}
          /\ \A d \in Callers \ {c} : Carries(d, j)' <=> Carries(d, j)
          /\ \A l \in LeaseIds : Leases(l, j)' <=> Leases(l, j)
      BY <1>7 DEF Pop, TypeOK, Carries, Leases
    <2>3. \A i, k \in DOMAIN ready' : ready'[i].job = j /\ ready'[k].job = j => i = k
      BY <1>b, <2>1 DEF SoleCopy
    <2>4. InReady(j)' => InReady(j)
      BY <2>1 DEF InReady
    <2>5. CASE x.job # j
      <3>1. \A d \in Callers : Carries(d, j)' => Carries(d, j)
        BY <2>2, <2>5 DEF Carries
      <3>. QED  BY <1>b, <2>2, <2>3, <2>4, <3>1, SoleCopyShrinks
    <2>6. CASE x.job = j
      <3>1. InReady(j) /\ ~ InReady(j)'
        BY <1>b, <2>1, <2>6 DEF SoleCopy, InReady
      <3>2. (\A l \in LeaseIds : ~ Leases(l, j)') /\ (\A d \in Callers \ {c} : ~ Carries(d, j)')
        BY <1>b, <2>2, <3>1 DEF SoleCopy, InHand, Carries
      <3>. QED  BY <2>3, <3>1, <3>2 DEF SoleCopy
    <2>. QED  BY <2>5, <2>6
  <1>8. ASSUME NEW c \in Workers, PopTimeout(c)  PROVE SoleCopy(j)'
    <2>. c \in Callers
      BY DEF Callers
    <2>1. UNCHANGED ready /\ \A l \in LeaseIds : Leases(l, j)' => Leases(l, j)
      BY <1>8, HeldTypes DEF PopTimeout, TypeOK, Leases
    <2>2. \A d \in Callers : Carries(d, j)' => Carries(d, j)
      BY <1>8 DEF PopTimeout, TypeOK, Carries
    <2>. QED  BY <1>b, <2>1, <2>2, SoleCopyShrinks DEF SoleCopy, InReady
  <1>9. ASSUME NEW c \in Workers, PutBack(c)  PROVE SoleCopy(j)'
    <2>. c \in Callers
      BY DEF Callers
    <2>. PICK x \in Item : x = item[c] /\ x.job = item[c].job
      BY <1>9, HeldTypes DEF PutBack, LossWindow, Item
    <2>1. /\ leased' = leased /\ pc'[c] = "idle"
          /\ \A d \in Callers \ {c} : Carries(d, j)' <=> Carries(d, j)
          /\ \A l \in LeaseIds : Leases(l, j)' <=> Leases(l, j)
      BY <1>9 DEF PutBack, TypeOK, Carries, Leases
    <2>2. \A d \in Callers : Carries(d, j)' => Carries(d, j)
      BY <2>1 DEF Carries
    <2>3. CASE ready' = Append(ready, x) /\ x.job # j
      BY <1>b, <2>1, <2>2, <2>3, PushOfOther, SoleCopyShrinks
    <2>4. CASE ready' = Append(ready, x) /\ x.job = j
      <3>1. Carries(c, j)
        BY <1>9, <2>4 DEF PutBack, Carries
      <3>2. ~ InReady(j) /\ (\A l \in LeaseIds : ~ Leases(l, j)') /\ ~ InHand(j)'
        BY <1>b, <2>1, <3>1 DEF SoleCopy, InHand, Carries
      <3>. QED  BY <2>4, <3>2, PushOfOnlyCopy
    <2>. QED  BY <1>9, <2>3, <2>4 DEF PutBack
  <1>10. ASSUME NEW c \in Workers, WriteLease(c)  PROVE SoleCopy(j)'
    <2>. c \in Callers
      BY DEF Callers
    <2>. PICK x \in Item : x = Delivered(item[c]) /\ x.job = item[c].job
      BY <1>10, HeldTypes, DeliveredFacts DEF WriteLease, LossWindow
    <2>1. PICK l \in LeaseIds : Unused(l) /\ leased' = [leased EXCEPT ![l] = x] /\ Take(c, x, l)
      BY <1>10 DEF WriteLease
    <2>2. pc[c] = "lease" /\ pc' = [pc EXCEPT ![c] = "index"] /\ ready' = ready
      BY <1>10 DEF WriteLease
    <2>3. /\ ~ Carries(c, j)'
          /\ \A d \in Callers \ {c} : Carries(d, j)' <=> Carries(d, j)
          /\ \A m \in LeaseIds \ {l} : Leases(m, j)' <=> Leases(m, j)
      BY <2>1, <2>2 DEF TypeOK, Carries, Leases
    <2>4. CASE x.job # j
      <3>1. ~ Leases(l, j)'
        BY <2>1, <2>4 DEF TypeOK, Leases
      <3>. QED  BY <1>b, <2>2, <2>3, <3>1, SoleCopyShrinks DEF SoleCopy, InReady
    <2>5. CASE x.job = j
      <3>1. Carries(c, j)
        BY <2>2, <2>5 DEF Carries
      <3>2. ~ InReady(j) /\ \A m \in LeaseIds : ~ Leases(m, j)
        BY <1>b, <3>1 DEF SoleCopy, InHand, Carries
      <3>3. ~ InReady(j)' /\ ~ InHand(j)'
        BY <1>b, <2>2, <2>3, <3>1, <3>2 DEF SoleCopy, InReady, InHand, Carries
      <3>. QED  BY <2>2, <2>3, <3>2, <3>3 DEF SoleCopy, InReady, InHand, Carries
    <2>. QED  BY <2>4, <2>5
  <1>11. ASSUME NEW c \in Workers, IndexLease(c)  PROVE SoleCopy(j)'
    <2>. c \in Callers
      BY DEF Callers
    <2>1. UNCHANGED ready /\ \A l \in LeaseIds : Leases(l, j)' => Leases(l, j)
      BY <1>11, HeldTypes DEF IndexLease, TypeOK, Leases
    <2>2. \A d \in Callers : Carries(d, j)' => Carries(d, j)
      BY <1>11 DEF IndexLease, TypeOK, Carries
    <2>. QED  BY <1>b, <2>1, <2>2, SoleCopyShrinks DEF SoleCopy, InReady
  <1>12. ASSUME NEW c \in Workers, AckDelete(c)  PROVE SoleCopy(j)'
    <2>. c \in Callers
      BY DEF Callers
    <2>1. UNCHANGED ready /\ \A l \in LeaseIds : Leases(l, j)' => Leases(l, j)
      BY <1>12, HeldTypes DEF AckDelete, TypeOK, Leases
    <2>2. \A d \in Callers : Carries(d, j)' => Carries(d, j)
      BY <1>12 DEF AckDelete, TypeOK, Carries
    <2>. QED  BY <1>b, <2>1, <2>2, SoleCopyShrinks DEF SoleCopy, InReady
  <1>13. ASSUME NEW c \in Workers, AckUnindex(c)  PROVE SoleCopy(j)'
    <2>. c \in Callers
      BY DEF Callers
    <2>1. UNCHANGED ready /\ \A l \in LeaseIds : Leases(l, j)' => Leases(l, j)
      BY <1>13, HeldTypes DEF AckUnindex, TypeOK, Leases
    <2>2. \A d \in Callers : Carries(d, j)' => Carries(d, j)
      BY <1>13 DEF AckUnindex, TypeOK, Carries
    <2>. QED  BY <1>b, <2>1, <2>2, SoleCopyShrinks DEF SoleCopy, InReady
  <1>14. ASSUME NEW c \in Workers, FailDelete(c)  PROVE SoleCopy(j)'
    <2>. c \in Callers
      BY DEF Callers
    <2>1. /\ pc[c] = "holding" /\ lease[c] \in LeaseIds /\ item[c] \in Item
          /\ leased' = [leased EXCEPT ![lease[c]] = NoItem]
          /\ pc' = [pc EXCEPT ![c] = "fail_unindex"] /\ UNCHANGED <<ready, item>>
      BY <1>14, HeldTypes DEF FailDelete
    <2>2. /\ \A m \in LeaseIds : Leases(m, j)' => Leases(m, j) /\ m # lease[c]
          /\ \A d \in Callers \ {c} : Carries(d, j)' <=> Carries(d, j)
      <3>1. \A m \in LeaseIds : Leases(m, j)' => Leases(m, j) /\ m # lease[c]
        BY <2>1 DEF TypeOK, Leases
      <3>2. \A d \in Callers \ {c} : Carries(d, j)' <=> Carries(d, j)
        BY <2>1 DEF TypeOK, Carries
      <3>. QED  BY <3>1, <3>2
    <2>3. CASE item[c].job # j
      <3>1. ~ Carries(c, j)'
        BY <2>1, <2>3 DEF Carries
      <3>. QED  BY <1>b, <2>1, <2>2, <3>1, SoleCopyShrinks DEF SoleCopy, InReady
    <2>4. CASE item[c].job = j
      <3>1. Leases(lease[c], j)
        BY <1>a, <2>1, <2>4 DEF QueueAssumption, CopyInv, OwnersLeased, Owning, Leases
      <3>2. ~ InReady(j) /\ ~ InHand(j) /\ \A m \in LeaseIds : Leases(m, j) => m = lease[c]
        BY <1>b, <2>1, <3>1 DEF SoleCopy
      <3>3. (\A m \in LeaseIds : ~ Leases(m, j)') /\ (\A d \in Callers \ {c} : ~ Carries(d, j)')
        BY <2>2, <3>2 DEF InHand, Carries
      <3>. QED  BY <1>b, <2>1, <3>2, <3>3 DEF SoleCopy, InReady
    <2>. QED  BY <2>3, <2>4
  <1>15. ASSUME NEW c \in Workers, FailUnindex(c)  PROVE SoleCopy(j)'
    <2>. c \in Callers
      BY DEF Callers
    <2>1. UNCHANGED ready /\ \A l \in LeaseIds : Leases(l, j)' => Leases(l, j)
      BY <1>15, HeldTypes DEF FailUnindex, TypeOK, Leases
    <2>2. \A d \in Callers : Carries(d, j)' => Carries(d, j)
      BY <1>15 DEF FailUnindex, TypeOK, Carries
    <2>. QED  BY <1>b, <2>1, <2>2, SoleCopyShrinks DEF SoleCopy, InReady
  <1>16. ASSUME NEW c \in Workers, FailPush(c)  PROVE SoleCopy(j)'
    <2>. c \in Callers
      BY DEF Callers
    <2>. PICK y \in Item : y = item[c]
      BY <1>16, HeldTypes DEF FailPush, LossWindow
    <2>0. PICK x \in Item : /\ x.job = item[c].job
                            /\ ready' = ready \/ ready' = Append(ready, x)
      <3>1. [y EXCEPT !.due = FALSE] \in Item /\ [y EXCEPT !.due = FALSE].job = y.job
        BY DEF Item
      <3>. QED  BY <1>16, <3>1 DEF FailPush
    <2>1. /\ leased' = leased /\ pc'[c] = "idle"
          /\ \A d \in Callers \ {c} : Carries(d, j)' <=> Carries(d, j)
          /\ \A l \in LeaseIds : Leases(l, j)' <=> Leases(l, j)
      BY <1>16 DEF FailPush, TypeOK, Carries, Leases
    <2>2. \A d \in Callers : Carries(d, j)' => Carries(d, j)
      BY <2>1 DEF Carries
    <2>3. CASE ready' = Append(ready, x) /\ x.job # j
      <3>1. /\ InReady(j)' => InReady(j)
            /\ \A i, k \in DOMAIN ready' : ready'[i].job = j /\ ready'[k].job = j => i = k
        BY <1>b, <2>3, PushOfOther
      <3>. QED  BY <1>b, <2>1, <2>2, <3>1, SoleCopyShrinks
    <2>4. CASE ready' = Append(ready, x) /\ x.job = j
      <3>1. Carries(c, j)
        BY <1>16, <2>0, <2>4 DEF FailPush, Carries
      <3>2. ~ InReady(j) /\ (\A l \in LeaseIds : ~ Leases(l, j)') /\ ~ InHand(j)'
        BY <1>b, <2>1, <3>1 DEF SoleCopy, InHand, Carries
      <3>. QED  BY <2>4, <3>2, PushOfOnlyCopy
    <2>5. CASE ready' = ready
      BY <1>b, <2>1, <2>2, <2>5, SoleCopyShrinks DEF SoleCopy, InReady
    <2>. QED  BY <2>0, <2>3, <2>4, <2>5
  <1>17. ASSUME NEW k \in Jobs, Enqueue(k)  PROVE SoleCopy(j)'
    <2>. PICK x \in Item : x = [job |-> k, attempt |-> 0, due |-> TRUE]
      BY DEF Item
    <2>1. /\ ready' = Append(ready, x) /\ x.job = k /\ k \notin enqueued
          /\ UNCHANGED <<leased, pc, item>>
      BY <1>17 DEF Enqueue, Item
    <2>2. CASE k # j
      BY <1>b, <2>1, <2>2, PushOfOther, SoleCopyShrinks DEF Leases, Carries
    <2>3. CASE k = j
      <3>1. ~ InReady(j) /\ (\A l \in LeaseIds : ~ Leases(l, j)) /\ ~ InHand(j)
        BY <2>1, <2>3 DEF CopyInv, ItemsEnqueued, HasItem, LossWindow, InReady, InHand, Leases
      <3>2. (\A l \in LeaseIds : ~ Leases(l, j)') /\ ~ InHand(j)'
        BY <2>1, <3>1 DEF Leases, InHand
      <3>. QED  BY <2>1, <2>3, <3>1, <3>2, PushOfOnlyCopy
    <2>. QED  BY <2>2, <2>3
  <1>18. ASSUME NEW i \in DOMAIN ready, BackoffElapses(i)  PROVE SoleCopy(j)'
    <2>1. /\ InReady(j)' => InReady(j)
          /\ \A m, k \in DOMAIN ready' : ready'[m].job = j /\ ready'[k].job = j => m = k
      BY <1>b, <1>18, DueFacts DEF BackoffElapses, TypeOK, InReady, SoleCopy
    <2>. QED  BY <1>b, <1>18, <2>1, SoleCopyShrinks DEF BackoffElapses, Leases, Carries
  <1>19. ASSUME NEW l \in LeaseIds, LeaseLapses(l)  PROVE SoleCopy(j)'
    <2>1. UNCHANGED ready /\ \A k \in LeaseIds : Leases(k, j)' => Leases(k, j)
      BY <1>19, HeldTypes DEF LeaseLapses, TypeOK, Leases
    <2>2. \A d \in Callers : Carries(d, j)' => Carries(d, j)
      BY <1>19 DEF LeaseLapses, TypeOK, Carries
    <2>. QED  BY <1>b, <2>1, <2>2, SoleCopyShrinks DEF SoleCopy, InReady
  <1>20. ASSUME NEW l \in LeaseIds, StaleKeyLapses(l)  PROVE SoleCopy(j)'
    <2>1. UNCHANGED ready /\ \A k \in LeaseIds : Leases(k, j)' => Leases(k, j)
      BY <1>20, HeldTypes DEF StaleKeyLapses, TypeOK, Leases
    <2>2. \A d \in Callers : Carries(d, j)' => Carries(d, j)
      BY <1>20 DEF StaleKeyLapses, TypeOK, Carries
    <2>. QED  BY <1>b, <2>1, <2>2, SoleCopyShrinks DEF SoleCopy, InReady
  <1>21. ASSUME NEW c \in Callers, Crash(c)  PROVE SoleCopy(j)'
    <2>1. UNCHANGED ready /\ \A l \in LeaseIds : Leases(l, j)' => Leases(l, j)
      BY <1>21, HeldTypes DEF Crash, TypeOK, Leases
    <2>2. \A d \in Callers : Carries(d, j)' => Carries(d, j)
      BY <1>21 DEF Crash, TypeOK, Carries
    <2>. QED  BY <1>b, <2>1, <2>2, SoleCopyShrinks DEF SoleCopy, InReady
  <1>22. ASSUME UNCHANGED vars  PROVE SoleCopy(j)'
    BY <1>b, <1>22 DEF vars, SoleCopy, InReady, InHand, Leases, Carries
  <1>. QED  BY <1>1, <1>2, <1>3, <1>4, <1>5, <1>6, <1>7, <1>8, <1>9, <1>10, <1>11,
               <1>12, <1>13, <1>14, <1>15, <1>16, <1>17, <1>18, <1>19, <1>20, <1>21, <1>22,
               StepCases

-----------------------------------------------------------------------------
(* A settled job.  Without lapses, acknowledging or dead-lettering a job     *)
(* removes its last copy, and nothing brings one back.                      *)

NoCopy(j)  == ~ InReady(j) /\ ~ InHand(j) /\ \A l \in LeaseIds : ~ Leases(l, j)
Settled(j) == j \in acked \/ InDead(j)

SettledAlone ==
  /\ \A j \in Jobs : Settled(j) => j \in enqueued
  /\ \A j \in Jobs : lapses[j] = 0 /\ Settled(j) => NoCopy(j)

\* A push of an item of another job brings no copy of j into the ready list.
LEMMA NotPushed ==
  ASSUME TypeOK, NEW x \in Item, ready' = Append(ready, x), NEW j, x.job # j, ~ InReady(j)
  PROVE  ~ InReady(j)'
  BY PushFacts DEF TypeOK, InReady

\* Every copy comes from a copy, the enqueue apart.
LEMMA NoCopyStep ==
  ASSUME QueueAssumption, TypeOK, CopyInv, [Next]_vars,
         NEW j \in Jobs, j \in enqueued, lapses[j] = 0, NoCopy(j)
  PROVE  NoCopy(j)'
  <1>. USE DEF Goto, Take, Finish, redis, local, history, InMemoryOnly, NoCopy
  <1>1. ASSUME NEW k \in Jobs, Enqueue(k)  PROVE NoCopy(j)'
    <2>. PICK x \in Item : x = [job |-> k, attempt |-> 0, due |-> TRUE]
      BY DEF Item
    <2>1. ready' = Append(ready, x) /\ x.job # j /\ UNCHANGED <<leased, pc, item>>
      BY <1>1 DEF Enqueue
    <2>2. ~ InReady(j)'
      BY <2>1, NotPushed
    <2>. QED  BY <2>1, <2>2 DEF InHand, Leases
  <1>2. ASSUME NEW c \in Callers, Scan(c)  PROVE NoCopy(j)'
    BY <1>2 DEF Scan, AfterRecovery, TypeOK, InReady, InHand, Leases
  <1>3. ASSUME NEW c \in Callers, RecoverGet(c)  PROVE NoCopy(j)'
    BY <1>3 DEF RecoverGet, TypeOK, InReady, InHand, Leases
  <1>4. ASSUME NEW c \in Callers, RecoverDrop(c)  PROVE NoCopy(j)'
    BY <1>4 DEF RecoverDrop, NextKey, AfterRecovery, TypeOK, InReady, InHand, Leases
  <1>5. ASSUME NEW c \in Callers, RecoverDelete(c)  PROVE NoCopy(j)'
    <2>1. item[c].job # j /\ lease[c] \in LeaseIds
      BY <1>5, HeldTypes DEF RecoverDelete, CopyInv, RecoveredLapsed
    <2>. QED  BY <1>5, <2>1 DEF RecoverDelete, TypeOK, InReady, InHand, Leases
  <1>6. ASSUME NEW c \in Callers, RecoverUnindex(c)  PROVE NoCopy(j)'
    BY <1>6 DEF RecoverUnindex, TypeOK, InReady, InHand, Leases
  <1>7. ASSUME NEW c \in Callers, RecoverPush(c)  PROVE NoCopy(j)'
    <2>. PICK x \in Item : x = item[c]
      BY <1>7, HeldTypes DEF RecoverPush, LossWindow
    <2>1. x.job # j
      BY <1>7 DEF RecoverPush, InHand
    <2>2. ~ InReady(j)'
      BY <1>7, <2>1, NotPushed DEF RecoverPush
    <2>. QED  BY <1>7, <2>2 DEF RecoverPush, NextKey, AfterRecovery, TypeOK, InHand, Leases
  <1>8. ASSUME NEW c \in Workers, Pop(c)  PROVE NoCopy(j)'
    <2>. c \in Callers
      BY DEF Callers
    <2>1. Head(ready).job # j /\ ~ InReady(j)'
      BY <1>8, PopFacts DEF Pop, TypeOK, InReady
    <2>. QED  BY <1>8, <2>1 DEF Pop, TypeOK, InHand, Leases
  <1>9. ASSUME NEW c \in Workers, PopTimeout(c)  PROVE NoCopy(j)'
    BY <1>9 DEF PopTimeout, Callers, TypeOK, InReady, InHand, Leases
  <1>10. ASSUME NEW c \in Workers, PutBack(c)  PROVE NoCopy(j)'
    <2>. c \in Callers
      BY DEF Callers
    <2>. PICK x \in Item : x = item[c]
      BY <1>10, HeldTypes DEF PutBack, LossWindow
    <2>1. x.job # j
      BY <1>10 DEF PutBack, InHand
    <2>2. ~ InReady(j)'
      BY <1>10, <2>1, NotPushed DEF PutBack
    <2>. QED  BY <1>10, <2>2 DEF PutBack, TypeOK, InHand, Leases
  <1>11. ASSUME NEW c \in Workers, WriteLease(c)  PROVE NoCopy(j)'
    <2>. c \in Callers
      BY DEF Callers
    <2>1. item[c].job # j /\ Delivered(item[c]).job = item[c].job
      BY <1>11, HeldTypes, DeliveredFacts DEF WriteLease, InHand, LossWindow
    <2>2. PICK l \in LeaseIds : /\ leased' = [leased EXCEPT ![l] = Delivered(item[c])]
                                /\ Take(c, Delivered(item[c]), l)
      BY <1>11 DEF WriteLease
    <2>. QED  BY <1>11, <2>1, <2>2 DEF WriteLease, TypeOK, InReady, InHand, Leases
  <1>12. ASSUME NEW c \in Workers, IndexLease(c)  PROVE NoCopy(j)'
    BY <1>12 DEF IndexLease, Callers, TypeOK, InReady, InHand, Leases
  <1>13. ASSUME NEW c \in Workers, AckDelete(c)  PROVE NoCopy(j)'
    BY <1>13, HeldTypes DEF AckDelete, Callers, TypeOK, InReady, InHand, Leases
  <1>14. ASSUME NEW c \in Workers, AckUnindex(c)  PROVE NoCopy(j)'
    BY <1>14 DEF AckUnindex, Callers, TypeOK, InReady, InHand, Leases
  <1>15. ASSUME NEW c \in Workers, FailDelete(c)  PROVE NoCopy(j)'
    <2>. c \in Callers
      BY DEF Callers
    <2>1. item[c] \in Item /\ lease[c] \in LeaseIds /\ pc[c] = "holding"
      BY <1>15, HeldTypes DEF FailDelete
    <2>2. item[c].job # j
      BY <2>1 DEF QueueAssumption, CopyInv, OwnersLeased, Owning, Leases
    <2>. QED  BY <1>15, <2>1, <2>2 DEF FailDelete, TypeOK, InReady, InHand, Leases
  <1>16. ASSUME NEW c \in Workers, FailUnindex(c)  PROVE NoCopy(j)'
    BY <1>16 DEF FailUnindex, Callers, TypeOK, InReady, InHand, Leases
  <1>17. ASSUME NEW c \in Workers, FailPush(c)  PROVE NoCopy(j)'
    <2>. c \in Callers
      BY DEF Callers
    <2>. PICK y \in Item : y = item[c]
      BY <1>17, HeldTypes DEF FailPush, LossWindow
    <2>. PICK x \in Item : x = [y EXCEPT !.due = FALSE]
      BY DEF Item
    <2>1. x.job # j
      BY <1>17 DEF FailPush, InHand, Item
    <2>2. ready' = ready \/ ready' = Append(ready, x)
      BY <1>17 DEF FailPush
    <2>3. ~ InReady(j)'
      BY <2>1, <2>2, NotPushed DEF InReady
    <2>. QED  BY <1>17, <2>3 DEF FailPush, TypeOK, InHand, Leases
  <1>18. ASSUME NEW i \in DOMAIN ready, BackoffElapses(i)  PROVE NoCopy(j)'
    <2>1. ~ InReady(j)'
      BY <1>18, DueFacts DEF BackoffElapses, TypeOK, InReady
    <2>. QED  BY <1>18, <2>1 DEF BackoffElapses, InHand, Leases
  <1>19. ASSUME NEW l \in LeaseIds, LeaseLapses(l) \/ StaleKeyLapses(l)  PROVE NoCopy(j)'
    BY <1>19 DEF LeaseLapses, StaleKeyLapses, InReady, InHand, Leases
  <1>20. ASSUME NEW c \in Callers, Crash(c)  PROVE NoCopy(j)'
    BY <1>20 DEF Crash, TypeOK, InReady, InHand, Leases
  <1>21. ASSUME UNCHANGED vars  PROVE NoCopy(j)'
    BY <1>21 DEF vars, InReady, InHand, Leases
  <1>. QED  BY <1>1, <1>2, <1>3, <1>4, <1>5, <1>6, <1>7, <1>8, <1>9, <1>10, <1>11,
               <1>12, <1>13, <1>14, <1>15, <1>16, <1>17, <1>18, <1>19, <1>20, <1>21, StepCases

\* A job settles by the HDEL of an ack or the dead-letter push of a fail.
LEMMA NewlySettled ==
  ASSUME QueueAssumption, TypeOK, [Next]_vars, NEW j \in Jobs, Settled(j)', ~ Settled(j)
  PROVE  \E c \in Workers : /\ item[c] \in Item /\ item[c].job = j
                            /\ \/ AckDelete(c)
                               \/ FailPush(c) /\ ready' = ready
  <1>. USE DEF redis, local, history, Settled, InDead
  <1>1. CASE \E c \in Workers : AckDelete(c)
    BY <1>1, HeldTypes DEF AckDelete, Callers
  <1>2. CASE \E c \in Workers : FailPush(c)
    BY <1>2, HeldTypes DEF FailPush, Callers, LossWindow, InMemoryOnly
  <1>3. CASE acked' = acked /\ dead' = dead
    BY <1>3
  <1>. QED  BY <1>1, <1>2, <1>3, StepCases DEF vars, Enqueue, Scan, RecoverGet, RecoverDrop,
       RecoverDelete, RecoverUnindex, RecoverPush, Pop, PopTimeout, PutBack, WriteLease,
       IndexLease, AckUnindex, FailDelete, FailUnindex,
       BackoffElapses, LeaseLapses, StaleKeyLapses, Crash

LEMMA SettledAloneStep ==
  ASSUME QueueAssumption, TypeOK, CopyInv, SettledAlone, [Next]_vars
  PROVE  SettledAlone'
  <1>. USE DEF Goto, Take, Finish, redis, local, history
  <1>1. ASSUME NEW j \in Jobs, Settled(j)'  PROVE j \in enqueued'
    <2>1. CASE Settled(j)
      BY <2>1, HistoryGrows DEF SettledAlone
    <2>2. CASE ~ Settled(j)
      <3>1. PICK c \in Workers : item[c].job = j /\ (AckDelete(c) \/ FailPush(c))
        BY <1>1, <2>2, NewlySettled
      <3>2. HasItem(c) /\ c \in Callers
        BY <3>1 DEF AckDelete, FailPush, HasItem, LossWindow, InMemoryOnly, Callers
      <3>. QED  BY <3>1, <3>2, HistoryGrows DEF CopyInv, ItemsEnqueued
    <2>. QED  BY <2>1, <2>2
  <1>2. ASSUME NEW j \in Jobs, Settled(j)', lapses'[j] = 0  PROVE NoCopy(j)'
    <2>0. lapses[j] = 0 /\ SoleCopy(j)
      BY <1>2, HistoryGrows DEF CopyInv, SoleCopies
    <2>1. CASE Settled(j)
      BY <2>0, <2>1, NoCopyStep DEF SettledAlone
    <2>2. CASE ~ Settled(j)
      <3>1. PICK c \in Workers : /\ item[c] \in Item /\ item[c].job = j
                                 /\ AckDelete(c) \/ (FailPush(c) /\ ready' = ready)
        BY <1>2, <2>2, NewlySettled
      <3>. c \in Callers
        BY DEF Callers
      <3>2. CASE AckDelete(c)
        <4>1. Leases(lease[c], j) /\ lease[c] \in LeaseIds
          BY <2>0, <3>1, <3>2, HeldTypes
             DEF AckDelete, QueueAssumption, CopyInv, OwnersLeased, Owning, Leases
        <4>2. ~ InReady(j) /\ ~ InHand(j) /\ \A l \in LeaseIds : Leases(l, j) => l = lease[c]
          BY <2>0, <4>1 DEF SoleCopy
        <4>3. ~ InReady(j)' /\ \A l \in LeaseIds : ~ Leases(l, j)'
          BY <3>2, <4>1, <4>2 DEF AckDelete, TypeOK, InReady, Leases
        <4>4. ~ InHand(j)'
          BY <3>2, <4>2 DEF AckDelete, TypeOK, InHand, InMemoryOnly
        <4>. QED  BY <4>3, <4>4 DEF NoCopy
      <3>3. CASE FailPush(c) /\ ready' = ready
        <4>1. Carries(c, j)
          BY <3>1, <3>3 DEF FailPush, Carries, InMemoryOnly
        <4>2. /\ ~ InReady(j) /\ (\A l \in LeaseIds : ~ Leases(l, j))
              /\ \A d \in Callers : Carries(d, j) => d = c
          BY <2>0, <4>1 DEF SoleCopy, InHand, Carries
        <4>3. ~ InReady(j)' /\ \A l \in LeaseIds : ~ Leases(l, j)'
          BY <3>3, <4>2 DEF FailPush, InReady, Leases
        <4>4. ~ InHand(j)'
          BY <3>3, <4>2 DEF FailPush, TypeOK, InHand, Carries, InMemoryOnly
        <4>. QED  BY <4>3, <4>4 DEF NoCopy
      <3>. QED  BY <3>1, <3>2, <3>3
    <2>. QED  BY <2>1, <2>2
  <1>. QED  BY <1>1, <1>2 DEF SettledAlone

\* What an item of a worker that has leased it says: it was delivered.
RetriesCounted ==
  \A w \in Workers :
    pc[w] \in {"index", "holding", "fail_unindex", "fail_push"} => item[w].attempt > 0

LEMMA RetriesCountedStep ==
  ASSUME QueueAssumption, TypeOK, RetriesCounted, [Next]_vars
  PROVE  RetriesCounted'
  <1>. USE DEF Goto, Take, Finish, redis, local, history
  <1>1. ASSUME NEW c \in Callers,
               Scan(c) \/ RecoverGet(c) \/ RecoverDrop(c) \/ RecoverDelete(c)
                 \/ RecoverUnindex(c) \/ RecoverPush(c)
        PROVE  RetriesCounted'
    <2>1. /\ \A d \in Callers \ {c} : pc'[d] = pc[d] /\ item'[d] = item[d]
          /\ pc'[c] \in RecoverPCs \union {"pop", "idle"}
      <3>. USE DEF TypeOK, RecoverPCs
      <3>1. CASE Scan(c) \/ RecoverDelete(c) \/ RecoverUnindex(c)
        BY <3>1 DEF Scan, RecoverDelete, RecoverUnindex, AfterRecovery
      <3>2. CASE RecoverGet(c)
        BY <3>2 DEF RecoverGet
      <3>3. CASE RecoverDrop(c) \/ RecoverPush(c)
        BY <3>3 DEF RecoverDrop, RecoverPush, NextKey, AfterRecovery
      <3>. QED  BY <1>1, <3>1, <3>2, <3>3
    <2>. QED  BY <2>1 DEF RetriesCounted, RecoverPCs, Callers
  <1>2. ASSUME NEW c \in Workers, WriteLease(c)  PROVE RetriesCounted'
    <2>1. item[c] \in Item /\ Delivered(item[c]).attempt > 0
      <3>1. item[c] \in Item
        BY <1>2, HeldTypes DEF WriteLease, LossWindow, InMemoryOnly, Callers
      <3>. QED  BY <3>1, DeliveredFacts DEF Item
    <2>. QED  BY <1>2, <2>1 DEF WriteLease, Callers, TypeOK, RetriesCounted
  <1>3. ASSUME NEW c \in Workers,
               Pop(c) \/ PopTimeout(c) \/ PutBack(c) \/ IndexLease(c) \/ AckDelete(c)
                 \/ AckUnindex(c) \/ FailDelete(c) \/ FailUnindex(c) \/ FailPush(c)
        PROVE  RetriesCounted'
    BY <1>3 DEF Pop, PopTimeout, PutBack, IndexLease, AckDelete, AckUnindex, FailDelete,
                FailUnindex, FailPush, Callers, TypeOK, RetriesCounted
  <1>4. ASSUME NEW c \in Callers, Crash(c)  PROVE RetriesCounted'
    BY <1>4 DEF Crash, TypeOK, RetriesCounted
  <1>5. ASSUME UNCHANGED <<pc, item>>  PROVE RetriesCounted'
    BY <1>5 DEF RetriesCounted
  <1>. QED  BY <1>1, <1>2, <1>3, <1>4, <1>5, StepCases
            DEF vars, Enqueue, BackoffElapses, LeaseLapses, StaleKeyLapses

-----------------------------------------------------------------------------
(* The queue invariants together.                                          *)

QueueInv ==
  TypeOK /\ LeaseAgrees /\ AttemptBounds /\ CopyInv /\ SettledAlone /\ RetriesCounted

LEMMA QueueInvInit ==
  ASSUME Init
  PROVE  QueueInv
  <1>. USE EmptySeq DEF Init
  <1>1. LeaseAgrees /\ AttemptBounds /\ RetriesCounted
    BY DEF LeaseAgrees, AttemptBounds, ReadyBound, LeasedBound, HeldBound, TodoOverdue, DeadBound,
           RetriesCounted, Callers
  <1>2. ItemsEnqueued /\ RecoveredLapsed /\ OwnersDiffer /\ OwnersLeased
    BY DEF ItemsEnqueued, RecoveredLapsed, OwnersDiffer, OwnersLeased, Owning, HasItem,
           LossWindow, InMemoryOnly
  <1>3. SoleCopies /\ SettledAlone
    BY DEF SoleCopies, SoleCopy, InReady, InHand, Leases, Carries, InMemoryOnly,
           SettledAlone, Settled, InDead
  <1>. QED  BY <1>1, <1>2, <1>3, TypeInit DEF CopyInv, QueueInv

LEMMA QueueInvStep ==
  ASSUME QueueAssumption, QueueInv, [Next]_vars
  PROVE  QueueInv'
  <1>. USE DEF QueueInv
  <1>1. TypeOK' /\ LeaseAgrees' /\ AttemptBounds' /\ SettledAlone' /\ RetriesCounted'
    BY TypeStep, LeaseAgreesStep, AttemptBoundsStep, SettledAloneStep, RetriesCountedStep
  <1>2. ItemsEnqueued' /\ RecoveredLapsed' /\ OwnersDiffer' /\ OwnersLeased'
    BY ItemsEnqueuedStep, RecoveredLapsedStep, OwnersStep DEF CopyInv
  <1>3. SoleCopies'
    BY SoleCopyStep DEF SoleCopies
  <1>. QED  BY <1>1, <1>2, <1>3 DEF CopyInv

\* Owners of a job that has not lapsed hold leases on it, so the same lease.
LEMMA OneWorkerFromCopies ==
  ASSUME QueueAssumption, QueueInv
  PROVE  OneWorkerPerJob
  <1>1. ASSUME NEW v \in Workers, NEW w \in Workers, v # w,
               pc[v] = "holding", pc[w] = "holding", item[v].job = item[w].job
        PROVE  lapses[item[v].job] > 0
    <2>. USE DEF QueueInv
    <2>. DEFINE j == item[v].job
    <2>1. /\ v \in Callers /\ w \in Callers /\ item[v] \in Item /\ item[w] \in Item
          /\ lease[v] \in LeaseIds /\ lease[w] \in LeaseIds /\ lapses[j] \in Nat /\ j \in Jobs
      BY <1>1, HeldTypes, BudgetTypes DEF Callers
    <2>2. CASE lapses[j] = 0
      <3>1. Leases(lease[v], j) /\ Leases(lease[w], j)
        BY <1>1, <2>1, <2>2 DEF QueueAssumption, CopyInv, OwnersLeased, Owning, Leases
      <3>2. lease[v] = lease[w]
        BY <1>1, <2>1, <2>2, <3>1 DEF CopyInv, SoleCopies, SoleCopy
      <3>. QED  BY <1>1, <2>1, <3>2 DEF CopyInv, OwnersDiffer, Owning
    <2>. QED  BY <2>1, <2>2
  <1>. QED  BY <1>1 DEF OneWorkerPerJob

\* OneWorkerPerJob for every number of workers and leases: as long as no lease
\* on a job lapsed, no interleaving of dequeue, ack, fail and recovery lets two
\* workers run it at once.
THEOREM OneWorkerRunsAJob == Spec => []OneWorkerPerJob
  <1>1. Init => QueueInv
    BY QueueInvInit
  <1>2. QueueInv /\ [Next]_vars => QueueInv'
    BY QueueAssumption, QueueInvStep
  <1>3. QueueInv => OneWorkerPerJob
    BY QueueAssumption, OneWorkerFromCopies
  <1>. QED  BY <1>1, <1>2, <1>3, PTL DEF Spec

-----------------------------------------------------------------------------
(* How many copies of a job there can be.  Each place a copy can be is a    *)
(* set; what a step does to it is bounded by these lemmas.                  *)

\* A count of n is now m: it has risen by at most d.
Rises(m, n, d) == m \in Nat /\ n \in Nat /\ m <= n + d

LEMMA FewerCount ==
  ASSUME NEW T, IsFiniteSet(T), NEW S, S \subseteq T
  PROVE  IsFiniteSet(S) /\ Rises(Cardinality(S), Cardinality(T), 0)
  BY FS_Subset, FS_CardinalityType DEF Rises

LEMMA GainCount ==
  ASSUME NEW T, IsFiniteSet(T), NEW S, NEW x, S \subseteq T \union {x}
  PROVE  Rises(Cardinality(S), Cardinality(T), 1)
  <1>1. /\ IsFiniteSet(T \union {x}) /\ Cardinality(T) \in Nat
        /\ Cardinality(T \union {x}) <= Cardinality(T) + 1
    BY FS_AddElement, FS_CardinalityType
  <1>2. Rises(Cardinality(S), Cardinality(T \union {x}), 0)
    BY <1>1, FewerCount
  <1>. QED  BY <1>1, <1>2 DEF Rises

LEMMA LossCount ==
  ASSUME NEW T, IsFiniteSet(T), NEW x \in T, NEW S, S \subseteq T \ {x}
  PROVE  Rises(Cardinality(S), Cardinality(T), -1)
  <1>1. /\ IsFiniteSet(T \ {x}) /\ Cardinality(T) \in Nat
        /\ Cardinality(T \ {x}) = Cardinality(T) - 1
    BY FS_RemoveElement, FS_CardinalityType
  <1>2. Rises(Cardinality(S), Cardinality(T \ {x}), 0)
    BY <1>1, FewerCount
  <1>. QED  BY <1>1, <1>2 DEF Rises

Procs       == Cardinality(Callers)
FreshOf(j)  == LeasesOf(j) \ overdue
LateOf(j)   == LeasesOf(j) \intersect overdue
Bears(c, j) ==
  /\ item[c] # NoItem /\ item[c].job = j
  /\ \/ pc[c] \in InMemoryOnly
     \/ pc[c] \in {"index", "holding", "recover_del"} /\ leased[lease[c]] = NoItem
BearersOf(j) == {c \in Callers : Bears(c, j)}
AckOf(j)     == acked \intersect {j}

Potential(j) ==
  Cardinality(ReadyOf(j)) + Cardinality(FreshOf(j)) + Procs * Cardinality(LateOf(j))
  + Cardinality(BearersOf(j)) + Cardinality(DeadOf(j)) + Cardinality(AckOf(j))

Limit(j) == 1 + lapses[j] * (Procs - 1)

LEMMA FiniteParts ==
  ASSUME FiniteAssumption, TypeOK, IsFiniteSet(dead), NEW j
  PROVE  /\ IsFiniteSet(ReadyOf(j)) /\ IsFiniteSet(LeasesOf(j)) /\ IsFiniteSet(FreshOf(j))
         /\ IsFiniteSet(LateOf(j))
         /\ IsFiniteSet(BearersOf(j)) /\ IsFiniteSet(DeadOf(j)) /\ IsFiniteSet(AckOf(j))
  <1>1. IsFiniteSet(DOMAIN ready)
    BY LenProperties, FS_Interval DEF TypeOK
  <1>2. ReadyOf(j) \subseteq DOMAIN ready /\ LeasesOf(j) \subseteq LeaseIds
        /\ FreshOf(j) \subseteq LeaseIds
        /\ LateOf(j) \subseteq LeaseIds /\ BearersOf(j) \subseteq Callers
        /\ DeadOf(j) \subseteq dead /\ AckOf(j) \subseteq {j}
    BY DEF ReadyOf, FreshOf, LateOf, LeasesOf, BearersOf, DeadOf, AckOf
  <1>. QED  BY <1>1, <1>2, FS_Subset, FS_Singleton DEF FiniteAssumption

\* Products the counts meet.
LEMMA Products ==
  ASSUME NEW k \in Nat, NEW n \in Nat, NEW m \in Nat
  PROVE  /\ k * n \in Nat
         /\ n <= m => k * n <= k * m
         /\ n + 1 <= m => k * n + k <= k * m
         /\ k * (n + 1) = k * n + k
         /\ n * (k - 1) \in Int /\ (n + 1) * (k - 1) = n * (k - 1) + (k - 1)
  OBVIOUS

\* What the count rests on beside QueueInv.
RecoversOverdue == \A c \in Callers : pc[c] = "recover_del" => lease[c] \in overdue
LeasedByCaller  ==
  /\ \A l \in LeaseIds : leased[l] # NoItem => Callers # {}
  /\ \A j \in Jobs : lapses[j] > 0 => Callers # {}

CountFacts == IsFiniteSet(dead) /\ RecoversOverdue /\ LeasedByCaller
CountInv   == CountFacts /\ \A j \in Jobs : Potential(j) <= Limit(j)

LEMMA RecoversOverdueStep ==
  ASSUME QueueAssumption, TypeOK, TodoOverdue, RecoversOverdue, [Next]_vars
  PROVE  RecoversOverdue'
  <1>. USE DEF Goto, Take, Finish, redis, local, history
  <1>1. ASSUME NEW c \in Callers, RecoverGet(c)  PROVE RecoversOverdue'
    BY <1>1 DEF RecoverGet, TypeOK, TodoOverdue, RecoversOverdue
  <1>2. ASSUME NEW c \in Workers, WriteLease(c)  PROVE RecoversOverdue'
    <2>1. PICK l \in LeaseIds : /\ Unused(l) /\ overdue' = overdue \ {l}
                                /\ Take(c, Delivered(item[c]), l)
      BY <1>2 DEF WriteLease
    <2>. QED  BY <1>2, <2>1 DEF WriteLease, Unused, Callers, TypeOK, RecoversOverdue
  <1>3. ASSUME NEW c \in Callers,
               Scan(c) \/ RecoverDrop(c) \/ RecoverDelete(c) \/ RecoverUnindex(c)
                 \/ RecoverPush(c) \/ Crash(c)
        PROVE  RecoversOverdue'
    BY <1>3 DEF Scan, RecoverDrop, RecoverDelete, RecoverUnindex, RecoverPush, Crash, NextKey,
                AfterRecovery, TypeOK, RecoversOverdue
  <1>4. ASSUME NEW c \in Workers, Pop(c) \/ PopTimeout(c) \/ PutBack(c)
        PROVE  RecoversOverdue'
    BY <1>4 DEF Pop, PopTimeout, PutBack, Callers, TypeOK, RecoversOverdue
  <1>5. ASSUME NEW c \in Workers,
               IndexLease(c) \/ AckDelete(c) \/ AckUnindex(c) \/ FailDelete(c)
                 \/ FailUnindex(c) \/ FailPush(c)
        PROVE  RecoversOverdue'
    BY <1>5 DEF IndexLease, AckDelete, AckUnindex, FailDelete, FailUnindex, FailPush,
                Callers, TypeOK, RecoversOverdue
  <1>6. ASSUME NEW l \in LeaseIds, LeaseLapses(l) \/ StaleKeyLapses(l)
        PROVE  RecoversOverdue'
    BY <1>6 DEF LeaseLapses, StaleKeyLapses, RecoversOverdue
  <1>7. ASSUME UNCHANGED <<overdue, pc, lease>>  PROVE RecoversOverdue'
    BY <1>7 DEF RecoversOverdue
  <1>. QED  BY <1>1, <1>2, <1>3, <1>4, <1>5, <1>6, <1>7, StepCases
            DEF vars, Enqueue, BackoffElapses

LEMMA CountFactsStep ==
  ASSUME QueueAssumption, QueueInv, CountFacts, [Next]_vars
  PROVE  CountFacts'
  <1>. USE DEF QueueInv, CountFacts, Goto, Take, Finish, redis, local, history
  <1>1. RecoversOverdue'
    BY RecoversOverdueStep DEF AttemptBounds
  <1>2. dead' = dead \/ \E c \in Workers : FailPush(c) /\ dead' = dead \union {item[c]}
    BY StepCases DEF vars, Enqueue, Scan, RecoverGet, RecoverDrop, RecoverDelete,
       RecoverUnindex, RecoverPush, Pop, PopTimeout, PutBack, WriteLease, IndexLease,
       AckDelete, AckUnindex, FailDelete, FailUnindex, FailPush, BackoffElapses,
       LeaseLapses, StaleKeyLapses, Crash
  <1>3. IsFiniteSet(dead')
    BY <1>2, FS_AddElement
  <1>4. LeasedByCaller'
    <2>1. ASSUME Callers = {}  PROVE leased' = leased /\ lapses' = lapses
      <3>1. \A l \in LeaseIds : leased[l] = NoItem
        BY <2>1 DEF LeasedByCaller
      <3>. QED  BY <2>1, <3>1, StepCases
                DEF Callers, vars, Enqueue, BackoffElapses, LeaseLapses, StaleKeyLapses
    <2>. QED  BY <2>1 DEF LeasedByCaller
  <1>. QED  BY <1>1, <1>3, <1>4

\* The counts of one job are natural numbers.
Counted(j) ==
  /\ Cardinality(ReadyOf(j)) \in Nat /\ Cardinality(FreshOf(j)) \in Nat
  /\ Cardinality(LateOf(j)) \in Nat /\ Cardinality(BearersOf(j)) \in Nat
  /\ Cardinality(DeadOf(j)) \in Nat /\ Cardinality(AckOf(j)) \in Nat

\* A step after which j has no more potential copies than before.
NoMore(j) == Potential(j)' \in Int /\ Potential(j)' <= Potential(j)

LEMMA CountTypes ==
  ASSUME FiniteAssumption, TypeOK, IsFiniteSet(dead), NEW j
  PROVE  Counted(j) /\ Procs \in Nat /\ Procs * Cardinality(LateOf(j)) \in Nat
         /\ Potential(j) \in Nat
  <1>1. Counted(j) /\ Procs \in Nat
    BY FiniteParts, FS_CardinalityType DEF Counted, Procs, FiniteAssumption
  <1>2. Procs * Cardinality(LateOf(j)) \in Nat
    BY <1>1, Products DEF Counted
  <1>. QED  BY <1>1, <1>2 DEF Counted, Potential

\* As long as no lease becomes overdue, copies may move among the other places.
LEMMA Moves ==
  ASSUME FiniteAssumption, TypeOK, IsFiniteSet(dead), NEW j, LateOf(j)' \subseteq LateOf(j),
         NEW dr \in Int, NEW df \in Int, NEW db \in Int, NEW dd \in Int, NEW da \in Int,
         Rises(Cardinality(ReadyOf(j))', Cardinality(ReadyOf(j)), dr),
         Rises(Cardinality(FreshOf(j))', Cardinality(FreshOf(j)), df),
         Rises(Cardinality(BearersOf(j))', Cardinality(BearersOf(j)), db),
         Rises(Cardinality(DeadOf(j))', Cardinality(DeadOf(j)), dd),
         Rises(Cardinality(AckOf(j))', Cardinality(AckOf(j)), da),
         dr + df + db + dd + da <= 0
  PROVE  NoMore(j)
  <1>. DEFINE r == Cardinality(ReadyOf(j))     r2 == Cardinality(ReadyOf(j))'
              f == Cardinality(FreshOf(j))     f2 == Cardinality(FreshOf(j))'
              b == Cardinality(BearersOf(j))   b2 == Cardinality(BearersOf(j))'
              d == Cardinality(DeadOf(j))      d2 == Cardinality(DeadOf(j))'
              a == Cardinality(AckOf(j))       a2 == Cardinality(AckOf(j))'
              n == Cardinality(LateOf(j))      m == Cardinality(LateOf(j))'
              k == Procs
  <1>1. Rises(m, n, 0) /\ k \in Nat
    BY FiniteParts, FewerCount, CountTypes
  <1>2. k * m <= k * n /\ k * m \in Nat /\ k * n \in Nat
    <2>. HIDE DEF m, n, k
    <2>. QED  BY <1>1, Products DEF Rises
  <1>3. Potential(j)' = r2 + f2 + k * m + b2 + d2 + a2
    BY DEF Potential, Procs, Callers
  <1>4. Potential(j) = r + f + k * n + b + d + a
    BY DEF Potential
  <1>5. /\ Rises(r2, r, dr) /\ Rises(f2, f, df) /\ Rises(b2, b, db)
        /\ Rises(d2, d, dd) /\ Rises(a2, a, da)
    OBVIOUS
  <1>. HIDE DEF r, r2, f, f2, b, b2, d, d2, a, a2, n, m, k
  <1>. QED  BY <1>1, <1>2, <1>3, <1>4, <1>5 DEF Rises, NoMore

\* A step that adds no copy of j anywhere.
LEMMA Shrinks ==
  ASSUME FiniteAssumption, TypeOK, IsFiniteSet(dead), NEW j,
         ReadyOf(j)' \subseteq ReadyOf(j), FreshOf(j)' \subseteq FreshOf(j),
         LateOf(j)' \subseteq LateOf(j), BearersOf(j)' \subseteq BearersOf(j),
         DeadOf(j)' \subseteq DeadOf(j), AckOf(j)' \subseteq AckOf(j)
  PROVE  NoMore(j)
  <1>1. /\ Rises(Cardinality(ReadyOf(j))', Cardinality(ReadyOf(j)), 0)
        /\ Rises(Cardinality(FreshOf(j))', Cardinality(FreshOf(j)), 0)
    BY FiniteParts, FewerCount
  <1>2. /\ Rises(Cardinality(BearersOf(j))', Cardinality(BearersOf(j)), 0)
        /\ Rises(Cardinality(DeadOf(j))', Cardinality(DeadOf(j)), 0)
        /\ Rises(Cardinality(AckOf(j))', Cardinality(AckOf(j)), 0)
    BY FiniteParts, FewerCount
  <1>. QED  BY <1>1, <1>2, Moves

\* c lets go of its item.
LEMMA BearersDrop ==
  ASSUME TypeOK, NEW c \in Callers, NEW p, NEW q, NEW j, leased' = leased,
         pc' = [pc EXCEPT ![c] = p], item' = [item EXCEPT ![c] = NoItem],
         lease' = [lease EXCEPT ![c] = q]
  PROVE  BearersOf(j)' \subseteq BearersOf(j) \ {c}
  BY DEF BearersOf, Bears, TypeOK

\* c goes on with its item, or without one that counts.
LEMMA BearersKeep ==
  ASSUME TypeOK, NEW c \in Callers, NEW p, NEW j, UNCHANGED <<leased, item, lease>>,
         pc' = [pc EXCEPT ![c] = p],
         p \in InMemoryOnly => pc[c] \in InMemoryOnly,
         p \in {"index", "holding", "recover_del"} =>
           pc[c] \in {"index", "holding", "recover_del"}
  PROVE  BearersOf(j)' \subseteq BearersOf(j)
  BY DEF BearersOf, Bears, TypeOK

\* Places that a step does not touch.
LEMMA PlacesKept ==
  ASSUME NEW j
  PROVE  /\ ready' = ready => ReadyOf(j)' = ReadyOf(j)
         /\ leased' = leased /\ overdue' = overdue =>
              FreshOf(j)' = FreshOf(j) /\ LateOf(j)' = LateOf(j)
         /\ dead' = dead => DeadOf(j)' = DeadOf(j)
         /\ acked' = acked => AckOf(j)' = AckOf(j)
  BY DEF ReadyOf, FreshOf, LateOf, LeasesOf, DeadOf, AckOf

\* A push to the ready list adds a copy of the item's job and of no other.
LEMMA ReadyPushed ==
  ASSUME TypeOK, NEW x \in Item, ready' = Append(ready, x), NEW j
  PROVE  /\ ReadyOf(j)' \subseteq ReadyOf(j) \union {Len(ready) + 1}
         /\ x.job # j => ReadyOf(j)' \subseteq ReadyOf(j)
  BY PushFacts DEF TypeOK, ReadyOf

\* A pop takes one away.
LEMMA ReadyPopped ==
  ASSUME TypeOK, ready # << >>, ready' = Tail(ready), NEW j
  PROVE  Rises(Cardinality(ReadyOf(j))', Cardinality(ReadyOf(j)),
               IF Head(ready).job = j THEN -1 ELSE 0)
  <1>. DEFINE S == ReadyOf(j)'
              T == ReadyOf(j) \ {1}
              f == [i \in S |-> i + 1]
  <1>1. IsFiniteSet(ReadyOf(j))
    <2>1. IsFiniteSet(DOMAIN ready)
      BY LenProperties, FS_Interval DEF TypeOK
    <2>. QED  BY <2>1, FS_Subset DEF ReadyOf
  <1>2. IsFiniteSet(T) /\ Rises(Cardinality(T), Cardinality(ReadyOf(j)), 0)
    BY <1>1, FewerCount
  <1>3. S \subseteq Nat
    <2>1. ready' \in Seq(Item)
      BY PopFacts DEF TypeOK
    <2>. QED  BY <2>1, LenProperties DEF ReadyOf
  <1>4. \A i \in S : i + 1 \in T
    BY PopFacts DEF TypeOK, ReadyOf
  <1>5. f \in Injection(S, T)
    BY <1>3, <1>4 DEF Injection, IsInjective
  <1>6. Cardinality(S) <= Cardinality(T) /\ Cardinality(S) \in Nat
    BY <1>2, <1>5, FS_Injection, FS_CardinalityType
  <1>7. ASSUME Head(ready).job = j  PROVE Rises(Cardinality(T), Cardinality(ReadyOf(j)), -1)
    <2>1. 1 \in ReadyOf(j)
      BY <1>7, PopFacts DEF TypeOK, ReadyOf
    <2>. QED  BY <1>1, <2>1, LossCount
  <1>. HIDE DEF S, T
  <1>8. Rises(Cardinality(S), Cardinality(ReadyOf(j)), IF Head(ready).job = j THEN -1 ELSE 0)
    BY <1>2, <1>6, <1>7 DEF Rises
  <1>. QED  BY <1>8 DEF S

\* An end of a backoff moves no copy.
LEMMA ReadyDue ==
  ASSUME TypeOK, NEW i \in DOMAIN ready, BackoffElapses(i), NEW j
  PROVE  ReadyOf(j)' = ReadyOf(j)
  BY DueFacts DEF TypeOK, BackoffElapses, ReadyOf

\* c pushes the item it carries to one of the two lists.
LEMMA PushMoves ==
  ASSUME FiniteAssumption, TypeOK, IsFiniteSet(dead), NEW c \in Callers, NEW p, NEW q,
         NEW x \in Item, item[c] \in Item, item[c] # NoItem, x.job = item[c].job,
         pc[c] \in InMemoryOnly,
         \/ ready' = Append(ready, x) /\ dead' = dead
         \/ ready' = ready /\ dead' = dead \union {x},
         pc' = [pc EXCEPT ![c] = p], item' = [item EXCEPT ![c] = NoItem],
         lease' = [lease EXCEPT ![c] = q], UNCHANGED <<leased, overdue, acked>>, NEW j
  PROVE  NoMore(j)
  <1>1. BearersOf(j)' \subseteq BearersOf(j) \ {c}
    BY BearersDrop
  <1>2. /\ FreshOf(j)' = FreshOf(j) /\ LateOf(j)' = LateOf(j) /\ AckOf(j)' = AckOf(j)
        /\ ready' = ready => ReadyOf(j)' = ReadyOf(j)
        /\ dead' = dead => DeadOf(j)' = DeadOf(j)
    BY PlacesKept
  <1>3. CASE x.job # j
    <2>1. ReadyOf(j)' \subseteq ReadyOf(j)
      BY <1>2, <1>3, ReadyPushed
    <2>2. DeadOf(j)' \subseteq DeadOf(j)
      BY <1>2, <1>3 DEF DeadOf
    <2>. QED  BY <1>1, <1>2, <2>1, <2>2, Shrinks
  <1>4. CASE x.job = j
    <2>1. c \in BearersOf(j)
      BY <1>4 DEF BearersOf, Bears
    <2>2. Rises(Cardinality(BearersOf(j))', Cardinality(BearersOf(j)), -1)
      BY <1>1, <2>1, FiniteParts, LossCount
    <2>3. /\ Rises(Cardinality(FreshOf(j))', Cardinality(FreshOf(j)), 0)
          /\ Rises(Cardinality(AckOf(j))', Cardinality(AckOf(j)), 0)
      BY <1>2, FiniteParts, FewerCount
    <2>4. CASE ready' = Append(ready, x) /\ dead' = dead
      <3>1. Rises(Cardinality(ReadyOf(j))', Cardinality(ReadyOf(j)), 1)
        BY <2>4, ReadyPushed, FiniteParts, GainCount
      <3>2. Rises(Cardinality(DeadOf(j))', Cardinality(DeadOf(j)), 0)
        BY <1>2, <2>4, FiniteParts, FewerCount
      <3>. QED  BY <1>2, <2>2, <2>3, <3>1, <3>2, Moves
    <2>5. CASE ready' = ready /\ dead' = dead \union {x}
      <3>1. Rises(Cardinality(ReadyOf(j))', Cardinality(ReadyOf(j)), 0)
        BY <1>2, <2>5, FiniteParts, FewerCount
      <3>2. DeadOf(j)' \subseteq DeadOf(j) \union {x}
        BY <2>5 DEF DeadOf
      <3>3. Rises(Cardinality(DeadOf(j))', Cardinality(DeadOf(j)), 1)
        BY <3>2, FiniteParts, GainCount
      <3>. QED  BY <1>2, <2>2, <2>3, <3>1, <3>3, Moves
    <2>. QED  BY <2>4, <2>5
  <1>. QED  BY <1>3, <1>4

\* A popped item is in the memory of the worker that popped it.
LEMMA PopMoves ==
  ASSUME QueueAssumption, FiniteAssumption, TypeOK, IsFiniteSet(dead),
         NEW c \in Workers, Pop(c), NEW j
  PROVE  NoMore(j)
  <1>. USE DEF Goto, Take
  <1>1. c \in Callers /\ Head(ready) \in Item
    BY PopFacts DEF Pop, TypeOK, Callers
  <1>2. BearersOf(j)' \subseteq BearersOf(j) \union {c}
    BY <1>1 DEF Pop, BearersOf, Bears, TypeOK
  <1>3. Head(ready).job # j => BearersOf(j)' \subseteq BearersOf(j)
    BY <1>1 DEF Pop, BearersOf, Bears, TypeOK
  <1>4. UNCHANGED <<leased, overdue, dead, acked>>
    BY DEF Pop, history
  <1>5. /\ LateOf(j)' = LateOf(j) /\ FreshOf(j)' = FreshOf(j)
        /\ DeadOf(j)' = DeadOf(j) /\ AckOf(j)' = AckOf(j)
    BY <1>4, PlacesKept
  <1>6. /\ Rises(Cardinality(FreshOf(j))', Cardinality(FreshOf(j)), 0)
        /\ Rises(Cardinality(DeadOf(j))', Cardinality(DeadOf(j)), 0)
        /\ Rises(Cardinality(AckOf(j))', Cardinality(AckOf(j)), 0)
    BY <1>5, FiniteParts, FewerCount
  <1>7. CASE Head(ready).job = j
    <2>1. Rises(Cardinality(ReadyOf(j))', Cardinality(ReadyOf(j)), -1)
      BY <1>7, ReadyPopped DEF Pop
    <2>2. Rises(Cardinality(BearersOf(j))', Cardinality(BearersOf(j)), 1)
      BY <1>2, FiniteParts, GainCount
    <2>. QED  BY <1>5, <1>6, <2>1, <2>2, Moves
  <1>8. CASE Head(ready).job # j
    <2>1. Rises(Cardinality(ReadyOf(j))', Cardinality(ReadyOf(j)), 0)
      BY <1>8, ReadyPopped DEF Pop
    <2>2. Rises(Cardinality(BearersOf(j))', Cardinality(BearersOf(j)), 0)
      BY <1>3, <1>8, FiniteParts, FewerCount
    <2>. QED  BY <1>5, <1>6, <2>1, <2>2, Moves
  <1>. QED  BY <1>7, <1>8

\* A new lease takes over the copy of the worker that writes it.
LEMMA LeaseMoves ==
  ASSUME QueueAssumption, FiniteAssumption, TypeOK, IsFiniteSet(dead),
         NEW c \in Workers, WriteLease(c), NEW j
  PROVE  NoMore(j)
  <1>. DEFINE x == Delivered(item[c])
  <1>1. PICK l \in LeaseIds : /\ Unused(l) /\ leased' = [leased EXCEPT ![l] = x]
                              /\ overdue' = overdue \ {l} /\ Take(c, x, l)
    BY DEF WriteLease
  <1>2. /\ c \in Callers /\ item[c] \in Item /\ x \in Item /\ x.job = item[c].job
        /\ x # NoItem /\ item[c] # NoItem /\ pc[c] = "lease"
        /\ pc' = [pc EXCEPT ![c] = "index"]
        /\ item' = [item EXCEPT ![c] = x] /\ lease' = [lease EXCEPT ![c] = l]
        /\ UNCHANGED <<ready, dead, acked>>
    BY <1>1, HeldTypes, DeliveredFacts
       DEF WriteLease, QueueAssumption, Callers, LossWindow, InMemoryOnly, Goto, Take, history
  <1>. HIDE DEF x
  <1>3. LateOf(j)' \subseteq LateOf(j) /\ FreshOf(j)' \subseteq FreshOf(j) \union {l}
    BY <1>1, <1>2 DEF LateOf, FreshOf, LeasesOf, TypeOK
  <1>4. x.job # j => FreshOf(j)' \subseteq FreshOf(j)
    BY <1>1, <1>2 DEF FreshOf, LeasesOf, TypeOK, Unused
  <1>5. BearersOf(j)' \subseteq BearersOf(j) \ {c}
    BY <1>1, <1>2 DEF BearersOf, Bears, TypeOK, Unused, InMemoryOnly
  <1>6. /\ ReadyOf(j)' = ReadyOf(j) /\ DeadOf(j)' = DeadOf(j) /\ AckOf(j)' = AckOf(j)
    BY <1>2, PlacesKept
  <1>7. CASE x.job = j
    <2>1. c \in BearersOf(j)
      BY <1>2, <1>7 DEF BearersOf, Bears, InMemoryOnly
    <2>2. Rises(Cardinality(BearersOf(j))', Cardinality(BearersOf(j)), -1)
      BY <1>5, <2>1, FiniteParts, LossCount
    <2>3. Rises(Cardinality(FreshOf(j))', Cardinality(FreshOf(j)), 1)
      BY <1>3, FiniteParts, GainCount
    <2>4. /\ Rises(Cardinality(ReadyOf(j))', Cardinality(ReadyOf(j)), 0)
          /\ Rises(Cardinality(DeadOf(j))', Cardinality(DeadOf(j)), 0)
          /\ Rises(Cardinality(AckOf(j))', Cardinality(AckOf(j)), 0)
      BY <1>6, FiniteParts, FewerCount
    <2>. QED  BY <1>3, <2>2, <2>3, <2>4, Moves
  <1>8. CASE x.job # j
    BY <1>3, <1>4, <1>5, <1>6, <1>8, Shrinks
  <1>. QED  BY <1>7, <1>8

\* Reading a lease makes no copy: nothing has been taken from the hash yet.
LEMMA GetMoves ==
  ASSUME FiniteAssumption, TypeOK, IsFiniteSet(dead),
         NEW c \in Callers, RecoverGet(c), NEW j
  PROVE  NoMore(j)
  <1>1. PICK l \in LeaseIds :
          /\ item' = [item EXCEPT ![c] = leased[l]] /\ lease' = [lease EXCEPT ![c] = l]
          /\ pc' = [pc EXCEPT ![c] = IF leased[l] = NoItem THEN "recover_drop" ELSE "recover_del"]
    BY DEF RecoverGet, Take, Goto, TypeOK
  <1>2. UNCHANGED <<ready, leased, overdue, dead, acked>>
    BY DEF RecoverGet, redis, history
  <1>3. BearersOf(j)' \subseteq BearersOf(j)
    BY <1>1, <1>2 DEF BearersOf, Bears, TypeOK, InMemoryOnly
  <1>. QED  BY <1>2, <1>3, PlacesKept, Shrinks

\* The end of a copy in memory: acknowledged, timed out or lost.
LEMMA DropMoves ==
  ASSUME FiniteAssumption, TypeOK, IsFiniteSet(dead), NEW c \in Callers, NEW p, NEW q,
         UNCHANGED <<ready, leased, overdue, dead, acked>>,
         pc' = [pc EXCEPT ![c] = p], item' = [item EXCEPT ![c] = NoItem],
         lease' = [lease EXCEPT ![c] = q], NEW j
  PROVE  NoMore(j)
  <1>1. BearersOf(j)' \subseteq BearersOf(j)
    BY BearersDrop
  <1>. QED  BY <1>1, PlacesKept, Shrinks

LEMMA KeepMoves ==
  ASSUME FiniteAssumption, TypeOK, IsFiniteSet(dead), NEW c \in Callers, NEW p,
         UNCHANGED <<ready, leased, overdue, dead, acked, item, lease>>,
         pc' = [pc EXCEPT ![c] = p],
         p \in InMemoryOnly => pc[c] \in InMemoryOnly,
         p \in {"index", "holding", "recover_del"} =>
           pc[c] \in {"index", "holding", "recover_del"}, NEW j
  PROVE  NoMore(j)
  <1>1. BearersOf(j)' \subseteq BearersOf(j)
    BY BearersKeep
  <1>. QED  BY <1>1, PlacesKept, Shrinks

\* c removes the lease it works on from the hash, to carry the item or to
\* acknowledge it.
Deletes(c, p) ==
  /\ pc[c] \in {"holding", "recover_del"} /\ pc' = [pc EXCEPT ![c] = p]
  /\ leased' = [leased EXCEPT ![lease[c]] = NoItem]
  /\ UNCHANGED <<ready, overdue, dead, item, lease>>
  /\ \/ p \in {"recover_unindex", "fail_unindex"} /\ acked' = acked
     \/ p = "ack_unindex" /\ acked' = acked \union {item[c].job}

LEMMA DeleteFacts ==
  ASSUME QueueAssumption, QueueInv, NEW c \in Callers, NEW p, Deletes(c, p)
  PROVE  /\ lease[c] \in LeaseIds /\ item[c] \in Item /\ item[c] # NoItem
         /\ leased[lease[c]] \in {NoItem, item[c]}
  BY HeldTypes DEF QueueAssumption, QueueInv, LeaseAgrees, Deletes

\* The copy was already taken from under c: it stays in c's memory.
LEMMA OvertakenDelete ==
  ASSUME QueueAssumption, FiniteAssumption, QueueInv, CountFacts, NEW c \in Callers, NEW p,
         Deletes(c, p), NEW j, item[c].job = j, leased[lease[c]] = NoItem
  PROVE  NoMore(j)
  <1>. USE DEF QueueInv, CountFacts
  <1>1. leased' = leased
    BY DeleteFacts DEF Deletes, TypeOK
  <1>2. /\ ReadyOf(j)' = ReadyOf(j) /\ FreshOf(j)' = FreshOf(j) /\ LateOf(j)' = LateOf(j)
        /\ DeadOf(j)' = DeadOf(j)
    BY <1>1, PlacesKept DEF Deletes
  <1>3. c \in BearersOf(j)
    BY DeleteFacts DEF Deletes, BearersOf, Bears
  <1>4. CASE acked' = acked
    <2>1. BearersOf(j)' \subseteq BearersOf(j)
      BY <1>1, <1>3 DEF Deletes, BearersOf, Bears, TypeOK
    <2>. QED  BY <1>2, <1>4, <2>1, PlacesKept, Shrinks
  <1>5. CASE p = "ack_unindex" /\ acked' = acked \union {item[c].job}
    <2>1. BearersOf(j)' \subseteq BearersOf(j) \ {c}
      BY <1>1, <1>5 DEF Deletes, BearersOf, Bears, TypeOK, InMemoryOnly
    <2>2. AckOf(j)' \subseteq AckOf(j) \union {j}
      BY <1>5 DEF AckOf
    <2>3. /\ Rises(Cardinality(BearersOf(j))', Cardinality(BearersOf(j)), -1)
          /\ Rises(Cardinality(AckOf(j))', Cardinality(AckOf(j)), 1)
      BY <1>3, <2>1, <2>2, FiniteParts, LossCount, GainCount
    <2>4. /\ Rises(Cardinality(ReadyOf(j))', Cardinality(ReadyOf(j)), 0)
          /\ Rises(Cardinality(FreshOf(j))', Cardinality(FreshOf(j)), 0)
          /\ Rises(Cardinality(DeadOf(j))', Cardinality(DeadOf(j)), 0)
      BY <1>2, FiniteParts, FewerCount
    <2>. QED  BY <1>2, <2>3, <2>4, Moves
  <1>. QED  BY <1>4, <1>5 DEF Deletes

\* Of a lease that is not overdue only the owner knows, and only it goes on.
LEMMA FreshDelete ==
  ASSUME QueueAssumption, FiniteAssumption, QueueInv, CountFacts, NEW c \in Callers, NEW p,
         Deletes(c, p), NEW j, item[c].job = j, leased[lease[c]] = item[c],
         lease[c] \notin overdue
  PROVE  NoMore(j)
  <1>. USE DEF QueueInv, CountFacts
  <1>1. pc[c] = "holding"
    BY DEF Deletes, RecoversOverdue
  <1>2. ASSUME NEW d \in Callers, d # c, pc[d] \in {"index", "holding", "recover_del"}
        PROVE  lease[d] # lease[c]
    BY <1>1, <1>2 DEF RecoversOverdue, CopyInv, OwnersDiffer, Owning
  <1>3. /\ LateOf(j)' = LateOf(j) /\ FreshOf(j)' \subseteq FreshOf(j) \ {lease[c]}
        /\ lease[c] \in FreshOf(j)
    BY DeleteFacts DEF Deletes, LateOf, FreshOf, LeasesOf, TypeOK
  <1>4. ReadyOf(j)' = ReadyOf(j) /\ DeadOf(j)' = DeadOf(j)
    BY PlacesKept DEF Deletes
  <1>5. /\ Rises(Cardinality(FreshOf(j))', Cardinality(FreshOf(j)), -1)
        /\ Rises(Cardinality(ReadyOf(j))', Cardinality(ReadyOf(j)), 0)
        /\ Rises(Cardinality(DeadOf(j))', Cardinality(DeadOf(j)), 0)
    BY <1>3, <1>4, FiniteParts, LossCount, FewerCount
  <1>6. CASE p \in {"recover_unindex", "fail_unindex"} /\ acked' = acked
    <2>1. BearersOf(j)' \subseteq BearersOf(j) \union {c}
      BY <1>2 DEF Deletes, BearersOf, Bears, TypeOK
    <2>2. AckOf(j)' = AckOf(j)
      BY <1>6, PlacesKept
    <2>3. /\ Rises(Cardinality(BearersOf(j))', Cardinality(BearersOf(j)), 1)
          /\ Rises(Cardinality(AckOf(j))', Cardinality(AckOf(j)), 0)
      BY <2>1, <2>2, FiniteParts, GainCount, FewerCount
    <2>. QED  BY <1>3, <1>5, <2>3, Moves
  <1>7. CASE p = "ack_unindex" /\ acked' = acked \union {item[c].job}
    <2>1. BearersOf(j)' \subseteq BearersOf(j)
      BY <1>2, <1>7 DEF Deletes, BearersOf, Bears, TypeOK, InMemoryOnly
    <2>2. AckOf(j)' \subseteq AckOf(j) \union {j}
      BY <1>7 DEF AckOf
    <2>3. /\ Rises(Cardinality(BearersOf(j))', Cardinality(BearersOf(j)), 0)
          /\ Rises(Cardinality(AckOf(j))', Cardinality(AckOf(j)), 1)
      BY <2>1, <2>2, FiniteParts, GainCount, FewerCount
    <2>. QED  BY <1>3, <1>5, <2>3, Moves
  <1>. QED  BY <1>6, <1>7 DEF Deletes

\* An overdue lease may have been read by every process: its weight of Procs
\* pays for one copy in the memory of each.
LEMMA LateDelete ==
  ASSUME QueueAssumption, FiniteAssumption, QueueInv, CountFacts, NEW c \in Callers, NEW p,
         Deletes(c, p), NEW j, item[c].job = j, leased[lease[c]] = item[c],
         lease[c] \in overdue
  PROVE  NoMore(j)
  <1>. USE DEF QueueInv, CountFacts
  <1>1. /\ FreshOf(j)' = FreshOf(j) /\ LateOf(j)' \subseteq LateOf(j) \ {lease[c]}
        /\ lease[c] \in LateOf(j)
    BY DeleteFacts DEF Deletes, LateOf, FreshOf, LeasesOf, TypeOK
  <1>2. ReadyOf(j)' = ReadyOf(j) /\ DeadOf(j)' = DeadOf(j)
    BY PlacesKept DEF Deletes
  <1>. DEFINE r == Cardinality(ReadyOf(j))     r2 == Cardinality(ReadyOf(j))'
              f == Cardinality(FreshOf(j))     f2 == Cardinality(FreshOf(j))'
              b == Cardinality(BearersOf(j))   b2 == Cardinality(BearersOf(j))'
              d == Cardinality(DeadOf(j))      d2 == Cardinality(DeadOf(j))'
              a == Cardinality(AckOf(j))       a2 == Cardinality(AckOf(j))'
              n == Cardinality(LateOf(j))      m == Cardinality(LateOf(j))'
              k == Procs
  <1>3. Rises(m, n, -1) /\ k \in Nat
    BY <1>1, FiniteParts, LossCount, CountTypes
  <1>4. k * m + k <= k * n /\ k * m \in Nat /\ k * n \in Nat
    <2>. HIDE DEF m, n, k
    <2>. QED  BY <1>3, Products DEF Rises
  <1>5. b2 + a2 <= k + a /\ b2 \in Nat /\ a2 \in Nat /\ a \in Nat
    <2>1. CASE p \in {"recover_unindex", "fail_unindex"} /\ acked' = acked
      <3>1. BearersOf(j)' \subseteq Callers
        BY DEF BearersOf
      <3>2. Rises(b2, k, 0)
        BY <3>1, FewerCount DEF Procs, FiniteAssumption
      <3>3. Rises(a2, a, 0)
        BY <2>1, PlacesKept, FiniteParts, FewerCount
      <3>. HIDE DEF b2, k, a2, a
      <3>. QED  BY <3>2, <3>3 DEF Rises
    <2>2. CASE p = "ack_unindex" /\ acked' = acked \union {item[c].job}
      <3>1. BearersOf(j)' \subseteq Callers \ {c}
        BY <2>2 DEF Deletes, BearersOf, Bears, TypeOK, InMemoryOnly
      <3>2. Rises(b2, k, -1)
        BY <3>1, LossCount DEF Procs, FiniteAssumption
      <3>3. AckOf(j)' \subseteq AckOf(j) \union {j}
        BY <2>2 DEF AckOf
      <3>4. Rises(a2, a, 1)
        BY <3>3, FiniteParts, GainCount
      <3>. HIDE DEF b2, k, a2, a
      <3>. QED  BY <3>2, <3>4 DEF Rises
    <2>. QED  BY <2>1, <2>2 DEF Deletes
  <1>6. r2 = r /\ f2 = f /\ d2 = d
    BY <1>1, <1>2
  <1>7. r \in Nat /\ f \in Nat /\ b \in Nat /\ d \in Nat
    BY CountTypes DEF Counted
  <1>8. Potential(j)' = r2 + f2 + k * m + b2 + d2 + a2
    BY DEF Potential, Procs, Callers
  <1>9. Potential(j) = r + f + k * n + b + d + a
    BY DEF Potential
  <1>. HIDE DEF r, r2, f, f2, b, b2, d, d2, a, a2, n, m, k
  <1>10. k * m + k \in Nat
    BY <1>3, <1>4
  <1>11. Potential(j)' \in Int
    BY <1>4, <1>5, <1>6, <1>7, <1>8
  <1>12. Potential(j)' <= Potential(j)
    BY <1>3, <1>4, <1>5, <1>6, <1>7, <1>8, <1>9
  <1>. QED  BY <1>11, <1>12 DEF NoMore

LEMMA DeleteMoves ==
  ASSUME QueueAssumption, FiniteAssumption, QueueInv, CountFacts, NEW c \in Callers, NEW p,
         Deletes(c, p), NEW j
  PROVE  NoMore(j)
  <1>. USE DEF QueueInv, CountFacts
  <1>1. CASE item[c].job # j
    <2>1. FreshOf(j)' \subseteq FreshOf(j) /\ LateOf(j)' \subseteq LateOf(j)
      BY DeleteFacts DEF Deletes, LateOf, FreshOf, LeasesOf, TypeOK
    <2>2. ReadyOf(j)' = ReadyOf(j) /\ DeadOf(j)' = DeadOf(j) /\ AckOf(j)' \subseteq AckOf(j)
      BY <1>1, PlacesKept DEF Deletes, AckOf
    <2>3. ASSUME NEW d \in Callers, Bears(d, j)'  PROVE Bears(d, j)
      <3>1. d # c
        BY <1>1, <2>3 DEF Deletes, Bears
      <3>2. pc'[d] = pc[d] /\ item'[d] = item[d] /\ lease'[d] = lease[d]
        BY <3>1 DEF Deletes, TypeOK
      <3>3. CASE lease[d] = lease[c] /\ pc[d] \in {"index", "holding", "recover_del"}
        BY <1>1, <2>3, <3>2, <3>3, DeleteFacts DEF Bears, LeaseAgrees
      <3>4. CASE lease[d] # lease[c]
        BY <2>3, <3>2, <3>4 DEF Deletes, Bears, TypeOK
      <3>. QED  BY <2>3, <3>2, <3>3, <3>4 DEF Bears
    <2>4. BearersOf(j)' \subseteq BearersOf(j)
      BY <2>3 DEF BearersOf, Callers
    <2>. QED  BY <2>1, <2>2, <2>4, Shrinks
  <1>. QED  BY <1>1, DeleteFacts, OvertakenDelete, FreshDelete, LateDelete

LEMMA LimitFacts ==
  ASSUME FiniteAssumption, TypeOK, LeasedByCaller, NEW j \in Jobs
  PROVE  /\ Limit(j) \in Int /\ Limit(j) >= 1
         /\ Callers # {} => Procs >= 1
  <1>. DEFINE k == Procs
              n == lapses[j]
  <1>1. k \in Nat /\ n \in Nat
    BY FS_CardinalityType DEF FiniteAssumption, Procs, TypeOK
  <1>2. Callers # {} => k >= 1
    BY <1>1, FS_EmptySet DEF FiniteAssumption, Procs
  <1>3. n > 0 => k >= 1
    BY <1>2 DEF LeasedByCaller
  <1>4. Limit(j) = 1 + n * (k - 1)
    BY DEF Limit
  <1>5. n * (k - 1) >= 0 /\ n * (k - 1) \in Int
    <2>. HIDE DEF n, k
    <2>1. CASE n = 0
      BY <1>1, <2>1
    <2>2. CASE n > 0
      <3>1. k - 1 \in Nat
        BY <1>1, <1>3, <2>2
      <3>2. n * (k - 1) \in Nat
        BY <1>1, <3>1, Products
      <3>. QED  BY <3>2
    <2>. QED  BY <1>1, <2>1, <2>2
  <1>. HIDE DEF n, k
  <1>6. Callers # {} => Procs >= 1
    BY <1>2 DEF k
  <1>. QED  BY <1>4, <1>5, <1>6

LEMMA NoMoreCount ==
  ASSUME FiniteAssumption, TypeOK, CountFacts, NEW j \in Jobs, Potential(j) <= Limit(j),
         NoMore(j), Limit(j)' = Limit(j)
  PROVE  Potential(j)' <= Limit(j)'
  BY CountTypes, LimitFacts DEF NoMore, CountFacts

\* An enqueued job is new: the push makes its first copy.
LEMMA EnqueueCount ==
  ASSUME QueueAssumption, FiniteAssumption, QueueInv, CountFacts, NEW k \in Jobs, Enqueue(k),
         NEW j \in Jobs, Potential(j) <= Limit(j)
  PROVE  Potential(j)' <= Limit(j)'
  <1>. USE DEF QueueInv, CountFacts
  <1>. DEFINE x == [job |-> k, attempt |-> 0, due |-> TRUE]
  <1>1. /\ x \in Item /\ x.job = k /\ ready' = Append(ready, x)
        /\ UNCHANGED <<leased, overdue, dead, acked, pc, item, lease, lapses>> /\ k \notin enqueued
    BY DEF Enqueue, Item, local
  <1>. HIDE DEF x
  <1>2. Limit(j)' = Limit(j)
    BY <1>1 DEF Limit, Procs, Callers
  <1>3. /\ FreshOf(j)' = FreshOf(j) /\ LateOf(j)' = LateOf(j) /\ DeadOf(j)' = DeadOf(j)
        /\ AckOf(j)' = AckOf(j) /\ BearersOf(j)' = BearersOf(j)
    BY <1>1, PlacesKept DEF BearersOf, Bears, Callers
  <1>4. CASE j # k
    <2>1. NoMore(j)
      BY <1>1, <1>3, <1>4, ReadyPushed, Shrinks
    <2>. QED  BY <1>2, <2>1, NoMoreCount
  <1>5. CASE j = k
    <2>1. /\ ReadyOf(j) = {} /\ FreshOf(j) = {} /\ LateOf(j) = {} /\ DeadOf(j) = {}
          /\ AckOf(j) = {}
      BY <1>1, <1>5 DEF ReadyOf, FreshOf, LateOf, LeasesOf, DeadOf, AckOf, CopyInv,
                        ItemsEnqueued, SettledAlone, Settled, InDead
    <2>2. BearersOf(j) = {}
      BY <1>1, <1>5 DEF BearersOf, Bears, CopyInv, ItemsEnqueued, HasItem, LossWindow,
                        InMemoryOnly
    <2>3. Rises(Cardinality(ReadyOf(j))', Cardinality(ReadyOf(j)), 1)
      BY <1>1, ReadyPushed, FiniteParts, GainCount
    <2>4. Procs \in Nat /\ Cardinality({}) = 0
      BY CountTypes, FS_EmptySet
    <2>5. Potential(j)' = Cardinality(ReadyOf(j))'
            + Cardinality(FreshOf(j))' + Procs * Cardinality(LateOf(j))'
            + Cardinality(BearersOf(j))' + Cardinality(DeadOf(j))' + Cardinality(AckOf(j))'
      BY DEF Potential, Procs, Callers
    <2>. DEFINE r2 == Cardinality(ReadyOf(j))'
                k2 == Procs
    <2>6. Potential(j)' = r2 + 0 + k2 * 0 + 0 + 0 + 0
      BY <1>3, <2>1, <2>2, <2>4, <2>5
    <2>7. r2 \in Nat /\ r2 <= 1 /\ k2 \in Nat
      BY <2>1, <2>3, <2>4 DEF Rises
    <2>. HIDE DEF r2, k2
    <2>8. Potential(j)' <= 1
      BY <2>6, <2>7
    <2>9. Potential(j)' \in Nat
      BY <2>6, <2>7
    <2>. QED  BY <1>2, <2>8, <2>9, LimitFacts
  <1>. QED  BY <1>4, <1>5

\* A lapse is what lets one lease become a copy per process.
LEMMA LapseCount ==
  ASSUME QueueAssumption, FiniteAssumption, QueueInv, CountFacts, NEW l \in LeaseIds,
         LeaseLapses(l), NEW j \in Jobs, Potential(j) <= Limit(j)
  PROVE  Potential(j)' <= Limit(j)'
  <1>. USE DEF QueueInv, CountFacts
  <1>1. /\ leased[l] \in Item /\ leased[l] # NoItem /\ l \notin overdue
        /\ overdue' = overdue \union {l} /\ lapses' = [lapses EXCEPT ![leased[l].job] = @ + 1]
        /\ UNCHANGED <<ready, leased, dead, acked, pc, item, lease>>
    BY DEF LeaseLapses, local, TypeOK
  <1>2. /\ ReadyOf(j)' = ReadyOf(j) /\ DeadOf(j)' = DeadOf(j)
        /\ AckOf(j)' = AckOf(j) /\ BearersOf(j)' = BearersOf(j)
    BY <1>1, PlacesKept DEF BearersOf, Bears, Callers
  <1>. DEFINE r == Cardinality(ReadyOf(j))
              f == Cardinality(FreshOf(j))     f2 == Cardinality(FreshOf(j))'
              b == Cardinality(BearersOf(j))
              d == Cardinality(DeadOf(j))
              a == Cardinality(AckOf(j))
              n == Cardinality(LateOf(j))      m == Cardinality(LateOf(j))'
              k == Procs
              y == lapses[j]
  <1>3. Potential(j) = r + f + k * n + b + d + a /\ Limit(j) = 1 + y * (k - 1)
    BY DEF Potential, Limit
  <1>4. Potential(j)' = r + f2 + k * m + b + d + a
    BY <1>2 DEF Potential, Procs, Callers
  <1>5. Limit(j)' = 1 + lapses'[j] * (k - 1)
    BY DEF Limit, Procs, Callers
  <1>6. /\ r \in Nat /\ f \in Nat /\ b \in Nat /\ d \in Nat /\ a \in Nat /\ n \in Nat
        /\ k \in Nat /\ y \in Nat
    BY CountTypes DEF Counted, TypeOK
  <1>7. CASE leased[l].job # j
    <2>1. FreshOf(j)' = FreshOf(j) /\ LateOf(j)' = LateOf(j)
      BY <1>1, <1>7 DEF FreshOf, LateOf, LeasesOf
    <2>2. lapses'[j] = y
      BY <1>1, <1>7 DEF TypeOK
    <2>. QED  BY <1>3, <1>4, <1>5, <2>1, <2>2
  <1>8. CASE leased[l].job = j
    <2>1. /\ FreshOf(j)' \subseteq FreshOf(j) \ {l} /\ l \in FreshOf(j)
          /\ LateOf(j)' \subseteq LateOf(j) \union {l}
      BY <1>1, <1>8 DEF FreshOf, LateOf, LeasesOf
    <2>2. Rises(f2, f, -1) /\ Rises(m, n, 1)
      BY <2>1, FiniteParts, LossCount, GainCount
    <2>3. lapses'[j] = y + 1
      BY <1>1, <1>8 DEF TypeOK
    <2>. HIDE DEF r, f, f2, b, d, a, n, m, k, y
    <2>4. m \in Nat /\ m <= n + 1 /\ n + 1 \in Nat /\ f2 \in Nat /\ f2 + 1 <= f
      BY <1>6, <2>2 DEF Rises
    <2>5. k * m <= k * (n + 1) /\ k * (n + 1) = k * n + k /\ k * m \in Nat /\ k * n \in Nat
      BY <1>6, <2>4, Products
    <2>6. (y + 1) * (k - 1) = y * (k - 1) + (k - 1) /\ y * (k - 1) \in Int
      BY <1>6, Products
    <2>7. r + f + k * n + b + d + a <= 1 + y * (k - 1)
      BY <1>3
    <2>8. Limit(j)' = 1 + y * (k - 1) + (k - 1)
      BY <1>5, <1>6, <2>3, <2>6
    <2>9. r + f2 + k * m + b + d + a <= 1 + y * (k - 1) + (k - 1)
      BY <1>6, <2>4, <2>5, <2>6, <2>7
    <2>. QED  BY <1>4, <2>8, <2>9
  <1>. QED  BY <1>7, <1>8

LEMMA CountStep ==
  ASSUME QueueAssumption, FiniteAssumption, QueueInv, CountFacts, [Next]_vars,
         NEW j \in Jobs, Potential(j) <= Limit(j)
  PROVE  Potential(j)' <= Limit(j)'
  <1>. USE DEF QueueInv, CountFacts
  <1>1. CASE \E k \in Jobs : Enqueue(k)
    BY <1>1, EnqueueCount
  <1>2. CASE \E l \in LeaseIds : LeaseLapses(l)
    BY <1>2, LapseCount
  <1>3. CASE /\ ~ \E k \in Jobs : Enqueue(k)
             /\ ~ \E l \in LeaseIds : LeaseLapses(l)
    <2>1. lapses' = lapses
      BY <1>3, StepCases DEF vars, history, local, Scan, RecoverGet, RecoverDrop,
         RecoverDelete, RecoverUnindex, RecoverPush, Pop, PopTimeout, PutBack, WriteLease,
         IndexLease, AckDelete, AckUnindex, FailDelete, FailUnindex, FailPush,
         BackoffElapses, StaleKeyLapses, Crash
    <2>2. Limit(j)' = Limit(j)
      BY <2>1 DEF Limit, Procs, Callers
    <2>. USE DEF Goto, Take, Finish, NextKey, redis, local, history
    <2>3. ASSUME NEW c \in Callers, Scan(c)  PROVE NoMore(j)
      BY <2>3, KeepMoves DEF Scan, AfterRecovery, InMemoryOnly
    <2>4. ASSUME NEW c \in Callers, RecoverGet(c)  PROVE NoMore(j)
      BY <2>4, GetMoves
    <2>5. ASSUME NEW c \in Callers, RecoverDrop(c)  PROVE NoMore(j)
      BY <2>5, DropMoves DEF RecoverDrop
    <2>6. ASSUME NEW c \in Callers, RecoverDelete(c)  PROVE NoMore(j)
      BY <2>6, DeleteMoves DEF RecoverDelete, Deletes
    <2>7. ASSUME NEW c \in Callers, RecoverUnindex(c)  PROVE NoMore(j)
      BY <2>7, KeepMoves DEF RecoverUnindex, InMemoryOnly
    <2>8. ASSUME NEW c \in Callers, RecoverPush(c)  PROVE NoMore(j)
      <3>1. item[c] \in Item /\ item[c] # NoItem /\ pc[c] \in InMemoryOnly
        BY <2>8, HeldTypes DEF RecoverPush, InMemoryOnly, LossWindow, QueueAssumption
      <3>. QED  BY <2>8, <3>1, PushMoves DEF RecoverPush
    <2>9. ASSUME NEW c \in Workers, Pop(c)  PROVE NoMore(j)
      BY <2>9, PopMoves
    <2>10. ASSUME NEW c \in Workers, PopTimeout(c)  PROVE NoMore(j)
      BY <2>10, DropMoves DEF PopTimeout, Callers
    <2>11. ASSUME NEW c \in Workers, PutBack(c)  PROVE NoMore(j)
      <3>1. c \in Callers /\ item[c] \in Item /\ item[c] # NoItem /\ pc[c] \in InMemoryOnly
        BY <2>11, HeldTypes DEF PutBack, InMemoryOnly, LossWindow, QueueAssumption, Callers
      <3>. QED  BY <2>11, <3>1, PushMoves DEF PutBack
    <2>12. ASSUME NEW c \in Workers, WriteLease(c)  PROVE NoMore(j)
      BY <2>12, LeaseMoves
    <2>13. ASSUME NEW c \in Workers, IndexLease(c)  PROVE NoMore(j)
      BY <2>13, KeepMoves DEF IndexLease, InMemoryOnly, Callers
    <2>14. ASSUME NEW c \in Workers, AckDelete(c)  PROVE NoMore(j)
      BY <2>14, DeleteMoves DEF AckDelete, Deletes, Callers
    <2>15. ASSUME NEW c \in Workers, AckUnindex(c)  PROVE NoMore(j)
      BY <2>15, DropMoves DEF AckUnindex, Callers
    <2>16. ASSUME NEW c \in Workers, FailDelete(c)  PROVE NoMore(j)
      BY <2>16, DeleteMoves DEF FailDelete, Deletes, Callers
    <2>17. ASSUME NEW c \in Workers, FailUnindex(c)  PROVE NoMore(j)
      BY <2>17, KeepMoves DEF FailUnindex, InMemoryOnly, Callers
    <2>18. ASSUME NEW c \in Workers, FailPush(c)  PROVE NoMore(j)
      <3>. DEFINE x == [item[c] EXCEPT !.due = FALSE]
      <3>1. c \in Callers /\ item[c] \in Item /\ item[c] # NoItem /\ pc[c] \in InMemoryOnly
        BY <2>18, HeldTypes DEF FailPush, InMemoryOnly, LossWindow, QueueAssumption, Callers
      <3>2. x \in Item /\ x.job = item[c].job
        BY <3>1 DEF Item
      <3>3. \/ ready' = Append(ready, x) /\ dead' = dead
            \/ ready' = ready /\ dead' = dead \union {item[c]}
        BY <2>18 DEF FailPush
      <3>4. /\ pc' = [pc EXCEPT ![c] = "idle"] /\ item' = [item EXCEPT ![c] = NoItem]
            /\ lease' = [lease EXCEPT ![c] = NoLease] /\ UNCHANGED <<leased, overdue, acked>>
        BY <2>18 DEF FailPush
      <3>. HIDE DEF x
      <3>5. CASE ready' = Append(ready, x) /\ dead' = dead
        BY <3>1, <3>2, <3>4, <3>5, PushMoves
      <3>6. CASE ready' = ready /\ dead' = dead \union {item[c]}
        BY <3>1, <3>4, <3>6, PushMoves
      <3>. QED  BY <3>3, <3>5, <3>6
    <2>19. ASSUME NEW i \in DOMAIN ready, BackoffElapses(i)  PROVE NoMore(j)
      <3>1. UNCHANGED <<leased, overdue, dead, acked, pc, item, lease>>
        BY <2>19 DEF BackoffElapses
      <3>2. BearersOf(j)' = BearersOf(j)
        BY <3>1 DEF BearersOf, Bears, Callers
      <3>. QED  BY <2>19, <3>1, <3>2, ReadyDue, PlacesKept, Shrinks
    <2>20. ASSUME NEW l \in LeaseIds, StaleKeyLapses(l)  PROVE NoMore(j)
      <3>1. /\ UNCHANGED <<ready, leased, dead, acked, pc, item, lease>>
            /\ leased[l] = NoItem /\ overdue' = overdue \union {l}
        BY <2>20 DEF StaleKeyLapses
      <3>2. /\ BearersOf(j)' = BearersOf(j) /\ FreshOf(j)' = FreshOf(j)
            /\ LateOf(j)' = LateOf(j)
        BY <3>1 DEF BearersOf, Bears, Callers, FreshOf, LateOf, LeasesOf
      <3>. QED  BY <3>1, <3>2, PlacesKept, Shrinks
    <2>21. ASSUME NEW c \in Callers, Crash(c)  PROVE NoMore(j)
      BY <2>21, DropMoves DEF Crash
    <2>22. ASSUME UNCHANGED vars  PROVE NoMore(j)
      <3>1. UNCHANGED <<ready, leased, overdue, dead, acked, pc, item, lease>>
        BY <2>22 DEF vars
      <3>2. BearersOf(j)' = BearersOf(j)
        BY <3>1 DEF BearersOf, Bears, Callers
      <3>. QED  BY <3>1, <3>2, PlacesKept, Shrinks
    <2>23. NoMore(j)
      BY <1>3, <2>3, <2>4, <2>5, <2>6, <2>7, <2>8, <2>9, <2>10, <2>11, <2>12, <2>13, <2>14,
         <2>15, <2>16, <2>17, <2>18, <2>19, <2>20, <2>21, <2>22, StepCases
    <2>. QED  BY <2>2, <2>23, NoMoreCount
  <1>. QED  BY <1>1, <1>2, <1>3

LEMMA CountInit ==
  ASSUME FiniteAssumption, Init
  PROVE  CountInv
  <1>. USE EmptySeq DEF Init
  <1>1. CountFacts
    BY FS_EmptySet DEF CountFacts, RecoversOverdue, LeasedByCaller
  <1>2. ASSUME NEW j \in Jobs  PROVE Potential(j) <= Limit(j)
    <2>1. /\ ReadyOf(j) = {} /\ FreshOf(j) = {} /\ LateOf(j) = {} /\ DeadOf(j) = {}
          /\ AckOf(j) = {} /\ BearersOf(j) = {}
      BY DEF ReadyOf, FreshOf, LateOf, LeasesOf, DeadOf, AckOf, BearersOf, Bears
    <2>2. Cardinality({}) = 0 /\ Procs \in Nat /\ lapses[j] = 0
      BY FS_EmptySet, FS_CardinalityType DEF Procs, FiniteAssumption
    <2>3. Potential(j) = 0 + 0 + Procs * 0 + 0 + 0 + 0
      BY <2>1, <2>2 DEF Potential
    <2>. DEFINE k == Procs
    <2>4. Potential(j) = 0 + 0 + k * 0 + 0 + 0 + 0 /\ Limit(j) = 1 + 0 * (k - 1) /\ k \in Nat
      BY <2>2, <2>3 DEF Limit
    <2>. HIDE DEF k
    <2>. QED  BY <2>4
  <1>. QED  BY <1>1, <1>2 DEF CountInv

\* Every copy is one of the potential ones, and a lease weighs at least one.
LEMMA CopiesFromPotential ==
  ASSUME QueueAssumption, FiniteAssumption, QueueInv, CountInv
  PROVE  DuplicationBound
  <1>. USE DEF QueueInv, CountInv, CountFacts
  <1>1. ASSUME NEW j \in Jobs  PROVE Copies(j) <= 1 + lapses[j] * (Cardinality(Callers) - 1)
    <2>. DEFINE r == Cardinality(ReadyOf(j))
                f == Cardinality(FreshOf(j))
                b == Cardinality(BearersOf(j))
                d == Cardinality(DeadOf(j))
                a == Cardinality(AckOf(j))
                n == Cardinality(LateOf(j))
                k == Procs
                h == Cardinality(InMemory(j))
                y == Cardinality(LeasesOf(j))
    <2>1. /\ r \in Nat /\ f \in Nat /\ b \in Nat /\ d \in Nat /\ a \in Nat /\ n \in Nat
          /\ k \in Nat /\ k * n \in Nat
      BY CountTypes DEF Counted
    <2>2. Copies(j) = r + y + h + d + a /\ Potential(j) = r + f + k * n + b + d + a
      BY DEF Copies, Potential, AckOf
    <2>3. Potential(j) <= Limit(j) /\ Limit(j) \in Int
      BY LimitFacts
    <2>4. h \in Nat /\ h <= b
      <3>1. InMemory(j) \subseteq BearersOf(j)
        BY DEF InMemory, BearersOf, Bears
      <3>2. Rises(h, b, 0)
        BY <3>1, FiniteParts, FewerCount
      <3>. HIDE DEF h, b
      <3>. QED  BY <3>2 DEF Rises
    <2>5. y \in Nat /\ y <= f + n
      <3>1. LeasesOf(j) = FreshOf(j) \union LateOf(j) /\ FreshOf(j) \intersect LateOf(j) = {}
        BY DEF FreshOf, LateOf
      <3>2. Cardinality(FreshOf(j) \union LateOf(j)) = f + n - Cardinality({})
        BY <3>1, FiniteParts, FS_Union
      <3>3. y = f + n
        BY <2>1, <3>1, <3>2, FS_EmptySet
      <3>. HIDE DEF y, f, n
      <3>. QED  BY <2>1, <3>3
    <2>6. n <= k * n
      <3>1. CASE LateOf(j) = {}
        <4>1. n = 0
          BY <3>1, FS_EmptySet
        <4>. HIDE DEF n, k
        <4>. QED  BY <2>1, <4>1
      <3>2. CASE LateOf(j) # {}
        <4>1. k >= 1
          BY <3>2, LimitFacts DEF LateOf, LeasesOf, LeasedByCaller
        <4>. HIDE DEF n, k
        <4>2. n * 1 <= n * k
          BY <2>1, <4>1, Products
        <4>. QED  BY <2>1, <4>2
      <3>. QED  BY <3>1, <3>2
    <2>. HIDE DEF r, f, b, d, a, n, k, h, y
    <2>7. Copies(j) <= Potential(j) /\ Copies(j) \in Int /\ Potential(j) \in Int
      BY <2>1, <2>2, <2>4, <2>5, <2>6
    <2>8. Copies(j) <= Limit(j)
      BY <2>3, <2>7
    <2>. QED  BY <2>8 DEF Limit, Procs
  <1>. QED  BY <1>1 DEF DuplicationBound

LEMMA CountInvStep ==
  ASSUME QueueAssumption, FiniteAssumption, QueueInv, CountInv, [Next]_vars
  PROVE  CountInv'
  <1>1. CountFacts'
    BY CountFactsStep DEF CountInv
  <1>2. \A j \in Jobs : Potential(j)' <= Limit(j)'
    BY CountStep DEF CountInv
  <1>. QED  BY <1>1, <1>2 DEF CountInv

\* DuplicationBound for every number of processes: whatever the interleaving of
\* recoveries with the owner's ack or fail, a lapse adds at most one copy of the
\* job for each other process, and without lapses there is one copy at most.
THEOREM DuplicationIsBounded == Spec => []DuplicationBound
  <1>1. Init => QueueInv /\ CountInv
    BY FiniteAssumption, QueueInvInit, CountInit
  <1>2. (QueueInv /\ CountInv) /\ [Next]_vars => (QueueInv /\ CountInv)'
    BY QueueAssumption, FiniteAssumption, QueueInvStep, CountInvStep
  <1>3. QueueInv /\ CountInv => DuplicationBound
    BY QueueAssumption, FiniteAssumption, CopiesFromPotential
  <1>. QED  BY <1>1, <1>2, <1>3, PTL DEF Spec

-----------------------------------------------------------------------------
(* The job path over the queue.  It adds one step that the queue does not    *)
(* have: a worker whose store operation raises stops, and leaves its lease. *)

Stops(w) == pc[w] = "holding" /\ Finish(w) /\ UNCHANGED <<redis, todo, history>>

LEMMA StopsKeepsQueueInv ==
  ASSUME QueueAssumption, QueueInv, NEW w \in Workers, Stops(w)
  PROVE  QueueInv'
  <1>0. w \in Callers
    BY DEF Callers
  <1>1. /\ pc' = [pc EXCEPT ![w] = "idle"] /\ item' = [item EXCEPT ![w] = NoItem]
        /\ lease' = [lease EXCEPT ![w] = NoLease] /\ pc[w] = "holding"
        /\ UNCHANGED <<ready, leased, index, overdue, dead, todo, enqueued, acked, lapses,
                       crashes, lost>>
    BY DEF Stops, Finish, Goto, Take, redis, history
  <1>2. TypeOK'
    BY <1>0, <1>1 DEF QueueInv, TypeOK, PCs, HasItem, HasLease, LossWindow, InMemoryOnly
  <1>3. LeaseAgrees'
    BY <1>0, <1>1 DEF QueueInv, LeaseAgrees, TypeOK
  <1>4. AttemptBounds' /\ RetriesCounted'
    BY <1>0, <1>1 DEF QueueInv, AttemptBounds, ReadyBound, LeasedBound, HeldBound, TodoOverdue,
                      DeadBound, Budget, TypeOK, RetriesCounted, Callers
  <1>5. ItemsEnqueued' /\ RecoveredLapsed' /\ OwnersDiffer' /\ OwnersLeased'
    BY <1>0, <1>1 DEF QueueInv, CopyInv, ItemsEnqueued, RecoveredLapsed, OwnersDiffer,
                      OwnersLeased, Owning, HasItem, LossWindow, InMemoryOnly, TypeOK
  <1>6. /\ \A j : InReady(j)' <=> InReady(j)
        /\ \A j : InDead(j)' <=> InDead(j)
        /\ \A j, l : Leases(l, j)' <=> Leases(l, j)
        /\ \A j : \A c \in Callers : Carries(c, j)' => Carries(c, j)
        /\ \A j : InHand(j)' => InHand(j)
    BY <1>0, <1>1 DEF QueueInv, TypeOK, InReady, InDead, Leases, Carries, InHand, InMemoryOnly
  <1>7. SoleCopies'
    <2>1. ASSUME NEW j \in Jobs, SoleCopy(j)  PROVE SoleCopy(j)'
      BY <1>1, <1>6, <2>1, SoleCopyShrinks DEF SoleCopy
    <2>. QED  BY <1>1, <2>1 DEF QueueInv, CopyInv, SoleCopies
  <1>8. SettledAlone'
    BY <1>1, <1>6 DEF QueueInv, SettledAlone, Settled, NoCopy
  <1>. QED  BY <1>2, <1>3, <1>4, <1>5, <1>7, <1>8 DEF QueueInv, CopyInv

\* Every step of the job path is a step of the queue, or a worker stops.
LEMMA QueueSteps ==
  ASSUME [SysNext]_allvars
  PROVE  [Next]_vars \/ \E w \in Workers : Stops(w)
  <1>1. ASSUME NEW w \in Workers, Abort(w), pc[w] = "holding"  PROVE Stops(w)
    BY <1>1 DEF Abort, Stops
  <1>2. ASSUME NEW w \in Workers, RunOnce(w)
        PROVE  Next \/ UNCHANGED vars \/ \E v \in Workers : Stops(v)
    BY <1>1, <1>2 DEF RunOnce, Fetch, MarkGet, MarkSet, Answer, CompleteGet, CompleteSet, FailGet,
       FailSet, AckItem, FailItem, Leased, ReadRecord, WriteRecord, At, Next, Dequeue, Ack, Fail
  <1>3. ASSUME NEW j \in Jobs, CreateJob(j) \/ EnqueueJob(j) \/ StreamPoll(j) \/ RecordExpires(j)
                                 \/ FeedGet(j) \/ FeedSet(j)
        PROVE  Next \/ UNCHANGED vars
    BY <1>3 DEF CreateJob, EnqueueJob, StreamPoll, RecordExpires, FeedGet, FeedSet, Next
  <1>4. ASSUME NEW c \in Callers, Recovering(c) \/ Dies(c)  PROVE Next
    BY <1>4 DEF Recovering, Dies, Next
  <1>5. UNCHANGED allvars => UNCHANGED vars
    BY DEF allvars, vars
  <1>. QED  BY <1>2, <1>3, <1>4, <1>5 DEF SysNext, Next

LEMMA SysQueueInvStep ==
  ASSUME QueueAssumption, QueueInv, [SysNext]_allvars
  PROVE  QueueInv'
  BY QueueSteps, QueueInvStep, StopsKeepsQueueInv

-----------------------------------------------------------------------------
(* The steps of the job path.                                              *)

\* A step of the queue by itself: no worker begins or ends a run_once.
Quiet ==
  /\ [Next]_vars /\ UNCHANGED sysvars /\ enqueued' = enqueued
  /\ \A w \in Workers : /\ pc'[w] = "holding" <=> pc[w] = "holding"
                        /\ pc[w] = "holding" => item'[w] = item[w]

LEMMA SysStepCases ==
  ASSUME QueueAssumption, TypeOK, [SysNext]_allvars
  PROVE  \/ \E j \in Jobs : \/ CreateJob(j) \/ EnqueueJob(j) \/ StreamPoll(j)
                            \/ RecordExpires(j) \/ FeedGet(j) \/ FeedSet(j)
         \/ \E w \in Workers : \/ Fetch(w) \/ MarkGet(w) \/ MarkSet(w) \/ Answer(w)
                               \/ CompleteGet(w) \/ CompleteSet(w) \/ FailGet(w) \/ FailSet(w)
                               \/ AckItem(w) \/ FailItem(w) \/ Leased(w)
         \/ \E c \in Callers : Dies(c)
         \/ Quiet
  <1>. USE DEF Goto, Take, Finish, redis, local, history
  <1>1. ASSUME NEW c \in Callers, Recovering(c)  PROVE Quiet
    <2>1. Next /\ UNCHANGED sysvars
      BY <1>1 DEF Recovering, Next
    <2>. USE DEF TypeOK, AfterRecovery, Callers
    <2>2. CASE Scan(c) \/ RecoverDelete(c) \/ RecoverUnindex(c)
      BY <2>1, <2>2 DEF Scan, RecoverDelete, RecoverUnindex, Quiet
    <2>3. CASE RecoverGet(c)
      BY <2>1, <2>3 DEF RecoverGet, Quiet
    <2>4. CASE RecoverDrop(c) \/ RecoverPush(c)
      BY <2>1, <2>4 DEF RecoverDrop, RecoverPush, NextKey, Quiet
    <2>. QED  BY <1>1, <2>2, <2>3, <2>4 DEF Recovering, Recover
  <1>2. ASSUME NEW w \in Workers, UNCHANGED sysvars,
               Pop(w) \/ PopTimeout(w) \/ PutBack(w) \/ WriteLease(w)
                 \/ AckUnindex(w) \/ FailUnindex(w) \/ FailPush(w)
        PROVE  Quiet
    <2>1. Next
      BY <1>2 DEF Next, Dequeue, Ack, Fail
    <2>. USE DEF TypeOK, Callers
    <2>2. CASE Pop(w)
      BY <1>2, <2>1, <2>2 DEF Pop, Quiet
    <2>3. CASE PopTimeout(w) \/ PutBack(w)
      BY <1>2, <2>1, <2>3 DEF PopTimeout, PutBack, Quiet
    <2>4. CASE WriteLease(w)
      BY <1>2, <2>1, <2>4 DEF WriteLease, Quiet
    <2>5. CASE AckUnindex(w) \/ FailUnindex(w) \/ FailPush(w)
      BY <1>2, <2>1, <2>5 DEF AckUnindex, FailUnindex, FailPush, Quiet
    <2>. QED  BY <1>2, <2>2, <2>3, <2>4, <2>5
  <1>3. ASSUME Time, UNCHANGED sysvars  PROVE Quiet
    <2>1. Next /\ UNCHANGED <<pc, item, enqueued>>
      BY <1>3 DEF Next, Time, BackoffElapses, LeaseLapses, StaleKeyLapses
    <2>. QED  BY <1>3, <2>1 DEF Quiet
  <1>4. UNCHANGED allvars => Quiet
    BY DEF allvars, vars, sysvars, Quiet
  <1>. QED  BY <1>1, <1>2, <1>3, <1>4 DEF SysNext, RunOnce

-----------------------------------------------------------------------------
(* Type correctness of the job path.                                       *)

\* A SET writes back what the GET before it read.
SeenTyped ==
  \A w \in Workers : stage[w] \in {"mark_set", "complete_set", "fail_set"} => seen[w] \in Record

LEMMA StatusWritten ==
  ASSUME NEW r \in Record, NEW s \in JobStatus
  PROVE  /\ [r EXCEPT !.status = s] \in Record
         /\ [r EXCEPT !.status = s].status = s
  BY DEF Record

\* The types of the variables that the queue does not have.
StoreTypes ==
  /\ record \in [Jobs -> Record \union {NoRecord}]
  /\ stage \in [Workers -> Stages]
  /\ seen \in [Workers -> Record \union {NoRecord}]
  /\ told \in [Jobs -> {"none", "completed", "failed"}]
  /\ feed \in [Jobs -> Record \union {NoRecord}]
  /\ stale \subseteq Jobs
  /\ \A w \in Workers : stage[w] # "none" <=> pc[w] = "holding"
  /\ SeenTyped

LEMMA HeldJob ==
  ASSUME TypeOK, NEW w \in Workers, pc[w] = "holding"
  PROVE  /\ w \in Callers /\ item[w] \in Item /\ lease[w] \in LeaseIds
         /\ Job(w) \in Jobs
  BY HeldTypes DEF Callers, Job, Item

LEMMA TypeJob ==
  ASSUME SystemAssumption, StoreTypes, NEW j \in Jobs,
         CreateJob(j) \/ EnqueueJob(j) \/ StreamPoll(j) \/ RecordExpires(j)
           \/ FeedGet(j) \/ FeedSet(j)
  PROVE  StoreTypes'
  <1>. USE DEF StoreTypes, SeenTyped
  <1>1. CASE CreateJob(j)
    <2>1. [status |-> "queued", answered |-> FALSE] \in Record
      BY DEF Record, JobStatus
    <2>. QED  BY <1>1, <2>1 DEF CreateJob, vars
  <1>2. CASE EnqueueJob(j)
    BY <1>2 DEF EnqueueJob, Enqueue, sysvars, local
  <1>3. CASE StreamPoll(j)
    BY <1>3 DEF StreamPoll, vars
  <1>4. CASE RecordExpires(j)
    BY <1>4 DEF RecordExpires, vars
  <1>5. CASE FeedGet(j)
    BY <1>5 DEF FeedGet, vars
  <1>6. CASE FeedSet(j)
    BY <1>6 DEF FeedSet, vars
  <1>. QED  BY <1>1, <1>2, <1>3, <1>4, <1>5, <1>6

LEMMA TypeRead ==
  ASSUME SystemAssumption, TypeOK, StoreTypes, NEW w \in Workers,
         NEW from \in Stages \ {"none"}, NEW to \in Stages \ {"none"}, ReadRecord(w, from, to)
  PROVE  StoreTypes'
  <1>. USE DEF StoreTypes, SeenTyped
  <1>1. pc[w] = "holding" /\ stage[w] = from
    BY DEF ReadRecord, At
  <1>2. w \in Callers /\ Job(w) \in Jobs
    BY <1>1, HeldJob
  <1>3. CASE /\ record[Job(w)] # NoRecord
             /\ seen' = [seen EXCEPT ![w] = record[Job(w)]]
             /\ Proceed(w, to)
             /\ UNCHANGED <<vars, record, feed, told, stale>>
    <2>1. record[Job(w)] \in Record
      BY <1>2, <1>3
    <2>. QED  BY <1>1, <1>3, <2>1 DEF vars, Proceed
  <1>4. CASE Abort(w)
    BY <1>1, <1>2, <1>4 DEF Abort, Finish, Goto, Leave, Proceed, TypeOK, Callers, Stages
  <1>. QED  BY <1>3, <1>4 DEF ReadRecord

LEMMA TypeWrite ==
  ASSUME SystemAssumption, TypeOK, StoreTypes, NEW w \in Workers, NEW new \in Record,
         NEW from \in Stages \ {"none"},
         NEW to \in Stages \ {"none", "mark_set", "complete_set", "fail_set"},
         WriteRecord(w, from, new, to)
  PROVE  StoreTypes'
  <1>1. pc[w] = "holding" /\ stage[w] = from
    BY DEF WriteRecord, At
  <1>. QED  BY <1>1 DEF WriteRecord, Proceed, vars, StoreTypes, SeenTyped

LEMMA TypeRun ==
  ASSUME QueueAssumption, SystemAssumption, TypeOK, StoreTypes, NEW w \in Workers,
         Fetch(w) \/ MarkGet(w) \/ MarkSet(w) \/ Answer(w) \/ CompleteGet(w) \/ CompleteSet(w)
           \/ FailGet(w) \/ FailSet(w) \/ AckItem(w) \/ FailItem(w) \/ Leased(w)
  PROVE  StoreTypes'
  <1>1. CASE Fetch(w)
    BY <1>1 DEF Fetch, At, Proceed, vars, StoreTypes, SeenTyped, Stages
  <1>2. CASE MarkGet(w) \/ CompleteGet(w) \/ FailGet(w)
    BY <1>2, TypeRead DEF MarkGet, CompleteGet, FailGet, Stages
  <1>3. CASE MarkSet(w)
    <2>1. seen[w] \in Record /\ "running" \in JobStatus
      BY <1>3 DEF MarkSet, WriteRecord, At, StoreTypes, SeenTyped, JobStatus
    <2>. QED  BY <1>3, <2>1, StatusWritten, TypeWrite DEF MarkSet, Stages
  <1>4. CASE Answer(w)
    BY <1>4 DEF Answer, At, Proceed, vars, StoreTypes, SeenTyped, Stages
  <1>5. CASE CompleteSet(w)
    <2>1. [status |-> "completed", answered |-> TRUE] \in Record
      BY DEF Record, JobStatus
    <2>. QED  BY <1>5, <2>1, TypeWrite DEF CompleteSet, Stages
  <1>6. CASE FailSet(w)
    <2>1. seen[w] \in Record /\ "failed" \in JobStatus
      BY <1>6 DEF FailSet, WriteRecord, At, StoreTypes, SeenTyped, JobStatus
    <2>. QED  BY <1>6, <2>1, StatusWritten, TypeWrite DEF FailSet, Stages
  <1>7. CASE AckItem(w) \/ FailItem(w)
    <2>1. \E to \in {"ack_unindex", "fail_unindex"} : pc' = [pc EXCEPT ![w] = to]
      BY <1>7 DEF AckItem, FailItem, AckDelete, FailDelete, Goto
    <2>2. /\ stage' = [stage EXCEPT ![w] = "none"] /\ seen' = [seen EXCEPT ![w] = NoRecord]
          /\ UNCHANGED <<record, feed, told, stale>>
      BY <1>7 DEF AckItem, FailItem, Leave, Proceed
    <2>. QED  BY <2>1, <2>2 DEF TypeOK, Callers, StoreTypes, SeenTyped, Stages
  <1>8. CASE Leased(w)
    BY <1>8 DEF Leased, IndexLease, Goto, Proceed, TypeOK, Callers, StoreTypes, SeenTyped, Stages
  <1>. QED  BY <1>1, <1>2, <1>3, <1>4, <1>5, <1>6, <1>7, <1>8

LEMMA StoreTypesStep ==
  ASSUME QueueAssumption, SystemAssumption, TypeOK, StoreTypes, [SysNext]_allvars
  PROVE  StoreTypes'
  <1>1. ASSUME NEW c \in Callers, Dies(c)  PROVE StoreTypes'
    BY <1>1 DEF Dies, Crash, Finish, Goto, TypeOK, Callers, StoreTypes, SeenTyped, Stages
  <1>2. ASSUME Quiet  PROVE StoreTypes'
    BY <1>2 DEF Quiet, sysvars, StoreTypes, SeenTyped
  <1>. QED  BY <1>1, <1>2, TypeJob, TypeRun, SysStepCases

LEMMA SysInitTypes ==
  ASSUME SysInit
  PROVE  QueueInv /\ StoreTypes
  BY QueueInvInit DEF SysInit, Init, StoreTypes, SeenTyped, Stages, Callers

\* Type correctness of the job path: every store operation finds a worker that
\* holds an item, and every SET a record that was read.
THEOREM SystemTypeCorrect == SysSpec => []SysTypeOK
  <1>. DEFINE I == QueueInv /\ StoreTypes
  <1>1. SysInit => I
    BY SysInitTypes
  <1>2. I /\ [SysNext]_allvars => I'
    BY QueueAssumption, SystemAssumption, SysQueueInvStep, StoreTypesStep DEF QueueInv
  <1>3. I => SysTypeOK
    BY DEF QueueInv, StoreTypes, SysTypeOK
  <1>. QED  BY <1>1, <1>2, <1>3, PTL DEF SysSpec

-----------------------------------------------------------------------------
(* The store follows the queue.  For a steady job, every place the item can  *)
(* be in says what the record shows: what a waiting item shows follows from  *)
(* its attempt count, what a running one shows from where run_once is.       *)

\* What a record shows while the job waits with n deliveries behind it.
Waits(n, r) == r.status = IF n = 0 THEN "queued" ELSE "failed"

\* What it shows while a worker is at a stage of its n-th delivery.
InStage(s, n, r) ==
  /\ s \in {"fetch", "mark_get", "mark_set"} => Waits(n - 1, r)
  /\ s \in {"answering", "complete_get", "complete_set", "fail_get", "fail_set"} =>
       r.status = "running"
  /\ s = "ack" => r.status = "completed"
  /\ s = "fail" => r.status = "failed"

ReadyClaim(j) ==
  \A i \in DOMAIN ready : ready[i].job = j => Waits(ready[i].attempt, record[j])
HandClaim(j) ==
  \A w \in Workers : item[w].job = j =>
    /\ pc[w] \in {"put_back", "lease"} => Waits(item[w].attempt, record[j])
    /\ pc[w] = "index" => Waits(item[w].attempt - 1, record[j])
    /\ pc[w] \in {"fail_unindex", "fail_push"} => record[j].status = "failed"
RestClaim(j) ==
  /\ InDead(j) => record[j].status = "failed"
  /\ j \in acked => record[j].status = "completed"
RunClaim(j) ==
  \A w \in Workers : pc[w] = "holding" /\ Job(w) = j =>
    InStage(stage[w], item[w].attempt, record[j])

QueueClaims(j) == ReadyClaim(j) /\ HandClaim(j) /\ RestClaim(j)

StoreAgrees(j) ==
  /\ QueueClaims(j) /\ RunClaim(j)
  /\ j \in enqueued => record[j] # NoRecord
  /\ j \notin enqueued => record[j] = NoRecord \/ record[j].status = "queued"
  /\ record[j] # NoRecord /\ record[j].status = "completed" => record[j].answered
  /\ told[j] = "completed" => record[j] # NoRecord /\ record[j].status = "completed"

StoreInv == \A j \in Steady : StoreAgrees(j)

SysInv == QueueInv /\ StoreTypes /\ StoreInv

\* A push whose item agrees with the record keeps the ready list in agreement.
LEMMA PushAgrees ==
  ASSUME TypeOK, NEW x \in Item, ready' = Append(ready, x), NEW j, UNCHANGED record,
         ReadyClaim(j), x.job = j => Waits(x.attempt, record[j])
  PROVE  ReadyClaim(j)'
  BY PushFacts DEF TypeOK, ReadyClaim, Waits

\* A step of the queue passes what the record must show from place to place.
LEMMA QueueClaimsStep ==
  ASSUME QueueAssumption, QueueInv, [Next]_vars, UNCHANGED record,
         NEW j \in Jobs, lapses'[j] = 0, QueueClaims(j),
         j \notin enqueued /\ j \in enqueued' => record[j].status = "queued",
         \A w \in Workers : AckDelete(w) /\ Job(w) = j => record[j].status = "completed",
         \A w \in Workers : FailDelete(w) /\ Job(w) = j => record[j].status = "failed"
  PROVE  QueueClaims(j)'
  <1>. USE DEF Goto, Take, Finish, redis, local, history, QueueInv, QueueClaims, Job
  <1>0. lapses[j] = 0
    BY HistoryGrows
  <1>1. ASSUME NEW k \in Jobs, Enqueue(k)  PROVE QueueClaims(j)'
    <2>. PICK x \in Item : x = [job |-> k, attempt |-> 0, due |-> TRUE]
      BY DEF Item
    <2>1. ready' = Append(ready, x) /\ x.job = k /\ x.attempt = 0
      BY <1>1 DEF Enqueue
    <2>2. ReadyClaim(j)'
      BY <1>1, <2>1, PushAgrees DEF Enqueue, Waits
    <2>. QED  BY <1>1, <2>2 DEF Enqueue, HandClaim, RestClaim, InDead
  <1>2. ASSUME NEW c \in Callers,
               \/ Scan(c) \/ RecoverGet(c) \/ RecoverDrop(c)
               \/ RecoverDelete(c) \/ RecoverUnindex(c) \/ RecoverPush(c)
        PROVE  QueueClaims(j)'
    <2>1. /\ \A d \in Callers \ {c} : pc'[d] = pc[d] /\ item'[d] = item[d]
          /\ pc'[c] \in RecoverPCs \union {"pop", "idle"}
          /\ UNCHANGED <<dead, acked>>
      <3>. USE DEF TypeOK, RecoverPCs
      <3>1. CASE Scan(c) \/ RecoverDelete(c) \/ RecoverUnindex(c)
        BY <3>1 DEF Scan, RecoverDelete, RecoverUnindex, AfterRecovery
      <3>2. CASE RecoverGet(c)
        BY <3>2 DEF RecoverGet
      <3>3. CASE RecoverDrop(c) \/ RecoverPush(c)
        BY <3>3 DEF RecoverDrop, RecoverPush, NextKey, AfterRecovery
      <3>. QED  BY <1>2, <3>1, <3>2, <3>3
    <2>2. ReadyClaim(j)'
      <3>1. CASE RecoverPush(c)
        <4>. PICK x \in Item : x = item[c]
          BY <3>1, HeldTypes DEF RecoverPush, LossWindow, InMemoryOnly
        <4>1. x.job # j
          BY <1>0, <3>1 DEF RecoverPush, CopyInv, RecoveredLapsed
        <4>. QED  BY <3>1, <4>1, PushAgrees DEF RecoverPush
      <3>2. CASE ready' = ready
        BY <3>2 DEF ReadyClaim
      <3>. QED  BY <1>2, <3>1, <3>2
                DEF Scan, RecoverGet, RecoverDrop, RecoverDelete, RecoverUnindex
    <2>. QED  BY <2>1, <2>2 DEF HandClaim, RestClaim, InDead, Callers, RecoverPCs
  <1>3. ASSUME NEW c \in Workers, Pop(c)  PROVE QueueClaims(j)'
    <2>. PICK x \in Item : x = Head(ready)
      BY <1>3, PopFacts DEF Pop, TypeOK
    <2>1. x.job = j => Waits(x.attempt, record[j])
      BY <1>3, PopFacts DEF Pop, TypeOK, ReadyClaim
    <2>2. ReadyClaim(j)'
      BY <1>3, PopFacts DEF Pop, TypeOK, ReadyClaim, Waits
    <2>3. HandClaim(j)'
      BY <1>3, <2>1 DEF Pop, TypeOK, Callers, HandClaim, Waits
    <2>. QED  BY <1>3, <2>2, <2>3 DEF Pop, RestClaim, InDead
  <1>4. ASSUME NEW c \in Workers, PopTimeout(c)  PROVE QueueClaims(j)'
    BY <1>4 DEF PopTimeout, Callers, TypeOK, ReadyClaim, HandClaim, RestClaim, InDead
  <1>5. ASSUME NEW c \in Workers, PutBack(c)  PROVE QueueClaims(j)'
    <2>. PICK x \in Item : x = item[c]
      BY <1>5, HeldTypes DEF PutBack, LossWindow, InMemoryOnly, Callers
    <2>1. ReadyClaim(j)'
      BY <1>5, PushAgrees DEF PutBack, HandClaim
    <2>. QED  BY <1>5, <2>1 DEF PutBack, Callers, TypeOK, HandClaim, RestClaim, InDead
  <1>6. ASSUME NEW c \in Workers, WriteLease(c)  PROVE QueueClaims(j)'
    <2>. PICK y \in Item : y = item[c]
      BY <1>6, HeldTypes DEF WriteLease, LossWindow, InMemoryOnly, Callers
    <2>. PICK x \in Item : x = Delivered(y)
      BY DeliveredFacts
    <2>1. x.job = y.job /\ x.attempt - 1 = y.attempt
      BY DeliveredFacts DEF Item
    <2>2. /\ pc' = [pc EXCEPT ![c] = "index"] /\ item' = [item EXCEPT ![c] = x]
          /\ pc[c] = "lease" /\ UNCHANGED <<ready, dead, acked>>
      BY <1>6 DEF WriteLease
    <2>3. HandClaim(j)'
      BY <2>1, <2>2 DEF TypeOK, Callers, HandClaim, Waits
    <2>. QED  BY <2>2, <2>3 DEF ReadyClaim, RestClaim, InDead
  <1>7. ASSUME NEW c \in Workers, IndexLease(c)  PROVE QueueClaims(j)'
    BY <1>7 DEF IndexLease, Callers, TypeOK, ReadyClaim, HandClaim, RestClaim, InDead
  <1>8. ASSUME NEW c \in Workers, AckDelete(c)  PROVE QueueClaims(j)'
    BY <1>8 DEF AckDelete, Callers, TypeOK, ReadyClaim, HandClaim, RestClaim, InDead
  <1>9. ASSUME NEW c \in Workers, AckUnindex(c)  PROVE QueueClaims(j)'
    BY <1>9 DEF AckUnindex, Callers, TypeOK, ReadyClaim, HandClaim, RestClaim, InDead
  <1>10. ASSUME NEW c \in Workers, FailDelete(c)  PROVE QueueClaims(j)'
    BY <1>10 DEF FailDelete, Callers, TypeOK, ReadyClaim, HandClaim, RestClaim, InDead
  <1>11. ASSUME NEW c \in Workers, FailUnindex(c)  PROVE QueueClaims(j)'
    BY <1>11 DEF FailUnindex, Callers, TypeOK, ReadyClaim, HandClaim, RestClaim, InDead
  <1>12. ASSUME NEW c \in Workers, FailPush(c)  PROVE QueueClaims(j)'
    <2>. PICK y \in Item : y = item[c]
      BY <1>12, HeldTypes DEF FailPush, LossWindow, InMemoryOnly, Callers
    <2>. PICK x \in Item : x = [y EXCEPT !.due = FALSE]
      BY DEF Item
    <2>1. x.job = y.job /\ x.attempt = y.attempt
      BY DEF Item
    <2>2. y.attempt > 0 /\ (y.job = j => record[j].status = "failed")
      BY <1>12 DEF FailPush, RetriesCounted, HandClaim
    <2>3. \/ dead' = dead \union {y} /\ ready' = ready
          \/ ready' = Append(ready, x) /\ dead' = dead
      BY <1>12 DEF FailPush
    <2>4. ReadyClaim(j)'
      <3>1. CASE ready' = ready
        BY <3>1 DEF ReadyClaim
      <3>2. CASE ready' = Append(ready, x)
        <4>1. x.job = j => Waits(x.attempt, record[j])
          BY <2>1, <2>2 DEF Waits
        <4>. QED  BY <3>2, <4>1, PushAgrees
      <3>. QED  BY <2>3, <3>1, <3>2
    <2>5. RestClaim(j)'
      BY <1>12, <2>2, <2>3 DEF FailPush, RestClaim, InDead
    <2>. QED  BY <1>12, <2>4, <2>5 DEF FailPush, Callers, TypeOK, HandClaim
  <1>13. ASSUME NEW i \in DOMAIN ready, BackoffElapses(i)  PROVE QueueClaims(j)'
    <2>1. ReadyClaim(j)'
      BY <1>13, DueFacts DEF BackoffElapses, TypeOK, ReadyClaim, Waits
    <2>. QED  BY <1>13, <2>1 DEF BackoffElapses, HandClaim, RestClaim, InDead
  <1>14. ASSUME NEW l \in LeaseIds, LeaseLapses(l) \/ StaleKeyLapses(l)  PROVE QueueClaims(j)'
    BY <1>14 DEF LeaseLapses, StaleKeyLapses, ReadyClaim, HandClaim, RestClaim, InDead
  <1>15. ASSUME NEW c \in Callers, Crash(c)  PROVE QueueClaims(j)'
    BY <1>15 DEF Crash, Callers, TypeOK, ReadyClaim, HandClaim, RestClaim, InDead
  <1>16. ASSUME UNCHANGED vars  PROVE QueueClaims(j)'
    BY <1>16 DEF vars, ReadyClaim, HandClaim, RestClaim, InDead
  <1>. QED  BY <1>1, <1>2, <1>3, <1>4, <1>5, <1>6, <1>7, <1>8, <1>9, <1>10, <1>11,
               <1>12, <1>13, <1>14, <1>15, <1>16, StepCases

LEMMA StopKeepsClaims ==
  ASSUME QueueInv, NEW w \in Workers, Stops(w), UNCHANGED record, NEW j, QueueClaims(j)
  PROVE  QueueClaims(j)'
  BY DEF Stops, Finish, Goto, Take, redis, history, QueueInv, TypeOK, Callers,
         QueueClaims, ReadyClaim, HandClaim, RestClaim, InDead

\* A worker that holds a job without lapses has the only copy of it, and the
\* job has not settled.
LEMMA Alone ==
  ASSUME QueueAssumption, QueueInv, NEW w \in Workers, pc[w] = "holding", lapses[Job(w)] = 0
  PROVE  /\ ~ InReady(Job(w)) /\ ~ InHand(Job(w)) /\ ~ Settled(Job(w))
         /\ \A v \in Workers \ {w} : pc[v] \in Owning => Job(v) # Job(w)
  <1>. DEFINE j == Job(w)
  <1>1. /\ j \in Jobs /\ item[w] \in Item /\ lease[w] \in LeaseIds /\ w \in Callers
    BY HeldJob DEF QueueInv
  <1>2. Leases(lease[w], j)
    BY <1>1 DEF QueueInv, CopyInv, OwnersLeased, Owning, Leases, Job, QueueAssumption
  <1>3. SoleCopy(j)
    BY <1>1 DEF QueueInv, CopyInv, SoleCopies
  <1>4. ~ InReady(j) /\ ~ InHand(j) /\ ~ Settled(j)
    BY <1>1, <1>2, <1>3 DEF SoleCopy, QueueInv, SettledAlone, NoCopy
  <1>5. ASSUME NEW v \in Workers \ {w}, pc[v] \in Owning, Job(v) = j  PROVE FALSE
    <2>1. v \in Callers /\ item[v] \in Item /\ lease[v] \in LeaseIds
      BY <1>5, HeldTypes DEF QueueInv, Owning, LossWindow, Callers
    <2>2. Leases(lease[v], j)
      BY <1>1, <1>5, <2>1 DEF QueueInv, CopyInv, OwnersLeased, Leases, Job, QueueAssumption
    <2>3. lease[v] = lease[w]
      BY <1>1, <1>2, <1>3, <2>1, <2>2 DEF SoleCopy
    <2>. QED  BY <1>1, <1>5, <2>1, <2>3 DEF QueueInv, CopyInv, OwnersDiffer, Owning
  <1>. QED  BY <1>4, <1>5

\* A step never makes a job steady that was not.
LEMMA SteadyBefore ==
  ASSUME QueueInv, [SysNext]_allvars, NEW j \in Steady'
  PROVE  j \in Steady /\ lapses[j] = 0 /\ lapses'[j] = 0 /\ j \in Jobs \ Expiring
  <1>1. j \in Jobs \ Expiring /\ lapses'[j] = 0 /\ j \notin stale'
    BY DEF Steady, DeliveredOnce
  <1>2. lapses[j] = 0
    <2>1. CASE [Next]_vars
      BY <1>1, <2>1, HistoryGrows DEF QueueInv
    <2>2. CASE \E w \in Workers : Stops(w)
      BY <1>1, <2>2 DEF Stops, history
    <2>. QED  BY <2>1, <2>2, QueueSteps
  <1>3. stale \subseteq stale'
    BY DEF SysNext, CreateJob, EnqueueJob, StreamPoll, RecordExpires, FeedGet, FeedSet, RunOnce,
       Fetch, MarkGet, MarkSet, Answer, CompleteGet, CompleteSet, FailGet, FailSet, AckItem,
       FailItem, Leased, ReadRecord, WriteRecord, Abort, Recovering, Dies, sysvars, allvars
  <1>. QED  BY <1>1, <1>2, <1>3 DEF Steady, DeliveredOnce

\* What the rest of StoreAgrees needs of a step that leaves the record of j.
LEMMA SameRecord ==
  ASSUME NEW j, StoreAgrees(j), UNCHANGED <<record, told>>, QueueClaims(j)', RunClaim(j)',
         j \in enqueued' => j \in enqueued \/ record[j] # NoRecord,
         enqueued \subseteq enqueued'
  PROVE  StoreAgrees(j)'
  BY DEF StoreAgrees

LEMMA StoreQuiet ==
  ASSUME QueueAssumption, QueueInv, Quiet,
         NEW j \in Jobs, lapses'[j] = 0, StoreAgrees(j)
  PROVE  StoreAgrees(j)'
  <1>1. /\ [Next]_vars /\ UNCHANGED <<record, stage, told, enqueued>>
        /\ \A w \in Workers : /\ pc'[w] = "holding" <=> pc[w] = "holding"
                              /\ pc[w] = "holding" => item'[w] = item[w]
    BY DEF Quiet, sysvars
  <1>2. \A w \in Workers : ~ AckDelete(w) /\ ~ FailDelete(w)
    BY <1>1 DEF AckDelete, FailDelete, Goto, QueueInv, TypeOK, Callers
  <1>3. QueueClaims(j)'
    BY <1>1, <1>2, QueueClaimsStep DEF StoreAgrees
  <1>4. RunClaim(j)'
    BY <1>1 DEF StoreAgrees, RunClaim, Job
  <1>. QED  BY <1>1, <1>3, <1>4, SameRecord, HistoryGrows DEF QueueInv

\* The steps that begin and end a run_once, and a process that dies in one.
LEMMA StoreLeave ==
  ASSUME QueueAssumption, QueueInv, StoreTypes, NEW j \in Jobs, lapses'[j] = 0, StoreAgrees(j),
         \/ \E w \in Workers : AckItem(w) \/ FailItem(w) \/ Leased(w)
         \/ \E c \in Callers : Dies(c)
  PROVE  StoreAgrees(j)'
  <1>1. ASSUME NEW w \in Workers, AckItem(w) \/ FailItem(w)  PROVE StoreAgrees(j)'
    <2>1. /\ pc[w] = "holding" /\ UNCHANGED <<item, enqueued, record, told>>
          /\ stage' = [stage EXCEPT ![w] = "none"]
          /\ \E to \in {"ack_unindex", "fail_unindex"} : pc' = [pc EXCEPT ![w] = to]
      BY <1>1 DEF AckItem, FailItem, AckDelete, FailDelete, Goto, Leave, Proceed, history
    <2>2. Next
      BY <1>1 DEF AckItem, FailItem, Next, Ack, Fail
    <2>3. \A v \in Workers : /\ AckDelete(v) => v = w /\ AckItem(w)
                             /\ FailDelete(v) => v = w /\ FailItem(w)
      BY <1>1 DEF AckItem, FailItem, AckDelete, FailDelete, Goto, QueueInv, TypeOK, Callers
    <2>4. /\ AckItem(w) /\ Job(w) = j => record[j].status = "completed"
          /\ FailItem(w) /\ Job(w) = j => record[j].status = "failed"
      BY DEF AckItem, FailItem, At, StoreAgrees, RunClaim, InStage
    <2>5. QueueClaims(j)'
      BY <2>1, <2>2, <2>3, <2>4, QueueClaimsStep DEF StoreAgrees
    <2>6. RunClaim(j)'
      BY <2>1 DEF QueueInv, TypeOK, StoreTypes, Callers, StoreAgrees, RunClaim, InStage, Job
    <2>. QED  BY <2>1, <2>5, <2>6, SameRecord
  <1>2. ASSUME NEW w \in Workers, Leased(w)  PROVE StoreAgrees(j)'
    <2>1. /\ Next /\ pc[w] = "index" /\ UNCHANGED <<item, enqueued, record, told>>
          /\ pc' = [pc EXCEPT ![w] = "holding"] /\ stage' = [stage EXCEPT ![w] = "fetch"]
      BY <1>2 DEF Leased, IndexLease, Goto, Proceed, Next, Dequeue, history
    <2>2. \A v \in Workers : ~ AckDelete(v) /\ ~ FailDelete(v)
      BY <2>1 DEF AckDelete, FailDelete, Goto, QueueInv, TypeOK, Callers
    <2>3. QueueClaims(j)'
      BY <2>1, <2>2, QueueClaimsStep DEF StoreAgrees
    <2>4. Job(w) = j => Waits(item[w].attempt - 1, record[j])
      BY <2>1 DEF StoreAgrees, QueueClaims, HandClaim, Job
    <2>5. RunClaim(j)'
      <3>1. ASSUME NEW v \in Workers \ {w}, pc'[v] = "holding", item'[v].job = j
            PROVE  InStage(stage'[v], item'[v].attempt, record'[j])
        <4>1. pc[v] = "holding" /\ stage'[v] = stage[v]
          BY <2>1, <3>1 DEF QueueInv, TypeOK, StoreTypes, Callers
        <4>. QED  BY <2>1, <3>1, <4>1 DEF StoreAgrees, RunClaim, Job
      <3>2. ASSUME item'[w].job = j, stage'[w] = "fetch"
            PROVE  InStage(stage'[w], item'[w].attempt, record'[j])
        BY <2>1, <2>4, <3>2 DEF InStage, Job
      <3>3. stage'[w] = "fetch"
        BY <2>1 DEF StoreTypes
      <3>. QED  BY <2>1, <3>1, <3>2, <3>3 DEF RunClaim, Job
    <2>. QED  BY <2>1, <2>3, <2>5, SameRecord
  <1>3. ASSUME NEW c \in Callers, Dies(c)  PROVE StoreAgrees(j)'
    <2>1. /\ Next /\ UNCHANGED <<enqueued, record, told>> /\ pc' = [pc EXCEPT ![c] = "idle"]
          /\ item' = [item EXCEPT ![c] = NoItem]
          /\ \A w \in Workers : w # c => stage'[w] = stage[w]
      BY <1>3 DEF Dies, Crash, Finish, Goto, Take, Next
    <2>2. \A v \in Workers : ~ AckDelete(v) /\ ~ FailDelete(v)
      BY <2>1 DEF AckDelete, FailDelete, Goto, QueueInv, TypeOK, Callers
    <2>3. QueueClaims(j)'
      BY <2>1, <2>2, QueueClaimsStep DEF StoreAgrees
    <2>4. RunClaim(j)'
      BY <2>1 DEF QueueInv, TypeOK, Callers, StoreAgrees, RunClaim, Job
    <2>. QED  BY <2>1, <2>3, <2>4, SameRecord
  <1>. QED  BY <1>1, <1>2, <1>3

\* The steps of run_once that leave the record.
LEMMA StoreMove ==
  ASSUME StoreTypes, NEW j \in Jobs, StoreAgrees(j), NEW w \in Workers, NEW to,
         stage' = [stage EXCEPT ![w] = to], UNCHANGED <<vars, record, told>>,
         Job(w) = j => InStage(to, item[w].attempt, record[j])
  PROVE  StoreAgrees(j)'
  <1>1. UNCHANGED <<ready, dead, acked, enqueued, pc, item>>
    BY DEF vars
  <1>2. QueueClaims(j)'
    BY <1>1 DEF StoreAgrees, QueueClaims, ReadyClaim, HandClaim, RestClaim, InDead
  <1>3. RunClaim(j)'
    BY <1>1 DEF StoreTypes, StoreAgrees, RunClaim, Job
  <1>. QED  BY <1>1, <1>2, <1>3, SameRecord

LEMMA StoreRead ==
  ASSUME QueueAssumption, QueueInv, StoreTypes, NEW j \in Jobs, StoreAgrees(j),
         NEW w \in Workers,
         Fetch(w) \/ Answer(w) \/ MarkGet(w) \/ CompleteGet(w) \/ FailGet(w)
  PROVE  StoreAgrees(j)'
  <1>1. pc[w] = "holding"
    BY DEF Fetch, Answer, MarkGet, CompleteGet, FailGet, ReadRecord, At
  <1>2. Job(w) = j => record[j] # NoRecord /\ InStage(stage[w], item[w].attempt, record[j])
    <2>1. j = Job(w) => j \in enqueued
      BY <1>1 DEF QueueInv, CopyInv, ItemsEnqueued, HasItem, Callers, Job
    <2>. QED  BY <1>1, <2>1 DEF StoreAgrees, RunClaim
  <1>3. CASE Abort(w)
    <2>1. Stops(w) /\ UNCHANGED <<record, told>> /\ stage' = [stage EXCEPT ![w] = "none"]
      BY <1>1, <1>3 DEF Abort, Stops, Leave, Proceed
    <2>2. QueueClaims(j)'
      BY <2>1, StopKeepsClaims DEF StoreAgrees
    <2>3. RunClaim(j)' /\ enqueued' = enqueued
      BY <2>1 DEF Stops, Finish, Goto, Take, history, QueueInv, TypeOK, StoreTypes, Callers,
                  StoreAgrees, RunClaim, Job
    <2>. QED  BY <2>1, <2>2, <2>3, SameRecord
  <1>4. CASE Fetch(w) \/ Answer(w)
    <2>1. PICK to \in Stages :
            /\ stage' = [stage EXCEPT ![w] = to] /\ UNCHANGED <<vars, record, told>>
            /\ \/ stage[w] = "fetch" /\ to = IF record[Job(w)] = NoRecord THEN "ack" ELSE "mark_get"
               \/ stage[w] = "answering" /\ to \in {"complete_get", "fail_get"}
      BY <1>4 DEF Fetch, Answer, At, Proceed, Stages
    <2>2. Job(w) = j => InStage(to, item[w].attempt, record[j])
      BY <1>2, <2>1 DEF InStage
    <2>. QED  BY <2>1, <2>2, StoreMove
  <1>5. CASE /\ MarkGet(w) \/ CompleteGet(w) \/ FailGet(w)
             /\ ~ Abort(w)
    <2>1. PICK to \in Stages :
            /\ stage' = [stage EXCEPT ![w] = to] /\ UNCHANGED <<vars, record, told>>
            /\ \/ stage[w] = "mark_get" /\ to = "mark_set"
               \/ stage[w] = "complete_get" /\ to = "complete_set"
               \/ stage[w] = "fail_get" /\ to = "fail_set"
      BY <1>5 DEF MarkGet, CompleteGet, FailGet, ReadRecord, At, Proceed, Stages
    <2>2. Job(w) = j => InStage(to, item[w].attempt, record[j])
      BY <1>2, <2>1 DEF InStage
    <2>. QED  BY <2>1, <2>2, StoreMove
  <1>. QED  BY <1>3, <1>4, <1>5

\* What a SET of run_once writes, and the stage it belongs to.
Writes(w, new, to) ==
  \/ stage[w] = "mark_set" /\ new.status = "running" /\ to \in {"answering", "fail_get"}
  \/ /\ stage[w] = "complete_set" /\ new = [status |-> "completed", answered |-> TRUE]
     /\ to = "ack"
  \/ stage[w] = "fail_set" /\ new.status = "failed" /\ to = "fail"

LEMMA SetFacts ==
  ASSUME SystemAssumption, StoreTypes, NEW w \in Workers,
         MarkSet(w) \/ CompleteSet(w) \/ FailSet(w)
  PROVE  /\ pc[w] = "holding" /\ UNCHANGED <<vars, feed, told, stale>>
         /\ \E new \in Record, to \in Stages :
              /\ record' = [record EXCEPT ![Job(w)] = new]
              /\ stage' = [stage EXCEPT ![w] = to]
              /\ Writes(w, new, to)
  <1>. USE DEF WriteRecord, At, Proceed
  <1>1. CASE MarkSet(w)
    <2>1. stage[w] = "mark_set" /\ seen[w] \in Record /\ "running" \in JobStatus
      BY <1>1 DEF MarkSet, StoreTypes, SeenTyped, JobStatus
    <2>. PICK new \in Record : new = [seen[w] EXCEPT !.status = "running"] /\ new.status = "running"
      BY <2>1, StatusWritten
    <2>. PICK to \in {"answering", "fail_get"} :
           to = IF Job(w) \in GeneralQuestions /\ ~ QaConfigured THEN "fail_get" ELSE "answering"
      OBVIOUS
    <2>2. /\ pc[w] = "holding" /\ UNCHANGED <<vars, feed, told, stale>>
          /\ record' = [record EXCEPT ![Job(w)] = new] /\ stage' = [stage EXCEPT ![w] = to]
      BY <1>1 DEF MarkSet
    <2>. QED  BY <2>1, <2>2 DEF Writes, Stages
  <1>2. CASE CompleteSet(w)
    <2>1. [status |-> "completed", answered |-> TRUE] \in Record
      BY DEF Record, JobStatus
    <2>2. /\ pc[w] = "holding" /\ UNCHANGED <<vars, feed, told, stale>>
          /\ record' = [record EXCEPT ![Job(w)] = [status |-> "completed", answered |-> TRUE]]
          /\ stage' = [stage EXCEPT ![w] = "ack"] /\ stage[w] = "complete_set"
      BY <1>2 DEF CompleteSet
    <2>. QED  BY <2>1, <2>2 DEF Writes, Stages
  <1>3. CASE FailSet(w)
    <2>1. stage[w] = "fail_set" /\ seen[w] \in Record /\ "failed" \in JobStatus
      BY <1>3 DEF FailSet, StoreTypes, SeenTyped, JobStatus
    <2>. PICK new \in Record : new = [seen[w] EXCEPT !.status = "failed"] /\ new.status = "failed"
      BY <2>1, StatusWritten
    <2>2. /\ pc[w] = "holding" /\ UNCHANGED <<vars, feed, told, stale>>
          /\ record' = [record EXCEPT ![Job(w)] = new] /\ stage' = [stage EXCEPT ![w] = "fail"]
      BY <1>3 DEF FailSet
    <2>. QED  BY <2>1, <2>2 DEF Writes, Stages
  <1>. QED  BY <1>1, <1>2, <1>3

\* A worker that writes the record of a steady job is the only place the job is
\* in, so nothing else says what the record shows; and the job shows no verdict
\* that a client could have been told.
LEMMA StoreWrite ==
  ASSUME QueueAssumption, SystemAssumption, QueueInv, StoreTypes,
         NEW j \in Jobs, lapses[j] = 0, StoreAgrees(j), NEW w \in Workers,
         MarkSet(w) \/ CompleteSet(w) \/ FailSet(w)
  PROVE  StoreAgrees(j)'
  <1>1. PICK new \in Record, to \in Stages :
          /\ pc[w] = "holding" /\ UNCHANGED <<vars, told>>
          /\ record' = [record EXCEPT ![Job(w)] = new]
          /\ stage' = [stage EXCEPT ![w] = to]
          /\ Writes(w, new, to)
    BY SetFacts
  <1>2. UNCHANGED <<ready, dead, acked, enqueued, pc, item, told>>
    BY <1>1 DEF vars
  <1>3. CASE Job(w) # j
    <2>1. record'[j] = record[j]
      BY <1>1, <1>3 DEF StoreTypes
    <2>2. QueueClaims(j)'
      BY <1>2, <2>1 DEF StoreAgrees, QueueClaims, ReadyClaim, HandClaim, RestClaim, InDead
    <2>3. RunClaim(j)'
      BY <1>1, <1>2, <1>3, <2>1 DEF StoreTypes, StoreAgrees, RunClaim, Job
    <2>. QED  BY <1>2, <2>1, <2>2, <2>3 DEF StoreAgrees
  <1>4. CASE Job(w) = j
    <2>1. /\ ~ InReady(j) /\ ~ InHand(j) /\ ~ Settled(j)
          /\ \A v \in Workers \ {w} : pc[v] \in Owning => Job(v) # j
      BY <1>1, <1>4, Alone
    <2>2. record'[j] = new /\ new # NoRecord
      BY <1>1, <1>4 DEF StoreTypes, SystemAssumption
    <2>3. QueueClaims(j)'
      BY <1>1, <1>2, <1>4, <2>1 DEF QueueClaims, ReadyClaim, HandClaim, RestClaim, InDead, InReady,
                        InHand, InMemoryOnly, Owning, Settled, Job, Callers
    <2>4. RunClaim(j)'
      <3>1. ASSUME NEW v \in Workers, pc'[v] = "holding", item'[v].job = j  PROVE v = w
        BY <1>2, <2>1, <3>1 DEF Owning, Job
      <3>2. stage'[w] = to /\ InStage(to, item[w].attempt, new)
        BY <1>1 DEF StoreTypes, Writes, InStage
      <3>. QED  BY <1>2, <2>2, <3>1, <3>2 DEF RunClaim, Job
    <2>5. j \in enqueued
      BY <1>1, <1>4 DEF QueueInv, CopyInv, ItemsEnqueued, HasItem, Callers, Job
    <2>6. told[j] # "completed"
      <3>1. InStage(stage[w], item[w].attempt, record[j])
        BY <1>1, <1>4 DEF StoreAgrees, RunClaim
      <3>2. record[j].status # "completed"
        BY <1>1, <3>1 DEF Writes, InStage, Waits
      <3>. QED  BY <3>2 DEF StoreAgrees
    <2>7. new.status = "completed" => new.answered
      BY <1>1 DEF Writes
    <2>. QED  BY <1>2, <2>2, <2>3, <2>4, <2>5, <2>6, <2>7 DEF StoreAgrees
  <1>. QED  BY <1>3, <1>4

\* The handlers, the stream and the feed.
LEMMA StoreJob ==
  ASSUME QueueAssumption, SystemAssumption, QueueInv, StoreTypes, NEW j \in Steady',
         j \notin Expiring, lapses[j] = 0, lapses'[j] = 0, j \in Jobs, StoreAgrees(j),
         NEW k \in Jobs,
         CreateJob(k) \/ EnqueueJob(k) \/ StreamPoll(k) \/ RecordExpires(k)
           \/ FeedGet(k) \/ FeedSet(k)
  PROVE  StoreAgrees(j)'
  <1>1. CASE CreateJob(k)
    <2>1. /\ UNCHANGED <<ready, dead, acked, enqueued, pc, item, stage, told>>
          /\ record[k] = NoRecord /\ k \notin enqueued
          /\ record' = [record EXCEPT ![k] = [status |-> "queued", answered |-> FALSE]]
      BY <1>1 DEF CreateJob, vars
    <2>2. CASE k # j
      <3>1. record'[j] = record[j]
        BY <2>1, <2>2 DEF StoreTypes
      <3>. QED  BY <2>1, <3>1 DEF StoreAgrees, QueueClaims, ReadyClaim, HandClaim, RestClaim,
                                  InDead, RunClaim, Job
    <2>3. CASE k = j
      <3>1. record'[j].status = "queued" /\ told[j] # "completed"
        BY <2>1, <2>3 DEF StoreTypes, StoreAgrees
      <3>2. ~ InReady(j) /\ ~ InDead(j) /\ j \notin acked
        BY <2>1, <2>3 DEF QueueInv, CopyInv, ItemsEnqueued, InReady, SettledAlone, Settled
      <3>3. \A w \in Workers : pc[w] \in LossWindow \union {"holding"} => item[w].job # j
        BY <2>1, <2>3 DEF QueueInv, CopyInv, ItemsEnqueued, HasItem, Callers
      <3>4. QueueClaims(j)' /\ RunClaim(j)'
        BY <2>1, <3>2, <3>3 DEF QueueClaims, ReadyClaim, HandClaim, RestClaim, InReady, InDead,
                                RunClaim, Job, LossWindow, InMemoryOnly
      <3>. QED  BY <2>1, <2>3, <3>1, <3>4 DEF StoreAgrees
    <2>. QED  BY <2>2, <2>3
  <1>2. CASE EnqueueJob(k)
    <2>1. /\ Next /\ UNCHANGED <<record, stage, told, pc, item>> /\ record[k] # NoRecord
          /\ k \notin enqueued /\ enqueued' = enqueued \union {k}
      BY <1>2 DEF EnqueueJob, Enqueue, Next, sysvars, local
    <2>2. \A v \in Workers : ~ AckDelete(v) /\ ~ FailDelete(v)
      BY <2>1 DEF AckDelete, FailDelete, Goto, QueueInv, TypeOK, Callers
    <2>3. QueueClaims(j)'
      BY <2>1, <2>2, QueueClaimsStep DEF StoreAgrees
    <2>4. RunClaim(j)'
      BY <2>1 DEF StoreAgrees, RunClaim, Job
    <2>. QED  BY <2>1, <2>3, <2>4, SameRecord
  <1>3. CASE StreamPoll(k)
    <2>1. UNCHANGED <<ready, dead, acked, enqueued, pc, item, stage, record>>
      BY <1>3 DEF StreamPoll, vars
    <2>2. told'[j] = "completed" => record[j] # NoRecord /\ record[j].status = "completed"
      BY <1>3 DEF StreamPoll, StoreTypes, StoreAgrees
    <2>. QED  BY <2>1, <2>2 DEF StoreAgrees, QueueClaims, ReadyClaim, HandClaim, RestClaim,
                                InDead, RunClaim, Job
  <1>4. CASE RecordExpires(k) \/ FeedGet(k) \/ FeedSet(k)
    <2>1. UNCHANGED <<ready, dead, acked, enqueued, pc, item, stage, told>>
      BY <1>4 DEF RecordExpires, FeedGet, FeedSet, vars
    <2>2. record'[j] = record[j]
      <3>1. CASE RecordExpires(k)
        BY <3>1 DEF RecordExpires, StoreTypes
      <3>2. CASE FeedGet(k)
        BY <3>2 DEF FeedGet
      <3>3. CASE FeedSet(k)
        BY <3>3 DEF FeedSet, StoreTypes, Steady
      <3>. QED  BY <1>4, <3>1, <3>2, <3>3
    <2>. QED  BY <2>1, <2>2 DEF StoreAgrees, QueueClaims, ReadyClaim, HandClaim, RestClaim,
                                InDead, RunClaim, Job
  <1>. QED  BY <1>1, <1>2, <1>3, <1>4

LEMMA StoreInvStep ==
  ASSUME QueueAssumption, SystemAssumption, SysInv, [SysNext]_allvars
  PROVE  StoreInv'
  <1>. USE DEF SysInv
  <1>. SUFFICES ASSUME NEW j \in Steady'  PROVE StoreAgrees(j)'
    BY DEF StoreInv
  <1>1. /\ j \in Steady /\ lapses[j] = 0 /\ lapses'[j] = 0 /\ j \in Jobs /\ j \notin Expiring
        /\ StoreAgrees(j)
    BY SteadyBefore DEF StoreInv
  <1>2. ASSUME Quiet  PROVE StoreAgrees(j)'
    BY <1>1, <1>2, StoreQuiet
  <1>3. ASSUME NEW c \in Callers, Dies(c)  PROVE StoreAgrees(j)'
    BY <1>1, <1>3, StoreLeave
  <1>4. ASSUME NEW w \in Workers, AckItem(w) \/ FailItem(w) \/ Leased(w)  PROVE StoreAgrees(j)'
    BY <1>1, <1>4, StoreLeave
  <1>5. ASSUME NEW w \in Workers, Fetch(w) \/ Answer(w) \/ MarkGet(w) \/ CompleteGet(w) \/ FailGet(w)
        PROVE  StoreAgrees(j)'
    BY <1>1, <1>5, StoreRead
  <1>6. ASSUME NEW w \in Workers, MarkSet(w) \/ CompleteSet(w) \/ FailSet(w)
        PROVE  StoreAgrees(j)'
    BY <1>1, <1>6, StoreWrite
  <1>7. ASSUME NEW k \in Jobs, CreateJob(k) \/ EnqueueJob(k) \/ StreamPoll(k) \/ RecordExpires(k)
                                 \/ FeedGet(k) \/ FeedSet(k)
        PROVE  StoreAgrees(j)'
    BY <1>1, <1>7, StoreJob
  <1>. QED  BY <1>2, <1>3, <1>4, <1>5, <1>6, <1>7, SysStepCases DEF QueueInv

LEMMA SysInvInit ==
  ASSUME SystemAssumption, SysInit
  PROVE  SysInv
  <1>1. QueueInv /\ StoreTypes
    BY SysInitTypes
  <1>2. ASSUME NEW j \in Jobs  PROVE StoreAgrees(j)
    <2>1. /\ ready = << >> /\ dead = {} /\ acked = {} /\ enqueued = {}
          /\ \A w \in Workers : pc[w] = "idle"
          /\ record[j] = NoRecord /\ told[j] = "none"
      BY DEF SysInit, Init, Callers
    <2>. QED  BY <2>1, EmptySeq DEF StoreAgrees, QueueClaims, ReadyClaim, HandClaim, RestClaim,
                                    InDead, RunClaim
  <1>. QED  BY <1>1, <1>2 DEF SysInv, StoreInv, Steady, DeliveredOnce

LEMMA SysInvStep ==
  ASSUME QueueAssumption, SystemAssumption, SysInv, [SysNext]_allvars
  PROVE  SysInv'
  BY SysQueueInvStep, StoreTypesStep, StoreInvStep DEF SysInv, QueueInv

LEMMA SysInvAlways == SysSpec => []SysInv
  <1>1. SysInit => SysInv
    BY SystemAssumption, SysInvInit
  <1>2. SysInv /\ [SysNext]_allvars => SysInv'
    BY QueueAssumption, SystemAssumption, SysInvStep
  <1>. QED  BY <1>1, <1>2, PTL DEF SysSpec

\* StoreMatchesQueue for every number of jobs, workers, lapses and crashes: the
\* order in which run_once writes the record and settles the item holds at
\* every crash and in every interleaving.
THEOREM StoreFollowsQueue == SysSpec => []StoreMatchesQueue
  <1>1. SysInv => StoreMatchesQueue
    <2>1. ASSUME SysInv, NEW j \in Steady \intersect enqueued
          PROVE  /\ j \in acked => record[j].status = "completed" /\ record[j].answered
                 /\ InDead(j) => record[j].status = "failed"
                 /\ \A i \in DOMAIN ready : ready[i].job = j =>
                      record[j].status = IF ready[i].attempt = 0 THEN "queued" ELSE "failed"
      BY <2>1 DEF SysInv, StoreInv, StoreAgrees, QueueClaims, ReadyClaim, RestClaim, Waits
    <2>. QED  BY <2>1 DEF StoreMatchesQueue
  <1>. QED  BY <1>1, SysInvAlways, PTL

\* ToldCompletedStays likewise: nothing a worker, a retry or a restart does takes
\* back a "completed" that a client's stream has ended with.
THEOREM ToldCompletedIsKept == SysSpec => []ToldCompletedStays
  <1>1. SysInv => ToldCompletedStays
    BY DEF SysInv, StoreInv, StoreAgrees, ToldCompletedStays
  <1>. QED  BY <1>1, SysInvAlways, PTL

\* Two workers run a job at once only after a lapse, also where run_once, its
\* store operations and the deaths they cause are part of the worker.
THEOREM SystemOneWorkerRunsAJob == SysSpec => []OneWorkerPerJob
  <1>1. SysInv => OneWorkerPerJob
    BY QueueAssumption, OneWorkerFromCopies DEF SysInv
  <1>. QED  BY <1>1, SysInvAlways, PTL

\* Nor does a store operation that raises lose a job: the lease stays behind,
\* where recovery finds it.
THEOREM SystemLosesNoJob == SysSpec => []NoJobLost
  <1>1. SysInit => NoJobLost
    BY DEF SysInit, Init, NoJobLost
  <1>2. SysInv /\ NoJobLost /\ [SysNext]_allvars => NoJobLost'
    <2>1. ASSUME SysInv, NoJobLost, [Next]_vars  PROVE NoJobLost'
      BY <2>1, QueueAssumption, NoJobLostStep DEF SysInv, QueueInv
    <2>2. ASSUME SysInv, NoJobLost, NEW w \in Workers, Stops(w)  PROVE NoJobLost'
      BY <2>2 DEF Stops, Finish, Goto, Take, redis, history, SysInv, QueueInv, TypeOK, Callers,
                  NoJobLost, InReady, InLease, Found, InHand, InDead, InMemoryOnly
    <2>. QED  BY <2>1, <2>2, QueueSteps
  <1>. QED  BY <1>1, <1>2, SysInvAlways, PTL DEF SysSpec

LEMMA StopsKeepsCountInv ==
  ASSUME FiniteAssumption, QueueInv, CountInv, NEW w \in Workers, Stops(w)
  PROVE  CountInv'
  <1>1. /\ w \in Callers /\ pc' = [pc EXCEPT ![w] = "idle"]
        /\ item' = [item EXCEPT ![w] = NoItem] /\ lease' = [lease EXCEPT ![w] = NoLease]
        /\ UNCHANGED <<ready, leased, overdue, dead, acked, lapses>>
    BY DEF Stops, Finish, Goto, Take, redis, history, Callers
  <1>2. CountFacts'
    BY <1>1 DEF CountInv, CountFacts, RecoversOverdue, LeasedByCaller, QueueInv, TypeOK, Callers
  <1>3. ASSUME NEW j \in Jobs  PROVE Potential(j)' <= Limit(j)'
    <2>1. NoMore(j) /\ Limit(j)' = Limit(j)
      BY <1>1, DropMoves DEF CountInv, CountFacts, QueueInv, Limit, Procs, Callers
    <2>. QED  BY <2>1, NoMoreCount DEF CountInv, QueueInv
  <1>. QED  BY <1>2, <1>3 DEF CountInv

\* A worker that a store operation ends gives up no copy and no attempt that
\* the bounds do not count: they hold of the job path as of the queue.
THEOREM SystemKeepsTheBounds == SysSpec => [](RetryBudget /\ DuplicationBound)
  <1>1. SysInit => CountInv
    BY FiniteAssumption, CountInit DEF SysInit
  <1>2. SysInv /\ CountInv /\ [SysNext]_allvars => CountInv'
    BY QueueAssumption, FiniteAssumption, QueueSteps, CountInvStep, StopsKeepsCountInv
       DEF SysInv
  <1>3. SysInv /\ CountInv => RetryBudget /\ DuplicationBound
    BY QueueAssumption, FiniteAssumption, BudgetFromBounds, CopiesFromPotential
       DEF SysInv, QueueInv
  <1>. QED  BY <1>1, <1>2, <1>3, SysInvAlways, PTL DEF SysSpec

-----------------------------------------------------------------------------
(* The refinement of JobLifecycle.  A record changes in four ways: a handler *)
(* creates it, a worker moves it on, it expires, or a feed puts it back.     *)

Shown     == [j \in Jobs |-> IF record[j] = NoRecord THEN "absent" ELSE record[j].status]
Disturbed == {j \in Jobs : lapses[j] > 0} \union (Expiring \intersect enqueued)

LifecycleStep == Lifecycle!Next \/ UNCHANGED <<Shown, Disturbed, stale>>

\* A step that replaces the record of one job and nothing else a client sees.
LEMMA ShownMoves ==
  ASSUME StoreTypes, NEW j \in Jobs, NEW new \in Record \union {NoRecord},
         record' = [record EXCEPT ![j] = new]
  PROVE  Shown' = [Shown EXCEPT ![j] = IF new = NoRecord THEN "absent" ELSE new.status]
  BY DEF StoreTypes, Shown

LEMMA CreateAdvances ==
  ASSUME SystemAssumption, StoreTypes, NEW j \in Jobs, CreateJob(j)
  PROVE  LifecycleStep
  <1>. PICK new \in Record : new = [status |-> "queued", answered |-> FALSE]
    BY DEF Record, JobStatus
  <1>1. /\ record' = [record EXCEPT ![j] = new] /\ record[j] = NoRecord
        /\ new # NoRecord /\ new.status = "queued"
        /\ UNCHANGED <<lapses, enqueued, stale>>
    BY DEF CreateJob, vars, SystemAssumption
  <1>2. Shown' = [Shown EXCEPT ![j] = "queued"] /\ Shown[j] = "absent"
    BY <1>1, ShownMoves DEF Shown
  <1>3. Disturbed' = Disturbed
    BY <1>1 DEF Disturbed
  <1>4. Lifecycle!Advance(j)
    BY <1>1, <1>2, <1>3 DEF Lifecycle!Advance, Lifecycle!Legal, Lifecycle!Statuses,
                            Lifecycle!Move, Shown, Disturbed
  <1>. QED  BY <1>4 DEF LifecycleStep, Lifecycle!Next

LEMMA ExpiryStrays ==
  ASSUME StoreTypes, NEW j \in Jobs, RecordExpires(j)
  PROVE  LifecycleStep
  <1>1. /\ record' = [record EXCEPT ![j] = NoRecord] /\ UNCHANGED <<lapses, enqueued, stale>>
        /\ j \in Disturbed
    BY DEF RecordExpires, vars, Disturbed
  <1>2. Shown' = [Shown EXCEPT ![j] = "absent"] /\ Disturbed' = Disturbed
    BY <1>1, ShownMoves DEF Disturbed
  <1>3. Lifecycle!Stray(j)
    BY <1>1, <1>2 DEF Lifecycle!Stray, Lifecycle!Statuses, Lifecycle!Move, Shown, Disturbed
  <1>. QED  BY <1>3 DEF LifecycleStep, Lifecycle!Next

LEMMA FeedRewinds ==
  ASSUME SystemAssumption, StoreTypes, NEW j \in Jobs, FeedSet(j)
  PROVE  LifecycleStep
  <1>1. /\ feed[j] \in Record /\ feed[j] # NoRecord /\ feed[j].status \in JobStatus
        /\ record' = [record EXCEPT ![j] = feed[j]] /\ UNCHANGED <<lapses, enqueued>>
        /\ stale' = IF record[j] = feed[j] THEN stale ELSE stale \union {j}
    BY DEF FeedSet, vars, StoreTypes, Record
  <1>. PICK new \in Record : new = feed[j]
    BY <1>1
  <1>2. Shown' = [Shown EXCEPT ![j] = new.status] /\ Disturbed' = Disturbed
    BY <1>1, ShownMoves DEF Disturbed
  <1>3. CASE record[j] = feed[j]
    <2>1. Shown' = Shown
      BY <1>1, <1>3 DEF StoreTypes, Shown
    <2>. QED  BY <1>1, <1>2, <1>3, <2>1 DEF LifecycleStep
  <1>4. CASE record[j] # feed[j]
    <2>1. Lifecycle!Rewind(j)
      BY <1>1, <1>2, <1>4 DEF Lifecycle!Rewind, Lifecycle!Statuses, Lifecycle!Move,
                              JobStatus, Shown, Disturbed
    <2>. QED  BY <2>1 DEF LifecycleStep, Lifecycle!Next
  <1>. QED  BY <1>3, <1>4

\* A SET of run_once: the next status in order when the job is steady, a status
\* other than "queued" when it was delivered again or its record may expire.
LEMMA SetMoves ==
  ASSUME QueueAssumption, SystemAssumption, SysInv, NEW w \in Workers,
         MarkSet(w) \/ CompleteSet(w) \/ FailSet(w)
  PROVE  LifecycleStep
  <1>. USE DEF SysInv
  <1>1. PICK new \in Record, to \in Stages :
          /\ pc[w] = "holding" /\ UNCHANGED <<vars, stale>>
          /\ record' = [record EXCEPT ![Job(w)] = new]
          /\ Writes(w, new, to)
    BY SetFacts
  <1>. PICK j \in Jobs : j = Job(w)
    BY <1>1, HeldJob DEF QueueInv
  <1>2. j \in enqueued /\ new # NoRecord
    BY <1>1 DEF QueueInv, CopyInv, ItemsEnqueued, HasItem, Callers, Job, SystemAssumption
  <1>3. UNCHANGED <<lapses, enqueued, stale>> /\ Disturbed' = Disturbed
    BY <1>1 DEF vars, Disturbed
  <1>4. Shown' = [Shown EXCEPT ![j] = new.status]
    BY <1>1, <1>2, ShownMoves
  <1>5. new.status \in {"running", "completed", "failed"}
    BY <1>1 DEF Writes
  <1>6. CASE j \in stale
    <2>1. Lifecycle!Rewind(j)
      BY <1>3, <1>4, <1>5, <1>6 DEF Lifecycle!Rewind, Lifecycle!Statuses, Lifecycle!Move,
                                    Shown, Disturbed
    <2>. QED  BY <2>1 DEF LifecycleStep, Lifecycle!Next
  <1>7. CASE j \in Disturbed
    <2>1. Lifecycle!Stray(j)
      BY <1>3, <1>4, <1>5, <1>7 DEF Lifecycle!Stray, Lifecycle!Statuses, Lifecycle!Move,
                                    Shown, Disturbed
    <2>. QED  BY <2>1 DEF LifecycleStep, Lifecycle!Next
  <1>8. CASE j \notin stale /\ j \notin Disturbed
    <2>1. j \in Steady
      BY <1>2, <1>8 DEF Disturbed, Steady, DeliveredOnce, QueueInv, TypeOK
    <2>2. InStage(stage[w], item[w].attempt, record[j]) /\ record[j] # NoRecord
      BY <1>1, <1>2, <2>1 DEF StoreInv, StoreAgrees, RunClaim
    <2>3. <<record[j].status, new.status>> \in Lifecycle!Legal
      BY <1>1, <2>2 DEF Writes, InStage, Waits, Lifecycle!Legal
    <2>4. Shown[j] = record[j].status
      BY <2>2 DEF Shown
    <2>5. Lifecycle!Advance(j)
      BY <1>3, <1>4, <1>5, <2>3, <2>4
         DEF Lifecycle!Advance, Lifecycle!Statuses, Lifecycle!Move, Shown, Disturbed
    <2>. QED  BY <2>5 DEF LifecycleStep, Lifecycle!Next
  <1>. QED  BY <1>6, <1>7, <1>8

LEMMA LapseDisturbs ==
  ASSUME TypeOK, NEW l \in LeaseIds, LeaseLapses(l), UNCHANGED <<record, stale, enqueued>>
  PROVE  LifecycleStep
  <1>1. /\ leased[l] \in Item /\ leased[l].job \in Jobs
        /\ lapses' = [lapses EXCEPT ![leased[l].job] = @ + 1]
    BY DEF LeaseLapses, TypeOK, Item
  <1>. PICK j \in Jobs : j = leased[l].job
    BY <1>1
  <1>2. \A k \in Jobs : lapses'[k] > 0 <=> lapses[k] > 0 \/ k = j
    BY <1>1 DEF TypeOK
  <1>3. Disturbed' = Disturbed \union {j} /\ Shown' = Shown
    BY <1>2 DEF Disturbed, Shown
  <1>4. Lifecycle!Disturb(j)
    BY <1>3 DEF Lifecycle!Disturb, Shown, Disturbed
  <1>. QED  BY <1>4 DEF LifecycleStep, Lifecycle!Next

LEMMA EnqueueDisturbs ==
  ASSUME NEW j \in Jobs, EnqueueJob(j)
  PROVE  LifecycleStep
  <1>1. /\ UNCHANGED <<record, stale, lapses>> /\ enqueued' = enqueued \union {j}
    BY DEF EnqueueJob, Enqueue, sysvars
  <1>2. Shown' = Shown
    BY <1>1 DEF Shown
  <1>3. CASE j \in Expiring
    <2>1. Disturbed' = Disturbed \union {j}
      BY <1>1, <1>3 DEF Disturbed
    <2>2. Lifecycle!Disturb(j)
      BY <1>1, <1>2, <2>1 DEF Lifecycle!Disturb, Shown, Disturbed
    <2>. QED  BY <2>2 DEF LifecycleStep, Lifecycle!Next
  <1>4. CASE j \notin Expiring
    <2>1. Disturbed' = Disturbed
      BY <1>1, <1>4 DEF Disturbed
    <2>. QED  BY <1>1, <1>2, <2>1 DEF LifecycleStep
  <1>. QED  BY <1>3, <1>4

LEMMA LifecycleStutters ==
  ASSUME UNCHANGED <<record, lapses, enqueued, stale>>
  PROVE  LifecycleStep
  BY DEF LifecycleStep, Shown, Disturbed

LEMMA LifecycleSteps ==
  ASSUME QueueAssumption, SystemAssumption, SysInv, [SysNext]_allvars
  PROVE  LifecycleStep
  <1>. USE DEF SysInv
  <1>1. ASSUME NEW j \in Jobs, StreamPoll(j) \/ FeedGet(j)  PROVE LifecycleStep
    BY <1>1, LifecycleStutters DEF StreamPoll, FeedGet, vars
  <1>2. ASSUME NEW w \in Workers,
               Fetch(w) \/ Answer(w) \/ MarkGet(w) \/ CompleteGet(w) \/ FailGet(w)
        PROVE  LifecycleStep
    BY <1>2, LifecycleStutters DEF Fetch, Answer, MarkGet, CompleteGet, FailGet, ReadRecord,
                                   Abort, history, vars
  <1>3. ASSUME NEW w \in Workers, AckItem(w) \/ FailItem(w) \/ Leased(w)  PROVE LifecycleStep
    BY <1>3, LifecycleStutters DEF AckItem, FailItem, Leased, AckDelete, FailDelete, IndexLease,
                                   Leave, history
  <1>4. ASSUME NEW c \in Callers, Dies(c)  PROVE LifecycleStep
    BY <1>4, LifecycleStutters DEF Dies, Crash
  <1>5. ASSUME Quiet  PROVE LifecycleStep
    <2>1. UNCHANGED <<record, stale, enqueued>> /\ [Next]_vars
      BY <1>5 DEF Quiet, sysvars
    <2>2. CASE \E l \in LeaseIds : LeaseLapses(l)
      BY <2>1, <2>2, LapseDisturbs DEF QueueInv
    <2>3. CASE ~ \E l \in LeaseIds : LeaseLapses(l)
      <3>1. lapses' = lapses
        BY <2>1, <2>3, StepCases DEF vars, history, Enqueue, Scan, RecoverGet, RecoverDrop,
           RecoverDelete, RecoverUnindex, RecoverPush, Pop, PopTimeout, PutBack, WriteLease,
           IndexLease, AckDelete, AckUnindex, FailDelete, FailUnindex, FailPush,
           BackoffElapses, StaleKeyLapses, Crash
      <3>. QED  BY <2>1, <3>1, LifecycleStutters
    <2>. QED  BY <2>2, <2>3
  <1>. QED  BY <1>1, <1>2, <1>3, <1>4, <1>5, CreateAdvances, EnqueueDisturbs, ExpiryStrays,
               FeedRewinds, SetMoves, SysStepCases DEF QueueInv

\* The job path implements JobLifecycle: whatever the queue, the workers, the
\* feed and the TTL do, a client sees a lifecycle it may rely on.
THEOREM SystemImplementsLifecycle == SysSpec => ImplementsLifecycle
  <1>1. SysInit => Lifecycle!Init
    BY DEF SysInit, Init, Lifecycle!Init
  <1>2. SysInv /\ [SysNext]_allvars =>
          [Lifecycle!Next]_<<[j \in Jobs |-> IF record[j] = NoRecord THEN "absent" ELSE record[j].status],
                             {j \in Jobs : lapses[j] > 0} \union (Expiring \intersect enqueued),
                             stale>>
    BY QueueAssumption, SystemAssumption, LifecycleSteps DEF LifecycleStep, Shown, Disturbed
  <1>. QED  BY <1>1, <1>2, SysInvAlways, PTL DEF SysSpec, ImplementsLifecycle, Lifecycle!Spec
=============================================================================
