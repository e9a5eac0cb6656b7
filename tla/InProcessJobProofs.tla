-------------------------- MODULE InProcessJobProofs -------------------------
(***************************************************************************)
(* Proofs about InProcessJob, for any number of topic sections and batches  *)
(* of cards: TypeOK, RecordKeepsUp and VerdictHolds are invariants of Spec, *)
(* and Spec implements JobLifecycle.                                       *)
(***************************************************************************)
EXTENDS InProcessJob, TLAPS

-----------------------------------------------------------------------------
(* The inductive invariant.                                                *)

\* How far the runner is decides which write may be next: a verdict is written
\* over "running" only, a report leaves room for completed, and sections are
\* appended in order, as long as one is missing.
RunnerInOrder ==
  /\ \E k \in 0 .. Topics : runner.wrote.sections = 1 .. k
  /\ runner.op \in {"none", "mark"} => runner.wrote = NewJob
  /\ runner.op \in RunnerOps \ {"mark"} => runner.wrote.status = "running"
  /\ runner.op = "report" => runner.wrote.milestone \in 1 .. 5
  /\ runner.op = "section" => runner.wrote.sections # 1 .. Topics
  /\ runner.op # "ended" => ~ runner.wrote.answered

\* The sidecar finds no more valid batches than it tried, and starts with the
\* runner, once there is a record.
FeederInOrder ==
  /\ feeder.cards <= feeder.tried
  /\ record = None => runner.op = "none" /\ rewound = "no"
  /\ runner.op = "none" => feeder.op = "none"

\* Unless an old copy was put back, what the runner is about to build on is
\* what it wrote last.
CopiesKeepUp ==
  rewound = "no" =>
    /\ record # None => record.job = runner.wrote
    /\ runner.copy # None => runner.copy.job = runner.wrote

\* Before the runner has ended nobody holds or stores an answered job.
NoAnswerYet ==
  runner.op # "ended" =>
    /\ record # None => ~ record.job.answered
    /\ runner.copy # None => ~ runner.copy.job.answered
    /\ feeder.copy # None => ~ feeder.copy.job.answered

JobInv ==
  TypeOK /\ RunnerInOrder /\ FeederInOrder /\ CopiesKeepUp /\ NoAnswerYet /\ VerdictHolds

-----------------------------------------------------------------------------
(* What the writes make of a record.                                       *)

\* The sections written so far are the first ones, so the next is the one after
\* the last.
LEMMA SectionFacts ==
  ASSUME NEW job \in Job, NEW k \in 0 .. Topics, job.sections = 1 .. k,
         job.sections # 1 .. Topics
  PROVE  /\ NextSection(job) \in 1 .. Topics
         /\ \E i \in 0 .. Topics : job.sections \union {NextSection(job)} = 1 .. i
  <1>. DEFINE rest == 1 .. Topics \ job.sections
  <1>1. k \in Nat /\ Topics \in Nat /\ k < Topics
    BY JobAssumption
  <1>2. k + 1 \in rest /\ \A u \in rest : k + 1 <= u
    BY <1>1
  <1>3. NextSection(job) \in rest /\ \A u \in rest : NextSection(job) <= u
    BY <1>2 DEF NextSection
  <1>4. NextSection(job) = k + 1
    BY <1>1, <1>2, <1>3
  <1>5. job.sections \union {k + 1} = 1 .. (k + 1) /\ k + 1 \in 0 .. Topics
    BY <1>1
  <1>. QED  BY <1>2, <1>4, <1>5

\* What RunnerSet relies on: the write is one of the runner's, and what it has
\* written so far leaves room for it.
Ready(op, done) ==
  /\ op \in RunnerOps /\ done \in Job
  /\ \E k \in 0 .. Topics : done.sections = 1 .. k
  /\ op = "report" => done.milestone \in 1 .. 5
  /\ op = "section" => done.sections # 1 .. Topics

LEMMA AtMilestone ==
  ASSUME NEW job \in Job, NEW m \in 0 .. 7
  PROVE  [job EXCEPT !.milestone = m] \in Job
  BY DEF Job

\* A write keeps the type, and sets the status and the answer of its own accord
\* only, whatever record it found.
Writes(op, job, done, new) ==
  /\ new \in Job
  /\ op = "mark" => new.status = "running" /\ new.milestone = 1
  /\ op = "complete" => new.status = "completed" /\ new.answered
  /\ op = "fail" => new.status = "failed"
  /\ op \notin {"mark", "complete", "fail"} => new.status = job.status
  /\ op # "complete" => new.answered = job.answered
  /\ op = "report" => new.milestone = done.milestone + 1
  /\ op = "section" => new.sections = job.sections \union {NextSection(done)}
  /\ op # "section" => new.sections = job.sections

LEMMA WrittenFacts ==
  ASSUME NEW op, NEW job \in Job, NEW done, Ready(op, done)
  PROVE  Writes(op, job, done, Written(op, job, done))
  <1>. DEFINE new == Written(op, job, done)
  <1>. USE DEF Writes
  <1>1. op = "section" => NextSection(done) \in 1 .. Topics
    BY SectionFacts DEF Ready
  <1>2. CASE op = "mark"
    <2>1. new = [job EXCEPT !.status = "running", !.milestone = 1]
      BY <1>2 DEF Written
    <2>2. new \in Job
      <3>1. [job EXCEPT !.status = "running"] \in Job
        BY DEF Job
      <3>2. 1 \in 0 .. 7
        OBVIOUS
      <3>3. [[job EXCEPT !.status = "running"] EXCEPT !.milestone = 1] \in Job
        BY <3>1, <3>2, AtMilestone
      <3>. QED  BY <2>1, <3>3
    <2>3. /\ new.status = "running" /\ new.milestone = 1
          /\ new.answered = job.answered /\ new.sections = job.sections
      BY <2>1 DEF Job
    <2>. QED  BY <1>2, <2>2, <2>3
  <1>3. CASE op = "report"
    <2>1. new = [job EXCEPT !.milestone = done.milestone + 1]
      BY <1>3 DEF Written
    <2>. QED  BY <1>3, <2>1 DEF Job, Ready
  <1>4. CASE op = "partial"
    <2>1. new = [job EXCEPT !.partial = TRUE]
      BY <1>4 DEF Written
    <2>. QED  BY <1>4, <2>1 DEF Job
  <1>5. CASE op = "section"
    <2>1. new = [job EXCEPT !.sections = @ \union {NextSection(done)}]
      BY <1>5 DEF Written
    <2>. QED  BY <1>1, <1>5, <2>1 DEF Job
  <1>6. CASE op = "complete"
    <2>1. new = [job EXCEPT !.status = "completed", !.milestone = 7, !.answered = TRUE]
      BY <1>6 DEF Written
    <2>2. new \in Job
      <3>1. [job EXCEPT !.status = "completed"] \in Job
        BY DEF Job
      <3>2. 7 \in 0 .. 7
        OBVIOUS
      <3>3. [[job EXCEPT !.status = "completed"] EXCEPT !.milestone = 7] \in Job
        BY <3>1, <3>2, AtMilestone
      <3>4. \A x \in Job : [x EXCEPT !.answered = TRUE] \in Job
        BY DEF Job
      <3>. QED  BY <2>1, <3>3, <3>4
    <2>3. new.status = "completed" /\ new.answered /\ new.sections = job.sections
      BY <2>1 DEF Job
    <2>. QED  BY <1>6, <2>2, <2>3
  <1>7. CASE op = "fail"
    <2>1. new = [job EXCEPT !.status = "failed"]
      BY <1>7 DEF Written
    <2>. QED  BY <1>7, <2>1 DEF Job
  <1>. QED  BY <1>2, <1>3, <1>4, <1>5, <1>6, <1>7 DEF Ready, RunnerOps

LEMMA RunnerReady ==
  ASSUME TypeOK, RunnerInOrder, runner.copy # None
  PROVE  /\ Ready(runner.op, runner.wrote) /\ runner.copy \in Record
         /\ runner.copy.job \in Job /\ runner.copy.feed \in Feed
  BY DEF TypeOK, RunnerInOrder, Ready, Record

\* What may follow a write: nothing after a verdict, and otherwise a write that
\* what is written by then leaves room for.
LEMMA FollowFacts ==
  ASSUME NEW op, NEW done \in Job, NEW next \in Follow(op, done), op \in RunnerOps,
         op = "mark" => done.milestone = 1,
         op = "report" => done.milestone \in 2 .. 6
  PROVE  /\ next \in {"report", "partial", "section", "complete", "fail", "ended"}
         /\ next = "ended" <=> op \in {"complete", "fail"}
         /\ next = "report" => done.milestone \in 1 .. 5
         /\ next = "section" => done.sections # 1 .. Topics
  <1>1. CASE op \in {"complete", "fail"}
    BY <1>1 DEF Follow
  <1>2. CASE op = "mark"
    BY <1>2 DEF Follow
  <1>3. CASE op = "report"
    <2>1. CASE done.milestone \in {4, 5}
      BY <1>3, <2>1 DEF Follow
    <2>2. CASE done.milestone \in {2, 3}
      BY <1>3, <2>2 DEF Follow
    <2>3. CASE done.milestone = 6
      BY <1>3, <2>3 DEF Follow
    <2>. QED  BY <1>3, <2>1, <2>2, <2>3
  <1>4. CASE op \in {"partial", "section"}
    BY <1>4 DEF Follow
  <1>. QED  BY <1>1, <1>2, <1>3, <1>4 DEF RunnerOps

-----------------------------------------------------------------------------
(* Every step keeps JobInv.                                                *)

LEMMA JobInit == Init => JobInv
  <1>. SUFFICES ASSUME Init  PROVE JobInv
    OBVIOUS
  <1>1. NewJob \in Job /\ NoFeed \in Feed /\ NewJob.sections = 1 .. 0 /\ 0 \in 0 .. Topics
    BY JobAssumption DEF NewJob, NoFeed, Job, Feed
  <1>2. TypeOK
    <2>1. runner \in [op : RunnerOps \union {"none", "ended"}, copy : Record \union {None},
                       wrote : Job]
      BY <1>1 DEF Init
    <2>2. feeder \in [op : FeederWrites \union {"none", "generate", "check", "ended"},
                       copy : Record \union {None}, wrote : Feed, cards : 0 .. Batches,
                       tried : 0 .. Batches]
      BY <1>1, JobAssumption DEF Init
    <2>. QED  BY <2>1, <2>2 DEF Init, TypeOK
  <1>3. RunnerInOrder
    BY <1>1 DEF Init, RunnerInOrder, NewJob, RunnerOps
  <1>. QED  BY <1>2, <1>3 DEF Init, JobInv, FeederInOrder, CopiesKeepUp, NoAnswerYet,
                              VerdictHolds, Ended

LEMMA CreateStep ==
  ASSUME JobInv, Create
  PROVE  JobInv'
  <1>1. NewJob \in Job /\ NoFeed \in Feed /\ ~ NewJob.answered
    BY JobAssumption DEF NewJob, NoFeed, Job, Feed
  <1>2. record' \in Record /\ record'.job = NewJob
    BY <1>1 DEF Create, Record
  <1>3. TypeOK'
    BY <1>2 DEF Create, JobInv, TypeOK
  <1>. QED  BY <1>1, <1>2, <1>3, JobAssumption
            DEF Create, JobInv, RunnerInOrder, FeederInOrder, CopiesKeepUp, NoAnswerYet,
                VerdictHolds, Ended

LEMMA LaunchStep ==
  ASSUME JobInv, Launch
  PROVE  JobInv'
  <1>1. Loading \in Feed
    BY JobAssumption DEF Loading, Feed
  <1>2. record \in Record /\ record' \in Record /\ record'.job = record.job
    BY <1>1 DEF Launch, JobInv, TypeOK, Record
  <1>3. runner' = [op |-> "mark", copy |-> None, wrote |-> runner.wrote]
    BY DEF Launch, JobInv, TypeOK, RunnerOps
  <1>4. /\ feeder' = [feeder EXCEPT !.op = "generate", !.wrote = Loading]
        /\ feeder.copy = feeder'.copy /\ feeder'.cards = feeder.cards
        /\ feeder'.tried = feeder.tried /\ feeder'.op = "generate"
    BY DEF Launch, JobInv, TypeOK
  <1>5. TypeOK'
    <2>1. runner' \in [op : RunnerOps \union {"none", "ended"}, copy : Record \union {None},
                        wrote : Job]
      BY <1>3 DEF JobInv, TypeOK, RunnerOps
    <2>2. feeder' \in [op : FeederWrites \union {"none", "generate", "check", "ended"},
                        copy : Record \union {None}, wrote : Feed, cards : 0 .. Batches,
                        tried : 0 .. Batches]
      BY <1>1, <1>4 DEF JobInv, TypeOK
    <2>3. feeder'.copy = None
      BY <1>4 DEF Launch, JobInv, TypeOK, FeederInOrder, FeederWrites
    <2>. QED  BY <1>2, <1>3, <2>1, <2>2, <2>3 DEF Launch, JobInv, TypeOK, FeederWrites
  <1>6. RunnerInOrder' /\ FeederInOrder' /\ CopiesKeepUp'
    BY <1>2, <1>3, <1>4, JobAssumption
       DEF Launch, JobInv, RunnerInOrder, FeederInOrder, CopiesKeepUp, RunnerOps
  <1>7. NoAnswerYet' /\ VerdictHolds'
    BY <1>2, <1>3, <1>4, JobAssumption DEF Launch, JobInv, NoAnswerYet, VerdictHolds, Ended
  <1>. QED  BY <1>5, <1>6, <1>7 DEF JobInv

LEMMA RunnerGetStep ==
  ASSUME JobInv, RunnerGet
  PROVE  JobInv'
  <1>1. /\ runner' = [op |-> runner.op, copy |-> record, wrote |-> runner.wrote]
        /\ runner.op \in RunnerOps
    BY DEF RunnerGet, JobInv, TypeOK
  <1>2. TypeOK'
    BY <1>1 DEF RunnerGet, JobInv, TypeOK
  <1>3. RunnerInOrder' /\ FeederInOrder' /\ CopiesKeepUp'
    BY <1>1 DEF RunnerGet, JobInv, RunnerInOrder, FeederInOrder, CopiesKeepUp
  <1>4. NoAnswerYet' /\ VerdictHolds'
    BY <1>1 DEF RunnerGet, JobInv, NoAnswerYet, VerdictHolds, Ended
  <1>. QED  BY <1>2, <1>3, <1>4 DEF JobInv

LEMMA RunnerSetStep ==
  ASSUME JobInv, RunnerSet
  PROVE  JobInv'
  <1>. DEFINE op == runner.op
              done == Written(op, runner.wrote, runner.wrote)
              job  == Written(op, runner.copy.job, runner.wrote)
  <1>1. /\ Ready(op, runner.wrote) /\ runner.copy \in Record
        /\ runner.copy.job \in Job /\ runner.copy.feed \in Feed /\ runner.wrote \in Job
        /\ op \in RunnerOps
    BY RunnerReady DEF RunnerSet, JobInv, Ready
  <1>2. PICK next \in Follow(op, done) :
          runner' = [op |-> next, copy |-> None, wrote |-> done]
    BY DEF RunnerSet
  <1>3. /\ record' = [job |-> job, feed |-> runner.copy.feed]
        /\ UNCHANGED <<feeder, rewound>>
    BY DEF RunnerSet
  <1>a. Writes(op, runner.wrote, runner.wrote, done) /\ Writes(op, runner.copy.job, runner.wrote, job)
    BY <1>1, WrittenFacts
  <1>b. (op = "section" => runner.wrote.sections # 1 .. Topics)
        /\ \E k \in 0 .. Topics : runner.wrote.sections = 1 .. k
    BY <1>1 DEF Ready
  <1>. HIDE DEF done, job
  <1>4. /\ done \in Job /\ job \in Job
        /\ op = "mark" => done.milestone = 1
        /\ op = "report" => done.milestone \in 2 .. 6
    BY <1>1, <1>a DEF Ready, Writes
  <1>5. /\ next \in {"report", "partial", "section", "complete", "fail", "ended"}
        /\ next = "ended" <=> op \in {"complete", "fail"}
        /\ next = "report" => done.milestone \in 1 .. 5
        /\ next = "section" => done.sections # 1 .. Topics
    BY <1>1, <1>4, FollowFacts
  <1>6. TypeOK'
    <2>1. record' \in Record
      BY <1>1, <1>3, <1>4 DEF Record
    <2>. QED  BY <1>2, <1>4, <1>5, <2>1 DEF RunnerSet, JobInv, TypeOK, RunnerOps
  <1>7. RunnerInOrder'
    <2>1. \E k \in 0 .. Topics : done.sections = 1 .. k
      BY <1>1, <1>a, <1>b, SectionFacts DEF Writes
    <2>2. next # "ended" => done.status = "running"
      BY <1>1, <1>5, <1>a DEF Writes, JobInv, RunnerInOrder, RunnerOps
    <2>3. next # "ended" => ~ done.answered
      BY <1>1, <1>5, <1>a DEF Writes, JobInv, RunnerInOrder, RunnerOps
    <2>. QED  BY <1>2, <1>5, <2>1, <2>2, <2>3 DEF RunnerInOrder, RunnerOps
  <1>8. FeederInOrder'
    <2>1. record' # None
      BY <1>1, <1>3, <1>4, JobAssumption DEF Record
    <2>. QED  BY <1>2, <1>3, <1>5, <2>1 DEF JobInv, FeederInOrder
  <1>9. CopiesKeepUp'
    BY <1>2, <1>3 DEF RunnerSet, JobInv, CopiesKeepUp, done, job
  <1>10. NoAnswerYet'
    <2>1. next # "ended" => ~ job.answered
      BY <1>1, <1>5, <1>a DEF Writes, RunnerSet, JobInv, NoAnswerYet, RunnerOps
    <2>. QED  BY <1>1, <1>2, <1>3, <2>1 DEF RunnerSet, JobInv, NoAnswerYet, RunnerOps
  <1>11. VerdictHolds'
    <2>1. next = "ended" => job.status = done.status
      BY <1>1, <1>5, <1>a DEF Writes
    <2>2. next = "ended" => job.answered = done.answered
      <3>1. job.answered \in BOOLEAN /\ done.answered \in BOOLEAN
        BY <1>4 DEF Job
      <3>2. CASE op = "complete"
        BY <1>a, <3>1, <3>2 DEF Writes
      <3>3. CASE op = "fail"
        <4>1. ~ runner.copy.job.answered /\ ~ runner.wrote.answered
          BY <3>3 DEF RunnerSet, JobInv, NoAnswerYet, RunnerInOrder
        <4>. QED  BY <1>a, <3>1, <3>3, <4>1 DEF Writes
      <3>. QED  BY <1>5, <3>2, <3>3
    <2>. QED  BY <1>2, <1>3, <2>1, <2>2 DEF VerdictHolds, Ended
  <1>. QED  BY <1>6, <1>7, <1>8, <1>9, <1>10, <1>11 DEF JobInv

\* What the sidecar's own steps leave alone.
LEMMA FeederLocal ==
  ASSUME JobInv, TypeOK', UNCHANGED <<record, runner, rewound>>,
         feeder'.cards <= feeder'.tried, feeder.op # "none",
         feeder'.copy # None => feeder'.copy \in {feeder.copy, record}
  PROVE  JobInv'
  <1>1. RunnerInOrder' /\ FeederInOrder' /\ CopiesKeepUp' /\ VerdictHolds'
    BY DEF JobInv, RunnerInOrder, FeederInOrder, CopiesKeepUp, VerdictHolds, Ended
  <1>2. NoAnswerYet'
    BY DEF JobInv, NoAnswerYet
  <1>. QED  BY <1>1, <1>2 DEF JobInv

LEMMA GenerateStep ==
  ASSUME JobInv, Generate
  PROVE  JobInv'
  <1>. PICK valid \in BOOLEAN :
         feeder' = [feeder EXCEPT !.tried = @ + 1,
                                  !.cards = IF valid THEN @ + 1 ELSE @,
                                  !.op = IF valid THEN "persist"
                                         ELSE IF feeder.tried + 1 = Batches THEN "final" ELSE @]
    BY DEF Generate
  <1>1. /\ feeder.cards \in 0 .. Batches /\ feeder.tried \in 0 .. Batches
        /\ feeder.tried < Batches /\ feeder.cards <= feeder.tried
        /\ feeder.op = "generate" /\ feeder.copy = None
    BY DEF Generate, JobInv, TypeOK, FeederInOrder, FeederWrites
  <1>2. /\ feeder'.tried = feeder.tried + 1
        /\ feeder'.cards \in {feeder.cards, feeder.cards + 1}
        /\ feeder'.op \in {"persist", "final", "generate"}
        /\ feeder'.copy = None /\ feeder'.wrote = feeder.wrote
    BY <1>1 DEF JobInv, TypeOK
  <1>3. feeder' \in [op : FeederWrites \union {"none", "generate", "check", "ended"},
                     copy : Record \union {None}, wrote : Feed, cards : 0 .. Batches,
                     tried : 0 .. Batches]
    <2>1. feeder' = [op |-> feeder'.op, copy |-> None, wrote |-> feeder.wrote,
                     cards |-> feeder'.cards, tried |-> feeder.tried + 1]
      BY <1>1 DEF JobInv, TypeOK
    <2>2. feeder'.cards \in 0 .. Batches /\ feeder.tried + 1 \in 0 .. Batches /\ feeder.wrote \in Feed
      BY <1>1, <1>2, JobAssumption DEF JobInv, TypeOK
    <2>. QED  BY <1>2, <2>1, <2>2 DEF FeederWrites
  <1>4. TypeOK'
    BY <1>2, <1>3 DEF Generate, JobInv, TypeOK, FeederWrites
  <1>. QED  BY <1>1, <1>2, <1>4, FeederLocal, JobAssumption DEF Generate

LEMMA FeederGetStep ==
  ASSUME JobInv, FeederGet
  PROVE  JobInv'
  <1>1. /\ feeder' = [op |-> feeder.op, copy |-> record, wrote |-> feeder.wrote,
                      cards |-> feeder.cards, tried |-> feeder.tried]
        /\ feeder.op \in FeederWrites
    BY DEF FeederGet, JobInv, TypeOK
  <1>2. TypeOK'
    BY <1>1 DEF FeederGet, JobInv, TypeOK
  <1>3. feeder'.cards <= feeder'.tried
    BY <1>1 DEF JobInv, FeederInOrder
  <1>. QED  BY <1>1, <1>2, <1>3, FeederLocal DEF FeederGet, FeederWrites

LEMMA CheckStep ==
  ASSUME JobInv, Check
  PROVE  JobInv'
  <1>. PICK op \in {"patch", "ended"} : feeder' = [feeder EXCEPT !.op = op]
    BY DEF Check
  <1>1. /\ feeder' = [op |-> op, copy |-> feeder.copy, wrote |-> feeder.wrote,
                      cards |-> feeder.cards, tried |-> feeder.tried]
        /\ feeder.op = "check" /\ feeder.copy = None
    BY DEF Check, JobInv, TypeOK, FeederWrites
  <1>2. TypeOK'
    BY <1>1 DEF Check, JobInv, TypeOK, FeederWrites
  <1>3. feeder'.cards <= feeder'.tried
    BY <1>1 DEF JobInv, FeederInOrder
  <1>. QED  BY <1>1, <1>2, <1>3, FeederLocal DEF Check

LEMMA TimesOutStep ==
  ASSUME JobInv, TimesOut
  PROVE  JobInv'
  <1>1. /\ feeder' = [op |-> "fallback", copy |-> None, wrote |-> feeder.wrote,
                      cards |-> feeder.cards, tried |-> feeder.tried]
        /\ feeder.op \in {"generate", "persist", "final"}
    BY DEF TimesOut, JobInv, TypeOK
  <1>2. TypeOK'
    BY <1>1 DEF TimesOut, JobInv, TypeOK, FeederWrites
  <1>3. feeder'.cards <= feeder'.tried
    BY <1>1 DEF JobInv, FeederInOrder
  <1>. QED  BY <1>1, <1>2, <1>3, FeederLocal DEF TimesOut

\* The sidecar's write puts its copy of the job back.  It is noticed as a rewind
\* exactly when that copy is not what is stored.
LEMMA FeederSetStep ==
  ASSUME JobInv, FeederSet
  PROVE  JobInv'
  <1>. PICK new \in FeedOptions :
         /\ record' = [job |-> feeder.copy.job, feed |-> new]
         /\ feeder' = [feeder EXCEPT !.op = FeederNext, !.copy = None, !.wrote = new]
    BY DEF FeederSet
  <1>1. /\ feeder.copy \in Record /\ feeder.copy.job \in Job /\ feeder.op \in FeederWrites
        /\ feeder.cards \in 0 .. Batches /\ feeder.cards <= feeder.tried
    BY DEF FeederSet, JobInv, TypeOK, FeederInOrder, Record
  <1>2. new \in Feed
    BY <1>1, JobAssumption DEF FeedOptions, Filled, Feed, FeederWrites
  <1>3. FeederNext \in {"final", "generate", "check", "ended"}
    BY <1>1 DEF FeederNext, FeederWrites
  <1>4. feeder' = [op |-> FeederNext, copy |-> None, wrote |-> new, cards |-> feeder.cards,
                   tried |-> feeder.tried]
    BY DEF JobInv, TypeOK
  <1>5. record' \in Record /\ record' # None /\ record'.job = feeder.copy.job
    BY <1>1, <1>2, JobAssumption DEF Record
  <1>6. record # None /\ runner.op # "none"
    BY <1>1 DEF FeederSet, JobInv, FeederInOrder, TypeOK, FeederWrites
  <1>7. TypeOK'
    BY <1>2, <1>3, <1>4, <1>5 DEF FeederSet, JobInv, TypeOK, FeederWrites
  <1>8. RunnerInOrder' /\ FeederInOrder'
    BY <1>1, <1>3, <1>4, <1>5, <1>6 DEF FeederSet, JobInv, RunnerInOrder, FeederInOrder
  <1>9. CopiesKeepUp' /\ VerdictHolds'
    BY <1>5, <1>6 DEF FeederSet, JobInv, CopiesKeepUp, VerdictHolds, Ended
  <1>10. NoAnswerYet'
    BY <1>4, <1>5 DEF FeederSet, JobInv, NoAnswerYet
  <1>. QED  BY <1>7, <1>8, <1>9, <1>10 DEF JobInv

LEMMA JobInvStep ==
  ASSUME JobInv, [Next]_vars
  PROVE  JobInv'
  <1>1. CASE Crash \/ StreamPoll \/ UNCHANGED vars
    <2>1. UNCHANGED <<record, runner, feeder, rewound, overwritten>> /\ TypeOK'
      BY <1>1 DEF Crash, StreamPoll, vars, JobInv, TypeOK
    <2>. QED  BY <2>1 DEF JobInv, RunnerInOrder, FeederInOrder, CopiesKeepUp, NoAnswerYet,
                          VerdictHolds, Ended
  <1>. QED  BY <1>1, CreateStep, LaunchStep, RunnerGetStep, RunnerSetStep, GenerateStep,
               FeederGetStep, FeederSetStep, CheckStep, TimesOutStep
            DEF Next, Run, Feeding

\* Type correctness of the record, of both coroutines and of their copies.
THEOREM TypeCorrect == Spec => []TypeOK
  <1>1. JobInv => TypeOK
    BY DEF JobInv
  <1>. QED  BY <1>1, JobInit, JobInvStep, PTL DEF Spec

\* RecordKeepsUp however the two coroutines' GETs and SETs interleave: as long
\* as the sidecar saved no outdated copy, the record is what the runner wrote.
THEOREM RecordIsKeptUp == Spec => []RecordKeepsUp
  <1>1. JobInv => RecordKeepsUp
    BY DEF JobInv, CopiesKeepUp, RecordKeepsUp
  <1>. QED  BY <1>1, JobInit, JobInvStep, PTL DEF Spec

\* VerdictHolds: only a copy read before the verdict and saved after it takes
\* the verdict back, whatever was rewound before.
THEOREM VerdictIsHeld == Spec => []VerdictHolds
  <1>1. JobInv => VerdictHolds
    BY DEF JobInv
  <1>. QED  BY <1>1, JobInit, JobInvStep, PTL DEF Spec

-----------------------------------------------------------------------------
(* The refinement of JobLifecycle.                                         *)

\* What the mapping shows of the job.
Shown == IF record = None THEN "absent" ELSE record.job.status

\* A step of the job is one of the lifecycle if it leaves a rewound job rewound,
\* or else moves what is shown along a legal transition or not at all.
LEMMA LifecycleSteps ==
  ASSUME Shown \in Lifecycle!Statuses, Shown' \in Lifecycle!Statuses,
         \/ rewound' # "no"
         \/ /\ rewound = "no" /\ rewound' = "no"
            /\ Shown' = Shown \/ <<Shown, Shown'>> \in Lifecycle!Legal
  PROVE  \/ Lifecycle!Next
         \/ UNCHANGED <<[j \in {"job"} |-> IF record = None THEN "absent" ELSE record.job.status],
                        {}, IF rewound = "no" THEN {} ELSE {"job"}>>
  <1>1. CASE rewound' # "no"
    <2>1. Lifecycle!Rewind("job")
      BY <1>1 DEF Lifecycle!Rewind, Lifecycle!Move, Shown
    <2>. QED  BY <2>1 DEF Lifecycle!Next
  <1>2. CASE rewound = "no" /\ rewound' = "no" /\ Shown' = Shown
    BY <1>2 DEF Shown
  <1>3. CASE rewound = "no" /\ rewound' = "no" /\ <<Shown, Shown'>> \in Lifecycle!Legal
    <2>1. Lifecycle!Advance("job")
      BY <1>3 DEF Lifecycle!Advance, Lifecycle!Move, Shown
    <2>. QED  BY <2>1 DEF Lifecycle!Next
  <1>. QED  BY <1>1, <1>2, <1>3

\* Without a rewind the runner finds the record as it wrote it last, so a verdict
\* follows "running" and "running" follows "queued".
LEMMA RunnerMoves ==
  ASSUME JobInv, RunnerSet, rewound = "no"
  PROVE  Shown' = Shown \/ <<Shown, Shown'>> \in Lifecycle!Legal
  <1>. DEFINE new == Written(runner.op, runner.copy.job, runner.wrote)
  <1>1. Ready(runner.op, runner.wrote) /\ runner.copy.job \in Job
    BY RunnerReady DEF RunnerSet, JobInv
  <1>2. Writes(runner.op, runner.copy.job, runner.wrote, new)
    BY <1>1, WrittenFacts
  <1>3. /\ runner.op \in RunnerOps /\ record # None
        /\ record.job = runner.wrote /\ runner.copy.job = runner.wrote
    BY <1>1 DEF RunnerSet, JobInv, CopiesKeepUp, FeederInOrder, Ready, RunnerOps
  <1>4. record' # None /\ record'.job = new
    BY <1>1, <1>2, RunnerReady, JobAssumption DEF RunnerSet, JobInv, Writes, Record
  <1>. HIDE DEF new
  <1>5. /\ runner.op = "mark" => runner.wrote.status = "queued"
        /\ runner.op \in RunnerOps \ {"mark"} => runner.wrote.status = "running"
    BY DEF JobInv, RunnerInOrder, NewJob
  <1>. QED  BY <1>2, <1>3, <1>4, <1>5 DEF Writes, Shown, Lifecycle!Legal, RunnerOps

LEMMA LifecycleStep ==
  ASSUME JobInv, JobInv', [Next]_vars
  PROVE  \/ Lifecycle!Next
         \/ UNCHANGED <<[j \in {"job"} |-> IF record = None THEN "absent" ELSE record.job.status],
                        {}, IF rewound = "no" THEN {} ELSE {"job"}>>
  <1>1. Shown \in Lifecycle!Statuses /\ Shown' \in Lifecycle!Statuses
    BY DEF JobInv, TypeOK, Record, Job, Shown, Lifecycle!Statuses
  <1>2. CASE Create
    <2>1. record' # None /\ record'.job.status = "queued"
      <3>1. NewJob \in Job /\ NoFeed \in Feed /\ NewJob.status = "queued"
        BY JobAssumption DEF NewJob, NoFeed, Job, Feed
      <3>. QED  BY <1>2, <3>1, JobAssumption DEF Create, Record
    <2>2. rewound = "no" /\ rewound' = "no" /\ <<Shown, Shown'>> \in Lifecycle!Legal
      BY <1>2, <2>1 DEF Create, JobInv, FeederInOrder, Shown, Lifecycle!Legal
    <2>. QED  BY <1>1, <2>2, LifecycleSteps
  <1>3. CASE Launch
    <2>1. record' # None /\ Shown' = Shown /\ rewound' = rewound
      BY <1>3, JobAssumption DEF Launch, JobInv, TypeOK, Record, Shown, FeederInOrder
    <2>. QED  BY <1>1, <2>1, LifecycleSteps
  <1>4. CASE RunnerSet
    BY <1>1, <1>4, RunnerMoves, LifecycleSteps DEF RunnerSet
  <1>5. CASE FeederSet
    <2>1. record # None /\ record' # None
      BY <1>5 DEF FeederSet, JobInv, FeederInOrder, TypeOK, FeederWrites
    <2>2. record'.job = feeder.copy.job
      BY <1>5 DEF FeederSet
    <2>3. rewound' # "no" \/ (rewound = "no" /\ rewound' = "no" /\ Shown' = Shown)
      BY <1>5, <2>1, <2>2 DEF FeederSet, Shown
    <2>. QED  BY <1>1, <2>3, LifecycleSteps
  <1>6. CASE UNCHANGED <<record, rewound>>
    BY <1>6
  <1>. QED  BY <1>2, <1>3, <1>4, <1>5, <1>6
            DEF Next, Run, Feeding, RunnerGet, Generate, FeederGet, Check, TimesOut, Crash,
                StreamPoll, vars

\* ImplementsLifecycle: whatever the sidecar and the crashes do, clients see a
\* job move along JobLifecycle.
THEOREM LifecycleImplemented == Spec => ImplementsLifecycle
  <1>1. Init => Lifecycle!Init
    BY DEF Init, Lifecycle!Init
  <1>2. JobInv /\ JobInv' /\ [Next]_vars =>
          [Lifecycle!Next]_<<[j \in {"job"} |-> IF record = None THEN "absent" ELSE record.job.status],
                             {}, IF rewound = "no" THEN {} ELSE {"job"}>>
    BY LifecycleStep
  <1>. QED  BY <1>1, <1>2, JobInit, JobInvStep, PTL DEF Spec, ImplementsLifecycle, Lifecycle!Spec
=============================================================================
