---------------------------- MODULE InProcessJob ----------------------------
(***************************************************************************)
(* A long-running job when JOB_EXECUTION_MODE is not "queue": the handler   *)
(* creates the record, saves a loading engagement feed and starts two       *)
(* coroutines of its own process, the runner of the job (api/routes.py) and *)
(* the feed sidecar (services/engagement_feed_service.py and                *)
(* engagement_feed_graph.py).  Both keep writing one Redis record           *)
(* (services/job_store.py), each write a GET and a SET of all of it.        *)
(*                                                                         *)
(* Jobs share nothing but the process, so one job is modelled.  A milestone *)
(* stands for current_stage and progress_percent: 1 running, 2 to 6 the     *)
(* five progress reports, 7 completed.                                      *)
(***************************************************************************)
EXTENDS Integers

CONSTANTS
  Topics,   \* topic sections that the answer may be given
  Batches,  \* batches of cards that the feed tries to generate
  None

VARIABLES
  record,      \* the stored record, None before it is created
  runner,      \* the runner: its next write, the copy it read, what it has written
  feeder,      \* the sidecar: the same, and the batches generated and tried
  up,          \* whether the API process lives
  told,        \* the terminal event the client's stream ended with, or "none"
  (* History: *)
  rewound,     \* whether the sidecar replaced writes of the runner, and when
  overwritten  \* whether the runner replaced the sidecar's latest write

vars == <<record, runner, feeder, up, told, rewound, overwritten>>

Job  == [status : {"queued", "running", "completed", "failed"}, milestone : 0 .. 7,
         partial : BOOLEAN, sections : SUBSET (1 .. Topics), answered : BOOLEAN]
Feed == [status : {"none", "loading", "partial", "ready", "failed"}, cards : 0 .. Batches]
Record == [job : Job, feed : Feed]

ASSUME JobAssumption ==
  /\ Topics \in Nat /\ Batches \in Nat \ {0}
  /\ None \notin Record

NewJob == [status |-> "queued", milestone |-> 0, partial |-> FALSE, sections |-> {},
           answered |-> FALSE]
NoFeed == [status |-> "none", cards |-> 0]
Loading == [status |-> "loading", cards |-> 0]

Init ==
  /\ record = None
  /\ runner = [op |-> "none", copy |-> None, wrote |-> NewJob]
  /\ feeder = [op |-> "none", copy |-> None, wrote |-> NoFeed, cards |-> 0, tried |-> 0]
  /\ up = TRUE /\ told = "none"
  /\ rewound = "no" /\ overwritten = FALSE

-----------------------------------------------------------------------------
(* The handler: job_store.create; then _schedule_engagement_feed saves the  *)
(* loading feed, which nobody disturbs yet, and both coroutines start.      *)

Create ==
  /\ up /\ record = None
  /\ record' = [job |-> NewJob, feed |-> NoFeed]
  /\ UNCHANGED <<runner, feeder, up, told, rewound, overwritten>>

\* A faulty variant: the runner starts with its first report.
Launch_NotMarked ==
  /\ up /\ record # None /\ runner.op = "none"
  /\ record' = [record EXCEPT !.feed = Loading]
  /\ runner' = [runner EXCEPT !.op = "report"]
  /\ feeder' = [feeder EXCEPT !.op = "generate", !.wrote = Loading]
  /\ UNCHANGED <<up, told, rewound, overwritten>>

Launch ==
  /\ up /\ record # None /\ runner.op = "none"
  /\ record' = [record EXCEPT !.feed = Loading]
  /\ runner' = [runner EXCEPT !.op = "mark"]
  /\ feeder' = [feeder EXCEPT !.op = "generate", !.wrote = Loading]
  /\ UNCHANGED <<up, told, rewound, overwritten>>

-----------------------------------------------------------------------------
(* The runner: mark_running, then the answering service with its callbacks, *)
(* then complete or, after an exception anywhere in it, fail.               *)

RunnerOps == {"mark", "report", "partial", "section", "complete", "fail"}

NextSection(job) == CHOOSE t \in 1 .. Topics \ job.sections :
                      \A u \in 1 .. Topics \ job.sections : t <= u

\* What a write makes of the record it read; how far the runner is decides
\* which stage it reports and which section it appends.
Written(op, job, done) ==
  CASE op = "mark"     -> [job EXCEPT !.status = "running", !.milestone = 1]
    [] op = "report"   -> [job EXCEPT !.milestone = done.milestone + 1]
    [] op = "partial"  -> [job EXCEPT !.partial = TRUE]
    [] op = "section"  -> [job EXCEPT !.sections = @ \union {NextSection(done)}]
    [] op = "complete" -> [job EXCEPT !.status = "completed", !.milestone = 7,
                                      !.answered = TRUE]
    [] op = "fail"     -> [job EXCEPT !.status = "failed"]

\* A faulty variant: an exception of the service is not caught.
Follow_NotCaught(op, done) ==
  CASE op \in {"complete", "fail"} -> {"ended"}
    [] op = "mark" \/ op = "report" -> {"report", "ended"}
    [] OTHER -> {"complete", "ended"}

\* What may come after it.  A question to the user or a cached answer ends the
\* work before the retrieval; sections follow the preview, when there is one.
Follow(op, done) ==
  CASE op \in {"complete", "fail"} -> {"ended"}
    [] op = "mark" \/ (op = "report" /\ done.milestone \in {4, 5}) -> {"report", "fail"}
    [] op = "report" /\ done.milestone \in {2, 3} -> {"report", "complete", "fail"}
    [] op = "report" /\ done.milestone = 6 -> {"partial", "complete", "fail"}
    [] OTHER -> {"complete", "fail"}
                \union (IF done.sections = 1 .. Topics THEN {} ELSE {"section"})

RunnerGet ==
  /\ up /\ runner.op \in RunnerOps /\ runner.copy = None
  /\ runner' = [runner EXCEPT !.copy = record]
  /\ UNCHANGED <<record, feeder, up, told, rewound, overwritten>>

\* A faulty variant: the copy is kept for the next write.
RunnerSet_CopyKept ==
  /\ up /\ runner.copy # None
  /\ LET done == Written(runner.op, runner.wrote, runner.wrote) IN
     /\ record' = [job  |-> Written(runner.op, runner.copy.job, runner.wrote),
                   feed |-> runner.copy.feed]
     /\ \E next \in Follow(runner.op, done) :
          runner' = [op |-> next, copy |-> runner.copy, wrote |-> done]
  /\ overwritten' = (overwritten \/ record.feed # runner.copy.feed)
  /\ UNCHANGED <<feeder, up, told, rewound>>

\* A faulty variant: only a job that shows "running" is given its verdict.
RunnerSet_OnlyRunning ==
  /\ up /\ runner.copy # None
  /\ LET done == Written(runner.op, runner.wrote, runner.wrote) IN
     /\ record' = [job  |-> IF runner.op = "complete" /\ runner.copy.job.status # "running"
                            THEN runner.copy.job
                            ELSE Written(runner.op, runner.copy.job, runner.wrote),
                   feed |-> runner.copy.feed]
     /\ \E next \in Follow(runner.op, done) :
          runner' = [op |-> next, copy |-> None, wrote |-> done]
  /\ overwritten' = (overwritten \/ record.feed # runner.copy.feed)
  /\ UNCHANGED <<feeder, up, told, rewound>>

RunnerSet ==
  /\ up /\ runner.copy # None
  /\ LET done == Written(runner.op, runner.wrote, runner.wrote) IN
     /\ record' = [job  |-> Written(runner.op, runner.copy.job, runner.wrote),
                   feed |-> runner.copy.feed]
     /\ \E next \in Follow(runner.op, done) :
          runner' = [op |-> next, copy |-> None, wrote |-> done]
  /\ overwritten' = (overwritten \/ record.feed # runner.copy.feed)
  /\ UNCHANGED <<feeder, up, told, rewound>>

-----------------------------------------------------------------------------
(* The sidecar: the graph generates batch by batch and persists what is     *)
(* valid, then the final feed; afterwards missing batches are filled from a *)
(* preview.  A time limit cancels the graph at any await: a fallback is     *)
(* saved instead.                                                          *)

FeederWrites == {"persist", "final", "patch", "fallback"}
Filled == [status |-> "partial", cards |-> Batches]

\* agent.generate_batch answers with a valid batch, or fails, is late or invalid.
Generate ==
  /\ up /\ feeder.op = "generate" /\ feeder.tried < Batches
  /\ \E valid \in BOOLEAN :
       feeder' = [feeder EXCEPT !.tried = @ + 1,
                                !.cards = IF valid THEN @ + 1 ELSE @,
                                !.op = IF valid THEN "persist"
                                       ELSE IF feeder.tried + 1 = Batches THEN "final" ELSE @]
  /\ UNCHANGED <<record, runner, up, told, rewound, overwritten>>

FeederGet ==
  /\ up /\ feeder.op \in FeederWrites /\ feeder.copy = None
  /\ feeder' = [feeder EXCEPT !.copy = record]
  /\ UNCHANGED <<record, runner, up, told, rewound, overwritten>>

\* The feed that is written, and what the sidecar does next.
FeedOptions ==
  CASE feeder.op = "persist"  -> {[status |-> "partial", cards |-> feeder.cards]}
    [] feeder.op = "final"    -> {[status |-> IF feeder.cards > 0 THEN "ready" ELSE "failed",
                                   cards |-> feeder.cards]}
    [] feeder.op = "patch"    -> {Filled}
    [] feeder.op = "fallback" -> {Filled, [status |-> "failed", cards |-> 0]}
FeederNext ==
  CASE feeder.op = "persist" -> IF feeder.tried = Batches THEN "final" ELSE "generate"
    [] feeder.op = "final"   -> "check"
    [] OTHER                 -> "ended"

FeederSet ==
  /\ up /\ feeder.copy # None
  /\ \E feed \in FeedOptions :
       /\ record' = [job |-> feeder.copy.job, feed |-> feed]
       /\ feeder' = [feeder EXCEPT !.op = FeederNext, !.copy = None, !.wrote = feed]
  /\ overwritten' = FALSE
  /\ rewound' = IF record.job = feeder.copy.job THEN rewound
                ELSE IF runner.op = "ended" THEN "after" ELSE "before"
  /\ UNCHANGED <<runner, up, told>>

\* start_for_job reads the saved feed; a preview fills what is missing in it.
Check ==
  /\ up /\ feeder.op = "check"
  /\ \E preview \in BOOLEAN :
       feeder' = [feeder EXCEPT !.op = IF preview /\ record.feed.cards < Batches
                                       THEN "patch" ELSE "ended"]
  /\ UNCHANGED <<record, runner, up, told, rewound, overwritten>>

\* A faulty variant: the sidecar's failure fails the job.
TimesOut_FailsJob ==
  /\ up /\ feeder.op \in {"generate", "persist", "final"}
  /\ feeder' = [feeder EXCEPT !.op = "fallback", !.copy = None]
  /\ record' = [record EXCEPT !.job.status = "failed"]
  /\ UNCHANGED <<runner, up, told, rewound, overwritten>>

\* A faulty variant: no fallback is saved.
TimesOut_Swallowed ==
  /\ up /\ feeder.op \in {"generate", "persist", "final"}
  /\ feeder' = [feeder EXCEPT !.op = "ended", !.copy = None]
  /\ UNCHANGED <<record, runner, up, told, rewound, overwritten>>

\* wait_for, around the graph.
TimesOut ==
  /\ up /\ feeder.op \in {"generate", "persist", "final"}
  /\ feeder' = [feeder EXCEPT !.op = "fallback", !.copy = None]
  /\ UNCHANGED <<record, runner, up, told, rewound, overwritten>>

-----------------------------------------------------------------------------
(* The process dies with both coroutines; the record stays.  A stream, here *)
(* or on another process, ends with the first terminal record it polls.     *)

Crash ==
  /\ up /\ up' = FALSE
  /\ UNCHANGED <<record, runner, feeder, told, rewound, overwritten>>

StreamPoll ==
  /\ record # None /\ told = "none"
  /\ record.job.status \in {"completed", "failed"}
  /\ told' = record.job.status
  /\ UNCHANGED <<record, runner, feeder, up, rewound, overwritten>>

Run  == RunnerGet \/ RunnerSet
Feeding == Generate \/ FeederGet \/ FeederSet \/ Check \/ TimesOut
Next == Create \/ Launch \/ Run \/ Feeding \/ Crash \/ StreamPoll

Spec == Init /\ [][Next]_vars

\* The event loop runs every coroutine that is ready, and the client polls on.
FairSpec == Spec /\ WF_vars(Create) /\ WF_vars(Launch) /\ WF_vars(Run)
                 /\ WF_vars(Feeding) /\ WF_vars(StreamPoll)

-----------------------------------------------------------------------------
(***************************************************************************)
(* Properties.                                                             *)
(***************************************************************************)

\* Every variable has its type; each coroutine holds a copy only between the
\* GET and the SET of a write.
TypeOK ==
  /\ record \in Record \union {None}
  /\ runner \in [op : RunnerOps \union {"none", "ended"}, copy : Record \union {None}, wrote : Job]
  /\ feeder \in [op : FeederWrites \union {"none", "generate", "check", "ended"},
                 copy : Record \union {None}, wrote : Feed, cards : 0 .. Batches,
                 tried : 0 .. Batches]
  /\ up \in BOOLEAN /\ told \in {"none", "completed", "failed"}
  /\ rewound \in {"no", "before", "after"} /\ overwritten \in BOOLEAN
  /\ runner.copy # None => runner.op \in RunnerOps
  /\ feeder.copy # None => feeder.op \in FeederWrites

Ended == runner.op = "ended"

\* The runner's writes build on each other: unless the sidecar put back an older
\* copy, the record shows all the runner has written and nothing else.
RecordKeepsUp == rewound = "no" /\ record # None => record.job = runner.wrote

\* The verdict survives what the sidecar did before it: complete and fail write
\* it anew, whatever status they find.  Only a copy read before the verdict and
\* saved after it takes the verdict back.
VerdictHolds ==
  Ended /\ rewound # "after" =>
    /\ record.job.status = runner.wrote.status
    /\ record.job.answered = runner.wrote.answered

\* Clients see a lifecycle that JobLifecycle allows, as in queue mode.
Lifecycle == INSTANCE JobLifecycle WITH
  Jobs      <- {"job"},
  shown     <- [j \in {"job"} |-> IF record = None THEN "absent" ELSE record.job.status],
  disturbed <- {},
  rewound   <- IF rewound = "no" THEN {} ELSE {"job"}
ImplementsLifecycle == Lifecycle!Spec

\* In a process that lives, the client is told an outcome and the feed stops
\* loading, unless one coroutine wrote an old copy over the other's last word.
JobSettles == <>(~up \/ rewound = "after" \/ told # "none")
FeedSettles == <>(~up \/ overwritten \/ (record # None /\ record.feed.status \notin {"none", "loading"}))
=============================================================================
