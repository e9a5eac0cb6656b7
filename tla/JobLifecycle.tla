---------------------------- MODULE JobLifecycle ----------------------------
(***************************************************************************)
(* What a client of the jobs API may rely on, whatever runs the jobs: the   *)
(* status a job shows moves along Legal, failed being final only once the   *)
(* retries are used up, completed being final.  A job that was delivered    *)
(* more than once, or whose record may expire, is Disturbed: a second       *)
(* delivery can show any status a worker writes, but never "queued" again.  *)
(* A job whose record an old copy has replaced is Rewound: no order at all. *)
(***************************************************************************)
CONSTANT Jobs
VARIABLES
  shown,     \* the status of each job's record, "absent" when there is none
  disturbed, \* jobs delivered again after a lapse, or past their TTL
  rewound    \* jobs whose record was replaced by an older copy of itself

Statuses == {"absent", "queued", "running", "completed", "failed"}
Legal ==
  {<<"absent", "queued">>, <<"queued", "running">>, <<"running", "completed">>,
   <<"running", "failed">>, <<"failed", "running">>}

Init == shown = [j \in Jobs |-> "absent"] /\ disturbed = {} /\ rewound = {}

Move(j, to) == shown' = [shown EXCEPT ![j] = to]

Advance(j) ==
  /\ \E to \in Statuses : <<shown[j], to>> \in Legal /\ Move(j, to)
  /\ UNCHANGED <<disturbed, rewound>>

Disturb(j) ==
  /\ disturbed' = disturbed \union {j}
  /\ UNCHANGED <<shown, rewound>>

Stray(j) ==
  /\ j \in disturbed
  /\ \E to \in Statuses \ {"queued"} : Move(j, to)
  /\ UNCHANGED <<disturbed, rewound>>

Rewind(j) ==
  /\ rewound' = rewound \union {j}
  /\ \E to \in Statuses : Move(j, to)
  /\ UNCHANGED disturbed

Next == \E j \in Jobs : Advance(j) \/ Disturb(j) \/ Stray(j) \/ Rewind(j)
Spec == Init /\ [][Next]_<<shown, disturbed, rewound>>
=============================================================================
