--------------------------- MODULE ProviderBreaker --------------------------
(***************************************************************************)
(* The circuit breaker of the booking and map providers                     *)
(* (services/provider_circuit_breaker.py) as the follow-up route uses it:    *)
(* each failed follow-up of a user counts, a completed one resets, and the   *)
(* action sheet offers a provider's fallback while its circuit is not        *)
(* closed.  The circuits live in the memory of one API process and are      *)
(* changed without an await, so each operation is one step; what is hard is *)
(* the clock: window and cooldown are compared at each call only.           *)
(***************************************************************************)
EXTENDS Naturals, Sequences

CONSTANTS
  Circuits,   \* (provider, domain, region) keys
  Threshold, Window, Cooldown,
  MaxTime,    \* bound on the clock
  MaxFailures,\* bound on the failures of a circuit since its last success
  Never       \* no failure yet, no probe planned

\* The defaults are 3, 300 s and 300 s, and the only ones the routes use.
ASSUME BreakerAssumption ==
  /\ Threshold \in Nat \ {0} /\ Window \in Nat \ {0} /\ Cooldown \in Nat \ {0}
  /\ MaxTime \in Nat /\ MaxFailures \in Nat
  /\ Never \notin Nat

VARIABLES
  now,
  circuit,   \* the snapshot of each circuit
  failed     \* history: the times of a circuit's failures since its last success

vars == <<now, circuit, failed>>

CircuitState == {"closed", "open", "half_open"}
Time         == Nat \union {Never}
Snapshot     == [state : CircuitState, count : Nat, last : Time, probe : Time]

\* _new_snapshot: what a circuit without a snapshot counts as.
New == [state |-> "closed", count |-> 0, last |-> Never, probe |-> Never]

Init ==
  /\ now = 0
  /\ circuit = [c \in Circuits |-> New]
  /\ failed = [c \in Circuits |-> <<>>]

-----------------------------------------------------------------------------
\* A faulty variant: the cooldown ends one unit early.
CooledDown_Early(s) == s.state = "open" /\ s.probe # Never /\ now + 1 >= s.probe
CooledDown(s)       == s.state = "open" /\ s.probe # Never /\ now >= s.probe

\* _current_state: an open circuit may be probed once it has cooled down.
Current(s) == IF CooledDown(s) THEN [s EXCEPT !.state = "half_open"] ELSE s

\* A faulty variant: a failure at the end of the window no longer counts.
Counted_Strict(s) == IF s.last = Never \/ now - s.last >= Window THEN 1 ELSE s.count + 1
\* The window is measured from the latest failure.
Counted(s) == IF s.last = Never \/ now - s.last > Window THEN 1 ELSE s.count + 1

\* The snapshot after one more failure.
Failed(s) ==
  IF Counted(s) >= Threshold
  THEN [state |-> "open", count |-> Counted(s), last |-> now, probe |-> now + Cooldown]
  ELSE [s EXCEPT !.state = "closed", !.count = Counted(s), !.last = now]

RecordFailure(c) ==
  /\ Len(failed[c]) < MaxFailures
  /\ circuit' = [circuit EXCEPT ![c] = Failed(Current(circuit[c]))]
  /\ failed' = [failed EXCEPT ![c] = Append(@, now)]
  /\ UNCHANGED now

\* A faulty variant: a success does not reset the count.
RecordSuccess_CountStays(c) ==
  /\ circuit' = [circuit EXCEPT ![c].state = "closed", ![c].probe = Never]
  /\ failed' = [failed EXCEPT ![c] = <<>>]
  /\ UNCHANGED now

\* The latest failure is kept, for the window only.
RecordSuccess(c) ==
  /\ circuit' = [circuit EXCEPT ![c].state = "closed", ![c].count = 0, ![c].probe = Never]
  /\ failed' = [failed EXCEPT ![c] = <<>>]
  /\ UNCHANGED now

\* list, for an action sheet or an inspection of a domain or region, stores the
\* states it reports.
List(listed) ==
  /\ circuit' = [c \in Circuits |-> IF c \in listed THEN Current(circuit[c]) ELSE circuit[c]]
  /\ UNCHANGED <<now, failed>>

Tick ==
  /\ now < MaxTime
  /\ now' = now + 1
  /\ UNCHANGED <<circuit, failed>>

Next ==
  \/ \E c \in Circuits : RecordFailure(c) \/ RecordSuccess(c)
  \/ \E listed \in SUBSET Circuits : List(listed)
  \/ Tick

Spec == Init /\ [][Next]_vars

-----------------------------------------------------------------------------
(***************************************************************************)
(* Properties.                                                             *)
(***************************************************************************)

\* Every variable has its type; a circuit that is not closed has its probe.
TypeOK ==
  /\ now \in 0 .. MaxTime
  /\ circuit \in [Circuits -> Snapshot]
  /\ failed \in [Circuits -> Seq(0 .. MaxTime)]
  /\ \A c \in Circuits :
       circuit[c].state # "closed" => circuit[c].last # Never /\ circuit[c].probe # Never

\* The circuit opens when it should: as many failures as the threshold, all in
\* one window and none followed by a success, and the circuit is not closed,
\* however the clock, the lists and the earlier probes fell.
BurstOpens ==
  \A c \in Circuits :
    LET f == failed[c]
    IN  Len(f) >= Threshold /\ f[Len(f)] - f[Len(f) - Threshold + 1] <= Window
        => circuit[c].state # "closed"

\* It opens only then: a circuit that is not closed has seen the threshold's
\* number of failures since its last success, no two of them, in order, further
\* apart than the window.
OpenIsEarned ==
  \A c \in Circuits :
    LET f == failed[c]
    IN  circuit[c].state # "closed" =>
          /\ Len(f) >= Threshold
          /\ \A i \in Len(f) - Threshold + 1 .. Len(f) - 1 : f[i + 1] - f[i] <= Window

\* An open circuit stays open for the cooldown after its latest failure: neither
\* further failures nor lists end it, only a success does.  (Where the cooldown is
\* longer than the window, which no constructor call makes it, a failure after the
\* window does too: it starts a new count.)
CooldownHolds ==
  [][\A c \in Circuits :
       circuit[c].state = "open" /\ now < circuit[c].last + Cooldown
       => \/ circuit'[c].state = "open" \/ failed'[c] = <<>>
          \/ now > circuit[c].last + Window /\ failed'[c] # failed[c]]_vars
=============================================================================
