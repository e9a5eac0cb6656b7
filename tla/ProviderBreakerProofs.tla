------------------------ MODULE ProviderBreakerProofs -----------------------
(***************************************************************************)
(* Proofs about ProviderBreaker, for any circuits, threshold, window and    *)
(* cooldown.  The invariant relates a circuit's snapshot to the history of  *)
(* its failures: its count is the length of the longest run of failures, up  *)
(* to the latest, of which no two neighbours are further apart than the     *)
(* window; and the circuit is closed exactly while that is below the         *)
(* threshold.                                                              *)
(***************************************************************************)
EXTENDS ProviderBreaker, TLAPS

\* Failures in the order of time, none in the future.
Ordered(f, n) ==
  /\ \A i \in 1 .. Len(f) : f[i] <= n
  /\ \A i, k \in 1 .. Len(f) : i <= k => f[i] <= f[k]

\* The count is that of the longest run that ends in the latest failure.
IsRun(s, f) ==
  /\ s.count <= Len(f)
  /\ s.count = 0 => Len(f) = 0
  /\ \A i \in 1 .. Len(f) - 1 : Len(f) - s.count + 1 <= i => f[i + 1] - f[i] <= Window
  /\ s.count < Len(f) => f[Len(f) - s.count + 1] - f[Len(f) - s.count] > Window

\* The latest failure, if it is not older than the latest success, ...
IsLatest(s, f, n) ==
  /\ s.last # Never => s.last <= n
  /\ Len(f) > 0 => s.last = f[Len(f)]

\* ... and what follows from the count.
IsState(s) ==
  /\ s.state # "closed" <=> s.count >= Threshold
  /\ s.state # "closed" => s.last # Never /\ s.probe = s.last + Cooldown

Good(s, f, n) == Ordered(f, n) /\ IsRun(s, f) /\ IsLatest(s, f, n) /\ IsState(s)

Inv == TypeOK /\ \A c \in Circuits : Good(circuit[c], failed[c], now)

-----------------------------------------------------------------------------
\* Storing the state a list reports keeps the relation.
LEMMA CurrentGood ==
  ASSUME NEW s \in Snapshot, NEW f \in Seq(Nat), now \in Nat, Good(s, f, now)
  PROVE  Current(s) \in Snapshot /\ Good(Current(s), f, now)
BY BreakerAssumption DEF Current, CooledDown, Good, Ordered, IsRun, IsLatest, IsState,
   Snapshot, CircuitState, Time

\* So does one more failure, ...
LEMMA FailedGood ==
  ASSUME NEW s \in Snapshot, NEW f \in Seq(Nat), now \in Nat, Good(s, f, now)
  PROVE  Failed(s) \in Snapshot /\ Good(Failed(s), Append(f, now), now)
<1> DEFINE g == Append(f, now)
           n == Counted(s)
<1>1. /\ s.count \in Nat /\ s.last \in Time /\ s.probe \in Time
      /\ Len(f) \in Nat
  BY DEF Snapshot
<1>2. n \in Nat \ {0}
  BY <1>1, BreakerAssumption DEF Counted, Time
<1>3. Failed(s) \in Snapshot
  <2>1. now \in Time /\ now + Cooldown \in Time /\ n \in Nat
    BY <1>2, BreakerAssumption DEF Time
  <2>2. CASE n >= Threshold
    <3>1. Failed(s) = [state |-> "open", count |-> n, last |-> now, probe |-> now + Cooldown]
      BY <2>2 DEF Failed
    <3> QED
      BY <2>1, <3>1 DEF Snapshot, CircuitState
  <2>3. CASE ~ n >= Threshold
    <3>1. Failed(s) = [s EXCEPT !.state = "closed", !.count = n, !.last = now]
      BY <2>3 DEF Failed
    <3> HIDE DEF n
    <3> QED
      BY <2>1, <3>1 DEF Snapshot, CircuitState
  <2> QED
    BY <2>2, <2>3
<1>4. /\ Failed(s).count = n /\ Failed(s).last = now
  BY <1>1, <1>2 DEF Failed, Snapshot
<1>5. IsState(Failed(s))
  BY <1>1, <1>2, <1>4, BreakerAssumption DEF Failed, IsState, Snapshot, CircuitState
<1>6. /\ Len(g) = Len(f) + 1 /\ g[Len(g)] = now
      /\ \A i \in 1 .. Len(f) : g[i] = f[i]
  OBVIOUS
<1>7. \A i \in 1 .. Len(f) : f[i] \in Nat
  OBVIOUS
<1>8. Ordered(g, now)
  BY <1>1, <1>6, <1>7 DEF Good, Ordered
<1>9. IsLatest(Failed(s), g, now)
  BY <1>4, <1>6 DEF IsLatest
<1>10. IsRun(Failed(s), g)
  <2>1. CASE s.last = Never \/ now - s.last > Window
    <3>1. n = 1
      BY <2>1 DEF Counted
    <3>2. Len(f) > 0 => g[Len(g)] - g[Len(g) - 1] > Window
      BY <1>1, <1>6, <1>7, <2>1, BreakerAssumption DEF Good, IsLatest
    <3> QED
      BY <1>1, <1>4, <1>6, <3>1, <3>2 DEF IsRun
  <2>2. CASE ~ (s.last = Never \/ now - s.last > Window)
    <3>1. n = s.count + 1
      BY <2>2 DEF Counted
    <3> HIDE DEF n, g
    <3>2. Len(f) > 0 => g[Len(f) + 1] - g[Len(f)] <= Window
      BY <1>1, <1>6, <1>7, <2>2, BreakerAssumption DEF Good, IsLatest, Time
    <3>3. /\ s.count <= Len(f)
          /\ s.count = 0 => Len(f) = 0
          /\ \A i \in 1 .. Len(f) - 1 : Len(f) - s.count + 1 <= i => f[i + 1] - f[i] <= Window
          /\ s.count < Len(f) => f[Len(f) - s.count + 1] - f[Len(f) - s.count] > Window
      BY DEF Good, IsRun
    <3>3a. Len(g) = Len(f) + 1 /\ Len(f) \in Nat /\ s.count \in Nat /\ n = s.count + 1
      BY <1>1, <1>6, <3>1
    <3>4. \A i \in 1 .. Len(g) - 1 : Len(g) - n + 1 <= i => g[i + 1] - g[i] <= Window
      <4> TAKE i \in 1 .. Len(g) - 1
      <4> HAVE Len(g) - n + 1 <= i
      <4>1. CASE i = Len(f)
        BY <4>1, <1>1, <1>6, <3>2
      <4>2. CASE i \in 1 .. Len(f) - 1
        <5>1. g[i + 1] = f[i + 1] /\ g[i] = f[i]
          BY <4>2, <1>1, <1>6
        <5>2. Len(f) - s.count + 1 <= i
          BY <3>3a
        <5> QED
          BY <4>2, <5>1, <5>2, <3>3
      <4> QED
        BY <4>1, <4>2, <3>3a
    <3>5. n < Len(g) => g[Len(g) - n + 1] - g[Len(g) - n] > Window
      <4> HAVE n < Len(g)
      <4>1. s.count < Len(f) /\ s.count > 0
        BY <3>3, <3>3a
      <4>2. Len(g) - n = Len(f) - s.count
        BY <3>3a
      <4>4. Len(f) - s.count \in 1 .. Len(f) /\ Len(f) - s.count + 1 \in 1 .. Len(f)
        BY <1>1, <4>1
      <4>3. /\ g[Len(f) - s.count] = f[Len(f) - s.count]
            /\ g[Len(f) - s.count + 1] = f[Len(f) - s.count + 1]
        BY <1>6, <4>4
      <4>5. Len(g) - n + 1 = Len(f) - s.count + 1
        BY <3>3a
      <4> QED
        BY <3>3, <4>1, <4>2, <4>3, <4>5
    <3>6. n <= Len(g) /\ n # 0
      BY <3>3, <3>3a
    <3> QED
      BY <1>4, <3>4, <3>5, <3>6 DEF IsRun
  <2> QED
    BY <2>1, <2>2
<1> QED
  BY <1>3, <1>5, <1>8, <1>9, <1>10 DEF Good

\* ... and a success.
LEMMA SucceededGood ==
  ASSUME NEW s \in Snapshot, NEW f \in Seq(Nat), now \in Nat, Good(s, f, now)
  PROVE  LET r == [s EXCEPT !.state = "closed", !.count = 0, !.probe = Never]
         IN  r \in Snapshot /\ Good(r, <<>>, now)
<1> DEFINE r == [s EXCEPT !.state = "closed", !.count = 0, !.probe = Never]
<1>1. r \in Snapshot
  BY DEF Snapshot, CircuitState, Time
<1>2. r.state = "closed" /\ r.count = 0 /\ r.last = s.last
  BY DEF Snapshot
<1>3. Ordered(<<>>, now)
  BY DEF Ordered
<1>4. IsRun(r, <<>>)
  BY <1>2 DEF IsRun
<1>5. IsLatest(r, <<>>, now) /\ IsState(r)
  BY <1>2, BreakerAssumption DEF Good, IsLatest, IsState
<1> QED
  BY <1>1, <1>3, <1>4, <1>5 DEF Good

\* Time passing leaves it.
LEMMA TickGood ==
  ASSUME NEW s \in Snapshot, NEW f \in Seq(Nat), now \in Nat, Good(s, f, now)
  PROVE  Good(s, f, now + 1)
<1>1. \A i \in 1 .. Len(f) : f[i] \in Nat
  OBVIOUS
<1>2. Ordered(f, now + 1)
  BY <1>1 DEF Good, Ordered
<1>3. IsLatest(s, f, now + 1)
  BY DEF Good, IsLatest, Snapshot, Time
<1> QED
  BY <1>2, <1>3 DEF Good

-----------------------------------------------------------------------------
LEMMA InitInv == Init => Inv
<1> SUFFICES ASSUME Init PROVE Inv
  OBVIOUS
<1>1. TypeOK
  BY BreakerAssumption DEF Init, TypeOK, New, Snapshot, CircuitState, Time
<1>2. \A c \in Circuits : circuit[c] = New /\ failed[c] = <<>>
  BY DEF Init
<1>3. Good(New, <<>>, now)
  BY BreakerAssumption DEF New, Good, Ordered, IsRun, IsLatest, IsState
<1> QED
  BY <1>1, <1>2, <1>3 DEF Inv

\* What a circuit's snapshot and history are to the lemmas above.
LEMMA Typed ==
  ASSUME TypeOK, NEW c \in Circuits
  PROVE  /\ circuit[c] \in Snapshot /\ failed[c] \in Seq(Nat)
         /\ now \in Nat /\ now \in 0 .. MaxTime
<1>1. failed[c] \in Seq(0 .. MaxTime) /\ 0 .. MaxTime \subseteq Nat
  BY BreakerAssumption DEF TypeOK
<1> QED
  BY <1>1, BreakerAssumption DEF TypeOK

\* The types follow from the relation, the probe's among them.
LEMMA StateTyped ==
  ASSUME now' \in 0 .. MaxTime, circuit' \in [Circuits -> Snapshot],
         failed' \in [Circuits -> Seq(0 .. MaxTime)],
         \A c \in Circuits : Good(circuit'[c], failed'[c], now')
  PROVE  Inv'
<1>1. ASSUME NEW c \in Circuits, circuit'[c].state # "closed"
      PROVE  circuit'[c].last # Never /\ circuit'[c].probe # Never
  <2>1. circuit'[c].last \in Nat /\ circuit'[c].probe = circuit'[c].last + Cooldown
    BY <1>1 DEF Good, IsState, Snapshot, Time
  <2> QED
    BY <2>1, BreakerAssumption
<1> QED
  BY <1>1 DEF Inv, TypeOK

LEMMA FailureInv == ASSUME Inv, NEW c \in Circuits, RecordFailure(c) PROVE Inv'
<1> DEFINE new == Failed(Current(circuit[c]))
<1>1. now' = now /\ now \in Nat /\ now \in 0 .. MaxTime
  BY Typed DEF Inv, RecordFailure
<1>2. new \in Snapshot /\ Good(new, Append(failed[c], now), now)
  BY Typed, CurrentGood, FailedGood DEF Inv
<1>3. /\ circuit' = [circuit EXCEPT ![c] = new]
      /\ failed' = [failed EXCEPT ![c] = Append(failed[c], now)]
  BY DEF RecordFailure
<1> HIDE DEF new
<1>4. /\ circuit' \in [Circuits -> Snapshot]
      /\ failed' \in [Circuits -> Seq(0 .. MaxTime)]
  BY <1>1, <1>2, <1>3 DEF Inv, TypeOK
<1>5. \A d \in Circuits : Good(circuit'[d], failed'[d], now')
  BY <1>1, <1>2, <1>3 DEF Inv, TypeOK
<1> QED
  BY <1>1, <1>4, <1>5, StateTyped

LEMMA SuccessInv == ASSUME Inv, NEW c \in Circuits, RecordSuccess(c) PROVE Inv'
<1> DEFINE new == [circuit[c] EXCEPT !.state = "closed", !.count = 0, !.probe = Never]
<1>1. now' = now /\ now \in Nat /\ now \in 0 .. MaxTime
  BY Typed DEF Inv, RecordSuccess
<1>2. new \in Snapshot /\ Good(new, <<>>, now)
  BY Typed, SucceededGood DEF Inv
<1>3. /\ circuit' = [circuit EXCEPT ![c] = new]
      /\ failed' = [failed EXCEPT ![c] = <<>>]
  BY DEF RecordSuccess, Inv, TypeOK
<1> HIDE DEF new
<1>4. /\ circuit' \in [Circuits -> Snapshot]
      /\ failed' \in [Circuits -> Seq(0 .. MaxTime)]
  BY <1>1, <1>2, <1>3 DEF Inv, TypeOK
<1>5. \A d \in Circuits : Good(circuit'[d], failed'[d], now')
  BY <1>1, <1>2, <1>3 DEF Inv, TypeOK
<1> QED
  BY <1>1, <1>4, <1>5, StateTyped

LEMMA ListInv == ASSUME Inv, NEW listed \in SUBSET Circuits, List(listed) PROVE Inv'
<1>1. now' = now /\ failed' = failed
  BY DEF List
<1>2. \A c \in Circuits : circuit'[c] \in Snapshot /\ Good(circuit'[c], failed[c], now)
  <2>1. \A c \in Circuits : /\ circuit[c] \in Snapshot /\ Good(circuit[c], failed[c], now)
                            /\ Current(circuit[c]) \in Snapshot
                            /\ Good(Current(circuit[c]), failed[c], now)
    BY Typed, CurrentGood DEF Inv
  <2>2. \A c \in Circuits : circuit'[c] \in {circuit[c], Current(circuit[c])}
    BY DEF List
  <2> QED
    BY <2>1, <2>2
<1>3. circuit' \in [Circuits -> Snapshot]
  BY <1>2 DEF List
<1> QED
  BY <1>1, <1>2, <1>3, StateTyped DEF Inv, TypeOK

LEMMA TickInv == ASSUME Inv, Tick PROVE Inv'
<1>1. /\ now' = now + 1 /\ circuit' = circuit /\ failed' = failed
      /\ now' \in 0 .. MaxTime
  BY BreakerAssumption DEF Tick, Inv, TypeOK
<1>2. \A c \in Circuits : Good(circuit[c], failed[c], now + 1)
  BY Typed, TickGood DEF Inv
<1> QED
  BY <1>1, <1>2, StateTyped DEF Inv, TypeOK

LEMMA NextInv == Inv /\ [Next]_vars => Inv'
<1> SUFFICES ASSUME Inv, [Next]_vars PROVE Inv'
  OBVIOUS
<1>1. CASE UNCHANGED vars
  BY <1>1 DEF Inv, TypeOK, vars
<1> QED
  BY <1>1, FailureInv, SuccessInv, ListInv, TickInv DEF Next

\* Each circuit's snapshot agrees with its history, always.
THEOREM Invariance == Spec => []Inv
<1> QED
  BY InitInv, NextInv, PTL DEF Spec

\* Type correctness, with the probe that every circuit has while it is not closed.
THEOREM TypeCorrect == Spec => []TypeOK
<1>1. Inv => TypeOK
  BY DEF Inv
<1> QED
  BY <1>1, Invariance, PTL

\* The circuit is not closed after a burst: were the count below the threshold,
\* the gap just before the run would lie inside the burst.
THEOREM OpensInTime == Spec => []BurstOpens
<1>1. ASSUME Inv PROVE BurstOpens
  <2>1. ASSUME NEW c \in Circuits, Len(failed[c]) >= Threshold,
               failed[c][Len(failed[c])] - failed[c][Len(failed[c]) - Threshold + 1] <= Window
        PROVE  circuit[c].state # "closed"
    <3> DEFINE f == failed[c]
               k == Len(f) - circuit[c].count
    <3>1. /\ f \in Seq(Nat) /\ Len(f) \in Nat /\ circuit[c].count \in Nat
          /\ \A i \in 1 .. Len(f) : f[i] \in Nat
      BY <1>1, Typed DEF Inv, Snapshot
    <3>2. /\ \A i, j \in 1 .. Len(f) : i <= j => f[i] <= f[j]
          /\ circuit[c].count = 0 => Len(f) = 0
          /\ circuit[c].count < Len(f) => f[k + 1] - f[k] > Window
          /\ circuit[c].state # "closed" <=> circuit[c].count >= Threshold
      BY <1>1 DEF Inv, Good, Ordered, IsRun, IsState
    <3>3. /\ Len(f) >= Threshold /\ f[Len(f)] - f[Len(f) - Threshold + 1] <= Window
      BY <2>1
    <3> HIDE DEF f
    <3>4. ASSUME circuit[c].count < Threshold PROVE FALSE
      <4>1. /\ k \in 1 .. Len(f) /\ k + 1 \in 1 .. Len(f) /\ Len(f) \in 1 .. Len(f)
            /\ Len(f) - Threshold + 1 \in 1 .. Len(f) /\ Len(f) - Threshold + 1 <= k
        <5>1. /\ Len(f) \in Nat /\ circuit[c].count \in Nat
              /\ Len(f) >= Threshold /\ circuit[c].count < Threshold
          BY <3>1, <3>3, <3>4
        <5>2. circuit[c].count > 0
          BY <3>2, <5>1, BreakerAssumption
        <5> DEFINE n == Len(f)
                   m == circuit[c].count
        <5>3. /\ n \in Nat /\ m \in Nat /\ Threshold \in Nat
              /\ n >= Threshold /\ m < Threshold /\ m > 0
          BY <5>1, <5>2, BreakerAssumption
        <5> HIDE DEF n, m
        <5>4. /\ n - m \in 1 .. n /\ n - m + 1 \in 1 .. n /\ n \in 1 .. n
              /\ n - Threshold + 1 \in 1 .. n /\ n - Threshold + 1 <= n - m
          BY <5>3
        <5> QED
          BY <5>4 DEF n, m
      <4>2. f[k + 1] <= f[Len(f)] /\ f[Len(f) - Threshold + 1] <= f[k]
        BY <3>2, <4>1
      <4>3. f[k + 1] - f[k] > Window
        BY <3>1, <3>2, <3>3, <3>4, BreakerAssumption
      <4>4. /\ f[k + 1] \in Nat /\ f[k] \in Nat /\ f[Len(f)] \in Nat
            /\ f[Len(f) - Threshold + 1] \in Nat
        BY <3>1, <4>1
      <4> DEFINE x == f[k + 1]
                 y == f[k]
                 last == f[Len(f)]
                 first == f[Len(f) - Threshold + 1]
      <4>5. x \in Nat /\ y \in Nat /\ last \in Nat /\ first \in Nat /\ Window \in Nat
        BY <4>4, BreakerAssumption
      <4>6. x - y > Window /\ last - first <= Window /\ x <= last /\ first <= y
        BY <3>3, <4>2, <4>3
      <4> HIDE DEF x, y, last, first
      <4> QED
        BY <4>5, <4>6
    <3> QED
      BY <3>1, <3>2, <3>4, BreakerAssumption
  <2> QED
    BY <2>1 DEF BurstOpens
<1> QED
  BY <1>1, Invariance, PTL

\* It opens after such a run only.
THEOREM OpensOnlyThen == Spec => []OpenIsEarned
<1>1. ASSUME Inv PROVE OpenIsEarned
  <2>1. ASSUME NEW c \in Circuits, circuit[c].state # "closed"
        PROVE  /\ Len(failed[c]) >= Threshold
               /\ \A i \in Len(failed[c]) - Threshold + 1 .. Len(failed[c]) - 1 :
                    failed[c][i + 1] - failed[c][i] <= Window
    <3>1. Len(failed[c]) \in Nat /\ circuit[c].count \in Nat
      BY <1>1, Typed DEF Inv, Snapshot
    <3>2. Threshold <= circuit[c].count /\ circuit[c].count <= Len(failed[c])
      BY <1>1, <2>1 DEF Inv, Good, IsState, IsRun
    <3>3. \A i \in 1 .. Len(failed[c]) - 1 :
            Len(failed[c]) - circuit[c].count + 1 <= i
            => failed[c][i + 1] - failed[c][i] <= Window
      BY <1>1 DEF Inv, Good, IsRun
    <3> QED
      BY <3>1, <3>2, <3>3, BreakerAssumption
  <2> QED
    BY <2>1 DEF OpenIsEarned
<1> QED
  BY <1>1, Invariance, PTL

\* The cooldown is kept: a failure within it is within the window, so that the
\* count stays at the threshold, and a list finds the probe not yet due.
THEOREM CooldownKept == Spec => CooldownHolds
<1>1. ASSUME Inv, [Next]_vars, NEW c \in Circuits,
             circuit[c].state = "open", now < circuit[c].last + Cooldown
      PROVE  \/ circuit'[c].state = "open" \/ failed'[c] = <<>>
             \/ now > circuit[c].last + Window /\ failed'[c] # failed[c]
  <2>1. /\ circuit[c] \in Snapshot /\ failed[c] \in Seq(Nat) /\ now \in Nat
        /\ circuit \in [Circuits -> Snapshot] /\ failed \in [Circuits -> Seq(0 .. MaxTime)]
    BY <1>1, Typed DEF Inv, TypeOK
  <2>2. /\ circuit[c].last \in Nat /\ circuit[c].probe = circuit[c].last + Cooldown
        /\ circuit[c].count >= Threshold /\ circuit[c].last <= now
    BY <1>1, <2>1 DEF Inv, Good, IsState, IsLatest, Snapshot, Time
  <2>3. Current(circuit[c]) = circuit[c]
    BY <1>1, <2>1, <2>2, BreakerAssumption DEF Current, CooledDown
  <2>4. now <= circuit[c].last + Window => Failed(circuit[c]).state = "open"
    <3> SUFFICES ASSUME now <= circuit[c].last + Window PROVE Failed(circuit[c]).state = "open"
      OBVIOUS
    <3>1. Counted(circuit[c]) = circuit[c].count + 1
      BY <2>1, <2>2, BreakerAssumption DEF Counted
    <3>2. Counted(circuit[c]) >= Threshold
      BY <3>1, <2>1, <2>2, BreakerAssumption DEF Snapshot
    <3> QED
      BY <3>2 DEF Failed
  <2>5. ASSUME NEW d \in Circuits, RecordFailure(d)
        PROVE  \/ circuit'[c].state = "open"
               \/ now > circuit[c].last + Window /\ failed'[c] # failed[c]
    <3>1. CASE d # c
      BY <1>1, <2>1, <2>5, <3>1 DEF RecordFailure
    <3>2. CASE d = c /\ now <= circuit[c].last + Window
      BY <2>1, <2>3, <2>4, <2>5, <3>2 DEF RecordFailure
    <3>3. CASE d = c /\ ~ (now <= circuit[c].last + Window)
      <4>1. failed'[c] = Append(failed[c], now)
        BY <2>1, <2>5, <3>3 DEF RecordFailure
      <4>2. Len(failed'[c]) = Len(failed[c]) + 1 /\ Len(failed[c]) \in Nat
        BY <2>1, <4>1
      <4>3. now > circuit[c].last + Window
        BY <2>1, <2>2, <3>3, BreakerAssumption
      <4> QED
        BY <4>2, <4>3
    <3> QED
      BY <3>1, <3>2, <3>3
  <2>6. ASSUME NEW d \in Circuits, RecordSuccess(d)
        PROVE  circuit'[c].state = "open" \/ failed'[c] = <<>>
    BY <1>1, <2>1, <2>6 DEF RecordSuccess
  <2>7. ASSUME NEW listed \in SUBSET Circuits, List(listed) PROVE circuit'[c].state = "open"
    BY <1>1, <2>3, <2>7 DEF List
  <2>8. CASE Tick \/ UNCHANGED vars
    BY <1>1, <2>8 DEF Tick, vars
  <2> QED
    BY <1>1, <2>5, <2>6, <2>7, <2>8 DEF Next
<1>2. Inv /\ [Next]_vars =>
        [\A c \in Circuits :
           circuit[c].state = "open" /\ now < circuit[c].last + Cooldown
           => \/ circuit'[c].state = "open" \/ failed'[c] = <<>>
              \/ now > circuit[c].last + Window /\ failed'[c] # failed[c]]_vars
  BY <1>1
<1> QED
  BY <1>2, Invariance, PTL DEF Spec, CooldownHolds
=============================================================================
