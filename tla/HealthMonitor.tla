--------------------------- MODULE HealthMonitor ---------------------------
(***************************************************************************)
(* federation/health_monitor.py: one task polls the health route of every  *)
(* federated peer, one after the other, sleeps, and begins again.  Failed  *)
(* checks in a row lower the peer's rho_modifier, answers raise it again.  *)
(*                                                                         *)
(* The task awaits the peer's answer and its sleep; meanwhile peers are    *)
(* added and removed, the monitor is stopped, and the peers' health        *)
(* changes.  check_peer holds on to the record it looked up before the     *)
(* await: once that record is replaced or removed, what it learns is lost. *)
(* cancel() raises CancelledError out of either await, which `except       *)
(* Exception` does not catch, and stop() waits for it: one step.           *)
(*                                                                         *)
(* status, remote_status, uptime and the count of successes are recorded   *)
(* and never read; a degraded peer is treated like a healthy one.          *)
(***************************************************************************)
EXTENDS Integers, Sequences, FiniteSets

CONSTANTS
  Dids,           \* peers
  Healths,        \* what a peer may answer, from "well", "maintenance", "down"
  Unit,           \* 1.0: rho modifiers are multiples of 1/Unit
  Spacing,        \* that of the coarsest floats up to 1.0, in 1/Unit
  QuarantineFloor,
  RecoveryIncrement,
  DecayRate,      \* [num, den]
  Product,        \* what the float product of a modifier and DecayRate is
  DecayTrigger,   \* consecutive failures before rho decays
  CheckInterval,  \* time slept after a round
  CheckTimeout,   \* time a check takes at most
  MissBound,      \* bound on misses
  None

VARIABLES
  peers,    \* _peers: the record of each peer
  order,    \* the order of its keys
  running,  \* _running
  task,     \* where _monitor_loop is, None without a task
  age,      \* running time since the peer's last check began, or since it was
            \* added or the monitor started (history)
  health,   \* what each peer would answer (external)
  misses    \* checks a peer failed in a row since it was added, announced
            \* maintenance aside, up to MissBound (history)

vars == <<peers, order, running, task, age, health, misses>>

----------------------------------------------------------------------------
\* consecutive_failures is only compared with the trigger: it is capped there.
Rho == QuarantineFloor..Unit
Peer == [failures : 0..DecayTrigger, rho : Rho]
NewPeer == [failures |-> 0, rho |-> Unit]

\* attached: the record check_peer holds is still the registered one.
Idle(where) == [at |-> where, todo |-> <<>>, peer |-> None, attached |-> FALSE,
                waited |-> 0]
Created  == Idle("created")
Sleeping == Idle("sleeping")
Task == [at : {"created", "checking", "sleeping"}, todo : Seq(Dids),
         peer : Dids \union {None}, attached : BOOLEAN, waited : Nat]

ASSUME RhoAssumption ==
  /\ Unit \in Nat /\ QuarantineFloor \in 0..Unit /\ RecoveryIncrement \in Nat
  /\ DecayRate \in [num : Nat, den : Nat \ {0}] /\ DecayRate.num <= DecayRate.den
  /\ DecayTrigger \in Nat \ {0} /\ MissBound \in Nat /\ MissBound >= DecayTrigger
\* Floats are rounded to the nearest, either way at a tie: a product is off by half
\* a spacing at most, and no more than the modifier, which is itself a float.
ASSUME ProductAssumption ==
  /\ Spacing \in Nat
  /\ Product \in [0..Unit -> Nat]
  /\ \A r \in 0..Unit :
       LET error == Product[r] * DecayRate.den - r * DecayRate.num IN
         /\ Product[r] <= r
         /\ 2 * error <= Spacing * DecayRate.den
         /\ -(2 * error) <= Spacing * DecayRate.den
\* What x^n means, for the bases and exponents that occur: the provers do not
\* know exponentiation.
ASSUME PowerAssumption ==
  \A x \in {DecayRate.num, DecayRate.den} :
    /\ x^1 = x
    /\ \A n \in 1..MissBound : x^n \in Nat /\ x^(n + 1) = x * x^n
ASSUME DidsAssumption == IsFiniteSet(Dids)
ASSUME HealthsAssumption == Healths \subseteq {"well", "maintenance", "down"}
ASSUME TimeAssumption == CheckInterval \in Nat /\ CheckTimeout \in Nat
ASSUME NoneAssumption ==
  /\ None \notin Peer /\ None \notin Task /\ None \notin Dids /\ None \notin Rho

Present(p) == peers[p] # None

----------------------------------------------------------------------------
(* What a check does to the record *)

AtLeast(a, b) == IF a >= b THEN a ELSE b
AtMost(a, b)  == IF a <= b THEN a ELSE b

\* _apply_decay
Decayed(r) == AtLeast(Product[r], QuarantineFloor)

\* _apply_recovery.  That the sum is a float, too, is left out: no property depends
\* on where between its neighbours it falls.
\* (Mutants: nothing stops it at full trust; a step that would overshoot is not taken.)
Recovered_Overshoots(r) == IF r < Unit THEN r + RecoveryIncrement ELSE r
Recovered_Short(r) == IF r + RecoveryIncrement <= Unit THEN r + RecoveryIncrement ELSE r
Recovered(r) == AtMost(r + RecoveryIncrement, Unit)

OneMore(n) == AtMost(n + 1, DecayTrigger)

\* (Mutant: trust decays at the trigger, and not after it.)
Judged_DecaysOnce(peer, answer) ==
  LET failures == OneMore(peer.failures) IN
  CASE answer = "down" ->
         [peer EXCEPT !.failures = failures,
                      !.rho = IF peer.failures + 1 = DecayTrigger THEN Decayed(@) ELSE @]
    [] answer = "well" ->
         [peer EXCEPT !.failures = 0, !.rho = Recovered(@)]
    [] answer = "maintenance" -> peer

\* (Mutant: announced maintenance ends a row of failures.)
Judged_MaintenanceForgives(peer, answer) ==
  LET failures == OneMore(peer.failures) IN
  CASE answer = "down" ->
         [peer EXCEPT !.failures = failures,
                      !.rho = IF failures >= DecayTrigger THEN Decayed(@) ELSE @]
    [] answer = "well" ->
         [peer EXCEPT !.failures = 0, !.rho = Recovered(@)]
    [] answer = "maintenance" -> [peer EXCEPT !.failures = 0]

\* The record after an answer, or none.
Judged(peer, answer) ==
  LET failures == OneMore(peer.failures) IN
  CASE answer = "down" ->
         [peer EXCEPT !.failures = failures,
                      !.rho = IF failures >= DecayTrigger THEN Decayed(@) ELSE @]
    [] answer = "well" ->
         [peer EXCEPT !.failures = 0, !.rho = Recovered(@)]
    [] answer = "maintenance" -> peer

Counted(n, answer) ==
  CASE answer = "down" -> AtMost(n + 1, MissBound) [] answer = "well" -> 0
    [] answer = "maintenance" -> n

----------------------------------------------------------------------------
(* The task goes on to its next await.  check_peer raises for a peer that is *)
(* gone, which the loop logs and passes over.                                *)

Pending(todo) == {i \in DOMAIN todo : Present(todo[i])}

Checking(todo, i) ==
  [at |-> "checking", todo |-> SubSeq(todo, i + 1, Len(todo)), peer |-> todo[i],
   attached |-> TRUE, waited |-> 0]

\* The next peer that is still there is checked, or the task sleeps.
\* (Mutant: the exception for a peer that is gone ends the task.)
Advance_Dies(todo) ==
  \/ /\ todo # <<>> /\ Present(todo[1])
     /\ task' = Checking(todo, 1)
     /\ age' = [age EXCEPT ![todo[1]] = 0]
  \/ /\ todo # <<>> => ~Present(todo[1])
     /\ task' = IF todo = <<>> THEN Sleeping ELSE None
     /\ UNCHANGED age

Advance(todo) ==
  \/ \E i \in Pending(todo) :
       /\ \A j \in Pending(todo) : i <= j
       /\ task' = Checking(todo, i)
       /\ age' = [age EXCEPT ![todo[i]] = 0]
  \/ /\ Pending(todo) = {}
     /\ task' = Sleeping
     /\ UNCHANGED age

RoundBegins ==
  /\ task # None
  /\ \/ task.at = "created"
     \/ task.at = "sleeping" /\ task.waited = CheckInterval
  /\ Advance(order)
  /\ UNCHANGED <<peers, order, running, health, misses>>

\* check_peer resumes with the peer's answer, an error or a timeout.
\* (Mutant: the record is looked up again after the await.)
CheckEnds_LookupAfter ==
  /\ task # None /\ task.at = "checking"
  /\ LET p == task.peer IN
       /\ peers' = IF Present(p)
                   THEN [peers EXCEPT ![p] = Judged(@, health[p])]
                   ELSE peers
       /\ misses' = IF task.attached
                    THEN [misses EXCEPT ![p] = Counted(@, health[p])]
                    ELSE misses
  /\ Advance(task.todo)
  /\ UNCHANGED <<order, running, health>>

\* (Mutant: a peer that fails is tried again before the others.)
CheckEnds_RetriesAtOnce ==
  /\ task # None /\ task.at = "checking"
  /\ LET p == task.peer
         todo == IF health[p] = "down" THEN <<p>> \o task.todo ELSE task.todo IN
       /\ IF task.attached
          THEN /\ peers' = [peers EXCEPT ![p] = Judged(@, health[p])]
               /\ misses' = [misses EXCEPT ![p] = Counted(@, health[p])]
          ELSE UNCHANGED <<peers, misses>>
       /\ Advance(todo)
  /\ UNCHANGED <<order, running, health>>

CheckEnds ==
  /\ task # None /\ task.at = "checking"
  /\ LET p == task.peer IN
       IF task.attached
       THEN /\ peers' = [peers EXCEPT ![p] = Judged(@, health[p])]
            /\ misses' = [misses EXCEPT ![p] = Counted(@, health[p])]
       ELSE UNCHANGED <<peers, misses>>
  /\ Advance(task.todo)
  /\ UNCHANGED <<order, running, health>>

----------------------------------------------------------------------------
(* The monitor's operations *)

Detach(p) ==
  task' = IF task # None /\ task.peer = p THEN [task EXCEPT !.attached = FALSE]
          ELSE task

\* add_peer: a new record, at its old place if it had one.
AddPeer(p) ==
  /\ peers' = [peers EXCEPT ![p] = NewPeer]
  /\ order' = IF Present(p) THEN order ELSE Append(order, p)
  /\ Detach(p)
  /\ age' = [age EXCEPT ![p] = 0]
  /\ misses' = [misses EXCEPT ![p] = 0]
  /\ UNCHANGED <<running, health>>

RemovePeer(p) ==
  /\ Present(p)
  /\ peers' = [peers EXCEPT ![p] = None]
  /\ \E i \in DOMAIN order :
       /\ order[i] = p
       /\ order' = SubSeq(order, 1, i - 1) \o SubSeq(order, i + 1, Len(order))
  /\ Detach(p)
  /\ age' = [age EXCEPT ![p] = 0]
  /\ UNCHANGED <<running, health, misses>>

\* lifespan starts the monitor once, and stops it once.  start() itself looks at
\* nothing, and a second start would leave two tasks: the guard is the caller's.
Start ==
  /\ ~running
  /\ running' = TRUE
  /\ task' = Created
  /\ age' = [p \in Dids |-> 0]
  /\ UNCHANGED <<peers, order, health, misses>>

Stop ==
  /\ running' = FALSE
  /\ task' = None
  /\ UNCHANGED <<peers, order, age, health, misses>>

HealthChanges(p) ==
  /\ \E h \in Healths \ {health[p]} : health' = [health EXCEPT ![p] = h]
  /\ UNCHANGED <<peers, order, running, task, age, misses>>

\* Time passes while the task waits, and no longer than it may.
Tick ==
  /\ task # None
  /\ \/ task.at = "checking" /\ task.waited < CheckTimeout
     \/ task.at = "sleeping" /\ task.waited < CheckInterval
  /\ task' = [task EXCEPT !.waited = @ + 1]
  /\ age' = [p \in Dids |-> IF Present(p) THEN age[p] + 1 ELSE age[p]]
  /\ UNCHANGED <<peers, order, running, health, misses>>

----------------------------------------------------------------------------
Init ==
  /\ peers = [p \in Dids |-> None]
  /\ order = <<>>
  /\ running = FALSE
  /\ task = None
  /\ age = [p \in Dids |-> 0]
  /\ health \in [Dids -> Healths]
  /\ misses = [p \in Dids |-> 0]

Next ==
  \/ RoundBegins \/ CheckEnds \/ Start \/ Stop \/ Tick
  \/ \E p \in Dids : AddPeer(p) \/ RemovePeer(p) \/ HealthChanges(p)

Spec == Init /\ [][Next]_vars

\* Time passes, the client's timeout ends a check, and the event loop resumes
\* the task.
Fairness == WF_vars(Tick) /\ WF_vars(RoundBegins) /\ WF_vars(CheckEnds)
FairSpec == Spec /\ Fairness

----------------------------------------------------------------------------
(* Properties *)

\* The records keep their types, a modifier above all its range: get_rho_modifier
\* promises 0.0 to 1.0.
TypeOK ==
  /\ peers \in [Dids -> Peer \union {None}]
  /\ order \in Seq(Dids)
  /\ running \in BOOLEAN
  /\ task \in Task \union {None}
  /\ age \in [Dids -> Nat]
  /\ health \in [Dids -> Healths]
  /\ misses \in [Dids -> 0..MissBound]

\* A peer loses trust only when a check of it ends, of the record it has now, and
\* with that check it has failed as many in a row as the trigger asks; it gains trust
\* only by answering or being added anew: not by another peer's checks, by a check of
\* a record since replaced, by stop() in the middle of a check or by announced
\* maintenance.
Checked(p) == task # None /\ task.peer = p /\ task.attached
EvidenceStep ==
  \A p \in Dids : Present(p) /\ Present(p)' =>
    /\ peers'[p].rho < peers[p].rho => Checked(p) /\ misses'[p] >= DecayTrigger
    /\ peers'[p].rho > peers[p].rho => misses'[p] = 0
TrustFollowsEvidence == [][EvidenceStep]_vars

\* From the trigger on every failure in a row multiplies: a peer that failed one
\* check less than the trigger and k more is at the floor or trusted at most
\* rate^k, and what k roundings add: (1 + rate + ... + rate^(k-1)) * Spacing / 2,
\* which is (1 - rate^k) / (1 - rate) * Spacing / 2.  So it is however many peers came
\* and went, rounds were cut short and the monitor was stopped and started in between.
FadedBy(k, rho) ==
  \/ rho = QuarantineFloor
  \/ LET num == DecayRate.num  den == DecayRate.den IN
       2 * (den - num) * (rho * den^k - Unit * num^k) <= Spacing * den * (den^k - num^k)
DecayIsExponential ==
  \A p \in Dids : Present(p) /\ misses[p] >= DecayTrigger =>
    FadedBy(misses[p] + 1 - DecayTrigger, peers[p].rho)

\* The rounds, records and awaits add up to PeerTrust: every modifier is what the
\* peer's own checks since it was added make of it, and a step moves one at most.
PT == INSTANCE PeerTrust WITH
        Peers <- Dids, Full <- Unit, Floor <- QuarantineFloor,
        Gain <- RecoveryIncrement, Left <- Product, Trigger <- DecayTrigger,
        Gone <- None,
        trust <- [p \in Dids |-> IF Present(p) THEN peers[p].rho ELSE None],
        failed <- [p \in Dids |-> IF Present(p) THEN AtMost(misses[p], DecayTrigger)
                                 ELSE 0]
ImplementsPeerTrust == PT!Spec

\* While the monitor runs, and however slow the other peers are, a peer is checked
\* again within a sleep and twice the others' timeouts and its own: they come after
\* it in one round and before it in the next at most, also when a peer is removed
\* and added anew, behind the others, while the round that lists it goes on.
ChecksNotStarved ==
  \A p \in Dids : task # None /\ Present(p) =>
    age[p] <= CheckInterval + (2 * Cardinality(Dids) - 1) * CheckTimeout

\* A peer that stays down ends at the quarantine floor or where rounding stops the
\* decay, no higher than Spacing / 2 / (1 - rate), and stays there, although peers are
\* added and removed while the loop goes over them.
FadedAway(rho) ==
  \/ rho = QuarantineFloor
  \/ 2 * rho * (DecayRate.den - DecayRate.num) <= Spacing * DecayRate.den
DeadPeerFades ==
  \A p \in Dids :
    /\ <>[](running /\ Present(p) /\ health[p] = "down")
    /\ <>[][~AddPeer(p)]_vars
    => <>[](Present(p) /\ FadedAway(peers[p].rho))

\* A peer that stays well is trusted in full again, whatever it has lost.
HealthyPeerRecovers ==
  \A p \in Dids :
    <>[](running /\ Present(p) /\ health[p] = "well")
    => <>[](Present(p) /\ peers[p].rho = Unit)
=============================================================================
