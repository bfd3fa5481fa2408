------------------------ MODULE HealthMonitorProofs ------------------------
(***************************************************************************)
(* What HealthMonitor promises for any finite set of peers, any rates,     *)
(* floors and triggers, and any interval and timeout.                      *)
(***************************************************************************)
EXTENDS HealthMonitor, IndexLemmas, SequenceTheorems, TLAPS

\* Decay takes a modifier down, but not below the floor.
LEMMA DecayBounds ==
  ASSUME NEW r \in Rho
  PROVE  Decayed(r) \in Rho /\ Decayed(r) <= r
<1>1. /\ Unit \in Nat /\ QuarantineFloor \in 0..Unit /\ r \in 0..Unit
      /\ QuarantineFloor <= r
  BY RhoAssumption DEF Rho
<1>2. Product[r] \in Nat /\ Product[r] <= r
  BY <1>1, ProductAssumption
<1>. QED BY <1>1, <1>2 DEF Decayed, AtLeast, Rho

\* What a check makes of a record, and of the misses m behind its failures: trust is
\* lost at the trigger only, and only an answer gains it.
LEMMA Judgement ==
  ASSUME NEW r \in Peer, NEW h \in Healths, NEW m \in 0..MissBound,
         r.failures = AtMost(m, DecayTrigger)
  PROVE  /\ Judged(r, h) \in Peer /\ Counted(m, h) \in 0..MissBound
         /\ Judged(r, h).failures = AtMost(Counted(m, h), DecayTrigger)
         /\ \/ Judged(r, h).rho = r.rho /\ (Counted(m, h) = m \/ Counted(m, h) < DecayTrigger)
            \/ /\ h = "down" /\ Counted(m, h) = AtMost(m + 1, MissBound)
               /\ Counted(m, h) >= DecayTrigger /\ Judged(r, h).rho = Decayed(r.rho)
            \/ /\ h = "well" /\ Counted(m, h) = 0 /\ Judged(r, h).rho = Recovered(r.rho)
<1>1. /\ DecayTrigger \in Nat \ {0} /\ Unit \in Nat /\ QuarantineFloor \in 0..Unit
      /\ RecoveryIncrement \in Nat /\ r.rho \in Rho /\ r.failures \in 0..DecayTrigger
      /\ MissBound \in Nat /\ MissBound >= DecayTrigger
  BY RhoAssumption DEF Peer
<1>2. /\ OneMore(r.failures) \in 0..DecayTrigger
      /\ OneMore(r.failures) = AtMost(AtMost(m + 1, MissBound), DecayTrigger)
      /\ AtMost(m + 1, MissBound) \in 0..MissBound
      /\ OneMore(r.failures) >= DecayTrigger <=> AtMost(m + 1, MissBound) >= DecayTrigger
  BY <1>1 DEF OneMore, AtMost
<1>3. Recovered(r.rho) \in Rho
  BY <1>1 DEF Recovered, AtMost, Rho
<1>4. Decayed(r.rho) \in Rho
  BY <1>1, DecayBounds
<1>6. CASE h = "down"
  <2>1. Judged(r, h) = [failures |-> OneMore(r.failures),
                        rho |-> IF OneMore(r.failures) >= DecayTrigger
                                THEN Decayed(r.rho) ELSE r.rho]
    BY <1>6 DEF Judged, Peer
  <2>2. Counted(m, h) = AtMost(m + 1, MissBound)
    BY <1>6 DEF Counted
  <2>3. CASE OneMore(r.failures) >= DecayTrigger
    BY <1>1, <1>2, <1>4, <1>6, <2>1, <2>2, <2>3 DEF Peer
  <2>4. CASE ~(OneMore(r.failures) >= DecayTrigger)
    <3>1. AtMost(m + 1, MissBound) < DecayTrigger
      BY <1>1, <1>2, <2>4
    <3>. QED BY <1>1, <1>2, <2>1, <2>2, <2>4, <3>1 DEF Peer
  <2>. QED BY <2>3, <2>4
<1>7. CASE h = "well"
  <2>1. Judged(r, h) = [failures |-> 0, rho |-> Recovered(r.rho)]
    BY <1>7 DEF Judged, Peer
  <2>2. Counted(m, h) = 0 /\ AtMost(0, DecayTrigger) = 0
    BY <1>1, <1>7 DEF Counted, AtMost
  <2>. QED BY <1>1, <1>3, <1>7, <2>1, <2>2 DEF Peer
<1>8. CASE h = "maintenance"
  <2>1. Judged(r, h) = r /\ Counted(m, h) = m
    BY <1>8 DEF Judged, Counted
  <2>. QED BY <2>1
<1>. QED BY <1>6, <1>7, <1>8, HealthsAssumption

\* What decay leaves, multiplied out: the floor, or the rate of what there was and
\* half a spacing at most.
LEMMA DecayMultiplies ==
  ASSUME NEW r \in Rho
  PROVE  \/ Decayed(r) = QuarantineFloor
         \/ 2 * (Decayed(r) * DecayRate.den - r * DecayRate.num) <= Spacing * DecayRate.den
<1>1. r \in 0..Unit
  BY RhoAssumption DEF Rho
<1>2. 2 * (Product[r] * DecayRate.den - r * DecayRate.num) <= Spacing * DecayRate.den
  BY <1>1, ProductAssumption
<1>3. Decayed(r) = Product[r] \/ Decayed(r) = QuarantineFloor
  BY DEF Decayed, AtLeast
<1>. QED BY <1>2, <1>3

----------------------------------------------------------------------------
(* The inductive invariant *)

\* The time k checks may take.
Span(k) == k * CheckTimeout
N == Cardinality(Dids)
Listed(p, s) == \E i \in DOMAIN s : s[i] = p

OrderOK ==
  /\ \A p \in Dids : Present(p) <=> Listed(p, order)
  /\ \A i, j \in DOMAIN order : order[i] = order[j] => i = j

\* A record the task is attached to is the registered one; a round has no more
\* peers left than it listed.
TaskOK ==
  task # None =>
    /\ task.at = "checking" =>
         task.peer \in Dids /\ task.waited <= CheckTimeout /\ Len(task.todo) + 1 <= N
    /\ task.at = "sleeping" => task.waited <= CheckInterval
    /\ task.at # "checking" => ~task.attached
    /\ task.attached => Present(task.peer)

FailuresCounted ==
  \A p \in Dids : Present(p) => peers[p].failures = AtMost(misses[p], DecayTrigger)

\* What a peer that is still to come has behind it when the round begins.
Lead(p, s) == IF Listed(p, s) THEN Span(N) + CheckInterval ELSE 0

\* A peer that is still to come in this round has waited for at most a round, a
\* sleep and this round so far, any other for this round so far.
Waits(p) ==
  /\ ~Present(p) => age[p] = 0
  /\ task # None =>
       /\ task.at = "created" => age[p] = 0
       /\ task.at = "sleeping" => age[p] <= Span(N) + task.waited
       /\ task.at = "checking" =>
            age[p] <= Lead(p, task.todo) + Span(N - 1 - Len(task.todo)) + task.waited
WaitsBounded == \A p \in Dids : Waits(p)

IInv ==
  /\ TypeOK /\ OrderOK /\ TaskOK /\ FailuresCounted /\ WaitsBounded
  /\ DecayIsExponential

----------------------------------------------------------------------------
(* Spans, sequences and tasks *)

LEMMA Spans ==
  /\ N \in Nat
  /\ \A k \in Nat : Span(k) \in Nat /\ Span(k + 1) = Span(k) + CheckTimeout
  /\ \A j, k \in Nat : j <= k => Span(j) <= Span(k)
<1>1. N \in Nat
  BY DidsAssumption, FS_CardinalityType DEF N
<1>2. ASSUME NEW k \in Nat PROVE Span(k) \in Nat /\ Span(k + 1) = Span(k) + CheckTimeout
  BY TimeAssumption, SMT DEF Span
<1>3. ASSUME NEW j \in Nat, NEW k \in Nat, j <= k PROVE Span(j) <= Span(k)
  BY <1>3, TimeAssumption, SMT DEF Span
<1>. QED BY <1>1, <1>2, <1>3

LEMMA Leads ==
  ASSUME NEW p, NEW s
  PROVE  /\ Lead(p, s) \in Nat /\ Lead(p, s) <= Span(N) + CheckInterval
         /\ ~Listed(p, s) => Lead(p, s) = 0
         /\ Listed(p, s) => Lead(p, s) = Span(N) + CheckInterval
<1>1. Span(N) \in Nat
  BY Spans
<1>. QED BY <1>1, TimeAssumption DEF Lead

\* A sequence that names no peer twice is no longer than there are peers.
LEMMA NoRepetition ==
  ASSUME NEW s \in Seq(Dids), \A i, j \in DOMAIN s : s[i] = s[j] => i = j
  PROVE  Len(s) <= N
<1>1. /\ 1..Len(s) = DOMAIN s /\ Len(s) \in Nat
      /\ s \in [1..Len(s) -> Dids]
  OBVIOUS
<1>2. IsFiniteSet(1..Len(s)) /\ Cardinality(1..Len(s)) = Len(s)
  BY <1>1, FS_Interval
<1>3. s \in Injection(1..Len(s), Dids)
  BY <1>1 DEF Injection, IsInjective
<1>. QED BY <1>2, <1>3, DidsAssumption, FS_Injection DEF N

LEMMA TaskTypes ==
  /\ Created \in Task /\ Sleeping \in Task
  /\ Sleeping.at = "sleeping" /\ Sleeping.waited = 0 /\ ~Sleeping.attached
  /\ Created.at = "created" /\ ~Created.attached
<1>1. <<>> \in Seq(Dids) /\ None \in Dids \union {None}
  OBVIOUS
<1>2. Created \in Task /\ Created.at = "created" /\ ~Created.attached /\ Created.waited = 0
  BY <1>1 DEF Created, Idle, Task
<1>3. Sleeping \in Task /\ Sleeping.at = "sleeping" /\ ~Sleeping.attached /\ Sleeping.waited = 0
  BY <1>1 DEF Sleeping, Idle, Task
<1>. QED BY <1>2, <1>3

LEMMA CheckingType ==
  ASSUME NEW s \in Seq(Dids), NEW i \in DOMAIN s
  PROVE  /\ Checking(s, i) \in Task
         /\ Checking(s, i).at = "checking" /\ Checking(s, i).waited = 0
         /\ Checking(s, i).peer = s[i] /\ Checking(s, i).attached
         /\ Checking(s, i).todo \in Seq(Dids)
         /\ Len(Checking(s, i).todo) = Len(s) - i
         /\ \A j \in 1..(Len(s) - i) : Checking(s, i).todo[j] = s[i + j]
<1>1. /\ SubSeq(s, i + 1, Len(s)) \in Seq(Dids)
      /\ Len(SubSeq(s, i + 1, Len(s))) = Len(s) - i
      /\ \A j \in 1..(Len(s) - i) : SubSeq(s, i + 1, Len(s))[j] = s[i + j]
  OBVIOUS
<1>2. s[i] \in Dids
  OBVIOUS
<1>. QED BY <1>1, <1>2 DEF Checking, Task

\* The task sleeps when no peer is left, or goes on to the first that is.
LEMMA Advances ==
  ASSUME TypeOK, NEW s \in Seq(Dids), Advance(s)
  PROVE  \/ /\ task' = Sleeping /\ age' = age
            /\ \A p \in Dids : Listed(p, s) => ~Present(p)
         \/ \E i \in DOMAIN s :
              /\ task' = Checking(s, i) /\ age' = [age EXCEPT ![s[i]] = 0]
              /\ Present(s[i])
              /\ \A j \in DOMAIN s : j < i => ~Present(s[j])
<1>1. CASE Pending(s) = {} /\ task' = Sleeping /\ UNCHANGED age
  BY <1>1 DEF Pending, Listed
<1>2. ASSUME NEW i \in Pending(s), \A j \in Pending(s) : i <= j,
             task' = Checking(s, i), age' = [age EXCEPT ![s[i]] = 0]
      PROVE  \E k \in DOMAIN s :
              /\ task' = Checking(s, k) /\ age' = [age EXCEPT ![s[k]] = 0]
              /\ Present(s[k])
              /\ \A j \in DOMAIN s : j < k => ~Present(s[j])
  <2>1. i \in DOMAIN s /\ Present(s[i]) /\ DOMAIN s = 1..Len(s)
    BY <1>2 DEF Pending
  <2>2. ASSUME NEW j \in DOMAIN s, j < i PROVE ~Present(s[j])
    BY <1>2, <2>1, <2>2 DEF Pending
  <2>. QED BY <1>2, <2>1, <2>2
<1>. QED BY <1>1, <1>2 DEF Advance

LEMMA AdvanceTypes ==
  ASSUME TypeOK, NEW s \in Seq(Dids), Advance(s)
  PROVE  task' \in Task /\ age' \in [Dids -> Nat]
<1>1. CASE task' = Sleeping /\ age' = age
  BY <1>1, TaskTypes DEF TypeOK
<1>2. ASSUME NEW i \in DOMAIN s, task' = Checking(s, i), age' = [age EXCEPT ![s[i]] = 0]
      PROVE  task' \in Task /\ age' \in [Dids -> Nat]
  BY <1>2, CheckingType DEF TypeOK
<1>. QED BY <1>1, <1>2, Advances

\* A removal takes one place out of the order and keeps the others.
LEMMA Removal ==
  ASSUME NEW s \in Seq(Dids), NEW i \in DOMAIN s, NEW r,
         r = SubSeq(s, 1, i - 1) \o SubSeq(s, i + 1, Len(s))
  PROVE  /\ r \in Seq(Dids) /\ DOMAIN r = 1..(Len(s) - 1)
         /\ \A j \in 1..(Len(s) - 1) : r[j] = IF j < i THEN s[j] ELSE s[j + 1]
<1>. DEFINE a == SubSeq(s, 1, i - 1)
            b == SubSeq(s, i + 1, Len(s))
<1>1. i \in 1..Len(s) /\ Len(s) \in Nat
  OBVIOUS
<1>2. a \in Seq(Dids) /\ Len(a) = i - 1 /\ \A j \in 1..(i - 1) : a[j] = s[j]
  BY <1>1
<1>3. /\ b \in Seq(Dids) /\ Len(b) = Len(s) - i
      /\ \A j \in 1..(Len(s) - i) : b[j] = s[i + j]
  BY <1>1
<1>. HIDE DEF a, b
<1>4. /\ a \o b \in Seq(Dids) /\ Len(a \o b) = Len(s) - 1
      /\ DOMAIN (a \o b) = 1..(Len(s) - 1)
      /\ \A j \in 1..(Len(s) - 1) :
           (a \o b)[j] = IF j <= i - 1 THEN a[j] ELSE b[j - (i - 1)]
  <2>1. /\ a \o b \in Seq(Dids) /\ Len(a \o b) = Len(a) + Len(b)
        /\ \A j \in 1..(Len(a) + Len(b)) :
             (a \o b)[j] = IF j <= Len(a) THEN a[j] ELSE b[j - Len(a)]
    BY <1>2, <1>3, ConcatProperties
  <2>2. DOMAIN (a \o b) = 1..Len(a \o b)
    BY <2>1
  <2>3. Len(a) + Len(b) = Len(s) - 1
    BY <1>1, <1>2, <1>3
  <2>. QED BY <1>2, <2>1, <2>2, <2>3
<1>5. r = a \o b
  BY DEF a, b
<1>6. ASSUME NEW j \in 1..(Len(s) - 1)
      PROVE  r[j] = IF j < i THEN s[j] ELSE s[j + 1]
  <2>1. CASE j < i
    BY <1>1, <1>2, <1>4, <1>5, <2>1
  <2>2. CASE ~(j < i)
    <3>1. j - (i - 1) \in 1..(Len(s) - i) /\ i + (j - (i - 1)) = j + 1
      BY <1>1, <2>2
    <3>2. ~(j <= i - 1) /\ j \in 1..(Len(s) - 1)
      BY <1>1, <2>2
    <3>3. (a \o b)[j] = b[j - (i - 1)]
      BY <1>4, <3>2
    <3>4. b[j - (i - 1)] = s[j + 1]
      BY <1>3, <3>1
    <3>. QED BY <1>5, <2>2, <3>3, <3>4
  <2>. QED BY <2>1, <2>2
<1>. QED BY <1>4, <1>5, <1>6

----------------------------------------------------------------------------
(* The steps, one conjunct of the invariant after the other *)

\* CheckEnds judges the record of one peer that is there, or none.
Judges(p) ==
  /\ Checked(p)
  /\ Present(p) /\ peers[p] \in Peer /\ health[p] \in Healths
  /\ misses[p] \in 0..MissBound
  /\ peers[p].failures = AtMost(misses[p], DecayTrigger)
  /\ peers' = [peers EXCEPT ![p] = Judged(peers[p], health[p])]
  /\ misses' = [misses EXCEPT ![p] = Counted(misses[p], health[p])]

LEMMA CheckJudges ==
  ASSUME IInv, CheckEnds
  PROVE  UNCHANGED <<peers, misses>> \/ \E p \in Dids : Judges(p)
<1>1. CASE task.attached
  <2>. DEFINE p == task.peer
  <2>1. /\ p \in Dids /\ Present(p)
        /\ peers' = [peers EXCEPT ![p] = Judged(@, health[p])]
        /\ misses' = [misses EXCEPT ![p] = Counted(@, health[p])]
    BY <1>1 DEF CheckEnds, IInv, TaskOK
  <2>4. Checked(p)
    BY <1>1 DEF CheckEnds, Checked
  <2>. HIDE DEF p
  <2>2. /\ peers[p] \in Peer /\ health[p] \in Healths /\ misses[p] \in 0..MissBound
        /\ peers[p].failures = AtMost(misses[p], DecayTrigger)
    BY <2>1 DEF IInv, TypeOK, Present, FailuresCounted
  <2>3. /\ peers' = [peers EXCEPT ![p] = Judged(peers[p], health[p])]
        /\ misses' = [misses EXCEPT ![p] = Counted(misses[p], health[p])]
    BY <2>1
  <2>. QED BY <2>1, <2>2, <2>3, <2>4 DEF Judges
<1>2. CASE ~task.attached
  BY <1>2 DEF CheckEnds
<1>. QED BY <1>1, <1>2

\* What CheckEnds does to the records: it removes and adds none.
LEMMA ChecksKeepPeers ==
  ASSUME IInv, CheckEnds
  PROVE  /\ task # None /\ task.at = "checking" /\ task.todo \in Seq(Dids)
         /\ Advance(task.todo)
         /\ peers' \in [Dids -> Peer \union {None}]
         /\ misses' \in [Dids -> 0..MissBound]
         /\ \A p \in Dids : Present(p)' <=> Present(p)
<1>1. /\ task # None /\ task.at = "checking" /\ task \in Task
      /\ Advance(task.todo) /\ TypeOK
  BY DEF CheckEnds, IInv, TypeOK
<1>2. ASSUME NEW p \in Dids, Judges(p)
      PROVE  /\ peers' \in [Dids -> Peer \union {None}]
             /\ misses' \in [Dids -> 0..MissBound]
             /\ \A q \in Dids : Present(q)' <=> Present(q)
  <2>1. /\ Judged(peers[p], health[p]) \in Peer
        /\ Counted(misses[p], health[p]) \in 0..MissBound
    BY <1>2, Judgement DEF Judges
  <2>. QED BY <1>1, <1>2, <2>1, NoneAssumption DEF Judges, TypeOK, Present
<1>3. ASSUME UNCHANGED <<peers, misses>>
      PROVE  /\ peers' \in [Dids -> Peer \union {None}]
             /\ misses' \in [Dids -> 0..MissBound]
             /\ \A q \in Dids : Present(q)' <=> Present(q)
  BY <1>1, <1>3 DEF TypeOK, Present
<1>. QED BY <1>1, <1>2, <1>3, CheckJudges DEF Task

LEMMA StepTypes == IInv /\ [Next]_vars => TypeOK'
<1>. SUFFICES ASSUME IInv, [Next]_vars PROVE TypeOK'
  OBVIOUS
<1>0. TypeOK /\ MissBound \in Nat /\ NewPeer \in Peer
  BY RhoAssumption DEF IInv, NewPeer, Peer, Rho
<1>1. CASE RoundBegins
  BY <1>0, <1>1, AdvanceTypes DEF RoundBegins, TypeOK
<1>2. CASE CheckEnds
  BY <1>0, <1>2, ChecksKeepPeers, AdvanceTypes DEF CheckEnds, TypeOK
<1>3. CASE Start
  BY <1>0, <1>3, TaskTypes DEF Start, TypeOK
<1>4. CASE Stop
  BY <1>0, <1>4 DEF Stop, TypeOK
<1>5. CASE Tick
  <2>1. task \in Task /\ task' = [task EXCEPT !.waited = @ + 1]
    BY <1>0, <1>5 DEF Tick, TypeOK
  <2>2. task' \in Task
    BY <2>1 DEF Task
  <2>. QED BY <1>0, <1>5, <2>2 DEF Tick, TypeOK
<1>6. ASSUME NEW p \in Dids, Detach(p) PROVE task' \in Task \union {None}
  BY <1>0, <1>6 DEF Detach, TypeOK, Task
<1>7. ASSUME NEW p \in Dids, AddPeer(p) PROVE TypeOK'
  BY <1>0, <1>6, <1>7 DEF AddPeer, TypeOK
<1>8. ASSUME NEW p \in Dids, RemovePeer(p) PROVE TypeOK'
  <2>1. order' \in Seq(Dids)
    BY <1>0, <1>8, Removal DEF RemovePeer, TypeOK
  <2>. QED BY <1>0, <1>6, <1>8, <2>1 DEF RemovePeer, TypeOK
<1>9. ASSUME NEW p \in Dids, HealthChanges(p) PROVE TypeOK'
  BY <1>0, <1>9 DEF HealthChanges, TypeOK
<1>10. CASE UNCHANGED vars
  BY <1>0, <1>10 DEF vars, TypeOK
<1>. QED BY <1>1, <1>2, <1>3, <1>4, <1>5, <1>7, <1>8, <1>9, <1>10 DEF Next

\* The order lists the peers that are there, each once.
LEMMA StepOrder == IInv /\ [Next]_vars => OrderOK'
<1>. SUFFICES ASSUME IInv, [Next]_vars PROVE OrderOK'
  OBVIOUS
<1>0. TypeOK /\ OrderOK /\ DOMAIN order = 1..Len(order) /\ Len(order) \in Nat
  BY DEF IInv, TypeOK
<1>1. CASE UNCHANGED <<peers, order>>
  BY <1>0, <1>1 DEF OrderOK, Present, Listed
<1>2. CASE CheckEnds
  BY <1>0, <1>2, ChecksKeepPeers DEF CheckEnds, OrderOK, Listed
<1>3. ASSUME NEW p \in Dids, AddPeer(p) PROVE OrderOK'
  <2>1. \A q \in Dids : Present(q)' <=> Present(q) \/ q = p
    BY <1>0, <1>3, NoneAssumption, RhoAssumption
    DEF AddPeer, Present, TypeOK, NewPeer, Peer, Rho
  <2>2. CASE Present(p)
    BY <1>0, <1>3, <2>1, <2>2 DEF AddPeer, OrderOK, Listed
  <2>3. CASE ~Present(p)
    <3>1. /\ DOMAIN order' = 1..(Len(order) + 1)
          /\ order'[Len(order) + 1] = p
          /\ \A i \in DOMAIN order : order'[i] = order[i]
      BY <1>0, <1>3, <2>3 DEF AddPeer, TypeOK
    <3>2. \A i \in DOMAIN order : order[i] # p
      BY <1>0, <2>3 DEF OrderOK, Listed
    <3>3. \A i \in 1..(Len(order) + 1) : i \in DOMAIN order \/ i = Len(order) + 1
      BY <1>0
    <3>4. ASSUME NEW q \in Dids PROVE Present(q)' <=> Listed(q, order')
      <4>1. CASE q = p
        BY <1>0, <2>1, <3>1, <4>1 DEF Listed
      <4>2. CASE q # p
        BY <1>0, <2>1, <3>1, <3>3, <4>2 DEF OrderOK, Listed
      <4>. QED BY <4>1, <4>2
    <3>5. \A i, j \in DOMAIN order' : order'[i] = order'[j] => i = j
      BY <1>0, <3>1, <3>2, <3>3 DEF OrderOK
    <3>. QED BY <3>4, <3>5 DEF OrderOK
  <2>. QED BY <2>2, <2>3
<1>4. ASSUME NEW p \in Dids, RemovePeer(p) PROVE OrderOK'
  <2>1. \A q \in Dids : Present(q)' <=> Present(q) /\ q # p
    BY <1>0, <1>4 DEF RemovePeer, Present, TypeOK
  <2>2. PICK i \in DOMAIN order :
          /\ order[i] = p
          /\ order' = SubSeq(order, 1, i - 1) \o SubSeq(order, i + 1, Len(order))
    BY <1>4 DEF RemovePeer
  <2>3. /\ DOMAIN order' = 1..(Len(order) - 1)
        /\ \A j \in 1..(Len(order) - 1) :
             order'[j] = IF j < i THEN order[j] ELSE order[j + 1]
    <3>1. order \in Seq(Dids)
      BY <1>0 DEF TypeOK
    <3>. QED BY <2>2, <3>1, Removal
  <2>4. ASSUME NEW q \in Dids PROVE Present(q)' <=> Listed(q, order')
    <3>1. ASSUME NEW j \in DOMAIN order', order'[j] = q PROVE Present(q)'
      <4>1. CASE j < i
        BY <1>0, <2>1, <2>2, <2>3, <3>1, <4>1 DEF OrderOK, Listed
      <4>2. CASE ~(j < i)
        <5>1. j + 1 \in DOMAIN order /\ j + 1 # i /\ order[j + 1] = q
          BY <1>0, <2>3, <3>1, <4>2
        <5>. QED BY <1>0, <2>1, <2>2, <5>1 DEF OrderOK, Listed
      <4>. QED BY <4>1, <4>2
    <3>2. ASSUME Present(q)' PROVE \E j \in DOMAIN order' : order'[j] = q
      <4>1. PICK k \in DOMAIN order : order[k] = q
        BY <1>0, <2>1, <3>2 DEF OrderOK, Listed
      <4>2. k # i
        BY <2>1, <2>2, <3>2, <4>1
      <4>3. CASE k < i
        BY <1>0, <2>3, <4>1, <4>3
      <4>4. CASE k > i
        <5>1. k - 1 \in DOMAIN order' /\ ~(k - 1 < i) /\ (k - 1) + 1 = k
          BY <1>0, <2>3, <4>1, <4>4
        <5>. QED BY <2>3, <4>1, <5>1
      <4>. QED BY <1>0, <4>1, <4>2, <4>3, <4>4
    <3>. QED BY <3>1, <3>2 DEF Listed
  <2>5. ASSUME NEW j \in DOMAIN order', NEW k \in DOMAIN order', order'[j] = order'[k]
        PROVE  j = k
    <3>. DEFINE Old(n) == IF n < i THEN n ELSE n + 1
    <3>1. /\ Old(j) \in DOMAIN order /\ Old(k) \in DOMAIN order
          /\ order[Old(j)] = order'[j] /\ order[Old(k)] = order'[k]
      BY <1>0, <2>3
    <3>2. Old(j) = Old(k)
      BY <1>0, <2>5, <3>1 DEF OrderOK
    <3>. QED BY <1>0, <2>3, <3>2
  <2>. QED BY <2>4, <2>5 DEF OrderOK
<1>5. CASE RoundBegins \/ Start \/ Stop \/ Tick \/ (\E p \in Dids : HealthChanges(p))
  BY <1>1, <1>5 DEF RoundBegins, Start, Stop, Tick, HealthChanges
<1>6. CASE UNCHANGED vars
  BY <1>1, <1>6 DEF vars
<1>. QED BY <1>2, <1>3, <1>4, <1>5, <1>6 DEF Next

\* A check goes on only with a record that is registered, and a round gets no
\* longer.
LEMMA AdvanceTask ==
  ASSUME TypeOK, NEW s \in Seq(Dids), Len(s) <= N, Advance(s),
         \A p \in Dids : Present(p)' <=> Present(p)
  PROVE  TaskOK'
<1>1. CASE task' = Sleeping
  BY <1>1, TaskTypes, TimeAssumption DEF TaskOK
<1>2. ASSUME NEW i \in DOMAIN s, task' = Checking(s, i), Present(s[i])
      PROVE  TaskOK'
  <2>1. s[i] \in Dids /\ i \in 1..Len(s) /\ Len(s) \in Nat
    OBVIOUS
  <2>2. /\ task'.at = "checking" /\ task'.waited = 0 /\ task'.peer = s[i]
        /\ Len(task'.todo) = Len(s) - i
    BY <1>2, CheckingType
  <2>3. Len(task'.todo) + 1 <= N
    BY <2>1, <2>2, Spans
  <2>. QED BY <1>2, <2>1, <2>2, <2>3, TimeAssumption DEF TaskOK
<1>. QED BY <1>1, <1>2, Advances

LEMMA StepTask == IInv /\ [Next]_vars => TaskOK'
<1>. SUFFICES ASSUME IInv, [Next]_vars PROVE TaskOK'
  OBVIOUS
<1>0. TypeOK /\ TaskOK /\ OrderOK
  BY DEF IInv
<1>1. CASE RoundBegins
  <2>1. order \in Seq(Dids) /\ Len(order) <= N /\ Advance(order)
    BY <1>0, <1>1, NoRepetition DEF RoundBegins, TypeOK, OrderOK
  <2>. QED BY <1>0, <1>1, <2>1, AdvanceTask DEF RoundBegins, Present
<1>2. CASE CheckEnds
  <2>1. Len(task.todo) <= N
    BY <1>0, <1>2, ChecksKeepPeers, Spans DEF TaskOK
  <2>. QED BY <1>0, <1>2, <2>1, ChecksKeepPeers, AdvanceTask
<1>3. CASE Start
  BY <1>3, TaskTypes DEF Start, TaskOK
<1>4. CASE Stop
  BY <1>4 DEF Stop, TaskOK
<1>5. CASE Tick
  <2>1. /\ task \in Task /\ task' = [task EXCEPT !.waited = @ + 1]
        /\ UNCHANGED peers
    BY <1>0, <1>5 DEF Tick, TypeOK
  <2>2. /\ task'.at = task.at /\ task'.todo = task.todo /\ task'.peer = task.peer
        /\ task'.attached = task.attached /\ task'.waited = task.waited + 1
        /\ task.waited \in Nat
    BY <2>1 DEF Task
  <2>. QED BY <1>0, <1>5, <2>1, <2>2, TimeAssumption DEF Tick, TaskOK, Present
<1>6. ASSUME NEW p \in Dids, Detach(p), \A q \in Dids \ {p} : Present(q)' <=> Present(q)
      PROVE  TaskOK'
  <2>1. CASE task # None /\ task.peer = p
    <3>1. /\ task'.at = task.at /\ task'.todo = task.todo /\ task'.peer = task.peer
          /\ ~task'.attached /\ task'.waited = task.waited
      BY <1>0, <1>6, <2>1 DEF Detach, TypeOK, Task
    <3>. QED BY <1>0, <2>1, <3>1 DEF TaskOK
  <2>2. CASE ~(task # None /\ task.peer = p)
    <3>1. task' = task
      BY <1>6, <2>2 DEF Detach
    <3>2. task # None /\ task.attached => task.peer \in Dids \ {p}
      BY <1>0, <2>2 DEF TaskOK, TypeOK, Task
    <3>. QED BY <1>0, <1>6, <3>1, <3>2 DEF TaskOK
  <2>. QED BY <2>1, <2>2
<1>7. ASSUME NEW p \in Dids, AddPeer(p) \/ RemovePeer(p) PROVE TaskOK'
  <2>1. \A q \in Dids \ {p} : Present(q)' <=> Present(q)
    BY <1>0, <1>7 DEF AddPeer, RemovePeer, Present, TypeOK
  <2>. QED BY <1>6, <1>7, <2>1 DEF AddPeer, RemovePeer
<1>8. CASE (\E p \in Dids : HealthChanges(p)) \/ UNCHANGED vars
  BY <1>0, <1>8 DEF HealthChanges, vars, TaskOK, Present
<1>. QED BY <1>1, <1>2, <1>3, <1>4, <1>5, <1>7, <1>8 DEF Next

LEMMA StepFailures == IInv /\ [Next]_vars => FailuresCounted'
<1>. SUFFICES ASSUME IInv, [Next]_vars PROVE FailuresCounted'
  OBVIOUS
<1>0. TypeOK /\ FailuresCounted
  BY DEF IInv
<1>1. CASE UNCHANGED <<peers, misses>>
  BY <1>0, <1>1 DEF FailuresCounted, Present
<1>2. CASE CheckEnds
  <2>1. ASSUME NEW p \in Dids, Judges(p) PROVE FailuresCounted'
    <3>1. Judged(peers[p], health[p]).failures
            = AtMost(Counted(misses[p], health[p]), DecayTrigger)
      BY <2>1, Judgement DEF Judges
    <3>. QED BY <1>0, <2>1, <3>1 DEF Judges, FailuresCounted, Present, TypeOK
  <2>. QED BY <1>1, <1>2, <2>1, CheckJudges
<1>3. ASSUME NEW p \in Dids, AddPeer(p) PROVE FailuresCounted'
  BY <1>0, <1>3, RhoAssumption DEF AddPeer, FailuresCounted, Present, TypeOK, NewPeer, AtMost
<1>4. ASSUME NEW p \in Dids, RemovePeer(p) PROVE FailuresCounted'
  BY <1>0, <1>4 DEF RemovePeer, FailuresCounted, Present, TypeOK
<1>5. CASE RoundBegins \/ Start \/ Stop \/ Tick \/ (\E p \in Dids : HealthChanges(p))
  BY <1>1, <1>5 DEF RoundBegins, Start, Stop, Tick, HealthChanges
<1>6. CASE UNCHANGED vars
  BY <1>1, <1>6 DEF vars
<1>. QED BY <1>2, <1>3, <1>4, <1>5, <1>6 DEF Next

\* A record whose trust r fell with m misses in a row.
Faded(m, r) == m >= DecayTrigger => FadedBy(m + 1 - DecayTrigger, r)

\* One more product keeps the bound: the error so far is multiplied by the rate
\* n/d, and half a spacing is added.
LEMMA ErrorAdds ==
  ASSUME NEW n \in Nat, NEW c \in Nat, NEW d \in Nat, d = n + c,
         NEW S \in Nat, NEW U \in Nat, NEW x \in Nat, NEW y \in Nat,
         NEW r \in Nat, NEW q \in Nat,
         2 * (q * d - r * n) <= S * d,
         2 * c * (r * x - U * y) <= S * d * (x - y)
  PROVE  2 * c * (q * (d * x) - U * (n * y)) <= S * d * (d * x - n * y)
<1>. DEFINE A == 2 * c * (r * x - U * y)
            B == S * d * (x - y)
            C == 2 * (q * d - r * n)
            D == S * d
            e == c * x
<1>1. A \in Int /\ B \in Int /\ C \in Int /\ D \in Int /\ e \in Nat
  BY SMT
<1>2. 2 * c * (q * (d * x) - U * (n * y)) = e * C + n * A
  BY SMT
<1>3. S * d * (d * x - n * y) = e * D + n * B
  BY SMT
<1>4. A <= B /\ C <= D
  OBVIOUS
<1>. HIDE DEF A, B, C, D, e
<1>5. n * A <= n * B /\ e * C <= e * D
  BY <1>1, <1>4, SMT
<1>. QED BY <1>1, <1>2, <1>3, <1>5, SMT

\* The first failure from the trigger on starts from full trust at most.
LEMMA ErrorStarts ==
  ASSUME NEW n \in Nat, NEW c \in Nat, NEW d \in Nat, d = n + c,
         NEW S \in Nat, NEW U \in Nat, NEW r \in 0..U, NEW q \in Nat,
         2 * (q * d - r * n) <= S * d
  PROVE  2 * c * (q * d - U * n) <= S * d * (d - n)
<1>1. r * n <= U * n /\ r * n \in Nat /\ U * n \in Nat /\ q * d \in Nat /\ S * d \in Nat
  BY SMT
<1>. DEFINE A == 2 * (q * d - U * n)
            B == S * d
<1>2. A \in Int /\ B \in Int /\ A <= B
  BY <1>1
<1>3. 2 * c * (q * d - U * n) = c * A /\ S * d * (d - n) = c * B
  BY SMT
<1>. HIDE DEF A, B
<1>4. c * A <= c * B
  BY <1>2, SMT
<1>. QED BY <1>3, <1>4

\* Every failure in a row from the trigger on multiplies once more.
LEMMA Fading ==
  ASSUME NEW m \in 0..MissBound, NEW r \in Rho, Faded(m, r),
         NEW n \in 0..MissBound, n = AtMost(m + 1, MissBound), n >= DecayTrigger
  PROVE  Faded(n, Decayed(r))
<1>. DEFINE num == DecayRate.num
            den == DecayRate.den
            c == den - num
            k == n + 1 - DecayTrigger
            q == Decayed(r)
<1>1. /\ DecayTrigger \in Nat \ {0} /\ MissBound \in Nat /\ MissBound >= DecayTrigger
      /\ Unit \in Nat /\ QuarantineFloor \in 0..Unit /\ r \in Nat /\ r \in 0..Unit
      /\ num \in Nat /\ den \in Nat /\ c \in Nat /\ den = num + c /\ Spacing \in Nat
      /\ q \in Nat /\ q <= r /\ QuarantineFloor <= q
      /\ k \in 1..MissBound
  <2>1. Spacing \in Nat
    BY ProductAssumption
  <2>2. q \in Rho /\ q <= r
    BY DecayBounds
  <2>. HIDE DEF q
  <2>. QED BY <2>1, <2>2, RhoAssumption DEF Rho
<1>2. q = QuarantineFloor \/ 2 * (q * den - r * num) <= Spacing * den
  BY DecayMultiplies
<1>3. /\ num^1 = num /\ den^1 = den
      /\ \A i \in 1..MissBound : /\ num^i \in Nat /\ num^(i + 1) = num * num^i
                                 /\ den^i \in Nat /\ den^(i + 1) = den * den^i
  BY PowerAssumption
<1>. SUFFICES ASSUME q # QuarantineFloor
              PROVE  2 * c * (q * den^k - Unit * num^k) <= Spacing * den * (den^k - num^k)
  BY DEF Faded, FadedBy
<1>. HIDE DEF num, den, c, k, q
<1>4. CASE m < DecayTrigger
  <2>1. k = 1
    BY <1>1, <1>4 DEF AtMost, k
  <2>2. 2 * c * (q * den - Unit * num) <= Spacing * den * (den - num)
    BY <1>1, <1>2, ErrorStarts
  <2>. QED BY <1>3, <2>1, <2>2
<1>5. CASE m >= DecayTrigger /\ n = m
  <2>. DEFINE x == den^k
              y == num^k
  <2>1. 2 * c * (r * x - Unit * y) <= Spacing * den * (x - y)
    BY <1>1, <1>5 DEF Faded, FadedBy, k, num, den, c
  <2>2. x \in Nat /\ y \in Nat
    BY <1>1, <1>3
  <2>. HIDE DEF x, y
  <2>3. q * x <= r * x /\ q * x \in Nat /\ r * x \in Nat /\ Unit * y \in Nat
    BY <1>1, <2>2, SMT
  <2>. DEFINE a == q * x - Unit * y
              b == r * x - Unit * y
  <2>4. a \in Int /\ b \in Int /\ a <= b
    BY <2>3
  <2>5. 2 * c * b <= Spacing * den * (x - y) /\ Spacing * den * (x - y) \in Int
    BY <1>1, <2>1, <2>2
  <2>6. SUFFICES 2 * c * a <= Spacing * den * (x - y)
    BY DEF x, y
  <2>. HIDE DEF a, b
  <2>7. 2 * c * a <= 2 * c * b /\ 2 * c * a \in Int /\ 2 * c * b \in Int
    BY <1>1, <2>4, SMT
  <2>. DEFINE z == Spacing * den * (x - y)
  <2>8. z \in Int /\ 2 * c * b <= z
    BY <2>5
  <2>. HIDE DEF z
  <2>9. 2 * c * a <= z
    BY <2>7, <2>8
  <2>. QED BY <2>9 DEF z
<1>6. CASE m >= DecayTrigger /\ n = m + 1
  <2>. DEFINE j == m + 1 - DecayTrigger
              x == den^j
              y == num^j
  <2>1. j \in 1..MissBound /\ k = j + 1
    BY <1>1, <1>6 DEF k
  <2>2. r # QuarantineFloor
    BY <1>1
  <2>3. x \in Nat /\ y \in Nat /\ den^k = den * x /\ num^k = num * y
    BY <1>3, <2>1
  <2>4. 2 * c * (r * x - Unit * y) <= Spacing * den * (x - y)
    BY <1>6, <2>2 DEF Faded, FadedBy, num, den, c
  <2>. HIDE DEF j, x, y
  <2>5. 2 * c * (q * (den * x) - Unit * (num * y))
          <= Spacing * den * (den * x - num * y)
    BY <1>1, <1>2, <2>3, <2>4, ErrorAdds
  <2>. QED BY <2>3, <2>5
<1>7. n = m \/ n = m + 1
  BY <1>1 DEF AtMost
<1>. QED BY <1>1, <1>4, <1>5, <1>6, <1>7

LEMMA StepFades == IInv /\ [Next]_vars => DecayIsExponential'
<1>. SUFFICES ASSUME IInv, [Next]_vars, NEW p \in Dids, Present(p)'
              PROVE  Faded(misses[p], peers[p].rho)'
  BY DEF DecayIsExponential, Faded
<1>0. /\ TypeOK /\ DecayTrigger \in Nat \ {0} /\ QuarantineFloor \in 0..Unit /\ Unit \in Nat
      /\ MissBound \in Nat /\ MissBound >= DecayTrigger
      /\ Present(p) => Faded(misses[p], peers[p].rho)
  BY RhoAssumption DEF IInv, DecayIsExponential, Faded
<1>1. CASE UNCHANGED <<peers, misses>>
  BY <1>0, <1>1 DEF Present
<1>2. ASSUME NEW q \in Dids, Judges(q) PROVE Faded(misses[p], peers[p].rho)'
  <2>1. CASE q = p
    <3>. DEFINE m == misses[p]
                r == peers[p]
                h == health[p]
    <3>1. /\ m \in 0..MissBound /\ r \in Peer /\ h \in Healths /\ r.rho \in Rho
          /\ r.failures = AtMost(m, DecayTrigger) /\ Faded(m, r.rho)
      BY <1>0, <1>2, <2>1 DEF Judges, Peer
    <3>2. peers'[p].rho = Judged(r, h).rho /\ misses'[p] = Counted(m, h)
      BY <1>0, <1>2, <2>1 DEF Judges, TypeOK
    <3>. HIDE DEF m, r, h
    <3>3. /\ Counted(m, h) \in 0..MissBound
          /\ \/ Judged(r, h).rho = r.rho /\ (Counted(m, h) = m \/ Counted(m, h) < DecayTrigger)
             \/ /\ h = "down" /\ Counted(m, h) = AtMost(m + 1, MissBound)
                /\ Counted(m, h) >= DecayTrigger /\ Judged(r, h).rho = Decayed(r.rho)
             \/ /\ h = "well" /\ Counted(m, h) = 0
      BY <3>1, Judgement
    <3>4. CASE Counted(m, h) < DecayTrigger
      BY <1>0, <3>2, <3>3, <3>4 DEF Faded
    <3>5. CASE Judged(r, h).rho = r.rho /\ Counted(m, h) = m
      BY <3>1, <3>2, <3>5
    <3>6. CASE /\ Counted(m, h) = AtMost(m + 1, MissBound)
               /\ Counted(m, h) >= DecayTrigger /\ Judged(r, h).rho = Decayed(r.rho)
      <4>1. Faded(Counted(m, h), Decayed(r.rho))
        BY <3>1, <3>3, <3>6, Fading
      <4>. QED BY <3>2, <3>6, <4>1
    <3>. QED BY <1>0, <3>3, <3>4, <3>5, <3>6
  <2>2. CASE q # p
    BY <1>0, <1>2, <2>2 DEF Judges, TypeOK, Present
  <2>. QED BY <2>1, <2>2
<1>3. ASSUME NEW q \in Dids, AddPeer(q) PROVE Faded(misses[p], peers[p].rho)'
  <2>1. CASE q = p
    <3>1. misses'[p] = 0
      BY <1>0, <1>3, <2>1 DEF AddPeer, TypeOK
    <3>. QED BY <1>0, <3>1 DEF Faded
  <2>2. CASE q # p
    BY <1>0, <1>3, <2>2 DEF AddPeer, TypeOK, Present
  <2>. QED BY <2>1, <2>2
<1>4. ASSUME NEW q \in Dids, RemovePeer(q) PROVE Faded(misses[p], peers[p].rho)'
  BY <1>0, <1>4 DEF RemovePeer, TypeOK, Present
<1>5. CASE RoundBegins \/ Start \/ Stop \/ Tick \/ (\E q \in Dids : HealthChanges(q))
  BY <1>1, <1>5 DEF RoundBegins, Start, Stop, Tick, HealthChanges
<1>6. CASE UNCHANGED vars
  BY <1>1, <1>6 DEF vars
<1>7. CASE CheckEnds
  BY <1>1, <1>2, <1>7, CheckJudges
<1>. QED BY <1>3, <1>4, <1>5, <1>6, <1>7 DEF Next

\* From an await to the next: whoever is passed over is gone, whoever is checked
\* starts from zero, and the others have one check less to wait for.
LEMMA AdvanceWaits ==
  ASSUME TypeOK, NEW s \in Seq(Dids), Len(s) <= N, Advance(s),
         \A p \in Dids : Present(p)' <=> Present(p),
         \A p \in Dids :
           /\ ~Present(p) => age[p] = 0
           /\ age[p] <= Lead(p, s) + Span(N - Len(s))
  PROVE  WaitsBounded'
<1>1. /\ CheckInterval \in Nat /\ N \in Nat /\ Len(s) \in Nat
      /\ DOMAIN s = 1..Len(s) /\ N - Len(s) \in Nat /\ Span(N) \in Nat
      /\ Span(N - Len(s)) \in Nat /\ Span(N - Len(s)) <= Span(N)
  <2>1. /\ CheckInterval \in Nat /\ N \in Nat /\ Len(s) \in Nat
        /\ DOMAIN s = 1..Len(s)
    BY Spans, TimeAssumption
  <2>2. N - Len(s) \in Nat /\ N - Len(s) <= N
    BY <2>1
  <2>. QED BY <2>1, <2>2, Spans
<1>2. CASE /\ task' = Sleeping /\ age' = age
           /\ \A p \in Dids : Listed(p, s) => ~Present(p)
  <2>1. ASSUME NEW p \in Dids PROVE age'[p] \in Nat /\ age'[p] <= Span(N)
    <3>1. CASE Listed(p, s)
      BY <1>1, <1>2, <2>1, <3>1, Leads
    <3>2. CASE ~Listed(p, s)
      BY <1>1, <1>2, <2>1, <3>2, Leads DEF TypeOK
    <3>. QED BY <3>1, <3>2
  <2>2. task'.at = "sleeping" /\ task'.waited = 0
    BY <1>2, TaskTypes
  <2>. QED BY <1>1, <1>2, <2>1, <2>2 DEF WaitsBounded, Waits
<1>3. ASSUME NEW i \in DOMAIN s,
             task' = Checking(s, i), age' = [age EXCEPT ![s[i]] = 0], Present(s[i]),
             \A j \in DOMAIN s : j < i => ~Present(s[j])
      PROVE  WaitsBounded'
  <2>. DEFINE todo == task'.todo
              k == N - 1 - Len(todo)
  <2>1. /\ task'.at = "checking" /\ task'.waited = 0 /\ Len(todo) = Len(s) - i
        /\ DOMAIN todo = 1..(Len(s) - i)
        /\ \A j \in 1..(Len(s) - i) : todo[j] = s[i + j]
    BY <1>3, CheckingType
  <2>2. k \in Nat /\ Span(k) \in Nat /\ Span(N - Len(s)) <= Span(k)
    <3>1. k \in Nat /\ N - Len(s) <= k
      BY <1>1, <2>1
    <3>. QED BY <1>1, <3>1, Spans
  <2>. HIDE DEF todo, k
  <2>3. SUFFICES ASSUME NEW p \in Dids
                 PROVE  /\ ~Present(p) => age'[p] = 0
                        /\ age'[p] <= Lead(p, todo) + Span(k)
    <3>1. ASSUME NEW p \in Dids PROVE Waits(p)'
      <4>1. /\ ~Present(p)' => age'[p] = 0
            /\ age'[p] <= Lead(p, task'.todo) + Span(N - 1 - Len(task'.todo))
        BY <2>3 DEF todo, k
      <4>2. Lead(p, task'.todo) \in Nat /\ Span(N - 1 - Len(task'.todo)) \in Nat
        BY <2>2, Leads DEF k, todo
      <4>3. Lead(p, task'.todo) + Span(N - 1 - Len(task'.todo)) + 0
            = Lead(p, task'.todo) + Span(N - 1 - Len(task'.todo))
        BY <4>2
      <4>. QED BY <2>1, <4>1, <4>3 DEF Waits
    <3>. QED BY <3>1 DEF WaitsBounded
  <2>. DEFINE lead == Lead(p, todo)
  <2>6. lead \in Nat /\ (Listed(p, s) /\ Listed(p, todo) => lead = Lead(p, s))
    BY Leads
  <2>7. age[p] \in Nat /\ age[p] <= Lead(p, s) + Span(N - Len(s))
    BY DEF TypeOK
  <2>8. Lead(p, s) \in Nat /\ (~Listed(p, s) => Lead(p, s) = 0)
    BY Leads
  <2>. HIDE DEF lead
  <2>9. SUFFICES (~Present(p) => age'[p] = 0) /\ age'[p] <= lead + Span(k)
    BY DEF lead
  <2>4. CASE p = s[i]
    <3>1. age'[p] = 0
      BY <1>3, <2>4 DEF TypeOK
    <3>. QED BY <2>2, <2>6, <3>1
  <2>5. CASE p # s[i]
    <3>1. age'[p] = age[p] /\ age[p] \in Nat
      BY <1>3, <2>5 DEF TypeOK
    <3>2. CASE ~Present(p)
      BY <2>2, <2>6, <3>1, <3>2
    <3>3. CASE Present(p)
      <4>1. ASSUME NEW j \in DOMAIN s, s[j] = p PROVE Listed(p, todo)
        <5>1. j > i
          BY <1>1, <1>3, <2>5, <3>3, <4>1
        <5>2. j - i \in 1..(Len(s) - i) /\ i + (j - i) = j
          BY <1>1, <5>1
        <5>. QED BY <2>1, <4>1, <5>2 DEF Listed
      <4>2. Listed(p, s) => Listed(p, todo)
        BY <4>1 DEF Listed
      <4>3. Lead(p, s) <= lead
        BY <2>6, <2>8, <4>2
      <4>. QED BY <1>1, <2>2, <2>6, <2>7, <2>8, <3>1, <3>3, <4>3
    <3>. QED BY <3>2, <3>3
  <2>. QED BY <2>4, <2>5
<1>. QED BY <1>2, <1>3, Advances

LEMMA StepWaits == IInv /\ [Next]_vars => WaitsBounded'
<1>. SUFFICES ASSUME IInv, [Next]_vars PROVE WaitsBounded'
  OBVIOUS
<1>0. /\ TypeOK /\ TaskOK /\ OrderOK /\ WaitsBounded
      /\ CheckInterval \in Nat /\ N \in Nat /\ Span(N) \in Nat
  BY Spans, TimeAssumption DEF IInv
<1>1. CASE RoundBegins
  <2>1. /\ order \in Seq(Dids) /\ Len(order) <= N /\ Len(order) \in Nat /\ Advance(order)
        /\ task # None /\ task \in Task
    BY <1>0, <1>1, NoRepetition DEF RoundBegins, TypeOK, OrderOK
  <2>2. Span(N - Len(order)) \in Nat
    <3>1. N - Len(order) \in Nat
      BY <1>0, <2>1
    <3>. QED BY <3>1, Spans
  <2>3. ASSUME NEW p \in Dids
        PROVE  /\ ~Present(p) => age[p] = 0
               /\ age[p] <= Lead(p, order) + Span(N - Len(order))
    <3>1. age[p] \in Nat /\ (~Present(p) => age[p] = 0)
      BY <1>0 DEF TypeOK, WaitsBounded, Waits
    <3>2. age[p] <= Span(N) + CheckInterval
      BY <1>0, <1>1, <2>1 DEF RoundBegins, WaitsBounded, Waits, Task
    <3>3. Present(p) => Listed(p, order)
      BY <1>0 DEF OrderOK
    <3>. QED BY <1>0, <2>2, <3>1, <3>2, <3>3, Leads
  <2>4. \A p \in Dids : Present(p)' <=> Present(p)
    BY <1>1 DEF RoundBegins, Present
  <2>. QED BY <1>0, <2>1, <2>3, <2>4, AdvanceWaits
<1>2. CASE CheckEnds
  <2>1. /\ task # None /\ task \in Task /\ task.at = "checking" /\ task.todo \in Seq(Dids)
        /\ Advance(task.todo) /\ \A p \in Dids : Present(p)' <=> Present(p)
    BY <1>0, <1>2, ChecksKeepPeers DEF TypeOK
  <2>2. /\ Len(task.todo) \in Nat /\ Len(task.todo) + 1 <= N
        /\ task.waited \in Nat /\ task.waited <= CheckTimeout
    BY <1>0, <2>1 DEF TaskOK, Task
  <2>3. /\ Span(N - 1 - Len(task.todo)) \in Nat /\ Span(N - Len(task.todo)) \in Nat
        /\ Span(N - Len(task.todo)) = Span(N - 1 - Len(task.todo)) + CheckTimeout
    <3>1. /\ N - 1 - Len(task.todo) \in Nat /\ N - Len(task.todo) \in Nat
          /\ (N - 1 - Len(task.todo)) + 1 = N - Len(task.todo)
      BY <1>0, <2>2
    <3>. QED BY <3>1, Spans
  <2>4. ASSUME NEW p \in Dids
        PROVE  /\ ~Present(p) => age[p] = 0
               /\ age[p] <= Lead(p, task.todo) + Span(N - Len(task.todo))
    <3>1. /\ age[p] \in Nat /\ (~Present(p) => age[p] = 0)
          /\ age[p] <= Lead(p, task.todo) + Span(N - 1 - Len(task.todo)) + task.waited
      BY <1>0, <2>1 DEF TypeOK, WaitsBounded, Waits
    <3>2. Lead(p, task.todo) \in Nat
      BY Leads
    <3>. QED BY <2>2, <2>3, <3>1, <3>2, TimeAssumption
  <2>5. Len(task.todo) <= N
    BY <1>0, <2>2
  <2>. QED BY <1>0, <2>1, <2>4, <2>5, AdvanceWaits
<1>3. CASE Start
  BY <1>3, TaskTypes DEF Start, WaitsBounded, Waits
<1>4. CASE Stop
  BY <1>0, <1>4 DEF Stop, WaitsBounded, Waits, Present
<1>5. CASE Tick
  <2>1. /\ task \in Task /\ task # None /\ task' = [task EXCEPT !.waited = @ + 1]
        /\ task.at = "sleeping" \/ task.at = "checking"
        /\ UNCHANGED peers
        /\ age' = [p \in Dids |-> IF Present(p) THEN age[p] + 1 ELSE age[p]]
    BY <1>0, <1>5 DEF Tick, TypeOK
  <2>2. /\ task'.at = task.at /\ task'.todo = task.todo
        /\ task'.waited = task.waited + 1 /\ task.waited \in Nat
    BY <2>1 DEF Task
  <2>3. ASSUME NEW p \in Dids PROVE Waits(p)'
    <3>1. /\ age[p] \in Nat /\ Waits(p) /\ (Present(p)' <=> Present(p))
          /\ age'[p] = IF Present(p) THEN age[p] + 1 ELSE age[p]
      BY <1>0, <2>1 DEF TypeOK, WaitsBounded, Present
    <3>2. CASE task.at = "sleeping"
      BY <1>0, <2>1, <2>2, <3>1, <3>2 DEF Waits
    <3>3. CASE task.at = "checking"
      <4>1. Span(N - 1 - Len(task.todo)) \in Nat
        <5>1. N - 1 - Len(task.todo) \in Nat
          BY <1>0, <2>1, <3>3 DEF TaskOK, Task
        <5>. QED BY <5>1, Spans
      <4>2. Lead(p, task.todo) \in Nat
        BY Leads
      <4>3. /\ ~Present(p) => age[p] = 0
            /\ age[p] <= Lead(p, task.todo) + Span(N - 1 - Len(task.todo)) + task.waited
        BY <2>1, <3>1, <3>3 DEF Waits
      <4>4. /\ ~Present(p)' => age'[p] = 0
            /\ age'[p] <= Lead(p, task.todo) + Span(N - 1 - Len(task.todo))
                          + (task.waited + 1)
        BY <2>2, <3>1, <4>1, <4>2, <4>3
      <4>. QED BY <2>2, <3>3, <4>4 DEF Waits
    <3>. QED BY <2>1, <3>2, <3>3
  <2>. QED BY <2>3 DEF WaitsBounded
<1>6. ASSUME NEW p \in Dids, AddPeer(p) \/ RemovePeer(p), NEW q \in Dids PROVE Waits(q)'
  <2>1. task' = None <=> task = None
    <3>1. CASE task = None
      BY <1>6, <3>1 DEF AddPeer, RemovePeer, Detach
    <3>2. CASE task # None
      <4>1. task \in Task /\ [task EXCEPT !.attached = FALSE] \in Task
        BY <1>0, <3>2 DEF TypeOK, Task
      <4>2. task' = task \/ task' = [task EXCEPT !.attached = FALSE]
        BY <1>6 DEF AddPeer, RemovePeer, Detach
      <4>. QED BY <3>2, <4>1, <4>2, NoneAssumption
    <3>. QED BY <3>1, <3>2
  <2>2. task # None => /\ task'.at = task.at /\ task'.todo = task.todo
                       /\ task'.waited = task.waited
    BY <1>0, <1>6 DEF AddPeer, RemovePeer, Detach, TypeOK, Task
  <2>3. CASE q = p
    <3>1. age'[p] = 0
      BY <1>0, <1>6 DEF AddPeer, RemovePeer, TypeOK
    <3>2. task # None => task.waited \in Nat
      BY <1>0 DEF TypeOK, Task
    <3>3. task # None /\ task.at = "checking" => Span(N - 1 - Len(task.todo)) \in Nat
      <4>1. task # None /\ task.at = "checking" => N - 1 - Len(task.todo) \in Nat
        BY <1>0 DEF TaskOK, TypeOK, Task
      <4>. QED BY <4>1, Spans
    <3>4. ~Present(q)' => age'[q] = 0
      BY <2>3, <3>1
    <3>5. CASE task = None
      BY <2>1, <3>4, <3>5 DEF Waits
    <3>6. CASE task # None
      <4>1. Lead(q, task.todo) \in Nat
        BY Leads
      <4>2. /\ age'[q] <= Span(N) + task.waited
            /\ task.at = "checking" =>
                 age'[q] <= Lead(q, task.todo) + Span(N - 1 - Len(task.todo)) + task.waited
        <5>1. age'[q] = 0 /\ task.waited \in Nat /\ Span(N) \in Nat
          BY <1>0, <2>3, <3>1, <3>2, <3>6
        <5>2. age'[q] <= Span(N) + task.waited
          BY <5>1
        <5>3. ASSUME task.at = "checking"
              PROVE  age'[q] <= Lead(q, task.todo) + Span(N - 1 - Len(task.todo))
                               + task.waited
          <6>1. Span(N - 1 - Len(task.todo)) \in Nat
            BY <3>3, <3>6, <5>3
          <6>. QED BY <4>1, <5>1, <6>1
        <5>. QED BY <5>2, <5>3
      <4>. QED BY <2>2, <2>3, <3>1, <3>4, <3>6, <4>2 DEF Waits
    <3>. QED BY <3>5, <3>6
  <2>4. CASE q # p
    <3>1. age'[q] = age[q] /\ (Present(q)' <=> Present(q))
      BY <1>0, <1>6, <2>4 DEF AddPeer, RemovePeer, TypeOK, Present
    <3>2. Waits(q)
      BY <1>0 DEF WaitsBounded
    <3>. QED BY <2>1, <2>2, <3>1, <3>2 DEF Waits
  <2>. QED BY <2>3, <2>4
<1>7. CASE (\E p \in Dids : HealthChanges(p)) \/ UNCHANGED vars
  BY <1>0, <1>7 DEF HealthChanges, vars, WaitsBounded, Waits, Present
<1>. QED BY <1>1, <1>2, <1>3, <1>4, <1>5, <1>6, <1>7 DEF Next, WaitsBounded

----------------------------------------------------------------------------
(* The theorems *)

\* The types, the order of the peers, what the task holds on to, the failures
\* counted and every peer's wait: none is broken by any step.
THEOREM Invariance == Spec => []IInv
<1>1. Init => IInv
  <2>. SUFFICES ASSUME Init PROVE IInv
    OBVIOUS
  <2>1. TypeOK
    <3>1. /\ peers \in [Dids -> Peer \union {None}] /\ order \in Seq(Dids)
          /\ running \in BOOLEAN /\ task \in Task \union {None}
      <4>1. peers = [p \in Dids |-> None] /\ order = <<>> /\ running = FALSE /\ task = None
        BY DEF Init
      <4>2. <<>> \in Seq(Dids)
        OBVIOUS
      <4>. QED BY <4>1, <4>2
    <3>2. age \in [Dids -> Nat] /\ misses \in [Dids -> 0..MissBound]
      BY RhoAssumption DEF Init
    <3>. QED BY <3>1, <3>2 DEF Init, TypeOK
  <2>2. \A p \in Dids : ~Present(p)
    BY DEF Init, Present
  <2>3. OrderOK
    BY <2>2 DEF Init, OrderOK, Listed
  <2>. QED BY <2>1, <2>2, <2>3
       DEF Init, IInv, TaskOK, FailuresCounted, WaitsBounded, Waits, DecayIsExponential
<1>2. IInv /\ [Next]_vars => IInv'
  BY StepTypes, StepOrder, StepTask, StepFailures, StepWaits, StepFades DEF IInv
<1>. QED BY <1>1, <1>2, PTL DEF Spec

\* Every modifier stays between the quarantine floor and full trust.
THEOREM TypeCorrect == Spec => []TypeOK
<1>1. IInv => TypeOK
  BY DEF IInv
<1>. QED BY <1>1, Invariance, PTL

\* Trust is lost at the end of the peer's own check only, after as many failures in
\* a row as the trigger asks, and gained by its answers or a new record only.
THEOREM EvidenceMovesTrust == Spec => TrustFollowsEvidence
<1>1. ASSUME IInv, [Next]_vars PROVE EvidenceStep
  <2>1. SUFFICES ASSUME NEW p \in Dids, Present(p), Present(p)'
                 PROVE  /\ peers'[p].rho < peers[p].rho =>
                             Checked(p) /\ misses'[p] >= DecayTrigger
                        /\ peers'[p].rho > peers[p].rho => misses'[p] = 0
    BY DEF EvidenceStep
  <2>2. TypeOK /\ peers[p] \in Peer /\ peers[p].rho \in Rho /\ peers[p].rho \in Int
    BY <1>1, <2>1, RhoAssumption DEF IInv, TypeOK, Present, Peer, Rho
  <2>3. CASE peers'[p] = peers[p]
    BY <2>2, <2>3
  <2>4. ASSUME NEW q \in Dids, Judges(q), peers'[p] # peers[p]
        PROVE  /\ peers'[p].rho < peers[p].rho =>
                    Checked(p) /\ misses'[p] >= DecayTrigger
               /\ peers'[p].rho > peers[p].rho => misses'[p] = 0
    <3>1. /\ q = p /\ Checked(p) /\ peers'[p] = Judged(peers[p], health[p])
          /\ misses'[p] = Counted(misses[p], health[p])
      BY <2>2, <2>4 DEF Judges, TypeOK
    <3>2. Decayed(peers[p].rho) <= peers[p].rho /\ Decayed(peers[p].rho) \in Int
      BY <2>2, DecayBounds, RhoAssumption DEF Rho
    <3>3. Recovered(peers[p].rho) >= peers[p].rho /\ Recovered(peers[p].rho) \in Int
      BY <2>2, RhoAssumption DEF Recovered, AtMost, Rho
    <3>. QED BY <2>2, <2>4, <3>1, <3>2, <3>3, Judgement DEF Judges
  <2>5. ASSUME NEW q \in Dids, AddPeer(q), peers'[p] # peers[p]
        PROVE  /\ ~(peers'[p].rho < peers[p].rho)
               /\ peers'[p].rho > peers[p].rho => misses'[p] = 0
    <3>1. misses'[p] = 0 /\ peers'[p].rho = Unit
      BY <2>2, <2>5 DEF AddPeer, TypeOK, NewPeer
    <3>2. peers[p].rho <= Unit
      BY <2>2, RhoAssumption DEF Peer, Rho
    <3>. QED BY <2>2, <3>1, <3>2, RhoAssumption
  <2>6. ASSUME NEW q \in Dids, RemovePeer(q) PROVE peers'[p] = peers[p]
    BY <2>1, <2>2, <2>6 DEF RemovePeer, TypeOK, Present
  <2>7. CASE \/ RoundBegins \/ Start \/ Stop \/ Tick \/ UNCHANGED vars
             \/ \E q \in Dids : HealthChanges(q)
    BY <2>3, <2>7 DEF RoundBegins, Start, Stop, Tick, HealthChanges, vars
  <2>8. CASE CheckEnds
    BY <1>1, <2>3, <2>4, <2>8, CheckJudges
  <2>. QED BY <1>1, <2>3, <2>5, <2>6, <2>7, <2>8 DEF Next
<1>. QED BY <1>1, Invariance, PTL DEF Spec, TrustFollowsEvidence

\* Every failure in a row from the trigger on multiplies trust by the rate, down to
\* the floor, for every rate up to 1, grid, spacing and trigger; the roundings of the
\* products add up to a bound that does not grow with their number.
THEOREM FailuresMultiply == Spec => []DecayIsExponential
<1>1. IInv => DecayIsExponential
  BY DEF IInv
<1>. QED BY <1>1, Invariance, PTL

----------------------------------------------------------------------------
(* The refinement of PeerTrust *)

TrustOf == [p \in Dids |-> IF Present(p) THEN peers[p].rho ELSE None]
FailedOf == [p \in Dids |-> IF Present(p) THEN AtMost(misses[p], DecayTrigger) ELSE 0]

\* A step that changes the record and the misses of one peer at most.
LEMMA Moves ==
  ASSUME NEW p \in Dids,
         \A q \in Dids \ {p} : peers'[q] = peers[q] /\ misses'[q] = misses[q]
  PROVE  /\ TrustOf' = [TrustOf EXCEPT ![p] = TrustOf'[p]]
         /\ FailedOf' = [FailedOf EXCEPT ![p] = FailedOf'[p]]
  BY DEF TrustOf, FailedOf, Present

\* A check that is judged is an answer, a failure, or announced maintenance.
LEMMA JudgesRefine ==
  ASSUME IInv, NEW p \in Dids, Judges(p)
  PROVE  [PT!Next]_<<TrustOf, FailedOf>>
<1>. DEFINE r == peers[p].rho
            m == misses[p]
            h == health[p]
            f == AtMost(m, DecayTrigger)
<1>1. /\ TypeOK /\ DecayTrigger \in Nat \ {0} /\ MissBound \in Nat
      /\ MissBound >= DecayTrigger /\ Unit \in Nat /\ RecoveryIncrement \in Nat
      /\ QuarantineFloor \in 0..Unit
  BY RhoAssumption DEF IInv
<1>2. /\ Present(p) /\ peers[p] \in Peer /\ h \in Healths /\ m \in 0..MissBound
      /\ peers[p].failures = f /\ r \in Rho /\ None \notin Rho
  BY NoneAssumption DEF Judges, Peer
<1>3. /\ peers'[p] = Judged(peers[p], h) /\ misses'[p] = Counted(m, h)
      /\ \A q \in Dids \ {p} : peers'[q] = peers[q] /\ misses'[q] = misses[q]
  BY <1>1 DEF Judges, TypeOK
<1>4. Judged(peers[p], h) \in Peer /\ Counted(m, h) \in 0..MissBound
  BY <1>2, Judgement
<1>5. /\ TrustOf[p] = r /\ FailedOf[p] = f /\ TrustOf[p] # None
      /\ TrustOf'[p] = Judged(peers[p], h).rho
      /\ FailedOf'[p] = AtMost(Counted(m, h), DecayTrigger)
  BY <1>2, <1>3, <1>4, NoneAssumption DEF TrustOf, FailedOf, Present
<1>6. /\ TrustOf' = [TrustOf EXCEPT ![p] = TrustOf'[p]]
      /\ FailedOf' = [FailedOf EXCEPT ![p] = FailedOf'[p]]
  BY <1>3, Moves
<1>. HIDE DEF r, m, h, f
<1>7. CASE h = "well"
  <2>1. /\ Judged(peers[p], h).rho = Recovered(r) /\ Counted(m, h) = 0
        /\ AtMost(0, DecayTrigger) = 0
    <3>1. Judged(peers[p], h) = [failures |-> 0, rho |-> Recovered(peers[p].rho)]
      BY <1>2, <1>7 DEF Judged, Peer
    <3>2. Counted(m, h) = 0 /\ AtMost(0, DecayTrigger) = 0
      BY <1>1, <1>7 DEF Counted, AtMost
    <3>. QED BY <3>1, <3>2 DEF r
  <2>2. Recovered(r) = PT!Least(r + RecoveryIncrement, Unit)
    BY DEF Recovered, AtMost, PT!Least
  <2>3. PT!Answers(p)
    BY <1>5, <1>6, <2>1, <2>2 DEF PT!Answers, PT!Set, TrustOf, FailedOf
  <2>. QED BY <2>3 DEF PT!Next
<1>8. CASE h = "down"
  <2>1. /\ Counted(m, h) = AtMost(m + 1, MissBound)
        /\ Judged(peers[p], h).rho = IF OneMore(f) >= DecayTrigger THEN Decayed(r) ELSE r
    BY <1>2, <1>8 DEF Judged, Counted, Peer, r
  <2>2. /\ f \in 0..DecayTrigger
        /\ AtMost(AtMost(m + 1, MissBound), DecayTrigger) =
             IF f + 1 >= DecayTrigger THEN DecayTrigger ELSE f + 1
        /\ OneMore(f) >= DecayTrigger <=> f + 1 >= DecayTrigger
    BY <1>1, <1>2 DEF AtMost, OneMore, f
  <2>3. Decayed(r) = PT!Greatest(Product[r], QuarantineFloor)
    <3>1. Product[r] \in Int /\ QuarantineFloor \in Int
      BY <1>1, <1>2, ProductAssumption DEF Rho
    <3>. QED BY <3>1 DEF Decayed, AtLeast, PT!Greatest
  <2>4. PT!Fails(p)
    <3>1. CASE f + 1 >= DecayTrigger
      BY <1>5, <1>6, <2>1, <2>2, <2>3, <3>1 DEF PT!Fails, PT!Set, TrustOf, FailedOf
    <3>2. CASE f + 1 < DecayTrigger
      <4>1. ~(f + 1 >= DecayTrigger)
        BY <1>1, <2>2, <3>2
      <4>. QED BY <1>5, <1>6, <2>1, <2>2, <3>2, <4>1
               DEF PT!Fails, PT!Set, TrustOf, FailedOf
    <3>. QED BY <1>1, <2>2, <3>1, <3>2
  <2>. QED BY <2>4 DEF PT!Next
<1>9. CASE h = "maintenance"
  <2>1. Judged(peers[p], h) = peers[p] /\ Counted(m, h) = m
    BY <1>9 DEF Judged, Counted
  <2>2. TrustOf'[p] = TrustOf[p] /\ FailedOf'[p] = FailedOf[p]
    BY <1>5, <2>1 DEF r, f
  <2>3. TrustOf' = TrustOf /\ FailedOf' = FailedOf
    BY <1>6, <2>2 DEF TrustOf, FailedOf
  <2>. QED BY <2>3
<1>. QED BY <1>2, <1>7, <1>8, <1>9, HealthsAssumption

\* Every step of the monitor is a step of PeerTrust for one peer, or none at all.
THEOREM MonitorRefines == Spec => ImplementsPeerTrust
<1>1. Init => PT!Init
  BY DEF Init, PT!Init, Present
<1>2. ASSUME IInv, [Next]_vars PROVE [PT!Next]_<<TrustOf, FailedOf>>
  <2>1. CASE UNCHANGED <<peers, misses>>
    BY <2>1 DEF TrustOf, FailedOf, Present
  <2>2. CASE CheckEnds
    BY <1>2, <2>1, <2>2, CheckJudges, JudgesRefine
  <2>3. ASSUME NEW p \in Dids, AddPeer(p) PROVE PT!Join(p)
    <3>1. /\ peers'[p] = NewPeer /\ misses'[p] = 0 /\ NewPeer # None /\ NewPeer.rho = Unit
          /\ \A q \in Dids \ {p} : peers'[q] = peers[q] /\ misses'[q] = misses[q]
      BY <1>2, <2>3, NoneAssumption, RhoAssumption
      DEF AddPeer, IInv, TypeOK, NewPeer, Peer, Rho
    <3>2. TrustOf'[p] = Unit /\ FailedOf'[p] = 0
      BY <3>1, RhoAssumption DEF TrustOf, FailedOf, Present, AtMost
    <3>. QED BY <3>1, <3>2, Moves DEF PT!Join, PT!Set, TrustOf, FailedOf
  <2>4. ASSUME NEW p \in Dids, RemovePeer(p) PROVE PT!Leave(p)
    <3>1. /\ peers'[p] = None
          /\ \A q \in Dids \ {p} : peers'[q] = peers[q] /\ misses'[q] = misses[q]
      BY <1>2, <2>4 DEF RemovePeer, IInv, TypeOK
    <3>2. TrustOf'[p] = None /\ FailedOf'[p] = 0
      BY <3>1 DEF TrustOf, FailedOf, Present
    <3>. QED BY <3>1, <3>2, Moves DEF PT!Leave, PT!Set, TrustOf, FailedOf
  <2>5. CASE RoundBegins \/ Start \/ Stop \/ Tick \/ (\E p \in Dids : HealthChanges(p))
    BY <2>1, <2>5 DEF RoundBegins, Start, Stop, Tick, HealthChanges
  <2>6. CASE UNCHANGED vars
    BY <2>1, <2>6 DEF vars
  <2>. QED BY <1>2, <2>2, <2>3, <2>4, <2>5, <2>6 DEF Next, PT!Next
<1>3. IInv /\ [Next]_vars => [PT!Next]_PT!vars
  BY <1>2 DEF PT!vars, TrustOf, FailedOf
<1>. QED BY <1>1, <1>3, Invariance, PTL DEF Spec, ImplementsPeerTrust, PT!Spec

\* Nobody waits for more than a sleep and twice the others' checks and its own.
THEOREM NobodyStarves == Spec => []ChecksNotStarved
<1>1. ASSUME IInv PROVE ChecksNotStarved
  <2>1. SUFFICES ASSUME NEW p \in Dids, task # None
                 PROVE  age[p] <= CheckInterval + (2 * N - 1) * CheckTimeout
    BY DEF ChecksNotStarved, N
  <2>2. /\ N \in Nat \ {0} /\ CheckInterval \in Nat /\ CheckTimeout \in Nat
        /\ age[p] \in Nat /\ task \in Task /\ Span(N) \in Nat
    <3>1. N # 0
      BY DidsAssumption, FS_EmptySet DEF N
    <3>. QED BY <1>1, <2>1, <3>1, Spans, TimeAssumption DEF IInv, TypeOK
  <2>3. Span(N - 1) \in Nat /\ Span(N) = Span(N - 1) + CheckTimeout
    <3>1. N - 1 \in Nat /\ (N - 1) + 1 = N
      BY <2>2
    <3>. QED BY <3>1, Spans
  <2>7. (2 * N - 1) * CheckTimeout = Span(N) + Span(N - 1)
    <3>1. (2 * N - 1) * CheckTimeout = N * CheckTimeout + (N - 1) * CheckTimeout
      BY <2>2, SMT
    <3>. QED BY <3>1 DEF Span
  <2>8. SUFFICES age[p] <= CheckInterval + (Span(N) + Span(N - 1))
    BY <2>7
  <2>4. CASE task.at = "created"
    BY <1>1, <2>1, <2>2, <2>3, <2>4 DEF IInv, WaitsBounded, Waits
  <2>5. CASE task.at = "sleeping"
    <3>1. age[p] <= Span(N) + task.waited /\ task.waited <= CheckInterval /\ task.waited \in Nat
      BY <1>1, <2>1, <2>2, <2>5 DEF IInv, WaitsBounded, Waits, TaskOK, Task
    <3>. QED BY <2>2, <2>3, <3>1
  <2>6. CASE task.at = "checking"
    <3>. DEFINE k == N - 1 - Len(task.todo)
    <3>1. /\ age[p] <= Lead(p, task.todo) + Span(k) + task.waited
          /\ task.waited <= CheckTimeout /\ task.waited \in Nat
          /\ Len(task.todo) \in Nat /\ Len(task.todo) + 1 <= N
      BY <1>1, <2>1, <2>2, <2>6 DEF IInv, WaitsBounded, Waits, TaskOK, Task
    <3>2. k \in Nat /\ Span(k) \in Nat /\ Span(k) <= Span(N - 1)
      <4>1. k \in Nat /\ N - 1 \in Nat /\ k <= N - 1
        BY <2>2, <3>1
      <4>. HIDE DEF k
      <4>. QED BY <4>1, Spans
    <3>5. /\ Lead(p, task.todo) \in Nat /\ Lead(p, task.todo) <= Span(N) + CheckInterval
          /\ ~Listed(p, task.todo) => Lead(p, task.todo) = 0
      BY Leads
    <3>3. CASE Listed(p, task.todo)
      <4>1. Len(task.todo) >= 1
        BY <2>2, <3>1, <3>3 DEF Listed, Task
      <4>2. k + 1 \in Nat /\ N - 1 \in Nat /\ k + 1 <= N - 1
        BY <2>2, <3>1, <3>2, <4>1
      <4>. HIDE DEF k
      <4>3. Span(k + 1) = Span(k) + CheckTimeout
        BY <3>2, Spans
      <4>4. Span(k + 1) <= Span(N - 1)
        BY <4>2, Spans
      <4>5. Span(k) + task.waited <= Span(N - 1)
        BY <2>2, <2>3, <3>1, <3>2, <4>3, <4>4
      <4>6. age[p] <= CheckInterval + (Span(N) + (Span(k) + task.waited))
        BY <2>2, <3>1, <3>2, <3>5
      <4>. DEFINE x == Span(k) + task.waited
      <4>7. x \in Nat /\ x <= Span(N - 1) /\ age[p] <= CheckInterval + (Span(N) + x)
        BY <3>1, <3>2, <4>5, <4>6
      <4>. HIDE DEF x
      <4>. QED BY <2>2, <2>3, <4>7
    <3>4. CASE ~Listed(p, task.todo)
      <4>. HIDE DEF k
      <4>1. age[p] <= Span(k) + task.waited
        BY <2>2, <3>1, <3>2, <3>4, <3>5
      <4>2. Span(k) + task.waited <= Span(N)
        BY <2>2, <2>3, <3>1, <3>2
      <4>. QED BY <2>2, <2>3, <3>1, <3>2, <4>1, <4>2
    <3>. QED BY <3>3, <3>4
  <2>. QED BY <2>2, <2>4, <2>5, <2>6 DEF Task
<1>. QED BY <1>1, Invariance, PTL
============================================================================
