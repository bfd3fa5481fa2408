----------------------------- MODULE PeerTrust -----------------------------
(***************************************************************************)
(* What federation/health_monitor.py promises, with no word of a task,     *)
(* rounds, records, time or awaits: the modifier of a federated peer is    *)
(* what the peer's own checks since it joined make of it, one check after  *)
(* the other, and nothing else moves it.                                   *)
(***************************************************************************)
EXTENDS Integers

CONSTANTS
  Peers,
  Full, Floor,   \* trust of a peer that joins; what decay leaves of it
  Gain,          \* trust an answer regains
  Left,          \* of each trust, what a failure leaves from the Trigger-th in a row
  Trigger,
  Gone

VARIABLES
  trust,   \* of each peer, Gone without it
  failed   \* checks failed in a row, up to Trigger

vars == <<trust, failed>>

Init == trust = [p \in Peers |-> Gone] /\ failed = [p \in Peers |-> 0]

Set(p, t, f) ==
  trust' = [trust EXCEPT ![p] = t] /\ failed' = [failed EXCEPT ![p] = f]

\* A peer joins, or is announced again and forgiven.
Join(p) == Set(p, Full, 0)

Leave(p) == Set(p, Gone, 0)

Least(x, y)    == IF x <= y THEN x ELSE y
Greatest(x, y) == IF x <= y THEN y ELSE x

Answers(p) == trust[p] # Gone /\ Set(p, Least(trust[p] + Gain, Full), 0)

\* A failure is forgiven until it is the Trigger-th in a row.
Fails(p) ==
  /\ trust[p] # Gone
  /\ \/ failed[p] + 1 < Trigger /\ Set(p, trust[p], failed[p] + 1)
     \/ /\ failed[p] + 1 >= Trigger
        /\ Set(p, Greatest(Left[trust[p]], Floor), Trigger)

Next == \E p \in Peers : Join(p) \/ Leave(p) \/ Answers(p) \/ Fails(p)

Spec == Init /\ [][Next]_vars
=============================================================================
