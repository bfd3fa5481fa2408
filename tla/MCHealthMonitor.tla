-------------------------- MODULE MCHealthMonitor --------------------------
(***************************************************************************)
(* A small instance of HealthMonitor.  A failure takes 5 to 4, 3, 2 and no *)
(* further, as 2 * 4/5 is rounded to 2.                                    *)
(***************************************************************************)
EXTENDS HealthMonitor

FourFifths == [num |-> 4, den |-> 5]
NearestProduct ==
  [r \in 0..Unit |-> (2 * r * DecayRate.num + DecayRate.den) \div (2 * DecayRate.den)]
=============================================================================
