-------------------------- MODULE MCTrustDiscount --------------------------
(***************************************************************************)
(* A small instance of TrustDiscount: rho on a grid of 1/40, a year of two *)
(* days, and a policy or two of each kind.                                 *)
(***************************************************************************)
EXTENDS TrustDiscount

HalfLives == [v \in 0..4 |-> <<0, 20, 30, 35, 37>>[v + 1]]

StepOf(age, volume, tx, r) ==
  [min_age_days |-> age, min_volume |-> volume, min_tx_count |-> tx, rho |-> r]

LinearPolicy == [kind |-> "linear", floor |-> 1, threshold |-> 3, at_threshold |-> 16,
                 max_rho |-> 17]
NoThreshold  == [LinearPolicy EXCEPT !.threshold = 0, !.floor = 0]
Milestones   == [kind |-> "step", floor |-> 2,
                 steps |-> <<StepOf(1, 0, 0, 4), StepOf(0, 3, 0, 10), StepOf(1, 0, 2, 10),
                             StepOf(2, 2, 1, 41)>>]
NoSteps      == [kind |-> "step", floor |-> 1, steps |-> <<>>]
Diminishing  == [kind |-> "exponential", floor |-> 1, max_rho |-> 34, age_weight |-> 4]
AgeOnly      == [Diminishing EXCEPT !.max_rho = 4]

\* A max_rho below the default age_weight of 0.1.
LowCeiling   == [Diminishing EXCEPT !.max_rho = 1]

AllPolicies == {LinearPolicy, NoThreshold, Milestones, NoSteps, Diminishing, AgeOnly,
                LowCeiling}
LowCeilingOnly == {LowCeiling}
=============================================================================
