--------------------------- MODULE TrustDiscount ---------------------------
(***************************************************************************)
(* federation/trust_discount.py: how far another exchange is trusted, from *)
(* the telemetry it exposes, by one of three algorithms.                   *)
(*                                                                         *)
(* rho is a multiple of 1/Unit; a quotient is rounded to that grid towards *)
(* zero, which keeps its order.  1 - exp(-k * volume) is Saturation, a     *)
(* function of which only the order is used.  The telemetry is another     *)
(* exchange's, and moves as it will; the policy is what a gateway is       *)
(* started with.                                                           *)
(***************************************************************************)
EXTENDS Integers, Sequences

CONSTANTS
  Unit,           \* 1.0
  Year,           \* 365 days
  LinearAgeShare, \* the 0.1 of the linear algorithm
  Saturation,     \* [volume -> 0..Unit]
  Policies,
  MaxAge, MaxVolume, MaxTx, MaxRate   \* bounds of the telemetry

VARIABLES
  inputs,   \* TrustDiscountInputs
  policy    \* algorithm and params

vars == <<inputs, policy>>

----------------------------------------------------------------------------
Inputs == [federation_age_days : 0..MaxAge, volume : 0..MaxVolume,
           tx_count : 0..MaxTx, success_rate : 0..MaxRate]

Step == [min_age_days : Nat, min_volume : Nat, min_tx_count : Nat, rho : Nat]

Linear == [kind : {"linear"}, floor : Nat, threshold : Nat, at_threshold : Nat,
           max_rho : Nat]
Stepwise == [kind : {"step"}, floor : Nat, steps : Seq(Step)]
Exponential == [kind : {"exponential"}, floor : Nat, max_rho : Nat, age_weight : Nat]
Policy == Linear \union Stepwise \union Exponential

ASSUME GridAssumption ==
  /\ Unit \in Nat \ {0} /\ Year \in Nat \ {0} /\ LinearAgeShare \in Nat
  /\ MaxAge \in Nat /\ MaxVolume \in Nat /\ MaxTx \in Nat /\ MaxRate \in Nat
ASSUME SaturationAssumption ==
  /\ Saturation \in [0..MaxVolume -> 0..Unit]
  /\ Saturation[0] = 0
  /\ \A v, w \in 0..MaxVolume : v <= w => Saturation[v] <= Saturation[w]
ASSUME PolicyAssumption == Policies \subseteq Policy

----------------------------------------------------------------------------
(* The algorithms *)

AtLeast(a, b) == IF a >= b THEN a ELSE b
AtMost(a, b)  == IF a <= b THEN a ELSE b

\* TrustDiscountResult.__post_init__
\* (Mutant: only the upper bound is applied.)
Clamped_AboveOnly(rho) == AtMost(rho, Unit)
Clamped(rho) == AtLeast(0, AtMost(rho, Unit))

AgeComponent(days, weight) == (AtMost(days, Year) * weight) \div Year

VolumeRho(p, volume) ==
  CASE volume <= 0 -> 0
    [] volume > 0 /\ volume >= p.threshold -> p.at_threshold
    [] volume > 0 /\ volume < p.threshold -> (volume * p.at_threshold) \div p.threshold

LinearRho(p, in) ==
  AtMost(AgeComponent(in.federation_age_days, LinearAgeShare) + VolumeRho(p, in.volume),
         p.max_rho)

Matched(steps, in) ==
  {i \in DOMAIN steps : /\ in.federation_age_days >= steps[i].min_age_days
                        /\ in.volume >= steps[i].min_volume
                        /\ in.tx_count >= steps[i].min_tx_count}

\* The steps are gone through from the last to the first.
\* (Mutant: from the first to the last.)
StepRho_FirstMatch(p, in) ==
  LET matched == Matched(p.steps, in) IN
  IF matched = {} THEN 0
  ELSE p.steps[CHOOSE i \in matched : \A j \in matched : i <= j].rho

StepRho(p, in) ==
  LET matched == Matched(p.steps, in) IN
  IF matched = {} THEN 0
  ELSE p.steps[CHOOSE i \in matched : \A j \in matched : j <= i].rho

\* The part of the ceiling a volume earns.  The ceiling is what the weight of the
\* age leaves of max_rho, and may be negative.
Earned(ceiling, volume) ==
  IF ceiling >= 0 THEN (ceiling * Saturation[volume]) \div Unit
  ELSE -((-ceiling * Saturation[volume]) \div Unit)

ExponentialRho(p, in) ==
  AtMost(AgeComponent(in.federation_age_days, p.age_weight)
         + Earned(p.max_rho - p.age_weight, in.volume), p.max_rho)

\* compute_rho
ComputeRho(p, in) ==
  IF in.success_rate < p.floor THEN Clamped(0)
  ELSE Clamped(CASE p.kind = "linear"      -> LinearRho(p, in)
                 [] p.kind = "step"        -> StepRho(p, in)
                 [] p.kind = "exponential" -> ExponentialRho(p, in))

rho == ComputeRho(policy, inputs)

----------------------------------------------------------------------------
(* The telemetry of a peer *)

Init ==
  /\ inputs \in {in \in Inputs : /\ in.federation_age_days = 0
                                 /\ in.volume = 0 /\ in.tx_count = 0}
  /\ policy \in Policies

DayPasses ==
  /\ inputs.federation_age_days < MaxAge
  /\ inputs' = [inputs EXCEPT !.federation_age_days = @ + 1]
  /\ UNCHANGED policy

Settles(v) ==
  /\ inputs.volume + v <= MaxVolume /\ inputs.tx_count < MaxTx
  /\ inputs' = [inputs EXCEPT !.volume = @ + v, !.tx_count = @ + 1]
  /\ UNCHANGED policy

RateMoves(r) ==
  /\ inputs' = [inputs EXCEPT !.success_rate = r]
  /\ UNCHANGED policy

\* The gateway restarts with another algorithm or other parameters.
PolicyChanges == policy' \in Policies /\ UNCHANGED inputs

Next ==
  \/ DayPasses \/ PolicyChanges
  \/ \E v \in 1..MaxVolume : Settles(v)
  \/ \E r \in 0..MaxRate : RateMoves(r)

Spec == Init /\ [][Next]_vars

----------------------------------------------------------------------------
(* Properties *)

\* rho stays between 0.0 and 1.0 whatever the parameters, a negative share of the
\* exponential algorithm and a step above 1.0 included.
TypeOK == inputs \in Inputs /\ policy \in Policies /\ rho \in 0..Unit

Improves(in, next) ==
  /\ next.federation_age_days >= in.federation_age_days /\ next.volume >= in.volume
  /\ next.tx_count >= in.tx_count /\ next.success_rate >= in.success_rate

\* Parameters under which the algorithms are monotone: later steps are worth more,
\* and the weight of the age leaves something of max_rho.
Ordered(p) ==
  CASE p.kind = "linear"      -> TRUE
    [] p.kind = "step"        -> \A i, j \in DOMAIN p.steps :
                                   i <= j => p.steps[i].rho <= p.steps[j].rho
    [] p.kind = "exponential" -> p.age_weight <= p.max_rho

\* While none of its telemetry gets worse, a peer is never trusted less.
ImprovementStep ==
  Ordered(policy) /\ policy' = policy /\ Improves(inputs, inputs') => rho' >= rho
MoreIsNeverLess == [][ImprovementStep]_vars

\* "Implementations must ... be monotonically non-decreasing with respect to
\* volume", whatever their parameters.
VolumeStep ==
  policy' = policy /\ (\E v \in 1..MaxVolume : Settles(v)) => rho' >= rho
MonotoneInVolume == [][VolumeStep]_vars
=============================================================================
