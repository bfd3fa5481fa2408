------------------------ MODULE TrustDiscountProofs ------------------------
(***************************************************************************)
(* What TrustDiscount promises for every grid, policy and telemetry, and   *)
(* for any saturation that does not fall.                                  *)
(***************************************************************************)
EXTENDS TrustDiscount, IndexLemmas, TLAPS

LEMMA ProductMonotone ==
  ASSUME NEW a \in Nat, NEW b \in Nat, NEW c \in Nat, a <= b
  PROVE  a * c \in Nat /\ b * c \in Nat /\ a * c <= b * c
BY SMT

LEMMA ClampMonotone ==
  ASSUME NEW a \in Int, NEW b \in Int
  PROVE  Clamped(a) \in 0..Unit /\ (a <= b => Clamped(a) <= Clamped(b))
BY GridAssumption DEF Clamped, AtLeast, AtMost

LEMMA AgeMonotone ==
  ASSUME NEW d \in Nat, NEW e \in Nat, NEW w \in Nat, d <= e
  PROVE  /\ AgeComponent(d, w) \in Nat /\ AgeComponent(e, w) \in Nat
         /\ AgeComponent(d, w) <= AgeComponent(e, w)
<1>1. /\ AtMost(d, Year) \in Nat /\ AtMost(e, Year) \in Nat
      /\ AtMost(d, Year) <= AtMost(e, Year) /\ Year \in Nat \ {0}
  BY GridAssumption DEF AtMost
<1>2. /\ AtMost(d, Year) * w \in Nat /\ AtMost(e, Year) * w \in Nat
      /\ AtMost(d, Year) * w <= AtMost(e, Year) * w
  BY <1>1, ProductMonotone
<1>. DEFINE m == AtMost(d, Year) * w
            n == AtMost(e, Year) * w
<1>. HIDE DEF m, n
<1>3. m \in Nat /\ n \in Nat /\ m <= n
  BY <1>2 DEF m, n
<1>4. m \div Year \in Nat /\ n \div Year \in Nat /\ m \div Year <= n \div Year
  BY <1>1, <1>3, QuotientMonotone, SMT
<1>. QED BY <1>4 DEF AgeComponent, m, n

----------------------------------------------------------------------------
(* The linear algorithm *)

\* Below the threshold the volume earns its share, which is no more than all.
LEMMA VolumeBounds ==
  ASSUME NEW p \in Linear, NEW v \in Nat
  PROVE  VolumeRho(p, v) \in Nat /\ VolumeRho(p, v) <= p.at_threshold
<1>1. p.threshold \in Nat /\ p.at_threshold \in Nat
  BY DEF Linear
<1>2. CASE v > 0 /\ v < p.threshold
  <2>1. p.threshold \in Nat \ {0} /\ v <= p.threshold
    BY <1>1, <1>2
  <2>2. /\ v * p.at_threshold \in Nat
        /\ v * p.at_threshold <= p.at_threshold * p.threshold
    <3>1. /\ v * p.at_threshold \in Nat
          /\ v * p.at_threshold <= p.threshold * p.at_threshold
      BY <1>1, <2>1, ProductMonotone
    <3>2. p.threshold * p.at_threshold = p.at_threshold * p.threshold
      BY <1>1, SMT
    <3>. QED BY <3>1, <3>2
  <2>3. VolumeRho(p, v) = (v * p.at_threshold) \div p.threshold
    BY <1>1, <1>2 DEF VolumeRho
  <2>. QED BY <1>1, <2>1, <2>2, <2>3, QuotientBounds
<1>3. CASE v > 0 /\ v >= p.threshold
  BY <1>1, <1>3 DEF VolumeRho
<1>4. CASE v <= 0
  BY <1>1, <1>4 DEF VolumeRho
<1>. QED BY <1>1, <1>2, <1>3, <1>4

LEMMA VolumeMonotone ==
  ASSUME NEW p \in Linear, NEW v \in Nat, NEW w \in Nat, v <= w
  PROVE  VolumeRho(p, v) <= VolumeRho(p, w)
<1>1. p.threshold \in Nat /\ p.at_threshold \in Nat
  BY DEF Linear
<1>2. CASE v <= 0
  <2>1. VolumeRho(p, v) = 0
    BY <1>2 DEF VolumeRho
  <2>2. VolumeRho(p, w) \in Nat
    BY VolumeBounds
  <2>. QED BY <2>1, <2>2
<1>3. CASE w > 0 /\ w >= p.threshold
  <2>1. VolumeRho(p, w) = p.at_threshold
    BY <1>1, <1>3 DEF VolumeRho
  <2>. QED BY <2>1, VolumeBounds
<1>4. CASE v > 0 /\ w < p.threshold
  <2>1. p.threshold \in Nat \ {0} /\ v < p.threshold /\ w > 0
    BY <1>1, <1>4
  <2>2. /\ VolumeRho(p, v) = (v * p.at_threshold) \div p.threshold
        /\ VolumeRho(p, w) = (w * p.at_threshold) \div p.threshold
    BY <1>1, <1>4, <2>1 DEF VolumeRho
  <2>3. /\ v * p.at_threshold \in Nat /\ w * p.at_threshold \in Nat
        /\ v * p.at_threshold <= w * p.at_threshold
    BY <1>1, ProductMonotone
  <2>. QED BY <2>1, <2>2, <2>3, QuotientMonotone
<1>. QED BY <1>1, <1>2, <1>3, <1>4

LEMMA LinearMonotone ==
  ASSUME NEW p \in Linear, NEW in \in Inputs, NEW next \in Inputs, Improves(in, next)
  PROVE  /\ LinearRho(p, in) \in Int /\ LinearRho(p, next) \in Int
         /\ LinearRho(p, in) <= LinearRho(p, next)
<1>1. /\ in.federation_age_days \in Nat /\ next.federation_age_days \in Nat
      /\ in.federation_age_days <= next.federation_age_days
      /\ in.volume \in Nat /\ next.volume \in Nat /\ in.volume <= next.volume
      /\ p.max_rho \in Nat /\ LinearAgeShare \in Nat
  BY GridAssumption DEF Inputs, Improves, Linear
<1>2. /\ AgeComponent(in.federation_age_days, LinearAgeShare) \in Nat
      /\ AgeComponent(next.federation_age_days, LinearAgeShare) \in Nat
      /\ AgeComponent(in.federation_age_days, LinearAgeShare)
           <= AgeComponent(next.federation_age_days, LinearAgeShare)
  BY <1>1, AgeMonotone
<1>3. /\ VolumeRho(p, in.volume) \in Nat /\ VolumeRho(p, next.volume) \in Nat
      /\ VolumeRho(p, in.volume) <= VolumeRho(p, next.volume)
  BY <1>1, VolumeBounds, VolumeMonotone
<1>. QED BY <1>1, <1>2, <1>3 DEF LinearRho, AtMost

----------------------------------------------------------------------------
(* The other two *)

LEMMA StepType ==
  ASSUME NEW p \in Stepwise, NEW in \in Inputs
  PROVE  /\ StepRho(p, in) \in Nat
         /\ Matched(p.steps, in) # {} =>
              \E i \in Matched(p.steps, in) :
                /\ \A j \in Matched(p.steps, in) : j <= i
                /\ StepRho(p, in) = p.steps[i].rho
<1>. DEFINE M == Matched(p.steps, in)
<1>1. /\ p.steps \in Seq(Step) /\ DOMAIN p.steps = 1..Len(p.steps)
      /\ Len(p.steps) \in Nat /\ M \in SUBSET (1..Len(p.steps))
  BY DEF Stepwise, Matched
<1>2. CASE M = {}
  BY <1>2 DEF StepRho
<1>3. CASE M # {}
  <2>. DEFINE g == CHOOSE i \in M : \A j \in M : j <= i
  <2>. HIDE DEF M
  <2>1. \E i \in M : \A j \in M : j <= i
    BY <1>1, <1>3, Greatest
  <2>2. g \in M /\ \A j \in M : j <= g
    BY <2>1
  <2>3. StepRho(p, in) = p.steps[g].rho
    BY <1>3 DEF StepRho, M
  <2>. HIDE DEF g
  <2>4. p.steps[g] \in Step
    BY <1>1, <2>2
  <2>5. p.steps[g].rho \in Nat
    BY <2>4 DEF Step
  <2>. QED BY <2>2, <2>3, <2>5 DEF M
<1>. QED BY <1>2, <1>3

\* Better telemetry meets every milestone it met, so the last one is no earlier.
LEMMA StepMonotone ==
  ASSUME NEW p \in Stepwise, NEW in \in Inputs, NEW next \in Inputs, Improves(in, next),
         \A i, j \in DOMAIN p.steps : i <= j => p.steps[i].rho <= p.steps[j].rho
  PROVE  StepRho(p, in) <= StepRho(p, next)
<1>1. CASE Matched(p.steps, in) = {}
  <2>1. StepRho(p, in) = 0
    BY <1>1 DEF StepRho
  <2>2. StepRho(p, next) \in Nat
    BY StepType
  <2>. QED BY <2>1, <2>2
<1>2. CASE Matched(p.steps, in) # {}
  <2>1. ASSUME NEW i \in Matched(p.steps, in) PROVE i \in Matched(p.steps, next)
    <3>1. i \in DOMAIN p.steps /\ p.steps[i] \in Step
      BY DEF Matched, Stepwise
    <3>. QED BY <3>1 DEF Matched, Inputs, Improves, Step
  <2>2. PICK i \in Matched(p.steps, in) : StepRho(p, in) = p.steps[i].rho
    BY <1>2, StepType
  <2>3. PICK k \in Matched(p.steps, next) :
          /\ \A j \in Matched(p.steps, next) : j <= k
          /\ StepRho(p, next) = p.steps[k].rho
    BY <1>2, <2>1, StepType
  <2>4. i <= k /\ i \in DOMAIN p.steps /\ k \in DOMAIN p.steps
    BY <2>1, <2>2, <2>3 DEF Matched
  <2>. QED BY <2>2, <2>3, <2>4
<1>. QED BY <1>1, <1>2

LEMMA EarnedType ==
  ASSUME NEW c \in Int, NEW v \in 0..MaxVolume
  PROVE  Earned(c, v) \in Int
<1>1. Saturation[v] \in Nat /\ Unit \in Nat \ {0}
  BY SaturationAssumption, GridAssumption
<1>2. ASSUME NEW n \in Nat PROVE n \div Unit \in Int
  BY <1>1, SMT
<1>3. CASE c >= 0
  <2>1. c * Saturation[v] \in Nat
    BY <1>1, <1>3, SMT
  <2>. QED BY <1>2, <1>3, <2>1 DEF Earned
<1>4. CASE ~(c >= 0)
  <2>1. -c * Saturation[v] \in Nat
    BY <1>1, <1>4, SMT
  <2>2. (-c * Saturation[v]) \div Unit \in Int
    BY <1>2, <2>1
  <2>. QED BY <1>4, <2>2 DEF Earned
<1>. QED BY <1>3, <1>4

LEMMA EarnedMonotone ==
  ASSUME NEW c \in Nat, NEW v \in 0..MaxVolume, NEW w \in 0..MaxVolume, v <= w
  PROVE  Earned(c, v) <= Earned(c, w)
<1>1. /\ Saturation[v] \in Nat /\ Saturation[w] \in Nat /\ Saturation[v] <= Saturation[w]
      /\ Unit \in Nat \ {0}
  BY SaturationAssumption, GridAssumption
<1>2. /\ c * Saturation[v] \in Nat /\ c * Saturation[w] \in Nat
      /\ c * Saturation[v] <= c * Saturation[w]
  BY <1>1, SMT
<1>3. (c * Saturation[v]) \div Unit <= (c * Saturation[w]) \div Unit
  BY <1>1, <1>2, QuotientMonotone
<1>. QED BY <1>3 DEF Earned

LEMMA ExponentialMonotone ==
  ASSUME NEW p \in Exponential, NEW in \in Inputs, NEW next \in Inputs, Improves(in, next)
  PROVE  /\ ExponentialRho(p, in) \in Int /\ ExponentialRho(p, next) \in Int
         /\ p.age_weight <= p.max_rho => ExponentialRho(p, in) <= ExponentialRho(p, next)
<1>1. /\ in.federation_age_days \in Nat /\ next.federation_age_days \in Nat
      /\ in.federation_age_days <= next.federation_age_days
      /\ in.volume \in 0..MaxVolume /\ next.volume \in 0..MaxVolume
      /\ in.volume <= next.volume
      /\ p.max_rho \in Nat /\ p.age_weight \in Nat
  BY GridAssumption DEF Inputs, Improves, Exponential
<1>. DEFINE a == AgeComponent(in.federation_age_days, p.age_weight)
            b == AgeComponent(next.federation_age_days, p.age_weight)
            c == p.max_rho - p.age_weight
            d == Earned(c, in.volume)
            e == Earned(c, next.volume)
<1>2. a \in Nat /\ b \in Nat /\ a <= b
  BY <1>1, AgeMonotone
<1>3. c \in Int /\ (p.age_weight <= p.max_rho => c \in Nat)
  BY <1>1
<1>. HIDE DEF c
<1>4. d \in Int /\ e \in Int
  BY <1>1, <1>3, EarnedType
<1>5. p.age_weight <= p.max_rho => d <= e
  BY <1>1, <1>3, EarnedMonotone
<1>6. ExponentialRho(p, in) = AtMost(a + d, p.max_rho)
      /\ ExponentialRho(p, next) = AtMost(b + e, p.max_rho)
  BY DEF ExponentialRho, c
<1>. HIDE DEF a, b, d, e
<1>. QED BY <1>1, <1>2, <1>4, <1>5, <1>6 DEF AtMost

----------------------------------------------------------------------------
(* The theorems *)

LEMMA RhoMonotone ==
  ASSUME NEW p \in Policy, NEW in \in Inputs, NEW next \in Inputs, Improves(in, next)
  PROVE  /\ ComputeRho(p, in) \in 0..Unit
         /\ Ordered(p) => ComputeRho(p, in) <= ComputeRho(p, next)
<1>1. /\ Clamped(0) \in 0..Unit /\ Clamped(0) <= 0 /\ Unit \in Nat
  BY GridAssumption DEF Clamped, AtLeast, AtMost
<1>2. /\ in.success_rate \in Nat /\ next.success_rate \in Nat /\ p.floor \in Nat
      /\ in.success_rate <= next.success_rate
  BY GridAssumption DEF Inputs, Improves, Policy, Linear, Stepwise, Exponential
<1>3. ASSUME NEW a \in Int, NEW b \in Int, Ordered(p) => a <= b,
             in.success_rate >= p.floor => ComputeRho(p, in) = Clamped(a),
             next.success_rate >= p.floor => ComputeRho(p, next) = Clamped(b)
      PROVE  /\ ComputeRho(p, in) \in 0..Unit
             /\ Ordered(p) => ComputeRho(p, in) <= ComputeRho(p, next)
  <2>1. Clamped(a) \in 0..Unit /\ Clamped(b) \in 0..Unit
        /\ (Ordered(p) => Clamped(a) <= Clamped(b))
    BY <1>3, ClampMonotone
  <2>2. CASE in.success_rate < p.floor
    <3>1. ComputeRho(p, in) = Clamped(0)
      BY <2>2 DEF ComputeRho
    <3>2. ComputeRho(p, next) = Clamped(0) \/ ComputeRho(p, next) = Clamped(b)
      <4>1. CASE next.success_rate < p.floor
        BY <4>1 DEF ComputeRho
      <4>2. CASE next.success_rate >= p.floor
        BY <1>3, <4>2
      <4>. QED BY <1>2, <4>1, <4>2
    <3>. QED BY <1>1, <2>1, <3>1, <3>2
  <2>3. CASE in.success_rate >= p.floor
    BY <1>2, <1>3, <2>1, <2>3
  <2>. QED BY <1>2, <2>2, <2>3
<1>4. CASE p \in Linear
  <2>1. p.kind = "linear"
    BY <1>4 DEF Linear
  <2>2. /\ in.success_rate >= p.floor => ComputeRho(p, in) = Clamped(LinearRho(p, in))
        /\ next.success_rate >= p.floor => ComputeRho(p, next) = Clamped(LinearRho(p, next))
    BY <1>2, <2>1 DEF ComputeRho
  <2>. QED BY <1>3, <1>4, <2>2, LinearMonotone
<1>5. CASE p \in Stepwise
  <2>1. p.kind = "step"
    BY <1>5 DEF Stepwise
  <2>2. /\ in.success_rate >= p.floor => ComputeRho(p, in) = Clamped(StepRho(p, in))
        /\ next.success_rate >= p.floor => ComputeRho(p, next) = Clamped(StepRho(p, next))
    BY <1>2, <2>1 DEF ComputeRho
  <2>3. StepRho(p, in) \in Int /\ StepRho(p, next) \in Int
    BY <1>5, StepType
  <2>4. Ordered(p) => StepRho(p, in) <= StepRho(p, next)
    BY <1>5, <2>1, StepMonotone DEF Ordered
  <2>. QED BY <1>3, <2>2, <2>3, <2>4
<1>6. CASE p \in Exponential
  <2>1. p.kind = "exponential"
    BY <1>6 DEF Exponential
  <2>2. /\ in.success_rate >= p.floor => ComputeRho(p, in) = Clamped(ExponentialRho(p, in))
        /\ next.success_rate >= p.floor =>
             ComputeRho(p, next) = Clamped(ExponentialRho(p, next))
    BY <1>2, <2>1 DEF ComputeRho
  <2>3. /\ ExponentialRho(p, in) \in Int /\ ExponentialRho(p, next) \in Int
        /\ Ordered(p) => ExponentialRho(p, in) <= ExponentialRho(p, next)
    BY <1>6, <2>1, ExponentialMonotone DEF Ordered
  <2>. QED BY <1>3, <2>2, <2>3
<1>. QED BY <1>4, <1>5, <1>6 DEF Policy

\* rho is always between 0.0 and 1.0.
THEOREM TypeCorrect == Spec => []TypeOK
<1>. DEFINE Inv == inputs \in Inputs /\ policy \in Policies
<1>1. Init => Inv
  BY DEF Init
<1>2. Inv /\ [Next]_vars => Inv'
  <2>. SUFFICES ASSUME Inv, [Next]_vars PROVE Inv'
    OBVIOUS
  <2>0. MaxAge \in Nat /\ MaxVolume \in Nat /\ MaxTx \in Nat /\ MaxRate \in Nat
    BY GridAssumption
  <2>1. CASE DayPasses
    BY <2>0, <2>1 DEF DayPasses, Inputs
  <2>2. ASSUME NEW v \in 1..MaxVolume, Settles(v) PROVE Inv'
    <3>1. inputs.volume + v \in 0..MaxVolume /\ inputs.tx_count + 1 \in 0..MaxTx
      BY <2>0, <2>2 DEF Settles, Inputs
    <3>. QED BY <2>2, <3>1 DEF Settles, Inputs
  <2>3. ASSUME NEW r \in 0..MaxRate, RateMoves(r) PROVE Inv'
    BY <2>3 DEF RateMoves, Inputs
  <2>4. CASE PolicyChanges \/ UNCHANGED vars
    BY <2>4 DEF PolicyChanges, vars
  <2>. QED BY <2>1, <2>2, <2>3, <2>4 DEF Next
<1>3. Inv => TypeOK
  <2>1. ASSUME NEW in \in Inputs PROVE Improves(in, in)
    BY GridAssumption DEF Improves, Inputs
  <2>. QED BY <2>1, RhoMonotone, PolicyAssumption DEF TypeOK, rho
<1>. QED BY <1>1, <1>2, <1>3, PTL DEF Spec

\* Better telemetry never costs trust, under any policy whose steps ascend or
\* whose weight of the age leaves something of max_rho.
THEOREM ImprovementCostsNothing == Spec => MoreIsNeverLess
<1>1. ASSUME TypeOK, TypeOK' PROVE ImprovementStep
  <2>1. SUFFICES ASSUME Ordered(policy), policy' = policy, Improves(inputs, inputs')
                 PROVE  rho' >= rho
    BY DEF ImprovementStep
  <2>2. /\ policy \in Policy /\ inputs \in Inputs /\ inputs' \in Inputs
        /\ rho \in 0..Unit /\ rho' \in 0..Unit
    BY <1>1, PolicyAssumption DEF TypeOK
  <2>3. rho = ComputeRho(policy, inputs) /\ rho' = ComputeRho(policy, inputs')
    BY <2>1 DEF rho
  <2>4. ComputeRho(policy, inputs) <= ComputeRho(policy, inputs')
    BY <2>1, <2>2, RhoMonotone
  <2>. QED BY <2>2, <2>3, <2>4, GridAssumption
<1>. QED BY <1>1, TypeCorrect, PTL DEF MoreIsNeverLess

\* More volume never costs trust as long as every policy a gateway is started with
\* is ordered, which is enough for the promise of the doc.
THEOREM OrderedIsMonotone ==
  ASSUME \A p \in Policies : Ordered(p)
  PROVE  Spec => MonotoneInVolume
<1>1. ASSUME TypeOK, TypeOK', ImprovementStep \/ UNCHANGED vars PROVE VolumeStep
  <2>1. SUFFICES ASSUME policy' = policy, NEW v \in 1..MaxVolume, Settles(v)
                 PROVE  rho' >= rho
    BY DEF VolumeStep
  <2>2. /\ policy \in Policies /\ inputs \in Inputs /\ inputs' \in Inputs
        /\ rho \in 0..Unit /\ Unit \in Nat
    BY <1>1, GridAssumption DEF TypeOK
  <2>3. Improves(inputs, inputs')
    BY <2>1, <2>2, GridAssumption DEF Settles, Improves, Inputs
  <2>4. CASE ImprovementStep
    BY <2>1, <2>2, <2>3, <2>4 DEF ImprovementStep
  <2>5. CASE UNCHANGED vars
    BY <2>2, <2>5 DEF rho, vars
  <2>. QED BY <1>1, <2>4, <2>5
<1>. QED BY <1>1, TypeCorrect, ImprovementCostsNothing, PTL
         DEF MoreIsNeverLess, MonotoneInVolume
============================================================================
