----------------------------- MODULE TrustDecay -----------------------------
(***************************************************************************)
(* The arithmetic of trust/trust_decay.py.  A trust value, a reputation    *)
(* and a decay factor lie between 0 and 1 and are counted here in 1/Unit,  *)
(* of which Grain make the fourth digit, the last that TrustScore.summary  *)
(* keeps of the values a token carries.                                    *)
(***************************************************************************)
EXTENDS Rounding

CONSTANTS
  Unit,        \* steps in 1.0
  DepthBound   \* bound on the delegation depth a foreign token claims

ASSUME UnitAssumption ==
  Unit \in Nat \ {0} /\ Unit % Grain = 0 /\ DepthBound \in Nat

Amounts == 0..Unit

\* What x^n means, for the bases and exponents that occur: the provers do not
\* know exponentiation.
ASSUME PowerAssumption ==
  \A x \in Amounts : /\ x^1 = x
                     /\ \A n \in 1..DepthBound : x^n \in Nat /\ x^(n+1) = x * x^n
ASSUME PositivePowerAssumption == \A n \in 1..DepthBound : Unit^n > 0

\* compute_effective_trust >= required, without division: the effective trust
\* is reputation * factor ^ depth.
EffectiveAtLeast(reputation, factor, depth, required) ==
  IF depth = 0 THEN reputation >= required
  ELSE reputation * factor^depth >= required * Unit^depth

\* apply_delegation_decay: the child's effective trust, in 1/(Unit*Unit) as it
\* is before summary rounds it, and nothing past the depth limit.
\* (Mutant: the factor is added to the trust instead of applied to it.)
DecayedTrust_Added(effective, decay, newDepth, maxDepth) ==
  IF newDepth > maxDepth THEN 0 ELSE effective * Unit + effective * decay
DecayedTrust(effective, decay, newDepth, maxDepth) ==
  IF newDepth > maxDepth THEN 0 ELSE effective * decay
=============================================================================
