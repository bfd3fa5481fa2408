------------------------------ MODULE Rounding ------------------------------
(***************************************************************************)
(* round(x, 4), which TrustScore.summary applies to the values of a token. *)
(* Values are counted in steps finer than the fourth digit: Grain steps    *)
(* make 0.0001.                                                            *)
(***************************************************************************)
EXTENDS Integers

CONSTANT Grain   \* steps in 0.0001

ASSUME GrainAssumption == Grain \in Nat \ {0}

\* The integers nearest to n/d.  At a tie either may come out, since the code
\* rounds a binary float that is a little to one side or the other.
Nearest(n, d) ==
  {q \in {n \div d, n \div d + 1} : 2 * (q * d - n) <= d /\ 2 * (n - q * d) <= d}

\* n/d in four digits.
Digits(n, d) == {Grain * q : q \in Nearest(n, Grain * d)}
=============================================================================
