-------------------------- MODULE MCTokenIssuance --------------------------
(* Values for the constants of TokenIssuance.  Model values come from the cfg. *)
EXTENDS TokenIssuance, TLC

CONSTANTS alice, bob, v1, v2, none, failure, rejected, r1, r2, r3

\* Readings with more digits than a token keeps.
high == 78
low  == 24

OneAgent == {alice}

\* An account in good standing, one suspended and downgraded.
GoodOrSuspended ==
  {[active |-> TRUE,  kya |-> AUDITABLE, reputation |-> high],
   [active |-> FALSE, kya |-> none,      reputation |-> low]}

\* And one the exchange holds no reputation for.
AnyStanding ==
  GoodOrSuspended \union
    {[active |-> TRUE, kya |-> ORGANIZATIONAL, reputation |-> none]}

\* Below the financial scope's level: only the pilot allowlist can grant it.
Organizational ==
  {[active |-> TRUE, kya |-> ORGANIZATIONAL, reputation |-> high]}

OneVerifier  == {v1}
TwoVerifiers == {v1, v2}

Hashed(v) == [challenge |-> Digest(v), method |-> "S256"]
Plain(v)  == [challenge |-> v, method |-> "plain"]
HashedOnly     == {Hashed(v1)}
HashedAndPlain == {Hashed(v1), Plain(v1)}

ReadRequests     == {{READ}}
FinancialRequest == {{TOOL_FINANCIAL}}

NoPilot == {[allowlist |-> {}, authorize |-> TRUE]}
PilotOrNot ==
  {[allowlist |-> {}, authorize |-> TRUE],
   [allowlist |-> {alice}, authorize |-> TRUE],
   [allowlist |-> {bob}, authorize |-> TRUE],
   [allowlist |-> {}, authorize |-> FALSE]}

\* Ties are rounded up.
HalfUp == [r \in Reputations |->
             CHOOSE q \in Digits(r, 1) : \A p \in Digits(r, 1) : p <= q]

RequestSymmetry == Permutations(Requests)
============================================================================
