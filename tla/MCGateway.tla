----------------------------- MODULE MCGateway -----------------------------
(* Values for the constants of Gateway.  Model values come from the cfg. *)
EXTENDS Gateway, TLC

CONSTANTS alice, v1, none

OneAgent == {alice}

\* In good standing, its reputation rounded up; suspended with less of
\* everything; with nothing to show.
Standings ==
  {[active |-> TRUE,  kya |-> AUDITABLE,      reputation |-> 75],
   [active |-> FALSE, kya |-> ORGANIZATIONAL, reputation |-> 24],
   [active |-> TRUE,  kya |-> none,           reputation |-> none]}

\* One tool for the best alone, one the default reputation is enough for.
TwoTools ==
  {[kya |-> AUDITABLE, reputation |-> 80], [kya |-> SANDBOX, reputation |-> 30]}

OneVerifier  == {v1}
HashedOnly   == {[challenge |-> Digest(v1), method |-> "S256"]}
ReadRequests == {{READ}}
NoPilot      == {[allowlist |-> {}, authorize |-> TRUE]}

\* Ties are rounded up.
HalfUp == [r \in Reputations |->
             CHOOSE q \in Digits(r, 1) : \A p \in Digits(r, 1) : p <= q]

RequestSymmetry == Permutations(Requests)
============================================================================
