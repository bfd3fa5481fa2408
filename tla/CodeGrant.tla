----------------------------- MODULE CodeGrant -----------------------------
(***************************************************************************)
(* What the authorization code flow of oauth/provider.py promises, with no *)
(* word of stores, clocks, verifiers or processes: a code is issued once,  *)
(* for one grant; a token minted from it says exactly that; and it is gone *)
(* with the first use, or without one.                                     *)
(***************************************************************************)
CONSTANTS Codes, Holders, Grants

VARIABLES
  issued,   \* codes there have ever been
  live,     \* codes that can be redeemed, with their grants
  minted    \* tokens: who redeemed which code, and what the token grants

vars == <<issued, live, minted>>

Init == issued = {} /\ live = {} /\ minted = {}

Issue(c) ==
  /\ c \notin issued
  /\ issued' = issued \union {c}
  /\ \E g \in Grants : live' = live \union {[code |-> c, grant |-> g]}
  /\ UNCHANGED minted

Redeem(l) ==
  /\ live' = live \ {l}
  /\ \E h \in Holders :
       minted' = minted \union {[holder |-> h, code |-> l.code, grant |-> l.grant]}
  /\ UNCHANGED issued

\* Codes are presented in vain, or lost with the process.
Lose ==
  /\ live' \subseteq live
  /\ UNCHANGED <<issued, minted>>

Next ==
  \/ \E c \in Codes : Issue(c)
  \/ \E l \in live : Redeem(l)
  \/ Lose

Spec == Init /\ [][Next]_vars
============================================================================
