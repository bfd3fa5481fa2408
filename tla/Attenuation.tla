---------------------------- MODULE Attenuation ----------------------------
(***************************************************************************)
(* What delegation promises of the tokens clients hold, with no word of    *)
(* keys, configurations, rounding or requests: what a token says is fixed  *)
(* when it is handed out; an issuer's token says anything, a delegated one *)
(* less than the live token it was made from; and none is made from it.    *)
(***************************************************************************)
EXTENDS Integers

CONSTANTS
  Ids, Grace, None,
  Resolution   \* of the reputation and the trust in a token

VARIABLES now, held  \* held: what each token says, None while there is none

vars == <<now, held>>

Init == now = 0 /\ held = [i \in Ids |-> None]

HandOut(i, from) ==
  /\ held[i] = None
  /\ held'[i] # None /\ held'[i].from = from
  /\ held' = [held EXCEPT ![i] = held'[i]]
  /\ UNCHANGED now

Issue(i) == HandOut(i, None)

Live(token) == token.until = None \/ now < token.until

Near(x, y) == 2 * (x - y) <= Resolution /\ 2 * (y - x) <= Resolution

\* None stands for no limit on spending and for no end; a token near its end may be
\* outlived, by a child that gets just the grace period.
Weaker(child, parent) ==
  /\ ~child.passable
  /\ child.scope \subseteq parent.scope
  /\ child.kya = parent.kya /\ Near(child.reputation, parent.reputation)
  /\ child.hops = parent.hops + 1
  /\ 2 * (child.trust - parent.trust) <= Resolution
  /\ child.limit = None <=> parent.limit = None
  /\ parent.limit # None => child.limit <= parent.limit
  /\ child.until # None
  /\ parent.until # None =>
       child.until <= parent.until \/ child.until = now + Grace

Delegate(p, c) ==
  /\ held[p] # None /\ held[p].passable /\ Live(held[p])
  /\ HandOut(c, p)
  /\ Weaker(held'[c], held[p])

Wait == now' = now + 1 /\ UNCHANGED held

Next ==
  \/ \E i \in Ids : Issue(i)
  \/ \E p, c \in Ids : Delegate(p, c)
  \/ Wait

Spec == Init /\ [][Next]_vars
=============================================================================
