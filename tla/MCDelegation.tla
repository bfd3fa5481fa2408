---------------------------- MODULE MCDelegation ----------------------------
(* Instances of Delegation for TLC. *)
EXTENDS Delegation, TLC

CONSTANTS alice, bob, t1, t2, t3

\* A foreign token with four digits at one hop, everything delegable; Unit is
\* 30, of which Grain = 3 make a digit.
Plain == [agent |-> bob, scope |-> {READ, TOOL_FINANCIAL}, kya |-> AUDITABLE,
          reputation |-> 27, effective |-> 21, decay |-> 24, depth |-> 1,
          chain |-> 1, transferable |-> TRUE, limit |-> 100]
Weaker == [Plain EXCEPT !.kya = ORGANIZATIONAL, !.decay = None, !.effective = 0,
                        !.limit = None]
Leaf   == [Plain EXCEPT !.transferable = FALSE]
\* With more digits than its children are given.
Finer  == [Plain EXCEPT !.reputation = 17, !.effective = 14, !.decay = 30]

Lasting(claims, ttl) == [claims |-> claims, ttl |-> ttl]

\* Lifetimes around the floor, the default and none at all.
LifetimeRoots == {Lasting(Plain, 1), Lasting(Plain, 3), Lasting(Weaker, None),
                  Lasting(Leaf, 3), Lasting(Finer, 3)}
OutliveRoots  == {Lasting(Plain, 1), Lasting(Plain, 3)}

\* Every reputation of four digits and several factors, at depths up to two.
GridRoots ==
  {Lasting([Plain EXCEPT !.reputation = r, !.decay = d, !.depth = n,
                         !.chain = n, !.effective = e, !.limit = l], None) :
     r \in Amounts, d \in {12, 15, 24, 30}, n \in 0..2, e \in Amounts,
     l \in {None, 7}}
ConsistentRoots == {root \in GridRoots : Consistent(root.claims)}

\* Any trust between the digits.
FinerRoots ==
  {Lasting([Finer EXCEPT !.effective = e, !.decay = d], None) :
     e \in Amounts, d \in {24, 30}}

\* Which scopes a parent has, at which level.
ScopeRoots ==
  {Lasting([Plain EXCEPT !.scope = s, !.kya = k], 3) :
     s \in {{READ}, {TOOL_FINANCIAL}, {READ, TOOL_WRITE, TOOL_FINANCIAL}},
     k \in {SANDBOX, ORGANIZATIONAL, AUDITABLE}}

OneActor  == {bob}
Actors2   == {alice, bob}
NoRequest == {{}}
Requests  == {{}, {TOOL_FINANCIAL}, {READ, TOOL_FINANCIAL}, {TOOL_WRITE}}

Basic   == [kya |-> SANDBOX, reputation |-> 0]
Trusted == [kya |-> AUDITABLE, reputation |-> 18]
TwoTools == {Basic, Trusted}

Env(allowlist, maxDepth, decay) ==
  [allowlist |-> allowlist, maxDepth |-> maxDepth, decay |-> decay]
TwoFactors == {Env({}, 2, 24), Env({}, 2, 30)}
Factors    == {Env({}, 3, d) : d \in {12, 15, 24, 30}} \union {Env({}, 2, 24)}
Pilots     == {Env({}, 2, 24), Env({bob}, 2, 24), Env({alice}, 1, 24)}

AllRoots == ConsistentRoots \union ScopeRoots \union FinerRoots
FactorsAndPilots == Factors \union Pilots

IdSymmetry == Permutations(Ids)
=============================================================================
